------------------------------ MODULE Sessions ------------------------------
(***************************************************************************)
(* Sessions of one account: login, logout and change_password in           *)
(* apps/api/app.py, the check of a token against the account               *)
(* (_verify_live_session in observability/auth.py), and the password from  *)
(* the environment that a start may apply (_sync_admin_password).          *)
(*                                                                         *)
(* A token counts by the version it carries.  A hash is its password and   *)
(* where it was made: hashing one password twice gives two hashes.         *)
(***************************************************************************)
EXTENDS Integers

CONSTANTS
    Requests,        \* concurrent logouts and password changes
    Passwords,
    MaxVersion,      \* bound on token_version
    SeMaxRestarts    \* bound on starts of the API

VARIABLES
    seVersion, seHash,   \* users: token_version, password_hash
    seMark, seEnv,       \* app_state's marker; ADMIN_PASSWORD_HASH
    seReq,               \* per request: step, and what it has loaded
    seIssued,            \* versions that some token carries
    seRevoked,           \* history: versions of the tokens issued before some bump
    seWanted,            \* history: the hash last asked for, by a change or by a new environment
    seStale,             \* history: a bump was written over a version it had not read
    seRestarts

seVars == <<seVersion, seHash, seMark, seEnv, seReq, seIssued, seRevoked, seWanted, seStale, seRestarts>>

SeIdle == [step |-> "idle"]
EnvHash(p) == [pw |-> p, made |-> "env"]
WebHash(p) == [pw |-> p, made |-> "web"]

\* The first start seeds the admin from the environment and notes what it applied.
SeInit ==
    /\ seEnv \in {EnvHash(p) : p \in Passwords}
    /\ seHash = seEnv /\ seMark = seEnv /\ seWanted = seEnv
    /\ seVersion = 0 /\ seReq = [q \in Requests |-> SeIdle]
    /\ seIssued = {} /\ seRevoked = {} /\ seStale = FALSE /\ seRestarts = 0

\* One read of the account, and a token of the version read.
Login(p) ==
    /\ seHash.pw = p /\ seIssued' = seIssued \cup {seVersion}
    /\ UNCHANGED <<seVersion, seHash, seMark, seEnv, seReq, seRevoked, seWanted, seStale, seRestarts>>

\* get_current_user: the token's version is the account's.
Resolve(q, r) ==
    /\ seReq[q] = SeIdle /\ seVersion \in seIssued
    /\ seReq' = [seReq EXCEPT ![q] = r]
    /\ UNCHANGED <<seVersion, seHash, seMark, seEnv, seIssued, seRevoked, seWanted, seStale, seRestarts>>

ResolveLogout(q) == Resolve(q, [step |-> "logout"])
ResolveChange(q, old, new) == old # new /\ Resolve(q, [step |-> "change", old |-> old, new |-> new])

\* The handler loads the account in a session of its own, without a lock.
Load(q) ==
    /\ seReq[q].step \in {"logout", "change"} /\ seVersion < MaxVersion
    /\ seReq' = [seReq EXCEPT ![q] =
         CASE @.step = "logout" -> [step |-> "bump", version |-> seVersion]
           [] @.step = "change" /\ @.old = seHash.pw ->
                [step |-> "rehash", version |-> seVersion, hash |-> WebHash(@.new)]
           [] OTHER -> SeIdle]   \* 401
    /\ UNCHANGED <<seVersion, seHash, seMark, seEnv, seIssued, seRevoked, seWanted, seStale, seRestarts>>

\* token_version = loaded + 1, in a row that may have changed since.
Bump(version) ==
    /\ seVersion' = version + 1
    /\ seRevoked' = seRevoked \cup seIssued
    /\ seStale' = (seStale \/ version # seVersion)

CommitLogout(q) ==
    /\ seReq[q].step = "bump" /\ Bump(seReq[q].version)
    /\ seReq' = [seReq EXCEPT ![q] = SeIdle]
    /\ UNCHANGED <<seHash, seMark, seEnv, seIssued, seWanted, seRestarts>>

\* Mutant of CommitChange: the new password leaves the version alone.
CommitChangeUnbumped(q) ==
    /\ seReq[q].step = "rehash"
    /\ seHash' = seReq[q].hash /\ seWanted' = seReq[q].hash
    /\ seRevoked' = seRevoked \cup seIssued
    /\ seReq' = [seReq EXCEPT ![q] = SeIdle]
    /\ UNCHANGED <<seVersion, seMark, seEnv, seIssued, seStale, seRestarts>>

\* The caller's tab gets a token of the new version.
CommitChange(q) ==
    /\ seReq[q].step = "rehash" /\ Bump(seReq[q].version)
    /\ seHash' = seReq[q].hash /\ seWanted' = seReq[q].hash
    /\ seIssued' = seIssued \cup {seReq[q].version + 1}
    /\ seReq' = [seReq EXCEPT ![q] = SeIdle]
    /\ UNCHANGED <<seMark, seEnv, seRestarts>>

\* _sync_admin_password, one transaction.
Sync(env) ==
    IF seMark = env
    THEN UNCHANGED <<seHash, seVersion, seMark, seRevoked, seStale>>
    ELSE /\ seHash' = env /\ seMark' = env
         /\ IF seHash # env THEN Bump(seVersion) ELSE UNCHANGED <<seVersion, seRevoked, seStale>>

\* The API starts again, with the same environment or another one.
Start(env) ==
    /\ seRestarts < SeMaxRestarts /\ seRestarts' = seRestarts + 1 /\ seVersion < MaxVersion
    /\ seEnv' = env /\ Sync(env)
    /\ seWanted' = IF env = seEnv THEN seWanted ELSE env
    /\ seReq' = [q \in Requests |-> SeIdle] /\ UNCHANGED seIssued

SeNext ==
    \/ \E p \in Passwords : Login(p) \/ Start(EnvHash(p))
    \/ \E q \in Requests :
         \/ ResolveLogout(q) \/ (\E old, new \in Passwords : ResolveChange(q, old, new))
         \/ Load(q) \/ CommitLogout(q) \/ CommitChange(q)

SeSpec == SeInit /\ [][SeNext]_seVars

-----------------------------------------------------------------------------
\* "Bumping it invalidates every token issued before this call" (logout): a
\* revoked token is not accepted again, by any later change or start, unless
\* a bump was written over a version it had not read.
RevokedStaysOut == ~seStale => seVersion \notin seRevoked

\* "re-applying an unchanged env value on every boot would silently revert it"
\* (_sync_admin_password): the password is the one last asked for, by a
\* change or by a new value of the environment, however often the API starts.
PasswordIsKept == seHash = seWanted

\* The last word about the account holds: a revocation, and a password.
LastWordHolds == RevokedStaysOut /\ PasswordIsKept

(***************************************************************************)
(* What a step relies on for LastWordHolds to survive it.                  *)
(***************************************************************************)

\* The steps of a request, with what it has loaded.
RequestSteps ==
    {SeIdle, [step |-> "logout"]}
      \cup [step : {"change"}, old : Passwords, new : Passwords]
      \cup [step : {"bump"}, version : Nat]
      \cup [step : {"rehash"}, version : Nat, hash : {WebHash(p) : p \in Passwords}]

SeTypeOK ==
    /\ seVersion \in Nat /\ seReq \in [Requests -> RequestSteps]
    /\ seIssued \subseteq Nat /\ seRevoked \subseteq Nat /\ seStale \in BOOLEAN

\* Unless a bump was misplaced, no token is ahead of the account, and every
\* revoked one is behind it.
TokensAreBehind ==
    ~seStale => (\A v \in seIssued : v <= seVersion) /\ (\A v \in seRevoked : v < seVersion)

\* The marker names the environment the running API was started with.
SessionsInv == SeTypeOK /\ TokensAreBehind /\ PasswordIsKept /\ seMark = seEnv
=============================================================================
