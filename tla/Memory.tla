------------------------------- MODULE Memory -------------------------------
(***************************************************************************)
(* The life of memory items (MemoryService): candidates come from the API  *)
(* and the source monitor, the scheduler's maintenance expires and promotes*)
(* them, an administrator activates or rejects them, and a search serves   *)
(* the verified ones.                                                      *)
(*                                                                         *)
(* A decision loads the item and commits later, and maintenance reads two  *)
(* sets of items before its one commit; no row is locked while it is read, *)
(* and an UPDATE writes the columns the session changed.  approve,         *)
(* supersede and link_contradiction have no caller in the program.         *)
(***************************************************************************)
EXTENDS Integers

CONSTANTS
  Items,
  Admins,         \* decisions the API can be handling at once
  MinRuns,        \* completed runs a promotion needs (min_runs, 2)
  MeMaxTime,      \* bound: ticks of the clock
  MeMaxFailures   \* bound: maintenance passes that fail

ASSUME MemoryAssumption == MinRuns \in Nat /\ MeMaxTime \in Nat /\ MeMaxFailures \in Nat

VARIABLES
  meItem,      \* the rows
  meNow,
  meRuns,      \* completed runs, counted up to MinRuns
  mePc, meX, meP,  \* maintenance: step, items read as expired, items read as promotable
  meReq,       \* per administrator: the decision under way and what it loaded
  mePromoted,  \* history: items a maintenance pass promoted
  meRejected,  \* history: items a decision rejected
  meStale,     \* history: rejected while an earlier reader of the item was under way
  meFailures

meVars == <<meItem, meNow, meRuns, mePc, meX, meP, meReq, mePromoted, meRejected, meStale, meFailures>>

Never == MeMaxTime + 1

MeInit ==
  /\ meItem = [i \in Items |-> [status |-> "none", verified |-> FALSE, high |-> FALSE, expires |-> Never]]
  /\ meNow = 0 /\ meRuns = 0
  /\ mePc = "idle" /\ meX = {} /\ meP = {}
  /\ meReq = [a \in Admins |-> [step |-> "idle"]]
  /\ mePromoted = {} /\ meRejected = {} /\ meStale = {} /\ meFailures = 0

Live(i) == meItem[i].expires > meNow

(* search with verified_only, as retrieve_for_context calls it: what a     *)
(* reader of the memory is given.                                          *)
Served(i) ==
  /\ meItem[i].status \in {"ACTIVE", "APPROVED", "AUTO_APPROVED"}
  /\ meItem[i].verified /\ Live(i)

-----------------------------------------------------------------------------
MeTick == meNow < MeMaxTime /\ meNow' = meNow + 1
          /\ UNCHANGED <<meItem, meRuns, mePc, meX, meP, meReq, mePromoted, meRejected, meStale, meFailures>>

RunCompletes == meRuns < MinRuns /\ meRuns' = meRuns + 1
                /\ UNCHANGED <<meItem, meNow, mePc, meX, meP, meReq, mePromoted, meRejected, meStale, meFailures>>

\* A candidate, of high confidence or not, with a time to live or without.
create_candidate(i) ==
  /\ meItem[i].status = "none"
  /\ \E high \in BOOLEAN, expires \in (meNow + 1) .. Never :
       meItem' = [meItem EXCEPT ![i] = [status |-> "CANDIDATE", verified |-> FALSE,
                                        high |-> high, expires |-> expires]]
  /\ UNCHANGED <<meNow, meRuns, mePc, meX, meP, meReq, mePromoted, meRejected, meStale, meFailures>>

-----------------------------------------------------------------------------
\* decide_memory loads the item; an item that does not exist is answered with 404.
Decide(a, i, decision) ==
  /\ meReq[a].step = "idle" /\ meItem[i].status # "none"
  /\ meReq' = [meReq EXCEPT ![a] = [step |-> "loaded", item |-> i, decision |-> decision,
                                    status |-> meItem[i].status]]
  /\ UNCHANGED <<meItem, meNow, meRuns, mePc, meX, meP, mePromoted, meRejected, meStale, meFailures>>

\* Mutant: every item that is not rejected can be activated.
mark_active_any(row, loaded) ==
  IF loaded # "REJECTED" THEN [row EXCEPT !.status = "ACTIVE", !.verified = TRUE] ELSE row

\* mark_active, given the status that was loaded.
mark_active(row, loaded) ==
  IF loaded \in {"APPROVED", "AUTO_APPROVED"}
  THEN [row EXCEPT !.status = "ACTIVE", !.verified = TRUE] ELSE row

\* reject: whatever the status was; the verification mark stays.
reject(row) == [row EXCEPT !.status = "REJECTED"]

\* Somebody else has read the item and will write what it read.
ReadBefore(a, i) ==
  \/ i \in meP /\ mePc # "idle"
  \/ \E b \in Admins \ {a} :
       meReq[b].step = "loaded" /\ meReq[b].item = i /\ meReq[b].decision = "activate"

DecisionCommits(a) ==
  /\ meReq[a].step = "loaded"
  /\ LET i == meReq[a].item IN
       \/ /\ meReq[a].decision = "activate"
          /\ meItem' = [meItem EXCEPT ![i] = mark_active(@, meReq[a].status)]
          /\ UNCHANGED <<meRejected, meStale>>
       \/ /\ meReq[a].decision = "reject"
          /\ meItem' = [meItem EXCEPT ![i] = reject(@)]
          /\ meRejected' = meRejected \cup {i}
          /\ meStale' = IF ReadBefore(a, i) THEN meStale \cup {i} ELSE meStale
  /\ meReq' = [meReq EXCEPT ![a] = [step |-> "idle"]]
  /\ UNCHANGED <<meNow, meRuns, mePc, meX, meP, mePromoted, meFailures>>

-----------------------------------------------------------------------------
\* Mutant: only what is served is swept.
expire_sweep_served ==
  /\ mePc = "idle" /\ mePc' = "swept"
  /\ meX' = {i \in Items : ~Live(i) /\ meItem[i].status \in {"ACTIVE", "AUTO_APPROVED"}}
  /\ UNCHANGED <<meItem, meNow, meRuns, meP, meReq, mePromoted, meRejected, meStale, meFailures>>

\* Maintenance begins: expire_sweep reads the items past their time, rejected ones too.
expire_sweep ==
  /\ mePc = "idle" /\ mePc' = "swept"
  /\ meX' = {i \in Items : ~Live(i) /\ meItem[i].status \notin {"none", "EXPIRED"}}
  /\ UNCHANGED <<meItem, meNow, meRuns, meP, meReq, mePromoted, meRejected, meStale, meFailures>>

(* auto_promote_candidates reads the candidates above the threshold, once  *)
(* enough runs have completed; what the sweep has set is no candidate.     *)
auto_promote_candidates ==
  /\ mePc = "swept" /\ mePc' = "read"
  /\ meP' = {i \in Items \ meX : /\ meRuns >= MinRuns /\ Live(i)
                                /\ meItem[i].status = "CANDIDATE" /\ meItem[i].high}
  /\ UNCHANGED <<meItem, meNow, meRuns, meX, meReq, mePromoted, meRejected, meStale, meFailures>>

(* The one commit of auto_promote_memory.  A decision that meets a row the *)
(* pass has flushed waits for it, and so falls after this step.            *)
MaintenanceCommits ==
  /\ mePc = "read" /\ mePc' = "idle" /\ meX' = {} /\ meP' = {}
  /\ meItem' = [i \in Items |->
       CASE i \in meX -> [meItem[i] EXCEPT !.status = "EXPIRED"]
         [] i \in meP \ meX -> [meItem[i] EXCEPT !.status = "AUTO_APPROVED", !.verified = TRUE]
         [] OTHER -> meItem[i]]
  /\ mePromoted' = mePromoted \cup meP
  /\ UNCHANGED <<meNow, meRuns, meReq, meRejected, meStale, meFailures>>

\* It fails: the pass is rolled back, the loop goes on with the next one.
MaintenanceFails ==
  /\ mePc # "idle" /\ meFailures < MeMaxFailures
  /\ meFailures' = meFailures + 1 /\ mePc' = "idle" /\ meX' = {} /\ meP' = {}
  /\ UNCHANGED <<meItem, meNow, meRuns, meReq, mePromoted, meRejected, meStale>>

Maintenance == expire_sweep \/ auto_promote_candidates \/ MaintenanceCommits

MeNext ==
  \/ MeTick \/ RunCompletes \/ Maintenance \/ MaintenanceFails
  \/ \E i \in Items : create_candidate(i)
  \/ \E a \in Admins : DecisionCommits(a)
                       \/ \E i \in Items, d \in {"activate", "reject"} : Decide(a, i, d)

MeSpec == MeInit /\ [][MeNext]_meVars

\* SchedulerLoop.run never ends; a pass has to finish, not only to start.
MeFairness == WF_meVars(Maintenance)

-----------------------------------------------------------------------------
(* "Model cannot directly write persistent facts": whatever is served has  *)
(* been promoted by a maintenance pass, after enough completed runs, and   *)
(* has high confidence; no decision, stale or not, lifts a mere candidate. *)
ServedIsEarned ==
  \A i \in Items : Served(i) => i \in mePromoted /\ meItem[i].high /\ meRuns >= MinRuns

(* A rejected item is not served again, unless somebody had read it before *)
(* the rejection and wrote after it (no row is locked, no version is       *)
(* compared).                                                              *)
RejectedStaysOut == \A i \in meRejected : Served(i) => i \in meStale

(* Why a rejected item stays out: unless its reader is in the history, a   *)
(* pass holds no copy of it as a candidate, and a decision that loaded it  *)
(* found a status which mark_active leaves alone.                          *)
RejectedInv ==
  /\ mePc = "idle" => meP = {}
  /\ \A i \in meRejected \ meStale :
       /\ i \in Items /\ meItem[i].status \in {"REJECTED", "EXPIRED"} /\ i \notin meP
       /\ \A a \in Admins :
            /\ meReq[a].step = "loaded" /\ meReq[a].item = i /\ meReq[a].decision = "activate"
            => meReq[a].status \in {"REJECTED", "EXPIRED"}

(* "Mark TTL-expired records as EXPIRED": every item past its time gets    *)
(* there, whatever decisions were taken about it.                          *)
ExpiredIsSwept ==
  \A i \in Items : (meItem[i].status # "none" /\ ~Live(i)) ~> (meItem[i].status = "EXPIRED")

\* What has turned out bad leaves: a rejected item is not served again, and
\* one past its time is marked, whatever decisions and passes overlap.
BadItemsLeave == []RejectedStaysOut /\ ExpiredIsSwept
=============================================================================
