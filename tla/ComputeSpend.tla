---------------------------- MODULE ComputeSpend ----------------------------
(***************************************************************************)
(* The compute-spend lane (apps/earn/flop_compute.py): every command-line  *)
(* invocation reads the append-only ledger, checks the local ceiling, asks *)
(* the client to spend and appends one row.  Nothing locks the ledger, so  *)
(* invocations may overlap, and the process may die between the client's   *)
(* answer and the row.                                                     *)
(*                                                                         *)
(* Of the ledger only the sum of its "spend" rows is kept (summarize): the *)
(* blocked and dry-run rows do not enter any decision.                     *)
(***************************************************************************)
EXTENDS Integers, FiniteSets

CONSTANTS
    Invocations,  \* command-line invocations, each made at most once
    Amounts,      \* values of --amount
    MaxLoop,      \* bound on --loop N
    Principal,    \* FLOP_GRANT_PRINCIPAL
    CapNum, CapDen  \* FLOP_SPEND_CAP_RATIO as a fraction

ASSUME SpendAssumption ==
    /\ Amounts \subseteq Int /\ Amounts # {}
    /\ MaxLoop \in Nat
    /\ Principal \in Nat
    /\ CapNum \in Nat /\ CapDen \in Nat \ {0} /\ CapNum <= CapDen

VARIABLES
    csEnv,       \* the settings the processes run under
    csPc,        \* [Invocations -> step]
    csArgs,      \* [Invocations -> the command line]
    csSpent,     \* [Invocations -> what the process believes was spent]
    csRow,       \* [Invocations -> kind of the row about to be recorded]
    csLedger,    \* sum of the recorded "spend" rows
    csSettled,   \* what the network has charged
    csLost,      \* charged, and no row will ever say so
    csOverlap    \* two invocations have been running at once

csVars == <<csEnv, csPc, csArgs, csSpent, csRow, csLedger, csSettled, csLost, csOverlap>>

SPENDABLE_CALLS == {"agent_transfer", "open_channel", "compute_completion"}

Args == [call : SPENDABLE_CALLS, amount : Amounts, dry : BOOLEAN, loop : 0 .. MaxLoop]

\* The settings: gateway key present, RPC or CLI named, chain SDK usable,
\* a transfer destination set.
Settings == [enabled : BOOLEAN, gateway : BOOLEAN, node : BOOLEAN, chain : BOOLEAN, dest : BOOLEAN]

spend_cap == (Principal * CapNum) \div CapDen

client_available == csEnv.gateway \/ csEnv.node

Alive == {i \in Invocations : csPc[i] \in {"ready", "answered"}}

(***************************************************************************)
(* What client_call may bring back.  A request whose answer is lost (a     *)
(* timeout in the gateway's _request, an SDK error after submission) comes *)
(* back as a failure although the network charged it.  agent_transfer      *)
(* hands back a coroutine nobody awaits: nothing is sent, and the caller's *)
(* next access raises.  A leg the SDK lacks is refused.                    *)
(***************************************************************************)
Refused == [ok |-> FALSE, raises |-> FALSE, charged |-> FALSE]
LostAnswer == [Refused EXCEPT !.charged = TRUE]
Unawaited == [Refused EXCEPT !.raises = TRUE]
Submitted == [ok |-> TRUE, raises |-> FALSE, charged |-> TRUE]

client_call(call) ==
    CASE call = "agent_transfer" -> IF csEnv.dest THEN {Unawaited} ELSE {Refused}
      [] call = "compute_completion" ->
            IF csEnv.chain \/ csEnv.gateway THEN {Submitted, Refused, LostAnswer} ELSE {Refused}
      [] OTHER -> {Refused}

LocallyRefused(i) ==
    \/ csArgs[i].amount <= 0
    \/ csArgs[i].amount > spend_cap - csSpent[i]
    \/ csArgs[i].dry
    \/ ~csEnv.enabled

-----------------------------------------------------------------------------
CsInit ==
    /\ csEnv \in Settings
    /\ csPc = [i \in Invocations |-> "idle"]
    /\ csArgs \in [Invocations -> {CHOOSE a \in Args : TRUE}]
    /\ csSpent = [i \in Invocations |-> 0]
    /\ csRow = [i \in Invocations |-> "none"]
    /\ csLedger = 0 /\ csSettled = 0 /\ csLost = 0
    /\ csOverlap = FALSE

(* main: read the ledger.  A loop only ever repeats compute_completion.    *)
Begin(i) ==
    /\ csPc[i] = "idle"
    /\ \E a \in Args :
          /\ a.loop > 0 => a.call = "compute_completion" /\ ~a.dry
          /\ csArgs' = [csArgs EXCEPT ![i] = a]
    /\ csPc' = [csPc EXCEPT ![i] = "ready"]
    /\ csSpent' = [csSpent EXCEPT ![i] = csLedger]
    /\ csOverlap' = (csOverlap \/ Alive # {})
    /\ UNCHANGED <<csEnv, csRow, csLedger, csSettled, csLost>>

(* The client's answer, in attempt_spend: a submitted spend becomes a row, *)
(* a failure a "blocked" row, and an exception ends the process.           *)
Answer(i, o, submittedRaises) ==
    LET dies == o.raises \/ (o.ok /\ submittedRaises)
        amount == IF o.charged THEN csArgs[i].amount ELSE 0
    IN  /\ csPc' = [csPc EXCEPT ![i] = IF dies THEN "done" ELSE "answered"]
        /\ csRow' = [csRow EXCEPT ![i] = IF o.ok /\ ~dies THEN "spend" ELSE "blocked"]
        /\ csSettled' = csSettled + amount
        /\ csLost' = IF o.ok /\ ~dies THEN csLost ELSE csLost + amount
        /\ UNCHANGED <<csEnv, csArgs, csSpent, csLedger, csOverlap>>

(* attempt_spend: the local checks come first and make no call.            *)
Refuse(i) ==
    /\ csPc[i] = "ready" /\ LocallyRefused(i)
    /\ csPc' = [csPc EXCEPT ![i] = "answered"]
    /\ csRow' = [csRow EXCEPT ![i] = "blocked"]
    /\ UNCHANGED <<csEnv, csArgs, csSpent, csLedger, csSettled, csLost, csOverlap>>

(* No client can be reached: the refusal's detail text is taken from the   *)
(* answer of the very call it refuses; an answer without one raises.       *)
RefuseNoClient(i) ==
    /\ csPc[i] = "ready" /\ ~LocallyRefused(i) /\ ~client_available
    /\ \E o \in client_call(csArgs[i].call) : Answer(i, o, TRUE)

Spend(i) ==
    /\ csPc[i] = "ready" /\ ~LocallyRefused(i) /\ client_available
    /\ \E o \in client_call(csArgs[i].call) : Answer(i, o, FALSE)

\* Mutant: the loop does not add to what was spent.
RecordForgetsSpend(i) ==
    LET spend == csRow[i] = "spend"
        again == spend /\ csArgs[i].loop > 1
    IN  /\ csPc[i] = "answered"
        /\ csLedger' = IF spend THEN csLedger + csArgs[i].amount ELSE csLedger
        /\ csSpent' = csSpent
        /\ csArgs' = IF again THEN [csArgs EXCEPT ![i].loop = @ - 1] ELSE csArgs
        /\ csPc' = [csPc EXCEPT ![i] = IF again THEN "ready" ELSE "done"]
        /\ UNCHANGED <<csEnv, csRow, csSettled, csLost, csOverlap>>

(* record, then main: a loop goes on after a spend, with its own count of  *)
(* what was spent, and stops at the first row of another kind.             *)
Record(i) ==
    LET spend == csRow[i] = "spend"
        again == spend /\ csArgs[i].loop > 1
    IN  /\ csPc[i] = "answered"
        /\ csLedger' = IF spend THEN csLedger + csArgs[i].amount ELSE csLedger
        /\ csSpent' = IF again THEN [csSpent EXCEPT ![i] = @ + csArgs[i].amount] ELSE csSpent
        /\ csArgs' = IF again THEN [csArgs EXCEPT ![i].loop = @ - 1] ELSE csArgs
        /\ csPc' = [csPc EXCEPT ![i] = IF again THEN "ready" ELSE "done"]
        /\ UNCHANGED <<csEnv, csRow, csSettled, csLost, csOverlap>>

(* The process dies, or its ledger cannot be written.                      *)
Die(i) ==
    /\ csPc[i] \in {"ready", "answered"}
    /\ csLost' = IF csPc[i] = "answered" /\ csRow[i] = "spend"
                 THEN csLost + csArgs[i].amount ELSE csLost
    /\ csPc' = [csPc EXCEPT ![i] = "done"]
    /\ UNCHANGED <<csEnv, csArgs, csSpent, csRow, csLedger, csSettled, csOverlap>>

CsNext ==
    \E i \in Invocations :
        Begin(i) \/ Refuse(i) \/ RefuseNoClient(i) \/ Spend(i) \/ Record(i) \/ Die(i)

CsSpec == CsInit /\ [][CsNext]_csVars

-----------------------------------------------------------------------------
\* The types of all variables; what an invocation has taken from the ledger is a number of FLOP.
CsTypeOK ==
    /\ csEnv \in Settings
    /\ csPc \in [Invocations -> {"idle", "ready", "answered", "done"}]
    /\ csArgs \in [Invocations -> Args]
    /\ csSpent \in [Invocations -> Nat]
    /\ csRow \in [Invocations -> {"none", "spend", "blocked"}]
    /\ csLedger \in Nat /\ csSettled \in Nat /\ csLost \in Nat
    /\ csOverlap \in BOOLEAN

(* The ceiling of attempt_spend: as long as no two invocations ran at      *)
(* once, the network never charged more than the cap beyond what lost      *)
(* answers and deaths kept out of the ledger.                              *)
CapHolds == ~csOverlap => csSettled <= spend_cap + csLost

(* "fails closed on every real spend" (module docstring): while no client  *)
(* is reachable by client_available, no step is charged.                   *)
NothingSpentWithoutClient ==
    [][~client_available => csSettled' = csSettled]_csVars
=============================================================================
