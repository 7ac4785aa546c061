------------------------------- MODULE Inbox --------------------------------
(***************************************************************************)
(* The Telegram webhook and its durable inbox (telegram_webhook): Telegram *)
(* delivers an update until it gets a 200, possibly again while an earlier *)
(* delivery is still being handled; a delivery reads the update's row,     *)
(* inserts it as PENDING, hands the update to the bot and records the      *)
(* outcome, each in a transaction of its own.                              *)
(***************************************************************************)
EXTENDS Integers, FiniteSets

CONSTANTS
  Updates,
  Handlers,     \* requests the API can be handling at once
  InMaxFaults   \* bound: database errors, failing handlers, crashes

ASSUME InboxAssumption ==
  InMaxFaults \in Nat /\ Updates # {} /\ IsFiniteSet(Handlers)

VARIABLES
  inRow,      \* status of the update's row, or "none"
  inPc,       \* per request: step
  inUpd,      \* per request: the update it carries
  inAcked,    \* updates for which Telegram has a 200
  inDone,     \* history: times the bot carried out an update
  inExcused,  \* history: reasons for carrying it out once more
  inRaced,    \* history: updates answered as duplicates while still being handled
  inSwallowed, \* history: updates whose handler failed, which nobody was told
  inFaults

inVars == <<inRow, inPc, inUpd, inAcked, inDone, inExcused, inRaced, inSwallowed, inFaults>>

Statuses == {"none", "PENDING", "FAILED", "PROCESSED"}

InInit ==
  /\ inRow = [u \in Updates |-> "none"]
  /\ inPc = [h \in Handlers |-> "idle"]
  /\ inUpd \in [Handlers -> {CHOOSE u \in Updates : TRUE}]
  /\ inAcked = {} /\ inRaced = {} /\ inSwallowed = {}
  /\ inDone = [u \in Updates |-> 0] /\ inExcused = [u \in Updates |-> 0]
  /\ inFaults = 0

InFault == inFaults < InMaxFaults /\ inFaults' = inFaults + 1
Busy(u) == {h \in Handlers : inPc[h] # "idle" /\ inUpd[h] = u}
Goto(h, step) == inPc' = [inPc EXCEPT ![h] = step]
Excuse(u) == inExcused' = [inExcused EXCEPT ![u] = @ + 1]

\* A 200 to Telegram ends the deliveries of the update.
Answer200(h) == Goto(h, "idle") /\ inAcked' = inAcked \cup {inUpd[h]}

-----------------------------------------------------------------------------
\* Telegram delivers an update it has no 200 for; another delivery may be under way.
Deliver(h, u) ==
  /\ inPc[h] = "idle" /\ u \notin inAcked
  /\ inUpd' = [inUpd EXCEPT ![h] = u] /\ Goto(h, "look")
  /\ IF Busy(u) # {} THEN Excuse(u) ELSE UNCHANGED inExcused
  /\ UNCHANGED <<inRow, inAcked, inDone, inRaced, inFaults, inSwallowed>>

\* Mutant: a FAILED update is turned away, with the 500 of its failure.
LookTurnsAway(h) ==
  LET u == inUpd[h] IN
  /\ inPc[h] = "look"
  /\ \/ inRow[u] = "PROCESSED" /\ Answer200(h) /\ UNCHANGED <<inExcused, inFaults>>
     \/ inRow[u] = "FAILED" /\ Goto(h, "idle") /\ UNCHANGED <<inAcked, inExcused, inFaults>>
     \/ inRow[u] = "none" /\ Goto(h, "insert") /\ UNCHANGED <<inAcked, inExcused, inFaults>>
     \/ inRow[u] = "PENDING" /\ Goto(h, "handle") /\ UNCHANGED <<inAcked, inExcused, inFaults>>
     \/ InFault /\ Excuse(u) /\ Goto(h, "handle") /\ UNCHANGED inAcked
  /\ UNCHANGED <<inRow, inUpd, inDone, inRaced, inSwallowed>>

(* The row is read: PROCESSED is answered as a duplicate, a missing row is *)
(* inserted, PENDING and FAILED are handled again.  When the database      *)
(* fails the update is handled without the inbox.                          *)
Look(h) ==
  LET u == inUpd[h] IN
  /\ inPc[h] = "look"
  /\ \/ inRow[u] = "PROCESSED" /\ Answer200(h) /\ UNCHANGED <<inExcused, inFaults>>
     \/ inRow[u] = "none" /\ Goto(h, "insert") /\ UNCHANGED <<inAcked, inExcused, inFaults>>
     \/ inRow[u] \in {"PENDING", "FAILED"} /\ Goto(h, "handle")
        /\ UNCHANGED <<inAcked, inExcused, inFaults>>
     \/ InFault /\ Excuse(u) /\ Goto(h, "handle") /\ UNCHANGED inAcked
  /\ UNCHANGED <<inRow, inUpd, inDone, inRaced, inSwallowed>>

(* The insert: a row another delivery has inserted in the meantime is a    *)
(* duplicate, answered with 200 although nobody has carried it out yet.    *)
Insert(h) ==
  LET u == inUpd[h] IN
  /\ inPc[h] = "insert"
  /\ \/ /\ inRow[u] # "none" /\ Answer200(h)
        /\ inRaced' = inRaced \cup {u}
        /\ UNCHANGED <<inRow, inFaults>>
     \/ /\ inRow[u] = "none" /\ inRow' = [inRow EXCEPT ![u] = "PENDING"]
        /\ Goto(h, "handle") /\ UNCHANGED <<inAcked, inRaced, inFaults>>
     \/ InFault /\ Goto(h, "handle") /\ UNCHANGED <<inRow, inAcked, inRaced>>
  /\ UNCHANGED <<inUpd, inDone, inExcused, inSwallowed>>

(* handle_raw_update: the update is carried out, whether or not its        *)
(* handler raises after the effect; or the handler raises before it, which *)
(* handle_raw_update logs and keeps to itself; or the bot's application    *)
(* cannot be built, the one error that reaches the webhook.                *)
Handle(h) ==
  LET u == inUpd[h] IN
  /\ inPc[h] = "handle"
  /\ \/ /\ Goto(h, "done") /\ inDone' = [inDone EXCEPT ![u] = @ + 1]
        /\ UNCHANGED <<inSwallowed, inFaults>>
     \/ /\ InFault /\ Goto(h, "swallowed") /\ inSwallowed' = inSwallowed \cup {u}
        /\ UNCHANGED inDone
     \/ InFault /\ Goto(h, "failed") /\ UNCHANGED <<inDone, inSwallowed>>
  /\ UNCHANGED <<inRow, inUpd, inAcked, inExcused, inRaced>>

\* Mutant: the outcome of a success is not recorded and Telegram is not told.
MarkProcessedForgets(h) ==
  LET u == inUpd[h] IN
  /\ inPc[h] \in {"done", "swallowed"} /\ Goto(h, "idle")
  /\ UNCHANGED <<inRow, inUpd, inAcked, inDone, inExcused, inRaced, inSwallowed, inFaults>>

\* What handle_raw_update came back from is recorded as a success (an error
\* while recording is swallowed) and answered with 200, effect or none.
MarkProcessed(h) ==
  LET u == inUpd[h] IN
  /\ inPc[h] \in {"done", "swallowed"}
  /\ \/ inRow[u] # "none" /\ inRow' = [inRow EXCEPT ![u] = "PROCESSED"] /\ UNCHANGED inFaults
     \/ inRow[u] = "none" /\ UNCHANGED <<inRow, inFaults>>
     \/ InFault /\ UNCHANGED inRow
  /\ Answer200(h)
  /\ UNCHANGED <<inUpd, inDone, inExcused, inRaced, inSwallowed>>

\* The failure is recorded, over a PROCESSED of another delivery too, and answered with 500.
MarkFailed(h) ==
  LET u == inUpd[h] IN
  /\ inPc[h] = "failed"
  /\ \/ inRow[u] # "none" /\ inRow' = [inRow EXCEPT ![u] = "FAILED"] /\ UNCHANGED inFaults
     \/ inRow[u] = "none" /\ UNCHANGED <<inRow, inFaults>>
     \/ InFault /\ UNCHANGED inRow
  /\ Goto(h, "idle")
  /\ UNCHANGED <<inUpd, inAcked, inDone, inExcused, inRaced, inSwallowed>>

\* The API process dies: every request ends without an answer.
InCrash ==
  /\ InFault /\ \E h \in Handlers : inPc[h] # "idle"
  /\ inPc' = [h \in Handlers |-> "idle"]
  /\ inExcused' = [u \in Updates |->
                     inExcused[u] + Cardinality({h \in Busy(u) : inPc[h] = "done"})]
  /\ UNCHANGED <<inRow, inUpd, inAcked, inDone, inRaced, inSwallowed>>

InStep(h) ==
  \/ Look(h) \/ Insert(h) \/ Handle(h) \/ MarkProcessed(h) \/ MarkFailed(h)

InNext ==
  \/ \E h \in Handlers : InStep(h) \/ \E u \in Updates : Deliver(h, u)
  \/ InCrash

InSpec == InInit /\ [][InNext]_inVars

\* Telegram redelivers what it has no 200 for, and the API handles its requests.
InFairness ==
  /\ \A h \in Handlers : WF_inVars(InStep(h))
  /\ \A u \in Updates : WF_inVars(\E h \in Handlers : Deliver(h, u))

-----------------------------------------------------------------------------
(* "durable inbox: PENDING record (for dedup + retry)": an update that     *)
(* Telegram will not send again has been carried out, or its handler has   *)
(* failed, which the webhook takes for a success, or it was taken for a    *)
(* duplicate while its first delivery was under way.                       *)
Settled(u) == inDone[u] > 0 \/ u \in inRaced \cup inSwallowed
AckedIsHandled == \A u \in inAcked : Settled(u)

(* "not marked PROCESSED until handled", then never handled again: each    *)
(* time an update is carried out beyond the first has a reason of its own, *)
(* an overlapping delivery, a failed look-up or a crash after the effect.  *)
RepeatsAreExcused == \A u \in Updates : inDone[u] <= 1 + inExcused[u]

(* "return 500 so Telegram retries": an update once delivered reaches its  *)
(* handler in the end, after any finite number of database errors, failed  *)
(* starts of the bot and crashes, and is carried out, unless it was taken  *)
(* for a duplicate or that handler failed.                                 *)
UpdatesGetHandled == \A u \in Updates : (Busy(u) # {}) ~> Settled(u)

\* An update that is answered for was carried out, unless it was raced or its
\* handler's failure swallowed, and once, but for overlaps, failed look-ups
\* and crashes (telegram_webhook, handle_raw_update).
HandledOnce == AckedIsHandled /\ RepeatsAreExcused
-----------------------------------------------------------------------------
(* The inductive invariant.  HandledOnce forgets the requests under way:   *)
(* what one of them may still do, or has done and not yet said, is counted *)
(* with what was done.                                                     *)
InTypeOK ==
  /\ inRow \in [Updates -> Statuses]
  /\ inPc \in [Handlers -> {"idle", "look", "insert", "handle", "done", "swallowed", "failed"}]
  /\ inUpd \in [Handlers -> Updates]
  /\ inAcked \subseteq Updates /\ inRaced \subseteq Updates /\ inSwallowed \subseteq Updates
  /\ inDone \in [Updates -> Nat] /\ inExcused \in [Updates -> Nat]
  /\ inFaults \in Nat

\* Requests that may yet carry their update out, and those that have and not said so.
Attempts(u) == {h \in Busy(u) : inPc[h] \in {"look", "insert", "handle"}}
Unsaid(u) == {h \in Busy(u) : inPc[h] = "done"}

\* A row says PROCESSED, and a request stands before saying so, after the fact
\* or after a failure that was swallowed.
MarksAreTrue ==
  /\ \A u \in Updates : inRow[u] = "PROCESSED" => inDone[u] > 0 \/ u \in inSwallowed
  /\ \A h \in Handlers : inPc[h] = "done" => inDone[inUpd[h]] > 0
  /\ \A h \in Handlers : inPc[h] = "swallowed" => inUpd[h] \in inSwallowed

\* Each attempt beyond the first is excused when it begins,
AttemptsAreExcused ==
  \A u \in Updates : inDone[u] + Cardinality(Attempts(u)) <= 1 + inExcused[u]

\* and before the 200 only what is still to be said has no excuse of its own.
FirstIsOpen ==
  \A u \in Updates \ inAcked : inDone[u] <= inExcused[u] + Cardinality(Unsaid(u))

InboxInv == InTypeOK /\ MarksAreTrue /\ AckedIsHandled /\ AttemptsAreExcused /\ FirstIsOpen
=============================================================================
