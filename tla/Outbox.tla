------------------------------- MODULE Outbox -------------------------------
(***************************************************************************)
(* SchedulerLoop.publish_outbox: one pass reads a window of unprocessed    *)
(* rows, publishes them one by one with XADD, and commits what it did to   *)
(* the rows in one transaction at the end.  RunLifecycle uses the outbox   *)
(* without its window, its attempt limit and its schedule; here they are   *)
(* the subject.                                                            *)
(***************************************************************************)
EXTENDS Naturals, FiniteSets

CONSTANTS
  MaxRows,     \* bound: rows of table outbox_messages
  Limit,       \* LIMIT of the window (20 in the code)
  MaxAttempts, \* a row with more attempts than this is skipped (10 in the code)
  MaxErrors,   \* bound: XADDs that raise
  MaxCrashes   \* bound: scheduler crashes inside a pass

ASSUME OutboxAssumption ==
  /\ MaxRows \in Nat /\ MaxAttempts \in Nat /\ MaxErrors \in Nat /\ MaxCrashes \in Nat
  /\ Limit \in Nat \ {0}

Rows == 1 .. MaxRows  \* in order of created_at, which need not be commit order

VARIABLES
  row,     \* the committed rows: state (none, open, processed), attempts, due
  batch,   \* rows of the window the pass has not come to
  ready,   \* rows of the window whose not_before had passed when it began
  mark,    \* what the pass did and has not committed, per row
  passing, \* is a pass under way
  copies,  \* history: stream entries per row
  errors, crashes  \* history: bounded faults so far

vars == <<row, batch, ready, mark, passing, copies, errors, crashes>>

\* Rows, pass and histories have their types; in particular a committed row of
\* outbox_messages is open or processed and nothing else.
TypeOK ==
  /\ row \in [Rows -> [state : {"none", "open", "processed"}, attempts : Nat,
                       due : BOOLEAN]]
  /\ batch \subseteq Rows
  /\ ready \subseteq Rows
  /\ mark \in [Rows -> {"none", "sent", "failed"}]
  /\ passing \in BOOLEAN
  /\ copies \in [Rows -> Nat]
  /\ errors \in Nat
  /\ crashes \in Nat

Unmarked == [i \in Rows |-> "none"]

Init ==
  /\ row = [i \in Rows |-> [state |-> "none", attempts |-> 0, due |-> FALSE]]
  /\ batch = {}
  /\ ready = {}
  /\ mark = Unmarked
  /\ passing = FALSE
  /\ copies = [i \in Rows |-> 0]
  /\ errors = 0
  /\ crashes = 0

-----------------------------------------------------------------------------
\* A handler commits its message; a retry of a stuck run sets not_before.
Enqueue(i, due) ==
  /\ row[i].state = "none"
  /\ row' = [row EXCEPT ![i] = [state |-> "open", attempts |-> 0, due |-> due]]
  /\ UNCHANGED <<batch, ready, mark, passing, copies, errors, crashes>>

NotBeforePasses(i) ==
  /\ row[i].state = "open" /\ ~row[i].due
  /\ row' = [row EXCEPT ![i].due = TRUE]
  /\ UNCHANGED <<batch, ready, mark, passing, copies, errors, crashes>>

Open == {i \in Rows : row[i].state = "open"}

\* WHERE NOT processed ORDER BY created_at LIMIT 20
Window == {i \in Open : Cardinality({j \in Open : j < i}) < Limit}

BeginPass ==
  /\ ~passing
  /\ Window # {}
  /\ passing' = TRUE
  /\ batch' = Window
  /\ ready' = {i \in Window : row[i].due}
  /\ UNCHANGED <<row, mark, copies, errors, crashes>>

\* The pass comes to row i.
Visit(i) ==
  /\ i \in batch
  /\ \A j \in batch : i <= j
  /\ batch' = batch \ {i}
  /\ UNCHANGED <<row, ready, passing, crashes>>

\* Mutant of Exhausted: off by one.
ExhaustedEarly(i) == row[i].attempts >= MaxAttempts

Exhausted(i) == row[i].attempts > MaxAttempts

Skip(i) ==
  /\ Visit(i)
  /\ Exhausted(i) \/ i \notin ready
  /\ UNCHANGED <<mark, copies, errors>>

Publish(i) ==
  /\ Visit(i)
  /\ ~Exhausted(i) /\ i \in ready
  /\ mark' = [mark EXCEPT ![i] = "sent"]
  /\ copies' = [copies EXCEPT ![i] = @ + 1]
  /\ UNCHANGED errors

\* Mutant of PublishFails: the row is marked processed before the XADD.
MarkedBeforeFailing(i) ==
  /\ Visit(i)
  /\ ~Exhausted(i) /\ i \in ready
  /\ errors < MaxErrors
  /\ errors' = errors + 1
  /\ mark' = [mark EXCEPT ![i] = "sent"]
  /\ UNCHANGED copies

\* The XADD raises: the attempt is counted, the pass goes on.
PublishFails(i) ==
  /\ Visit(i)
  /\ ~Exhausted(i) /\ i \in ready
  /\ errors < MaxErrors
  /\ errors' = errors + 1
  /\ mark' = [mark EXCEPT ![i] = "failed"]
  /\ UNCHANGED copies

CommitPass ==
  /\ passing /\ batch = {}
  /\ row' = [i \in Rows |->
               IF mark[i] = "none" THEN row[i]
               ELSE [row[i] EXCEPT !.attempts = @ + 1,
                                   !.state = IF mark[i] = "sent" THEN "processed" ELSE @]]
  /\ mark' = Unmarked
  /\ passing' = FALSE
  /\ ready' = {}
  /\ UNCHANGED <<batch, copies, errors, crashes>>

\* The scheduler dies, or the commit fails: entries already added stay.
CrashInPass ==
  /\ passing
  /\ crashes < MaxCrashes
  /\ crashes' = crashes + 1
  /\ mark' = Unmarked
  /\ passing' = FALSE
  /\ batch' = {}
  /\ ready' = {}
  /\ UNCHANGED <<row, copies, errors>>

-----------------------------------------------------------------------------
Pass ==
  \/ BeginPass \/ CommitPass
  \/ \E i \in Rows : Skip(i) \/ Publish(i) \/ PublishFails(i)

Next ==
  \/ Pass \/ CrashInPass
  \/ \E i \in Rows : NotBeforePasses(i) \/ \E due \in BOOLEAN : Enqueue(i, due)

Spec == Init /\ [][Next]_vars

\* The scheduler makes a pass every minute and time passes.
FairSpec == Spec /\ WF_vars(Pass) /\ \A i \in Rows : WF_vars(NotBeforePasses(i))

-----------------------------------------------------------------------------
\* Outbox implements Relay: window, attempts and schedule disappear, what is
\* left is that a row is confirmed only after a pass that really sent it.
StageOf(i) ==
  CASE row[i].state = "none" -> "none"
    [] row[i].state = "processed" -> "confirmed"
    [] row[i].state = "open" /\ mark[i] = "sent" -> "sent"
    [] row[i].state = "open" /\ mark[i] # "sent" -> "waiting"

Abstract ==
  INSTANCE Relay WITH
    Messages <- Rows, stage <- [i \in Rows |-> StageOf(i)], copies <- copies

\* What publish_outbox promises its writers, as the specification Relay: no
\* committed message is dropped, and none is confirmed before it was added.
OutboxIsRelay == Abstract!Spec

\* A second stream entry for a row takes a crash between its XADD and the
\* commit of the pass: window and ordering alone never publish a row twice.
DuplicatesNeedCrash == \A i \in Rows : copies[i] <= crashes + 1

\* Why the two hold, as an inductive invariant: only the pass under way has
\* marks, on open rows it is done with, and a row that neither the pass nor an
\* earlier one has sent owes each of its entries to a crash.
PassInv ==
  /\ \A i \in Rows : mark[i] # "none" => passing /\ row[i].state = "open"
  /\ \A i \in batch : passing /\ row[i].state = "open" /\ mark[i] = "none"
  /\ \A i \in Rows :
       row[i].state # "processed" /\ mark[i] # "sent" => copies[i] <= crashes

\* Every committed message reaches the stream, whatever the order of commits,
\* the schedule, the failing XADDs and the crashes, as long as no row has used up
\* its attempts and stays in the window.
EveryMessageIsPublished ==
  \A i \in Rows :
    row[i].state = "open"
      ~> (row[i].state = "processed" \/ \E j \in Rows : row[j].attempts > MaxAttempts)
=============================================================================
