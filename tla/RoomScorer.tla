----------------------------- MODULE RoomScorer -----------------------------
(***************************************************************************)
(* The lobby side of the agent scorer (poll_once) and the cursors of the   *)
(* room connector: every pass reads the events room for new rooms, then    *)
(* each room from its cursor, evaluates and stores every message, alerts   *)
(* on risky ones and moves the cursor.  The market pass, which follows in  *)
(* the same session, appears here only through the cursors it moves.       *)
(*                                                                         *)
(* A session sees tx; db is what has been committed.  read_room moves the  *)
(* plain cursor of the room it reads inside the caller's session.          *)
(***************************************************************************)
EXTENDS Integers, Sequences, FiniteSets, SequencesExt

CONSTANTS
  Configured,   \* TECHNOCORE_MONITORED_ROOMS
  Announced,    \* rooms the events room may announce
  Malformed,    \* an announcement whose room is not a string
  TclkRooms,    \* TCLK_MONITOR_ROOMS
  MaxMsgs,      \* bound: messages per room
  MaxFailures,  \* bound: reads, writes, evaluations and commits that fail
  MaxCrashes    \* bound: restarts

ASSUME ScorerAssumption ==
  /\ TclkRooms \subseteq Configured \cup Announced
  /\ Malformed \notin Configured \cup Announced
  /\ {MaxMsgs, MaxFailures, MaxCrashes} \subseteq Nat
  /\ IsFiniteSet(Configured) /\ IsFiniteSet(Announced)

VARIABLES
  feed,         \* messages in each room
  events,       \* the events room: the rooms announced so far
  db, tx,       \* committed state, and the state the open session sees
  known,        \* _discovered: rooms found, in memory only
  pc, queue,    \* position in the pass, rooms still to read
  base, at, last,
  alerts,       \* alerts sent, per message
  unscored,     \* messages whose evaluation failed
  passed,       \* announcements read and given up: a malformed one and those behind it
  failures, writeErrors, crashes

vars == <<feed, events, db, tx, known, pc, queue, base, at, last,
          alerts, unscored, passed, failures, writeErrors, crashes>>

Rooms == Configured \cup Announced
Announcements == Announced \cup {Malformed}
Messages == Rooms \X (1 .. MaxMsgs)
Larger(a, b) == IF a > b THEN a ELSE b
Room == Head(queue)

Init ==
  /\ feed = [r \in Rooms |-> 0] /\ events = <<>>
  /\ db = [cursor |-> [r \in Rooms |-> 0], events |-> 0, tclk |-> [r \in TclkRooms |-> 0], rows |-> {}]
  /\ tx = db
  /\ known = {} /\ pc = "events" /\ queue = <<>> /\ base = 0 /\ at = 0 /\ last = 0
  /\ alerts = [m \in Messages |-> 0] /\ unscored = {} /\ passed = {}
  /\ failures = 0 /\ writeErrors = 0 /\ crashes = 0

outside == <<feed, events>>
effects == <<alerts, unscored, passed>>
window == <<base, at, last>>

\* A fault is one more failure within the bound.
Fault == failures < MaxFailures /\ failures' = failures + 1

\* The end of a transaction: committed, or failed and rolled back.
CommitOr(t) ==
  \/ db' = t /\ tx' = t /\ UNCHANGED failures
  \/ Fault /\ db' = db /\ tx' = db

----------------------------------------------------------------------------
\* The rooms fill up, the events room announces a new one.
Post ==
  /\ \E r \in Rooms : feed[r] < MaxMsgs /\ feed' = [feed EXCEPT ![r] = @ + 1]
  /\ UNCHANGED <<events, db, tx, known, pc, queue, window, effects, failures, writeErrors, crashes>>

Announce ==
  /\ \E r \in Announcements \ Range(events) : events' = Append(events, r)
  /\ UNCHANGED <<feed, db, tx, known, pc, queue, window, effects, failures, writeErrors, crashes>>

----------------------------------------------------------------------------
\* Discovery.  What was announced is remembered by the process only, the cursor
\* of the events room is committed.  A malformed announcement ends the pass over
\* them; reading has moved the cursor by then, and the next commit of the session
\* takes it along.
Batch == (tx.events + 1) .. Len(events)
Legible == {i \in Batch : \A j \in Batch : j <= i => events[j] # Malformed}

PollEvents ==
  /\ pc = "events"
  /\ \/ /\ known' = known \cup ({events[i] : i \in Legible} \ Configured)
        /\ passed' = passed \cup (Batch \ Legible)
        /\ \/ Batch = {} /\ UNCHANGED <<db, tx, failures>>
           \/ Batch # {} /\ Legible = Batch /\ CommitOr([tx EXCEPT !.events = Len(events)])
           \/ Legible # Batch /\ tx' = [tx EXCEPT !.events = Len(events)] /\ UNCHANGED <<db, failures>>
     \/ Fault /\ UNCHANGED <<known, passed, db, tx>>
  /\ queue' = SetToSeq(Configured) \o SetToSeq(known')
  /\ pc' = "read"
  /\ UNCHANGED <<outside, window, alerts, unscored, writeErrors, crashes>>

\* Mutant: reading a room already commits its cursor.
ReadRoomCommits ==
  /\ pc = "read" /\ queue # <<>>
  /\ \/ /\ base' = tx.cursor[Room] /\ UNCHANGED failures
        /\ last' = feed[Room] /\ at' = base' + 1 /\ pc' = "message"
        /\ tx' = [tx EXCEPT !.cursor[Room] = Larger(@, feed[Room])]
        /\ queue' = queue
        /\ db' = tx'
     \/ /\ UNCHANGED db /\ Fault /\ base' = 0
        /\ last' = feed[Room] /\ at' = 1 /\ pc' = "message"
        /\ tx' = [tx EXCEPT !.cursor[Room] = Larger(@, feed[Room])]
        /\ queue' = queue
     \/ /\ UNCHANGED db /\ Fault /\ queue' = Tail(queue)
        /\ UNCHANGED <<base, at, last, pc, tx>>
  /\ UNCHANGED <<outside, known, effects, writeErrors, crashes>>

\* A cursor that cannot be read counts as 0; a room that cannot be read is skipped.
ReadRoom ==
  /\ pc = "read" /\ queue # <<>>
  /\ \/ /\ base' = tx.cursor[Room] /\ UNCHANGED failures
        /\ last' = feed[Room] /\ at' = base' + 1 /\ pc' = "message"
        /\ tx' = [tx EXCEPT !.cursor[Room] = Larger(@, feed[Room])]
        /\ queue' = queue
     \/ /\ Fault /\ base' = 0
        /\ last' = feed[Room] /\ at' = 1 /\ pc' = "message"
        /\ tx' = [tx EXCEPT !.cursor[Room] = Larger(@, feed[Room])]
        /\ queue' = queue
     \/ /\ Fault /\ queue' = Tail(queue)
        /\ UNCHANGED <<base, at, last, pc, tx>>
  /\ UNCHANGED <<outside, db, known, effects, writeErrors, crashes>>

Handling == pc = "message" /\ at <= last
Onward == at' = at + 1 /\ UNCHANGED <<outside, known, passed, pc, queue, base, last, crashes>>

\* The evaluator gives nothing: the message is passed over.
EvaluateFails ==
  /\ Handling /\ Fault
  /\ unscored' = unscored \cup {<<Room, at>>}
  /\ Onward
  /\ UNCHANGED <<db, tx, alerts, writeErrors>>

\* Mutant: a message read again is alerted again.
DuplicateAlerts ==
  /\ Handling /\ <<Room, at>> \in tx.rows
  /\ Onward
  /\ alerts' = [alerts EXCEPT ![<<Room, at>>] = @ + 1]
  /\ UNCHANGED <<db, tx, unscored, failures, writeErrors>>

\* The duplicate guard: this message already has its row.
Duplicate ==
  /\ Handling /\ <<Room, at>> \in tx.rows
  /\ Onward
  /\ UNCHANGED <<db, tx, effects, failures, writeErrors>>

\* Evaluate and store; only then the reaction and the alert, for a risky message.
Score ==
  /\ Handling /\ <<Room, at>> \notin tx.rows
  /\ tx' = [tx EXCEPT !.rows = @ \cup {<<Room, at>>}]
  /\ \E sent \in {0, 1} : alerts' = [alerts EXCEPT ![<<Room, at>>] = @ + sent]
  /\ Onward
  /\ UNCHANGED <<db, unscored, failures, writeErrors>>

\* The row cannot be written: the whole session is rolled back, the rows of
\* earlier messages of this batch with it, and the cursor still moves on.
WriteFails ==
  /\ Handling /\ Fault
  /\ <<Room, at>> \notin tx.rows
  /\ writeErrors' = writeErrors + 1
  /\ tx' = db
  /\ Onward
  /\ UNCHANGED <<db, effects>>

\* Mutant: the cursor is set but not committed.
EndRoomNoCommit ==
  /\ pc = "message" /\ at > last
  /\ tx' = db /\ UNCHANGED <<db, failures>>
  /\ queue' = Tail(queue) /\ pc' = "read"
  /\ UNCHANGED <<outside, known, window, effects, writeErrors, crashes>>

EndRoom ==
  /\ pc = "message" /\ at > last
  /\ CommitOr([tx EXCEPT !.cursor[Room] = Larger(@, last)])
  /\ queue' = Tail(queue) /\ pc' = "read"
  /\ UNCHANGED <<outside, known, window, effects, writeErrors, crashes>>

\* The market pass reads its rooms in the same session.  Only its own cursor
\* decides whether it commits, and the commit takes the plain cursors along.
TclkPass ==
  /\ pc = "read" /\ queue = <<>>
  /\ LET fresh == {r \in TclkRooms : feed[r] > tx.tclk[r]}
         moved == [tx EXCEPT !.cursor = [r \in Rooms |-> IF r \in TclkRooms THEN Larger(@[r], feed[r]) ELSE @[r]],
                             !.tclk = [r \in TclkRooms |-> feed[r]]]
     IN IF fresh # {} THEN CommitOr(moved) ELSE db' = db /\ tx' = db /\ UNCHANGED failures
  /\ pc' = "events"
  /\ UNCHANGED <<outside, known, queue, window, effects, writeErrors, crashes>>

Restart ==
  /\ crashes < MaxCrashes /\ crashes' = crashes + 1
  /\ tx' = db /\ known' = {} /\ queue' = <<>> /\ pc' = "events"
  /\ UNCHANGED <<outside, db, window, effects, failures, writeErrors>>

Step == PollEvents \/ ReadRoom \/ EvaluateFails \/ Duplicate \/ Score \/ WriteFails \/ EndRoom \/ TclkPass

Next == Step \/ Post \/ Announce \/ Restart

\* run_forever polls for as long as the process lives.
Spec == Init /\ [][Next]_vars /\ WF_vars(Step)

----------------------------------------------------------------------------
(* Properties *)

\* The types of all variables.
Session == [cursor : [Rooms -> 0 .. MaxMsgs], events : 0 .. Cardinality(Announcements),
            tclk : [TclkRooms -> 0 .. MaxMsgs], rows : SUBSET Messages]

ScorerTypeOK ==
  /\ feed \in [Rooms -> 0 .. MaxMsgs] /\ events \in Seq(Announcements)
  /\ db \in Session /\ tx \in Session
  /\ known \subseteq Announced /\ queue \in Seq(Rooms)
  /\ pc \in {"events", "read", "message"}
  /\ {base, at, last, failures, writeErrors, crashes} \subseteq Nat
  /\ unscored \subseteq Messages /\ passed \subseteq Nat /\ alerts \in [Messages -> Nat]

\* A message below the committed cursor has its evaluation, or the evaluator
\* failed on it: restarts, failed commits and cursors read as 0 skip nothing.
\* Two things do: a failed write takes the rows of its batch along, and a market
\* room's plain cursor is moved by the market pass as well.
EvaluatedBelowCursor ==
  writeErrors = 0 =>
    \A r \in Rooms \ TclkRooms : \A s \in 1 .. db.cursor[r] : <<r, s>> \in db.rows \cup unscored

\* Once the evaluation of a message is committed, nobody is alerted about it
\* again, however often the room is read.
NoAlertAfterCommit == [][\A m \in db.rows : alerts'[m] = alerts[m]]_vars

\* A room whose announcement the committed cursor has passed is monitored, unless
\* a malformed announcement stood before it when it was read, and as long as the
\* process lives: the set of rooms found does not survive a restart.
DiscoveredIsMonitored ==
  crashes = 0 => \A i \in (1 .. db.events) \ passed : events[i] \in known \cup Configured

\* Whatever fails once, the configured rooms are read to their end again and again.
RoomsCatchUp == \A r \in Configured : []<>(db.cursor[r] = feed[r])

\* No committed cursor has passed over anything: below the cursor of a room its
\* messages are evaluated, below that of the announcements their rooms are known
\* (but for those behind a malformed one).
CursorsPassNothing == ScorerTypeOK /\ EvaluatedBelowCursor /\ DiscoveredIsMonitored
----------------------------------------------------------------------------
(* The inductive invariant: before a pass the session shows what is        *)
(* committed; between two batches it may be ahead in the announcements, as *)
(* far as they were looked at, and within one in the room being read too,  *)
(* by rows and a cursor no further than the batch.                         *)
AnnouncedOnce == \A i, j \in DOMAIN events : events[i] = events[j] => i = j

CursorsAreBehind ==
  /\ \A r \in Rooms : db.cursor[r] <= feed[r] /\ tx.cursor[r] <= feed[r]
  /\ \A r \in TclkRooms : db.tclk[r] <= feed[r]
  /\ db.events <= tx.events /\ tx.events <= Len(events)

SessionIsCommitted ==
  /\ pc = "events" => tx = db
  /\ pc # "message" => tx.cursor = db.cursor /\ tx.tclk = db.tclk /\ tx.rows = db.rows

AnnouncementsAreRead ==
  crashes = 0 => \A i \in (1 .. tx.events) \ passed : events[i] \in known \cup Configured

Below(r, n, d) == \A s \in 1 .. n : <<r, s>> \in d.rows \cup unscored

BatchInv ==
  pc = "message" =>
    /\ queue # <<>> /\ last <= feed[Room] /\ 1 <= at /\ at <= last + 1
    /\ db.cursor[Room] <= last /\ tx.cursor[Room] <= last
    /\ \A r \in Rooms \ {Room} : tx.cursor[r] = db.cursor[r]
    /\ tx.tclk = db.tclk /\ db.rows \subseteq tx.rows
    /\ writeErrors = 0 /\ Room \notin TclkRooms => Below(Room, at - 1, tx)

ScorerInv ==
  /\ CursorsPassNothing /\ AnnouncedOnce /\ CursorsAreBehind /\ SessionIsCommitted
  /\ AnnouncementsAreRead /\ BatchInv
=============================================================================
