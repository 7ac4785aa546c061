----------------------------- MODULE WatchProofs ----------------------------
(***************************************************************************)
(* Theorems about the watch, each for every value of its constants: the    *)
(* agent scorer's room cursors and alerts, the windows of the digests, and *)
(* what the source monitor records.                                        *)
(***************************************************************************)
EXTENDS RoomScorer, Digest, Sources, FiniteSetTheorems, SequenceTheorems,
        WellFoundedInduction, TLAPS

-----------------------------------------------------------------------------
(* The scorer.  A cursor below every row that is not dealt with is not     *)
(* inductive: the rows a poll has read are dealt with one at a time in a   *)
(* session, and the invariant (ScorerInv) says what the session holds.     *)

\* A finite set has an enumeration without repetition.
LEMMA SetToSeqType ==
  ASSUME NEW S, IsFiniteSet(S)
  PROVE  SetToSeq(S) \in Seq(S)
<1>1. Cardinality(S) \in Nat /\ ExistsBijection(1 .. Cardinality(S), S)
  BY FS_CardinalityType
<1>2. PICK f \in Bijection(1 .. Cardinality(S), S) : TRUE
  BY <1>1 DEF ExistsBijection
<1>3. f \in [1 .. Cardinality(S) -> S] /\ IsInjective(f)
  BY <1>2 DEF Bijection, Injection, IsInjective
<1>4. SetToSeq(S) \in [1 .. Cardinality(S) -> S]
  BY <1>3 DEF SetToSeq
<1> QED
  BY <1>1, <1>4, IsASeq

\* Nothing is announced twice, so the announcements cannot outnumber their kinds.
LEMMA EventsBound ==
  ASSUME events \in Seq(Announcements), AnnouncedOnce
  PROVE  Len(events) <= Cardinality(Announcements) /\ Cardinality(Announcements) \in Nat
<1> Len(events) \in Nat /\ events \in [1 .. Len(events) -> Announcements] /\ DOMAIN events = 1 .. Len(events)
  BY LenProperties
<1>1. events \in Injection(1 .. Len(events), Announcements)
  BY DEF AnnouncedOnce, Injection, IsInjective
<1>2. IsFiniteSet(Announcements)
  BY ScorerAssumption, FS_AddElement DEF Announcements
<1>3. Cardinality(1 .. Len(events)) <= Cardinality(Announcements)
  BY <1>1, <1>2, FS_Injection
<1>4. Cardinality(1 .. Len(events)) = Len(events)
  BY FS_Interval
<1> QED
  BY <1>2, <1>3, <1>4, FS_CardinalityType

LEMMA SessionTypes ==
  ASSUME NEW d \in Session
  PROVE  /\ \A r \in Rooms : d.cursor[r] \in Nat
         /\ \A r \in TclkRooms : d.tclk[r] \in Nat
         /\ d.events \in Nat
  BY ScorerAssumption DEF Session

\* What the session has looked at covers what is committed.
LEMMA ReadIsMonitored ==
  ScorerTypeOK /\ CursorsAreBehind /\ AnnouncementsAreRead => DiscoveredIsMonitored
<1> SUFFICES ASSUME ScorerTypeOK, CursorsAreBehind, AnnouncementsAreRead PROVE DiscoveredIsMonitored
  OBVIOUS
<1>1. db.events \in Nat /\ tx.events \in Nat /\ db.events <= tx.events
  BY SessionTypes DEF ScorerTypeOK, CursorsAreBehind
<1>2. 1 .. db.events \subseteq 1 .. tx.events
  BY <1>1
<1> QED
  BY <1>2 DEF AnnouncementsAreRead, DiscoveredIsMonitored

LEMMA ReadIsMonitoredNext ==
  (ScorerTypeOK /\ CursorsAreBehind /\ AnnouncementsAreRead)' => DiscoveredIsMonitored'
  BY ReadIsMonitored, PTL

LEMMA ScorerInit == Init => ScorerInv
<1> SUFFICES ASSUME Init PROVE ScorerInv
  OBVIOUS
<1>1. Cardinality(Announcements) \in Nat
  BY ScorerAssumption, FS_AddElement, FS_CardinalityType DEF Announcements
<1>2. MaxMsgs \in Nat
  BY ScorerAssumption
<1>3. db \in Session /\ tx = db
  BY <1>1, <1>2 DEF Init, Session
<1>4. ScorerTypeOK
  BY <1>2, <1>3 DEF Init, ScorerTypeOK
<1>5. TclkRooms \subseteq Rooms
  BY ScorerAssumption DEF Rooms
<1>6. CursorsAreBehind
  BY <1>5 DEF Init, CursorsAreBehind
<1> QED
  BY <1>4, <1>6 DEF Init, ScorerInv, CursorsPassNothing, EvaluatedBelowCursor, DiscoveredIsMonitored,
     AnnouncementsAreRead, AnnouncedOnce, SessionIsCommitted, BatchInv

LEMMA PostKeeps == ScorerInv /\ Post => ScorerInv'
<1> SUFFICES ASSUME ScorerInv, Post PROVE ScorerInv'
  OBVIOUS
<1>1. PICK r \in Rooms : feed[r] < MaxMsgs /\ feed' = [feed EXCEPT ![r] = @ + 1]
  BY DEF Post
<1>2. UNCHANGED <<events, db, tx, known, pc, queue, base, at, last, alerts, unscored, passed, failures, writeErrors, crashes>>
  BY DEF Post, window, effects
<1>3. MaxMsgs \in Nat /\ TclkRooms \subseteq Rooms
  BY ScorerAssumption DEF Rooms
<1>4. ScorerTypeOK
  BY DEF ScorerInv, CursorsPassNothing
<1>5. feed' \in [Rooms -> 0 .. MaxMsgs] /\ \A q \in Rooms : feed[q] <= feed'[q] /\ feed[q] \in Nat /\ feed'[q] \in Nat
  BY <1>1, <1>3, <1>4 DEF ScorerTypeOK
<1>6. ScorerTypeOK'
  BY <1>2, <1>4, <1>5 DEF ScorerTypeOK
<1>7. CursorsAreBehind'
  <2>1. db \in Session /\ tx \in Session /\ CursorsAreBehind
    BY <1>4 DEF ScorerTypeOK, ScorerInv
  <2>2. /\ \A q \in Rooms : db.cursor[q] \in Nat /\ tx.cursor[q] \in Nat
        /\ \A q \in TclkRooms : db.tclk[q] \in Nat
    BY <2>1, SessionTypes
  <2>3. \A q \in Rooms : db.cursor[q] <= feed'[q] /\ tx.cursor[q] <= feed'[q]
    BY <1>5, <2>1, <2>2 DEF CursorsAreBehind
  <2>4. \A q \in TclkRooms : db.tclk[q] <= feed'[q]
    BY <1>3, <1>5, <2>1, <2>2 DEF CursorsAreBehind
  <2> QED
    BY <1>2, <2>1, <2>3, <2>4 DEF CursorsAreBehind
<1>8. BatchInv'
  <2> SUFFICES ASSUME pc = "message" PROVE last <= feed'[Room]
    BY <1>2 DEF BatchInv, ScorerInv, Room, Below
  <2>1. Room \in Rooms
    BY <1>4 DEF ScorerInv, BatchInv, ScorerTypeOK, Room
  <2> QED
    BY <1>4, <1>5, <2>1 DEF ScorerInv, BatchInv, ScorerTypeOK
<1> QED
  BY <1>2, <1>6, <1>7, <1>8 DEF ScorerInv, CursorsPassNothing, EvaluatedBelowCursor, DiscoveredIsMonitored,
     AnnouncementsAreRead, AnnouncedOnce, SessionIsCommitted

LEMMA AnnounceKeeps == ScorerInv /\ Announce => ScorerInv'
<1> SUFFICES ASSUME ScorerInv, Announce PROVE ScorerInv'
  OBVIOUS
<1>1. PICK r \in Announcements : r \notin Range(events) /\ events' = Append(events, r)
  BY DEF Announce
<1>2. UNCHANGED <<feed, db, tx, known, pc, queue, base, at, last, alerts, unscored, passed, failures, writeErrors, crashes>>
  BY DEF Announce, window, effects
<1>3. ScorerTypeOK
  BY DEF ScorerInv, CursorsPassNothing
<1>4. /\ events' \in Seq(Announcements) /\ Len(events') = Len(events) + 1
      /\ \A i \in 1 .. Len(events) : events'[i] = events[i]
      /\ events'[Len(events) + 1] = r
  BY <1>1, <1>3 DEF ScorerTypeOK
<1>5. ScorerTypeOK'
  BY <1>2, <1>3, <1>4 DEF ScorerTypeOK
<1>6. AnnouncedOnce'
  <2>1. \A i \in 1 .. Len(events) : events[i] # r
    BY <1>1, <1>3 DEF Range, ScorerTypeOK
  <2>2. /\ Len(events) \in Nat /\ AnnouncedOnce
        /\ DOMAIN events = 1 .. Len(events) /\ DOMAIN events' = 1 .. Len(events')
    BY <1>3, <1>4, LenProperties DEF ScorerInv, ScorerTypeOK
  <2> QED
    BY <1>4, <2>1, <2>2 DEF AnnouncedOnce
<1>7. tx.events \in Nat /\ tx.events <= Len(events) /\ Len(events) \in Nat
  BY <1>3, SessionTypes DEF ScorerInv, CursorsAreBehind, ScorerTypeOK
<1>8. CursorsAreBehind'
  BY <1>2, <1>4, <1>7 DEF ScorerInv, CursorsAreBehind
<1>9. AnnouncementsAreRead'
  BY <1>2, <1>4, <1>7 DEF ScorerInv, AnnouncementsAreRead
<1>10. EvaluatedBelowCursor' /\ SessionIsCommitted' /\ BatchInv'
  BY <1>2 DEF ScorerInv, CursorsPassNothing, EvaluatedBelowCursor, SessionIsCommitted, BatchInv, Room, Below
<1> QED
  BY <1>5, <1>6, <1>8, <1>9, <1>10, ReadIsMonitoredNext DEF ScorerInv, CursorsPassNothing

LEMMA PollEventsKeeps == ScorerInv /\ PollEvents => ScorerInv'
<1> SUFFICES ASSUME ScorerInv, PollEvents PROVE ScorerInv'
  OBVIOUS
<1>1. /\ pc = "events" /\ pc' = "read" /\ queue' = SetToSeq(Configured) \o SetToSeq(known')
      /\ UNCHANGED <<feed, events, base, at, last, alerts, unscored, writeErrors, crashes>>
  BY DEF PollEvents, outside, window
<1>2. ScorerTypeOK /\ AnnouncedOnce /\ CursorsAreBehind /\ tx = db
  BY <1>1 DEF ScorerInv, CursorsPassNothing, SessionIsCommitted
<1>3. /\ db \in Session /\ db.events \in Nat /\ db.events <= Len(events) /\ Len(events) \in Nat
      /\ Len(events) \in 0 .. Cardinality(Announcements)
  BY <1>2, SessionTypes, EventsBound DEF ScorerTypeOK, CursorsAreBehind
<1> DEFINE found == {events[i] : i \in Legible} \ Configured
           given == Batch \ Legible
           ahead == [db EXCEPT !.events = Len(events)]
<1>4. found \subseteq Announced
  <2>1. ASSUME NEW i \in Legible PROVE events[i] \in Announced
    <3>1. i \in 1 .. Len(events) /\ events[i] # Malformed
      BY <1>2, <1>3 DEF Legible, Batch
    <3>2. events[i] \in Announcements
      BY <1>2, <3>1, ElementOfSeq DEF ScorerTypeOK
    <3> QED
      BY <3>1, <3>2 DEF Announcements
  <2> QED
    BY <2>1
<1>5. given \subseteq Nat
  BY <1>2, <1>3 DEF Batch
<1>6. /\ \/ known' = known /\ passed' = passed /\ tx' = db
         \/ known' = known \cup found /\ passed' = passed \cup given /\ tx' \in {db, ahead}
      /\ db' \in {db, tx'} /\ failures' \in {failures, failures + 1}
  <2>1. CASE Fault /\ UNCHANGED <<known, passed, db, tx>>
    BY <1>2, <2>1 DEF Fault
  <2>2. CASE known' = known \cup found /\ passed' = passed \cup given /\ UNCHANGED <<db, tx, failures>>
    BY <1>2, <2>2
  <2>3. CASE known' = known \cup found /\ passed' = passed \cup given /\ CommitOr([tx EXCEPT !.events = Len(events)])
    <3> HIDE DEF found, given
    <3> QED
      BY <1>2, <2>3 DEF CommitOr, Fault
  <2>4. CASE /\ known' = known \cup found /\ passed' = passed \cup given
             /\ tx' = [tx EXCEPT !.events = Len(events)] /\ UNCHANGED <<db, failures>>
    <3> HIDE DEF found, given
    <3> QED
      BY <1>2, <2>4
  <2>5. \/ /\ known' = known \cup found /\ passed' = passed \cup given
           /\ \/ UNCHANGED <<db, tx, failures>>
              \/ CommitOr([tx EXCEPT !.events = Len(events)])
              \/ tx' = [tx EXCEPT !.events = Len(events)] /\ UNCHANGED <<db, failures>>
        \/ Fault /\ UNCHANGED <<known, passed, db, tx>>
    BY Zenon DEF PollEvents
  <2> HIDE DEF found, given, ahead
  <2> QED
    BY <2>1, <2>2, <2>3, <2>4, <2>5
<1> HIDE DEF found, given
<1>7. /\ tx' \in Session /\ tx'.cursor = db.cursor /\ tx'.tclk = db.tclk /\ tx'.rows = db.rows
      /\ tx'.events \in {db.events, Len(events)} /\ (tx'.events = db.events \/ tx' = ahead)
  <2>1. CASE tx' = db
    BY <1>3, <2>1
  <2>2. CASE tx' = ahead
    BY <1>3, <2>2 DEF Session
  <2> QED
    BY <1>6, <2>1, <2>2
<1>8. /\ db' \in Session /\ db'.cursor = db.cursor /\ db'.tclk = db.tclk /\ db'.rows = db.rows
      /\ db'.events \in {db.events, tx'.events}
  BY <1>3, <1>6, <1>7
<1>9. known \subseteq known' /\ known' \subseteq Announced /\ passed \subseteq passed' /\ passed' \subseteq Nat
  BY <1>2, <1>4, <1>5, <1>6 DEF ScorerTypeOK
<1>10. ScorerTypeOK'
  <2>1. IsFiniteSet(Configured) /\ IsFiniteSet(known')
    BY <1>9, ScorerAssumption, FS_Subset
  <2>2. SetToSeq(Configured) \in Seq(Configured) /\ SetToSeq(known') \in Seq(known')
    BY <2>1, SetToSeqType
  <2>3. SetToSeq(Configured) \in Seq(Rooms) /\ SetToSeq(known') \in Seq(Rooms)
    BY <1>9, <2>2, SeqMonotonic DEF Rooms
  <2>4. queue' \in Seq(Rooms) /\ failures' \in Nat
    BY <1>1, <1>2, <1>6, <2>3, ConcatProperties DEF ScorerTypeOK
  <2> QED
    BY <1>1, <1>2, <1>7, <1>8, <1>9, <2>4 DEF ScorerTypeOK
<1>11. AnnouncementsAreRead'
  <2> SUFFICES ASSUME crashes = 0, NEW i \in (1 .. tx'.events) \ passed'
               PROVE  events[i] \in known' \cup Configured
    BY <1>1 DEF AnnouncementsAreRead
  <2>1. CASE i \in 1 .. db.events
    BY <1>2, <1>9, <2>1 DEF ScorerInv, AnnouncementsAreRead
  <2>2. CASE i \notin 1 .. db.events
    <3>1. tx'.events = Len(events) /\ tx'.events # db.events /\ i \in (db.events + 1) .. Len(events)
      BY <1>3, <1>7, <2>2
    <3>2. known' = known \cup found /\ passed' = passed \cup given
      BY <1>6, <3>1
    <3>3. i \in Batch /\ i \notin given
      BY <1>2, <3>1, <3>2 DEF Batch
    <3>4. events[i] \in found \cup Configured
      BY <3>3 DEF found, given
    <3> QED
      BY <3>2, <3>4
  <2> QED
    BY <2>1, <2>2
<1>12. CursorsAreBehind'
  BY <1>1, <1>2, <1>3, <1>7, <1>8 DEF CursorsAreBehind
<1>13. EvaluatedBelowCursor' /\ AnnouncedOnce' /\ SessionIsCommitted' /\ BatchInv'
  BY <1>1, <1>2, <1>7, <1>8 DEF ScorerInv, CursorsPassNothing, EvaluatedBelowCursor, AnnouncedOnce,
     SessionIsCommitted, BatchInv
<1> QED
  BY <1>10, <1>11, <1>12, <1>13, ReadIsMonitoredNext DEF ScorerInv, CursorsPassNothing

LEMMA ReadRoomKeeps == ScorerInv /\ ReadRoom => ScorerInv'
<1> SUFFICES ASSUME ScorerInv, ReadRoom PROVE ScorerInv'
  OBVIOUS
<1>1. /\ pc = "read" /\ queue # <<>>
      /\ UNCHANGED <<feed, events, db, known, alerts, unscored, passed, writeErrors, crashes>>
  BY DEF ReadRoom, outside, effects
<1>2. /\ tx.cursor = db.cursor /\ tx.tclk = db.tclk /\ tx.rows = db.rows
      /\ ScorerTypeOK /\ CursorsAreBehind /\ db \in Session /\ tx \in Session /\ Room \in Rooms /\ MaxMsgs \in Nat
  BY <1>1, ScorerAssumption DEF ScorerInv, CursorsPassNothing, SessionIsCommitted, ScorerTypeOK, Room
<1>3. /\ feed[Room] \in 0 .. MaxMsgs /\ feed[Room] \in Nat
      /\ db.cursor[Room] \in Nat /\ db.cursor[Room] <= feed[Room]
  BY <1>2, SessionTypes DEF ScorerTypeOK, CursorsAreBehind
<1>4. CASE Fault /\ queue' = Tail(queue) /\ UNCHANGED <<base, at, last, pc, tx>>
  <2>1. queue' \in Seq(Rooms) /\ failures' \in Nat
    BY <1>1, <1>2, <1>4 DEF ScorerTypeOK, Fault
  <2>2. ScorerTypeOK'
    BY <1>1, <1>2, <1>4, <2>1 DEF ScorerTypeOK
  <2> QED
    BY <1>1, <1>4, <2>2 DEF ScorerInv, CursorsPassNothing, EvaluatedBelowCursor, AnnouncedOnce,
       DiscoveredIsMonitored, AnnouncementsAreRead, CursorsAreBehind, SessionIsCommitted, BatchInv
<1>5. CASE /\ base' \in {0, tx.cursor[Room]} /\ failures' \in {failures, failures + 1}
           /\ last' = feed[Room] /\ at' = base' + 1 /\ pc' = "message"
           /\ tx' = [tx EXCEPT !.cursor[Room] = Larger(@, feed[Room])]
           /\ queue' = queue
  <2>1. Larger(db.cursor[Room], feed[Room]) = feed[Room]
    BY <1>3 DEF Larger
  <2>2. tx' = [tx EXCEPT !.cursor[Room] = feed[Room]]
    BY <1>2, <1>5, <2>1
  <2>3. /\ tx' \in Session /\ tx'.cursor[Room] = feed[Room]
        /\ \A r \in Rooms \ {Room} : tx'.cursor[r] = db.cursor[r]
        /\ tx'.events = tx.events /\ tx'.tclk = db.tclk /\ tx'.rows = db.rows
    BY <1>2, <1>3, <2>2 DEF Session
  <2>4. base' \in Nat /\ at' \in Nat /\ last' \in Nat /\ 1 <= at' /\ at' <= last' + 1
    BY <1>2, <1>3, <1>5
  <2>5. ScorerTypeOK'
    <3>1. failures' \in Nat /\ last' \in Nat /\ pc' \in {"events", "read", "message"} /\ queue' \in Seq(Rooms)
      BY <1>2, <1>3, <1>5 DEF ScorerTypeOK
    <3> QED
      BY <1>1, <1>2, <2>3, <2>4, <3>1 DEF ScorerTypeOK
  <2>6. CursorsAreBehind'
    BY <1>1, <1>2, <1>3, <1>5, <2>3 DEF CursorsAreBehind
  <2>7. BatchInv'
    <3>1. Room' = Room
      BY <1>5 DEF Room
    <3>2. ASSUME writeErrors = 0, Room \notin TclkRooms, NEW s \in 1 .. (at' - 1)
          PROVE  <<Room, s>> \in tx'.rows \cup unscored
      <4>1. s \in 1 .. db.cursor[Room]
        BY <1>2, <1>3, <1>5
      <4> QED
        BY <1>2, <2>3, <3>2, <4>1 DEF ScorerInv, CursorsPassNothing, EvaluatedBelowCursor
    <3>3. /\ queue' # <<>> /\ last' <= feed[Room] /\ db.cursor[Room] <= last' /\ tx'.cursor[Room] <= last'
          /\ db.rows \subseteq tx'.rows
      BY <1>1, <1>3, <1>5, <2>3
    <3> QED
      BY <1>1, <2>3, <2>4, <3>1, <3>2, <3>3 DEF BatchInv, Below
  <2> QED
    BY <1>1, <1>5, <2>5, <2>6, <2>7 DEF ScorerInv, CursorsPassNothing, EvaluatedBelowCursor, AnnouncedOnce,
       DiscoveredIsMonitored, AnnouncementsAreRead, SessionIsCommitted
<1> QED
  BY <1>4, <1>5 DEF ReadRoom, Fault

\* What holds while a message of the batch is handled.
LEMMA InBatch ==
  ASSUME ScorerInv, pc = "message"
  PROVE  /\ ScorerTypeOK /\ CursorsAreBehind /\ queue # <<>> /\ Room \in Rooms
         /\ at \in Nat /\ last \in Nat /\ feed[Room] \in Nat /\ MaxMsgs \in Nat
         /\ 1 <= at /\ at <= last + 1 /\ last <= feed[Room] /\ feed[Room] <= MaxMsgs
         /\ db \in Session /\ tx \in Session
         /\ db.cursor[Room] <= last /\ tx.cursor[Room] <= last
         /\ \A r \in Rooms \ {Room} : tx.cursor[r] = db.cursor[r]
         /\ db.events \in Nat /\ tx.events \in Nat /\ Len(events) \in Nat
         /\ db.events <= tx.events /\ tx.events <= Len(events)
         /\ tx.tclk = db.tclk /\ db.rows \subseteq tx.rows
         /\ writeErrors = 0 /\ Room \notin TclkRooms =>
              \A s \in 1 .. (at - 1) : <<Room, s>> \in tx.rows \cup unscored
<1>1. ScorerTypeOK /\ CursorsAreBehind /\ BatchInv
  BY DEF ScorerInv, CursorsPassNothing
<1>2. queue # <<>> /\ queue \in Seq(Rooms) /\ Room \in Rooms
  BY <1>1 DEF BatchInv, ScorerTypeOK, Room
<1>3. /\ db.events \in Nat /\ tx.events \in Nat /\ Len(events) \in Nat
      /\ db.events <= tx.events /\ tx.events <= Len(events)
  BY <1>1, SessionTypes DEF ScorerTypeOK, CursorsAreBehind
<1>4. feed \in [Rooms -> 0 .. MaxMsgs] /\ at \in Nat /\ last \in Nat /\ db \in Session /\ tx \in Session
  BY <1>1 DEF ScorerTypeOK
<1>5. MaxMsgs \in Nat /\ feed[Room] \in Nat /\ feed[Room] <= MaxMsgs
  BY <1>2, <1>4, ScorerAssumption
<1>6. /\ 1 <= at /\ at <= last + 1 /\ last <= feed[Room]
      /\ db.cursor[Room] <= last /\ tx.cursor[Room] <= last
      /\ \A r \in Rooms \ {Room} : tx.cursor[r] = db.cursor[r]
      /\ tx.tclk = db.tclk /\ db.rows \subseteq tx.rows
  BY <1>1 DEF BatchInv
<1>7. writeErrors = 0 /\ Room \notin TclkRooms =>
        \A s \in 1 .. (at - 1) : <<Room, s>> \in tx.rows \cup unscored
  BY <1>1 DEF BatchInv, Below
<1> QED
  BY <1>1, <1>2, <1>3, <1>4, <1>5, <1>6, <1>7

\* A step past one message: the rows of the session lose nothing, unless the
\* write failed and the session went back to what is committed.
LEMMA MessageKeeps ==
  ASSUME ScorerInv, Handling, Onward, UNCHANGED db,
         tx' \in Session, unscored' \subseteq Messages, alerts' \in [Messages -> Nat],
         failures' \in Nat, writeErrors' \in Nat, unscored \subseteq unscored',
         \/ /\ tx'.cursor = tx.cursor /\ tx'.events = tx.events /\ tx'.tclk = tx.tclk
            /\ tx.rows \subseteq tx'.rows /\ <<Room, at>> \in tx'.rows \cup unscored'
            /\ writeErrors' = writeErrors
         \/ tx' = db /\ writeErrors' > 0
  PROVE  ScorerInv'
<1>1. /\ pc = "message" /\ at <= last /\ at' = at + 1 /\ Room' = Room
      /\ UNCHANGED <<feed, events, known, passed, pc, queue, base, last, crashes>>
  BY DEF Handling, Onward, outside, Room
<1>2. ScorerTypeOK'
  <2>1. ScorerTypeOK /\ at' \in Nat
    BY <1>1, InBatch
  <2> QED
    BY <1>1, <2>1 DEF ScorerTypeOK
<1>3. CursorsAreBehind' /\ tx'.events \in Nat /\ tx'.events <= tx.events
  BY <1>1, InBatch DEF CursorsAreBehind
<1>4. BatchInv'
  <2>1. /\ at' <= last + 1 /\ 1 <= at' /\ db.rows \subseteq tx'.rows
        /\ tx'.cursor[Room] <= last /\ tx'.tclk = db.tclk
        /\ \A r \in Rooms \ {Room} : tx'.cursor[r] = db.cursor[r]
    BY <1>1, InBatch
  <2>2. ASSUME writeErrors' = 0, Room \notin TclkRooms, NEW s \in 1 .. (at' - 1)
        PROVE  <<Room, s>> \in tx'.rows \cup unscored'
    <3>1. /\ writeErrors = 0 /\ tx.rows \subseteq tx'.rows
          /\ <<Room, at>> \in tx'.rows \cup unscored'
      BY <2>2
    <3>2. CASE s = at
      BY <3>1, <3>2
    <3>3. CASE s # at
      <4>1. s \in 1 .. (at - 1)
        BY <1>1, <3>3, InBatch
      <4> QED
        BY <1>1, <2>2, <3>1, <4>1, InBatch
    <3> QED
      BY <3>2, <3>3
  <2> QED
    BY <1>1, <2>1, <2>2, InBatch DEF BatchInv, Below
<1>5. EvaluatedBelowCursor'
  <2>1. writeErrors' = 0 => writeErrors = 0
    OBVIOUS
  <2> QED
    BY <2>1 DEF ScorerInv, CursorsPassNothing, EvaluatedBelowCursor
<1>6. AnnouncementsAreRead'
  <2>1. 1 .. tx'.events \subseteq 1 .. tx.events
    BY <1>1, <1>3, InBatch
  <2> QED
    BY <1>1, <2>1 DEF ScorerInv, AnnouncementsAreRead
<1>7. AnnouncedOnce' /\ SessionIsCommitted'
  BY <1>1 DEF ScorerInv, AnnouncedOnce, SessionIsCommitted
<1> QED
  BY <1>2, <1>3, <1>4, <1>5, <1>6, <1>7, ReadIsMonitoredNext DEF ScorerInv, CursorsPassNothing

LEMMA HandlingKeeps ==
  ASSUME ScorerInv, EvaluateFails \/ Duplicate \/ Score \/ WriteFails
  PROVE  ScorerInv'
<1>1. Handling /\ Onward /\ UNCHANGED db /\ pc = "message" /\ at <= last
  BY DEF EvaluateFails, Duplicate, Score, WriteFails, Handling
<1>2. /\ ScorerTypeOK /\ db \in Session /\ tx \in Session /\ tx.rows \subseteq Messages
      /\ unscored \subseteq Messages /\ alerts \in [Messages -> Nat]
      /\ failures \in Nat /\ writeErrors \in Nat
  BY <1>1, InBatch DEF ScorerTypeOK, Session
<1>3. <<Room, at>> \in Messages
  BY <1>1, InBatch DEF Messages
<1>4. CASE EvaluateFails
  <2>1. /\ tx' = tx /\ unscored' = unscored \cup {<<Room, at>>} /\ failures' = failures + 1
        /\ UNCHANGED <<alerts, writeErrors>>
    BY <1>4 DEF EvaluateFails, Fault
  <2> QED
    BY <1>1, <1>2, <1>3, <2>1, MessageKeeps
<1>5. CASE Duplicate
  <2>1. tx' = tx /\ <<Room, at>> \in tx.rows /\ UNCHANGED <<alerts, unscored, failures, writeErrors>>
    BY <1>5 DEF Duplicate, effects
  <2> QED
    BY <1>1, <1>2, <2>1, MessageKeeps
<1>6. CASE Score
  <2>1. /\ tx' = [tx EXCEPT !.rows = @ \cup {<<Room, at>>}]
        /\ UNCHANGED <<unscored, failures, writeErrors>>
        /\ \E sent \in {0, 1} : alerts' = [alerts EXCEPT ![<<Room, at>>] = @ + sent]
    BY <1>6 DEF Score
  <2>2. tx' \in Session /\ alerts' \in [Messages -> Nat]
    BY <1>2, <1>3, <2>1 DEF Session
  <2>3. /\ tx'.cursor = tx.cursor /\ tx'.events = tx.events /\ tx'.tclk = tx.tclk
        /\ tx'.rows = tx.rows \cup {<<Room, at>>}
    BY <1>2, <2>1 DEF Session
  <2> QED
    BY <1>1, <1>2, <2>1, <2>2, <2>3, MessageKeeps
<1>7. CASE WriteFails
  <2>1. /\ tx' = db /\ writeErrors' = writeErrors + 1 /\ failures' = failures + 1
        /\ UNCHANGED <<alerts, unscored>>
    BY <1>7 DEF WriteFails, Fault, effects
  <2>2. writeErrors' \in Nat /\ writeErrors' > 0 /\ failures' \in Nat
    BY <1>2, <2>1
  <2> QED
    BY <1>1, <1>2, <2>1, <2>2, MessageKeeps
<1> QED
  BY <1>4, <1>5, <1>6, <1>7

\* The end of a room, of the market pass and of the process: the session is
\* what is committed again.
LEMMA CommittedKeeps ==
  ASSUME ScorerInv, db' \in Session, tx' = db', pc' # "message", pc' \in {"events", "read"},
         queue' \in Seq(Rooms), known' \subseteq Announced, failures' \in Nat, crashes' \in Nat,
         UNCHANGED <<feed, events, base, at, last, alerts, unscored, passed, writeErrors>>,
         db'.events \in {db.events, tx.events}, db.rows \subseteq db'.rows,
         crashes' = 0 => (crashes = 0 /\ known' = known),
         \A r \in Rooms : db'.cursor[r] <= feed[r],
         \A r \in TclkRooms : db'.tclk[r] <= feed[r],
         writeErrors = 0 => \A r \in Rooms \ TclkRooms :
           db'.cursor[r] # db.cursor[r] =>
             \A s \in 1 .. db'.cursor[r] : <<r, s>> \in db'.rows \cup unscored
  PROVE  ScorerInv'
<1>1. /\ ScorerTypeOK /\ CursorsAreBehind
      /\ db.events \in Nat /\ tx.events \in Nat /\ Len(events) \in Nat
      /\ db.events <= tx.events /\ tx.events <= Len(events)
  BY SessionTypes DEF ScorerInv, CursorsPassNothing, ScorerTypeOK, CursorsAreBehind
<1>2. ScorerTypeOK'
  BY <1>1 DEF ScorerTypeOK
<1>3. CursorsAreBehind'
  BY <1>1 DEF CursorsAreBehind
<1>4. EvaluatedBelowCursor'
  BY DEF ScorerInv, CursorsPassNothing, EvaluatedBelowCursor
<1>5. AnnouncementsAreRead'
  <2>1. 1 .. tx'.events \subseteq 1 .. tx.events
    BY <1>1
  <2> QED
    BY <2>1 DEF ScorerInv, AnnouncementsAreRead
<1>6. AnnouncedOnce' /\ SessionIsCommitted' /\ BatchInv'
  BY DEF ScorerInv, AnnouncedOnce, SessionIsCommitted, BatchInv
<1> QED
  BY <1>2, <1>3, <1>4, <1>5, <1>6, ReadIsMonitoredNext DEF ScorerInv, CursorsPassNothing

LEMMA EndRoomKeeps == ScorerInv /\ EndRoom => ScorerInv'
<1> SUFFICES ASSUME ScorerInv, EndRoom PROVE ScorerInv'
  OBVIOUS
<1>1. /\ pc = "message" /\ at > last /\ pc' = "read" /\ queue' = Tail(queue)
      /\ UNCHANGED <<feed, events, known, base, at, last, alerts, unscored, passed, writeErrors, crashes>>
  BY DEF EndRoom, outside, window, effects
<1>2. /\ ScorerTypeOK /\ CursorsAreBehind /\ queue' \in Seq(Rooms) /\ failures \in Nat /\ crashes \in Nat
      /\ known \subseteq Announced
  <2>1. ScorerTypeOK /\ CursorsAreBehind /\ queue # <<>>
    BY <1>1, InBatch
  <2>2. queue \in Seq(Rooms) /\ failures \in Nat /\ crashes \in Nat /\ known \subseteq Announced
    BY <2>1 DEF ScorerTypeOK
  <2> QED
    BY <1>1, <2>1, <2>2
<1>3. at = last + 1 /\ last \in Nat /\ tx.cursor[Room] \in Nat /\ tx.cursor[Room] <= last /\ Room \in Rooms
  BY <1>1, InBatch, SessionTypes
<1>4. Larger(tx.cursor[Room], last) = last
  BY <1>3 DEF Larger
<1> DEFINE t == [tx EXCEPT !.cursor[Room] = last]
<1>5. /\ t \in Session /\ t.cursor[Room] = last /\ t.events = tx.events /\ db.rows \subseteq t.rows
      /\ t.rows = tx.rows /\ t.tclk = db.tclk
      /\ \A r \in Rooms \ {Room} : t.cursor[r] = db.cursor[r]
  <2>1. last \in 0 .. MaxMsgs
    BY <1>1, InBatch
  <2> QED
    BY <1>1, <2>1, InBatch DEF Session
<1>6. \/ db' = t /\ tx' = t /\ failures' = failures
      \/ db' = db /\ tx' = db /\ failures' = failures + 1
  BY <1>4 DEF EndRoom, CommitOr, Fault
<1> HIDE DEF t
<1>7. CASE db' = db
  BY <1>1, <1>2, <1>6, <1>7, InBatch, CommittedKeeps DEF CursorsAreBehind
<1>8. CASE db' = t /\ tx' = t /\ failures' = failures
  <2>1. \A r \in Rooms : db'.cursor[r] <= feed[r]
    BY <1>1, <1>2, <1>5, <1>8, InBatch DEF CursorsAreBehind
  <2>2. \A r \in TclkRooms : db'.tclk[r] <= feed[r]
    BY <1>2, <1>5, <1>8 DEF CursorsAreBehind
  <2>3. ASSUME writeErrors = 0, NEW r \in Rooms \ TclkRooms, db'.cursor[r] # db.cursor[r],
               NEW s \in 1 .. db'.cursor[r]
        PROVE  <<r, s>> \in db'.rows \cup unscored
    <3>1. r = Room /\ s \in 1 .. (at - 1)
      BY <1>3, <1>5, <1>8, <2>3
    <3> QED
      BY <1>1, <1>5, <1>8, <2>3, <3>1, InBatch
  <2> QED
    BY <1>1, <1>2, <1>5, <1>8, <2>1, <2>2, <2>3, CommittedKeeps
<1> QED
  BY <1>6, <1>7, <1>8

LEMMA TclkPassKeeps == ScorerInv /\ TclkPass => ScorerInv'
<1> SUFFICES ASSUME ScorerInv, TclkPass PROVE ScorerInv'
  OBVIOUS
<1>1. /\ pc = "read" /\ queue = <<>> /\ pc' = "events"
      /\ UNCHANGED <<feed, events, known, queue, base, at, last, alerts, unscored, passed, writeErrors, crashes>>
  BY DEF TclkPass, outside, window, effects
<1>2. /\ ScorerTypeOK /\ CursorsAreBehind /\ db \in Session /\ tx \in Session
      /\ tx.cursor = db.cursor /\ tx.tclk = db.tclk /\ tx.rows = db.rows
      /\ feed \in [Rooms -> 0 .. MaxMsgs] /\ TclkRooms \subseteq Rooms /\ MaxMsgs \in Nat
      /\ queue' \in Seq(Rooms) /\ known' \subseteq Announced /\ failures \in Nat /\ crashes' \in Nat
  BY <1>1, ScorerAssumption DEF ScorerInv, CursorsPassNothing, SessionIsCommitted, ScorerTypeOK, Rooms
<1> DEFINE plain == [r \in Rooms |-> IF r \in TclkRooms THEN Larger(db.cursor[r], feed[r]) ELSE db.cursor[r]]
           moved == [tx EXCEPT !.cursor = plain, !.tclk = [r \in TclkRooms |-> feed[r]]]
<1>3. \A r \in Rooms : /\ feed[r] \in Nat /\ feed[r] <= MaxMsgs
                       /\ db.cursor[r] \in Nat /\ db.cursor[r] <= feed[r]
  BY <1>2, SessionTypes DEF CursorsAreBehind
<1>4. /\ plain \in [Rooms -> 0 .. MaxMsgs]
      /\ \A r \in Rooms : plain[r] <= feed[r]
      /\ \A r \in Rooms \ TclkRooms : plain[r] = db.cursor[r]
  BY <1>2, <1>3 DEF Larger
<1>5. \/ tx' = db' /\ db' = db /\ failures' \in {failures, failures + 1}
      \/ db' = moved /\ tx' = moved /\ failures' = failures
  BY <1>2 DEF TclkPass, CommitOr, Fault
<1> HIDE DEF plain
<1>6. /\ moved \in Session /\ moved.cursor = plain /\ moved.rows = db.rows /\ moved.events = tx.events
      /\ \A r \in TclkRooms : moved.tclk[r] = feed[r]
  BY <1>2, <1>4 DEF Session
<1> HIDE DEF moved
<1>7. CASE tx' = db' /\ db' = db /\ failures' \in {failures, failures + 1}
  BY <1>1, <1>2, <1>7, CommittedKeeps DEF CursorsAreBehind
<1>8. CASE db' = moved /\ tx' = moved /\ failures' = failures
  <2>1. /\ \A r \in Rooms : db'.cursor[r] <= feed[r]
        /\ \A r \in TclkRooms : db'.tclk[r] <= feed[r]
        /\ \A r \in Rooms \ TclkRooms : db'.cursor[r] = db.cursor[r]
    BY <1>2, <1>3, <1>4, <1>6, <1>8
  <2> QED
    BY <1>1, <1>2, <1>6, <1>8, <2>1, CommittedKeeps
<1> QED
  BY <1>5, <1>7, <1>8

LEMMA RestartKeeps == ScorerInv /\ Restart => ScorerInv'
<1> SUFFICES ASSUME ScorerInv, Restart PROVE ScorerInv'
  OBVIOUS
<1>1. /\ crashes' = crashes + 1 /\ tx' = db /\ known' = {} /\ queue' = <<>> /\ pc' = "events"
      /\ UNCHANGED <<feed, events, db, base, at, last, alerts, unscored, passed, failures, writeErrors>>
  BY DEF Restart, outside, window, effects
<1>2. ScorerTypeOK /\ CursorsAreBehind /\ db \in Session /\ failures \in Nat /\ crashes \in Nat
  BY DEF ScorerInv, CursorsPassNothing, ScorerTypeOK
<1>3. queue' \in Seq(Rooms) /\ crashes' \in Nat /\ crashes' # 0
  BY <1>1, <1>2
<1> QED
  BY <1>1, <1>2, <1>3, CommittedKeeps DEF CursorsAreBehind

LEMMA ScorerStep == ScorerInv /\ [Next]_vars => ScorerInv'
<1> SUFFICES ASSUME ScorerInv, [Next]_vars PROVE ScorerInv'
  OBVIOUS
<1>1. CASE UNCHANGED vars
  BY <1>1 DEF vars, ScorerInv, CursorsPassNothing, ScorerTypeOK, EvaluatedBelowCursor, DiscoveredIsMonitored,
     AnnouncementsAreRead, AnnouncedOnce, CursorsAreBehind, SessionIsCommitted, BatchInv, Below, Room
<1>2. CASE Next
  BY <1>2, PostKeeps, AnnounceKeeps, PollEventsKeeps, ReadRoomKeeps, HandlingKeeps, EndRoomKeeps,
     TclkPassKeeps, RestartKeeps DEF Next, Step
<1> QED
  BY <1>1, <1>2

\* The scorer's inductive invariant.
THEOREM ScorerInvariant == Spec => []ScorerInv
  BY ScorerInit, ScorerStep, PTL DEF Spec

\* Restarts, failed commits and cursors read as 0 skip nothing, for any rooms
\* and any number of messages and failures; of the announcements, a malformed
\* one and those behind it in its batch are given up (passed).
THEOREM NothingIsPassedOver == Spec => []CursorsPassNothing
<1>1. ScorerInv => CursorsPassNothing
  BY DEF ScorerInv
<1> QED
  BY <1>1, ScorerInvariant, PTL

\* Nobody is alerted twice about what is committed: the guard looks at the
\* session, and the session shows every committed row at any moment.
THEOREM AlertsEndWithCommit == Spec => NoAlertAfterCommit
<1>1. ScorerInv /\ [Next]_vars => [\A m \in db.rows : alerts'[m] = alerts[m]]_vars
  <2> SUFFICES ASSUME ScorerInv, Next, NEW m \in db.rows PROVE alerts'[m] = alerts[m]
    OBVIOUS
  <2>1. CASE Score
    <3>1. pc = "message" /\ <<Room, at>> \notin tx.rows
      BY <2>1 DEF Score, Handling
    <3>2. m # <<Room, at>> /\ m \in Messages /\ alerts \in [Messages -> Nat]
      BY <3>1, InBatch DEF ScorerTypeOK, Session
    <3> QED
      BY <2>1, <3>2 DEF Score
  <2>2. CASE ~Score
    BY <2>2 DEF Next, Step, Post, Announce, PollEvents, ReadRoom, EvaluateFails, Duplicate, WriteFails,
       EndRoom, TclkPass, Restart, effects
  <2> QED
    BY <2>1, <2>2
<1> QED
  BY <1>1, ScorerInvariant, PTL DEF Spec, NoAlertAfterCommit

-----------------------------------------------------------------------------
(* The digests.  The invariant (DigestInv) says how far the windows of an  *)
(* owner's finished jobs reach, and that an open job continues them.       *)

\* A set of integers with an upper bound has a maximum.
LEMMA MaxIsUpper ==
  ASSUME NEW S, S \subseteq Int, S # {}, NEW b \in Int, \A x \in S : x <= b
  PROVE  Max(S) \in S /\ \A x \in S : x <= Max(S)
<1> DEFINE T == {b - x : x \in S}
<1>1. T \subseteq Nat /\ T # {}
  <2>1. ASSUME NEW x \in S PROVE b - x \in Nat
    <3>1. x \in Int /\ x <= b
      OBVIOUS
    <3> QED
      BY <3>1
  <2>2. PICK x \in S : TRUE
    OBVIOUS
  <2>3. b - x \in T
    BY <2>2
  <2> QED
    BY <2>1, <2>3
<1>2. PICK n \in T : \A k \in T : ~(<<k, n>> \in OpToRel(<, Nat))
  <2>1. IsWellFoundedOn(OpToRel(<, Nat), Nat)
    BY NatLessThanWellFounded
  <2> HIDE DEF T
  <2> QED
    BY <1>1, <2>1, WFMin, Zenon
<1>3. n \in Nat /\ \A k \in T : k \in Nat /\ ~(k < n)
  BY <1>1, <1>2 DEF OpToRel
<1>4. PICK x \in S : n = b - x
  OBVIOUS
<1>5. \A y \in S : y <= x
  <2> SUFFICES ASSUME NEW y \in S PROVE y <= x
    OBVIOUS
  <2>1. b - y \in T
    OBVIOUS
  <2>2. ~(b - y < n)
    BY <1>3, <2>1
  <2> QED
    BY <1>4, <2>2
<1>6. \E z \in S : \A y \in S : z >= y
  BY <1>5
<1>7. Max(S) \in S /\ \A y \in S : Max(S) >= y
  BY <1>6 DEF Max
<1> QED
  BY <1>7

\* A page and what it cuts off are all there is in the window.
LEMMA PageOrCut ==
  ASSUME NEW table, IsFiniteSet(table), NEW since, NEW page, IsPage(page, Window(table, since)),
         NEW i \in Window(table, since)
  PROVE  i \in page \cup Cut(page, table, since)
<1>1. Window(table, since) \subseteq table /\ page \subseteq Window(table, since)
  BY DEF Window, IsPage
<1>2. IsFiniteSet(Window(table, since))
  BY <1>1, FS_Subset
<1>3. CASE Cardinality(page) = PAGE
  BY <1>3 DEF Cut
<1>4. CASE Cardinality(page) # PAGE
  <2>1. Cardinality(page) = Cardinality(Window(table, since))
    BY <1>4 DEF IsPage
  <2>2. page = Window(table, since)
    BY <1>1, <1>2, <2>1, FS_Subset
  <2> QED
    BY <2>2
<1> QED
  BY <1>3, <1>4

LEMMA DgNumbers ==
  /\ NotYet \in Int /\ NotYet < 0 /\ NotYet < -Interval /\ Interval \in Nat /\ Interval > 0
  BY DigestAssumption DEF NotYet

\* An open transaction is not the idle one.
LEMMA JobShapes ==
  /\ \A j \in OpenJob : j # NoDigest
  /\ DgTypeOK => \A o \in Owners : Open(o) => dgJob[o] \in OpenJob
<1>1. \A j \in OpenJob : j.step = "open"
  BY DEF OpenJob
<1>2. NoDigest.step = "idle"
  BY DEF NoDigest
<1>3. \A j \in OpenJob : j # NoDigest
  BY <1>1, <1>2
<1> QED
  BY <1>3 DEF Open, DgTypeOK

LEMMA DigestBegins == DgInit => DigestInv
<1> SUFFICES ASSUME DgInit PROVE DigestInv
  OBVIOUS
<1>1. \A o \in Owners : ~Open(o)
  BY DEF DgInit, Owners, Open
<1>2. DgTypeOK
  BY DgNumbers DEF DgInit, DgTypeOK, Owners
<1>3. TimesArePast
  BY <1>1, DgNumbers DEF DgInit, TimesArePast
<1>4. LastIsCovered
  BY DgNumbers DEF DgInit, LastIsCovered, CoveredUpTo, Dated
<1> QED
  BY <1>1, <1>2, <1>3, <1>4 DEF DigestInv, JobsAreCovered

\* What a step leaves covered: items, reports and starts of windows only grow,
\* and an item is dated no earlier than the clock.
Grows ==
  /\ \A d \in Schedules : /\ dgReported[d] \subseteq dgReported'[d] /\ dgMissed[d] \subseteq dgMissed'[d]
                          /\ dgFrom[d] <= dgFrom'[d]
  /\ \A i \in DgItems : dgAt'[i] = dgAt[i] \/ dgAt'[i] >= dgNow

LEMMA CoverGrows ==
  ASSUME DgTypeOK, DgTypeOK', Grows, NEW d \in Schedules, NEW t \in Int, t <= dgNow, CoveredUpTo(d, t)
  PROVE  CoveredUpTo(d, t)'
<1> SUFFICES ASSUME NEW i \in DgItems \ Low, dgAt'[i] >= 0, dgFrom'[d] <= dgAt'[i], dgAt'[i] < t
             PROVE  i \in dgReported'[d] \cup dgMissed'[d]
  BY DEF CoveredUpTo, Dated, Answered
<1>1. dgNow \in Int /\ dgAt[i] \in Int /\ dgAt'[i] \in Int /\ dgFrom[d] \in Int /\ dgFrom'[d] \in Int
  BY DEF DgTypeOK
<1>2. dgAt'[i] = dgAt[i] /\ dgFrom[d] <= dgAt[i]
  BY <1>1 DEF Grows
<1>3. i \in dgReported[d] \cup dgMissed[d]
  BY <1>2 DEF CoveredUpTo, Dated, Answered
<1> QED
  BY <1>3 DEF Grows

\* The same for an entry of an open transaction.
LEMMA EntryGrows ==
  ASSUME DgTypeOK, DgTypeOK', Grows, NEW m \in Entry, NEW now \in Int, now <= dgNow,
         \A i \in DgItems \ Low : Dated(m.schedule, i) /\ m.from <= dgAt[i] /\ dgAt[i] < now
            => i \in m.got \cup m.missed \/ Answered(m.schedule, i),
         NEW i \in DgItems \ Low, Dated(m.schedule, i)', m.from <= dgAt'[i], dgAt'[i] < now
  PROVE  i \in m.got \cup m.missed \/ Answered(m.schedule, i)'
<1>1. m.schedule \in Schedules
  BY DEF Entry
<1>2. /\ dgNow \in Int /\ dgAt[i] \in Int /\ dgAt'[i] \in Int
      /\ dgFrom[m.schedule] \in Int /\ dgFrom'[m.schedule] \in Int
      /\ dgFrom[m.schedule] <= dgFrom'[m.schedule]
  BY <1>1 DEF DgTypeOK, Grows
<1>3. dgAt'[i] = dgAt[i] /\ dgAt'[i] >= 0 /\ dgFrom'[m.schedule] <= dgAt'[i]
  BY <1>2 DEF Grows, Dated
<1>4. Dated(m.schedule, i)
  BY <1>2, <1>3 DEF Dated
<1>5. i \in m.got \cup m.missed \/ Answered(m.schedule, i)
  BY <1>3, <1>4
<1> QED
  BY <1>1, <1>5 DEF Answered, Grows

\* A transaction that a step leaves alone stays covered.
LEMMA JobCarried ==
  ASSUME DigestInv, DgTypeOK', Grows, dgNow <= dgNow', NEW o \in Owners, Open(o), dgJob'[o] = dgJob[o]
  PROVE  (TurnsAreCovered(o) /\ TurnsArePast(o) /\ EntriesCover(o))'
<1>1. /\ DgTypeOK /\ TimesArePast /\ dgJob[o] \in OpenJob
      /\ TurnsAreCovered(o) /\ TurnsArePast(o) /\ EntriesCover(o)
  BY JobShapes DEF DigestInv, JobsAreCovered
<1>2. /\ dgNow \in Int /\ dgNow' \in Int /\ dgJob[o].now \in Int /\ dgJob[o].now <= dgNow
      /\ dgJob[o].made \subseteq Entry
      /\ \A k \in DOMAIN dgJob[o].todo : dgJob[o].todo[k] \in Turn
  BY <1>1 DEF DgTypeOK, OpenJob, TimesArePast
<1>3. ASSUME NEW k \in DOMAIN dgJob[o].todo
      PROVE  /\ CoveredUpTo(dgJob[o].todo[k].schedule, dgJob[o].todo[k].last)'
             /\ dgJob[o].todo[k].last <= dgNow'
  <2> DEFINE t == dgJob[o].todo[k]
  <2>1. t.schedule \in Schedules /\ t.last \in Int /\ t.last <= dgNow
    BY <1>1, <1>2 DEF Turn, TurnsArePast
  <2>2. CoveredUpTo(t.schedule, t.last)
    BY <1>1 DEF TurnsAreCovered
  <2>3. t' = t
    OBVIOUS
  <2>4. t.last <= dgNow'
    BY <1>2, <2>1
  <2> HIDE DEF t
  <2>5. CoveredUpTo(t.schedule, t.last)'
    <3>1. ASSUME NEW d \in Schedules, NEW n \in Int, n <= dgNow, CoveredUpTo(d, n)
          PROVE  CoveredUpTo(d, n)'
      BY <1>1, <3>1, CoverGrows
    <3> QED
      BY <2>1, <2>2, <2>3, <3>1 DEF CoveredUpTo, Dated, Answered
  <2> QED
    BY <2>4, <2>5 DEF t
<1>4. ASSUME NEW m \in dgJob[o].made, NEW i \in DgItems \ Low,
             Dated(m.schedule, i)', m.from <= dgAt'[i], dgAt'[i] < dgJob[o].now
      PROVE  i \in m.got \cup m.missed \/ Answered(m.schedule, i)'
  <2>1. m \in Entry
    BY <1>2
  <2> QED
    BY <1>1, <1>2, <1>4, <2>1, EntryGrows DEF EntriesCover
<1>5. TurnsAreCovered(o)' /\ TurnsArePast(o)'
  BY <1>3 DEF TurnsAreCovered, TurnsArePast
<1>6. EntriesCover(o)'
  BY <1>4 DEF EntriesCover
<1> QED
  BY <1>5, <1>6

\* The stamps stay covered when a step leaves them alone.
LEMMA LastCarried ==
  ASSUME DigestInv, DgTypeOK', Grows, dgLast' = dgLast
  PROVE  LastIsCovered'
<1>1. DgTypeOK /\ TimesArePast /\ LastIsCovered
  BY DEF DigestInv
<1>2. ASSUME NEW d \in Schedules
      PROVE  CoveredUpTo(d, dgLast[d])'
  <2> DEFINE n == dgLast[d]
  <2>1. n \in Int /\ n <= dgNow /\ CoveredUpTo(d, n) /\ n' = n
    BY <1>1 DEF DgTypeOK, TimesArePast, LastIsCovered
  <2> HIDE DEF n
  <2>2. ASSUME NEW b \in Int, b <= dgNow, CoveredUpTo(d, b)
        PROVE  CoveredUpTo(d, b)'
    BY <1>1, <2>2, CoverGrows
  <2>3. CoveredUpTo(d, n)'
    BY <2>1, <2>2 DEF CoveredUpTo, Dated, Answered
  <2> QED
    BY <2>3 DEF n
<1> QED
  BY <1>2 DEF LastIsCovered

\* The world: the clock, and items that are dated and committed.
LEMMA WorldKeeps ==
  ASSUME DigestInv, DgTick \/ \E i \in DgItems : Observe(i) \/ Land(i)
  PROVE  DigestInv'
<1>1. DgTypeOK /\ TimesArePast /\ JobsAreCovered
  BY DEF DigestInv
<1>2. /\ UNCHANGED <<dgLast, dgJob, dgReported, dgMissed, dgFrom>>
      /\ dgNow' \in {dgNow, dgNow + 1} /\ dgDigests' = dgDigests
  BY DEF DgTick, Observe, Land
<1>3. /\ \A i \in DgItems : dgAt'[i] = dgAt[i] \/ dgAt'[i] = dgNow
      /\ dgAt' \in [DgItems -> Int] /\ dgLanded' \subseteq DgItems
      /\ \A i \in dgLanded' : dgAt'[i] >= 0
  BY <1>1 DEF DgTick, Observe, Land, DgTypeOK, TimesArePast
<1>4. DgTypeOK'
  BY <1>1, <1>2, <1>3 DEF DgTypeOK
<1>5. Grows /\ dgNow <= dgNow'
  BY <1>1, <1>2, <1>3 DEF Grows, DgTypeOK
<1>6. TimesArePast'
  <2>1. /\ dgNow \in Nat /\ dgNow' \in Nat /\ dgNow <= dgNow'
        /\ \A d \in Schedules : dgLast[d] \in Int
        /\ \A o \in Owners : Open(o) => dgJob[o].now \in Int
    BY <1>1, <1>4, <1>5, JobShapes DEF DgTypeOK, OpenJob
  <2>2. \A i \in DgItems : (dgAt'[i] = NotYet \/ dgAt'[i] >= 0) /\ dgAt'[i] <= dgNow'
    BY <1>1, <1>3, <2>1 DEF TimesArePast, DgTypeOK
  <2>3. \A d \in Schedules : dgLast[d] <= dgNow'
    BY <1>1, <2>1 DEF TimesArePast
  <2>4. \A o \in Owners : Open(o) => dgJob[o].now <= dgNow'
    BY <1>1, <2>1 DEF TimesArePast
  <2> QED
    BY <1>1, <1>2, <1>3, <2>2, <2>3, <2>4 DEF TimesArePast, Open
<1>7. JobsAreCovered'
  <2> SUFFICES ASSUME NEW o \in Owners, Open(o)
               PROVE  (TurnsAreCovered(o) /\ TurnsArePast(o) /\ EntriesCover(o))'
    BY <1>2 DEF JobsAreCovered, Open
  <2> QED
    BY <1>2, <1>4, <1>5, JobCarried
<1> QED
  BY <1>2, <1>4, <1>5, <1>6, <1>7, LastCarried DEF DigestInv

\* A transaction that ends, or begins, beside others that go on.
LEMMA OthersGoOn ==
  ASSUME DigestInv, DgTypeOK', Grows, dgNow' = dgNow, dgAt' = dgAt, dgLanded' = dgLanded,
         \A d \in Schedules : dgLast'[d] <= dgNow, LastIsCovered',
         NEW o \in Owners, \A p \in Owners \ {o} : dgJob'[p] = dgJob[p],
         Open(o)' => /\ dgJob'[o].now <= dgNow /\ \A m \in dgJob'[o].made : m.from <= dgJob'[o].now
                     /\ (TurnsAreCovered(o) /\ TurnsArePast(o) /\ EntriesCover(o))'
  PROVE  DigestInv'
<1>1. DgTypeOK /\ TimesArePast /\ JobsAreCovered /\ dgNow \in Nat
  BY DEF DigestInv, DgTypeOK
<1>2. TimesArePast'
  BY <1>1 DEF TimesArePast, Open
<1>3. JobsAreCovered'
  <2> SUFFICES ASSUME NEW p \in Owners, Open(p)', p # o
               PROVE  (TurnsAreCovered(p) /\ TurnsArePast(p) /\ EntriesCover(p))'
    BY DEF JobsAreCovered
  <2>1. dgJob'[p] = dgJob[p] /\ Open(p)
    BY DEF Open
  <2> QED
    BY <1>1, <2>1, JobCarried
<1> QED
  BY <1>2, <1>3 DEF DigestInv

\* A digest begins: the turns it reads are the present stamps.
LEMMA DigestOpens ==
  ASSUME DigestInv, NEW o \in Owners, NEW turns \in Seq(Turn),
         \A k \in DOMAIN turns : turns[k].last = dgLast[turns[k].schedule],
         dgJob' = [dgJob EXCEPT ![o] = [step |-> "open", now |-> dgNow, made |-> {}, todo |-> turns]],
         dgDigests' = dgDigests + 1,
         UNCHANGED <<dgNow, dgAt, dgLanded, dgLast, dgReported, dgMissed, dgFrom>>
  PROVE  DigestInv'
<1>1. DgTypeOK /\ TimesArePast /\ LastIsCovered
  BY DEF DigestInv
<1> DEFINE j == [step |-> "open", now |-> dgNow, made |-> {}, todo |-> turns]
<1>2. j \in OpenJob /\ j.now = dgNow /\ j.made = {} /\ j.todo = turns
  BY <1>1 DEF OpenJob, DgTypeOK
<1> HIDE DEF j
<1>3. dgJob' = [dgJob EXCEPT ![o] = j]
  BY DEF j
<1>4. DgTypeOK'
  <2>1. dgJob' \in [Owners -> {NoDigest} \cup OpenJob]
    BY <1>1, <1>2, <1>3 DEF DgTypeOK
  <2>2. dgDigests' \in Nat
    BY <1>1 DEF DgTypeOK
  <2> QED
    BY <1>1, <2>1, <2>2 DEF DgTypeOK
<1>5. Grows
  BY <1>1 DEF Grows, DgTypeOK
<1>6. dgJob'[o] = j /\ \A p \in Owners \ {o} : dgJob'[p] = dgJob[p]
  BY <1>1, <1>3 DEF DgTypeOK
<1>7. LastIsCovered'
  BY <1>4, <1>5, LastCarried
<1>8. ASSUME NEW k \in DOMAIN turns
      PROVE  turns[k].last <= dgNow /\ CoveredUpTo(turns[k].schedule, turns[k].last)'
  <2>1. turns[k].schedule \in Schedules
    <3>1. k \in 1 .. Len(turns) /\ turns[k] \in Turn
      BY LenProperties, ElementOfSeq
    <3> QED
      BY <3>1 DEF Turn
  <2>2. turns[k].last <= dgNow
    BY <1>1, <2>1 DEF TimesArePast
  <2>3. CoveredUpTo(turns[k].schedule, turns[k].last)
    BY <1>1, <2>1 DEF LastIsCovered
  <2> QED
    BY <2>2, <2>3 DEF CoveredUpTo, Dated, Answered
<1>9. /\ dgJob'[o].now <= dgNow /\ \A m \in dgJob'[o].made : m.from <= dgJob'[o].now
      /\ (TurnsAreCovered(o) /\ TurnsArePast(o) /\ EntriesCover(o))'
  <2>1. dgNow <= dgNow
    BY <1>1 DEF DgTypeOK
  <2> QED
    BY <1>2, <1>6, <1>8, <2>1 DEF TurnsAreCovered, TurnsArePast, EntriesCover
<1>10. \A d \in Schedules : dgLast'[d] <= dgNow
  BY <1>1 DEF TimesArePast
<1> QED
  BY <1>4, <1>5, <1>6, <1>7, <1>9, <1>10, OthersGoOn

LEMMA OpensKeep ==
  ASSUME DigestInv, RunDue \/ \E o \in Clerks, d \in Schedules : Request(o, d)
  PROVE  DigestInv'
<1>1. CASE RunDue
  <2> DEFINE n == IF Len(ByTitle) < PerRun THEN Len(ByTitle) ELSE PerRun
             turns == [k \in 1 .. n |-> [schedule |-> ByTitle[k], last |-> dgLast[ByTitle[k]]]]
  <2>1. n \in Nat /\ n <= Len(ByTitle)
    BY DigestAssumption DEF Schedules
  <2>2. \A k \in 1 .. n : ByTitle[k] \in Schedules
    BY <2>1, DigestAssumption DEF Schedules
  <2>3. dgLast \in [Schedules -> Int]
    BY DEF DigestInv, DgTypeOK
  <2>4. turns \in Seq(Turn)
    <3> HIDE DEF n
    <3>1. \A k \in 1 .. n : [schedule |-> ByTitle[k], last |-> dgLast[ByTitle[k]]] \in Turn
      BY <2>2, <2>3 DEF Turn
    <3>2. turns \in [1 .. n -> Turn]
      BY <3>1
    <3> QED
      BY <2>1, <3>2, IsASeq
  <2>5. \A k \in DOMAIN turns : turns[k].last = dgLast[turns[k].schedule]
    OBVIOUS
  <2>6. /\ dgJob' = [dgJob EXCEPT !["tick"] = [step |-> "open", now |-> dgNow, made |-> {}, todo |-> turns]]
        /\ dgDigests' = dgDigests + 1
        /\ UNCHANGED <<dgNow, dgAt, dgLanded, dgLast, dgReported, dgMissed, dgFrom>>
    BY <1>1 DEF RunDue
  <2>7. "tick" \in Owners
    BY DEF Owners
  <2> HIDE DEF turns
  <2> QED
    BY <2>4, <2>5, <2>6, <2>7, DigestOpens
<1>2. ASSUME NEW o \in Clerks, NEW d \in Schedules, Request(o, d)
      PROVE  DigestInv'
  <2> DEFINE turns == << [schedule |-> d, last |-> dgLast[d]] >>
  <2>1. turns \in Seq(Turn)
    BY DEF DigestInv, DgTypeOK, Turn
  <2>2. \A k \in DOMAIN turns : turns[k].last = dgLast[turns[k].schedule]
    OBVIOUS
  <2>3. /\ dgJob' = [dgJob EXCEPT ![o] = [step |-> "open", now |-> dgNow, made |-> {}, todo |-> turns]]
        /\ dgDigests' = dgDigests + 1
        /\ UNCHANGED <<dgNow, dgAt, dgLanded, dgLast, dgReported, dgMissed, dgFrom>>
    BY <1>2 DEF Request
  <2>4. o \in Owners
    BY DEF Owners
  <2> HIDE DEF turns
  <2> QED
    BY <2>1, <2>2, <2>3, <2>4, DigestOpens
<1> QED
  BY <1>1, <1>2

LEMMA FailsKeep ==
  ASSUME DigestInv, NEW o \in Owners, DigestFails(o)
  PROVE  DigestInv'
<1>1. DgTypeOK /\ TimesArePast
  BY DEF DigestInv
<1>2. /\ dgJob' = [dgJob EXCEPT ![o] = NoDigest]
      /\ UNCHANGED <<dgNow, dgAt, dgLanded, dgLast, dgReported, dgMissed, dgFrom, dgDigests>>
  BY DEF DigestFails
<1>3. DgTypeOK'
  <2>1. dgJob' \in [Owners -> {NoDigest} \cup OpenJob]
    BY <1>1, <1>2 DEF DgTypeOK
  <2> QED
    BY <1>1, <1>2, <2>1 DEF DgTypeOK
<1>4. Grows
  BY <1>1, <1>2 DEF Grows, DgTypeOK
<1>5. ~Open(o)' /\ \A p \in Owners \ {o} : dgJob'[p] = dgJob[p]
  BY <1>1, <1>2 DEF DgTypeOK, Open
<1>6. \A d \in Schedules : dgLast'[d] <= dgNow
  BY <1>1, <1>2 DEF TimesArePast
<1>7. LastIsCovered'
  BY <1>2, <1>3, <1>4, LastCarried
<1> QED
  BY <1>2, <1>3, <1>4, <1>5, <1>6, <1>7, OthersGoOn

\* A digest takes what is visible and counts what is not.
LEMMA EntryIsSound ==
  ASSUME DigestInv, NEW o \in Owners, Open(o), dgJob[o].todo # <<>>,
         NEW c \in SUBSET Changes, NEW e \in SUBSET Evaluations, NEW t, t = Head(dgJob[o].todo),
         NEW since, since = Since(t.last, dgJob[o].now),
         IsPage(c, Window(Changes, since)), IsPage(e, Window(Evaluations, since)),
         NEW m, m = [schedule |-> t.schedule, from |-> IF t.last = NotYet THEN since ELSE NotYet,
                     got |-> c \cup (e \ Low),
                     missed |-> {i \in DgItems \ dgLanded : dgAt[i] \in since .. dgJob[o].now}
                                \cup Cut(c, Changes, since) \cup Cut(e, Evaluations, since)]
  PROVE  /\ m \in Entry /\ m.from <= dgJob[o].now
         /\ \A i \in DgItems \ Low : Dated(m.schedule, i) /\ m.from <= dgAt[i] /\ dgAt[i] < dgJob[o].now
              => i \in m.got \cup m.missed \/ Answered(m.schedule, i)
<1>1. DgTypeOK /\ dgJob[o] \in OpenJob /\ TurnsAreCovered(o) /\ TurnsArePast(o)
  BY JobShapes DEF DigestInv, JobsAreCovered
<1>2. dgJob[o].now \in Nat /\ dgJob[o].todo \in Seq(Turn)
  BY <1>1 DEF OpenJob
<1>3. t \in Turn /\ 1 \in DOMAIN dgJob[o].todo /\ t = dgJob[o].todo[1]
  BY <1>2
<1>4. t.schedule \in Schedules /\ t.last \in Int /\ CoveredUpTo(t.schedule, t.last)
  BY <1>1, <1>3 DEF Turn, TurnsAreCovered
<1>5. since \in Int /\ (t.last = NotYet => since = dgJob[o].now - Interval) /\ (t.last # NotYet => since = t.last)
  <2>1. (t.last = NotYet => since = dgJob[o].now - Interval) /\ (t.last # NotYet => since = t.last)
    BY Zenon DEF Since
  <2>2. dgJob[o].now - Interval \in Int
    BY <1>2, DgNumbers
  <2> QED
    BY <1>4, <2>1, <2>2
<1>6. /\ m.schedule = t.schedule /\ m.got = c \cup (e \ Low)
      /\ (t.last = NotYet => m.from = since) /\ (t.last # NotYet => m.from = NotYet)
      /\ m.missed = {i \in DgItems \ dgLanded : dgAt[i] \in since .. dgJob[o].now}
                    \cup Cut(c, Changes, since) \cup Cut(e, Evaluations, since)
  OBVIOUS
<1>7. m.got \subseteq DgItems /\ m.missed \subseteq DgItems
  BY <1>6 DEF DgItems, Cut, Window
<1>8. m.from \in Int /\ m.from <= dgJob[o].now
  <2>1. CASE t.last = NotYet
    <3>1. m.from = dgJob[o].now - Interval
      BY <1>5, <1>6, <2>1
    <3> QED
      BY <1>2, <3>1, DgNumbers
  <2>2. CASE t.last # NotYet
    <3>1. m.from = NotYet
      BY <1>6, <2>2
    <3> QED
      BY <1>2, <3>1, DgNumbers
  <2> QED
    BY <2>1, <2>2
<1>9. m \in Entry
  <2>1. m = [schedule |-> m.schedule, from |-> m.from, got |-> m.got, missed |-> m.missed]
    OBVIOUS
  <2> QED
    BY <1>4, <1>6, <1>7, <1>8, <2>1 DEF Entry
<1>10. ASSUME NEW i \in DgItems \ Low, Dated(m.schedule, i), m.from <= dgAt[i], dgAt[i] < dgJob[o].now
       PROVE  i \in m.got \cup m.missed \/ Answered(m.schedule, i)
  <2>1. dgAt[i] \in Int /\ dgAt[i] >= 0
    BY <1>1, <1>10 DEF DgTypeOK, Dated
  <2>2. CASE dgAt[i] < since
    <3>1. t.last # NotYet /\ since = t.last
      <4>1. CASE t.last = NotYet
        <5>1. m.from = since
          BY <1>6, <4>1
        <5>2. since \in Int /\ dgAt[i] \in Int /\ since <= dgAt[i]
          BY <1>5, <1>10, <2>1, <5>1
        <5> QED
          BY <2>2, <5>2
      <4>2. CASE t.last # NotYet
        BY <1>5, <4>2
      <4> QED
        BY <4>1, <4>2
    <3> QED
      BY <1>4, <1>6, <1>10, <2>2, <3>1 DEF CoveredUpTo
  <2>3. CASE dgAt[i] >= since /\ i \notin dgLanded
    <3>1. dgAt[i] \in since .. dgJob[o].now
      BY <1>2, <1>5, <1>10, <2>1, <2>3
    <3> QED
      BY <1>6, <2>3, <3>1
  <2>4. CASE dgAt[i] >= since /\ i \in dgLanded
    <3>1. CASE i \in Changes
      <4>1. i \in Window(Changes, since) /\ IsFiniteSet(Changes)
        BY <2>4, <3>1, DigestAssumption DEF Window
      <4>2. i \in c \cup Cut(c, Changes, since)
        BY <4>1, PageOrCut
      <4> QED
        BY <1>6, <4>2
    <3>2. CASE i \in Evaluations
      <4>1. i \in Window(Evaluations, since) /\ IsFiniteSet(Evaluations)
        BY <2>4, <3>2, DigestAssumption DEF Window
      <4>2. i \in e \cup Cut(e, Evaluations, since)
        BY <4>1, PageOrCut
      <4> QED
        BY <1>6, <4>2
    <3> QED
      BY <3>1, <3>2 DEF DgItems
  <2>5. dgAt[i] < since \/ dgAt[i] >= since
    BY <1>5, <2>1
  <2> QED
    BY <2>2, <2>3, <2>4, <2>5
<1> QED
  BY <1>8, <1>9, <1>10

\* An open transaction is replaced by one that has a turn less and perhaps an
\* entry more.
LEMMA TurnIsTaken ==
  ASSUME DigestInv, NEW o \in Owners, Open(o), dgJob[o].todo # <<>>, NEW more \in SUBSET Entry,
         \A m \in more : m.from <= dgJob[o].now,
         \A m \in more, i \in DgItems \ Low :
           Dated(m.schedule, i) /\ m.from <= dgAt[i] /\ dgAt[i] < dgJob[o].now
             => i \in m.got \cup m.missed \/ Answered(m.schedule, i),
         dgJob' = [dgJob EXCEPT ![o] = [[dgJob[o] EXCEPT !.todo = Tail(@)] EXCEPT !.made = @ \cup more]],
         UNCHANGED <<dgNow, dgAt, dgLanded, dgLast, dgReported, dgMissed, dgFrom, dgDigests>>
  PROVE  DigestInv'
<1> DEFINE j == [[dgJob[o] EXCEPT !.todo = Tail(@)] EXCEPT !.made = @ \cup more]
<1>1. /\ DgTypeOK /\ TimesArePast /\ dgJob[o] \in OpenJob
      /\ TurnsAreCovered(o) /\ TurnsArePast(o) /\ EntriesCover(o)
  BY JobShapes DEF DigestInv, JobsAreCovered
<1>2. dgJob[o].todo \in Seq(Turn) /\ Tail(dgJob[o].todo) \in Seq(Turn) /\ dgJob[o].made \subseteq Entry
  BY <1>1 DEF OpenJob
<1>3. /\ j \in OpenJob /\ j.now = dgJob[o].now /\ j.todo = Tail(dgJob[o].todo)
      /\ j.made = dgJob[o].made \cup more
  BY <1>1, <1>2 DEF OpenJob
<1> HIDE DEF j
<1>4. dgJob' = [dgJob EXCEPT ![o] = j]
  BY DEF j
<1>5. DgTypeOK'
  <2>1. dgJob' \in [Owners -> {NoDigest} \cup OpenJob]
    BY <1>1, <1>3, <1>4 DEF DgTypeOK
  <2> QED
    BY <1>1, <2>1 DEF DgTypeOK
<1>6. Grows
  BY <1>1 DEF Grows, DgTypeOK
<1>7. dgJob'[o] = j /\ \A p \in Owners \ {o} : dgJob'[p] = dgJob[p]
  BY <1>1, <1>4 DEF DgTypeOK
<1>8. LastIsCovered'
  BY <1>5, <1>6, LastCarried
<1>9. \A d \in Schedules : dgLast'[d] <= dgNow
  BY <1>1 DEF TimesArePast
<1>10. \A k \in DOMAIN j.todo : k + 1 \in DOMAIN dgJob[o].todo /\ j.todo[k] = dgJob[o].todo[k + 1]
  BY <1>2, <1>3, HeadTailProperties, LenProperties
<1>11. TurnsAreCovered(o)' /\ TurnsArePast(o)'
  <2>1. \A k \in DOMAIN j.todo :
           CoveredUpTo(j.todo[k].schedule, j.todo[k].last) /\ j.todo[k].last <= dgNow
    BY <1>1, <1>10 DEF TurnsAreCovered, TurnsArePast
  <2> QED
    BY <1>7, <2>1 DEF TurnsAreCovered, TurnsArePast, CoveredUpTo, Dated, Answered
<1>12. EntriesCover(o)'
  <2>1. \A m \in j.made, i \in DgItems \ Low :
           Dated(m.schedule, i) /\ m.from <= dgAt[i] /\ dgAt[i] < j.now
             => i \in m.got \cup m.missed \/ Answered(m.schedule, i)
    BY <1>1, <1>3 DEF EntriesCover
  <2> QED
    BY <1>7, <2>1 DEF EntriesCover, Dated, Answered
<1>13. dgJob'[o].now <= dgNow /\ \A m \in dgJob'[o].made : m.from <= dgJob'[o].now
  BY <1>1, <1>3, <1>7 DEF TimesArePast
<1> QED
  BY <1>5, <1>6, <1>7, <1>8, <1>9, <1>11, <1>12, <1>13, OthersGoOn

LEMMA PreviewKeeps ==
  ASSUME DigestInv, NEW o \in Owners, Preview(o)
  PROVE  DigestInv'
<1> DEFINE t == Head(dgJob[o].todo)
           since == Since(t.last, dgJob[o].now)
           rest == [dgJob[o] EXCEPT !.todo = Tail(@)]
<1>1. /\ Open(o) /\ dgJob[o].todo # <<>>
      /\ UNCHANGED <<dgNow, dgAt, dgLanded, dgLast, dgReported, dgMissed, dgFrom, dgDigests>>
  BY DEF Preview, Open
<1>2. dgJob[o] \in OpenJob
  BY <1>1, JobShapes DEF DigestInv
<1>3. CASE dgJob' = [dgJob EXCEPT ![o] = rest]
  <2>1. [rest EXCEPT !.made = @ \cup {}] = rest
    BY <1>2 DEF OpenJob
  <2>2. PICK more \in SUBSET Entry : more = {} /\ rest = [rest EXCEPT !.made = @ \cup more]
    BY <2>1
  <2>3. dgJob' = [dgJob EXCEPT ![o] = [[dgJob[o] EXCEPT !.todo = Tail(@)] EXCEPT !.made = @ \cup more]]
    BY <1>3, <2>2
  <2> QED
    BY <1>1, <2>2, <2>3, TurnIsTaken
<1>4. ASSUME NEW c \in SUBSET Changes, NEW e \in SUBSET Evaluations,
             IsPage(c, Window(Changes, since)), IsPage(e, Window(Evaluations, since)),
             dgJob' = [dgJob EXCEPT ![o] = [rest EXCEPT !.made = @ \cup
               {[schedule |-> t.schedule, from |-> IF t.last = NotYet THEN since ELSE NotYet,
                 got |-> c \cup (e \ Low),
                 missed |-> {i \in DgItems \ dgLanded : dgAt[i] \in since .. dgJob[o].now}
                            \cup Cut(c, Changes, since) \cup Cut(e, Evaluations, since)]}]]
      PROVE  DigestInv'
  <2> HIDE DEF t, since
  <2>0. PICK m : m = [schedule |-> t.schedule, from |-> IF t.last = NotYet THEN since ELSE NotYet,
                      got |-> c \cup (e \ Low),
                      missed |-> {i \in DgItems \ dgLanded : dgAt[i] \in since .. dgJob[o].now}
                                 \cup Cut(c, Changes, since) \cup Cut(e, Evaluations, since)]
    OBVIOUS
  <2>1. /\ m \in Entry /\ m.from <= dgJob[o].now
        /\ \A i \in DgItems \ Low : Dated(m.schedule, i) /\ m.from <= dgAt[i] /\ dgAt[i] < dgJob[o].now
              => i \in m.got \cup m.missed \/ Answered(m.schedule, i)
    BY <1>1, <1>4, <2>0, EntryIsSound DEF t, since
  <2>2. {m} \in SUBSET Entry
    BY <2>1
  <2>3. dgJob' = [dgJob EXCEPT ![o] = [[dgJob[o] EXCEPT !.todo = Tail(@)] EXCEPT !.made = @ \cup {m}]]
    BY <1>4, <2>0
  <2> QED
    BY <1>1, <2>1, <2>2, <2>3, TurnIsTaken
<1> QED
  BY <1>3, <1>4 DEF Preview

LEMMA GenerateKeeps ==
  ASSUME DigestInv, NEW o \in Owners, Generate(o)
  PROVE  DigestInv'
<1> DEFINE made == dgJob[o].made
           now == dgJob[o].now
           Of(d) == {m \in made : m.schedule = d}
<1>1. /\ Open(o)
      /\ dgLast' = [d \in Schedules |-> IF Of(d) = {} THEN dgLast[d] ELSE now]
      /\ dgReported' = [d \in Schedules |-> dgReported[d] \cup UNION {m.got : m \in Of(d)}]
      /\ dgMissed' = [d \in Schedules |-> dgMissed[d] \cup UNION {m.missed : m \in Of(d)}]
      /\ dgFrom' = [d \in Schedules |-> Max({dgFrom[d]} \cup {m.from : m \in Of(d)})]
      /\ dgJob' = [dgJob EXCEPT ![o] = NoDigest]
      /\ UNCHANGED <<dgNow, dgAt, dgLanded, dgDigests>>
  BY DEF Generate, Stored, Open
<1>2. /\ DgTypeOK /\ TimesArePast /\ LastIsCovered /\ dgJob[o] \in OpenJob /\ EntriesCover(o)
      /\ dgNow \in Nat
  BY <1>1, JobShapes DEF DigestInv, JobsAreCovered, DgTypeOK
<1>3. now \in Nat /\ now <= dgNow /\ made \subseteq Entry /\ \A m \in made : m.from \in Int /\ m.from <= now
  BY <1>1, <1>2 DEF OpenJob, TimesArePast, Entry
<1>4. ASSUME NEW d \in Schedules
      PROVE  /\ dgFrom'[d] \in Int /\ dgFrom[d] <= dgFrom'[d]
             /\ \A m \in Of(d) : m.from <= dgFrom'[d]
  <2> DEFINE S == {dgFrom[d]} \cup {m.from : m \in Of(d)}
             b == IF dgFrom[d] > now THEN dgFrom[d] ELSE now
  <2>1. dgFrom[d] \in Int /\ dgFrom'[d] = Max(S)
    BY <1>1, <1>2 DEF DgTypeOK
  <2>2. S \subseteq Int /\ S # {} /\ b \in Int /\ \A x \in S : x <= b
    BY <1>3, <2>1
  <2>3. dgFrom[d] \in S /\ \A m \in Of(d) : m.from \in S
    OBVIOUS
  <2> HIDE DEF S, b
  <2>4. Max(S) \in S /\ \A x \in S : x <= Max(S)
    BY <2>2, MaxIsUpper
  <2> QED
    BY <2>1, <2>2, <2>3, <2>4
<1>5. ASSUME NEW d \in Schedules
      PROVE  /\ dgReported'[d] \subseteq DgItems /\ dgMissed'[d] \subseteq DgItems
             /\ dgReported[d] \subseteq dgReported'[d] /\ dgMissed[d] \subseteq dgMissed'[d]
             /\ \A m \in Of(d) : m.got \subseteq dgReported'[d] /\ m.missed \subseteq dgMissed'[d]
  <2>1. \A m \in Of(d) : m.got \subseteq DgItems /\ m.missed \subseteq DgItems
    BY <1>3 DEF Entry
  <2>2. dgReported[d] \subseteq DgItems /\ dgMissed[d] \subseteq DgItems
    BY <1>2 DEF DgTypeOK
  <2> QED
    BY <1>1, <2>1, <2>2
<1>6. DgTypeOK'
  <2>1. dgJob' \in [Owners -> {NoDigest} \cup OpenJob]
    BY <1>1, <1>2 DEF DgTypeOK
  <2>2. dgFrom' \in [Schedules -> Int] /\ dgLast' \in [Schedules -> Int]
    BY <1>1, <1>2, <1>3, <1>4 DEF DgTypeOK
  <2>3. dgReported' \in [Schedules -> SUBSET DgItems] /\ dgMissed' \in [Schedules -> SUBSET DgItems]
    BY <1>1, <1>5
  <2> QED
    BY <1>1, <1>2, <2>1, <2>2, <2>3 DEF DgTypeOK
<1>7. Grows
  BY <1>1, <1>2, <1>4, <1>5 DEF Grows
<1>8. ~Open(o)' /\ \A p \in Owners \ {o} : dgJob'[p] = dgJob[p]
  BY <1>1, <1>2 DEF DgTypeOK, Open
<1>9. \A d \in Schedules : dgLast'[d] <= dgNow
  BY <1>1, <1>2, <1>3 DEF TimesArePast
<1>10. LastIsCovered'
  <2> SUFFICES ASSUME NEW d \in Schedules
               PROVE  CoveredUpTo(d, dgLast[d])'
    BY DEF LastIsCovered
  <2>1. CASE Of(d) = {}
    <3> DEFINE n == dgLast[d]
    <3>1. n \in Int /\ n <= dgNow /\ CoveredUpTo(d, n) /\ n' = n
      BY <1>1, <1>2, <2>1 DEF DgTypeOK, TimesArePast, LastIsCovered
    <3> HIDE DEF n
    <3>2. ASSUME NEW x \in Int, x <= dgNow, CoveredUpTo(d, x)
          PROVE  CoveredUpTo(d, x)'
      BY <1>2, <1>6, <1>7, <3>2, CoverGrows
    <3>3. CoveredUpTo(d, n)'
      BY <3>1, <3>2 DEF CoveredUpTo, Dated, Answered
    <3> QED
      BY <3>3 DEF n
  <2>2. CASE Of(d) # {}
    <3> SUFFICES ASSUME NEW i \in DgItems \ Low, dgAt[i] >= 0, dgFrom'[d] <= dgAt[i], dgAt[i] < now
                 PROVE  i \in dgReported'[d] \cup dgMissed'[d]
      BY <1>1, <2>2 DEF CoveredUpTo, Dated, Answered
    <3>1. PICK m \in Of(d) : TRUE
      BY <2>2
    <3>2. m \in made /\ m.schedule = d /\ m.from \in Int
      BY <1>3
    <3>3. dgFrom[d] <= dgAt[i] /\ m.from <= dgAt[i]
      <4>1. dgAt[i] \in Int /\ dgFrom[d] \in Int /\ dgFrom'[d] \in Int /\ m.from <= dgFrom'[d]
            /\ dgFrom[d] <= dgFrom'[d]
        BY <1>2, <1>4 DEF DgTypeOK
      <4> QED
        BY <3>2, <4>1
    <3>4. i \in m.got \cup m.missed \/ Answered(d, i)
      BY <1>2, <3>2, <3>3 DEF EntriesCover, Dated
    <3> QED
      BY <1>5, <3>4 DEF Answered
  <2> QED
    BY <2>1, <2>2
<1> QED
  BY <1>1, <1>6, <1>7, <1>8, <1>9, <1>10, OthersGoOn

LEMMA DigestStep == DigestInv /\ [DgNext]_dgVars => DigestInv'
<1> SUFFICES ASSUME DigestInv, [DgNext]_dgVars PROVE DigestInv'
  OBVIOUS
<1>1. CASE UNCHANGED dgVars
  BY <1>1 DEF dgVars, DigestInv, DgTypeOK, TimesArePast, LastIsCovered, JobsAreCovered, Open,
     TurnsAreCovered, TurnsArePast, EntriesCover, CoveredUpTo, Dated, Answered
<1>2. CASE DgNext
  <2>1. CASE DgTick \/ \E i \in DgItems : Observe(i) \/ Land(i)
    BY <2>1, WorldKeeps
  <2>2. CASE RunDue \/ \E o \in Clerks, d \in Schedules : Request(o, d)
    BY <2>2, OpensKeep
  <2>3. ASSUME NEW o \in Clerks \cup {"tick"}, Preview(o) \/ Generate(o) \/ DigestFails(o)
        PROVE  DigestInv'
    BY <2>3, PreviewKeeps, GenerateKeeps, FailsKeep DEF Owners
  <2> QED
    BY <1>2, <2>1, <2>2, <2>3 DEF DgNext
<1> QED
  BY <1>1, <1>2

\* The inductive invariant of the digests.
THEOREM DigestInvariant == DgSpec => []DigestInv
  BY DigestBegins, DigestStep, PTL DEF DgSpec

\* NothingIsSkipped, for any schedules, items, clerks and page sizes, whatever
\* digests overlap, fail or put the stamp of a schedule back.
THEOREM DigestsSkipNothing == DgSpec => []NothingIsSkipped
<1>1. DigestInv => NothingIsSkipped
  BY DEF DigestInv, TimesArePast, LastIsCovered, CoveredUpTo, Dated, Answered, NothingIsSkipped, DgTypeOK
<1> QED
  BY <1>1, DigestInvariant, PTL

-----------------------------------------------------------------------------
(* The source monitor.  What a pass records is right because nothing is    *)
(* written to its source between its read and its commit; a scan of the    *)
(* same source waits, and one of another touches other rows.               *)

\* What the writes of one observation leave of the rows.
LEMMA ObservationEnds ==
  ASSUME SourcesInv, NEW o \in Observers, Finish(o),
         o # "tick" => ~ (srJob["tick"] # NoJob /\ srJob["tick"].source = srJob[o].source)
  PROVE  SourcesInv'
<1> DEFINE j == srJob[o]  s == srJob[o].source
<1>1. /\ srJob' = [srJob EXCEPT ![o] = NoJob] /\ j.step = "fetched"
      /\ \/ UNCHANGED <<srHash, srObs>>
         \/ /\ srHash' = [srHash EXCEPT ![s] = Assigned(j.previous, j.result, @)]
            /\ srObs' = [srObs EXCEPT ![s] =
                 [step |-> "recorded", by |-> o, hash |-> j.result,
                  type |-> change_type(j.previous, j.result), raced |-> j.previous # srHash[s],
                  before |-> HashOf(s), overRaced |-> Raced(s)]]
  BY DEF Finish
<1>2. /\ DOMAIN srJob' = Observers /\ srJob'[o] = NoJob
      /\ \A p \in Observers \ {o} : srJob'[p] = srJob[p]
  BY <1>1 DEF SourcesInv
<1>3. \A p \in Observers : srJob'[p] = NoJob \/ srJob'[p].step = "fetched"
  BY <1>2 DEF SourcesInv
<1>4. "tick" \in Observers /\ NoJob.step = "idle"
  BY DEF Observers, NoJob
<1>5. CASE UNCHANGED <<srHash, srObs>> \/ s \notin SourceSet
  <2>1. s \notin SourceSet => \A r \in SourceSet : srHash'[r] = srHash[r] /\ srObs'[r] = srObs[r]
    BY <1>1 DEF SourcesInv
  <2>2. DOMAIN srHash' = SourceSet /\ DOMAIN srObs' = SourceSet
    BY <1>1 DEF SourcesInv
  <2>3. \A r \in SourceSet : srHash'[r] = srHash[r] /\ srObs'[r] = srObs[r]
    BY <1>5, <2>1
  <2>4. ReadUnderLock'
    <3>1. srJob'["tick"] = NoJob \/ srJob'["tick"] = srJob["tick"]
      BY <1>2, <1>4
    <3> QED BY <2>3, <3>1 DEF ReadUnderLock, SourcesInv
  <2>5. HashIsLatest' /\ ChangeMatchesHistory'
    BY <2>3 DEF HashIsLatest, ChangeMatchesHistory, Raced, HashOf, SourcesInv
  <2>6. \A r \in SourceSet : srObs'[r] = NoJob \/ srObs'[r].step = "recorded"
    BY <2>3 DEF SourcesInv
  <2> QED BY <2>6, <1>2, <1>3, <2>2, <2>4, <2>5 DEF SourcesInv
<1>6. CASE /\ s \in SourceSet
           /\ srHash' = [srHash EXCEPT ![s] = Assigned(j.previous, j.result, @)]
           /\ srObs' = [srObs EXCEPT ![s] =
                [step |-> "recorded", by |-> o, hash |-> j.result,
                 type |-> change_type(j.previous, j.result), raced |-> j.previous # srHash[s],
                 before |-> HashOf(s), overRaced |-> Raced(s)]]
  <2>1. /\ DOMAIN srHash' = SourceSet /\ DOMAIN srObs' = SourceSet
        /\ srHash'[s] = IF j.result = j.previous THEN srHash[s] ELSE j.result
        /\ srObs'[s].step = "recorded" /\ srObs'[s].by = o /\ srObs'[s].hash = j.result
        /\ srObs'[s].type = change_type(j.previous, j.result)
        /\ srObs'[s].raced = (j.previous # srHash[s])
        /\ srObs'[s].before = HashOf(s) /\ srObs'[s].overRaced = Raced(s)
        /\ \A r \in SourceSet \ {s} : srHash'[r] = srHash[r] /\ srObs'[r] = srObs[r]
    BY <1>6 DEF SourcesInv, Assigned
  <2>2. srObs'[s] # NoJob
    BY <1>4, <2>1
  <2>3. HashIsLatest'
    <3>1. srObs'[s].raced \/ srHash'[s] = srObs'[s].hash
      BY <2>1
    <3> SUFFICES ASSUME NEW r \in SourceSet PROVE Raced(r)' \/ srHash'[r] = HashOf(r)'
      BY DEF HashIsLatest
    <3>2. CASE r = s
      <4>1. srObs'[r] # NoJob /\ (srObs'[r].raced \/ srHash'[r] = srObs'[r].hash)
        BY <2>2, <3>1, <3>2
      <4> QED
        BY <4>1 DEF Raced, HashOf
    <3>3. CASE r # s
      <4>1. srHash'[r] = srHash[r] /\ srObs'[r] = srObs[r] /\ (Raced(r) \/ srHash[r] = HashOf(r))
        BY <2>1, <3>3 DEF SourcesInv, HashIsLatest
      <4> QED
        BY <4>1 DEF Raced, HashOf
    <3> QED
      BY <3>2, <3>3
  <2>4. j # NoJob
    BY <1>1, <1>4
  <2>5. ASSUME o = "tick"
        PROVE  j.previous = srHash[s] /\ (Raced(s) \/ j.previous = HashOf(s))
    <3>1. j.previous = srHash[s]
      BY <1>6, <2>4, <2>5 DEF SourcesInv, ReadUnderLock
    <3> QED BY <1>6, <3>1 DEF SourcesInv, HashIsLatest
  <2>6. ChangeMatchesHistory'
    <3>1. ASSUME o = "tick"
          PROVE  /\ ~srObs'[s].raced
                 /\ srObs'[s].overRaced \/ srObs'[s].type = change_type(srObs'[s].before, srObs'[s].hash)
      BY <2>1, <2>5, <3>1
    <3>2. \A r \in SourceSet \ {s} : srObs'[r] = srObs[r]
      BY <2>1
    <3> QED
      BY <2>1, <3>1, <3>2 DEF SourcesInv, ChangeMatchesHistory
  <2>7. ReadUnderLock'
    <3>1. CASE o = "tick"
      BY <1>2, <3>1 DEF ReadUnderLock
    <3>2. CASE o # "tick"
      <4>1. srJob'["tick"] = srJob["tick"]
        BY <1>2, <1>4, <3>2
      <4>2. srJob["tick"] # NoJob => srJob["tick"].source # s
        BY <3>2
      <4> QED BY <2>1, <4>1, <4>2 DEF ReadUnderLock, SourcesInv
    <3> QED BY <3>1, <3>2
  <2>8. \A r \in SourceSet : srObs'[r] = NoJob \/ srObs'[r].step = "recorded"
    BY <2>1 DEF SourcesInv
  <2> QED BY <1>2, <1>3, <2>1, <2>3, <2>6, <2>7, <2>8 DEF SourcesInv
<1> QED BY <1>1, <1>5, <1>6

\* An observation that starts reads the hash of its row.
LEMMA ObservationStarts ==
  ASSUME SourcesInv, NEW o \in Observers, NEW s, srJob[o] = NoJob, Start(o, s),
         UNCHANGED <<srHash, srObs>>
  PROVE  SourcesInv'
<1>1. PICK r : srJob' = [srJob EXCEPT ![o] = [step |-> "fetched", source |-> s, result |-> r,
                                              previous |-> srHash[s], backoff |-> srBackoff[s]]]
  BY DEF Start
<1>2. /\ DOMAIN srJob' = Observers
      /\ srJob'[o].step = "fetched" /\ srJob'[o].source = s /\ srJob'[o].previous = srHash[s]
      /\ \A p \in Observers \ {o} : srJob'[p] = srJob[p]
  BY <1>1 DEF SourcesInv
<1>3. HashIsLatest'
  BY DEF SourcesInv, HashIsLatest, Raced, HashOf
<1>4. ReadUnderLock'
  BY <1>2 DEF SourcesInv, ReadUnderLock, Observers
<1>5. ChangeMatchesHistory'
  BY DEF SourcesInv, ChangeMatchesHistory
<1> QED BY <1>2, <1>3, <1>4, <1>5 DEF SourcesInv

LEMMA SourcesBegin == SrInit => SourcesInv
BY DEF SrInit, SourcesInv, HashIsLatest, Raced, HashOf, ReadUnderLock, ChangeMatchesHistory, Observers

LEMMA SourcesStep == SourcesInv /\ [SrNext]_srVars => SourcesInv'
<1> SUFFICES ASSUME SourcesInv, [SrNext]_srVars PROVE SourcesInv'
  OBVIOUS
<1>t. "tick" \in Observers /\ \A o \in Operators : o \in Observers /\ o # "tick"
  BY SourcesAssumption DEF Observers
<1> DEFINE Still == UNCHANGED <<srHash, srJob, srObs>>
<1>1. Still => SourcesInv'
  BY DEF SourcesInv, HashIsLatest, Raced, HashOf, ReadUnderLock, ChangeMatchesHistory
<1>2. CASE PassBegins
  BY <1>1, <1>2 DEF PassBegins
<1>3. CASE Visit
  <2>1. srJob["tick"] = NoJob /\ UNCHANGED <<srHash, srObs>>
        /\ (UNCHANGED srJob \/ Start("tick", Head(srTodo)))
    BY <1>3 DEF Visit
  <2> QED BY <1>1, <1>t, <2>1, ObservationStarts
<1>4. CASE VisitEnds
  BY <1>4, <1>t, ObservationEnds DEF VisitEnds
<1>5. ASSUME NEW o \in Operators, ScanEnds(o) PROVE SourcesInv'
  BY <1>5, <1>t, ObservationEnds DEF ScanEnds
<1>6. ASSUME NEW o \in Operators, NEW s \in SourceSet, Scan(o, s) PROVE SourcesInv'
  BY <1>6, <1>t, ObservationStarts DEF Scan
<1>7. ASSUME NEW s \in SourceSet, Toggle(s) PROVE SourcesInv'
  BY <1>1, <1>7 DEF Toggle
<1>8. ASSUME NEW s \in SourceSet, BackoffEnds(s) PROVE SourcesInv'
  BY <1>1, <1>8 DEF BackoffEnds
<1>9. CASE UNCHANGED srVars
  BY <1>1, <1>9 DEF srVars
<1> QED BY <1>2, <1>3, <1>4, <1>5, <1>6, <1>7, <1>8, <1>9 DEF SrNext, Pass

(* What a pass records about a source (observe_sources, with its row       *)
(* locked) tells rightly how it differs from the observation before it,    *)
(* however many scans (scan_source, which reads without a lock) overlap,   *)
(* unless the observation before was of a scan that raced.                 *)
THEOREM ChangesAreToldRightly == SrSpec => []ChangeMatchesHistory
<1>1. SourcesInv => ChangeMatchesHistory
  BY DEF SourcesInv
<1> QED BY <1>1, SourcesBegin, SourcesStep, PTL DEF SrSpec
=============================================================================
