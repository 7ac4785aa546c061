---------------------------- MODULE MarketProofs ----------------------------
(***************************************************************************)
(* Proofs about the market agent: MarketInv of TclkAgent is inductive.     *)
(* The argument says first what a step does to the session, the room, the  *)
(* accepts, the deals in memory and the deliveries; every part of the      *)
(* invariant is then preserved because of what it says of those.           *)
(***************************************************************************)
EXTENDS TclkAgent, FiniteSetTheorems, WellFoundedInduction, TLAPS
-----------------------------------------------------------------------------
(***************************************************************************)
(* What the types say.                                                     *)
(***************************************************************************)

LEMMA FrameFields ==
  ASSUME NEW f \in Frames
  PROVE  /\ f.kind \in {"chat", "offer", "lock", "reveal"}
         /\ f.kind = "offer" => f.offer \in Offers
         /\ f.kind \in {"lock", "reveal"} => f.contract \in Rooms
         /\ f.kind = "lock" => f.rail \in BOOLEAN /\ f.ref \in Rooms \cup Offers
<1>1. CASE f \in [kind : {"chat"}]
  BY <1>1
<1>2. CASE f \in [kind : {"offer"}, offer : Offers]
  BY <1>2
<1>3. CASE f \in [kind : {"lock"}, contract : Rooms, ref : Rooms \cup Offers, rail : BOOLEAN]
  <2>1. f.kind = "lock" /\ f.contract \in Rooms /\ f.rail \in BOOLEAN /\ f.ref \in Rooms \cup Offers
    BY <1>3, Zenon
  <2> QED
    BY <2>1
<1>4. CASE f \in [kind : {"reveal"}, contract : Rooms]
  BY <1>4
<1> QED
  BY <1>1, <1>2, <1>3, <1>4 DEF Frames

LEMMA RowTypes ==
  /\ NoRow \in AuditRow /\ EmptyRow \in AuditRow /\ EmptyRow # NoRow
  /\ NoRow.contract = 0 /\ EmptyRow.contract = 0
  /\ NoRow.outcome = "none" /\ EmptyRow.outcome = ""
<1>1. 0 \in 0 .. MaxAccepts
  BY TclkAssumption
<1>2. NoRow = [ref |-> FALSE, contract |-> 0, outcome |-> "none", answer |-> FALSE]
  BY DEF NoRow
<1>3. NoRow \in AuditRow
  BY <1>1, <1>2, Zenon DEF AuditRow
<1>4. EmptyRow = [NoRow EXCEPT !.outcome = ""]
  BY DEF EmptyRow
<1>5. \A row \in AuditRow : /\ [row EXCEPT !.outcome = ""] \in AuditRow
                            /\ [row EXCEPT !.outcome = ""].outcome = ""
                            /\ [row EXCEPT !.outcome = ""].contract = row.contract
  BY DEF AuditRow
<1>6. NoRow.contract = 0 /\ NoRow.outcome = "none" /\ "" # "none"
  BY <1>2
<1> QED
  BY <1>3, <1>4, <1>5, <1>6

AttachedTo(row, c, outcome, answer) ==
  [row EXCEPT !.contract = c, !.outcome = outcome, !.answer = answer]

\* What the changes of a row leave of it.
LEMMA RowChanges ==
  ASSUME NEW row \in AuditRow, NEW c \in 0 .. MaxAccepts, NEW answer \in BOOLEAN,
         NEW outcome \in {"delivered", "no_answer", "error"}
  PROVE  /\ [row EXCEPT !.ref = TRUE] \in AuditRow
         /\ [row EXCEPT !.ref = TRUE].contract = row.contract
         /\ [row EXCEPT !.ref = TRUE].outcome = row.outcome
         /\ AttachedTo(row, c, outcome, answer) \in AuditRow
         /\ AttachedTo(row, c, outcome, answer).contract = c
         /\ AttachedTo(row, c, outcome, answer).outcome = outcome
         /\ [row EXCEPT !.outcome = "claimed"] \in AuditRow
         /\ [row EXCEPT !.outcome = "claimed"].contract = row.contract
         /\ [row EXCEPT !.outcome = "claimed"].outcome = "claimed"
<1>1. /\ [row EXCEPT !.ref = TRUE] \in AuditRow
      /\ AttachedTo(row, c, outcome, answer) \in AuditRow
      /\ [row EXCEPT !.outcome = "claimed"] \in AuditRow
  BY DEF AuditRow, AttachedTo
<1>2. row = [ref |-> row.ref, contract |-> row.contract, outcome |-> row.outcome, answer |-> row.answer]
  BY DEF AuditRow, AttachedTo
<1> QED
  BY <1>1, <1>2 DEF AttachedTo

Put(rows, s, row) == [rows EXCEPT ![s] = row]

\* Changing the rows of a database, its frames or its cursor.
LEMMA RowSet ==
  ASSUME NEW d \in Database, NEW s \in Seqs, NEW row \in AuditRow
  PROVE  /\ [d EXCEPT !.audits[s] = row] \in Database
         /\ [d EXCEPT !.audits[s] = row].audits = Put(d.audits, s, row)
         /\ [d EXCEPT !.audits[s] = row].cursor = d.cursor
         /\ [d EXCEPT !.audits[s] = row].frames = d.frames
<1>1. [d.audits EXCEPT ![s] = row] \in [Seqs -> AuditRow]
  BY DEF Database
<1> QED
  BY <1>1 DEF Database, Put

LEMMA AuditsSet ==
  ASSUME NEW d \in Database, NEW audits \in [Seqs -> AuditRow]
  PROVE  /\ [d EXCEPT !.audits = audits] \in Database
         /\ [d EXCEPT !.audits = audits].audits = audits
         /\ [d EXCEPT !.audits = audits].cursor = d.cursor
         /\ [d EXCEPT !.audits = audits].frames = d.frames
  BY DEF Database

LEMMA CursorSet ==
  ASSUME NEW d \in Database, NEW cursor \in 0 .. MaxFrames
  PROVE  /\ [d EXCEPT !.cursor = cursor] \in Database
         /\ [d EXCEPT !.cursor = cursor].audits = d.audits
         /\ [d EXCEPT !.cursor = cursor].cursor = cursor
         /\ [d EXCEPT !.cursor = cursor].frames = d.frames
  BY DEF Database

LEMMA FlushedFields ==
  ASSUME tx \in Database, pend \subseteq Seqs
  PROVE  /\ Flushed \in Database /\ Flushed.audits = tx.audits
         /\ Flushed.cursor = tx.cursor /\ Flushed.frames = tx.frames \cup pend
  BY DEF Flushed, Database

\* The frame in hand.
LEMMA InHand ==
  ASSUME TclkTypeOK, PositionInv, pc # "idle", at <= last
  PROVE  /\ at \in DOMAIN room /\ at \in Seqs /\ room[at] \in Frames
         /\ Len(room) \in Nat /\ DOMAIN room = 1 .. Len(room)
<1>1. room \in Seq(Frames) /\ Len(room) <= MaxFrames
  BY DEF TclkTypeOK
<1>2. Len(room) \in Nat /\ DOMAIN room = 1 .. Len(room)
  BY <1>1
<1>3. base \in Nat /\ at \in Nat /\ last \in Nat /\ base < at /\ at <= last /\ last <= Len(room)
  BY DEF PositionInv
<1>4. at \in 1 .. Len(room)
  BY <1>2, <1>3
<1>5. MaxFrames \in Nat
  BY TclkAssumption
<1>6. at \in Seqs
  BY <1>1, <1>2, <1>4, <1>5 DEF Seqs
<1>7. room[at] \in Frames
  BY <1>1, <1>4
<1> QED
  BY <1>2, <1>4, <1>6, <1>7

\* The outcome of the work, attached to a row.
Attached(d, s, c, outcome, answer) ==
  [d EXCEPT !.audits[s].contract = c, !.audits[s].outcome = outcome, !.audits[s].answer = answer]

LEMMA AttachedFields ==
  ASSUME NEW d \in Database, NEW s \in Seqs, NEW c \in 0 .. MaxAccepts, NEW answer \in BOOLEAN,
         NEW outcome \in {"delivered", "no_answer", "error"}
  PROVE  /\ Attached(d, s, c, outcome, answer) \in Database
         /\ Attached(d, s, c, outcome, answer).cursor = d.cursor
         /\ Attached(d, s, c, outcome, answer).frames = d.frames
         /\ Attached(d, s, c, outcome, answer).audits =
              Put(d.audits, s, AttachedTo(d.audits[s], c, outcome, answer))
<1>1. d.audits \in [Seqs -> AuditRow] /\ d.audits[s] \in AuditRow
  BY DEF Database
<1> DEFINE r1 == [d.audits[s] EXCEPT !.contract = c]
           r2 == [r1 EXCEPT !.outcome = outcome]
           r3 == [r2 EXCEPT !.answer = answer]
           t1 == [d EXCEPT !.audits[s].contract = c]
           t2 == [t1 EXCEPT !.audits[s].outcome = outcome]
           t3 == [t2 EXCEPT !.audits[s].answer = answer]
<1>2. r1 \in AuditRow
  BY <1>1 DEF AuditRow
<1>a. t1 = [d EXCEPT !.audits[s] = r1]
  OBVIOUS
<1> HIDE DEF r1, t1
<1>3. t1 \in Database /\ t1.audits = Put(d.audits, s, r1) /\ t1.cursor = d.cursor /\ t1.frames = d.frames
  BY <1>2, <1>a, RowSet
<1>4. t1.audits[s] = r1
  BY <1>1, <1>3 DEF Put
<1>5. r2 \in AuditRow
  BY <1>2 DEF AuditRow
<1>6. t2 = [t1 EXCEPT !.audits[s] = r2]
  BY <1>4
<1> HIDE DEF r2, t2
<1>7. t2 \in Database /\ t2.audits = Put(t1.audits, s, r2) /\ t2.cursor = t1.cursor /\ t2.frames = t1.frames
  BY <1>3, <1>5, <1>6, RowSet
<1>8. t2.audits[s] = r2 /\ t2.audits = Put(d.audits, s, r2)
  BY <1>1, <1>3, <1>7 DEF Put
<1>9. r3 \in AuditRow
  BY <1>5 DEF AuditRow
<1>10. t3 = [t2 EXCEPT !.audits[s] = r3]
  BY <1>8
<1> HIDE DEF r3, t3
<1>11. t3 \in Database /\ t3.audits = Put(t2.audits, s, r3) /\ t3.cursor = t2.cursor /\ t3.frames = t2.frames
  BY <1>7, <1>9, <1>10, RowSet
<1>12. t3.audits = Put(d.audits, s, r3)
  BY <1>1, <1>8, <1>11 DEF Put
<1>13. t3 = Attached(d, s, c, outcome, answer)
  BY DEF t1, t2, t3, Attached
<1>14. r3 = AttachedTo(d.audits[s], c, outcome, answer)
  BY DEF r1, r2, r3, AttachedTo
<1> QED
  BY <1>3, <1>7, <1>11, <1>12, <1>13, <1>14, Zenon
-----------------------------------------------------------------------------
(***************************************************************************)
(* What a step does to the session and the database.                       *)
(***************************************************************************)

\* The rows after a step: those of the database, those of the session, or
\* those with the one change that the coroutine makes where it is.
ClaimedRows ==
  [s \in Seqs |-> IF s \in Rows(deal.contract) THEN [tx.audits[s] EXCEPT !.outcome = "claimed"]
                  ELSE tx.audits[s]]

RowsFollow(rows) ==
  \/ rows = db.audits \/ rows = tx.audits
  \/ pc = "offer" /\ rows = Put(tx.audits, at, EmptyRow)
  \/ /\ pc = "ref" /\ tx.audits[at] # NoRow
     /\ rows = Put(tx.audits, at, [tx.audits[at] EXCEPT !.ref = TRUE])
  \/ /\ pc = "work" /\ tx.audits[at] # NoRow
     /\ \E outcome \in {"delivered", "no_answer", "error"}, answer \in BOOLEAN :
          /\ rows = Put(tx.audits, at, AttachedTo(tx.audits[at], Len(accepts), outcome, answer))
          /\ outcome = "delivered" => shipped' = [shipped EXCEPT ![Len(accepts)] = @ + 1]
  \/ /\ pc = "claim" /\ rows = ClaimedRows
     /\ reveals' = reveals \cup {<<room[at].contract, deal.offer>>}

Follows(d) ==
  d \in Database /\ RowsFollow(d.audits) /\ d.cursor <= Len(room)

LEMMA SessionStep ==
  ASSUME TclkTypeOK, PositionInv, DealsFit, [Next]_vars
  PROVE  Follows(db') /\ Follows(tx') /\ pend' \subseteq Seqs /\ poisoned' \in BOOLEAN
<1>0. /\ db \in Database /\ tx \in Database /\ pend \subseteq Seqs /\ poisoned \in BOOLEAN
      /\ db.cursor <= Len(room) /\ tx.cursor <= Len(room)
  BY DEF TclkTypeOK, PositionInv
<1>1. Follows(db) /\ Follows(tx) /\ Follows(Flushed)
  BY <1>0, FlushedFields DEF Follows, RowsFollow
<1>2. ASSUME UNCHANGED <<db, tx, poisoned>>, pend' = pend \/ (pend' = pend \cup {at} /\ at \in Seqs)
      PROVE  Follows(db') /\ Follows(tx') /\ pend' \subseteq Seqs /\ poisoned' \in BOOLEAN
  BY <1>0, <1>1, <1>2
<1>3. ASSUME NEW t, Follows(t), Store(t) \/ Commit(t)
      PROVE  Follows(db') /\ Follows(tx') /\ pend' \subseteq Seqs /\ poisoned' \in BOOLEAN
  BY <1>1, <1>3 DEF Store, Commit
<1>4. ASSUME Rollback
      PROVE  Follows(db') /\ Follows(tx') /\ pend' \subseteq Seqs /\ poisoned' \in BOOLEAN
  BY <1>1, <1>4 DEF Rollback
<1>5. ASSUME Poison
      PROVE  Follows(db') /\ Follows(tx') /\ pend' \subseteq Seqs /\ poisoned' \in BOOLEAN
  BY <1>0, <1>1, <1>5 DEF Poison
<1>6. CASE Publish \/ TtlPasses \/ HourPasses \/ Poll \/ Chat \/ AcceptDropped \/ AcceptPosted
           \/ OnLock \/ Ship \/ UNCHANGED vars
  <2>1. UNCHANGED <<db, tx, poisoned, pend>>
    BY <1>6 DEF Publish, TtlPasses, HourPasses, Poll, Chat, AcceptDropped, AcceptPosted, OnLock, Ship,
       vars, session
  <2> QED
    BY <1>2, <2>1
<1>7. CASE Persist \/ ClaimRadar
  <2>1. at \in Seqs
    BY <1>7, InHand DEF Persist, ClaimRadar
  <2>2. UNCHANGED <<db, tx, poisoned>> /\ pend' = pend \cup {at}
    BY <1>7 DEF Persist, ClaimRadar
  <2> QED
    BY <1>2, <2>1, <2>2
<1>8. CASE EndBatch
  <2> DEFINE t == [Flushed EXCEPT !.cursor = IF last > Flushed.cursor THEN last ELSE Flushed.cursor]
  <2>1. Commit(t) \/ Rollback
    BY <1>8 DEF EndBatch
  <2>2. (IF last > Flushed.cursor THEN last ELSE Flushed.cursor) \in 0 .. MaxFrames
    <3>1. last \in Nat /\ last <= Len(room) /\ Len(room) <= MaxFrames /\ Len(room) \in Nat /\ MaxFrames \in Nat
      BY <1>8, TclkAssumption DEF EndBatch, PositionInv, TclkTypeOK
    <3>2. Flushed.cursor \in 0 .. MaxFrames
      BY <1>0, FlushedFields DEF Database
    <3> QED
      BY <3>1, <3>2
  <2>3. t \in Database /\ t.audits = tx.audits /\ t.cursor \in {last, tx.cursor}
    BY <1>0, <2>2, FlushedFields, CursorSet
  <2>4. last <= Len(room)
    BY <1>8 DEF EndBatch, PositionInv
  <2> HIDE DEF t
  <2>5. Follows(t)
    BY <1>0, <2>3, <2>4 DEF Follows, RowsFollow
  <2> QED
    BY <1>3, <1>4, <2>1, <2>5
<1>9. CASE OnOffer
  <2>1. at \in Seqs /\ pc = "offer"
    BY <1>9, InHand DEF OnOffer, PositionInv
  <2> DEFINE t == [Flushed EXCEPT !.audits[at] = EmptyRow]
  <2>2. Poison \/ Store(t) \/ Store(Flushed)
    BY <1>9 DEF OnOffer, RecordAudit
  <2>3. t \in Database /\ t.audits = Put(tx.audits, at, EmptyRow) /\ t.cursor = tx.cursor
    <3>1. Flushed \in Database /\ Flushed.audits = tx.audits /\ Flushed.cursor = tx.cursor
      BY <1>0, FlushedFields
    <3>2. EmptyRow \in AuditRow
      BY RowTypes
    <3> QED
      BY <2>1, <3>1, <3>2, RowSet
  <2> HIDE DEF t
  <2>4. Follows(t)
    BY <1>0, <2>1, <2>3 DEF Follows, RowsFollow
  <2> QED
    BY <1>1, <1>3, <1>5, <2>2, <2>4
<1>10. CASE SetAuditRef
  <2>1. at \in Seqs /\ pc = "ref" /\ tx.audits[at] \in AuditRow
    BY <1>0, <1>10, InHand DEF SetAuditRef, PositionInv, Database
  <2> DEFINE row == [tx.audits[at] EXCEPT !.ref = TRUE]
             t == [Flushed EXCEPT !.audits[at].ref = TRUE]
  <2>2. Store(Flushed) \/ Rollback \/ (Commit(t) /\ tx.audits[at] # NoRow)
    BY <1>10 DEF SetAuditRef
  <2>3. t = [Flushed EXCEPT !.audits[at] = row]
    BY <1>0, FlushedFields
  <2>4. row \in AuditRow
    BY <2>1 DEF AuditRow
  <2> HIDE DEF t, row
  <2>5. t \in Database /\ t.audits = Put(tx.audits, at, row) /\ t.cursor = tx.cursor
    BY <1>0, <2>1, <2>3, <2>4, FlushedFields, RowSet
  <2>6. tx.audits[at] # NoRow => Follows(t)
    BY <1>0, <2>1, <2>5 DEF Follows, RowsFollow, row
  <2> QED
    BY <1>1, <1>3, <1>4, <2>2, <2>6
<1>11. CASE Work
  <2>1. at \in Seqs /\ pc = "work"
    BY <1>11, InHand DEF Work, PositionInv
  <2>2. PICK answered \in BOOLEAN, outcome \in {"delivered", "no_answer", "error"} :
          /\ Store(IF tx.audits[at] = NoRow THEN Flushed
                   ELSE [Flushed EXCEPT !.audits[at].contract = Len(accepts), !.audits[at].outcome = outcome,
                                        !.audits[at].answer = answered])
          /\ outcome = "delivered" => shipped' = [shipped EXCEPT ![Len(accepts)] = @ + 1]
    BY <1>11 DEF Work, Answered, PostDelivery
  <2> DEFINE t == Attached(Flushed, at, Len(accepts), outcome, answered)
  <2>3. Len(accepts) \in 0 .. MaxAccepts
    BY TclkAssumption DEF DealsFit, TclkTypeOK
  <2>4. t \in Database /\ t.cursor = tx.cursor /\ t.audits = 
        Put(tx.audits, at, AttachedTo(tx.audits[at], Len(accepts), outcome, answered))
    <3>1. Flushed \in Database /\ Flushed.audits = tx.audits /\ Flushed.cursor = tx.cursor
      BY <1>0, FlushedFields
    <3>2. /\ t \in Database /\ t.cursor = Flushed.cursor
          /\ t.audits = Put(Flushed.audits, at, AttachedTo(Flushed.audits[at], Len(accepts), outcome, answered))
      <4>1. Flushed \in Database /\ at \in Seqs /\ Len(accepts) \in 0 .. MaxAccepts
        BY <2>1, <2>3, <3>1
      <4>2. t \in Database
        BY <4>1, AttachedFields
      <4>3. t.cursor = Flushed.cursor
        BY <4>1, AttachedFields
      <4>4. t.audits = Put(Flushed.audits, at, AttachedTo(Flushed.audits[at], Len(accepts), outcome, answered))
        BY <4>1, AttachedFields
      <4> QED
        BY <4>2, <4>3, <4>4
    <3> HIDE DEF t
    <3> QED
      BY <3>1, <3>2
  <2> HIDE DEF t
  <2>5. tx.audits[at] # NoRow => Follows(t)
    BY <1>0, <2>1, <2>2, <2>4 DEF Follows, RowsFollow
  <2>6. Store(IF tx.audits[at] = NoRow THEN Flushed ELSE t)
    BY <2>2 DEF t, Attached
  <2> QED
    BY <1>1, <1>3, <2>5, <2>6
<1>12. CASE RecoverPending
  BY <1>0, <1>1, <1>2, <1>3, <1>5, <1>12 DEF RecoverPending, session
<1>13. CASE Reveal
  <2>1. pc = "claim"
    BY <1>13 DEF Reveal
  <2>2. ClaimedRows \in [Seqs -> AuditRow]
    <3>1. ASSUME NEW s \in Seqs
          PROVE  tx.audits[s] \in AuditRow /\ [tx.audits[s] EXCEPT !.outcome = "claimed"] \in AuditRow
      <4>1. tx.audits[s] \in AuditRow
        BY <1>0 DEF Database
      <4> QED
        BY <4>1 DEF AuditRow
    <3> QED
      BY <3>1 DEF ClaimedRows
  <2>3. MarkClaimed(Flushed) = [Flushed EXCEPT !.audits = ClaimedRows]
    BY <1>0, FlushedFields DEF MarkClaimed, ClaimedRows
  <2>4. /\ MarkClaimed(Flushed) \in Database /\ MarkClaimed(Flushed).audits = ClaimedRows
        /\ MarkClaimed(Flushed).cursor = tx.cursor
    BY <1>0, <2>2, <2>3, FlushedFields, AuditsSet
  <2>5. CASE reveals' = reveals \cup {<<room[at].contract, deal.offer>>} /\ Store(MarkClaimed(Flushed))
    <3>1. Follows(MarkClaimed(Flushed))
      BY <1>0, <2>1, <2>4, <2>5 DEF Follows, RowsFollow
    <3> QED
      BY <1>3, <2>5, <3>1
  <2> QED
    BY <1>2, <1>5, <1>13, <2>5 DEF Reveal, session
<1>14. CASE Restart
  BY <1>4, <1>14 DEF Restart
<1> QED
  BY <1>6, <1>7, <1>8, <1>9, <1>10, <1>11, <1>12, <1>13, <1>14 DEF Next, Step
-----------------------------------------------------------------------------
(***************************************************************************)
(* What a step does to the room, the accepts, the reveals and the work.    *)
(***************************************************************************)

\* The room is extended by a frame, or left alone.
RoomGrows ==
  \/ room' = room
  \/ \E f \in Frames : Publish /\ Len(room) < MaxFrames /\ room' = Append(room, f)

LEMMA RoomStep ==
  ASSUME [Next]_vars
  PROVE  RoomGrows
<1>1. CASE Publish
  BY <1>1 DEF Publish, RoomGrows
<1>2. CASE Step \/ TtlPasses \/ HourPasses \/ Restart \/ UNCHANGED vars
  <2>1. room' = room
    BY <1>2 DEF Step, Poll, Chat, Persist, ClaimRadar, EndBatch, OnOffer, SetAuditRef, AcceptDropped,
       AcceptPosted, Work, OnLock, RecoverPending, Ship, Reveal, TtlPasses, HourPasses, Restart, vars
  <2> QED
    BY <2>1 DEF RoomGrows
<1> QED
  BY <1>1, <1>2 DEF Next

\* Frames stay where they are.
LEMMA RoomIsKept ==
  ASSUME TclkTypeOK, [Next]_vars
  PROVE  /\ room' \in Seq(Frames) /\ Len(room') <= MaxFrames /\ Len(room) <= Len(room')
         /\ Len(room) \in Nat /\ Len(room') \in Nat
         /\ DOMAIN room = 1 .. Len(room) /\ DOMAIN room' = 1 .. Len(room')
         /\ \A i \in 1 .. Len(room) : i \in 1 .. Len(room') /\ room'[i] = room[i]
<1>1. room \in Seq(Frames) /\ Len(room) <= MaxFrames /\ MaxFrames \in Nat
  BY TclkAssumption DEF TclkTypeOK
<1>2. CASE room' = room
  BY <1>1, <1>2
<1>3. ASSUME NEW f \in Frames, Len(room) < MaxFrames, room' = Append(room, f)
      PROVE  /\ room' \in Seq(Frames) /\ Len(room') <= MaxFrames /\ Len(room) <= Len(room')
             /\ Len(room) \in Nat /\ Len(room') \in Nat
             /\ DOMAIN room = 1 .. Len(room) /\ DOMAIN room' = 1 .. Len(room')
             /\ \A i \in 1 .. Len(room) : i \in 1 .. Len(room') /\ room'[i] = room[i]
  BY <1>1, <1>3
<1> QED
  BY <1>2, <1>3, RoomStep DEF RoomGrows

\* One more accept, or the same.
AcceptAdded ==
  /\ pc = "accept" /\ Len(accepts) < MaxAccepts
  /\ accepts' = Append(accepts, room[at].offer)

LEMMA AcceptsStep ==
  ASSUME [Next]_vars
  PROVE  accepts' = accepts \/ (AcceptAdded /\ (AcceptDropped \/ AcceptPosted))
<1>1. CASE AcceptDropped \/ AcceptPosted
  BY <1>1 DEF AcceptDropped, AcceptPosted, AcceptAdded
<1>2. CASE Poll \/ Chat \/ Persist \/ ClaimRadar \/ EndBatch \/ OnOffer \/ SetAuditRef \/ Work
           \/ OnLock \/ RecoverPending \/ Ship \/ Reveal \/ Publish \/ TtlPasses \/ HourPasses
           \/ Restart \/ UNCHANGED vars
  BY <1>2 DEF Poll, Chat, Persist, ClaimRadar, EndBatch, OnOffer, SetAuditRef, Work, OnLock,
     RecoverPending, Ship, Reveal, Publish, TtlPasses, HourPasses, Restart, vars, market
<1> QED
  BY <1>1, <1>2 DEF Next, Step

\* Accepts stay where they are.
LEMMA AcceptsAreKept ==
  ASSUME TclkTypeOK, PositionInv, DealsFit, [Next]_vars
  PROVE  /\ accepts' \in Seq(Offers) /\ Len(accepts') <= MaxAccepts /\ Len(accepts) <= Len(accepts')
         /\ Len(accepts) \in Nat /\ Len(accepts') \in Nat
         /\ DOMAIN accepts = 1 .. Len(accepts) /\ DOMAIN accepts' = 1 .. Len(accepts')
         /\ \A c \in 1 .. Len(accepts) : c \in 1 .. Len(accepts') /\ accepts'[c] = accepts[c]
         /\ DOMAIN accepts \subseteq Contracts
<1>1. accepts \in Seq(Offers) /\ Len(accepts) <= MaxAccepts /\ MaxAccepts \in Nat
  BY TclkAssumption DEF TclkTypeOK, DealsFit
<1>2. DOMAIN accepts \subseteq Contracts
  BY <1>1 DEF Contracts
<1>3. CASE accepts' = accepts
  BY <1>1, <1>2, <1>3
<1>4. ASSUME NEW o \in Offers, Len(accepts) < MaxAccepts, accepts' = Append(accepts, o)
      PROVE  /\ accepts' \in Seq(Offers) /\ Len(accepts') <= MaxAccepts /\ Len(accepts) <= Len(accepts')
             /\ Len(accepts) \in Nat /\ Len(accepts') \in Nat
             /\ DOMAIN accepts = 1 .. Len(accepts) /\ DOMAIN accepts' = 1 .. Len(accepts')
             /\ \A c \in 1 .. Len(accepts) : c \in 1 .. Len(accepts') /\ accepts'[c] = accepts[c]
  BY <1>1, <1>4
<1>5. AcceptAdded => room[at].offer \in Offers
  <2>1. AcceptAdded => pc # "idle" /\ at <= last /\ room[at].kind = "offer"
    BY DEF AcceptAdded, PositionInv
  <2>2. AcceptAdded => room[at] \in Frames
    BY <2>1, InHand
  <2> QED
    BY <2>1, <2>2, FrameFields
<1> QED
  BY <1>2, <1>3, <1>4, <1>5, AcceptsStep DEF AcceptAdded

\* Secrets are only added, by the coroutine that holds the locked deal.
LEMMA RevealsStep ==
  ASSUME [Next]_vars
  PROVE  reveals' = reveals \/ (pc = "claim" /\ reveals' = reveals \cup {<<room[at].contract, deal.offer>>})
<1>1. CASE Reveal
  BY <1>1 DEF Reveal
<1>2. CASE Poll \/ Chat \/ Persist \/ ClaimRadar \/ EndBatch \/ OnOffer \/ SetAuditRef \/ Work
           \/ OnLock \/ RecoverPending \/ Ship \/ AcceptDropped \/ AcceptPosted \/ Publish \/ TtlPasses
           \/ HourPasses \/ Restart \/ UNCHANGED vars
  BY <1>2 DEF Poll, Chat, Persist, ClaimRadar, EndBatch, OnOffer, SetAuditRef, Work, OnLock,
     RecoverPending, Ship, AcceptDropped, AcceptPosted, Publish, TtlPasses, HourPasses, Restart, vars, market
<1> QED
  BY <1>1, <1>2 DEF Next, Step

\* What a post may do to the work of contract c.
Posted(c) ==
  \/ UNCHANGED <<shipped, unsure>>
  \/ shipped' = [shipped EXCEPT ![c] = @ + 1] /\ unsure' \in {unsure, unsure \cup {c}}

LEMMA ShippedStep ==
  ASSUME [Next]_vars
  PROVE  \/ UNCHANGED <<shipped, unsure>>
         \/ Work /\ Posted(Len(accepts))
         \/ Ship /\ Posted(deal.contract) /\ deal.answer /\ ~AlreadyDelivered(deal.contract)
<1>1. CASE Work
  BY <1>1 DEF Work, PostDelivery, Posted
<1>2. CASE Ship
  BY <1>2 DEF Ship, PostDelivery, Posted
<1>3. CASE Poll \/ Chat \/ Persist \/ ClaimRadar \/ EndBatch \/ OnOffer \/ SetAuditRef \/ Reveal
           \/ OnLock \/ RecoverPending \/ AcceptDropped \/ AcceptPosted \/ Publish \/ TtlPasses
           \/ HourPasses \/ Restart \/ UNCHANGED vars
  BY <1>3 DEF Poll, Chat, Persist, ClaimRadar, EndBatch, OnOffer, SetAuditRef, Reveal, OnLock,
     RecoverPending, AcceptDropped, AcceptPosted, Publish, TtlPasses, HourPasses, Restart, vars, market
<1> QED
  BY <1>1, <1>2, <1>3 DEF Next, Step
-----------------------------------------------------------------------------
(***************************************************************************)
(* The deal a lock finds.                                                  *)
(***************************************************************************)

LEMMA DealFields ==
  ASSUME NEW d \in ActiveDeal
  PROVE  /\ d.contract \in Contracts /\ d.offer \in Offers /\ d.answer \in BOOLEAN
         /\ [contract |-> d.contract, offer |-> d.offer, answer |-> d.answer] \in Deal
<1>1. d.contract \in Contracts /\ d.offer \in Offers /\ d.answer \in BOOLEAN
  BY Zenon DEF ActiveDeal
<1>2. d.contract \in Rooms
  BY <1>1 DEF Rooms
<1> QED
  BY <1>1, <1>2, Zenon DEF Deal

LEMMA MemoryFields ==
  ASSUME mem \in Memory
  PROVE  /\ mem.active \subseteq ActiveDeal /\ mem.seen \subseteq Offers
         /\ mem.delivered \subseteq Contracts /\ mem.claimed \subseteq Rooms
         /\ mem.rails \subseteq Rooms /\ mem.used \in 0 .. AcceptPerHour + Reserve
  BY DEF Memory

\* Among deals there is one with the least contract.
LEMMA LeastDeal ==
  ASSUME NEW S \in SUBSET ActiveDeal, S # {}
  PROVE  (CHOOSE x \in S : \A y \in S : x.contract <= y.contract) \in S
<1> DEFINE T == {d.contract : d \in S}
<1>1. T \subseteq Nat /\ T # {}
  <2>1. PICK d \in S : TRUE
    OBVIOUS
  <2>2. d.contract \in T
    OBVIOUS
  <2>3. ASSUME NEW e \in S
        PROVE  e.contract \in Nat
    <3>1. e.contract \in Contracts
      BY DealFields
    <3> QED
      BY <3>1, TclkAssumption DEF Contracts
  <2> QED
    BY <2>2, <2>3
<1>2. PICK m \in T : \A n \in T : ~(n < m)
  <2>1. IsWellFoundedOn(OpToRel(<, Nat), Nat)
    BY NatLessThanWellFounded
  <2>2. PICK m \in T : \A n \in T : ~(<<n, m>> \in OpToRel(<, Nat))
    BY <1>1, <2>1, WFMin, Zenon
  <2>3. ASSUME NEW n \in T
        PROVE  ~(n < m)
    <3>1. n \in Nat /\ m \in Nat
      BY <1>1
    <3>2. n < m => <<n, m>> \in OpToRel(<, Nat)
      BY <3>1 DEF OpToRel
    <3> QED
      BY <2>2, <3>2
  <2> QED
    BY <2>3
<1>3. PICK x \in S : x.contract = m
  OBVIOUS
<1>4. ASSUME NEW y \in S
      PROVE  x.contract <= y.contract
  <2>1. y.contract \in T /\ m \in Nat /\ y.contract \in Nat
    BY <1>1
  <2> QED
    BY <1>2, <1>3, <2>1
<1>5. \E z \in S : \A y \in S : z.contract <= y.contract
  BY <1>4
<1> QED
  BY <1>5, Zenon

\* The deal in hand after a lock is one the lock asks for; only a rebuilt one,
\* which has nothing to ship, may carry another contract than its own.
LockedDeal ==
  /\ room[at].rail /\ deal' \in Deal
  /\ \E c \in DOMAIN accepts : AsksFor(room[at], c) /\ accepts[c] = deal'.offer
  /\ \/ deal'.contract \in DOMAIN accepts /\ accepts[deal'.contract] = deal'.offer
     \/ deal'.contract = room[at].contract /\ ~deal'.answer
  /\ deal'.answer => \E d \in mem.active : d.contract = deal'.contract /\ d.answer

LEMMA LockStep ==
  ASSUME TclkTypeOK, PositionInv, DealsFit, pc = "lock", OnLock \/ RecoverPending
  PROVE  \/ LockedDeal /\ pc' = "reveal" /\ UNCHANGED batch
         \/ RecoverPending /\ UNCHANGED deal /\ NextFrame
<1>1. /\ at <= last /\ room[at].kind = "lock"
      /\ at \in DOMAIN room /\ room[at] \in Frames
      /\ room[at].contract \in Rooms /\ room[at].rail \in BOOLEAN
  <2>1. at <= last /\ room[at].kind = "lock"
    BY DEF PositionInv
  <2>2. at \in DOMAIN room /\ room[at] \in Frames
    BY <2>1, InHand
  <2> QED
    BY <2>1, <2>2, FrameFields
<1>2. mem.active \subseteq ActiveDeal
  BY MemoryFields DEF TclkTypeOK
<1>3. CASE OnLock
  <2> DEFINE H == Handled(room[at])
             d == CHOOSE x \in H : \A y \in H : x.contract <= y.contract
  <2>1. /\ H # {} /\ deal' = [contract |-> d.contract, offer |-> d.offer, answer |-> d.answer]
        /\ pc' = "reveal" /\ UNCHANGED batch
    BY <1>3 DEF OnLock, Stay
  <2>2. H \subseteq ActiveDeal
    BY <1>2 DEF Handled
  <2>3. d \in H
    BY <2>1, <2>2, LeastDeal
  <2>4. d \in mem.active /\ RefMatches(d, room[at]) /\ room[at].rail
    BY <2>3 DEF Handled
  <2> HIDE DEF d, H
  <2>5. /\ deal' \in Deal /\ deal'.contract = d.contract /\ deal'.offer = d.offer /\ deal'.answer = d.answer
    BY <1>2, <2>1, <2>4, DealFields
  <2>6. d.contract \in DOMAIN accepts /\ accepts[d.contract] = d.offer
    BY <2>4 DEF DealsFit
  <2>7. AsksFor(room[at], d.contract)
    BY <2>4, <2>6 DEF RefMatches, AsksFor
  <2>8. \E c \in DOMAIN accepts : AsksFor(room[at], c) /\ accepts[c] = deal'.offer
    BY <2>5, <2>6, <2>7
  <2>9. deal'.contract \in DOMAIN accepts /\ accepts[deal'.contract] = deal'.offer
    BY <2>5, <2>6
  <2> QED
    BY <2>1, <2>4, <2>5, <2>8, <2>9 DEF LockedDeal
<1>4. CASE RecoverPending
  <2> DEFINE f == room[at]
  <2>1. \/ deal' = deal /\ NextFrame
        \/ \E s \in Rows(f.contract) \cup Rows(f.ref) :
             /\ f.rail /\ Stay("reveal")
             /\ deal' = [contract |-> f.contract, offer |-> room[s].offer, answer |-> FALSE]
    BY <1>4 DEF RecoverPending
  <2>2. ASSUME NEW s \in Rows(f.contract) \cup Rows(f.ref), f.rail, Stay("reveal"),
               deal' = [contract |-> f.contract, offer |-> room[s].offer, answer |-> FALSE]
        PROVE  LockedDeal /\ pc' = "reveal" /\ UNCHANGED batch
    <3>1. PICK c \in {f.contract, f.ref} : s \in Seqs /\ c # 0 /\ tx.audits[s].contract = c
      BY <2>2 DEF Rows, FOREIGN
    <3>2. tx.audits[s] # NoRow
      BY <3>1, RowTypes
    <3>3. s \in DOMAIN room /\ room[s].kind = "offer" /\ c \in DOMAIN accepts /\ accepts[c] = room[s].offer
      BY <3>1, <3>2 DEF DealsFit, RowsFit
    <3>4. room[s].offer \in Offers
      BY <3>3, FrameFields DEF TclkTypeOK
    <3>5. deal' \in Deal
      BY <1>1, <2>2, <3>4, Zenon DEF Deal
    <3>6. deal'.contract = f.contract /\ deal'.offer = room[s].offer /\ deal'.answer = FALSE
      BY <2>2
    <3>7. AsksFor(f, c) /\ accepts[c] = deal'.offer
      BY <3>1, <3>3, <3>6 DEF AsksFor
    <3>8. \E k \in DOMAIN accepts : AsksFor(f, k) /\ accepts[k] = deal'.offer
      BY <3>3, <3>7
    <3> QED
      BY <2>2, <3>5, <3>6, <3>8 DEF LockedDeal, Stay
  <2> QED
    BY <1>4, <2>1, <2>2
<1> QED
  BY <1>3, <1>4
-----------------------------------------------------------------------------
(***************************************************************************)
(* Where the coroutine is after a step.                                    *)
(***************************************************************************)

\* It stays where it is, ends its batch, begins one, takes the next frame, or
\* goes on with the frame in hand.
Moves ==
  \/ UNCHANGED <<pc, batch, deal>>
  \/ pc' = "idle" /\ UNCHANGED batch /\ (deal' = deal \/ deal' = <<>>)
  \/ /\ pc = "idle" /\ pc' = "frame" /\ base' \in {db.cursor, 0} /\ base' < Len(room)
     /\ at' = base' + 1 /\ last' = Len(room) /\ deal' = deal
  \/ pc # "idle" /\ at <= last /\ NextFrame /\ (deal' = deal \/ deal' = <<>>)
  \/ pc = "frame" /\ at <= last /\ room[at].kind \in {"offer", "lock"} /\ pc' = room[at].kind /\ UNCHANGED <<batch, deal>>
  \/ pc \in {"offer", "ref"} /\ pc' \in {"ref", "accept"} /\ UNCHANGED <<batch, deal>>
  \/ pc = "accept" /\ pc' = "work" /\ UNCHANGED <<batch, deal>> /\ AcceptPosted
  \/ pc = "lock" /\ pc' = "reveal" /\ UNCHANGED batch /\ LockedDeal
  \/ pc = "reveal" /\ pc' = "claim" /\ UNCHANGED <<batch, deal>>

LEMMA MoveStep ==
  ASSUME TclkTypeOK, PositionInv, DealsFit, [Next]_vars
  PROVE  Moves
<1>0. pc \notin {"idle", "frame"} => at <= last
  BY DEF PositionInv
<1>1. CASE Publish \/ TtlPasses \/ HourPasses \/ UNCHANGED vars
  BY <1>1 DEF Publish, TtlPasses, HourPasses, vars, Moves, batch
<1>2. CASE Poll
  BY <1>2 DEF Poll, Moves
<1>3. CASE Chat \/ ClaimRadar
  BY <1>3 DEF Chat, ClaimRadar, Moves
<1>4. CASE Persist
  BY <1>4 DEF Persist, Stay, Moves, batch
<1>5. CASE EndBatch
  BY <1>5 DEF EndBatch, Stay, Moves, batch
<1>6. CASE OnOffer
  <2>1. pc = "offer" /\ deal' = deal /\ (NextFrame \/ Stay("ref"))
    BY <1>6 DEF OnOffer
  <2> QED
    BY <1>0, <2>1 DEF Stay, Moves, batch
<1>7. CASE SetAuditRef
  BY <1>7 DEF SetAuditRef, Stay, Moves, batch
<1>8. CASE AcceptPosted
  BY <1>8 DEF AcceptPosted, Stay, Moves, batch
<1>9. CASE AcceptDropped \/ Work
  <2>1. pc \in {"accept", "work"} /\ deal' = deal /\ NextFrame
    BY <1>9 DEF AcceptDropped, Work
  <2> QED
    BY <1>0, <2>1 DEF Moves
<1>10. CASE OnLock \/ RecoverPending
  <2>1. pc = "lock"
    BY <1>10 DEF OnLock, RecoverPending
  <2> QED
    BY <1>0, <1>10, <2>1, LockStep DEF Moves
<1>11. CASE Ship
  BY <1>11 DEF Ship, Stay, Moves, batch
<1>12. CASE Reveal
  <2>1. pc = "claim" /\ deal' = <<>> /\ NextFrame
    BY <1>12 DEF Reveal
  <2> QED
    BY <1>0, <2>1 DEF Moves
<1>13. CASE Restart
  BY <1>13 DEF Restart, Moves
<1> QED
  BY <1>1, <1>2, <1>3, <1>4, <1>5, <1>6, <1>7, <1>8, <1>9, <1>10, <1>11, <1>12, <1>13 DEF Next, Step

LEMMA PositionStep ==
  ASSUME TclkTypeOK, PositionInv, DealsFit, [Next]_vars
  PROVE  /\ PositionInv'
         /\ pc' \in {"idle", "frame", "offer", "ref", "accept", "work", "lock", "reveal", "claim"}
         /\ deal' \in Deal \cup {<<>>}
<1>0. /\ pc \in {"idle", "frame", "offer", "ref", "accept", "work", "lock", "reveal", "claim"}
      /\ deal \in Deal \cup {<<>>}
      /\ base \in Nat /\ at \in Nat /\ last \in Nat
  BY DEF TclkTypeOK, PositionInv
<1>1. /\ pc # "idle" => base < at /\ at <= last + 1 /\ last <= Len(room)
      /\ pc \notin {"idle", "frame"} => at <= last
      /\ pc \in {"offer", "ref", "accept", "work"} => room[at].kind = "offer"
      /\ pc \in {"lock", "reveal", "claim"} => room[at].kind = "lock"
      /\ pc \in {"reveal", "claim"} => room[at].rail /\ deal \in Deal
  BY DEF PositionInv
<1>2. Len(room) \in Nat /\ Len(room') \in Nat /\ Len(room) <= Len(room')
  BY RoomIsKept
<1>3. \A i \in 1 .. Len(room) : room'[i] = room[i]
  BY RoomIsKept
<1>4. db'.cursor <= Len(room') /\ tx'.cursor <= Len(room')
  <2>1. ASSUME NEW d, Follows(d)
        PROVE  d.cursor <= Len(room')
    <3>1. d.cursor \in 0 .. MaxFrames /\ d.cursor <= Len(room)
      BY <2>1 DEF Follows, Database
    <3>2. MaxFrames \in Nat
      BY TclkAssumption
    <3> QED
      BY <1>2, <3>1, <3>2
  <2>2. Follows(db') /\ Follows(tx')
    BY SessionStep
  <2> QED
    BY <2>1, <2>2
<1>5. Moves
  BY MoveStep
<1>6. ASSUME pc # "idle", at <= last
      PROVE  room'[at] = room[at]
  <2>1. at \in 1 .. Len(room)
    BY <1>0, <1>1, <1>2, <1>6
  <2> QED
    BY <1>3, <2>1
<1> DEFINE InBatch == pc' # "idle" => base' < at' /\ at' <= last' + 1 /\ last' <= Len(room')
           OfFrame == /\ pc' \notin {"idle", "frame"} => at' <= last'
                      /\ pc' \in {"offer", "ref", "accept", "work"} => room'[at'].kind = "offer"
                      /\ pc' \in {"lock", "reveal", "claim"} => room'[at'].kind = "lock"
                      /\ pc' \in {"reveal", "claim"} => room'[at'].rail /\ deal' \in Deal
                      /\ pc' \in {"idle", "frame", "offer", "ref", "accept", "work", "lock", "reveal", "claim"}
                      /\ deal' \in Deal \cup {<<>>}
           Placed == {base', at', last'} \subseteq Nat
<1>7. Placed /\ InBatch
  <2>1. CASE UNCHANGED batch /\ (pc' = "idle" \/ pc # "idle")
    BY <1>0, <1>1, <1>2, <2>1 DEF batch
  <2>2. CASE UNCHANGED <<pc, batch>>
    BY <1>0, <1>1, <1>2, <2>2 DEF batch
  <2>3. CASE base' \in {db.cursor, 0} /\ base' < Len(room) /\ at' = base' + 1 /\ last' = Len(room)
    <3>1. db.cursor \in 0 .. MaxFrames /\ MaxFrames \in Nat
      BY TclkAssumption DEF TclkTypeOK, Database
    <3> QED
      BY <1>2, <2>3, <3>1
  <2>4. CASE pc # "idle" /\ at <= last /\ NextFrame
    BY <1>0, <1>1, <1>2, <2>4 DEF NextFrame
  <2> QED
    BY <1>5, <2>1, <2>2, <2>3, <2>4 DEF Moves
<1>8. OfFrame
  <2>1. CASE UNCHANGED <<pc, batch, deal>>
    BY <1>0, <1>1, <1>6, <2>1 DEF batch
  <2>2. CASE pc' = "idle" /\ (deal' = deal \/ deal' = <<>>)
    BY <1>0, <2>2
  <2>3. CASE pc' = "frame" /\ (deal' = deal \/ deal' = <<>>)
    BY <1>0, <2>3
  <2>4. CASE pc = "frame" /\ at <= last /\ room[at].kind \in {"offer", "lock"} /\ pc' = room[at].kind
             /\ UNCHANGED <<batch, deal>>
    BY <1>0, <1>6, <2>4 DEF batch
  <2>5. CASE pc \in {"offer", "ref", "accept"} /\ pc' \in {"ref", "accept", "work"} /\ UNCHANGED <<batch, deal>>
    BY <1>0, <1>1, <1>6, <2>5 DEF batch
  <2>6. CASE pc = "lock" /\ pc' = "reveal" /\ UNCHANGED batch /\ LockedDeal
    BY <1>0, <1>1, <1>6, <2>6 DEF batch, LockedDeal
  <2>7. CASE pc = "reveal" /\ pc' = "claim" /\ UNCHANGED <<batch, deal>>
    BY <1>0, <1>1, <1>6, <2>7 DEF batch
  <2> QED
    BY <1>5, <2>1, <2>2, <2>3, <2>4, <2>5, <2>6, <2>7 DEF Moves, NextFrame
<1> QED
  BY <1>4, <1>7, <1>8 DEF PositionInv
-----------------------------------------------------------------------------
(***************************************************************************)
(* One row after a step.                                                   *)
(***************************************************************************)

RowFollows(s, row) ==
  \/ row = db.audits[s] \/ row = tx.audits[s]
  \/ pc = "offer" /\ s = at /\ row = EmptyRow
  \/ /\ pc = "ref" /\ s = at /\ tx.audits[s] # NoRow
     /\ row.contract = tx.audits[s].contract /\ row.outcome = tx.audits[s].outcome
  \/ /\ pc = "work" /\ s = at /\ tx.audits[s] # NoRow
     /\ row.contract = Len(accepts) /\ row.outcome \in {"delivered", "no_answer", "error"}
     /\ row.outcome = "delivered" => shipped' = [shipped EXCEPT ![Len(accepts)] = @ + 1]
  \/ /\ pc = "claim" /\ tx.audits[s] # NoRow
     /\ tx.audits[s].contract = deal.contract /\ row.contract = deal.contract
     /\ deal.contract # FOREIGN /\ row.outcome = "claimed" /\ reveals' = reveals \cup {<<room[at].contract, deal.offer>>}

\* Rows that are there stay there.
LEMMA RowStep ==
  ASSUME TclkTypeOK, PositionInv, DealsFit, NEW rows \in [Seqs -> AuditRow], RowsFollow(rows), NEW s \in Seqs
  PROVE  RowFollows(s, rows[s]) /\ rows[s].contract \in 0 .. MaxAccepts
<1>1. /\ db.audits \in [Seqs -> AuditRow] /\ tx.audits \in [Seqs -> AuditRow]
      /\ db.audits[s] \in AuditRow /\ tx.audits[s] \in AuditRow /\ rows[s] \in AuditRow
  BY DEF TclkTypeOK, Database
<1>2. rows[s].contract \in 0 .. MaxAccepts
  BY <1>1, Zenon DEF AuditRow
<1>3. ASSUME NEW row, rows = Put(tx.audits, at, row)
      PROVE  rows[s] = IF s = at THEN row ELSE tx.audits[s]
  BY <1>1, <1>3 DEF Put
<1>4. RowFollows(s, rows[s])
  <2>1. CASE rows = db.audits \/ rows = tx.audits
    BY <2>1 DEF RowFollows
  <2>2. CASE pc = "offer" /\ rows = Put(tx.audits, at, EmptyRow)
    BY <1>3, <2>2 DEF RowFollows
  <2>3. CASE pc = "ref" /\ tx.audits[at] # NoRow /\ rows = Put(tx.audits, at, [tx.audits[at] EXCEPT !.ref = TRUE])
    <3>1. [tx.audits[s] EXCEPT !.ref = TRUE].contract = tx.audits[s].contract
      BY <1>1, RowChanges, TclkAssumption
    <3>2. [tx.audits[s] EXCEPT !.ref = TRUE].outcome = tx.audits[s].outcome
      BY <1>1, RowChanges, TclkAssumption
    <3>3. rows[s] = IF s = at THEN [tx.audits[at] EXCEPT !.ref = TRUE] ELSE tx.audits[s]
      BY <1>3, <2>3
    <3> QED
      BY <2>3, <3>1, <3>2, <3>3 DEF RowFollows
  <2>4. ASSUME pc = "work", tx.audits[at] # NoRow,
               NEW outcome \in {"delivered", "no_answer", "error"}, NEW answer \in BOOLEAN,
               rows = Put(tx.audits, at, AttachedTo(tx.audits[at], Len(accepts), outcome, answer)),
               outcome = "delivered" => shipped' = [shipped EXCEPT ![Len(accepts)] = @ + 1]
        PROVE  RowFollows(s, rows[s])
    <3>1. Len(accepts) \in 0 .. MaxAccepts
      BY TclkAssumption DEF DealsFit, TclkTypeOK
    <3>a. outcome \in {"delivered", "no_answer", "error"} /\ answer \in BOOLEAN
      BY <2>4
    <3>b. AttachedTo(tx.audits[s], Len(accepts), outcome, answer).contract = Len(accepts)
      BY <1>1 DEF AttachedTo, AuditRow
    <3>c. AttachedTo(tx.audits[s], Len(accepts), outcome, answer).outcome = outcome
      BY <1>1 DEF AttachedTo, AuditRow
    <3>2. /\ AttachedTo(tx.audits[s], Len(accepts), outcome, answer).contract = Len(accepts)
          /\ AttachedTo(tx.audits[s], Len(accepts), outcome, answer).outcome = outcome
      BY <3>b, <3>c
    <3>3. rows[s] = IF s = at THEN AttachedTo(tx.audits[at], Len(accepts), outcome, answer) ELSE tx.audits[s]
      BY <1>3, <2>4
    <3> QED
      BY <2>4, <3>2, <3>3 DEF RowFollows
  <2>5. CASE pc = "claim" /\ rows = ClaimedRows /\ reveals' = reveals \cup {<<room[at].contract, deal.offer>>}
    <3>1. CASE s \in Rows(deal.contract)
      <4>1. rows[s] = [tx.audits[s] EXCEPT !.outcome = "claimed"]
        BY <2>5, <3>1 DEF ClaimedRows
      <4>2. /\ [tx.audits[s] EXCEPT !.outcome = "claimed"].contract = tx.audits[s].contract
            /\ [tx.audits[s] EXCEPT !.outcome = "claimed"].outcome = "claimed"
        BY <1>1 DEF AuditRow
      <4>3. tx.audits[s].contract = deal.contract /\ deal.contract # FOREIGN
        BY <3>1 DEF Rows
      <4>4. tx.audits[s] # NoRow
        BY <4>3, RowTypes DEF FOREIGN
      <4> QED
        BY <2>5, <4>1, <4>2, <4>3, <4>4 DEF RowFollows
    <3>2. CASE s \notin Rows(deal.contract)
      BY <2>5, <3>2 DEF ClaimedRows, RowFollows
    <3> QED
      BY <3>1, <3>2
  <2> QED
    BY <2>1, <2>2, <2>3, <2>4, <2>5 DEF RowsFollow
<1> QED
  BY <1>2, <1>4

LEMMA RowsFitStep ==
  ASSUME TclkTypeOK, PositionInv, DealsFit, [Next]_vars,
         NEW rows \in [Seqs -> AuditRow], RowsFollow(rows), NEW s \in Seqs, rows[s] # NoRow
  PROVE  /\ s \in DOMAIN room' /\ room'[s].kind = "offer"
         /\ rows[s].contract # 0 =>
              rows[s].contract \in DOMAIN accepts' /\ accepts'[rows[s].contract] = room'[s].offer
<1>1. RowFollows(s, rows[s])
  BY RowStep
<1>2. /\ \A i \in DOMAIN room : i \in DOMAIN room' /\ room'[i] = room[i]
      /\ \A c \in DOMAIN accepts : c \in DOMAIN accepts' /\ accepts'[c] = accepts[c]
  BY RoomIsKept, AcceptsAreKept
<1>3. ASSUME NEW row, row \in {db.audits[s], tx.audits[s]}, row # NoRow
      PROVE  /\ s \in DOMAIN room /\ room[s].kind = "offer"
             /\ row.contract # 0 => row.contract \in DOMAIN accepts /\ accepts[row.contract] = room[s].offer
  BY <1>3 DEF DealsFit, RowsFit
<1>4. CASE rows[s] \in {db.audits[s], tx.audits[s]}
  BY <1>2, <1>3, <1>4
<1>5. ASSUME pc \in {"offer", "ref", "accept", "work"}, s = at
      PROVE  s \in DOMAIN room /\ room[s].kind = "offer"
  <2>1. pc # "idle" /\ at <= last /\ room[at].kind = "offer"
    BY <1>5 DEF PositionInv
  <2> QED
    BY <1>5, <2>1, InHand
<1>6. CASE pc = "offer" /\ s = at /\ rows[s] = EmptyRow
  BY <1>2, <1>5, <1>6, RowTypes
<1>7. CASE pc = "ref" /\ tx.audits[s] # NoRow /\ rows[s].contract = tx.audits[s].contract
  <2>1. tx.audits[s] \in {db.audits[s], tx.audits[s]}
    OBVIOUS
  <2> QED
    BY <1>2, <1>3, <1>7, <2>1
<1>8. CASE pc = "work" /\ s = at /\ rows[s].contract = Len(accepts)
  <2>1. accepts # <<>> /\ accepts[Len(accepts)] = room[at].offer
    BY <1>8 DEF DealsFit
  <2>2. accepts \in Seq(Offers)
    BY DEF TclkTypeOK
  <2>3. Len(accepts) \in DOMAIN accepts
    BY <2>1, <2>2
  <2> QED
    BY <1>2, <1>5, <1>8, <2>1, <2>3
<1>9. CASE pc = "claim" /\ tx.audits[s] # NoRow /\ tx.audits[s].contract = deal.contract
           /\ rows[s].contract = deal.contract
  <2>1. tx.audits[s] \in {db.audits[s], tx.audits[s]}
    OBVIOUS
  <2> QED
    BY <1>2, <1>3, <1>9, <2>1
<1> QED
  BY <1>1, <1>4, <1>6, <1>7, <1>8, <1>9 DEF RowFollows
-----------------------------------------------------------------------------
(***************************************************************************)
(* What a step leaves in memory.                                           *)
(***************************************************************************)

\* Half an hour later the deals are the same, but old; the work changes the
\* answer of one of them; a lock marks one of them.
Aged == {[d EXCEPT !.old = TRUE] : d \in mem.active}
WithAnswer(c, ans) == {IF d.contract = c THEN [d EXCEPT !.answer = ans] ELSE d : d \in mem.active}
WithLock(d, c) == (mem.active \ {d}) \cup {[d EXCEPT !.locked = TRUE, !.slug = c]}
Accepted == [contract |-> Len(accepts'), offer |-> room[at].offer,
             answer |-> FALSE, slug |-> Len(accepts'), locked |-> FALSE, old |-> FALSE]

\* What becomes of the deals in memory.
ActiveStep ==
  \/ mem'.active \subseteq mem.active
  \/ mem'.active = Aged
  \/ pc = "accept" /\ AcceptPosted /\ mem'.active = mem.active \cup {Accepted}
  \/ pc = "work" /\ \E ans \in BOOLEAN : mem'.active = WithAnswer(Len(accepts), ans)
  \/ \E d \in mem.active, c \in Rooms : mem'.active = WithLock(d, c)

\* Where a deal in memory comes from.
ComesFrom(d, e) ==
  /\ d.contract = e.contract /\ d.offer = e.offer
  /\ d.answer => e.answer \/ (pc = "work" /\ d.contract = Len(accepts))

LEMMA DealChanges ==
  ASSUME NEW d \in ActiveDeal
  PROVE  /\ [d EXCEPT !.old = TRUE] \in ActiveDeal
         /\ [d EXCEPT !.old = TRUE].contract = d.contract
         /\ [d EXCEPT !.old = TRUE].offer = d.offer
         /\ [d EXCEPT !.old = TRUE].answer = d.answer
         /\ \A c \in Rooms :
              /\ [d EXCEPT !.locked = TRUE, !.slug = c] \in ActiveDeal
              /\ [d EXCEPT !.locked = TRUE, !.slug = c].contract = d.contract
              /\ [d EXCEPT !.locked = TRUE, !.slug = c].offer = d.offer
              /\ [d EXCEPT !.locked = TRUE, !.slug = c].answer = d.answer
         /\ \A ans \in BOOLEAN :
              /\ [d EXCEPT !.answer = ans] \in ActiveDeal
              /\ [d EXCEPT !.answer = ans].contract = d.contract
              /\ [d EXCEPT !.answer = ans].offer = d.offer
  BY DEF ActiveDeal

LEMMA ActiveFollows ==
  ASSUME mem.active \subseteq ActiveDeal, ActiveStep, NEW d \in mem'.active
  PROVE  \/ d \in ActiveDeal /\ \E e \in mem.active : ComesFrom(d, e)
         \/ pc = "accept" /\ AcceptPosted /\ d = Accepted
<1>1. ASSUME d \in mem.active
      PROVE  d \in ActiveDeal /\ \E e \in mem.active : ComesFrom(d, e)
  <2>1. ComesFrom(d, d)
    BY DEF ComesFrom
  <2> QED
    BY <1>1, <2>1
<1>2. ASSUME NEW e \in mem.active, d = [e EXCEPT !.old = TRUE]
      PROVE  d \in ActiveDeal /\ ComesFrom(d, e)
  BY <1>2, DealChanges DEF ComesFrom
<1>7. ASSUME NEW e \in mem.active, NEW c \in Rooms, d = [e EXCEPT !.locked = TRUE, !.slug = c]
      PROVE  d \in ActiveDeal /\ ComesFrom(d, e)
  <2>1. e \in ActiveDeal
    OBVIOUS
  <2>2. d \in ActiveDeal /\ d.contract = e.contract /\ d.offer = e.offer /\ d.answer = e.answer
    BY <1>7, <2>1, DealChanges
  <2> QED
    BY <2>2 DEF ComesFrom
<1>3. ASSUME NEW e \in mem.active, NEW ans \in BOOLEAN, pc = "work",
             d = IF e.contract = Len(accepts) THEN [e EXCEPT !.answer = ans] ELSE e
      PROVE  d \in ActiveDeal /\ ComesFrom(d, e)
  BY <1>3, DealChanges DEF ComesFrom
<1>4. CASE mem'.active = Aged
  BY <1>2, <1>4 DEF Aged
<1>5. ASSUME NEW ans \in BOOLEAN, pc = "work", mem'.active = WithAnswer(Len(accepts), ans)
      PROVE  d \in ActiveDeal /\ \E e \in mem.active : ComesFrom(d, e)
  <2>1. PICK e \in mem.active : d = IF e.contract = Len(accepts) THEN [e EXCEPT !.answer = ans] ELSE e
    BY <1>5 DEF WithAnswer
  <2> QED
    BY <1>3, <1>5, <2>1
<1>6. ASSUME NEW e \in mem.active, NEW c \in Rooms, mem'.active = WithLock(e, c)
      PROVE  d \in ActiveDeal /\ \E f \in mem.active : ComesFrom(d, f)
  BY <1>1, <1>6, <1>7 DEF WithLock
<1> QED
  BY <1>1, <1>4, <1>5, <1>6 DEF ActiveStep

LEMMA AcceptedIsDeal ==
  ASSUME TclkTypeOK, PositionInv, DealsFit, [Next]_vars, AcceptPosted
  PROVE  /\ Accepted \in ActiveDeal /\ Accepted.contract = Len(accepts') /\ Accepted.offer = room[at].offer
         /\ Accepted.answer = FALSE /\ Len(accepts') \in DOMAIN accepts' /\ accepts'[Len(accepts')] = room[at].offer
         /\ room[at].offer \in Offers /\ Len(accepts') = Len(accepts) + 1 /\ accepts' = Append(accepts, room[at].offer)
<1>1. pc = "accept" /\ Len(accepts) < MaxAccepts /\ accepts' = Append(accepts, room[at].offer)
  BY DEF AcceptPosted
<1>2. at <= last /\ room[at].kind = "offer"
  BY <1>1 DEF PositionInv
<1>3. room[at].offer \in Offers
  BY <1>1, <1>2, InHand, FrameFields
<1>4. accepts \in Seq(Offers)
  BY DEF TclkTypeOK
<1>5. /\ Len(accepts') = Len(accepts) + 1 /\ Len(accepts') \in DOMAIN accepts'
      /\ accepts'[Len(accepts')] = room[at].offer
  BY <1>1, <1>3, <1>4
<1>6. Len(accepts') \in Contracts
  BY <1>1, <1>4, <1>5, TclkAssumption DEF Contracts
<1>8. Len(accepts') \in Rooms
  BY <1>6 DEF Rooms
<1>7. Accepted \in ActiveDeal
  BY <1>3, <1>6, <1>8, Zenon DEF Accepted, ActiveDeal
<1> QED
  BY <1>1, <1>3, <1>5, <1>7 DEF Accepted

\* Only an offer that is about to be accepted enters the memory of offers; only
\* a restart empties it.
SeenStep ==
  \/ mem'.seen = mem.seen
  \/ pc = "offer" /\ pc' = "ref" /\ mem'.seen = mem.seen \cup {room[at].offer}
  \/ Restart /\ mem'.seen = {}

UsedStep == mem'.used \in {mem.used, 0} \/ (AcceptPosted /\ mem'.used = mem.used + 1)

LEMMA MemoryStep ==
  ASSUME TclkTypeOK, PositionInv, DealsFit, CapsInv, [Next]_vars
  PROVE  mem' \in Memory /\ ActiveStep /\ SeenStep /\ UsedStep
<1>0. mem \in Memory /\ mem.active \subseteq ActiveDeal /\ mem.used \in 0 .. AcceptPerHour + Reserve
  BY MemoryFields DEF TclkTypeOK
<1>2. CASE Publish \/ Poll \/ Chat \/ EndBatch \/ SetAuditRef \/ AcceptDropped \/ RecoverPending \/ Reveal
           \/ UNCHANGED vars
  <2>1. mem' = mem
    BY <1>2 DEF Publish, Poll, Chat, EndBatch, SetAuditRef, AcceptDropped, RecoverPending, Reveal, vars
  <2> QED
    BY <1>0, <2>1 DEF ActiveStep, SeenStep, UsedStep
<1>3. CASE TtlPasses \/ HourPasses
  <2>1. mem' = [mem EXCEPT !.active = Aged] \/ mem' = [mem EXCEPT !.used = 0, !.active = Aged]
    BY <1>3 DEF TtlPasses, HourPasses, Aged
  <2>2. Aged \subseteq ActiveDeal
    BY <1>0, DealChanges DEF Aged
  <2>3. 0 \in 0 .. AcceptPerHour + Reserve
    BY TclkAssumption
  <2> QED
    BY <1>0, <2>1, <2>2, <2>3 DEF Memory, ActiveStep, SeenStep, UsedStep
<1>4. CASE Persist
  <2>1. at <= last /\ pc # "idle"
    BY <1>4 DEF Persist
  <2>2. room[at] \in Frames
    BY <2>1, InHand
  <2>3. room[at].kind = "lock" => room[at].contract \in Rooms
    BY <2>2, FrameFields
  <2>4. mem.rails \in SUBSET Rooms
    BY MemoryFields DEF TclkTypeOK
  <2>5. RailsAfter(room[at]) \subseteq SUBSET Rooms
    BY <2>3, <2>4 DEF RailsAfter
  <2>6. PICK rails \in RailsAfter(room[at]) : mem' = [mem EXCEPT !.rails = rails]
    BY <1>4 DEF Persist
  <2> QED
    BY <1>0, <2>5, <2>6 DEF Memory, ActiveStep, SeenStep, UsedStep
<1>5. CASE ClaimRadar
  <2>1. at <= last /\ pc # "idle" /\ room[at].kind = "reveal"
    BY <1>5 DEF ClaimRadar
  <2>2. room[at].contract \in Rooms
    BY <2>1, InHand, FrameFields
  <2>3. \/ mem' = mem
        \/ \E gone \in SUBSET mem.active :
             mem' = [mem EXCEPT !.claimed = @ \cup {room[at].contract}, !.active = @ \ gone]
    <3> DEFINE settled == {d \in mem.active : d.slug = room[at].contract}
    <3>1. PICK sent \in BOOLEAN :
            \/ mem' = mem
            \/ mem' = [mem EXCEPT !.claimed = @ \cup {room[at].contract},
                                  !.active = IF sent THEN @ \ settled ELSE @]
      BY <1>5 DEF ClaimRadar
    <3>2. settled \in SUBSET mem.active /\ {} \in SUBSET mem.active /\ mem.active = mem.active \ {}
      OBVIOUS
    <3> HIDE DEF settled
    <3>3. (IF sent THEN mem.active \ settled ELSE mem.active) \in {mem.active \ settled, mem.active \ {}}
      BY <3>2
    <3> QED
      BY <3>1, <3>2, <3>3
  <2>4. CASE mem' = mem
    BY <1>0, <2>4 DEF ActiveStep, SeenStep, UsedStep
  <2>5. ASSUME NEW gone \in SUBSET mem.active,
               mem' = [mem EXCEPT !.claimed = @ \cup {room[at].contract}, !.active = @ \ gone]
        PROVE  mem' \in Memory /\ ActiveStep /\ SeenStep /\ UsedStep
    <3>1. mem' \in Memory
      BY <1>0, <2>2, <2>5 DEF Memory
    <3>2. mem'.active = mem.active \ gone /\ mem'.seen = mem.seen /\ mem'.used = mem.used
      BY <1>0, <2>5 DEF Memory
    <3> QED
      BY <3>1, <3>2 DEF ActiveStep, SeenStep, UsedStep
  <2> QED
    BY <2>3, <2>4, <2>5
<1>6. CASE OnOffer
  <2>1. at <= last /\ pc = "offer" /\ room[at].kind = "offer"
    BY <1>6 DEF OnOffer, PositionInv
  <2>2. room[at].offer \in Offers
    BY <2>1, InHand, FrameFields
  <2>3. \/ mem' = [mem EXCEPT !.active = Pruned]
        \/ mem' = [mem EXCEPT !.active = Pruned, !.seen = @ \cup {room[at].offer}] /\ pc' = "ref"
    BY <1>6 DEF OnOffer, Stay
  <2>4. Pruned \subseteq mem.active
    BY DEF Pruned
  <2>5. CASE mem' = [mem EXCEPT !.active = Pruned]
    BY <1>0, <2>4, <2>5 DEF Memory, ActiveStep, SeenStep, UsedStep
  <2>6. CASE pc' = "ref" /\ mem' = [mem EXCEPT !.active = Pruned, !.seen = @ \cup {room[at].offer}]
    <3>1. mem' \in Memory /\ mem'.active = Pruned /\ mem'.used = mem.used
      BY <1>0, <2>2, <2>4, <2>6 DEF Memory
    <3>2. mem'.seen = mem.seen \cup {room[at].offer}
      BY <1>0, <2>6 DEF Memory
    <3> QED
      BY <2>1, <2>4, <2>6, <3>1, <3>2 DEF ActiveStep, SeenStep, UsedStep
  <2> QED
    BY <2>3, <2>5, <2>6
<1>7. CASE AcceptPosted
  <2>1. Accepted \in ActiveDeal
    BY <1>7, AcceptedIsDeal
  <2>2. mem.used + 1 \in 0 .. AcceptPerHour + Reserve
    <3>1. pc = "accept"
      BY <1>7 DEF AcceptPosted
    <3>2. mem.used < AcceptPerHour + Reserve
      BY <3>1 DEF CapsInv
    <3> QED
      BY <1>0, <3>2, TclkAssumption
  <2>3. mem' = [mem EXCEPT !.used = @ + 1, !.active = @ \cup {Accepted}] /\ pc = "accept"
    BY <1>7 DEF AcceptPosted, Accepted
  <2> QED
    BY <1>0, <1>7, <2>1, <2>2, <2>3 DEF Memory, ActiveStep, SeenStep, UsedStep
<1>8. CASE Work
  <2>1. pc = "work" /\ accepts # <<>> /\ Len(accepts) <= MaxAccepts /\ accepts \in Seq(Offers)
    BY <1>8 DEF Work, DealsFit, TclkTypeOK
  <2>2. Len(accepts) \in Contracts
    BY <2>1, TclkAssumption DEF Contracts
  <2>3. PICK ans \in BOOLEAN, sent \in BOOLEAN :
          mem' = [mem EXCEPT !.active = WithAnswer(Len(accepts), ans),
                             !.delivered = IF sent THEN @ \cup {Len(accepts)} ELSE @]
    <3>1. PICK ans \in BOOLEAN, outcome \in {"delivered", "error", "no_answer"} :
            mem' = [mem EXCEPT !.active = WithAnswer(Len(accepts), ans),
                               !.delivered = IF outcome = "delivered" THEN @ \cup {Len(accepts)} ELSE @]
      BY <1>8 DEF Work, Answered, WithAnswer
    <3>2. (outcome = "delivered") \in BOOLEAN
      OBVIOUS
    <3> QED
      BY <3>1, <3>2
  <2>4. WithAnswer(Len(accepts), ans) \subseteq ActiveDeal
    BY <1>0, DealChanges DEF WithAnswer
  <2> QED
    BY <1>0, <2>1, <2>2, <2>3, <2>4 DEF Memory, ActiveStep, SeenStep, UsedStep
<1>9. CASE OnLock
  <2> DEFINE H == Handled(room[at])
             d == CHOOSE x \in H : \A y \in H : x.contract <= y.contract
  <2>1. H # {} /\ mem' = [mem EXCEPT !.active = WithLock(d, room[at].contract)]
    BY <1>9 DEF OnLock, WithLock
  <2>5. room[at].contract \in Rooms
    <3>1. pc = "lock"
      BY <1>9 DEF OnLock
    <3>2. pc # "idle" /\ at <= last /\ room[at].kind = "lock"
      BY <3>1 DEF PositionInv
    <3> QED
      BY <3>2, InHand, FrameFields
  <2>2. H \subseteq mem.active
    BY DEF Handled
  <2>3. d \in mem.active
    BY <1>0, <2>1, <2>2, LeastDeal
  <2> HIDE DEF d, H
  <2>4. WithLock(d, room[at].contract) \subseteq ActiveDeal
    BY <1>0, <2>3, <2>5, DealChanges DEF WithLock
  <2> QED
    BY <1>0, <2>1, <2>3, <2>4, <2>5 DEF Memory, ActiveStep, SeenStep, UsedStep
<1>10. CASE Ship
  <2>1. pc = "reveal" /\ deal \in Deal
    BY <1>10 DEF Ship, PositionInv
  <2>4. deal.answer => deal.contract \in DOMAIN accepts
    BY <2>1 DEF DealsFit
  <2>2. deal.answer => deal.contract \in Contracts
    BY <2>4, AcceptsAreKept
  <2>3. mem' = mem \/ (deal.answer /\ mem' = [mem EXCEPT !.delivered = @ \cup {deal.contract}])
    BY <1>10 DEF Ship
  <2> QED
    BY <1>0, <2>2, <2>3 DEF Memory, ActiveStep, SeenStep, UsedStep
<1>11. CASE Restart
  <2>1. mem' = Blank
    BY <1>11 DEF Restart
  <2>2. 0 \in 0 .. AcceptPerHour + Reserve
    BY TclkAssumption
  <2>3. Blank = [seen |-> {}, active |-> {}, delivered |-> {}, claimed |-> {}, rails |-> {}, used |-> 0]
    BY DEF Blank
  <2>4. Blank \in Memory
    BY <2>2, <2>3 DEF Memory
  <2> QED
    BY <1>11, <2>1, <2>3, <2>4 DEF ActiveStep, SeenStep, UsedStep
<1> QED
  BY <1>2, <1>3, <1>4, <1>5, <1>6, <1>7, <1>8, <1>9, <1>10, <1>11 DEF Next, Step
-----------------------------------------------------------------------------
(***************************************************************************)
(* The caps.                                                               *)
(***************************************************************************)

LEMMA ImageIsFinite ==
  ASSUME NEW S, IsFiniteSet(S), NEW f, DOMAIN f = S, f = [x \in S |-> f[x]]
  PROVE  IsFiniteSet({f[x] : x \in S}) /\ Cardinality({f[x] : x \in S}) <= Cardinality(S)
<1>1. f \in Surjection(S, {f[x] : x \in S})
  BY Zenon DEF Surjection
<1> QED
  BY <1>1, FS_Surjection

LEMMA ActiveSize ==
  ASSUME IsFiniteSet(mem.active), ActiveStep
  PROVE  /\ IsFiniteSet(mem'.active)
         /\ \/ Cardinality(mem'.active) <= Cardinality(mem.active)
            \/ pc = "accept" /\ AcceptPosted /\ Cardinality(mem'.active) <= Cardinality(mem.active) + 1
<1>0. Cardinality(mem.active) \in Nat
  BY FS_CardinalityType
<1>1. CASE mem'.active \subseteq mem.active
  BY <1>1, FS_Subset
<1>2. CASE mem'.active = Aged
  <2> DEFINE f == [d \in mem.active |-> [d EXCEPT !.old = TRUE]]
  <2>1. Aged = {f[d] : d \in mem.active}
    BY DEF Aged
  <2>2. DOMAIN f = mem.active /\ f = [d \in mem.active |-> f[d]]
    OBVIOUS
  <2> HIDE DEF f
  <2> QED
    BY <1>2, <2>1, <2>2, ImageIsFinite
<1>3. CASE pc = "accept" /\ AcceptPosted /\ mem'.active = mem.active \cup {Accepted}
  <2>1. /\ IsFiniteSet(mem.active \cup {Accepted})
        /\ Cardinality(mem.active \cup {Accepted}) \in {Cardinality(mem.active), Cardinality(mem.active) + 1}
    BY FS_AddElement
  <2> QED
    BY <1>0, <1>3, <2>1
<1>4. ASSUME NEW ans, mem'.active = WithAnswer(Len(accepts), ans)
      PROVE  IsFiniteSet(mem'.active) /\ Cardinality(mem'.active) <= Cardinality(mem.active)
  <2> DEFINE f == [d \in mem.active |-> IF d.contract = Len(accepts) THEN [d EXCEPT !.answer = ans] ELSE d]
  <2>1. WithAnswer(Len(accepts), ans) = {f[d] : d \in mem.active}
    BY DEF WithAnswer
  <2>2. DOMAIN f = mem.active /\ f = [d \in mem.active |-> f[d]]
    OBVIOUS
  <2> HIDE DEF f
  <2> QED
    BY <1>4, <2>1, <2>2, ImageIsFinite
<1>5. ASSUME NEW d \in mem.active, NEW c \in Rooms, mem'.active = WithLock(d, c)
      PROVE  IsFiniteSet(mem'.active) /\ Cardinality(mem'.active) <= Cardinality(mem.active)
  <2> DEFINE rest == mem.active \ {d}
             locked == [d EXCEPT !.locked = TRUE, !.slug = c]
  <2>1. IsFiniteSet(rest) /\ Cardinality(rest) = Cardinality(mem.active) - 1
    BY FS_RemoveElement
  <2> HIDE DEF rest, locked
  <2>2. /\ IsFiniteSet(rest \cup {locked})
        /\ Cardinality(rest \cup {locked}) \in {Cardinality(rest), Cardinality(rest) + 1}
    BY <2>1, FS_AddElement
  <2>3. mem'.active = rest \cup {locked}
    BY <1>5 DEF WithLock, rest, locked
  <2> QED
    BY <1>0, <2>1, <2>2, <2>3
<1> QED
  BY <1>1, <1>2, <1>3, <1>4, <1>5 DEF ActiveStep

\* An accept that is due is one the cap and the number of deals leave room for.
LEMMA OfferIsChecked ==
  ASSUME TclkTypeOK, OnOffer, pc' \in {"ref", "accept"}
  PROVE  mem'.used < AcceptPerHour + Reserve /\ Cardinality(mem'.active) < MaxActive
<1>1. /\ RateOK(room[at].offer) /\ Cardinality(Pruned) < MaxActive
      /\ mem' = [mem EXCEPT !.active = Pruned, !.seen = @ \cup {room[at].offer}]
  BY DEF OnOffer, NextFrame
<1>2. mem'.used = mem.used /\ mem'.active = Pruned
  BY <1>1 DEF TclkTypeOK, Memory
<1>3. mem.used < AcceptPerHour + (IF room[at].offer \in Validation THEN Reserve ELSE 0)
  BY <1>1 DEF RateOK
<1>4. mem.used \in Nat /\ AcceptPerHour \in Nat /\ Reserve \in Nat
  BY MemoryFields, TclkAssumption DEF TclkTypeOK
<1>5. mem.used < AcceptPerHour + Reserve
  BY <1>3, <1>4
<1> QED
  BY <1>1, <1>2, <1>5

LEMMA CapsStep ==
  ASSUME TclkTypeOK, PositionInv, DealsFit, CapsInv, [Next]_vars
  PROVE  CapsInv' /\ Cardinality(mem'.active) <= MaxActive
<1>0. /\ IsFiniteSet(mem.active) /\ Cardinality(mem.active) \in Nat /\ Cardinality(mem.active) <= MaxActive
      /\ MaxActive \in Nat /\ AcceptPerHour \in Nat /\ Reserve \in Nat
      /\ pc \in {"ref", "accept"} => mem.used < AcceptPerHour + Reserve /\ Cardinality(mem.active) < MaxActive
      /\ mem.used \in Nat
  BY FS_CardinalityType, MemoryFields, TclkAssumption DEF CapsInv, TclkTypeOK
<1>1. ActiveStep /\ UsedStep
  BY MemoryStep
<1>2. /\ IsFiniteSet(mem'.active)
      /\ \/ Cardinality(mem'.active) <= Cardinality(mem.active)
         \/ pc = "accept" /\ AcceptPosted /\ Cardinality(mem'.active) <= Cardinality(mem.active) + 1
  BY <1>0, <1>1, ActiveSize
<1>3. Cardinality(mem'.active) \in Nat
  BY <1>2, FS_CardinalityType
<1>4. Cardinality(mem'.active) <= MaxActive
  <2>1. CASE Cardinality(mem'.active) <= Cardinality(mem.active)
    BY <1>0, <1>3, <2>1
  <2>2. CASE pc = "accept" /\ Cardinality(mem'.active) <= Cardinality(mem.active) + 1
    <3>1. Cardinality(mem.active) < MaxActive
      BY <1>0, <2>2
    <3> QED
      BY <1>0, <1>3, <2>2, <3>1
  <2> QED
    BY <1>2, <2>1, <2>2
<1>5. ASSUME pc' \in {"ref", "accept"}
      PROVE  mem'.used < AcceptPerHour + Reserve /\ Cardinality(mem'.active) < MaxActive
  <2>1. CASE OnOffer
    BY <1>5, <2>1, OfferIsChecked
  <2>2. CASE ~OnOffer
    <3>1. pc \in {"ref", "accept"} /\ ~AcceptPosted
      BY <1>5, <2>2 DEF Next, Step, Poll, Chat, Persist, ClaimRadar, EndBatch, SetAuditRef, AcceptDropped,
         AcceptPosted, Work, OnLock, RecoverPending, Ship, Reveal, Publish, TtlPasses, HourPasses, Restart,
         vars, Stay, NextFrame, PositionInv
    <3>2. mem'.used \in {mem.used, 0}
      BY <1>1, <3>1 DEF UsedStep
    <3>3. Cardinality(mem'.active) <= Cardinality(mem.active)
      BY <1>2, <3>1
    <3>4. mem.used < AcceptPerHour + Reserve /\ Cardinality(mem.active) < MaxActive
      BY <1>0, <3>1
    <3>5. mem'.used < AcceptPerHour + Reserve
      BY <1>0, <3>2, <3>4
    <3> QED
      BY <1>0, <1>3, <3>3, <3>4, <3>5
  <2> QED
    BY <2>1, <2>2
<1> QED
  BY <1>2, <1>4, <1>5 DEF CapsInv
-----------------------------------------------------------------------------
(***************************************************************************)
(* Whatever names a deal, names the offer its contract answers.            *)
(***************************************************************************)

LEMMA DealsStep ==
  ASSUME TclkTypeOK, PositionInv, DealsFit, CapsInv, [Next]_vars
  PROVE  DealsFit'
<1>1. /\ \A c \in DOMAIN accepts : c \in DOMAIN accepts' /\ accepts'[c] = accepts[c]
      /\ Len(accepts') <= MaxAccepts
      /\ \A i \in DOMAIN room : i \in DOMAIN room' /\ room'[i] = room[i]
  BY RoomIsKept, AcceptsAreKept
<1>3. ASSUME NEW d \in mem'.active
      PROVE  d.contract \in DOMAIN accepts' /\ accepts'[d.contract] = d.offer
  <2>1. mem.active \subseteq ActiveDeal /\ ActiveStep
    BY MemoryFields, MemoryStep DEF TclkTypeOK
  <2>2. CASE \E e \in mem.active : ComesFrom(d, e)
    BY <1>1, <2>2 DEF ComesFrom, DealsFit
  <2>3. CASE AcceptPosted /\ d = Accepted
    BY <2>3, AcceptedIsDeal
  <2> QED
    BY <2>1, <2>2, <2>3, ActiveFollows
<1>4. ASSUME pc' = "work"
      PROVE  accepts' # <<>> /\ accepts'[Len(accepts')] = room'[at'].offer
  <2>1. CASE AcceptPosted
    <3>1. at' = at /\ pc = "accept"
      BY <2>1 DEF AcceptPosted, Stay, batch
    <3>2. room'[at] = room[at]
      BY <1>1, <3>1, InHand DEF PositionInv
    <3>3. Len(accepts') \in DOMAIN accepts' /\ accepts'[Len(accepts')] = room[at].offer
      BY <2>1, AcceptedIsDeal
    <3>4. accepts' # <<>>
      BY <3>3, AcceptsAreKept
    <3> QED
      BY <3>1, <3>2, <3>3, <3>4
  <2>2. CASE ~AcceptPosted
    <3>1. pc = "work" /\ UNCHANGED <<pc, batch, deal>>
      BY <1>4, <2>2, MoveStep DEF Moves, NextFrame
    <3>2. accepts' = accepts /\ at' = at
      BY <3>1, AcceptsStep DEF AcceptAdded, batch
    <3>3. at <= last
      BY <3>1 DEF PositionInv
    <3>4. room'[at] = room[at]
      BY <1>1, <3>1, <3>3, InHand
    <3> QED
      BY <3>1, <3>2, <3>4 DEF DealsFit
  <2> QED
    BY <2>1, <2>2
<1>5. ASSUME pc' \in {"reveal", "claim"}
      PROVE  /\ \E c \in DOMAIN accepts' :
                  (c \in {room'[at'].contract, room'[at'].ref} \/ accepts'[c] = room'[at'].ref)
                  /\ accepts'[c] = deal'.offer
             /\ \/ deal'.contract \in DOMAIN accepts' /\ accepts'[deal'.contract] = deal'.offer
                \/ deal'.contract = room'[at'].contract /\ ~deal'.answer
  <2>1. /\ pc \in {"lock", "reveal", "claim"} /\ at' = at
        /\ \/ LockedDeal
           \/ pc \in {"reveal", "claim"} /\ deal' = deal
    BY <1>5, MoveStep DEF Moves, NextFrame, batch
  <2>2. at <= last /\ room[at].kind = "lock"
    BY <2>1 DEF PositionInv
  <2>3. at \in DOMAIN room /\ room'[at] = room[at]
    BY <1>1, <2>1, <2>2, InHand
  <2>4. /\ \E c \in DOMAIN accepts : AsksFor(room[at], c) /\ accepts[c] = deal'.offer
        /\ \/ deal'.contract \in DOMAIN accepts /\ accepts[deal'.contract] = deal'.offer
           \/ deal'.contract = room[at].contract /\ ~deal'.answer
    <3>1. CASE LockedDeal
      BY <3>1 DEF LockedDeal
    <3>2. CASE pc \in {"reveal", "claim"} /\ deal' = deal
      BY <3>2 DEF DealsFit
    <3> QED
      BY <2>1, <3>1, <3>2
  <2>5. PICK c \in DOMAIN accepts : AsksFor(room[at], c) /\ accepts[c] = deal'.offer
    BY <2>4
  <2>6. room'[at'] = room[at] /\ c \in DOMAIN accepts' /\ accepts'[c] = accepts[c]
    BY <1>1, <2>1, <2>3
  <2>7. \E k \in DOMAIN accepts' :
          (k \in {room'[at'].contract, room'[at'].ref} \/ accepts'[k] = room'[at'].ref)
          /\ accepts'[k] = deal'.offer
    BY <2>5, <2>6 DEF AsksFor
  <2>8. \/ deal'.contract \in DOMAIN accepts' /\ accepts'[deal'.contract] = deal'.offer
        \/ deal'.contract = room'[at'].contract /\ ~deal'.answer
    BY <1>1, <2>4, <2>6
  <2> QED
    BY <2>7, <2>8
<1>7. RowsFit(db)' /\ RowsFit(tx)'
  <2>1. Follows(db') /\ Follows(tx')
    BY SessionStep
  <2>2. /\ db'.audits \in [Seqs -> AuditRow] /\ RowsFollow(db'.audits)
        /\ tx'.audits \in [Seqs -> AuditRow] /\ RowsFollow(tx'.audits)
    BY <2>1 DEF Follows, Database
  <2>3. \A s \in Seqs : db'.audits[s] # NoRow =>
          /\ s \in DOMAIN room' /\ room'[s].kind = "offer"
          /\ db'.audits[s].contract # 0 =>
               db'.audits[s].contract \in DOMAIN accepts' /\ accepts'[db'.audits[s].contract] = room'[s].offer
    BY <2>2, RowsFitStep
  <2>4. \A s \in Seqs : tx'.audits[s] # NoRow =>
          /\ s \in DOMAIN room' /\ room'[s].kind = "offer"
          /\ tx'.audits[s].contract # 0 =>
               tx'.audits[s].contract \in DOMAIN accepts' /\ accepts'[tx'.audits[s].contract] = room'[s].offer
    BY <2>2, RowsFitStep
  <2> QED
    BY <2>3, <2>4 DEF RowsFit
<1> QED
  BY <1>1, <1>3, <1>4, <1>5, <1>7 DEF DealsFit, AsksFor

\* A secret is revealed only where a lock on the room asks for it.
LEMMA RevealStep ==
  ASSUME TclkTypeOK, PositionInv, DealsFit, RevealAnswersLock, [Next]_vars
  PROVE  RevealAnswersLock'
<1>1. /\ \A c \in DOMAIN accepts : c \in DOMAIN accepts' /\ accepts'[c] = accepts[c]
      /\ \A i \in DOMAIN room : i \in DOMAIN room' /\ room'[i] = room[i]
  BY RoomIsKept, AcceptsAreKept
<1>2. ASSUME NEW r \in reveals'
      PROVE  \E i \in DOMAIN room', c \in DOMAIN accepts' :
               /\ room'[i].kind = "lock" /\ room'[i].rail /\ room'[i].contract = r[1]
               /\ c \in {room'[i].contract, room'[i].ref} \/ accepts'[c] = room'[i].ref
               /\ accepts'[c] = r[2]
  <2>1. ASSUME NEW i \in DOMAIN room, NEW c \in DOMAIN accepts,
               room[i].kind = "lock", room[i].rail, room[i].contract = r[1],
               AsksFor(room[i], c), accepts[c] = r[2]
        PROVE  \E j \in DOMAIN room', k \in DOMAIN accepts' :
                 /\ room'[j].kind = "lock" /\ room'[j].rail /\ room'[j].contract = r[1]
                 /\ k \in {room'[j].contract, room'[j].ref} \/ accepts'[k] = room'[j].ref
                 /\ accepts'[k] = r[2]
    <3>1. i \in DOMAIN room' /\ room'[i] = room[i] /\ c \in DOMAIN accepts' /\ accepts'[c] = accepts[c]
      BY <1>1
    <3>2. c \in {room[i].contract, room[i].ref} \/ accepts[c] = room[i].ref
      BY <2>1 DEF AsksFor
    <3> QED
      BY <2>1, <3>1, <3>2
  <2>2. CASE r \in reveals
    BY <2>1, <2>2 DEF RevealAnswersLock
  <2>3. CASE pc = "claim" /\ r = <<room[at].contract, deal.offer>>
    <3>1. at <= last /\ room[at].kind = "lock" /\ room[at].rail
      BY <2>3 DEF PositionInv
    <3>2. at \in DOMAIN room
      BY <2>3, <3>1, InHand
    <3>3. PICK c \in DOMAIN accepts : AsksFor(room[at], c) /\ accepts[c] = deal.offer
      BY <2>3 DEF DealsFit
    <3>4. r[1] = room[at].contract /\ r[2] = deal.offer
      BY <2>3
    <3> QED
      BY <2>1, <3>1, <3>2, <3>3, <3>4
  <2> QED
    BY <1>2, <2>2, <2>3, RevealsStep
<1> QED
  BY <1>2 DEF RevealAnswersLock, AsksFor
-----------------------------------------------------------------------------
(***************************************************************************)
(* Types.                                                                  *)
(***************************************************************************)

LEMMA InHandContracts ==
  ASSUME TclkTypeOK, PositionInv, DealsFit
  PROVE  /\ pc = "work" => Len(accepts) \in DOMAIN accepts /\ Len(accepts) \in Contracts
         /\ pc \in {"reveal", "claim"} =>
              /\ deal.answer => deal.contract \in DOMAIN accepts /\ deal.contract \in Contracts
              /\ deal.contract # FOREIGN => deal.contract \in Contracts
              /\ deal.offer \in Offers /\ room[at].contract \in Rooms
<1>1. accepts \in Seq(Offers) /\ Len(accepts) <= MaxAccepts /\ MaxAccepts \in Nat
  BY TclkAssumption DEF TclkTypeOK, DealsFit
<1>2. DOMAIN accepts \subseteq Contracts
  BY <1>1 DEF Contracts
<1>3. pc = "work" => Len(accepts) \in DOMAIN accepts
  <2>1. pc = "work" => accepts # <<>>
    BY DEF DealsFit
  <2> QED
    BY <1>1, <2>1
<1>4. ASSUME pc \in {"reveal", "claim"}
      PROVE  /\ deal.answer => deal.contract \in DOMAIN accepts /\ deal.contract \in Contracts
             /\ deal.contract # FOREIGN => deal.contract \in Contracts
             /\ deal.offer \in Offers /\ room[at].contract \in Rooms
  <2>1. at <= last /\ room[at].kind = "lock" /\ deal \in Deal
    BY <1>4 DEF PositionInv
  <2>2. room[at].contract \in Rooms
    BY <1>4, <2>1, InHand, FrameFields
  <2>3. deal.contract \in Rooms /\ deal.offer \in Offers
    BY <2>1, Zenon DEF Deal
  <2>4. deal.answer => deal.contract \in DOMAIN accepts
    BY <1>4 DEF DealsFit
  <2> QED
    BY <1>2, <2>2, <2>3, <2>4 DEF Rooms
<1> QED
  BY <1>2, <1>3, <1>4

\* The counters stay within their bounds.
LEMMA GhostStep ==
  ASSUME TclkTypeOK, [Next]_vars
  PROVE  failures' \in 0 .. MaxFailures /\ crashes' \in 0 .. MaxCrashes /\ disturbed' \in BOOLEAN
<1>1. /\ failures \in 0 .. MaxFailures /\ crashes \in 0 .. MaxCrashes /\ disturbed \in BOOLEAN
      /\ MaxFailures \in Nat /\ MaxCrashes \in Nat
  BY TclkAssumption DEF TclkTypeOK
<1>2. /\ failures' = failures \/ (failures < MaxFailures /\ failures' = failures + 1)
      /\ crashes' = crashes \/ (crashes < MaxCrashes /\ crashes' = crashes + 1)
  <2>1. CASE Poll \/ Chat \/ Persist \/ ClaimRadar \/ EndBatch \/ OnOffer \/ SetAuditRef \/ AcceptDropped
    BY <2>1 DEF Poll, Chat, Persist, ClaimRadar, EndBatch, OnOffer, SetAuditRef, AcceptDropped, ghosts
  <2>2. CASE AcceptPosted \/ Work \/ OnLock \/ RecoverPending \/ Ship \/ Reveal
    BY <2>2 DEF AcceptPosted, Work, OnLock, RecoverPending, Ship, Reveal, PostDelivery, ghosts
  <2>3. CASE Publish \/ TtlPasses \/ HourPasses \/ Restart \/ UNCHANGED vars
    BY <2>3 DEF Publish, TtlPasses, HourPasses, Restart, vars, ghosts
  <2> QED
    BY <2>1, <2>2, <2>3 DEF Next, Step
<1>3. disturbed' = disturbed \/ disturbed' = TRUE
      \/ (\E c \in {db.cursor, 0} : disturbed' = (disturbed \/ c < db.cursor))
      \/ disturbed' = (disturbed \/ pc # "idle")
  <2>1. CASE Poll \/ Chat \/ Persist \/ ClaimRadar \/ EndBatch \/ OnOffer \/ SetAuditRef \/ AcceptDropped
    BY <2>1 DEF Poll, Chat, Persist, ClaimRadar, EndBatch, OnOffer, SetAuditRef, AcceptDropped, ghosts
  <2>2. CASE AcceptPosted \/ Work \/ OnLock \/ RecoverPending \/ Ship \/ Reveal
    BY <2>2 DEF AcceptPosted, Work, OnLock, RecoverPending, Ship, Reveal, ghosts
  <2>3. CASE Publish \/ TtlPasses \/ HourPasses \/ Restart \/ UNCHANGED vars
    BY <2>3 DEF Publish, TtlPasses, HourPasses, Restart, vars, ghosts
  <2> QED
    BY <2>1, <2>2, <2>3 DEF Next, Step
<1>4. disturbed' \in BOOLEAN
  BY <1>1, <1>3
<1>5. failures' \in 0 .. MaxFailures /\ crashes' \in 0 .. MaxCrashes
  BY <1>1, <1>2
<1> QED
  BY <1>4, <1>5

LEMMA TypeStep ==
  ASSUME TclkTypeOK, PositionInv, DealsFit, CapsInv, [Next]_vars
  PROVE  TclkTypeOK'
<1>1. room' \in Seq(Frames) /\ Len(room') <= MaxFrames
  BY RoomIsKept
<1>2. db' \in Database /\ tx' \in Database /\ pend' \subseteq Seqs /\ poisoned' \in BOOLEAN
  BY SessionStep DEF Follows
<1>3. /\ pc' \in {"idle", "frame", "offer", "ref", "accept", "work", "lock", "reveal", "claim"}
      /\ deal' \in Deal \cup {<<>>}
  BY PositionStep
<1>4. mem' \in Memory /\ Cardinality(mem'.active) <= MaxActive
  BY MemoryStep, CapsStep
<1>5. accepts' \in Seq(Offers)
  BY AcceptsAreKept
<1>6. unsure' \subseteq Contracts
  <2>1. unsure \subseteq Contracts
    BY DEF TclkTypeOK
  <2>2. \/ unsure' = unsure
        \/ pc = "work" /\ unsure' = unsure \cup {Len(accepts)}
        \/ pc = "reveal" /\ deal.answer /\ unsure' = unsure \cup {deal.contract}
    BY ShippedStep DEF Posted, Work, Ship
  <2> QED
    BY <2>1, <2>2, InHandContracts
<1>7. reveals' \subseteq Rooms \X Offers
  <2>1. reveals \subseteq Rooms \X Offers
    BY DEF TclkTypeOK
  <2>2. pc = "claim" => room[at].contract \in Rooms /\ deal.offer \in Offers
    BY InHandContracts
  <2> QED
    BY <2>1, <2>2, RevealsStep
<1>8. failures' \in 0 .. MaxFailures /\ crashes' \in 0 .. MaxCrashes /\ disturbed' \in BOOLEAN
  BY GhostStep
<1> QED
  BY <1>1, <1>2, <1>3, <1>4, <1>5, <1>6, <1>7, <1>8 DEF TclkTypeOK
-----------------------------------------------------------------------------
(***************************************************************************)
(* The work is delivered at most once.                                     *)
(***************************************************************************)

LEMMA DeliveredIsRemembered ==
  ASSUME TclkTypeOK, [Next]_vars
  PROVE  mem.delivered \subseteq mem'.delivered \/ Restart
<1>0. mem \in Memory
  BY DEF TclkTypeOK
<1>1. CASE Publish \/ Poll \/ Chat \/ EndBatch \/ SetAuditRef \/ AcceptDropped \/ RecoverPending \/ Reveal
           \/ UNCHANGED vars
  <2>1. mem' = mem
    BY <1>1 DEF Publish, Poll, Chat, EndBatch, SetAuditRef, AcceptDropped, RecoverPending, Reveal, vars
  <2> QED
    BY <2>1
<1>2. CASE TtlPasses \/ HourPasses
  BY <1>0, <1>2 DEF TtlPasses, HourPasses, Memory
<1>3. CASE Persist \/ ClaimRadar
  BY <1>0, <1>3 DEF Persist, ClaimRadar, Memory
<1>4. CASE OnOffer \/ AcceptPosted
  BY <1>0, <1>4 DEF OnOffer, AcceptPosted, Memory
<1>5. CASE Work
  BY <1>0, <1>5 DEF Work, Memory
<1>6. CASE OnLock \/ Ship
  BY <1>0, <1>6 DEF OnLock, Ship, Memory
<1> QED
  BY <1>1, <1>2, <1>3, <1>4, <1>5, <1>6 DEF Next, Step

\* An answer that is kept was kept before, or its contract is being worked on.
LEMMA AnswerStep ==
  ASSUME TclkTypeOK, PositionInv, DealsFit, CapsInv, [Next]_vars, ~Restart, NEW c \in Contracts,
         AnswerIsKept(c)'
  PROVE  AnswerIsKept(c) \/ (pc = "work" /\ c = Len(accepts))
<1>1. mem.active \subseteq ActiveDeal /\ ActiveStep
  BY MemoryFields, MemoryStep DEF TclkTypeOK
<1>2. ASSUME NEW d \in mem'.active, d.contract = c, d.answer
      PROVE  AnswerIsKept(c) \/ (pc = "work" /\ c = Len(accepts))
  <2>1. CASE \E e \in mem.active : ComesFrom(d, e)
    BY <1>2, <2>1 DEF ComesFrom, AnswerIsKept
  <2>2. CASE AcceptPosted /\ d = Accepted
    BY <1>2, <2>2, AcceptedIsDeal
  <2> QED
    BY <1>1, <1>2, <2>1, <2>2, ActiveFollows
<1>3. CASE pc' = "reveal" /\ deal'.contract = c /\ deal'.answer
  <2>1. LockedDeal \/ (pc = "reveal" /\ deal' = deal)
    BY <1>3, MoveStep DEF Moves, NextFrame
  <2> QED
    BY <1>3, <2>1 DEF LockedDeal, AnswerIsKept
<1> QED
  BY <1>2, <1>3 DEF AnswerIsKept

LEMMA DeliveriesStep ==
  ASSUME TclkTypeOK, PositionInv, DealsFit, CapsInv, DeliveriesInv, [Next]_vars
  PROVE  DeliveriesInv'
<1>1. /\ shipped \in [Contracts -> Nat] /\ unsure \subseteq Contracts
      /\ \A c \in Contracts : c > Len(accepts) => shipped[c] = 0
      /\ pc = "work" => shipped[Len(accepts)] = 0
      /\ \A c \in Contracts \ unsure :
           shipped[c] <= 1 /\ (c \notin mem.delivered /\ AnswerIsKept(c) => shipped[c] = 0)
  BY DEF DeliveriesInv, TclkTypeOK
<1>2. /\ Len(accepts) \in Nat /\ Len(accepts') \in Nat /\ Len(accepts) <= Len(accepts')
      /\ \A c \in DOMAIN accepts : c <= Len(accepts) /\ c \in Nat
      /\ \A c \in Contracts : c \in Nat
  BY AcceptsAreKept, TclkAssumption DEF Contracts
<1>3. ASSUME NEW p \in DOMAIN accepts, Posted(p), p \in Contracts
      PROVE  /\ shipped' \in [Contracts -> Nat] /\ unsure \subseteq unsure'
             /\ \A c \in Contracts : c > Len(accepts') => shipped'[c] = 0
             /\ \A c \in Contracts \ {p} : shipped'[c] = shipped[c] /\ (c \in unsure' <=> c \in unsure)
             /\ shipped'[p] \in {shipped[p], shipped[p] + 1}
  BY <1>1, <1>2, <1>3 DEF Posted
<1>4. \/ UNCHANGED <<shipped, unsure>>
      \/ Work /\ Posted(Len(accepts)) /\ Len(accepts) \in DOMAIN accepts /\ Len(accepts) \in Contracts
      \/ Ship /\ Posted(deal.contract) /\ deal.contract \in DOMAIN accepts /\ deal.contract \in Contracts
  BY ShippedStep, InHandContracts DEF Work, Ship
<1>5. /\ shipped' \in [Contracts -> Nat] /\ unsure \subseteq unsure'
      /\ \A c \in Contracts : c > Len(accepts') => shipped'[c] = 0
  <2>1. CASE UNCHANGED <<shipped, unsure>>
    BY <1>1, <1>2, <2>1
  <2> QED
    BY <1>3, <1>4, <2>1
<1>6. ASSUME pc' = "work"
      PROVE  shipped'[Len(accepts')] = 0
  <2>1. UNCHANGED <<shipped, unsure>>
    BY <1>4, <1>6 DEF Work, Ship, NextFrame, Stay
  <2>2. CASE AcceptPosted
    <3>1. Len(accepts') = Len(accepts) + 1
      BY <2>2, AcceptedIsDeal
    <3>2. Len(accepts') \in Contracts
      BY <1>2, <3>1, AcceptsAreKept DEF Contracts
    <3> QED
      BY <1>1, <1>2, <2>1, <3>1, <3>2
  <2>3. CASE ~AcceptPosted
    <3>1. pc = "work"
      BY <1>6, <2>3, MoveStep DEF Moves, NextFrame
    <3>2. accepts' = accepts
      BY <3>1, AcceptsStep DEF AcceptAdded
    <3> QED
      BY <1>1, <2>1, <3>1, <3>2
  <2> QED
    BY <2>2, <2>3
<1>7. ASSUME NEW c \in Contracts, c \notin unsure'
      PROVE  shipped'[c] <= 1 /\ (c \notin mem'.delivered /\ AnswerIsKept(c)' => shipped'[c] = 0)
  <2>0. c \notin unsure /\ shipped[c] <= 1 /\ (c \notin mem.delivered /\ AnswerIsKept(c) => shipped[c] = 0)
        /\ shipped[c] \in Nat
    BY <1>1, <1>5, <1>7
  <2>1. CASE Restart
    <3>1. UNCHANGED <<shipped, unsure>> /\ mem' = Blank /\ pc' = "idle"
      BY <2>1 DEF Restart, market
    <3>2. mem'.active = {}
      BY <3>1 DEF Blank
    <3>3. ~AnswerIsKept(c)'
      BY <3>1, <3>2 DEF AnswerIsKept
    <3> QED
      BY <2>0, <3>1, <3>3
  <2>2. CASE ~Restart /\ UNCHANGED <<shipped, unsure>>
    <3>1. mem.delivered \subseteq mem'.delivered
      BY <2>2, DeliveredIsRemembered
    <3>2. AnswerIsKept(c)' => AnswerIsKept(c) \/ shipped[c] = 0
      BY <1>1, <2>2, AnswerStep
    <3> QED
      BY <2>0, <2>2, <3>1, <3>2
  <2>3. ASSUME NEW p \in DOMAIN accepts, p \in Contracts, Posted(p), c # p, ~Restart,
               pc = "work" => p = Len(accepts)
        PROVE  shipped'[c] <= 1 /\ (c \notin mem'.delivered /\ AnswerIsKept(c)' => shipped'[c] = 0)
    <3>1. mem.delivered \subseteq mem'.delivered
      BY <2>3, DeliveredIsRemembered
    <3>2. AnswerIsKept(c)' => AnswerIsKept(c)
      BY <2>3, AnswerStep
    <3>3. shipped'[c] = shipped[c]
      BY <1>3, <2>3
    <3> QED
      BY <2>0, <3>1, <3>2, <3>3
  <2>4. CASE Work /\ c = Len(accepts)
    <3>1. pc = "work" /\ shipped[c] = 0
      BY <1>1, <2>4 DEF Work
    <3>2. PICK outcome \in {"delivered", "error", "no_answer"} :
            /\ IF outcome = "no_answer" THEN UNCHANGED <<shipped, unsure, failures>> ELSE PostDelivery(c, outcome)
            /\ outcome = "delivered" => mem'.delivered = mem.delivered \cup {c}
      <4>1. mem \in Memory
        BY DEF TclkTypeOK
      <4> QED
        BY <2>4, <4>1 DEF Work, Memory
    <3>3. CASE shipped' = shipped
      BY <3>1, <3>3
    <3>4. CASE outcome = "delivered" /\ shipped' = [shipped EXCEPT ![c] = @ + 1]
      <4>1. shipped'[c] = 1
        BY <1>1, <3>1, <3>4
      <4>2. c \in mem'.delivered
        BY <3>2, <3>4
      <4> QED
        BY <4>1, <4>2
    <3>5. unsure' # unsure \cup {c}
      BY <1>7
    <3> QED
      BY <3>2, <3>3, <3>4, <3>5 DEF PostDelivery
  <2>5. CASE Ship /\ c = deal.contract /\ Posted(c)
    <3>1. pc = "reveal" /\ ~Restart
      BY <2>5 DEF Ship, Restart, Stay
    <3>2. CASE UNCHANGED <<shipped, unsure>>
      BY <2>2, <3>1, <3>2
    <3>3. CASE ~UNCHANGED <<shipped, unsure>>
      <4>1. deal.answer /\ ~AlreadyDelivered(c)
        BY <2>5, <3>3 DEF Ship
      <4>2. PICK outcome \in {"delivered", "error"} :
              /\ PostDelivery(c, outcome)
              /\ mem' = IF outcome = "delivered" THEN [mem EXCEPT !.delivered = @ \cup {c}] ELSE mem
        BY <2>5, <4>1 DEF Ship
      <4>3. shipped[c] = 0
        BY <2>0, <2>5, <3>1, <4>1 DEF AnswerIsKept, AlreadyDelivered
      <4>4. CASE outcome = "delivered" /\ shipped' = [shipped EXCEPT ![c] = @ + 1]
        <5>1. shipped'[c] = 1
          BY <1>1, <4>3, <4>4
        <5>2. c \in mem'.delivered
          <6>1. mem \in Memory
            BY DEF TclkTypeOK
          <6> QED
            BY <4>2, <4>4, <6>1 DEF Memory
        <5> QED
          BY <5>1, <5>2
      <4>5. unsure' # unsure \cup {c}
        BY <1>7
      <4> QED
        BY <3>3, <4>2, <4>4, <4>5 DEF PostDelivery
    <3> QED
      BY <3>2, <3>3
  <2>6. Work => pc = "work" /\ ~Restart
    BY DEF Work, Restart, NextFrame
  <2>7. Ship => pc = "reveal" /\ ~Restart
    BY DEF Ship, Restart, Stay
  <2> QED
    BY <1>4, <2>1, <2>2, <2>3, <2>4, <2>5, <2>6, <2>7
<1> QED
  BY <1>5, <1>6, <1>7 DEF DeliveriesInv
-----------------------------------------------------------------------------
(***************************************************************************)
(* An offer is accepted once per life of the process.                      *)
(***************************************************************************)

LEMMA CrashStep ==
  ASSUME [Next]_vars
  PROVE  crashes' = crashes \/ (Restart /\ crashes' = crashes + 1)
<1>1. CASE Restart
  BY <1>1 DEF Restart
<1>2. CASE Step \/ Publish \/ TtlPasses \/ HourPasses \/ UNCHANGED vars
  BY <1>2 DEF Step, Poll, Chat, Persist, ClaimRadar, EndBatch, OnOffer, SetAuditRef, AcceptDropped,
     AcceptPosted, Work, OnLock, RecoverPending, Ship, Reveal, Publish, TtlPasses, HourPasses, vars, ghosts
<1> QED
  BY <1>1, <1>2 DEF Next

\* An accept that becomes due is one of an offer the process has not seen.
LEMMA DueStep ==
  ASSUME TclkTypeOK, PositionInv, DealsFit, [Next]_vars, NEW o \in Offers, AcceptIsDue(o)', ~AcceptIsDue(o)
  PROVE  o \notin mem.seen /\ mem'.seen = mem.seen \cup {o} /\ pc = "offer"
<1>1. pc' \in {"ref", "accept"} /\ room'[at'].offer = o
  BY DEF AcceptIsDue
<1>2. pc \in {"offer", "ref", "accept"} /\ at' = at
  BY <1>1, MoveStep DEF Moves, NextFrame, batch, PositionInv
<1>3. room'[at] = room[at]
  <2>1. pc # "idle" /\ at <= last
    BY <1>2 DEF PositionInv
  <2>2. at \in 1 .. Len(room)
    BY <2>1, InHand
  <2> QED
    BY <2>2, RoomIsKept
<1>4. pc = "offer" /\ room[at].offer = o
  BY <1>1, <1>2, <1>3 DEF AcceptIsDue
<1>5. OnOffer
  BY <1>1, <1>4 DEF Next, Step, Poll, Chat, Persist, ClaimRadar, EndBatch, SetAuditRef, AcceptDropped,
     AcceptPosted, Work, OnLock, RecoverPending, Ship, Reveal, Publish, TtlPasses, HourPasses, Restart, vars
<1>6. o \notin mem.seen /\ mem' = [mem EXCEPT !.active = Pruned, !.seen = @ \cup {o}]
  BY <1>1, <1>4, <1>5 DEF OnOffer, NextFrame
<1>7. mem \in Memory
  BY DEF TclkTypeOK
<1>8. mem'.seen = mem.seen \cup {o}
  BY <1>6, <1>7 DEF Memory
<1> QED
  BY <1>4, <1>6, <1>8

LEMMA AnswersStep ==
  ASSUME TclkTypeOK, PositionInv, DealsFit, [Next]_vars, NEW o \in Offers
  PROVE  /\ IsFiniteSet(AnswersTo(o)) /\ Cardinality(AnswersTo(o)) \in Nat
         /\ \/ AnswersTo(o)' = AnswersTo(o)
            \/ /\ Cardinality(AnswersTo(o)') <= Cardinality(AnswersTo(o)) + 1
               /\ Cardinality(AnswersTo(o)') \in Nat
               /\ AcceptIsDue(o) /\ (AcceptDropped \/ AcceptPosted)
<1>1. accepts \in Seq(Offers) /\ DOMAIN accepts = 1 .. Len(accepts) /\ Len(accepts) \in Nat
  BY DEF TclkTypeOK
<1>2. IsFiniteSet(AnswersTo(o))
  <2>1. IsFiniteSet(1 .. Len(accepts))
    BY <1>1, FS_Interval
  <2>2. AnswersTo(o) \in SUBSET (1 .. Len(accepts))
    BY <1>1 DEF AnswersTo
  <2> QED
    BY <2>1, <2>2, FS_Subset
<1>3. Cardinality(AnswersTo(o)) \in Nat
  BY <1>2, FS_CardinalityType
<1>4. CASE accepts' = accepts
  BY <1>2, <1>3, <1>4 DEF AnswersTo
<1>5. CASE AcceptAdded /\ (AcceptDropped \/ AcceptPosted)
  <2>1. /\ \A c \in 1 .. Len(accepts) : accepts'[c] = accepts[c]
        /\ DOMAIN accepts' = 1 .. (Len(accepts) + 1) /\ accepts'[Len(accepts) + 1] = room[at].offer
    BY <1>1, <1>5 DEF AcceptAdded
  <2>2. CASE room[at].offer # o
    <3>1. AnswersTo(o)' = AnswersTo(o)
      BY <1>1, <2>1, <2>2 DEF AnswersTo
    <3> QED
      BY <1>2, <1>3, <3>1
  <2>3. CASE room[at].offer = o
    <3>1. AnswersTo(o)' = AnswersTo(o) \cup {Len(accepts) + 1}
      BY <1>1, <2>1, <2>3 DEF AnswersTo
    <3>2. Cardinality(AnswersTo(o) \cup {Len(accepts) + 1}) \in {Cardinality(AnswersTo(o)), Cardinality(AnswersTo(o)) + 1}
      BY <1>2, FS_AddElement
    <3>3. AcceptIsDue(o)
      BY <1>5, <2>3 DEF AcceptIsDue, AcceptAdded
    <3> QED
      BY <1>2, <1>3, <1>5, <3>1, <3>2, <3>3
  <2> QED
    BY <2>2, <2>3
<1> QED
  BY <1>4, <1>5, AcceptsStep

LEMMA SeenIsKept ==
  ASSUME TclkTypeOK, PositionInv, DealsFit, CapsInv, [Next]_vars, ~Restart
  PROVE  mem'.seen = mem.seen \/ (pc = "offer" /\ mem'.seen = mem.seen \cup {room[at].offer} /\ pc' = "ref")
  BY MemoryStep DEF SeenStep

LEMMA AcceptsInvStep ==
  ASSUME TclkTypeOK, PositionInv, DealsFit, CapsInv, AcceptsInv, [Next]_vars
  PROVE  AcceptsInv'
<1>0. crashes \in Nat
  BY TclkAssumption DEF TclkTypeOK
<1> SUFFICES ASSUME NEW o \in Offers
             PROVE  /\ AcceptIsDue(o)' => o \in mem'.seen
                    /\ IF o \in mem'.seen /\ ~AcceptIsDue(o)'
                       THEN Cardinality(AnswersTo(o)') <= crashes' + 1
                       ELSE Cardinality(AnswersTo(o)') <= crashes'
  BY DEF AcceptsInv
<1> DEFINE n == Cardinality(AnswersTo(o))
           m == Cardinality(AnswersTo(o)')
<1>1. /\ AcceptIsDue(o) => o \in mem.seen /\ n <= crashes
      /\ o \notin mem.seen => n <= crashes
      /\ n <= crashes + 1
  <2>1. /\ AcceptIsDue(o) => o \in mem.seen
        /\ IF o \in mem.seen /\ ~AcceptIsDue(o) THEN n <= crashes + 1 ELSE n <= crashes
    BY DEF AcceptsInv
  <2>2. n \in Nat
    BY AnswersStep
  <2> HIDE DEF n
  <2> QED
    BY <1>0, <2>1, <2>2
<1>2. n \in Nat
  BY AnswersStep
<1>3. m = n \/ (m \in Nat /\ m <= n + 1 /\ AcceptIsDue(o) /\ (AcceptDropped \/ AcceptPosted))
  BY AnswersStep
<1> HIDE DEF n, m
<1>4. CASE m # n
  <2>1. AcceptIsDue(o) /\ (AcceptDropped \/ AcceptPosted) /\ m \in Nat /\ m <= n + 1
    BY <1>3, <1>4
  <2>2. pc = "accept" /\ pc' \in {"frame", "work"} /\ crashes' = crashes /\ ~Restart
    BY <2>1 DEF AcceptDropped, AcceptPosted, NextFrame, Stay, ghosts, Restart
  <2>3. ~AcceptIsDue(o)'
    BY <2>2 DEF AcceptIsDue
  <2>4. o \in mem'.seen
    BY <1>1, <2>1, <2>2, SeenIsKept
  <2>5. m <= crashes' + 1
    BY <1>0, <1>1, <1>2, <2>1, <2>2
  <2> QED
    BY <2>3, <2>4, <2>5 DEF m
<1>5. CASE m = n /\ Restart
  <2>1. ~AcceptIsDue(o)' /\ mem'.seen = {} /\ crashes' = crashes + 1
    BY <1>5 DEF Restart, Blank, AcceptIsDue
  <2>2. m <= crashes'
    BY <1>0, <1>1, <1>5, <2>1
  <2> QED
    BY <2>1, <2>2 DEF m
<1>6. CASE m = n /\ ~Restart /\ AcceptIsDue(o)' /\ ~AcceptIsDue(o)
  <2>1. o \notin mem.seen /\ mem'.seen = mem.seen \cup {o} /\ crashes' = crashes
    BY <1>6, DueStep, CrashStep
  <2>2. m <= crashes'
    BY <1>1, <1>6, <2>1
  <2> QED
    BY <1>6, <2>1, <2>2 DEF m
<1>7. CASE m = n /\ ~Restart /\ AcceptIsDue(o)' /\ AcceptIsDue(o)
  <2>1. o \in mem'.seen /\ crashes' = crashes
    BY <1>1, <1>7, SeenIsKept, CrashStep
  <2> QED
    BY <1>1, <1>7, <2>1 DEF m
<1>8. CASE m = n /\ ~Restart /\ ~AcceptIsDue(o)'
  <2>1. crashes' = crashes
    BY <1>8, CrashStep
  <2>2. o \notin mem'.seen => o \notin mem.seen
    BY <1>8, SeenIsKept
  <2>3. m <= crashes' + 1 /\ (o \notin mem'.seen => m <= crashes')
    BY <1>1, <1>8, <2>1, <2>2
  <2> QED
    BY <1>8, <2>3 DEF m
<1> QED
  BY <1>4, <1>5, <1>6, <1>7, <1>8
-----------------------------------------------------------------------------
(***************************************************************************)
(* The outcomes are true.                                                  *)
(***************************************************************************)

LEMMA ShippedGrows ==
  ASSUME TclkTypeOK, PositionInv, DealsFit, DeliveriesInv, [Next]_vars
  PROVE  /\ \A c \in Contracts : shipped[c] > 0 => shipped'[c] > 0
         /\ \A c \in Contracts : shipped' = [shipped EXCEPT ![c] = @ + 1] => shipped'[c] > 0
<1>1. shipped \in [Contracts -> Nat]
  BY DEF DeliveriesInv
<1>2. ASSUME NEW c \in Contracts, Posted(c)
      PROVE  \A d \in Contracts : shipped[d] > 0 => shipped'[d] > 0
  BY <1>1, <1>2 DEF Posted
<1>3. \A c \in Contracts : shipped[c] > 0 => shipped'[c] > 0
  <2>1. \/ UNCHANGED shipped
        \/ Posted(Len(accepts)) /\ Len(accepts) \in Contracts
        \/ Posted(deal.contract) /\ deal.contract \in Contracts
    BY ShippedStep, InHandContracts DEF Work, Ship
  <2>2. CASE UNCHANGED shipped
    BY <2>2
  <2>3. CASE Posted(Len(accepts)) /\ Len(accepts) \in Contracts
    BY <1>2, <2>3
  <2>4. CASE Posted(deal.contract) /\ deal.contract \in Contracts
    BY <1>2, <2>4
  <2> QED
    BY <2>1, <2>2, <2>3, <2>4
<1>4. ASSUME NEW c \in Contracts, shipped' = [shipped EXCEPT ![c] = @ + 1]
      PROVE  shipped'[c] > 0
  BY <1>1, <1>4
<1> QED
  BY <1>3, <1>4

LEMMA RowsAreTrue ==
  ASSUME TclkTypeOK, PositionInv, DealsFit, DeliveriesInv, TruthInv, [Next]_vars,
         NEW rows \in [Seqs -> AuditRow], RowsFollow(rows), NEW s \in Seqs
  PROVE  /\ rows[s].outcome = "claimed" =>
              \E r \in reveals' : r[2] = room'[s].offer \/ r[1] = rows[s].contract
         /\ rows[s].outcome = "delivered" => rows[s].contract \in Contracts /\ shipped'[rows[s].contract] > 0
<1>1. RowFollows(s, rows[s])
  BY RowStep
<1>2. \A i \in DOMAIN room : i \in DOMAIN room' /\ room'[i] = room[i]
  BY RoomIsKept
<1>3. \A c \in Contracts : shipped[c] > 0 => shipped'[c] > 0
  BY ShippedGrows
<1>4. reveals \subseteq reveals'
  BY RevealsStep
<1>5. ASSUME NEW row, row \in {db.audits[s], tx.audits[s]}
      PROVE  /\ row.outcome = "claimed" =>
                  \E r \in reveals' : r[2] = room'[s].offer \/ r[1] = row.contract
             /\ row.outcome = "delivered" => row.contract \in Contracts /\ shipped'[row.contract] > 0
  <2>1. /\ row.outcome = "claimed" => \E r \in reveals : r[2] = room[s].offer \/ r[1] = row.contract
        /\ row.outcome = "delivered" => row.contract \in Contracts /\ shipped[row.contract] > 0
    BY <1>5 DEF TruthInv, ClaimedFor
  <2>2. row.outcome = "claimed" => room'[s] = room[s]
    <3>1. row.outcome = "claimed" => row # NoRow
      BY RowTypes
    <3> QED
      BY <1>2, <1>5, <3>1 DEF DealsFit, RowsFit
  <2> QED
    BY <1>3, <1>4, <2>1, <2>2
<1>6. CASE rows[s] \in {db.audits[s], tx.audits[s]}
  BY <1>5, <1>6
<1>7. CASE rows[s] = EmptyRow
  BY <1>7, RowTypes
<1>8. CASE rows[s].contract = tx.audits[s].contract /\ rows[s].outcome = tx.audits[s].outcome
  <2>1. tx.audits[s] \in {db.audits[s], tx.audits[s]}
    OBVIOUS
  <2>2. /\ tx.audits[s].outcome = "claimed" =>
             \E r \in reveals' : r[2] = room'[s].offer \/ r[1] = tx.audits[s].contract
        /\ tx.audits[s].outcome = "delivered" => tx.audits[s].contract \in Contracts /\ shipped'[tx.audits[s].contract] > 0
    BY <1>5, <2>1
  <2> QED
    BY <1>8, <2>2
<1>9. CASE /\ pc = "work" /\ rows[s].contract = Len(accepts) /\ rows[s].outcome \in {"delivered", "no_answer", "error"}
           /\ rows[s].outcome = "delivered" => shipped' = [shipped EXCEPT ![Len(accepts)] = @ + 1]
  <2>1. Len(accepts) \in Contracts
    BY <1>9, InHandContracts
  <2>2. shipped' = [shipped EXCEPT ![Len(accepts)] = @ + 1] => shipped'[Len(accepts)] > 0
    BY <2>1, ShippedGrows
  <2> QED
    BY <1>9, <2>1, <2>2
<1>10. CASE /\ pc = "claim" /\ tx.audits[s] # NoRow /\ tx.audits[s].contract = deal.contract
            /\ rows[s].contract = deal.contract /\ deal.contract # FOREIGN
            /\ rows[s].outcome = "claimed" /\ reveals' = reveals \cup {<<room[at].contract, deal.offer>>}
  <2>1. s \in DOMAIN room /\ accepts[deal.contract] = room[s].offer
    BY <1>10 DEF DealsFit, RowsFit, FOREIGN
  <2>2. \/ accepts[deal.contract] = deal.offer
        \/ deal.contract = room[at].contract
    BY <1>10 DEF DealsFit
  <2> DEFINE r == <<room[at].contract, deal.offer>>
  <2>3. r \in reveals' /\ r[1] = room[at].contract /\ r[2] = deal.offer
    BY <1>10
  <2>4. r[2] = room'[s].offer \/ r[1] = rows[s].contract
    BY <1>2, <1>10, <2>1, <2>2, <2>3
  <2> QED
    BY <1>10, <2>3, <2>4
<1> QED
  BY <1>1, <1>6, <1>7, <1>8, <1>9, <1>10 DEF RowFollows

LEMMA TruthStep ==
  ASSUME TclkTypeOK, PositionInv, DealsFit, DeliveriesInv, TruthInv, [Next]_vars
  PROVE  TruthInv'
<1>1. Follows(db') /\ Follows(tx')
  BY SessionStep
<1>2. /\ db'.audits \in [Seqs -> AuditRow] /\ RowsFollow(db'.audits)
      /\ tx'.audits \in [Seqs -> AuditRow] /\ RowsFollow(tx'.audits)
  BY <1>1 DEF Follows, Database
<1>3. \A s \in Seqs :
        /\ db'.audits[s].outcome = "claimed" =>
             \E r \in reveals' : r[2] = room'[s].offer \/ r[1] = db'.audits[s].contract
        /\ db'.audits[s].outcome = "delivered" =>
             db'.audits[s].contract \in Contracts /\ shipped'[db'.audits[s].contract] > 0
  BY <1>2, RowsAreTrue
<1>4. \A s \in Seqs :
        /\ tx'.audits[s].outcome = "claimed" =>
             \E r \in reveals' : r[2] = room'[s].offer \/ r[1] = tx'.audits[s].contract
        /\ tx'.audits[s].outcome = "delivered" =>
             tx'.audits[s].contract \in Contracts /\ shipped'[tx'.audits[s].contract] > 0
  BY <1>2, RowsAreTrue
<1> QED
  BY <1>3, <1>4 DEF TruthInv, ClaimedFor
-----------------------------------------------------------------------------
(***************************************************************************)
(* Undisturbed, the trail is complete.                                     *)
(***************************************************************************)

LEMMA DisturbedStep ==
  ASSUME [Next]_vars
  PROVE  \/ disturbed' = disturbed /\ ~Restart
         \/ disturbed' = TRUE
         \/ Poll /\ disturbed' = (disturbed \/ base' < db.cursor)
         \/ Restart /\ disturbed' = (disturbed \/ pc # "idle")
<1>1. CASE Restart
  BY <1>1 DEF Restart
<1>2. CASE ~Restart
  <2>1. CASE Poll
    BY <2>1 DEF Poll
  <2>2. CASE Chat \/ Persist \/ ClaimRadar \/ EndBatch \/ OnOffer \/ SetAuditRef \/ AcceptDropped
    BY <1>2, <2>2 DEF Chat, Persist, ClaimRadar, EndBatch, OnOffer, SetAuditRef, AcceptDropped, ghosts
  <2>3. CASE AcceptPosted \/ Work \/ OnLock \/ RecoverPending \/ Ship \/ Reveal
    BY <1>2, <2>3 DEF AcceptPosted, Work, OnLock, RecoverPending, Ship, Reveal, ghosts
  <2>4. CASE Publish \/ TtlPasses \/ HourPasses \/ UNCHANGED vars
    BY <1>2, <2>4 DEF Publish, TtlPasses, HourPasses, vars, ghosts
  <2> QED
    BY <1>2, <2>1, <2>2, <2>3, <2>4 DEF Next, Step
<1> QED
  BY <1>1, <1>2

LEMMA Undisturbed ==
  ASSUME TclkTypeOK, [Next]_vars, ~disturbed'
  PROVE  ~disturbed /\ (Restart => pc = "idle") /\ (Poll => ~(base' < db.cursor))
<1>1. disturbed \in BOOLEAN
  BY DEF TclkTypeOK
<1>2. Poll => disturbed' = (disturbed \/ base' < db.cursor)
  BY DEF Poll
<1>3. Restart => disturbed' = (disturbed \/ pc # "idle")
  BY DEF Restart
<1> QED
  BY <1>1, <1>2, <1>3, DisturbedStep, Zenon

\* No flush can fail after the step, and no row or frame was lost.
SessionKept ==
  /\ ~FlushFails'
  /\ tx'.frames \cup pend' = tx.frames \cup pend
  /\ tx'.cursor = tx.cursor
  /\ \A s \in Seqs : tx.audits[s] # NoRow => tx'.audits[s] # NoRow
  /\ db' = db \/ (db' = tx' /\ pend' = {})

LEMMA KeptByNothing ==
  ASSUME ~FlushFails, UNCHANGED session
  PROVE  SessionKept
  BY DEF SessionKept, FlushFails, session

LEMMA KeptByStatement ==
  ASSUME NEW t, t.frames = tx.frames \cup pend, t.cursor = tx.cursor,
         \A s \in Seqs : tx.audits[s] # NoRow => t.audits[s] # NoRow,
         Store(t) \/ Commit(t)
  PROVE  SessionKept /\ tx' = t
<1>1. tx' = t /\ pend' = {} /\ poisoned' = FALSE /\ (db' = db \/ db' = t)
  BY DEF Store, Commit
<1>2. ~FlushFails'
  BY <1>1 DEF FlushFails
<1>3. tx'.frames \cup pend' = tx.frames \cup pend
  BY <1>1
<1> QED
  BY <1>1, <1>2, <1>3 DEF SessionKept

\* The actions that work on the frame in hand lose nothing, and the rows they
\* promise are there.
OfFrameInHand == OnOffer \/ SetAuditRef \/ AcceptDropped \/ AcceptPosted \/ Work
                 \/ OnLock \/ RecoverPending \/ Ship \/ Reveal

LEMMA FrameInHandKeeps ==
  ASSUME TclkTypeOK, PositionInv, DealsFit, ~FlushFails, OfFrameInHand, ~disturbed',
         pc \in {"ref", "accept", "work"} => tx.audits[at] # NoRow
  PROVE  SessionKept /\ (pc \in {"offer", "ref", "accept", "work"} => tx'.audits[at] # NoRow)
<1>1. /\ Flushed \in Database /\ Flushed.audits = tx.audits
      /\ Flushed.cursor = tx.cursor /\ Flushed.frames = tx.frames \cup pend
  BY FlushedFields DEF TclkTypeOK
<1>2. /\ tx.audits \in [Seqs -> AuditRow] /\ \A s \in Seqs : tx.audits[s] \in AuditRow
  BY DEF TclkTypeOK, Database
<1>3. ASSUME Store(Flushed), pc \in {"ref", "accept", "work"} \/ pc \notin {"offer", "ref", "accept", "work"}
      PROVE  SessionKept /\ (pc \in {"offer", "ref", "accept", "work"} => tx'.audits[at] # NoRow)
  <2>1. SessionKept /\ tx' = Flushed
    BY <1>1, <1>3, KeptByStatement
  <2> QED
    BY <1>1, <1>3, <2>1
<1>4. ASSUME UNCHANGED session, pc # "offer"
      PROVE  SessionKept /\ (pc \in {"offer", "ref", "accept", "work"} => tx'.audits[at] # NoRow)
  BY <1>4, KeptByNothing DEF session
<1>5. ASSUME at \in Seqs, NEW row \in AuditRow, row # NoRow,
             NEW t, t \in Database, t.audits = Put(tx.audits, at, row), t.cursor = tx.cursor,
             t.frames = tx.frames \cup pend, Store(t) \/ Commit(t)
      PROVE  SessionKept /\ tx'.audits[at] # NoRow
  <2>1. \A s \in Seqs : t.audits[s] = IF s = at THEN row ELSE tx.audits[s]
    BY <1>2, <1>5 DEF Put
  <2>2. SessionKept /\ tx' = t
    BY <1>5, <2>1, KeptByStatement
  <2> QED
    BY <1>5, <2>1, <2>2
<1>6. CASE OnOffer
  <2>1. pc = "offer" /\ at \in Seqs
    BY <1>6, InHand DEF OnOffer, PositionInv
  <2>2. IF tx.audits[at] = NoRow THEN Store([Flushed EXCEPT !.audits[at] = EmptyRow]) ELSE Store(Flushed)
    BY <1>6 DEF OnOffer, RecordAudit
  <2>3. CASE tx.audits[at] # NoRow
    <3>1. SessionKept /\ tx' = Flushed
      BY <1>1, <2>2, <2>3, KeptByStatement
    <3> QED
      BY <1>1, <2>3, <3>1
  <2>4. CASE tx.audits[at] = NoRow
    <3> DEFINE t == [Flushed EXCEPT !.audits[at] = EmptyRow]
    <3>1. t \in Database /\ t.audits = Put(tx.audits, at, EmptyRow) /\ t.cursor = tx.cursor
          /\ t.frames = tx.frames \cup pend
      <4>1. EmptyRow \in AuditRow
        BY RowTypes
      <4>2. /\ t \in Database /\ t.audits = Put(Flushed.audits, at, EmptyRow)
            /\ t.cursor = Flushed.cursor /\ t.frames = Flushed.frames
        BY <1>1, <2>1, <4>1, RowSet
      <4> QED
        BY <1>1, <4>2
    <3>2. Store(t)
      BY <2>2, <2>4
    <3>3. EmptyRow \in AuditRow /\ EmptyRow # NoRow
      BY RowTypes
    <3> HIDE DEF t
    <3> QED
      BY <1>5, <2>1, <3>1, <3>2, <3>3
  <2> QED
    BY <2>3, <2>4
<1>7. CASE SetAuditRef
  <2>1. pc = "ref" /\ at \in Seqs
    BY <1>7, InHand DEF SetAuditRef, PositionInv
  <2> DEFINE row == [tx.audits[at] EXCEPT !.ref = TRUE]
             t == [Flushed EXCEPT !.audits[at].ref = TRUE]
  <2>2. disturbed' # TRUE
    OBVIOUS
  <2>3. Store(Flushed) \/ Commit(t)
    BY <1>7, <2>2 DEF SetAuditRef
  <2>4. t = [Flushed EXCEPT !.audits[at] = row]
    BY <1>1
  <2>5. row \in AuditRow /\ row # NoRow
    <3>1. tx.audits[at] \in AuditRow
      BY <1>2, <2>1
    <3>2. row \in AuditRow
      BY <3>1 DEF AuditRow
    <3>3. row.ref = TRUE /\ NoRow.ref = FALSE
      BY <3>1 DEF AuditRow, NoRow
    <3> QED
      BY <3>2, <3>3
  <2> HIDE DEF t, row
  <2>6. /\ t \in Database /\ t.audits = Put(tx.audits, at, row) /\ t.cursor = tx.cursor
        /\ t.frames = tx.frames \cup pend
    BY <1>1, <2>1, <2>4, <2>5, RowSet
  <2>7. CASE Commit(t)
    BY <1>5, <2>1, <2>5, <2>6, <2>7
  <2> QED
    BY <1>3, <2>1, <2>3, <2>7
<1>8. CASE AcceptDropped \/ AcceptPosted \/ OnLock \/ Ship
  BY <1>4, <1>8 DEF AcceptDropped, AcceptPosted, OnLock, Ship
<1>9. CASE Work
  <2>1. pc = "work" /\ at \in Seqs /\ tx.audits[at] # NoRow
    BY <1>9, InHand DEF Work, PositionInv
  <2>2. PICK answered \in BOOLEAN, outcome \in {"delivered", "no_answer", "error"} :
          Store([Flushed EXCEPT !.audits[at].contract = Len(accepts), !.audits[at].outcome = outcome,
                                !.audits[at].answer = answered])
    BY <1>9, <2>1 DEF Work, Answered
  <2> DEFINE t == Attached(Flushed, at, Len(accepts), outcome, answered)
             row == AttachedTo(tx.audits[at], Len(accepts), outcome, answered)
  <2>3. Len(accepts) \in 0 .. MaxAccepts
    BY TclkAssumption DEF DealsFit, TclkTypeOK
  <2>4. t \in Database
    BY <1>1, <2>1, <2>3, AttachedFields
  <2>5. t.cursor = Flushed.cursor
    BY <1>1, <2>1, <2>3, AttachedFields
  <2>6. t.frames = Flushed.frames
    BY <1>1, <2>1, <2>3, AttachedFields
  <2>7. t.audits = Put(Flushed.audits, at, AttachedTo(Flushed.audits[at], Len(accepts), outcome, answered))
    BY <1>1, <2>1, <2>3, AttachedFields
  <2>8. Store(t)
    BY <2>2 DEF Attached
  <2>9. row \in AuditRow /\ row # NoRow
    <3>1. tx.audits[at] \in AuditRow
      BY <1>2, <2>1
    <3>2. row \in AuditRow
      BY <2>3, <3>1 DEF AuditRow, AttachedTo
    <3>3. row.outcome = outcome /\ outcome # "none" /\ NoRow.outcome = "none"
      BY <3>1, RowTypes DEF AuditRow, AttachedTo
    <3> QED
      BY <3>2, <3>3
  <2>10. t.audits = Put(tx.audits, at, row)
    BY <1>1, <2>7
  <2> HIDE DEF t, row
  <2> QED
    BY <1>1, <1>5, <2>1, <2>4, <2>5, <2>6, <2>8, <2>9, <2>10
<1>10. CASE RecoverPending
  <2>1. pc = "lock" /\ (UNCHANGED session \/ Store(Flushed))
    BY <1>10 DEF RecoverPending
  <2> QED
    BY <1>3, <1>4, <2>1
<1>11. CASE Reveal
  <2>1. pc = "claim" /\ (UNCHANGED session \/ Store(MarkClaimed(Flushed)))
    BY <1>11 DEF Reveal
  <2>2. /\ MarkClaimed(Flushed).frames = Flushed.frames /\ MarkClaimed(Flushed).cursor = Flushed.cursor
        /\ MarkClaimed(Flushed).audits = ClaimedRows
    <3>1. MarkClaimed(Flushed) = [Flushed EXCEPT !.audits = ClaimedRows]
      BY <1>1 DEF MarkClaimed, ClaimedRows
    <3> QED
      BY <1>1, <3>1 DEF Database
  <2>3. ASSUME NEW s \in Seqs, tx.audits[s] # NoRow
        PROVE  ClaimedRows[s] # NoRow
    <3>1. tx.audits[s] \in AuditRow
      BY <1>2
    <3>2. [tx.audits[s] EXCEPT !.outcome = "claimed"].outcome = "claimed" /\ NoRow.outcome = "none"
      BY <3>1, RowTypes DEF AuditRow
    <3>3. [tx.audits[s] EXCEPT !.outcome = "claimed"] # NoRow
      BY <3>2
    <3> QED
      BY <2>3, <3>3 DEF ClaimedRows
  <2>4. CASE Store(MarkClaimed(Flushed))
    BY <1>1, <2>1, <2>2, <2>3, <2>4, KeptByStatement
  <2> QED
    BY <1>4, <2>1, <2>4
<1> QED
  BY <1>6, <1>7, <1>8, <1>9, <1>10, <1>11 DEF OfFrameInHand

\* The trail after the step, as far as the database and the session go.
CompleteNext ==
  \A s \in 1 .. db'.cursor :
    /\ room'[s].kind # "chat" => s \in db'.frames
    /\ room'[s].kind = "offer" => db'.audits[s] # NoRow

TrailedNext(n) ==
  \A s \in 1 .. n :
    /\ room'[s].kind # "chat" => s \in tx'.frames \cup pend'
    /\ room'[s].kind = "offer" => tx'.audits[s] # NoRow

\* In the middle of a batch, a session that loses nothing keeps the trail.
LEMMA TrailIsKept ==
  ASSUME TclkTypeOK, PositionInv, TrailInv, [Next]_vars, ~disturbed, pc # "idle", SessionKept
  PROVE  /\ CompleteNext /\ db'.cursor = base /\ tx'.cursor = base /\ TrailedNext(at - 1)
<1>1. /\ base \in Nat /\ at \in Nat /\ last \in Nat /\ base < at /\ at <= last + 1 /\ last <= Len(room)
      /\ Len(room) \in Nat /\ MaxFrames \in Nat /\ Len(room) <= MaxFrames
  BY RoomIsKept, TclkAssumption DEF PositionInv, TclkTypeOK
<1>2. /\ db.cursor = base /\ tx.cursor = base
      /\ \A s \in 1 .. at - 1 :
           /\ room[s].kind # "chat" => s \in tx.frames \cup pend
           /\ room[s].kind = "offer" => tx.audits[s] # NoRow
      /\ \A s \in 1 .. db.cursor :
           /\ room[s].kind # "chat" => s \in db.frames
           /\ room[s].kind = "offer" => db.audits[s] # NoRow
  BY DEF TrailInv, Trailed, TrailIsComplete
<1>3. ASSUME NEW s \in 1 .. at - 1
      PROVE  room'[s] = room[s] /\ s \in Seqs
  <2>1. s \in 1 .. Len(room) /\ s \in 1 .. MaxFrames
    BY <1>1
  <2> QED
    BY <2>1, RoomIsKept DEF Seqs
<1>4. /\ tx'.frames \cup pend' = tx.frames \cup pend /\ tx'.cursor = tx.cursor
      /\ \A s \in Seqs : tx.audits[s] # NoRow => tx'.audits[s] # NoRow
      /\ db' = db \/ (db' = tx' /\ pend' = {})
  BY DEF SessionKept
<1>5. TrailedNext(at - 1)
  BY <1>2, <1>3, <1>4 DEF TrailedNext
<1>6. db'.cursor = base /\ tx'.cursor = base
  BY <1>2, <1>4
<1>7. CompleteNext
  <2>1. \A s \in 1 .. base : s \in 1 .. at - 1
    BY <1>1
  <2>2. CASE db' = db
    BY <1>2, <1>3, <2>1, <2>2 DEF CompleteNext
  <2>3. CASE db' = tx' /\ pend' = {}
    BY <1>5, <1>6, <2>1, <2>3 DEF CompleteNext, TrailedNext
  <2> QED
    BY <1>4, <2>2, <2>3
<1> QED
  BY <1>5, <1>6, <1>7

\* What the frame in hand adds when the coroutine goes on to the next.
LEMMA TrailGoesOn ==
  ASSUME NEW n \in Nat, n > 0, TrailedNext(n - 1),
         room'[n].kind # "chat" => n \in tx'.frames \cup pend',
         room'[n].kind = "offer" => tx'.audits[n] # NoRow
  PROVE  TrailedNext(n)
<1>1. \A s \in 1 .. n : s = n \/ s \in 1 .. n - 1
  OBVIOUS
<1> QED
  BY <1>1 DEF TrailedNext

LEMMA TrailInvFolds ==
  ASSUME ~FlushFails', CompleteNext,
         pc' = "idle" => tx' = db' /\ pend' = {} /\ db'.frames \subseteq 1 .. db'.cursor,
         pc' # "idle" =>
           /\ db'.cursor = base' /\ tx'.cursor = base' /\ TrailedNext(at' - 1)
           /\ pc' = "frame" => tx'.frames \cup pend' \subseteq 1 .. at' - 1,
         pc' \notin {"idle", "frame"} => tx'.frames \cup pend' \subseteq 1 .. at' /\ at' \in tx'.frames \cup pend',
         pc' \in {"ref", "accept", "work"} => tx'.audits[at'] # NoRow
  PROVE  TrailInv'
<1>1. TrailIsComplete'
  BY DEF TrailIsComplete, CompleteNext
<1>2. pc' # "idle" => Trailed(tx, at - 1)'
  BY DEF Trailed, TrailedNext
<1> QED
  BY <1>1, <1>2 DEF TrailInv

\* The coroutine stays with the frame in hand, or goes on to the next one.
LEMMA FrameInHandMoves ==
  ASSUME TclkTypeOK, PositionInv, DealsFit, OfFrameInHand
  PROVE  /\ pc \notin {"idle", "frame"} /\ at <= last
         /\ \/ NextFrame
            \/ /\ UNCHANGED batch /\ pc' \notin {"idle", "frame"}
               /\ pc' \in {"ref", "accept", "work"} => pc \in {"offer", "ref", "accept"}
<1>1. CASE OnOffer \/ SetAuditRef \/ AcceptDropped \/ AcceptPosted \/ Work \/ Ship \/ Reveal
  BY <1>1 DEF OnOffer, SetAuditRef, AcceptDropped, AcceptPosted, Work, Ship, Reveal, Stay, PositionInv
<1>2. CASE OnLock \/ RecoverPending
  <2>1. pc = "lock"
    BY <1>2 DEF OnLock, RecoverPending
  <2> QED
    BY <1>2, <2>1, LockStep DEF PositionInv
<1> QED
  BY <1>1, <1>2 DEF OfFrameInHand

LEMMA TrailStep ==
  ASSUME TclkTypeOK, PositionInv, DealsFit, TrailInv, [Next]_vars
  PROVE  TrailInv'
<1> SUFFICES ASSUME ~disturbed'
             PROVE  TrailInv'
  BY DEF TrailInv
<1>0. ~disturbed /\ (Restart => pc = "idle") /\ (Poll => ~(base' < db.cursor))
  BY Undisturbed
<1>1. /\ ~FlushFails
      /\ pc = "idle" => tx = db /\ pend = {} /\ db.frames \subseteq 1 .. db.cursor
      /\ pc # "idle" => db.cursor = base /\ tx.cursor = base
      /\ pc = "frame" => tx.frames \cup pend \subseteq 1 .. at - 1
      /\ pc \notin {"idle", "frame"} => tx.frames \cup pend \subseteq 1 .. at /\ at \in tx.frames \cup pend
      /\ pc \in {"ref", "accept", "work"} => tx.audits[at] # NoRow
  BY <1>0 DEF TrailInv
<1>2. \A s \in 1 .. db.cursor :
        /\ room[s].kind # "chat" => s \in db.frames
        /\ room[s].kind = "offer" => db.audits[s] # NoRow
  BY <1>0 DEF TrailInv, TrailIsComplete
<1>3. /\ base \in Nat /\ at \in Nat /\ last \in Nat /\ Len(room) \in Nat /\ db.cursor \in Nat
      /\ db.cursor <= Len(room)
      /\ pc # "idle" => base < at /\ at <= last + 1 /\ last <= Len(room)
  <2>1. db.cursor \in Nat
    BY TclkAssumption DEF TclkTypeOK, Database
  <2> QED
    BY <2>1, RoomIsKept DEF PositionInv
<1>4. \A s \in 1 .. Len(room) : room'[s] = room[s]
  BY RoomIsKept
<1>5. ASSUME db' = db
      PROVE  CompleteNext
  <2>1. \A s \in 1 .. db.cursor : s \in 1 .. Len(room)
    BY <1>3
  <2> QED
    BY <1>2, <1>4, <1>5, <2>1 DEF CompleteNext
<1>6. CASE Publish \/ TtlPasses \/ HourPasses \/ UNCHANGED vars
  <2>1. UNCHANGED session /\ UNCHANGED batch /\ pc' = pc
    BY <1>6 DEF Publish, TtlPasses, HourPasses, vars, session, batch
  <2>2. db' = db /\ tx' = tx /\ pend' = pend /\ base' = base /\ at' = at /\ ~FlushFails'
    BY <1>1, <2>1 DEF session, batch, FlushFails
  <2>3. CompleteNext
    BY <1>5, <2>2
  <2>4. pc # "idle" => TrailedNext(at - 1)
    BY <1>0, <1>1, <2>1, KeptByNothing, TrailIsKept
  <2> QED
    BY <1>1, <2>1, <2>2, <2>3, <2>4, TrailInvFolds
<1>7. CASE Poll
  <2>1. /\ pc = "idle" /\ UNCHANGED session /\ base' \in {db.cursor, 0} /\ base' < Len(room) /\ at' = base' + 1
        /\ pc' = "frame" /\ room' = room
    BY <1>7 DEF Poll
  <2>2. base' = db.cursor
    BY <1>0, <1>3, <1>7, <2>1
  <2>3. db' = db /\ tx' = db /\ pend' = {} /\ ~FlushFails'
    BY <1>1, <2>1 DEF session, FlushFails
  <2>4. CompleteNext
    BY <1>5, <2>3
  <2>5. at' - 1 = db.cursor
    BY <1>3, <2>1, <2>2
  <2>6. TrailedNext(at' - 1)
    BY <2>3, <2>4, <2>5 DEF CompleteNext, TrailedNext
  <2>7. tx'.frames \cup pend' \subseteq 1 .. at' - 1
    BY <1>1, <2>1, <2>3, <2>5
  <2> QED
    BY <2>1, <2>2, <2>3, <2>4, <2>6, <2>7, TrailInvFolds
<1>8. CASE Chat
  <2>1. pc = "frame" /\ at <= last /\ room[at].kind = "chat" /\ NextFrame /\ UNCHANGED session
    BY <1>8 DEF Chat
  <2>2. SessionKept /\ db' = db /\ tx' = tx /\ pend' = pend /\ ~FlushFails'
    BY <1>1, <2>1, KeptByNothing DEF session, SessionKept
  <2>3. CompleteNext /\ db'.cursor = base /\ tx'.cursor = base /\ TrailedNext(at - 1)
    BY <1>0, <2>1, <2>2, TrailIsKept
  <2>4. at > 0 /\ at' = at + 1 /\ base' = base /\ pc' = "frame" /\ at' - 1 = at /\ at \in 1 .. Len(room)
    BY <1>3, <2>1 DEF NextFrame
  <2>5. room'[at].kind = "chat"
    BY <1>4, <2>1, <2>4
  <2>6. TrailedNext(at)
    BY <1>3, <2>3, <2>4, <2>5, TrailGoesOn
  <2>7. tx'.frames \cup pend' \subseteq 1 .. at
    <3>1. 1 .. at - 1 \subseteq 1 .. at
      BY <1>3
    <3> QED
      BY <1>1, <2>1, <2>2, <3>1
  <2> QED
    BY <2>2, <2>3, <2>4, <2>6, <2>7, TrailInvFolds
<1>9. CASE Persist \/ ClaimRadar
  <2>1. pc = "frame" /\ at <= last /\ pend' = pend \cup {at} /\ UNCHANGED <<db, tx, poisoned>>
    BY <1>9 DEF Persist, ClaimRadar
  <2>2. at \in 1 .. Len(room) /\ at > 0 /\ at - 1 \in Nat
    BY <1>3, <2>1
  <2>3. at \notin 1 .. at - 1
    BY <1>3
  <2>4. ~FlushFails'
    BY <1>1, <2>1, <2>3 DEF FlushFails
  <2>5. CompleteNext
    BY <1>5, <2>1
  <2>6. TrailedNext(at - 1) /\ db'.cursor = base /\ tx'.cursor = base
    <3>1. \A s \in 1 .. at - 1 :
            /\ room[s].kind # "chat" => s \in tx.frames \cup pend
            /\ room[s].kind = "offer" => tx.audits[s] # NoRow
      BY <1>0, <2>1 DEF TrailInv, Trailed
    <3>2. \A s \in 1 .. at - 1 : s \in 1 .. Len(room)
      BY <1>3, <2>1
    <3> QED
      BY <1>1, <1>4, <2>1, <3>1, <3>2 DEF TrailedNext
  <2>7. tx'.frames \cup pend' \subseteq 1 .. at /\ at \in tx'.frames \cup pend'
    <3>1. 1 .. at - 1 \subseteq 1 .. at /\ at \in 1 .. at
      BY <1>3, <2>2
    <3> QED
      BY <1>1, <2>1, <3>1
  <2>8. CASE Persist
    <3>1. pc' \in {"offer", "lock"} /\ base' = base /\ at' = at
      BY <2>8 DEF Persist, Stay, batch
    <3> QED
      BY <2>4, <2>5, <2>6, <2>7, <3>1, TrailInvFolds
  <2>9. CASE ClaimRadar
    <3>1. pc' = "frame" /\ base' = base /\ at' = at + 1 /\ room[at].kind = "reveal" /\ at' - 1 = at
      BY <1>3, <2>9 DEF ClaimRadar, NextFrame
    <3>2. room'[at].kind = "reveal"
      BY <1>4, <2>2, <3>1
    <3>3. TrailedNext(at)
      BY <1>3, <2>2, <2>6, <2>7, <3>2, TrailGoesOn
    <3> QED
      BY <2>4, <2>5, <2>6, <2>7, <3>1, <3>3, TrailInvFolds
  <2> QED
    BY <1>9, <2>8, <2>9
<1>10. CASE EndBatch
  <2> DEFINE t == [Flushed EXCEPT !.cursor = IF last > @ THEN last ELSE @]
  <2>1. pc = "frame" /\ at > last /\ pc' = "idle"
    BY <1>10 DEF EndBatch, Stay
  <2>2. Commit(t)
    BY <1>1, <1>10 DEF EndBatch
  <2>3. /\ Flushed \in Database /\ Flushed.audits = tx.audits
        /\ Flushed.cursor = tx.cursor /\ Flushed.frames = tx.frames \cup pend
    BY FlushedFields DEF TclkTypeOK
  <2>4. last = at - 1 /\ base <= last
    BY <1>3, <2>1
  <2>5. t.frames = tx.frames \cup pend /\ t.audits = tx.audits /\ t.cursor = IF last > base THEN last ELSE base
    BY <1>1, <2>1, <2>3 DEF Database
  <2>6. t.cursor = at - 1
    BY <1>3, <2>4, <2>5
  <2> HIDE DEF t
  <2>7. db' = t /\ tx' = t /\ pend' = {} /\ poisoned' = FALSE
    BY <2>2 DEF Commit
  <2>8. ~FlushFails'
    BY <2>7 DEF FlushFails
  <2>9. CompleteNext
    <3>1. \A s \in 1 .. at - 1 :
            /\ room[s].kind # "chat" => s \in tx.frames \cup pend
            /\ room[s].kind = "offer" => tx.audits[s] # NoRow
      BY <1>0, <2>1 DEF TrailInv, Trailed
    <3>2. \A s \in 1 .. at - 1 : s \in 1 .. Len(room)
      BY <1>3, <2>1
    <3> QED
      BY <1>4, <2>5, <2>6, <2>7, <3>1, <3>2 DEF CompleteNext
  <2>10. db'.frames \subseteq 1 .. db'.cursor
    BY <1>1, <2>1, <2>5, <2>6, <2>7
  <2> QED
    BY <2>1, <2>7, <2>8, <2>9, <2>10, TrailInvFolds
<1>11. CASE OfFrameInHand
  <2>1. SessionKept /\ (pc \in {"offer", "ref", "accept", "work"} => tx'.audits[at] # NoRow)
    BY <1>1, <1>11, FrameInHandKeeps
  <2>2. pc \notin {"idle", "frame"} /\ at <= last
    BY <1>11, FrameInHandMoves
  <2>3. CompleteNext /\ db'.cursor = base /\ tx'.cursor = base /\ TrailedNext(at - 1)
    BY <1>0, <2>1, <2>2, TrailIsKept
  <2>4. ~FlushFails' /\ tx'.frames \cup pend' \subseteq 1 .. at /\ at \in tx'.frames \cup pend'
    BY <1>1, <2>1, <2>2 DEF SessionKept
  <2>5. CASE UNCHANGED batch /\ pc' \notin {"idle", "frame"}
             /\ (pc' \in {"ref", "accept", "work"} => pc \in {"offer", "ref", "accept"})
    <3>1. base' = base /\ at' = at
      BY <2>5 DEF batch
    <3> QED
      BY <2>1, <2>3, <2>4, <2>5, <3>1, TrailInvFolds
  <2>6. CASE NextFrame
    <3>1. pc' = "frame" /\ base' = base /\ at' = at + 1 /\ at' - 1 = at /\ at > 0 /\ at \in 1 .. Len(room)
      BY <1>3, <2>2, <2>6 DEF NextFrame
    <3>2. room'[at].kind = "offer" => pc \in {"offer", "ref", "accept", "work"}
      <4>1. room'[at] = room[at]
        BY <1>4, <3>1
      <4>2. pc \in {"offer", "ref", "accept", "work", "lock", "reveal", "claim"}
        BY <2>2 DEF TclkTypeOK
      <4>3. pc \in {"lock", "reveal", "claim"} => room[at].kind = "lock"
        BY DEF PositionInv
      <4> QED
        BY <4>1, <4>2, <4>3
    <3>3. TrailedNext(at)
      BY <1>3, <2>1, <2>3, <2>4, <3>1, <3>2, TrailGoesOn
    <3> QED
      BY <2>3, <2>4, <3>1, <3>3, TrailInvFolds
  <2> QED
    BY <1>11, <2>5, <2>6, FrameInHandMoves
<1>12. CASE Restart
  <2>1. pc = "idle" /\ pc' = "idle" /\ Rollback
    BY <1>0, <1>12 DEF Restart
  <2>2. db' = db /\ tx' = db /\ pend' = {} /\ ~FlushFails'
    BY <2>1 DEF Rollback, FlushFails
  <2>3. CompleteNext
    BY <1>5, <2>2
  <2> QED
    BY <1>1, <2>1, <2>2, <2>3, TrailInvFolds
<1> QED
  BY <1>6, <1>7, <1>8, <1>9, <1>10, <1>11, <1>12 DEF Next, Step, OfFrameInHand
-----------------------------------------------------------------------------
(***************************************************************************)
(* The theorems.                                                           *)
(***************************************************************************)

LEMMA MarketInit == Init => MarketInv
<1> SUFFICES ASSUME Init
             PROVE  MarketInv
  OBVIOUS
<1>0. {AcceptPerHour, Reserve, MaxActive, MaxFrames, MaxAccepts, MaxFailures, MaxCrashes} \subseteq Nat
  BY TclkAssumption
<1>1. /\ room = <<>> /\ accepts = <<>> /\ reveals = {} /\ unsure = {} /\ pend = {} /\ poisoned = FALSE
      /\ pc = "idle" /\ deal = <<>> /\ base = 0 /\ at = 0 /\ last = 0 /\ tx = db
      /\ db = [cursor |-> 0, frames |-> {}, audits |-> [s \in Seqs |-> NoRow]]
      /\ shipped = [c \in Contracts |-> 0] /\ failures = 0 /\ crashes = 0 /\ disturbed = FALSE
      /\ mem = [seen |-> {}, active |-> {}, delivered |-> {}, claimed |-> {}, rails |-> {}, used |-> 0]
  BY DEF Init, Blank
<1>2. /\ 0 \in 0 .. MaxFrames /\ 0 \in 0 .. AcceptPerHour + Reserve /\ 0 \in 0 .. MaxFailures /\ 0 \in 0 .. MaxCrashes
      /\ 0 <= MaxFrames /\ 0 <= MaxActive /\ 0 <= MaxAccepts
  BY <1>0
<1>3. NoRow \in AuditRow /\ NoRow.outcome = "none"
  BY RowTypes
<1>4. db.audits = [s \in Seqs |-> NoRow] /\ db.cursor = 0 /\ db.frames = {} /\ \A s \in Seqs : db.audits[s] = NoRow
  BY <1>1
<1>5. db \in Database
  <2>1. [s \in Seqs |-> NoRow] \in [Seqs -> AuditRow]
    BY <1>3
  <2> QED
    BY <1>1, <1>2, <2>1, Zenon DEF Database
<1>6. mem \in Memory /\ mem.active = {} /\ mem.seen = {} /\ mem.delivered = {}
  <2>1. mem.active = {} /\ mem.seen = {} /\ mem.delivered = {}
    BY <1>1
  <2>2. /\ {} \in SUBSET Offers /\ {} \in SUBSET ActiveDeal /\ {} \in SUBSET Contracts
    OBVIOUS
  <2>3. mem \in Memory
    BY <1>1, <1>2, <2>2, Zenon DEF Memory
  <2> QED
    BY <2>1, <2>3
<1>7. IsFiniteSet({}) /\ Cardinality({}) = 0
  BY FS_EmptySet
<1>8. room \in Seq(Frames) /\ Len(room) = 0 /\ DOMAIN room = {} /\ accepts \in Seq(Offers) /\ Len(accepts) = 0
      /\ DOMAIN accepts = {}
  BY <1>1
<1>9. TclkTypeOK
  <2>1. poisoned \in BOOLEAN /\ disturbed \in BOOLEAN
    BY <1>1, Zenon
  <2>2. Cardinality(mem.active) <= MaxActive /\ Len(room) <= MaxFrames
    BY <1>2, <1>6, <1>7, <1>8
  <2>3. failures \in 0 .. MaxFailures /\ crashes \in 0 .. MaxCrashes
    BY <1>1, <1>2
  <2>4. pc \in {"idle", "frame", "offer", "ref", "accept", "work", "lock", "reveal", "claim"}
    BY <1>1
  <2>5. pend \subseteq Seqs /\ unsure \subseteq Contracts /\ reveals \subseteq Contracts \X Offers /\ deal \in Deal \cup {<<>>}
    BY <1>1
  <2> QED
    BY <1>1, <1>5, <1>6, <1>8, <2>1, <2>2, <2>3, <2>4, <2>5 DEF TclkTypeOK
<1>10. PositionInv
  BY <1>1, <1>4, <1>8 DEF PositionInv
<1>11. DealsFit
  <2>1. RowsFit(db) /\ RowsFit(tx)
    BY <1>1, <1>4 DEF RowsFit
  <2>2. Len(accepts) <= MaxAccepts
    BY <1>2, <1>8
  <2> QED
    BY <1>1, <1>6, <1>8, <2>1, <2>2 DEF DealsFit
<1>12. RevealAnswersLock
  BY <1>1 DEF RevealAnswersLock
<1>13. DeliveriesInv
  <2>1. \A c \in Contracts : shipped[c] = 0
    BY <1>1
  <2>2. shipped \in [Contracts -> Nat]
    BY <1>1
  <2> QED
    BY <1>1, <2>1, <2>2 DEF DeliveriesInv
<1>14. AcceptsInv
  <2>1. \A o \in Offers : AnswersTo(o) = {}
    BY <1>8 DEF AnswersTo
  <2>2. \A o \in Offers : Cardinality(AnswersTo(o)) = 0
    BY <1>7, <2>1
  <2> QED
    BY <1>1, <1>6, <2>2 DEF AcceptsInv, AcceptIsDue
<1>15. CapsInv
  BY <1>1, <1>6, <1>7 DEF CapsInv
<1>16. TrailInv
  <2>1. ~FlushFails
    BY <1>1 DEF FlushFails
  <2>2. 1 .. 0 = {}
    OBVIOUS
  <2>3. TrailIsComplete
    BY <1>4, <2>2 DEF TrailIsComplete
  <2> QED
    BY <1>1, <1>4, <2>1, <2>3 DEF TrailInv
<1>17. TruthInv
  BY <1>1, <1>3, <1>4 DEF TruthInv
<1> QED
  BY <1>9, <1>10, <1>11, <1>12, <1>13, <1>14, <1>15, <1>16, <1>17 DEF MarketInv

LEMMA MarketStep == MarketInv /\ [Next]_vars => MarketInv'
<1> SUFFICES ASSUME MarketInv, [Next]_vars
             PROVE  MarketInv'
  OBVIOUS
<1>1. /\ TclkTypeOK /\ PositionInv /\ DealsFit /\ RevealAnswersLock
      /\ DeliveriesInv /\ AcceptsInv /\ CapsInv /\ TrailInv /\ TruthInv
  BY DEF MarketInv
<1>2. TclkTypeOK' /\ PositionInv' /\ DealsFit' /\ CapsInv'
  BY <1>1, TypeStep, PositionStep, DealsStep, CapsStep
<1>3. RevealAnswersLock'
  BY <1>1, RevealStep
<1>4. DeliveriesInv' /\ AcceptsInv'
  BY <1>1, DeliveriesStep, AcceptsInvStep
<1>5. TrailInv' /\ TruthInv'
  BY <1>1, TrailStep, TruthStep
<1> QED
  BY <1>2, <1>3, <1>4, <1>5 DEF MarketInv

\* The inductive invariant of the market agent.
THEOREM MarketInvariant == Spec => []MarketInv
  BY MarketInit, MarketStep, PTL DEF Spec

\* A deal is made once: whatever is read again, rolled back or forgotten by a
\* restart, an offer is accepted at most once per life of the process and the
\* work of a contract is shipped at most once, but for posts left in doubt.
THEOREM DealIsMadeOnce == Spec => []OncePerDeal
<1>1. MarketInv => OncePerDeal
  <2> SUFFICES ASSUME MarketInv
               PROVE  OncePerDeal
    OBVIOUS
  <2>1. crashes \in Nat
    BY TclkAssumption DEF MarketInv, TclkTypeOK
  <2>2. ASSUME NEW o \in Offers
        PROVE  Cardinality({c \in DOMAIN accepts : accepts[c] = o}) <= 1 + crashes
    <3> DEFINE n == Cardinality(AnswersTo(o))
    <3>1. n <= crashes + 1 \/ n <= crashes
      BY DEF MarketInv, AcceptsInv
    <3>2. n \in Nat
      <4>1. accepts \in Seq(Offers)
        BY DEF MarketInv, TclkTypeOK
      <4>2. IsFiniteSet(1 .. Len(accepts)) /\ DOMAIN accepts = 1 .. Len(accepts)
        BY <4>1, FS_Interval
      <4>3. AnswersTo(o) \in SUBSET (1 .. Len(accepts))
        BY <4>2 DEF AnswersTo
      <4> QED
        BY <4>2, <4>3, FS_Subset, FS_CardinalityType
    <3> HIDE DEF n
    <3>3. n <= 1 + crashes
      BY <2>1, <3>1, <3>2
    <3> QED
      BY <3>3 DEF n, AnswersTo
  <2>3. DeliveredAtMostOnce
    BY DEF MarketInv, DeliveriesInv, DeliveredAtMostOnce
  <2> QED
    BY <2>2, <2>3 DEF OncePerDeal, OneAcceptPerLife
<1> QED
  BY <1>1, MarketInvariant, PTL

\* A secret is revealed only in the deal room of a lock on the room, on a rail
\* the policy allows, and only the secret of an accepted offer that this lock asks
\* for.  Who sent the lock, and whether what it names belongs together, is no part
\* of it: the code looks at neither.
THEOREM SecretAnswersLock == Spec => []RevealAnswersLock
<1>1. MarketInv => RevealAnswersLock
  BY DEF MarketInv
<1> QED
  BY <1>1, MarketInvariant, PTL

\* The audit trail is well formed, complete as long as nothing was rolled back
\* or read again, and never says more than what is on the room.
THEOREM TrailIsTrue == Spec => []AuditIsTrue
<1>1. MarketInv => AuditIsTrue
  <2> SUFFICES ASSUME MarketInv
               PROVE  AuditIsTrue
    OBVIOUS
  <2>1. TclkTypeOK /\ TrailIsComplete
    BY DEF MarketInv, TrailInv, TrailIsComplete
  <2>2. OutcomeIsTruthful
    BY DEF MarketInv, TruthInv, OutcomeIsTruthful
  <2> QED
    BY <2>1, <2>2 DEF AuditIsTrue
<1> QED
  BY <1>1, MarketInvariant, PTL
-----------------------------------------------------------------------------
(***************************************************************************)
(* The agent deals as Exchange does.                                       *)
(***************************************************************************)

\* While no accept is due, the agent has decided about every offer it has seen.
LEMMA AllDecided == pc \notin {"ref", "accept"} => Decided = mem.seen
  BY DEF Decided, AcceptIsDue

\* One frame more is one offer or one lock more, or neither.
LEMMA FramePublished ==
  ASSUME TclkTypeOK, NEW f \in Frames, room' = Append(room, f)
  PROVE  /\ OffersMade' = IF f.kind = "offer" THEN OffersMade \cup {f.offer} ELSE OffersMade
         /\ LocksMade' = IF f.kind = "lock" /\ f.rail THEN LocksMade \cup {<<f.contract, f.ref>>}
                                                       ELSE LocksMade
<1>1. /\ DOMAIN room = 1 .. Len(room) /\ Len(room) \in Nat
      /\ DOMAIN room' = 1 .. Len(room) + 1 /\ room'[Len(room) + 1] = f
      /\ \A i \in 1 .. Len(room) : room'[i] = room[i]
  BY DEF TclkTypeOK
<1>2. /\ DOMAIN room' = DOMAIN room \cup {Len(room) + 1} /\ Len(room) + 1 \notin DOMAIN room
      /\ \A i \in DOMAIN room : room'[i] = room[i]
  BY <1>1
<1>3. OffersMade' = IF f.kind = "offer" THEN OffersMade \cup {f.offer} ELSE OffersMade
  BY <1>1, <1>2 DEF OffersMade
<1>4. LocksMade' = IF f.kind = "lock" /\ f.rail THEN LocksMade \cup {<<f.contract, f.ref>>}
                                                 ELSE LocksMade
  BY <1>1, <1>2 DEF LocksMade
<1> QED
  BY <1>3, <1>4

\* The offer in hand, when its accept is due.
LEMMA OfferIsDue ==
  ASSUME MarketInv, pc \in {"ref", "accept"}
  PROVE  /\ at \in DOMAIN room /\ room[at].offer \in Offers
         /\ room[at].offer \in OffersMade \ Decided
         /\ mem.seen = Decided \cup {room[at].offer}
<1>1. pc # "idle" /\ at <= last /\ room[at].kind = "offer" /\ TclkTypeOK /\ PositionInv
  BY DEF MarketInv, PositionInv
<1>2. at \in DOMAIN room /\ room[at] \in Frames
  BY <1>1, InHand
<1>3. room[at].offer \in Offers
  BY <1>1, <1>2, FrameFields
<1>4. room[at].offer \in mem.seen
  BY <1>3 DEF MarketInv, AcceptsInv, AcceptIsDue
<1>5. room[at].offer \in OffersMade
  BY <1>1, <1>2 DEF OffersMade
<1> QED
  BY <1>2, <1>3, <1>4, <1>5 DEF Decided, AcceptIsDue

LEMMA TradeStep ==
  ASSUME MarketInv, [Next]_vars
  PROVE  [Trade!ExchangeNext]_(Trade!exchangeVars)
<1>0. /\ TclkTypeOK /\ PositionInv /\ DealsFit /\ CapsInv /\ DeliveriesInv
      /\ accepts \in Seq(Offers) /\ mem \in Memory
  BY DEF MarketInv, TclkTypeOK
<1>s. room' = room => UNCHANGED <<OffersMade, LocksMade>>
  BY DEF OffersMade, LocksMade
<1> DEFINE Goal == Trade!ExchangeNext \/ UNCHANGED Trade!exchangeVars
<1>u. ASSUME UNCHANGED <<room, accepts, shipped, unsure, reveals>>, Decided' = Decided PROVE Goal
  BY <1>s, <1>u DEF Trade!exchangeVars, Trade!dealVars
<1>1. CASE Publish
  <2>1. PICK f \in Frames : room' = Append(room, f)
    BY <1>1 DEF Publish
  <2>2. UNCHANGED <<pc, at, mem, accepts, shipped, unsure, reveals>>
    BY <1>1 DEF Publish, batch, market
  <2>3. Decided' = Decided
    <3>1. CASE pc \in {"ref", "accept"}
      <4>1. room'[at] = room[at]
        BY <1>0, <2>1, <3>1, OfferIsDue, RoomIsKept
      <4> QED
        BY <2>2, <4>1 DEF Decided, AcceptIsDue
    <3>2. CASE pc \notin {"ref", "accept"}
      BY <2>2, <3>2 DEF Decided, AcceptIsDue
    <3> QED
      BY <3>1, <3>2
  <2>4. CASE f.kind = "offer"
    <3>1. f.offer \in Offers /\ OffersMade' = OffersMade \cup {f.offer} /\ LocksMade' = LocksMade
      BY <1>0, <2>1, <2>4, FramePublished, FrameFields
    <3>2. Trade!Offer(f.offer)
      BY <2>2, <2>3, <3>1 DEF Trade!Offer, Trade!dealVars
    <3> QED
      BY <3>1, <3>2 DEF Trade!ExchangeNext
  <2>5. CASE f.kind = "lock" /\ f.rail
    <3>1. OffersMade' = OffersMade /\ LocksMade' = LocksMade \cup {<<f.contract, f.ref>>}
      BY <1>0, <2>1, <2>5, FramePublished
    <3>2. <<f.contract, f.ref>> \in Rooms \X (Rooms \cup Offers)
      BY <2>1, <2>5, FrameFields
    <3>3. Trade!Lock(<<f.contract, f.ref>>)
      BY <2>2, <2>3, <3>1 DEF Trade!Lock
    <3> QED
      BY <3>2, <3>3 DEF Trade!ExchangeNext
  <2>6. CASE f.kind # "offer" /\ ~(f.kind = "lock" /\ f.rail)
    <3>1. OffersMade' = OffersMade /\ LocksMade' = LocksMade
      BY <1>0, <2>1, <2>6, FramePublished
    <3> QED
      BY <2>2, <2>3, <3>1 DEF Trade!exchangeVars, Trade!dealVars
  <2> QED
    BY <2>4, <2>5, <2>6
<1>2. CASE Restart
  <2>1. mem'.seen = {} /\ UNCHANGED <<room, accepts, shipped, unsure, reveals>>
    BY <1>2 DEF Restart, Blank, market
  <2>2. Decided' = {}
    BY <2>1 DEF Decided
  <2>3. Trade!Forget
    BY <1>s, <2>1, <2>2 DEF Trade!Forget, Trade!dealVars
  <2> QED
    BY <2>3 DEF Trade!ExchangeNext
<1>3. CASE AcceptDropped \/ AcceptPosted
  <2> DEFINE o == room[at].offer
  <2>1. /\ pc = "accept" /\ pc' \in {"frame", "work"}
        /\ accepts' \in {accepts, Append(accepts, o)} /\ UNCHANGED <<room, shipped, unsure, reveals>>
    BY <1>3 DEF AcceptDropped, AcceptPosted, NextFrame, Stay
  <2>2. mem'.seen = mem.seen
    <3>1. CASE AcceptDropped
      BY <3>1 DEF AcceptDropped
    <3>2. CASE AcceptPosted
      BY <1>0, <3>2 DEF AcceptPosted, Memory
    <3> QED
      BY <1>3, <3>1, <3>2
  <2>3. Decided' = mem.seen
    BY <2>1, <2>2 DEF Decided, AcceptIsDue
  <2>4. o \in Offers /\ o \in OffersMade \ Decided /\ Decided' = Decided \cup {o}
    BY <2>1, <2>3, OfferIsDue
  <2>5. Trade!TakeUp(o)
    BY <1>s, <2>1, <2>4 DEF Trade!TakeUp
  <2> QED
    BY <2>4, <2>5 DEF Trade!ExchangeNext
<1>4. CASE OnOffer
  <2>1. /\ pc = "offer" /\ UNCHANGED <<room, accepts, shipped, unsure, reveals>>
        /\ \/ pc' = "frame" /\ mem' = [mem EXCEPT !.active = Pruned]
           \/ /\ pc' = "ref" /\ at' = at /\ room[at].offer \notin mem.seen
              /\ mem' = [mem EXCEPT !.active = Pruned, !.seen = @ \cup {room[at].offer}]
    BY <1>4 DEF OnOffer, NextFrame, Stay, batch, market
  <2>2. CASE pc' = "frame" /\ mem' = [mem EXCEPT !.active = Pruned]
    <3>1. mem'.seen = mem.seen
      BY <1>0, <2>2 DEF Memory
    <3>2. Decided' = Decided
      BY <2>1, <2>2, <3>1 DEF Decided, AcceptIsDue
    <3> QED
      BY <1>u, <2>1, <3>2
  <2>3. CASE /\ pc' = "ref" /\ at' = at /\ room[at].offer \notin mem.seen
             /\ mem' = [mem EXCEPT !.active = Pruned, !.seen = @ \cup {room[at].offer}]
    <3>1. mem'.seen = mem.seen \cup {room[at].offer}
      BY <1>0, <2>3 DEF Memory
    <3>2. Decided = mem.seen
      BY <2>1, AllDecided
    <3>3. \A x : AcceptIsDue(x)' <=> x = room[at].offer
      BY <2>1, <2>3 DEF AcceptIsDue
    <3>4. Decided' = Decided
      BY <2>3, <3>1, <3>2, <3>3 DEF Decided
    <3> QED
      BY <1>u, <2>1, <3>4
  <2> QED
    BY <2>1, <2>2, <2>3
<1>5. CASE SetAuditRef
  <2>1. /\ pc = "ref" /\ pc' = "accept" /\ UNCHANGED <<at, mem, room, accepts, shipped, unsure, reveals>>
    BY <1>5 DEF SetAuditRef, Stay, batch, market
  <2>2. Decided' = Decided
    BY <2>1 DEF Decided, AcceptIsDue
  <2> QED
    BY <1>u, <2>1, <2>2
<1>6. CASE (Work \/ Ship) /\ ~Restart
  <2>1. /\ pc \in {"work", "reveal"} /\ pc' \in {"frame", "claim"} /\ UNCHANGED <<room, accepts, reveals>>
    <3>1. CASE Work
      BY <3>1 DEF Work, NextFrame
    <3>2. CASE Ship
      BY <3>2 DEF Ship, Stay
    <3> QED
      BY <1>6, <3>1, <3>2
  <2>2. mem'.seen = mem.seen
    BY <1>0, <1>6, <2>1, SeenIsKept
  <2>3. Decided' = Decided
    BY <2>1, <2>2 DEF Decided, AcceptIsDue
  <2>4. ASSUME NEW c \in Contracts, c \in DOMAIN accepts, shipped[c] = 0 \/ c \in unsure, Posted(c)
        PROVE  Goal
    <3>1. CASE UNCHANGED <<shipped, unsure>>
      BY <1>u, <2>1, <2>3, <3>1
    <3>2. CASE shipped' = [shipped EXCEPT ![c] = @ + 1] /\ unsure' \in {unsure, unsure \cup {c}}
      <4>1. Trade!Deliver(c)
        BY <1>s, <2>1, <2>3, <2>4, <3>2 DEF Trade!Deliver
      <4> QED
        BY <4>1 DEF Trade!ExchangeNext
    <3> QED
      BY <2>4, <3>1, <3>2 DEF Posted
  <2>5. CASE UNCHANGED <<shipped, unsure>>
    BY <1>u, <2>1, <2>3, <2>5
  <2>6. CASE Work /\ Posted(Len(accepts))
    <3>1. Len(accepts) \in DOMAIN accepts /\ Len(accepts) \in Contracts /\ shipped[Len(accepts)] = 0
      <4>1. pc = "work"
        BY <2>6 DEF Work
      <4> QED
        BY <1>0, <4>1, InHandContracts DEF DeliveriesInv
    <3> QED
      BY <2>4, <2>6, <3>1
  <2>7. CASE Ship /\ Posted(deal.contract) /\ deal.answer /\ ~AlreadyDelivered(deal.contract)
    <3>1. pc = "reveal" /\ deal.contract \in DOMAIN accepts /\ deal.contract \in Contracts
      <4>1. pc = "reveal"
        BY <2>7 DEF Ship
      <4> QED
        BY <1>0, <2>7, <4>1, InHandContracts
    <3>2. AnswerIsKept(deal.contract) /\ deal.contract \notin mem.delivered
      BY <2>7, <3>1 DEF AnswerIsKept, AlreadyDelivered
    <3>3. shipped[deal.contract] = 0 \/ deal.contract \in unsure
      BY <1>0, <3>1, <3>2 DEF DeliveriesInv
    <3> QED
      BY <2>4, <2>7, <3>1, <3>3
  <2> QED
    BY <2>5, <2>6, <2>7, ShippedStep
<1>7. CASE Reveal
  <2>1. /\ pc = "claim" /\ pc' = "frame" /\ UNCHANGED <<mem, room, accepts, shipped, unsure>>
        /\ reveals' \in {reveals, reveals \cup {<<room[at].contract, deal.offer>>}}
    BY <1>7 DEF Reveal, NextFrame
  <2>2. Decided' = Decided
    BY <2>1 DEF Decided, AcceptIsDue
  <2>3. at \in DOMAIN room /\ room[at].kind = "lock" /\ room[at].rail
    <3>1. pc # "idle" /\ at <= last /\ room[at].kind = "lock" /\ room[at].rail
      BY <1>0, <2>1 DEF PositionInv
    <3> QED
      BY <1>0, <3>1, InHand
  <2>4. PICK lock : lock = <<room[at].contract, room[at].ref>>
    OBVIOUS
  <2>7. /\ lock \in LocksMade /\ lock \in Rooms \X (Rooms \cup Offers)
        /\ lock[1] = room[at].contract /\ lock[2] = room[at].ref
    <3>1. lock \in LocksMade
      BY <2>3, <2>4 DEF LocksMade
    <3>2. room[at].contract \in Rooms /\ room[at].ref \in Rooms \cup Offers
      BY <1>0, <2>3, FrameFields DEF TclkTypeOK
    <3> QED
      BY <2>4, <3>1, <3>2
  <2>8. PICK c \in DOMAIN accepts : AsksFor(room[at], c) /\ accepts[c] = deal.offer
    BY <1>0, <2>1 DEF DealsFit
  <2>9. c \in Contracts
    BY <1>0, AcceptsAreKept
  <2>5. CASE reveals' = reveals
    BY <1>u, <2>1, <2>2, <2>5
  <2>6. CASE reveals' = reveals \cup {<<room[at].contract, deal.offer>>}
    <3>1. c \in {lock[1], lock[2]} \/ accepts[c] = lock[2]
      BY <2>7, <2>8 DEF AsksFor
    <3>2. reveals' = reveals \cup {<<lock[1], accepts[c]>>}
      BY <2>6, <2>7, <2>8
    <3>3. Trade!Show(lock, c)
      BY <1>s, <2>1, <2>2, <2>7, <3>1, <3>2 DEF Trade!Show
    <3> QED
      BY <2>7, <2>9, <3>3 DEF Trade!ExchangeNext
  <2> QED
    BY <2>1, <2>5, <2>6
<1>8. CASE /\ Poll \/ Chat \/ Persist \/ ClaimRadar \/ EndBatch \/ OnLock \/ RecoverPending
           /\ ~Restart
  <2>1. /\ pc \in {"idle", "frame", "lock"} /\ pc' \in {"idle", "frame", "offer", "lock", "reveal"}
        /\ UNCHANGED <<room, accepts, shipped, unsure, reveals>>
    <3>1. CASE Poll
      <4>1. pc = "idle" /\ pc' = "frame" /\ UNCHANGED <<room, market>>
        BY <3>1 DEF Poll
      <4> QED
        BY <4>1 DEF market
    <3>2. CASE Chat \/ ClaimRadar
      <4>1. CASE Chat
        BY <4>1 DEF Chat, NextFrame, market
      <4>2. CASE ClaimRadar
        <5>1. pc = "frame" /\ NextFrame /\ UNCHANGED <<room, market>>
          BY <4>2 DEF ClaimRadar
        <5> QED
          BY <5>1 DEF NextFrame, market
      <4> QED
        BY <3>2, <4>1, <4>2
    <3>3. CASE Persist
      BY <3>3 DEF Persist, Stay, market
    <3>4. CASE EndBatch
      BY <3>4 DEF EndBatch, Stay, market
    <3>5. CASE OnLock
      BY <3>5 DEF OnLock, Stay, market
    <3>6. CASE RecoverPending
      <4>1. pc = "lock" /\ (Stay("reveal") \/ NextFrame) /\ UNCHANGED <<room, mem, market, ghosts>>
        BY <3>6 DEF RecoverPending
      <4> QED
        BY <4>1 DEF NextFrame, Stay, market
    <3> QED
      BY <1>8, <3>1, <3>2, <3>3, <3>4, <3>5, <3>6
  <2>2. mem'.seen = mem.seen
    BY <1>0, <1>8, <2>1, SeenIsKept
  <2>3. Decided' = Decided
    BY <2>1, <2>2 DEF Decided, AcceptIsDue
  <2> QED
    BY <1>u, <2>1, <2>3
<1>9. CASE TtlPasses \/ HourPasses \/ UNCHANGED vars
  <2>1. UNCHANGED <<pc, at, room, accepts, shipped, unsure, reveals>>
    BY <1>9 DEF TtlPasses, HourPasses, vars, batch, market
  <2>2. mem'.seen = mem.seen
    BY <1>0, <1>9 DEF TtlPasses, HourPasses, vars, Memory
  <2>3. Decided' = Decided
    BY <2>1, <2>2 DEF Decided, AcceptIsDue
  <2> QED
    BY <1>u, <2>1, <2>3
<1> QED
  BY <1>1, <1>2, <1>3, <1>4, <1>5, <1>6, <1>7, <1>8, <1>9 DEF Next, Step

LEMMA TradeBegins == Init => Trade!ExchangeInit
  BY DEF Init, Trade!ExchangeInit, OffersMade, LocksMade, Decided, Blank

\* Whatever is read again, rolled back or forgotten by a restart, every accept,
\* delivery and reveal of the agent is a step an exchange allows: an offer taken
\* up once in each life, work delivered once, a secret shown after some lock that
\* asks for it.
THEOREM AgentImplementsExchange == Spec => AgentIsExchange
<1> QED
  BY TradeBegins, TradeStep, MarketInvariant, PTL DEF Spec, AgentIsExchange, Trade!ExchangeSpec
=============================================================================
