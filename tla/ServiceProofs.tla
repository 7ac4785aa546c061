---------------------------- MODULE ServiceProofs ---------------------------
(***************************************************************************)
(* Theorems about the services around the runs, each for every value of    *)
(* its constants: the outbox, for any rows, window, attempt limit, failing *)
(* XADDs and crashes; the memory, for every set of items and               *)
(* administrators; the webhook inbox, for any updates, handlers, failures  *)
(* and crashes.                                                            *)
(***************************************************************************)
EXTENDS Outbox, Memory, Inbox, FiniteSetTheorems, TLAPS

(* The outbox.                                                             *)

RowType == [state : {"none", "open", "processed"}, attempts : Nat, due : BOOLEAN]

\* Updating fields of a row of outbox_messages gives a row.
LEMMA RowUpdates ==
  \A x \in RowType :
    /\ x.attempts + 1 \in Nat
    /\ [x EXCEPT !.due = TRUE] \in RowType
    /\ [x EXCEPT !.attempts = @ + 1, !.state = "processed"] \in RowType
    /\ [x EXCEPT !.attempts = @ + 1, !.state = @] \in RowType
<1> SUFFICES ASSUME NEW x \in RowType
             PROVE  /\ x.attempts + 1 \in Nat
                    /\ [x EXCEPT !.due = TRUE] \in RowType
                    /\ [x EXCEPT !.attempts = @ + 1, !.state = "processed"] \in RowType
                    /\ [x EXCEPT !.attempts = @ + 1, !.state = @] \in RowType
  OBVIOUS
<1>1. x.attempts + 1 \in Nat
  BY DEF RowType
<1> QED
  BY <1>1 DEF RowType

\* The initial state has its types.
LEMMA InitType == Init => TypeOK
<1> SUFFICES ASSUME Init PROVE TypeOK
  OBVIOUS
<1>1. row \in [Rows -> [state : {"none", "open", "processed"}, attempts : Nat, due : BOOLEAN]]
  BY DEF Init
<1>2. mark \in [Rows -> {"none", "sent", "failed"}]
  BY DEF Init, Unmarked
<1>3. copies \in [Rows -> Nat] /\ errors \in Nat /\ crashes \in Nat
  BY DEF Init
<1>4. batch \subseteq Rows /\ ready \subseteq Rows /\ passing \in BOOLEAN
  BY DEF Init
<1> QED
  BY <1>1, <1>2, <1>3, <1>4 DEF TypeOK

\* Every step keeps the types.
LEMMA NextType == TypeOK /\ [Next]_vars => TypeOK'
<1> SUFFICES ASSUME TypeOK, [Next]_vars PROVE TypeOK'
  OBVIOUS
<1>0. row \in [Rows -> RowType]
  BY DEF TypeOK, RowType
<1>1. ASSUME NEW i \in Rows, NEW due \in BOOLEAN, Enqueue(i, due) PROVE TypeOK'
  BY <1>1 DEF Enqueue, TypeOK
<1>2. ASSUME NEW i \in Rows, NotBeforePasses(i) PROVE TypeOK'
  <2>1. row' \in [Rows -> RowType]
    BY <1>0, <1>2, RowUpdates DEF NotBeforePasses
  <2> QED
    BY <1>2, <2>1 DEF NotBeforePasses, TypeOK, RowType
<1>3. CASE BeginPass
  BY <1>3 DEF BeginPass, Window, Open, TypeOK
<1>4. ASSUME NEW i \in Rows, Skip(i) \/ Publish(i) \/ PublishFails(i) PROVE TypeOK'
  BY <1>4 DEF Skip, Publish, PublishFails, Visit, TypeOK
<1>5. CASE CommitPass
  <2>1. row' \in [Rows -> RowType]
    <3>1. ASSUME NEW i \in Rows
          PROVE  (IF mark[i] = "none" THEN row[i]
                  ELSE [row[i] EXCEPT !.attempts = @ + 1,
                          !.state = IF mark[i] = "sent" THEN "processed" ELSE @]) \in RowType
      <4>1. row[i] \in RowType
        BY <1>0
      <4>2. CASE mark[i] = "none"
        BY <4>1, <4>2
      <4>3. CASE mark[i] = "sent"
        BY <4>1, <4>3, RowUpdates
      <4>4. CASE mark[i] = "failed"
        BY <4>1, <4>4, RowUpdates
      <4> QED
        BY <4>2, <4>3, <4>4 DEF TypeOK
    <3> QED
      BY <1>5, <3>1 DEF CommitPass
  <2> QED
    BY <1>5, <2>1 DEF CommitPass, TypeOK, RowType, Unmarked
<1>6. CASE CrashInPass
  <2>1. mark' \in [Rows -> {"none", "sent", "failed"}]
    BY <1>6 DEF CrashInPass, Unmarked
  <2>2. crashes' \in Nat
    BY <1>6 DEF CrashInPass, TypeOK
  <2>3. passing' \in BOOLEAN /\ batch' \subseteq Rows /\ ready' \subseteq Rows
    BY <1>6 DEF CrashInPass
  <2> QED
    BY <1>6, <2>1, <2>2, <2>3 DEF CrashInPass, TypeOK
<1>7. CASE UNCHANGED vars
  BY <1>7 DEF vars, TypeOK
<1> QED
  BY <1>1, <1>2, <1>3, <1>4, <1>5, <1>6, <1>7 DEF Next, Pass

\* The rows, the pass and the histories keep their types.
THEOREM TypeCorrect == Spec => []TypeOK
  BY InitType, NextType, PTL DEF Spec

-----------------------------------------------------------------------------
\* Before the first pass nothing is marked and nothing published.
LEMMA InitPass == Init => PassInv /\ DuplicatesNeedCrash
  BY DEF Init, Unmarked, PassInv, DuplicatesNeedCrash

\* Every step keeps the bookkeeping of a pass and the bound on copies.
LEMMA NextPass ==
  TypeOK /\ PassInv /\ DuplicatesNeedCrash /\ [Next]_vars => PassInv' /\ DuplicatesNeedCrash'
<1> SUFFICES ASSUME TypeOK, PassInv, DuplicatesNeedCrash, [Next]_vars
             PROVE  PassInv' /\ DuplicatesNeedCrash'
  OBVIOUS
<1>0. /\ row \in [Rows -> RowType] /\ batch \subseteq Rows /\ copies \in [Rows -> Nat]
      /\ mark \in [Rows -> {"none", "sent", "failed"}] /\ crashes \in Nat
  BY DEF TypeOK, RowType
<1>1. ASSUME NEW i \in Rows, NEW due \in BOOLEAN, Enqueue(i, due) PROVE PassInv' /\ DuplicatesNeedCrash'
  BY <1>0, <1>1 DEF Enqueue, PassInv, DuplicatesNeedCrash
<1>2. ASSUME NEW i \in Rows, NotBeforePasses(i) PROVE PassInv' /\ DuplicatesNeedCrash'
  <2>1. \A j \in Rows : row'[j].state = row[j].state
    BY <1>0, <1>2 DEF NotBeforePasses, RowType
  <2> QED
    BY <1>0, <1>2, <2>1 DEF NotBeforePasses, PassInv, DuplicatesNeedCrash
<1>3. CASE BeginPass
  BY <1>0, <1>3 DEF BeginPass, Window, Open, PassInv, DuplicatesNeedCrash
<1>4. ASSUME NEW i \in Rows, Skip(i) PROVE PassInv' /\ DuplicatesNeedCrash'
  BY <1>0, <1>4 DEF Skip, Visit, PassInv, DuplicatesNeedCrash
<1>5. ASSUME NEW i \in Rows, Publish(i) \/ PublishFails(i) PROVE PassInv' /\ DuplicatesNeedCrash'
  BY <1>0, <1>5 DEF Publish, PublishFails, Visit, PassInv, DuplicatesNeedCrash
<1>6. CASE CommitPass
  <2>1. \A j \in Rows : mark'[j] = "none"
    BY <1>6 DEF CommitPass, Unmarked
  <2>2. \A j \in Rows : mark[j] # "sent" => row'[j].state = row[j].state
    BY <1>0, <1>6 DEF CommitPass, RowType
  <2>3. \A j \in Rows : mark[j] = "sent" => row'[j].state = "processed"
    BY <1>0, <1>6 DEF CommitPass, RowType
  <2> QED
    BY <1>0, <1>6, <2>1, <2>2, <2>3 DEF CommitPass, PassInv, DuplicatesNeedCrash
<1>7. CASE CrashInPass
  <2>1. \A j \in Rows : mark'[j] = "none" /\ copies'[j] = copies[j] /\ row'[j] = row[j]
    BY <1>7 DEF CrashInPass, Unmarked
  <2> QED
    BY <1>0, <1>7, <2>1 DEF CrashInPass, PassInv, DuplicatesNeedCrash
<1>8. CASE UNCHANGED vars
  BY <1>8 DEF vars, PassInv, DuplicatesNeedCrash
<1> QED
  BY <1>1, <1>2, <1>3, <1>4, <1>5, <1>6, <1>7, <1>8 DEF Next, Pass

\* Only the pass under way marks rows, and only open ones; unsent rows owe every
\* stream entry they have to a crash.
THEOREM PassInvariant == Spec => [](PassInv /\ DuplicatesNeedCrash)
<1>1. Spec => []TypeOK
  BY TypeCorrect
<1> QED
  BY <1>1, InitPass, NextPass, PTL DEF Spec

\* A row is published again only after a crash between XADD and commit.
THEOREM DuplicateBound == Spec => []DuplicatesNeedCrash
  BY PassInvariant, PTL

-----------------------------------------------------------------------------
(* Refinement: Outbox implements Relay.                                    *)

\* The initial state is one of Relay.
LEMMA InitRefines == Init => Abstract!Init
  BY DEF Init, Abstract!Init, StageOf, Unmarked

\* Every step is a step of Relay or leaves the mapped variables alone.
LEMMA StepRefines ==
  ASSUME TypeOK, PassInv, [Next]_vars
  PROVE  [Abstract!Next]_(Abstract!vars)
<1> DEFINE stage == [i \in Rows |-> StageOf(i)]
<1>0. /\ row \in [Rows -> RowType] /\ batch \subseteq Rows /\ copies \in [Rows -> Nat]
      /\ mark \in [Rows -> {"none", "sent", "failed"}]
  BY DEF TypeOK, RowType
<1>1. ASSUME UNCHANGED copies,
             \A j \in Rows : row'[j].state = row[j].state
                               /\ (mark'[j] = "sent" <=> mark[j] = "sent")
      PROVE  UNCHANGED Abstract!vars
  <2>1. \A j \in Rows : StageOf(j)' = StageOf(j)
    BY <1>1 DEF StageOf
  <2> QED
    BY <1>1, <2>1 DEF Abstract!vars
<1>2. ASSUME NEW i \in Rows, NEW due \in BOOLEAN, Enqueue(i, due) PROVE Abstract!Next
  <2>1. StageOf(i) = "none" /\ StageOf(i)' = "waiting"
    BY <1>0, <1>2 DEF Enqueue, StageOf, PassInv
  <2>2. \A j \in Rows : j # i => StageOf(j)' = StageOf(j)
    BY <1>0, <1>2 DEF Enqueue, StageOf
  <2>3. Abstract!Offer(i)
    BY <1>2, <2>1, <2>2 DEF Enqueue, Abstract!Offer
  <2> QED
    BY <2>3 DEF Abstract!Next
<1>3. ASSUME NEW i \in Rows, NotBeforePasses(i) PROVE UNCHANGED Abstract!vars
  <2>1. \A j \in Rows : row'[j].state = row[j].state
    BY <1>0, <1>3 DEF NotBeforePasses, RowType
  <2> QED
    BY <1>1, <1>3, <2>1 DEF NotBeforePasses
<1>4. CASE BeginPass
  BY <1>1, <1>4 DEF BeginPass
<1>5. ASSUME NEW i \in Rows, Skip(i) PROVE UNCHANGED Abstract!vars
  BY <1>1, <1>5 DEF Skip, Visit
<1>6. ASSUME NEW i \in Rows, PublishFails(i) PROVE UNCHANGED Abstract!vars
  <2>1. mark[i] = "none"
    BY <1>6 DEF PublishFails, Visit, PassInv
  <2>2. \A j \in Rows : mark'[j] = "sent" <=> mark[j] = "sent"
    BY <1>0, <1>6, <2>1 DEF PublishFails
  <2> QED
    BY <1>1, <1>6, <2>2 DEF PublishFails, Visit
<1>7. ASSUME NEW i \in Rows, Publish(i) PROVE Abstract!Next
  <2>1. row[i].state = "open" /\ mark[i] = "none" /\ UNCHANGED row
    BY <1>7 DEF Publish, Visit, PassInv
  <2>2. StageOf(i) = "waiting" /\ StageOf(i)' = "sent"
    BY <1>0, <1>7, <2>1 DEF Publish, StageOf
  <2>3. \A j \in Rows : j # i => StageOf(j)' = StageOf(j)
    BY <1>0, <1>7, <2>1 DEF Publish, StageOf
  <2>4. Abstract!Send(i)
    BY <1>7, <2>2, <2>3 DEF Publish, Abstract!Send
  <2> QED
    BY <2>4 DEF Abstract!Next
<1>8. ASSUME NEW to \in {"confirmed", "waiting"}, UNCHANGED copies,
             \A j \in Rows : StageOf(j)' = IF StageOf(j) = "sent" THEN to ELSE StageOf(j)
      PROVE  Abstract!Next
  <2>1. Abstract!Settle(to)
    BY <1>8 DEF Abstract!Settle
  <2> QED
    BY <2>1 DEF Abstract!Next
<1>9. CASE CommitPass
  <2>1. ASSUME NEW j \in Rows
        PROVE  StageOf(j)' = IF StageOf(j) = "sent" THEN "confirmed" ELSE StageOf(j)
    <3>1. mark'[j] = "none"
      BY <1>9 DEF CommitPass, Unmarked
    <3>2. mark[j] # "sent" => row'[j].state = row[j].state
      BY <1>0, <1>9 DEF CommitPass, RowType
    <3>3. mark[j] = "sent" => row'[j].state = "processed" /\ row[j].state = "open"
      BY <1>0, <1>9 DEF CommitPass, RowType, PassInv
    <3>4. row[j].state \in {"none", "open", "processed"}
      BY <1>0 DEF RowType
    <3> QED
      BY <3>1, <3>2, <3>3, <3>4 DEF StageOf
  <2> QED
    BY <1>8, <1>9, <2>1 DEF CommitPass
<1>10. CASE CrashInPass
  <2>1. ASSUME NEW j \in Rows
        PROVE  StageOf(j)' = IF StageOf(j) = "sent" THEN "waiting" ELSE StageOf(j)
    <3>1. mark'[j] = "none" /\ row'[j] = row[j]
      BY <1>10 DEF CrashInPass, Unmarked
    <3>2. row[j].state \in {"none", "open", "processed"}
      BY <1>0 DEF RowType
    <3> QED
      BY <3>1, <3>2 DEF StageOf
  <2> QED
    BY <1>8, <1>10, <2>1 DEF CrashInPass
<1>11. CASE UNCHANGED vars
  BY <1>1, <1>11 DEF vars
<1> QED
  BY <1>2, <1>3, <1>4, <1>5, <1>6, <1>7, <1>9, <1>10, <1>11 DEF Next, Pass

\* The outbox is a relay: a message stays until a pass that really sent it has
\* committed, and is never sent again afterwards.
THEOREM IsRelay == Spec => OutboxIsRelay
<1>1. TypeOK /\ PassInv /\ [Next]_vars => [Abstract!Next]_(Abstract!vars)
  BY StepRefines
<1> QED
  BY <1>1, InitRefines, TypeCorrect, PassInvariant, PTL
  DEF Spec, OutboxIsRelay, Abstract!Spec

-----------------------------------------------------------------------------
(* The memory.  ServedIsEarned is not inductive: a decision writes on the  *)
(* strength of the status it loaded earlier, and a pass promotes what it   *)
(* read earlier; the invariant says what both have read still vouches for. *)

ItemStatuses == {"none", "CANDIDATE", "AUTO_APPROVED", "ACTIVE", "REJECTED", "EXPIRED"}

\* What an item that was promoted, or is about to be, has for good.
Earned(i) == meItem[i].status # "none" /\ meItem[i].high /\ meRuns >= MinRuns

ItemRow == [status : ItemStatuses, verified : BOOLEAN, high : BOOLEAN, expires : Int]

ItemsTyped == meItem \in [Items -> ItemRow]

ReqTyped ==
  meReq \in [Admins -> [step : {"idle"}]
                         \cup [step : {"loaded"}, item : Items, decision : {"activate", "reject"},
                               status : ItemStatuses]]

HistoryEarned == mePromoted \subseteq Items /\ \A i \in mePromoted : Earned(i)
ReadEarned == meP \subseteq Items /\ \A i \in meP : Earned(i)
LiftedPromoted == \A i \in Items : meItem[i].status \in {"AUTO_APPROVED", "ACTIVE"} => i \in mePromoted
LoadedPromoted ==
  \A a \in Admins : meReq[a].step = "loaded" =>
     /\ meItem[meReq[a].item].status # "none"
     /\ meReq[a].status = "AUTO_APPROVED" => meReq[a].item \in mePromoted

MeInv ==
  /\ meRuns \in Int /\ ItemsTyped /\ ReqTyped
  /\ HistoryEarned /\ ReadEarned /\ LiftedPromoted /\ LoadedPromoted

\* What an UPDATE of the status, or of status and verification, leaves of an item.
LEMMA StatusUpdate ==
  ASSUME NEW item \in ItemRow, NEW s \in ItemStatuses
  PROVE  LET new == [item EXCEPT !.status = s]
         IN new \in ItemRow /\ new.status = s /\ new.high = item.high
BY DEF ItemRow

LEMMA VerifiedUpdate ==
  ASSUME NEW item \in ItemRow, NEW s \in ItemStatuses
  PROVE  LET new == [item EXCEPT !.status = s, !.verified = TRUE]
         IN new \in ItemRow /\ new.status = s /\ new.high = item.high
BY DEF ItemRow

LEMMA MeInitHolds == MeInit => MeInv
BY MemoryAssumption
   DEF MeInit, MeInv, ItemsTyped, ReqTyped, HistoryEarned, ReadEarned, LiftedPromoted,
       LoadedPromoted, ItemStatuses, ItemRow, Never

LEMMA MeStep == MeInv /\ [MeNext]_meVars => MeInv'
<1> SUFFICES ASSUME MeInv, [MeNext]_meVars PROVE MeInv'
    OBVIOUS
<1> USE MemoryAssumption
    DEF MeInv, ItemsTyped, ReqTyped, HistoryEarned, ReadEarned, LiftedPromoted,
        LoadedPromoted, ItemStatuses, Earned
<1>1. CASE MeTick
      BY <1>1 DEF MeTick
<1>2. CASE RunCompletes
      BY <1>2 DEF RunCompletes
<1>3. CASE expire_sweep
      BY <1>3 DEF expire_sweep
<1>4. CASE auto_promote_candidates
      BY <1>4 DEF auto_promote_candidates
<1>5. CASE MaintenanceCommits
  <2> DEFINE next(i) == CASE i \in meX -> [meItem[i] EXCEPT !.status = "EXPIRED"]
                          [] i \in meP \ meX -> [meItem[i] EXCEPT !.status = "AUTO_APPROVED", !.verified = TRUE]
                          [] OTHER -> meItem[i]
  <2>1. ASSUME NEW i \in Items
        PROVE  /\ next(i) \in ItemRow /\ next(i).high = meItem[i].high
               /\ meItem[i].status # "none" => next(i).status # "none"
               /\ next(i).status \in {"AUTO_APPROVED", "ACTIVE"} =>
                     meItem[i].status \in {"AUTO_APPROVED", "ACTIVE"} \/ i \in meP
    <3>1. meItem[i] \in ItemRow
      OBVIOUS
    <3>2. CASE i \in meX
      BY <3>1, <3>2, StatusUpdate
    <3>3. CASE i \in meP \ meX
      BY <3>1, <3>3, VerifiedUpdate
    <3>4. CASE i \notin meP \cup meX
      BY <3>1, <3>4
    <3> QED BY <3>2, <3>3, <3>4
  <2>2. meItem' = [i \in Items |-> next(i)]
    BY <1>5 DEF MaintenanceCommits
  <2> HIDE DEF next
  <2>7. ItemsTyped'
    BY <2>1, <2>2
  <2>8. \A i \in Items : /\ meItem'[i].high = meItem[i].high
                         /\ meItem[i].status # "none" => meItem'[i].status # "none"
                         /\ meItem'[i].status \in {"AUTO_APPROVED", "ACTIVE"} =>
                               meItem[i].status \in {"AUTO_APPROVED", "ACTIVE"} \/ i \in meP
    BY <2>1, <2>2
  <2>3. HistoryEarned'
    BY <1>5, <2>8 DEF MaintenanceCommits
  <2>4. ReadEarned'
    BY <1>5 DEF MaintenanceCommits
  <2>5. LiftedPromoted'
    BY <1>5, <2>8 DEF MaintenanceCommits
  <2>6. ReqTyped' /\ LoadedPromoted'
    BY <1>5, <2>8 DEF MaintenanceCommits
  <2> QED BY <1>5, <2>7, <2>3, <2>4, <2>5, <2>6 DEF MaintenanceCommits
<1>6. CASE MaintenanceFails
      BY <1>6 DEF MaintenanceFails
<1>7. ASSUME NEW i \in Items, create_candidate(i) PROVE MeInv'
      BY <1>7 DEF create_candidate, Never, ItemRow
<1>8. ASSUME NEW a \in Admins, NEW i \in Items, NEW d \in {"activate", "reject"}, Decide(a, i, d)
      PROVE MeInv'
      BY <1>8 DEF Decide, ItemRow
<1>9. ASSUME NEW a \in Admins, DecisionCommits(a) PROVE MeInv'
  <2> DEFINE i == meReq[a].item
  <2>1. i \in Items /\ meItem[i].status # "none"
    BY <1>9 DEF DecisionCommits
  <2>2. /\ meItem' \in {[meItem EXCEPT ![i] = mark_active(@, meReq[a].status)],
                        [meItem EXCEPT ![i] = reject(@)]}
        /\ meReq' = [meReq EXCEPT ![a] = [step |-> "idle"]]
        /\ UNCHANGED <<meRuns, mePc, meP, mePromoted>>
    BY <1>9 DEF DecisionCommits
  <2>8. PICK new \in ItemRow : /\ meItem' = [meItem EXCEPT ![i] = new]
                           /\ new.high = meItem[i].high /\ new.status # "none"
    <3>1. meItem[i] \in ItemRow
      BY <2>1
    <3>2. CASE meItem' = [meItem EXCEPT ![i] = reject(@)]
      BY <3>1, <3>2, StatusUpdate DEF reject
    <3>3. CASE meItem' = [meItem EXCEPT ![i] = mark_active(@, meReq[a].status)]
      BY <2>1, <3>1, <3>3, VerifiedUpdate DEF mark_active
    <3> QED BY <2>2, <3>2, <3>3
  <2>3. ItemsTyped'
    BY <2>1, <2>8
  <2>4. \A k \in Items : /\ meItem'[k].high = meItem[k].high
                         /\ meItem[k].status # "none" => meItem'[k].status # "none"
    BY <2>1, <2>8
  <2>5. \A k \in Items : meItem'[k].status \in {"AUTO_APPROVED", "ACTIVE"} => k \in mePromoted
    <3>1. CASE meItem' = [meItem EXCEPT ![i] = reject(@)]
      BY <2>1, <3>1 DEF reject
    <3>2. CASE meItem' = [meItem EXCEPT ![i] = mark_active(@, meReq[a].status)]
      <4>1. meReq[a].status # "APPROVED" /\ (meReq[a].status = "AUTO_APPROVED" => i \in mePromoted)
        BY <1>9 DEF DecisionCommits
      <4> QED BY <2>1, <3>2, <4>1 DEF mark_active
    <3> QED BY <2>2, <3>1, <3>2
  <2>6. ReqTyped' /\ LoadedPromoted'
    BY <2>2, <2>4
  <2>7. HistoryEarned' /\ ReadEarned' /\ LiftedPromoted'
    BY <2>2, <2>4, <2>5
  <2> QED BY <2>2, <2>3, <2>6, <2>7
<1>10. CASE UNCHANGED meVars
      BY <1>10 DEF meVars
<1> QED BY <1>1, <1>2, <1>3, <1>4, <1>5, <1>6, <1>7, <1>8, <1>9, <1>10 DEF MeNext, Maintenance

(* MeInv is invariant, for every set of items and administrators.          *)
THEOREM MemoryInvariant == MeSpec => []MeInv
<1> QED BY MeInitHolds, MeStep, PTL DEF MeSpec

(* Whatever a search serves was promoted by a maintenance pass, has high   *)
(* confidence and enough completed runs behind it, whatever the decisions  *)
(* and passes in flight read before they wrote (decide_memory,             *)
(* auto_promote_memory).                                                   *)
THEOREM ServedEarned == MeSpec => []ServedIsEarned
<1>1. MeInv => ServedIsEarned
  BY DEF MeInv, ItemsTyped, HistoryEarned, LiftedPromoted, Earned, ServedIsEarned, Served, ItemStatuses, ItemRow
<1> QED BY <1>1, MemoryInvariant, PTL

LEMMA RejectedStep == MeInv /\ RejectedInv /\ [MeNext]_meVars => RejectedInv'
<1> SUFFICES ASSUME MeInv, RejectedInv, [MeNext]_meVars PROVE RejectedInv'
    OBVIOUS
<1>t. ItemsTyped /\ ReqTyped /\ meP \subseteq Items
  BY DEF MeInv, ReadEarned
<1>1. CASE MeTick
  BY <1>1 DEF MeTick, RejectedInv
<1>2. CASE RunCompletes
  BY <1>2 DEF RunCompletes, RejectedInv
<1>3. CASE expire_sweep
  BY <1>3 DEF expire_sweep, RejectedInv
<1>4. CASE auto_promote_candidates
  BY <1>4 DEF auto_promote_candidates, RejectedInv
<1>5. CASE MaintenanceCommits
  <2>1. mePc' = "idle" /\ meP' = {} /\ UNCHANGED <<meReq, meRejected, meStale>>
    BY <1>5 DEF MaintenanceCommits
  <2>2. ASSUME NEW i \in meRejected \ meStale PROVE meItem'[i].status \in {"REJECTED", "EXPIRED"}
    <3>1. i \in Items /\ meItem[i] \in ItemRow /\ i \notin meP /\ meItem[i].status \in {"REJECTED", "EXPIRED"}
      BY <1>t, <2>2 DEF RejectedInv, ItemsTyped
    <3>2. meItem'[i] = IF i \in meX THEN [meItem[i] EXCEPT !.status = "EXPIRED"] ELSE meItem[i]
      BY <1>5, <3>1 DEF MaintenanceCommits
    <3>3. [meItem[i] EXCEPT !.status = "EXPIRED"].status = "EXPIRED"
      BY <3>1, StatusUpdate DEF ItemStatuses
    <3> QED BY <3>1, <3>2, <3>3
  <2> QED BY <2>1, <2>2 DEF RejectedInv
<1>6. CASE MaintenanceFails
  BY <1>6 DEF MaintenanceFails, RejectedInv
<1>7. ASSUME NEW i \in Items, create_candidate(i) PROVE RejectedInv'
  <2>1. i \notin meRejected \ meStale
    BY <1>7 DEF create_candidate, RejectedInv
  <2>2. \A k \in Items \ {i} : meItem'[k] = meItem[k]
    BY <1>7, <1>t DEF create_candidate, ItemsTyped
  <2> QED BY <1>7, <2>1, <2>2 DEF create_candidate, RejectedInv
<1>8. ASSUME NEW a \in Admins, NEW i \in Items, NEW d \in {"activate", "reject"}, Decide(a, i, d)
      PROVE RejectedInv'
  BY <1>8, <1>t DEF Decide, ReqTyped, RejectedInv
<1>9. ASSUME NEW a \in Admins, DecisionCommits(a) PROVE RejectedInv'
  <2> DEFINE i == meReq[a].item
  <2>1. i \in Items /\ meReq[a].step = "loaded" /\ meItem[i] \in ItemRow
    BY <1>9, <1>t DEF DecisionCommits, ReqTyped, ItemsTyped
  <2>2. meReq' = [meReq EXCEPT ![a] = [step |-> "idle"]] /\ UNCHANGED <<mePc, meP>>
    BY <1>9 DEF DecisionCommits
  <2>3. /\ \A b \in Admins \ {a} : meReq'[b] = meReq[b]
        /\ meReq'[a].step = "idle"
    BY <2>2, <1>t DEF ReqTyped
  <2>4. CASE /\ meReq[a].decision = "activate"
             /\ meItem' = [meItem EXCEPT ![i] = mark_active(@, meReq[a].status)]
             /\ UNCHANGED <<meRejected, meStale>>
    <3>1. \A k \in meRejected \ meStale : meItem'[k] = meItem[k]
      BY <1>t, <2>1, <2>4 DEF mark_active, RejectedInv, ItemsTyped
    <3> QED BY <2>2, <2>3, <2>4, <3>1 DEF RejectedInv
  <2>5. CASE /\ meReq[a].decision = "reject"
             /\ meItem' = [meItem EXCEPT ![i] = reject(@)]
             /\ meRejected' = meRejected \cup {i}
             /\ meStale' = IF ReadBefore(a, i) THEN meStale \cup {i} ELSE meStale
    <3> HIDE DEF i
    <3>1. reject(meItem[i]).status = "REJECTED"
      BY <2>1, StatusUpdate DEF reject, ItemStatuses
    <3>2. \A k \in Items : meItem'[k] = IF k = i THEN reject(meItem[i]) ELSE meItem[k]
      BY <1>t, <2>1, <2>5 DEF ItemsTyped
    <3>3. CASE i \in meStale'
      <4>1. meRejected' \ meStale' \subseteq (meRejected \ meStale) \ {i}
        BY <2>5, <3>3
      <4> QED BY <2>2, <2>3, <3>2, <4>1 DEF RejectedInv
    <3>4. CASE i \notin meStale'
      <4>1. ~ReadBefore(a, i) /\ meStale' = meStale
        BY <2>5, <3>4
      <4>2. i \notin meP
        BY <4>1 DEF ReadBefore, RejectedInv
      <4>3. \A b \in Admins \ {a} :
              ~(meReq[b].step = "loaded" /\ meReq[b].item = i /\ meReq[b].decision = "activate")
        BY <4>1 DEF ReadBefore
      <4> QED BY <2>1, <2>2, <2>3, <2>5, <3>1, <3>2, <4>1, <4>2, <4>3 DEF RejectedInv
    <3> QED BY <3>3, <3>4
  <2> QED BY <1>9, <2>4, <2>5 DEF DecisionCommits
<1>10. CASE UNCHANGED meVars
  BY <1>10 DEF meVars, RejectedInv
<1> QED BY <1>1, <1>2, <1>3, <1>4, <1>5, <1>6, <1>7, <1>8, <1>9, <1>10 DEF MeNext, Maintenance

(* A rejected item is served to nobody again, whatever passes and other    *)
(* decisions do after the rejection, unless one of them had read the item  *)
(* before it (decide_memory and auto_promote_memory write what they read). *)
THEOREM RejectionStands == MeSpec => []RejectedStaysOut
<1>1. MeInit => RejectedInv
  BY DEF MeInit, RejectedInv
<1>2. RejectedInv => RejectedStaysOut
  BY DEF RejectedInv, RejectedStaysOut, Served
<1> QED BY <1>1, <1>2, MemoryInvariant, RejectedStep, PTL DEF MeSpec

-----------------------------------------------------------------------------
(* The webhook inbox.  That an update is handled once is not inductive:    *)
(* between the look-up and the insert, and while a handler works, the      *)
(* table and the history disagree; the invariant (InboxInv) says how.      *)

InSteps == {"look", "insert", "handle"}
OneIf(b) == IF b THEN 1 ELSE 0

\* A set that changes by one element at most.
LEMMA CountMoves ==
  ASSUME NEW S, NEW T, NEW x, IsFiniteSet(S), IsFiniteSet(T), S \ {x} = T \ {x}
  PROVE  /\ Cardinality(S) \in Nat /\ Cardinality(T) \in Nat
         /\ Cardinality(T) = Cardinality(S) - OneIf(x \in S) + OneIf(x \in T)
<1>1. /\ Cardinality(S) \in Nat /\ Cardinality(T) \in Nat
      /\ Cardinality(S \ {x}) = IF x \in S THEN Cardinality(S) - 1 ELSE Cardinality(S)
      /\ Cardinality(T \ {x}) = IF x \in T THEN Cardinality(T) - 1 ELSE Cardinality(T)
  BY FS_RemoveElement, FS_CardinalityType
<1>2. Cardinality(S \ {x}) = Cardinality(T \ {x})
  OBVIOUS
<1>3. /\ x \in S => OneIf(x \in S) = 1
      /\ x \notin S => OneIf(x \in S) = 0
      /\ x \in T => OneIf(x \in T) = 1
      /\ x \notin T => OneIf(x \in T) = 0
  BY DEF OneIf
<1> QED
  BY <1>1, <1>2, <1>3

LEMMA InPending ==
  ASSUME NEW v \in Updates
  PROVE  /\ IsFiniteSet(Attempts(v)) /\ IsFiniteSet(Unsaid(v))
         /\ Cardinality(Attempts(v)) \in Nat /\ Cardinality(Unsaid(v)) \in Nat
<1>1. Attempts(v) \subseteq Handlers /\ Unsaid(v) \subseteq Handlers /\ IsFiniteSet(Handlers)
  BY InboxAssumption DEF Attempts, Unsaid, Busy
<1> QED
  BY <1>1, FS_Subset, FS_CardinalityType

\* What a step of one request does to the counts of an update.
LEMMA OneRequestMoves ==
  ASSUME InTypeOK, NEW h \in Handlers, NEW v \in Updates,
         \A g \in Handlers \ {h} : inPc'[g] = inPc[g] /\ inUpd'[g] = inUpd[g]
  PROVE  /\ Cardinality(Attempts(v)) \in Nat /\ Cardinality(Attempts(v)') \in Nat
         /\ Cardinality(Unsaid(v)) \in Nat /\ Cardinality(Unsaid(v)') \in Nat
         /\ Cardinality(Attempts(v)') = Cardinality(Attempts(v))
              - OneIf(inUpd[h] = v /\ inPc[h] \in InSteps) + OneIf(inUpd'[h] = v /\ inPc'[h] \in InSteps)
         /\ Cardinality(Unsaid(v)') = Cardinality(Unsaid(v))
              - OneIf(inUpd[h] = v /\ inPc[h] = "done") + OneIf(inUpd'[h] = v /\ inPc'[h] = "done")
<1>1. /\ h \in Attempts(v) <=> (inUpd[h] = v /\ inPc[h] \in InSteps)
      /\ h \in Attempts(v)' <=> (inUpd'[h] = v /\ inPc'[h] \in InSteps)
      /\ h \in Unsaid(v) <=> (inUpd[h] = v /\ inPc[h] = "done")
      /\ h \in Unsaid(v)' <=> (inUpd'[h] = v /\ inPc'[h] = "done")
  BY DEF Attempts, Unsaid, Busy, InSteps
<1>2. Attempts(v) \ {h} = Attempts(v)' \ {h} /\ Unsaid(v) \ {h} = Unsaid(v)' \ {h}
  BY DEF Attempts, Unsaid, Busy
<1>3. IsFiniteSet(Attempts(v)) /\ IsFiniteSet(Unsaid(v))
  BY InPending
<1>4. Attempts(v)' \subseteq Handlers /\ Unsaid(v)' \subseteq Handlers /\ IsFiniteSet(Handlers)
  BY InboxAssumption DEF Attempts, Unsaid, Busy
<1>5. IsFiniteSet(Attempts(v)') /\ IsFiniteSet(Unsaid(v)')
  BY <1>4, FS_Subset
<1>6. /\ Cardinality(Attempts(v)) \in Nat /\ Cardinality(Attempts(v)') \in Nat
      /\ Cardinality(Attempts(v)') = Cardinality(Attempts(v)) - OneIf(h \in Attempts(v)) + OneIf(h \in Attempts(v)')
  BY <1>2, <1>3, <1>5, CountMoves
<1>7. /\ Cardinality(Unsaid(v)) \in Nat /\ Cardinality(Unsaid(v)') \in Nat
      /\ Cardinality(Unsaid(v)') = Cardinality(Unsaid(v)) - OneIf(h \in Unsaid(v)) + OneIf(h \in Unsaid(v)')
  BY <1>2, <1>3, <1>5, CountMoves
<1> QED
  BY <1>1, <1>6, <1>7 DEF OneIf

LEMMA InTypeStep ==
  ASSUME InTypeOK, InNext
  PROVE  InTypeOK'
<1>1. ASSUME NEW h \in Handlers, Look(h)
      PROVE  InTypeOK'
  BY <1>1 DEF InTypeOK, Look, Goto, Answer200, InFault, Excuse
<1>2. ASSUME NEW h \in Handlers, Insert(h)
      PROVE  InTypeOK'
  BY <1>2 DEF InTypeOK, Insert, Goto, Answer200, InFault, Statuses
<1>3. ASSUME NEW h \in Handlers, Handle(h)
      PROVE  InTypeOK'
  BY <1>3 DEF InTypeOK, Handle, Goto, InFault, Excuse
<1>4. ASSUME NEW h \in Handlers, MarkProcessed(h)
      PROVE  InTypeOK'
  BY <1>4 DEF InTypeOK, MarkProcessed, Goto, Answer200, InFault, Statuses
<1>5. ASSUME NEW h \in Handlers, MarkFailed(h)
      PROVE  InTypeOK'
  BY <1>5 DEF InTypeOK, MarkFailed, Goto, InFault, Statuses
<1>6. ASSUME NEW h \in Handlers, NEW u \in Updates, Deliver(h, u)
      PROVE  InTypeOK'
  BY <1>6 DEF InTypeOK, Deliver, Goto, Excuse
<1>7. CASE InCrash
  <2>1. /\ inExcused' = [u \in Updates |-> inExcused[u] + Cardinality(Unsaid(u))]
        /\ inPc' = [h \in Handlers |-> "idle"]
        /\ inFaults' = inFaults + 1
        /\ UNCHANGED <<inRow, inUpd, inAcked, inDone, inRaced, inSwallowed>>
    BY <1>7 DEF InCrash, InFault, Unsaid
  <2>2. inExcused' \in [Updates -> Nat]
    BY <2>1, InPending DEF InTypeOK
  <2> QED
    BY <2>1, <2>2 DEF InTypeOK
<1> QED
  BY <1>1, <1>2, <1>3, <1>4, <1>5, <1>6, <1>7 DEF InNext, InStep

\* The request's own variables after a step that sends it somewhere.
LEMMA Moves ==
  ASSUME InTypeOK, NEW h \in Handlers, NEW step, Goto(h, step)
  PROVE  inPc'[h] = step /\ \A g \in Handlers \ {h} : inPc'[g] = inPc[g]
  BY DEF InTypeOK, Goto

LEMMA LookKeeps ==
  ASSUME InboxInv, NEW h \in Handlers, Look(h), InTypeOK'
  PROVE  InboxInv'
<1> DEFINE u == inUpd[h]
<1>1. u \in Updates /\ InTypeOK /\ inPc[h] = "look"
  BY DEF InboxInv, InTypeOK, Look
<1>2. /\ inPc'[h] \in {"idle", "insert", "handle"}
      /\ \A g \in Handlers \ {h} : inPc'[g] = inPc[g] /\ inUpd'[g] = inUpd[g]
      /\ inUpd' = inUpd /\ inDone' = inDone /\ inRow' = inRow /\ inRaced' = inRaced
      /\ inSwallowed' = inSwallowed
  BY <1>1, Moves DEF Look, Answer200
<1>3. /\ inAcked \subseteq inAcked'
      /\ inAcked' \subseteq inAcked \cup {u}
      /\ u \in inAcked' \ inAcked => inRow[u] = "PROCESSED"
      /\ \A v \in Updates : inExcused'[v] >= inExcused[v]
  BY <1>1 DEF Look, Answer200, Excuse, InFault, InboxInv, InTypeOK
<1>4. MarksAreTrue'
  BY <1>1, <1>2 DEF InboxInv, MarksAreTrue
<1>5. AckedIsHandled'
  BY <1>1, <1>2, <1>3 DEF InboxInv, MarksAreTrue, AckedIsHandled, Settled
<1>6. ASSUME NEW v \in Updates
      PROVE  /\ inDone'[v] + Cardinality(Attempts(v)') <= 1 + inExcused'[v]
             /\ v \notin inAcked' => inDone'[v] <= inExcused'[v] + Cardinality(Unsaid(v)')
  <2>1. /\ inDone[v] + Cardinality(Attempts(v)) <= 1 + inExcused[v]
        /\ v \notin inAcked => inDone[v] <= inExcused[v] + Cardinality(Unsaid(v))
    BY DEF InboxInv, AttemptsAreExcused, FirstIsOpen
  <2>2. /\ inDone[v] \in Nat /\ inExcused[v] \in Nat /\ inExcused'[v] \in Nat
        /\ inDone'[v] = inDone[v] /\ inExcused'[v] >= inExcused[v]
        /\ v \notin inAcked' => v \notin inAcked
    BY <1>1, <1>2, <1>3 DEF InTypeOK
  <2>3. /\ Cardinality(Attempts(v)) \in Nat /\ Cardinality(Attempts(v)') \in Nat
        /\ Cardinality(Unsaid(v)) \in Nat /\ Cardinality(Unsaid(v)') \in Nat
        /\ Cardinality(Attempts(v)') <= Cardinality(Attempts(v))
        /\ Cardinality(Unsaid(v)') = Cardinality(Unsaid(v))
    BY <1>1, <1>2, OneRequestMoves DEF InSteps, OneIf
  <2> QED
    BY <2>1, <2>2, <2>3
<1> QED
  BY <1>4, <1>5, <1>6 DEF InboxInv, AttemptsAreExcused, FirstIsOpen

LEMMA InsertKeeps ==
  ASSUME InboxInv, NEW h \in Handlers, Insert(h), InTypeOK'
  PROVE  InboxInv'
<1> DEFINE u == inUpd[h]
<1>1. u \in Updates /\ InTypeOK /\ inPc[h] = "insert"
  BY DEF InboxInv, InTypeOK, Insert
<1>2. /\ inPc'[h] \in {"idle", "handle"}
      /\ \A g \in Handlers \ {h} : inPc'[g] = inPc[g] /\ inUpd'[g] = inUpd[g]
      /\ inUpd' = inUpd /\ inDone' = inDone /\ inExcused' = inExcused
      /\ inSwallowed' = inSwallowed
  BY <1>1, Moves DEF Insert, Answer200
<1>3. /\ inAcked \subseteq inAcked' /\ inRaced \subseteq inRaced'
      /\ inAcked' \subseteq inAcked \cup {u}
      /\ u \in inAcked' \ inAcked => u \in inRaced'
      /\ \A v \in Updates : inRow'[v] = "PROCESSED" => inRow[v] = "PROCESSED"
  BY <1>1 DEF Insert, Answer200, InFault, InTypeOK
<1>4. MarksAreTrue'
  BY <1>1, <1>2, <1>3 DEF InboxInv, MarksAreTrue
<1>5. AckedIsHandled'
  BY <1>1, <1>2, <1>3 DEF InboxInv, AckedIsHandled, Settled
<1>6. ASSUME NEW v \in Updates
      PROVE  /\ inDone'[v] + Cardinality(Attempts(v)') <= 1 + inExcused'[v]
             /\ v \notin inAcked' => inDone'[v] <= inExcused'[v] + Cardinality(Unsaid(v)')
  <2>1. /\ inDone[v] + Cardinality(Attempts(v)) <= 1 + inExcused[v]
        /\ v \notin inAcked => inDone[v] <= inExcused[v] + Cardinality(Unsaid(v))
    BY DEF InboxInv, AttemptsAreExcused, FirstIsOpen
  <2>2. /\ inDone[v] \in Nat /\ inExcused[v] \in Nat
        /\ inDone'[v] = inDone[v] /\ inExcused'[v] = inExcused[v]
        /\ v \notin inAcked' => v \notin inAcked
    BY <1>1, <1>2, <1>3 DEF InTypeOK
  <2>3. /\ Cardinality(Attempts(v)) \in Nat /\ Cardinality(Attempts(v)') \in Nat
        /\ Cardinality(Unsaid(v)) \in Nat /\ Cardinality(Unsaid(v)') \in Nat
        /\ Cardinality(Attempts(v)') <= Cardinality(Attempts(v))
        /\ Cardinality(Unsaid(v)') = Cardinality(Unsaid(v))
    BY <1>1, <1>2, OneRequestMoves DEF InSteps, OneIf
  <2> QED
    BY <2>1, <2>2, <2>3
<1> QED
  BY <1>4, <1>5, <1>6 DEF InboxInv, AttemptsAreExcused, FirstIsOpen

LEMMA HandleKeeps ==
  ASSUME InboxInv, NEW h \in Handlers, Handle(h), InTypeOK'
  PROVE  InboxInv'
<1> DEFINE u == inUpd[h]
<1>1. u \in Updates /\ InTypeOK /\ inPc[h] = "handle"
  BY DEF InboxInv, InTypeOK, Handle
<1>2. /\ inPc'[h] \in {"done", "swallowed", "failed"}
      /\ \A g \in Handlers \ {h} : inPc'[g] = inPc[g] /\ inUpd'[g] = inUpd[g]
      /\ inUpd' = inUpd /\ inAcked' = inAcked /\ inRow' = inRow /\ inRaced' = inRaced
      /\ inExcused' = inExcused
  BY <1>1, Moves DEF Handle
<1>3. /\ \A v \in Updates \ {u} : inDone'[v] = inDone[v]
      /\ inSwallowed \subseteq inSwallowed'
      /\ \/ inPc'[h] = "done" /\ inDone'[u] = inDone[u] + 1
         \/ inPc'[h] = "swallowed" /\ inDone'[u] = inDone[u] /\ u \in inSwallowed'
         \/ inPc'[h] = "failed" /\ inDone'[u] = inDone[u]
  BY <1>1, Moves DEF Handle, InTypeOK
<1>4. \A v \in Updates : inDone[v] \in Nat /\ inDone'[v] \in Nat /\ inDone'[v] >= inDone[v]
  BY <1>1, <1>3 DEF InTypeOK
<1>5. MarksAreTrue'
  BY <1>1, <1>2, <1>3, <1>4 DEF InboxInv, MarksAreTrue, InTypeOK
<1>6. AckedIsHandled'
  BY <1>1, <1>2, <1>3, <1>4 DEF InboxInv, AckedIsHandled, Settled, InTypeOK
<1>7. ASSUME NEW v \in Updates
      PROVE  /\ inDone'[v] + Cardinality(Attempts(v)') <= 1 + inExcused'[v]
             /\ v \notin inAcked' => inDone'[v] <= inExcused'[v] + Cardinality(Unsaid(v)')
  <2>1. /\ inDone[v] + Cardinality(Attempts(v)) <= 1 + inExcused[v]
        /\ v \notin inAcked => inDone[v] <= inExcused[v] + Cardinality(Unsaid(v))
    BY DEF InboxInv, AttemptsAreExcused, FirstIsOpen
  <2>2. inDone[v] \in Nat /\ inExcused[v] \in Nat /\ v \notin inAcked' => v \notin inAcked
    BY <1>1, <1>2 DEF InTypeOK
  <2>3. /\ Cardinality(Attempts(v)) \in Nat /\ Cardinality(Attempts(v)') \in Nat
        /\ Cardinality(Unsaid(v)) \in Nat /\ Cardinality(Unsaid(v)') \in Nat
        /\ Cardinality(Attempts(v)') = Cardinality(Attempts(v)) - OneIf(u = v)
        /\ Cardinality(Unsaid(v)') = Cardinality(Unsaid(v)) + OneIf(u = v /\ inPc'[h] = "done")
    BY <1>1, <1>2, OneRequestMoves DEF InSteps, OneIf
  <2>4. CASE v = u
    BY <1>2, <1>3, <2>1, <2>2, <2>3, <2>4 DEF OneIf, InboxInv, InTypeOK
  <2>5. CASE v # u
    BY <1>2, <1>3, <2>1, <2>2, <2>3, <2>5 DEF OneIf, InboxInv, InTypeOK
  <2> QED
    BY <2>4, <2>5
<1> QED
  BY <1>5, <1>6, <1>7 DEF InboxInv, AttemptsAreExcused, FirstIsOpen

LEMMA MarkProcessedKeeps ==
  ASSUME InboxInv, NEW h \in Handlers, MarkProcessed(h), InTypeOK'
  PROVE  InboxInv'
<1> DEFINE u == inUpd[h]
<1>1. /\ u \in Updates /\ InTypeOK /\ inPc[h] \in {"done", "swallowed"}
      /\ inDone[u] > 0 \/ u \in inSwallowed
  BY DEF InboxInv, InTypeOK, MarksAreTrue, MarkProcessed
<1>0. /\ Goto(h, "idle") /\ inAcked' = inAcked \cup {u}
      /\ inUpd' = inUpd /\ inDone' = inDone /\ inExcused' = inExcused /\ inRaced' = inRaced
      /\ inSwallowed' = inSwallowed
  BY DEF MarkProcessed, Answer200
<1>2. /\ inPc'[h] = "idle" /\ inAcked' = inAcked \cup {u}
      /\ \A g \in Handlers \ {h} : inPc'[g] = inPc[g] /\ inUpd'[g] = inUpd[g]
      /\ inUpd' = inUpd /\ inDone' = inDone /\ inExcused' = inExcused /\ inRaced' = inRaced
      /\ inSwallowed' = inSwallowed
  BY <1>0, <1>1, Moves
<1>3. \A v \in Updates \ {u} : inRow'[v] = inRow[v]
  BY <1>1 DEF MarkProcessed, InTypeOK
<1>4. MarksAreTrue'
  BY <1>1, <1>2, <1>3 DEF InboxInv, MarksAreTrue
<1>5. AckedIsHandled'
  BY <1>1, <1>2 DEF InboxInv, AckedIsHandled, Settled
<1>6. ASSUME NEW v \in Updates
      PROVE  /\ inDone'[v] + Cardinality(Attempts(v)') <= 1 + inExcused'[v]
             /\ v \notin inAcked' => inDone'[v] <= inExcused'[v] + Cardinality(Unsaid(v)')
  <2>1. /\ inDone[v] + Cardinality(Attempts(v)) <= 1 + inExcused[v]
        /\ v \notin inAcked => inDone[v] <= inExcused[v] + Cardinality(Unsaid(v))
    BY DEF InboxInv, AttemptsAreExcused, FirstIsOpen
  <2>2. /\ Cardinality(Attempts(v)') = Cardinality(Attempts(v))
        /\ v # u => Cardinality(Unsaid(v)') = Cardinality(Unsaid(v))
    <3>1. /\ inPc[h] \notin InSteps /\ inPc'[h] \notin InSteps /\ inPc'[h] # "done"
          /\ inUpd'[h] = inUpd[h]
      BY <1>1, <1>2 DEF InSteps
    <3>2. /\ Cardinality(Attempts(v)) \in Nat /\ Cardinality(Unsaid(v)) \in Nat
          /\ Cardinality(Attempts(v)') = Cardinality(Attempts(v)) - 0 + 0
          /\ v # u => Cardinality(Unsaid(v)') = Cardinality(Unsaid(v)) - 0 + 0
      BY <1>1, <1>2, <3>1, OneRequestMoves DEF OneIf
    <3> QED
      BY <3>2
  <2> QED
    BY <1>2, <2>1, <2>2
<1> QED
  BY <1>4, <1>5, <1>6 DEF InboxInv, AttemptsAreExcused, FirstIsOpen

LEMMA MarkFailedKeeps ==
  ASSUME InboxInv, NEW h \in Handlers, MarkFailed(h), InTypeOK'
  PROVE  InboxInv'
<1> DEFINE u == inUpd[h]
<1>1. u \in Updates /\ InTypeOK /\ inPc[h] = "failed"
  BY DEF InboxInv, InTypeOK, MarkFailed
<1>2. /\ inPc'[h] = "idle" /\ inAcked' = inAcked
      /\ \A g \in Handlers \ {h} : inPc'[g] = inPc[g] /\ inUpd'[g] = inUpd[g]
      /\ inUpd' = inUpd /\ inDone' = inDone /\ inExcused' = inExcused /\ inRaced' = inRaced
      /\ inSwallowed' = inSwallowed
  BY <1>1, Moves DEF MarkFailed
<1>3. \A v \in Updates : inRow'[v] = "PROCESSED" => inRow[v] = "PROCESSED"
  BY <1>1 DEF MarkFailed, InTypeOK
<1>4. MarksAreTrue' /\ AckedIsHandled'
  BY <1>1, <1>2, <1>3 DEF InboxInv, MarksAreTrue, AckedIsHandled, Settled
<1>5. ASSUME NEW v \in Updates
      PROVE  /\ Cardinality(Attempts(v)') = Cardinality(Attempts(v))
             /\ Cardinality(Unsaid(v)') = Cardinality(Unsaid(v))
  BY <1>1, <1>2, OneRequestMoves DEF InSteps, OneIf
<1>6. AttemptsAreExcused' /\ FirstIsOpen'
  BY <1>2, <1>5 DEF InboxInv, AttemptsAreExcused, FirstIsOpen
<1> QED
  BY <1>4, <1>6 DEF InboxInv

\* An update nobody is busy with has nothing that could still be said.
LEMMA NobodyIsBusy ==
  ASSUME NEW v \in Updates, Busy(v) = {}
  PROVE  Cardinality(Attempts(v)) = 0 /\ Cardinality(Unsaid(v)) = 0
<1>1. Attempts(v) = {} /\ Unsaid(v) = {}
  BY DEF Attempts, Unsaid
<1> QED
  BY <1>1, FS_EmptySet

LEMMA DeliverKeeps ==
  ASSUME InboxInv, NEW h \in Handlers, NEW u \in Updates, Deliver(h, u), InTypeOK'
  PROVE  InboxInv'
<1>1. InTypeOK /\ inPc[h] = "idle" /\ u \notin inAcked
  BY DEF InboxInv, Deliver
<1>2. /\ inPc'[h] = "look" /\ inUpd'[h] = u
      /\ \A g \in Handlers \ {h} : inPc'[g] = inPc[g] /\ inUpd'[g] = inUpd[g]
      /\ inDone' = inDone /\ inRow' = inRow /\ inAcked' = inAcked /\ inRaced' = inRaced
      /\ inSwallowed' = inSwallowed
  BY <1>1, Moves DEF Deliver, InTypeOK
<1>3. /\ Busy(u) # {} => inExcused'[u] = inExcused[u] + 1
      /\ Busy(u) = {} => inExcused'[u] = inExcused[u]
      /\ \A v \in Updates \ {u} : inExcused'[v] = inExcused[v]
  BY <1>1 DEF Deliver, Excuse, InTypeOK
<1>4. MarksAreTrue' /\ AckedIsHandled'
  BY <1>1, <1>2 DEF InboxInv, MarksAreTrue, AckedIsHandled, Settled
<1>5. ASSUME NEW v \in Updates
      PROVE  /\ inDone'[v] + Cardinality(Attempts(v)') <= 1 + inExcused'[v]
             /\ v \notin inAcked' => inDone'[v] <= inExcused'[v] + Cardinality(Unsaid(v)')
  <2>1. /\ inDone[v] + Cardinality(Attempts(v)) <= 1 + inExcused[v]
        /\ v \notin inAcked => inDone[v] <= inExcused[v] + Cardinality(Unsaid(v))
    BY DEF InboxInv, AttemptsAreExcused, FirstIsOpen
  <2>2. inDone[v] \in Nat /\ inExcused[v] \in Nat
    BY <1>1 DEF InTypeOK
  <2>3. /\ Cardinality(Attempts(v)) \in Nat /\ Cardinality(Attempts(v)') \in Nat
        /\ Cardinality(Unsaid(v)) \in Nat /\ Cardinality(Unsaid(v)') \in Nat
        /\ Cardinality(Attempts(v)') = Cardinality(Attempts(v)) + OneIf(u = v)
        /\ Cardinality(Unsaid(v)') = Cardinality(Unsaid(v))
    BY <1>1, <1>2, OneRequestMoves DEF InSteps, OneIf
  <2>4. CASE v = u /\ Busy(u) # {}
    BY <1>2, <1>3, <2>1, <2>2, <2>3, <2>4 DEF OneIf
  <2>5. CASE v = u /\ Busy(u) = {}
    <3>1. Cardinality(Attempts(u)) = 0 /\ Cardinality(Unsaid(u)) = 0
      BY <2>5, NobodyIsBusy
    <3> QED
      BY <1>1, <1>2, <1>3, <2>1, <2>2, <2>3, <2>5, <3>1 DEF OneIf
  <2>6. CASE v # u
    BY <1>2, <1>3, <2>1, <2>2, <2>3, <2>6 DEF OneIf
  <2> QED
    BY <2>4, <2>5, <2>6
<1> QED
  BY <1>4, <1>5 DEF InboxInv, AttemptsAreExcused, FirstIsOpen

LEMMA InCrashKeeps ==
  ASSUME InboxInv, InCrash, InTypeOK'
  PROVE  InboxInv'
<1>1. /\ inExcused' = [u \in Updates |-> inExcused[u] + Cardinality(Unsaid(u))]
      /\ inPc' = [h \in Handlers |-> "idle"]
      /\ UNCHANGED <<inRow, inUpd, inAcked, inDone, inRaced, inSwallowed>>
  BY DEF InCrash, Unsaid
<1>2. MarksAreTrue' /\ AckedIsHandled'
  BY <1>1 DEF InboxInv, MarksAreTrue, AckedIsHandled, Settled
<1>3. ASSUME NEW v \in Updates
      PROVE  /\ inDone'[v] + Cardinality(Attempts(v)') <= 1 + inExcused'[v]
             /\ v \notin inAcked' => inDone'[v] <= inExcused'[v] + Cardinality(Unsaid(v)')
  <2>1. /\ inDone[v] + Cardinality(Attempts(v)) <= 1 + inExcused[v]
        /\ v \notin inAcked => inDone[v] <= inExcused[v] + Cardinality(Unsaid(v))
    BY DEF InboxInv, AttemptsAreExcused, FirstIsOpen
  <2>2. inDone[v] \in Nat /\ inExcused[v] \in Nat
    BY DEF InboxInv, InTypeOK
  <2>3. Attempts(v)' = {} /\ Unsaid(v)' = {}
    BY <1>1 DEF Attempts, Unsaid, Busy
  <2>4. Cardinality(Attempts(v)') = 0 /\ Cardinality(Unsaid(v)') = 0
    BY <2>3, FS_EmptySet
  <2>5. Cardinality(Attempts(v)) \in Nat /\ Cardinality(Unsaid(v)) \in Nat
    BY InPending
  <2>6. inDone'[v] = inDone[v] /\ inExcused'[v] = inExcused[v] + Cardinality(Unsaid(v)) /\ inAcked' = inAcked
    BY <1>1
  <2> QED
    BY <2>1, <2>2, <2>4, <2>5, <2>6
<1> QED
  BY <1>2, <1>3 DEF InboxInv, AttemptsAreExcused, FirstIsOpen

LEMMA InboxBegins == InInit => InboxInv
<1> SUFFICES ASSUME InInit PROVE InboxInv
  OBVIOUS
<1>1. (CHOOSE u \in Updates : TRUE) \in Updates
  BY InboxAssumption
<1>2. InTypeOK
  BY <1>1 DEF InInit, InTypeOK, Statuses
<1>3. \A v \in Updates : Cardinality(Attempts(v)) = 0 /\ Cardinality(Unsaid(v)) = 0
  BY NobodyIsBusy DEF InInit, Busy
<1>4. MarksAreTrue /\ AckedIsHandled
  BY DEF InInit, MarksAreTrue, AckedIsHandled
<1>5. AttemptsAreExcused /\ FirstIsOpen
  BY <1>3 DEF InInit, AttemptsAreExcused, FirstIsOpen
<1> QED
  BY <1>2, <1>4, <1>5 DEF InboxInv

LEMMA InboxStep == InboxInv /\ [InNext]_inVars => InboxInv'
<1> SUFFICES ASSUME InboxInv, [InNext]_inVars PROVE InboxInv'
  OBVIOUS
<1>1. CASE UNCHANGED inVars
  BY <1>1 DEF inVars, InboxInv, InTypeOK, MarksAreTrue, AckedIsHandled, AttemptsAreExcused, FirstIsOpen,
              Attempts, Unsaid, Busy, Settled
<1>2. CASE InNext
  <2>1. InTypeOK'
    BY <1>2, InTypeStep DEF InboxInv
  <2> QED
    BY <1>2, <2>1, LookKeeps, InsertKeeps, HandleKeeps, MarkProcessedKeeps, MarkFailedKeeps,
       DeliverKeeps, InCrashKeeps DEF InNext, InStep
<1> QED
  BY <1>1, <1>2

\* The inbox's inductive invariant.
THEOREM InboxInvariant == InSpec => []InboxInv
  BY InboxBegins, InboxStep, PTL DEF InSpec

\* HandledOnce, for any number of updates and requests: what was answered for
\* was carried out, lost to a handler's swallowed failure, or taken for a
\* duplicate, and each repetition has a reason.
THEOREM UpdateIsHandledOnce == InSpec => []HandledOnce
<1>1. InboxInv => HandledOnce
  <2> SUFFICES ASSUME InboxInv, NEW u \in Updates PROVE inDone[u] <= 1 + inExcused[u]
    BY DEF HandledOnce, RepeatsAreExcused, InboxInv
  <2>1. inDone[u] + Cardinality(Attempts(u)) <= 1 + inExcused[u]
    BY DEF InboxInv, AttemptsAreExcused
  <2>2. Cardinality(Attempts(u)) \in Nat /\ inDone[u] \in Nat /\ inExcused[u] \in Nat
    BY InPending DEF InboxInv, InTypeOK
  <2> QED
    BY <2>1, <2>2
<1> QED
  BY <1>1, InboxInvariant, PTL
=============================================================================
