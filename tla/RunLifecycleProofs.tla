------------------------- MODULE RunLifecycleProofs -------------------------
(***************************************************************************)
(* Theorems about RunLifecycle, for any number of workers, runs,           *)
(* approvals, stream entries and faults.                                   *)
(***************************************************************************)
EXTENDS RunLifecycle, TLAPS

-----------------------------------------------------------------------------
(* Updates of rows and of a worker's local state keep their types.         *)

\* Updating one field of a row of table runs gives a row.
LEMMA RunRowUpdates ==
  \A x \in RunRow :
    /\ x.status \in RunStatus /\ x.retries \in Nat
    /\ \A s \in RunStatus : [x EXCEPT !.status = s] \in RunRow
    /\ \A c \in {"none", "pause", "stop"} : [x EXCEPT !.control = c] \in RunRow
    /\ \A l \in {"null", "live", "expired"} : [x EXCEPT !.lease = l] \in RunRow
  BY DEF RunRow

\* The fields of a row of table runs have their types.
LEMMA RunFields ==
  ASSUME TypeOK, NEW r \in Runs
  PROVE  run[r] \in RunRow /\ run[r].status \in RunStatus /\ run[r].retries + 1 \in Nat
  BY DEF TypeOK, RunRow

\* A newly queued run is a row.
LEMMA RunRowQueued ==
  /\ \A n \in Nat : QueuedRow(n) \in RunRow
  /\ \A x \in RunRow : [x EXCEPT !.status = "QUEUED", !.control = "none"] \in RunRow
  BY DEF RunRow, QueuedRow, RunStatus

\* Two fields changed, as resume and approve do, give a row.
LEMMA RunRowResumed ==
  \A x \in RunRow, s \in RunStatus : [x EXCEPT !.control = "none", !.status = s] \in RunRow
  BY DEF RunRow

\* The row that the recovery writes is a row.
LEMMA RunRowRecovered ==
  \A x \in RunRow : [x EXCEPT !.status = "FAILED", !.retries = @ + 1] \in RunRow
<1> SUFFICES ASSUME NEW x \in RunRow
             PROVE  [x EXCEPT !.status = "FAILED", !.retries = @ + 1] \in RunRow
  OBVIOUS
<1>1. x.retries + 1 \in Nat
  BY DEF RunRow
<1>2. "FAILED" \in RunStatus
  BY DEF RunStatus, Terminal
<1> QED
  BY <1>1, <1>2 DEF RunRow

\* The row that the claiming UPDATE writes is a row.
LEMMA RunRowClaimed ==
  \A x \in RunRow, w \in Workers :
    [x EXCEPT !.status = "EXECUTING", !.owner = w, !.lease = "live"] \in RunRow
  BY DEF RunRow, RunStatus

\* The statuses by name.
LEMMA StatusNames ==
  {"NONE", "QUEUED", "EXECUTING", "PAUSED", "WAITING_APPROVAL", "COMPLETED", "FAILED",
   "CANCELLED"} \subseteq RunStatus
  BY DEF RunStatus, Terminal

\* The positions of a worker by name.
LEMMA PCNames ==
  {"idle", "loaded", "claimed", "closing", "running", "final", "calling", "called", "errored",
   "ack"} \subseteq PC
  BY DEF PC

\* Updating a field of a row of table approvals gives a row.
LEMMA ApprovalUpdates ==
  \A x \in ApprovalRow :
    /\ x.run \in Runs \cup {0}
    /\ \A s \in ApprovalStatus : [x EXCEPT !.status = s] \in ApprovalRow
    /\ [x EXCEPT !.expired = TRUE] \in ApprovalRow
  BY DEF ApprovalRow

\* The fields of a worker's local state have their types.
LEMMA WorkerFields ==
  \A x \in WorkerState :
    /\ x.pc \in PC /\ x.run \in Runs \cup {0} /\ x.ticket \in Tickets \cup {0}
    /\ x.loaded \in RunStatus /\ x.appr \in Approvals \cup {0} /\ x.out \in RunStatus
  BY DEF WorkerState

\* Updating a worker's local state gives a local state.
LEMMA WorkerUpdates ==
  \A x \in WorkerState, p \in PC :
    /\ [x EXCEPT !.pc = p] \in WorkerState
    /\ \A a \in Approvals : [x EXCEPT !.pc = p, !.appr = a] \in WorkerState
    /\ \A s \in RunStatus : [x EXCEPT !.pc = p, !.out = s] \in WorkerState
  BY DEF WorkerState

\* The local states that Load and the end of a run build.
LEMMA FreshStates ==
  /\ Idle \in WorkerState
  /\ \A t \in Tickets \cup {0} : [Idle EXCEPT !.pc = "ack", !.ticket = t] \in WorkerState
  /\ \A t \in Tickets, r \in Runs, s \in RunStatus :
       [Idle EXCEPT !.pc = "loaded", !.run = r, !.ticket = t, !.loaded = s] \in WorkerState
  BY DEF WorkerState, Idle, PC, RunStatus

\* The local state after _process_run returned.
LEMMA ToAckType == ASSUME TypeOK, NEW w \in Workers PROVE ToAck(w) \in WorkerState
<1>1. work[w].ticket \in Tickets \cup {0}
  BY WorkerFields DEF TypeOK
<1> QED
  BY <1>1, FreshStates DEF ToAck

\* A message names a run or an approval.
LEMMA MessageTypes ==
  /\ \A r \in Runs : RunMsg(r) \in Messages
  /\ \A a \in Approvals : ApproveMsg(a) \in Messages
  BY DEF RunMsg, ApproveMsg, Messages

-----------------------------------------------------------------------------
(* Type correctness.                                                       *)

\* The initial state has its types.
LEMMA InitType == Init => TypeOK
<1> SUFFICES ASSUME Init PROVE TypeOK
  OBVIOUS
<1>1. run \in [Runs -> RunRow]
  BY DEF Init, RunRow, RunStatus
<1>2. approval \in [Approvals -> ApprovalRow]
  BY DEF Init, ApprovalRow, ApprovalStatus
<1>3. work \in [Workers -> WorkerState]
  BY FreshStates DEF Init
<1> QED
  BY <1>1, <1>2, <1>3 DEF Init, TypeOK, ExecutionStatus

\* The handlers of the API and of Telegram keep the types.
LEMMA OperatorType ==
  ASSUME TypeOK, Operator
  PROVE  TypeOK'
<1> USE MessageTypes
<1>1. ASSUME NEW r \in Runs, CreateTask(r) PROVE TypeOK'
  <2>1. run' \in [Runs -> RunRow]
    BY <1>1, RunRowQueued DEF TypeOK, CreateTask
  <2> QED
    BY <1>1, <2>1 DEF TypeOK, CreateTask, approvalVars, streamVars, schedVars
<1>2. ASSUME NEW r \in Runs, TelegramTask(r) PROVE TypeOK'
  <2>1. run' \in [Runs -> RunRow]
    BY <1>2, RunRowQueued DEF TypeOK, TelegramTask
  <2> QED
    BY <1>2, <2>1 DEF TypeOK, TelegramTask, approvalVars, streamVars, schedVars
<1>3. ASSUME NEW r \in Runs, DirectLost(r) PROVE TypeOK'
  <2> QED
    BY <1>3 DEF TypeOK, DirectLost, approvalVars, streamVars, schedVars
<1>4. ASSUME NEW r \in Runs, NEW c \in {"pause", "stop", "resume"}, ControlRun(r, c) PROVE TypeOK'
  <2>1. run' \in [Runs -> RunRow]
    BY <1>4, RunRowUpdates DEF TypeOK, ControlRun
  <2> QED
    BY <1>4, <2>1 DEF TypeOK, ControlRun, approvalVars, streamVars, schedVars
<1>5. ASSUME NEW r \in Runs, NEW c \in {"pause", "stop"}, TelegramControl(r, c) PROVE TypeOK'
  <2>1. run' \in [Runs -> RunRow]
    BY <1>5, RunRowUpdates DEF TypeOK, TelegramControl
  <2> QED
    BY <1>5, <2>1 DEF TypeOK, TelegramControl, approvalVars, streamVars, schedVars
<1>6. ASSUME NEW r \in Runs, TelegramResume(r) PROVE TypeOK'
  <2>1. (IF run[r].status = "PAUSED" THEN "QUEUED" ELSE run[r].status) \in RunStatus
    BY RunFields, StatusNames
  <2>2. [run[r] EXCEPT !.control = "none", !.status = IF run[r].status = "PAUSED" THEN "QUEUED" ELSE run[r].status] \in RunRow
    BY <2>1, RunFields, RunRowResumed
  <2>3. run' \in [Runs -> RunRow]
    BY <1>6, <2>2 DEF TypeOK, TelegramResume
  <2> QED
    BY <1>6, <2>1, <2>2, <2>3 DEF TypeOK, TelegramResume, approvalVars, streamVars, schedVars
<1>7. ASSUME NEW r \in Runs, NEW n \in Runs, RetryRun(r, n) PROVE TypeOK'
  <2>1. run[r].retries + 1 \in Nat
    BY RunFields
  <2>2. run' \in [Runs -> RunRow]
    BY <1>7, <2>1, RunRowQueued DEF TypeOK, RetryRun
  <2> QED
    BY <1>7, <2>1, <2>2 DEF TypeOK, RetryRun, approvalVars, streamVars, schedVars
<1>8. ASSUME NEW a \in Approvals, ApprovalTimeout(a) PROVE TypeOK'
  <2>1. approval' \in [Approvals -> ApprovalRow]
    BY <1>8, ApprovalUpdates DEF TypeOK, ApprovalStatus, ApprovalTimeout
  <2> QED
    BY <1>8, <2>1 DEF TypeOK, ApprovalTimeout, approvalVars, streamVars, schedVars
<1>9. ASSUME NEW a \in Approvals, Approve(a) PROVE TypeOK'
  <2>1. approval' \in [Approvals -> ApprovalRow]
    BY <1>9, ApprovalUpdates DEF TypeOK, ApprovalStatus, Approve
  <2>2. run' \in [Runs -> RunRow]
    BY <1>9, RunRowQueued DEF TypeOK, Approve
  <2> QED
    BY <1>9, <2>1, <2>2 DEF TypeOK, Approve, approvalVars, streamVars, schedVars
<1>10. ASSUME NEW a \in Approvals, Reject(a) PROVE TypeOK'
  <2>1. approval' \in [Approvals -> ApprovalRow]
    BY <1>10, ApprovalUpdates DEF TypeOK, ApprovalStatus, Reject
  <2>2. run' \in [Runs -> RunRow]
    BY <1>10, RunRowUpdates, StatusNames DEF TypeOK, Reject
  <2> QED
    BY <1>10, <2>1, <2>2 DEF TypeOK, Reject, approvalVars, streamVars, schedVars
<1>11. ASSUME NEW a \in Approvals, DecideTooLate(a) PROVE TypeOK'
  <2>1. approval' \in [Approvals -> ApprovalRow]
    BY <1>11, ApprovalUpdates DEF TypeOK, ApprovalStatus, DecideTooLate
  <2> QED
    BY <1>11, <2>1 DEF TypeOK, DecideTooLate, approvalVars, streamVars, schedVars
<1> QED
  BY <1>1, <1>2, <1>3, <1>4, <1>5, <1>6, <1>7, <1>8, <1>9, <1>10, <1>11 DEF Operator

\* The steps of a worker keep the types.
LEMMA WorkerType ==
  ASSUME TypeOK, NEW w \in Workers, WorkerStep(w)
  PROVE  TypeOK'
<1> USE MessageTypes
<1>1. ASSUME NEW t \in Tickets, NEW r \in Runs, Receive(w, t, r) PROVE TypeOK'
  <2>1. run[r].status \in RunStatus
    BY RunRowUpdates DEF TypeOK
  <2>2. work' \in [Workers -> WorkerState]
    BY <1>1, <2>1, FreshStates DEF TypeOK, Receive, Load
  <2> QED
    BY <1>1, <2>1, <2>2 DEF TypeOK, Receive, approvalVars, streamVars, schedVars
<1>2. ASSUME NEW t \in Tickets, Reclaim(w, t) PROVE TypeOK'
  <2>1. pel[t] \in Runs
    BY <1>2 DEF TypeOK, Reclaim
  <2>2. run[pel[t]].status \in RunStatus
    BY <2>1, RunRowUpdates DEF TypeOK
  <2>3. work' \in [Workers -> WorkerState]
    BY <1>2, <2>1, <2>2, FreshStates DEF TypeOK, Reclaim, Load
  <2> QED
    BY <1>2, <2>1, <2>2, <2>3 DEF TypeOK, Reclaim, approvalVars, streamVars, schedVars
<1>3. ASSUME Claim(w) PROVE TypeOK'
  <2>1. run' \in [Runs -> RunRow]
    BY <1>3, RunRowClaimed DEF TypeOK, Claim
  <2>2. work' \in [Workers -> WorkerState]
    BY <1>3, WorkerUpdates, PCNames DEF TypeOK, Claim
  <2> QED
    BY <1>3, <2>1, <2>2 DEF TypeOK, Claim, approvalVars, streamVars, schedVars
<1>4. ASSUME ClaimRefused(w) PROVE TypeOK'
  <2>1. work' \in [Workers -> WorkerState]
    BY <1>4, ToAckType DEF TypeOK, ClaimRefused
  <2> QED
    BY <1>4, <2>1 DEF TypeOK, ClaimRefused, approvalVars, streamVars, schedVars
<1>5. ASSUME NEW a \in Approvals, Consume(w, a) PROVE TypeOK'
  <2>1. approval' \in [Approvals -> ApprovalRow]
    BY <1>5, ApprovalUpdates DEF TypeOK, ApprovalStatus, Consume
  <2>2. work' \in [Workers -> WorkerState]
    BY <1>5, WorkerUpdates, PCNames DEF TypeOK, Consume
  <2> QED
    BY <1>5, <2>1, <2>2 DEF TypeOK, Consume, ExecutionStatus, approvalVars, streamVars, schedVars
<1>6. ASSUME NEW a \in Approvals, ConsumeRefused(w, a) PROVE TypeOK'
  <2>1. work' \in [Workers -> WorkerState]
    BY <1>6, ToAckType DEF TypeOK, ConsumeRefused
  <2> QED
    BY <1>6, <2>1 DEF TypeOK, ConsumeRefused, approvalVars, streamVars, schedVars
<1>7. ASSUME FailClosed(w) PROVE TypeOK'
  <2>1. run' \in [Runs -> RunRow]
    BY <1>7, RunRowUpdates, StatusNames DEF TypeOK, FailClosed, SettleRun
  <2>2. work' \in [Workers -> WorkerState]
    BY <1>7, ToAckType DEF TypeOK, FailClosed
  <2> QED
    BY <1>7, <2>1, <2>2 DEF TypeOK, FailClosed, ExecutionStatus, approvalVars, streamVars, schedVars
<1>20. ASSUME NEW a \in Approvals, ReadOpen(w, a) PROVE TypeOK'
  <2>1. work' \in [Workers -> WorkerState]
    BY <1>20, WorkerUpdates, PCNames DEF TypeOK, ReadOpen
  <2> QED
    BY <1>20, <2>1 DEF TypeOK, ReadOpen, approvalVars, streamVars, schedVars
<1>21. ASSUME NEW a \in Approvals, ReplayBlocked(w, a) PROVE TypeOK'
  <2>1. run' \in [Runs -> RunRow]
    BY <1>21, RunRowUpdates, StatusNames DEF TypeOK, ReplayBlocked, SettleRun
  <2>2. work' \in [Workers -> WorkerState]
    BY <1>21, ToAckType DEF TypeOK, ReplayBlocked
  <2> QED
    BY <1>21, <2>1, <2>2 DEF TypeOK, ReplayBlocked, ExecutionStatus, approvalVars, streamVars, schedVars
<1>8. ASSUME NoContinuation(w) PROVE TypeOK'
  <2>1. work' \in [Workers -> WorkerState]
    BY <1>8, WorkerUpdates, PCNames DEF TypeOK, NoContinuation
  <2> QED
    BY <1>8, <2>1 DEF TypeOK, NoContinuation, approvalVars, streamVars, schedVars
<1>9. ASSUME NEW happened \in BOOLEAN, NEW raised \in BOOLEAN, CallTool(w, happened, raised) PROVE TypeOK'
  <2>1. work' \in [Workers -> WorkerState]
    BY <1>9, WorkerUpdates, PCNames DEF TypeOK, CallTool
  <2>2. work[w].appr \in Approvals => effects[work[w].appr] + 1 \in Nat
    BY DEF TypeOK
  <2>3. effects' \in [Approvals -> Nat]
    BY <1>9, <2>2 DEF TypeOK, CallTool
  <2> QED
    BY <1>9, <2>1, <2>2, <2>3 DEF TypeOK, CallTool, approvalVars, streamVars, schedVars
<1>10. ASSUME FinishCall(w) PROVE TypeOK'
  <2>1. run' \in [Runs -> RunRow]
    BY <1>10, RunRowUpdates, StatusNames DEF TypeOK, FinishCall
  <2>2. work' \in [Workers -> WorkerState]
    BY <1>10, ToAckType DEF TypeOK, FinishCall
  <2> QED
    BY <1>10, <2>1, <2>2 DEF TypeOK, FinishCall, ExecutionStatus, approvalVars, streamVars, schedVars
<1>11. ASSUME FinishRaises(w) PROVE TypeOK'
  <2>1. work' \in [Workers -> WorkerState]
    BY <1>11, WorkerUpdates, PCNames DEF TypeOK, FinishRaises
  <2> QED
    BY <1>11, <2>1 DEF TypeOK, FinishRaises, approvalVars, streamVars, schedVars
<1>12. ASSUME FailCall(w) PROVE TypeOK'
  <2>1. run' \in [Runs -> RunRow]
    BY <1>12, RunRowUpdates, StatusNames DEF TypeOK, FailCall
  <2>2. work' \in [Workers -> WorkerState]
    BY <1>12, ToAckType DEF TypeOK, FailCall
  <2> QED
    BY <1>12, <2>1, <2>2 DEF TypeOK, FailCall, ExecutionStatus, approvalVars, streamVars, schedVars
<1>13. ASSUME NEW out \in {"PAUSED", "CANCELLED", "COMPLETED", "FAILED"}, CoordinatorEnds(w, out) PROVE TypeOK'
  <2>1. work' \in [Workers -> WorkerState]
    BY <1>13, WorkerUpdates, PCNames, StatusNames DEF TypeOK, CoordinatorEnds
  <2> QED
    BY <1>13, <2>1 DEF TypeOK, CoordinatorEnds, approvalVars, streamVars, schedVars
<1>14. ASSUME NEW a \in Approvals, AwaitApproval(w, a) PROVE TypeOK'
  <2>1. work[w].run \in Runs \cup {0}
    BY WorkerFields DEF TypeOK
  <2>2. approval' \in [Approvals -> ApprovalRow]
    BY <1>14, <2>1 DEF TypeOK, AwaitApproval, ApprovalRow, ApprovalStatus
  <2>3. work' \in [Workers -> WorkerState]
    BY <1>14, WorkerUpdates, PCNames, StatusNames DEF TypeOK, AwaitApproval
  <2> QED
    BY <1>14, <2>1, <2>2, <2>3 DEF TypeOK, AwaitApproval, approvalVars, streamVars, schedVars
<1>15. ASSUME FinalWrite(w) PROVE TypeOK'
  <2>1. work[w].out \in RunStatus
    BY WorkerFields DEF TypeOK
  <2>2. run' \in [Runs -> RunRow]
    BY <1>15, <2>1, RunRowUpdates DEF TypeOK, FinalWrite
  <2>3. work' \in [Workers -> WorkerState]
    BY <1>15, ToAckType DEF TypeOK, FinalWrite
  <2> QED
    BY <1>15, <2>1, <2>2, <2>3 DEF TypeOK, FinalWrite, approvalVars, streamVars, schedVars
<1>16. ASSUME Ack(w) PROVE TypeOK'
  <2>1. work' \in [Workers -> WorkerState]
    BY <1>16, FreshStates DEF TypeOK, Ack
  <2> QED
    BY <1>16, <2>1 DEF TypeOK, Ack, approvalVars, streamVars, schedVars
<1>17. ASSUME AckFails(w) PROVE TypeOK'
  <2>1. work' \in [Workers -> WorkerState]
    BY <1>17, FreshStates DEF TypeOK, AckFails
  <2> QED
    BY <1>17, <2>1 DEF TypeOK, AckFails, Fault, approvalVars, streamVars, schedVars
<1>18. ASSUME Crash(w) PROVE TypeOK'
  <2>1. work' \in [Workers -> WorkerState]
    BY <1>18, FreshStates DEF TypeOK, Crash
  <2> QED
    BY <1>18, <2>1 DEF TypeOK, Crash, Fault, approvalVars, streamVars, schedVars
<1>19. ASSUME Heartbeat(w) PROVE TypeOK'
  <2>1. run' \in [Runs -> RunRow]
    BY <1>19, RunRowUpdates DEF TypeOK, Heartbeat
  <2> QED
    BY <1>19, <2>1 DEF TypeOK, Heartbeat, approvalVars, streamVars, schedVars
<1> QED
  BY <1>1, <1>2, <1>3, <1>4, <1>5, <1>6, <1>7, <1>8, <1>9, <1>10, <1>11, <1>12, <1>13,
     <1>14, <1>15, <1>16, <1>17, <1>18, <1>19, <1>20, <1>21 DEF WorkerStep, Fetch, Process

\* The scheduler, time and the direct publications keep the types.
LEMMA BackgroundType ==
  ASSUME TypeOK, Background
  PROVE  TypeOK'
<1> USE MessageTypes
<1>1. ASSUME NEW r \in Runs, DirectPublish(r) PROVE TypeOK'
  <2> QED
    BY <1>1 DEF TypeOK, DirectPublish, approvalVars, streamVars, schedVars
<1>2. ASSUME NEW r \in Runs, LeaseExpires(r) PROVE TypeOK'
  <2>1. run' \in [Runs -> RunRow]
    BY <1>2, RunRowUpdates DEF TypeOK, LeaseExpires
  <2> QED
    BY <1>2, <2>1 DEF TypeOK, LeaseExpires, approvalVars, streamVars, schedVars
<1>3. ASSUME NEW r \in Runs, LeaseSlips(r) PROVE TypeOK'
  <2>1. run' \in [Runs -> RunRow]
    BY <1>3, RunRowUpdates DEF TypeOK, LeaseSlips
  <2> QED
    BY <1>3, <2>1 DEF TypeOK, LeaseSlips, Fault, approvalVars, streamVars, schedVars
<1>4. ASSUME NEW m \in Messages, PublishMessage(m) PROVE TypeOK'
  <2>1. MsgRun(m) \in Runs => unread[MsgRun(m)] + 1 \in Nat
    BY DEF TypeOK
  <2>2. unread' \in [Runs -> Nat]
    BY <1>4, <2>1 DEF TypeOK, PublishMessage
  <2> QED
    BY <1>4, <2>1, <2>2 DEF TypeOK, PublishMessage, approvalVars, streamVars, schedVars
<1>5. ASSUME PublishCommit PROVE TypeOK'
  <2> QED
    BY <1>5 DEF TypeOK, PublishCommit, approvalVars, streamVars, schedVars
<1>6. ASSUME SchedulerCrash PROVE TypeOK'
  <2> QED
    BY <1>6 DEF TypeOK, SchedulerCrash, Fault, approvalVars, streamVars, schedVars
<1>7. ASSUME RecoverScan PROVE TypeOK'
  <2> QED
    BY <1>7 DEF TypeOK, RecoverScan, approvalVars, streamVars, schedVars
<1>8. ASSUME NEW r \in Runs, DeadLetter(r) PROVE TypeOK'
  <2> QED
    BY <1>8 DEF TypeOK, DeadLetter, approvalVars, streamVars, schedVars
<1>9. ASSUME NEW new \in SUBSET Runs, NEW of \in [new -> stuck], RecoverCommit(new, of) PROVE TypeOK'
  <2>1. \A n \in new : QueuedRow(run[of[n]].retries + 1) \in RunRow
    BY RunFields, RunRowQueued DEF TypeOK
  <2>2. \A r \in Runs : [run[r] EXCEPT !.status = "FAILED", !.retries = @ + 1] \in RunRow
    BY RunRowRecovered DEF TypeOK
  <2>3. run' \in [Runs -> RunRow]
    BY <1>9, <2>1, <2>2 DEF TypeOK, RecoverCommit
  <2> QED
    BY <1>9, <2>1, <2>2, <2>3 DEF TypeOK, RecoverCommit, approvalVars, streamVars, schedVars
<1> QED
  BY <1>1, <1>2, <1>3, <1>4, <1>5, <1>6, <1>7, <1>8, <1>9 DEF Background, Recover

\* Every step keeps the types.
LEMMA NextType == TypeOK /\ [Next]_vars => TypeOK'
<1> SUFFICES ASSUME TypeOK, [Next]_vars PROVE TypeOK'
  OBVIOUS
<1>1. CASE UNCHANGED vars
  BY <1>1 DEF TypeOK, vars
<1>2. CASE Next
  BY <1>2, OperatorType, WorkerType, BackgroundType DEF Next
<1> QED
  BY <1>1, <1>2

\* Every table, stream and local variable keeps its type, whatever the faults.
THEOREM TypeCorrect == Spec => []TypeOK
  BY InitType, NextType, PTL DEF Spec

-----------------------------------------------------------------------------
(* Approvals: the inductive invariant.                                     *)

\* A step that leaves the approvals, the execution records and the effects
\* alone, and lets no worker enter or move inside a continuation.
LEMMA ApprovalFrame ==
  ASSUME TypeOK, ApprovalInv, UNCHANGED approvalVars,
         \A w \in Workers : work'[w].pc \in Acting =>
           work'[w].pc = work[w].pc /\ work'[w].appr = work[w].appr
  PROVE  ApprovalInv'
<1>1. EffectAtMostOnce' /\ ConsumedIffRecorded' /\ RecordIsTruthful'
  BY DEF ApprovalInv, EffectAtMostOnce, ConsumedIffRecorded, RecordIsTruthful, approvalVars
<1>2. ActingOwnsApproval'
  BY DEF ApprovalInv, ActingOwnsApproval, approvalVars
<1> QED
  BY <1>1, <1>2 DEF ApprovalInv

\* The state a worker is left in when it turns to acknowledging or to idling.
LEMMA NotActing ==
  /\ Idle.pc \notin Acting
  /\ \A w \in Workers : ToAck(w).pc \notin Acting
  /\ \A t \in Tickets : [Idle EXCEPT !.pc = "ack", !.ticket = t].pc \notin Acting
  /\ \A t \in Tickets, r \in Runs, s \in RunStatus :
       [Idle EXCEPT !.pc = "loaded", !.run = r, !.ticket = t, !.loaded = s].pc \notin Acting
  BY DEF Idle, ToAck, Acting

\* Nor does such a worker write off an open record.
LEMMA NotClosing ==
  /\ Idle.pc # "closing"
  /\ \A w \in Workers : ToAck(w).pc # "closing"
  /\ \A t \in Tickets : [Idle EXCEPT !.pc = "ack", !.ticket = t].pc # "closing"
  /\ \A t \in Tickets, r \in Runs, s \in RunStatus :
       [Idle EXCEPT !.pc = "loaded", !.run = r, !.ticket = t, !.loaded = s].pc # "closing"
  BY DEF Idle, ToAck

\* The steps of a worker that have nothing to do with writing off an open record.
Elsewhere(w) ==
  \/ Fetch(w) \/ Claim(w) \/ ClaimRefused(w) \/ NoContinuation(w) \/ FinishCall(w)
  \/ FinishRaises(w) \/ FailCall(w) \/ FinalWrite(w) \/ Ack(w) \/ AckFails(w) \/ Heartbeat(w)
  \/ \E a \in Approvals :
       Consume(w, a) \/ ConsumeRefused(w, a) \/ ReplayBlocked(w, a) \/ AwaitApproval(w, a)
  \/ \E happened, raised \in BOOLEAN : CallTool(w, happened, raised)
  \/ \E out \in {"PAUSED", "CANCELLED", "COMPLETED", "FAILED"} : CoordinatorEnds(w, out)

LEMMA StepKinds ==
  ASSUME NEW w \in Workers, WorkerStep(w)
  PROVE  Elsewhere(w) \/ FailClosed(w) \/ Crash(w) \/ \E a \in Approvals : ReadOpen(w, a)
  BY DEF WorkerStep, Process, Elsewhere

\* Those steps start and end elsewhere, and are taken by one worker.
LEMMA StaysElsewhere ==
  ASSUME TypeOK, NEW w \in Workers, Elsewhere(w)
  PROVE  /\ work[w].pc # "closing" /\ work'[w].pc # "closing"
         /\ \A v \in Workers : v # w => work'[v] = work[v]
<1>0. work \in [Workers -> WorkerState]
  BY DEF TypeOK
<1>1. work[w].pc # "closing"
  BY DEF Elsewhere, Fetch, Receive, Reclaim, Claim, ClaimRefused, NoContinuation, FinishCall,
     FinishRaises, FailCall, FinalWrite, Ack, AckFails, Heartbeat, Consume, ConsumeRefused,
     ReplayBlocked, Consumed, AwaitApproval, CallTool, CoordinatorEnds
<1>2. ASSUME NEW t \in Tickets, NEW r \in Runs, run[r].status \in RunStatus, Load(w, t, r)
      PROVE  work'[w].pc # "closing" /\ \A v \in Workers : v # w => work'[v] = work[v]
  BY <1>0, <1>2, NotClosing DEF Load
<1>3. CASE Fetch(w)
  <2>1. ASSUME NEW t \in Tickets, NEW r \in Runs, Receive(w, t, r)
        PROVE  work'[w].pc # "closing" /\ \A v \in Workers : v # w => work'[v] = work[v]
    BY <1>2, <2>1, RunFields DEF Receive
  <2>2. ASSUME NEW t \in Tickets, Reclaim(w, t)
        PROVE  work'[w].pc # "closing" /\ \A v \in Workers : v # w => work'[v] = work[v]
    <3>1. pel[t] \in Runs
      BY <2>2 DEF Reclaim, TypeOK
    <3> QED
      BY <1>2, <2>2, <3>1, RunFields DEF Reclaim
  <2> QED
    BY <1>1, <1>3, <2>1, <2>2 DEF Fetch
<1>4. ASSUME work' = [work EXCEPT ![w] = ToAck(w)] \/ work' = [work EXCEPT ![w] = Idle]
      PROVE  work'[w].pc # "closing" /\ \A v \in Workers : v # w => work'[v] = work[v]
  BY <1>0, <1>4, NotClosing
<1>5. CASE \/ ClaimRefused(w) \/ FinishCall(w) \/ FailCall(w) \/ FinalWrite(w) \/ Ack(w) \/ AckFails(w)
           \/ \E a \in Approvals : ConsumeRefused(w, a) \/ ReplayBlocked(w, a)
  <2>1. work' = [work EXCEPT ![w] = ToAck(w)] \/ work' = [work EXCEPT ![w] = Idle]
    BY <1>5 DEF ClaimRefused, FinishCall, FailCall, FinalWrite, Ack, AckFails, ConsumeRefused, ReplayBlocked
  <2> QED
    BY <1>1, <1>4, <2>1
<1>6. CASE Heartbeat(w)
  BY <1>1, <1>6 DEF Heartbeat
<1>7. CASE Claim(w) \/ NoContinuation(w) \/ FinishRaises(w)
  <2>1. PICK p \in {"claimed", "running", "errored"} : work' = [work EXCEPT ![w].pc = p]
    BY <1>7 DEF Claim, NoContinuation, FinishRaises
  <2> QED
    BY <1>0, <1>1, <2>1 DEF WorkerState
<1>8. CASE \E a \in Approvals : Consume(w, a)
  BY <1>0, <1>1, <1>8 DEF Consume, WorkerState
<1>9. CASE \E a \in Approvals : AwaitApproval(w, a)
  BY <1>0, <1>1, <1>9 DEF AwaitApproval, WorkerState
<1>10. CASE \E happened, raised \in BOOLEAN : CallTool(w, happened, raised)
  BY <1>0, <1>1, <1>10 DEF CallTool, WorkerState
<1>11. CASE \E out \in {"PAUSED", "CANCELLED", "COMPLETED", "FAILED"} : CoordinatorEnds(w, out)
  BY <1>0, <1>1, <1>11 DEF CoordinatorEnds, WorkerState
<1> QED
  BY <1>3, <1>5, <1>6, <1>7, <1>8, <1>9, <1>10, <1>11 DEF Elsewhere

\* A consumed approval stays consumed.
LEMMA ConsumedStays ==
  ASSUME TypeOK, Next, NEW a \in Approvals, approval[a].status = "CONSUMED"
  PROVE  approval'[a].status = "CONSUMED"
<1>0. approval \in [Approvals -> ApprovalRow]
  BY DEF TypeOK
<1>1. CASE UNCHANGED approval
  BY <1>1
<1>2. ASSUME NEW b \in Approvals, ApprovalTimeout(b) \/ Approve(b) \/ Reject(b) \/ DecideTooLate(b)
      PROVE  approval'[a].status = "CONSUMED"
  <2>1. a # b
    BY <1>2 DEF ApprovalTimeout, Approve, Reject, DecideTooLate
  <2> QED
    BY <1>0, <1>2, <2>1 DEF ApprovalTimeout, Approve, Reject, DecideTooLate
<1>3. ASSUME NEW w \in Workers, NEW b \in Approvals, Consume(w, b) \/ AwaitApproval(w, b)
      PROVE  approval'[a].status = "CONSUMED"
  BY <1>0, <1>3 DEF Consume, Latest, AwaitApproval, FreshApproval, ApprovalRow
<1>4. CASE Operator
  BY <1>1, <1>2, <1>4
  DEF Operator, CreateTask, TelegramTask, DirectLost, ControlRun, TelegramControl, TelegramResume,
      RetryRun, approvalVars
<1>5. ASSUME NEW w \in Workers, WorkerStep(w) PROVE approval'[a].status = "CONSUMED"
  <2>1. \/ UNCHANGED approval
        \/ \E b \in Approvals : Consume(w, b) \/ AwaitApproval(w, b)
    BY <1>5
    DEF WorkerStep, Fetch, Process, Receive, Reclaim, Claim, ClaimRefused, ConsumeRefused,
        ReadOpen, ReplayBlocked, FailClosed, NoContinuation, CallTool, FinishCall, FinishRaises,
        FailCall, CoordinatorEnds, FinalWrite, Ack, AckFails, Crash, Heartbeat, approvalVars
  <2> QED
    BY <1>1, <1>3, <2>1
<1>6. CASE Background
  <2>1. UNCHANGED approval
    BY <1>6
    DEF Background, DirectPublish, LeaseExpires, LeaseSlips, PublishMessage, PublishCommit,
        SchedulerCrash, Recover, RecoverScan, DeadLetter, RecoverCommit, approvalVars
  <2> QED
    BY <1>1, <2>1
<1> QED
  BY <1>4, <1>5, <1>6 DEF Next

\* An open record is written off by one worker at a time, whatever else happens.
LEMMA NextClosing == TypeOK /\ ClosingHasRecord /\ [Next]_vars => ClosingHasRecord'
<1> SUFFICES ASSUME TypeOK, ClosingHasRecord, [Next]_vars PROVE ClosingHasRecord'
  OBVIOUS
<1>0. work \in [Workers -> WorkerState]
  BY DEF TypeOK
<1>1. CASE UNCHANGED vars
  BY <1>1 DEF vars, approvalVars, ClosingHasRecord
<1>2. ASSUME Next, \A v \in Workers : work'[v].pc = "closing" => work'[v] = work[v]
      PROVE  ClosingHasRecord'
  BY <1>2, ConsumedStays DEF ClosingHasRecord
<1>3. CASE Operator \/ Background
  <2>1. UNCHANGED work
    BY <1>3
    DEF Operator, CreateTask, TelegramTask, DirectLost, ControlRun, TelegramControl, TelegramResume,
        RetryRun, ApprovalTimeout, Approve, Reject, DecideTooLate,
        Background, DirectPublish, LeaseExpires, LeaseSlips, PublishMessage, PublishCommit,
        SchedulerCrash, Recover, RecoverScan, DeadLetter, RecoverCommit
  <2> QED
    BY <1>2, <1>3, <2>1 DEF Next
<1>4. ASSUME NEW w \in Workers, WorkerStep(w) PROVE ClosingHasRecord'
  <2>0. Next
    BY <1>4 DEF Next
  <2>1. CASE Elsewhere(w)
    BY <1>2, <2>0, <2>1, StaysElsewhere
  <2>2. CASE FailClosed(w) \/ Crash(w)
    <3>1. work' = [work EXCEPT ![w] = ToAck(w)] \/ work' = [work EXCEPT ![w] = Idle]
      BY <2>2 DEF FailClosed, Crash
    <3>2. \A v \in Workers : work'[v].pc = "closing" => work'[v] = work[v]
      BY <1>0, <3>1, NotClosing
    <3> QED
      BY <1>2, <2>0, <3>2
  <2>3. ASSUME NEW a \in Approvals, ReadOpen(w, a) PROVE ClosingHasRecord'
    <3>1. /\ work'[w].pc = "closing" /\ work'[w].appr = a
          /\ \A v \in Workers : v # w => work'[v] = work[v]
      BY <1>0, <2>3 DEF ReadOpen, WorkerState
    <3>2. /\ approval[a].status = "CONSUMED" /\ approval' = approval
          /\ \A v \in Workers : ~(work[v].pc = "closing" /\ work[v].appr = a)
      BY <2>3 DEF ReadOpen, Consumed, Latest, approvalVars
    <3> QED
      BY <3>1, <3>2 DEF ClosingHasRecord
  <2> QED
    BY <1>4, <2>1, <2>2, <2>3, StepKinds
<1> QED
  BY <1>1, <1>3, <1>4 DEF Next

LEMMA InitClosing == Init => ClosingHasRecord
  BY DEF Init, Idle, ClosingHasRecord

LEMMA ClosingIsAlone == Spec => []ClosingHasRecord
  BY TypeCorrect, InitClosing, NextClosing, PTL DEF Spec

\* Initially no approval exists and no worker acts.
LEMMA InitApproval == Init => ApprovalInv
  BY DEF Init, Idle, ApprovalInv, EffectAtMostOnce, ConsumedIffRecorded, RecordIsTruthful,
         ActingOwnsApproval, Acting

\* Decisions and timeouts never touch a CONSUMED approval.
LEMMA OperatorApproval ==
  ASSUME TypeOK, ApprovalInv, Operator
  PROVE  ApprovalInv'
<1>1. UNCHANGED work
  BY DEF Operator, CreateTask, TelegramTask, DirectLost, ControlRun, TelegramControl,
         TelegramResume, RetryRun, ApprovalTimeout, Approve, Reject, DecideTooLate
<1>2. ASSUME NEW a \in Approvals, NEW s \in {"APPROVED", "REJECTED", "EXPIRED"},
             approval[a].status = "PENDING",
             approval' = [approval EXCEPT ![a].status = s], UNCHANGED <<exec, effects>>
      PROVE  ApprovalInv'
  <2>1. \A b \in Approvals : approval'[b].status = IF b = a THEN s ELSE approval[b].status
    BY <1>2 DEF TypeOK, ApprovalRow
  <2>2. EffectAtMostOnce' /\ ConsumedIffRecorded' /\ RecordIsTruthful'
    BY <1>2, <2>1 DEF ApprovalInv, EffectAtMostOnce, ConsumedIffRecorded, RecordIsTruthful
  <2>3. ActingOwnsApproval'
    BY <1>1, <1>2, <2>1 DEF ApprovalInv, ActingOwnsApproval
  <2> QED
    BY <2>2, <2>3 DEF ApprovalInv
<1>3. ASSUME NEW a \in Approvals, ApprovalTimeout(a) PROVE ApprovalInv'
  <2>1. \A b \in Approvals : approval'[b].status = approval[b].status
    BY <1>3 DEF ApprovalTimeout, TypeOK, ApprovalRow
  <2>2. EffectAtMostOnce' /\ ConsumedIffRecorded' /\ RecordIsTruthful'
    BY <1>3, <2>1 DEF ApprovalTimeout, ApprovalInv, EffectAtMostOnce, ConsumedIffRecorded,
                      RecordIsTruthful
  <2>3. ActingOwnsApproval'
    BY <1>1, <1>3, <2>1 DEF ApprovalTimeout, ApprovalInv, ActingOwnsApproval
  <2> QED
    BY <2>2, <2>3 DEF ApprovalInv
<1>4. ASSUME NEW a \in Approvals, Approve(a) \/ Reject(a) \/ DecideTooLate(a)
      PROVE  ApprovalInv'
  BY <1>2, <1>4 DEF Approve, Reject, DecideTooLate
<1>5. CASE UNCHANGED approvalVars
  BY <1>1, <1>5, ApprovalFrame
<1> QED
  BY <1>3, <1>4, <1>5
  DEF Operator, CreateTask, TelegramTask, DirectLost, ControlRun, TelegramControl,
      TelegramResume, RetryRun

\* The heart of the proof: consuming, calling, finishing, failing and
\* fail-closed settling keep the ownership of the approval.
LEMMA WorkerApproval ==
  ASSUME TypeOK, ApprovalInv, ClosingHasRecord, NEW w \in Workers, WorkerStep(w)
  PROVE  ApprovalInv'
<1>0. work \in [Workers -> WorkerState]
  BY DEF TypeOK
<1>1. ASSUME NEW a \in Approvals, Consume(w, a) PROVE ApprovalInv'
  <2>1. approval[a].status = "APPROVED" /\ exec[a] = "NONE" /\ effects[a] = 0
    BY <1>1 DEF Consume, Latest, TypeOK, ApprovalInv, ConsumedIffRecorded
  <2>2. \A b \in Approvals :
          approval'[b].status = IF b = a THEN "CONSUMED" ELSE approval[b].status
    BY <1>1 DEF Consume, TypeOK, ApprovalRow
  <2>3. \A b \in Approvals : exec'[b] = IF b = a THEN "PENDING" ELSE exec[b]
    BY <1>1 DEF Consume, TypeOK
  <2>4. /\ work'[w].pc = "calling" /\ work'[w].appr = a
        /\ \A v \in Workers : v # w => work'[v] = work[v]
    BY <1>0, <1>1 DEF Consume, WorkerState
  <2>5. \A v \in Workers : v # w /\ work[v].pc \in Acting => work[v].appr # a
    BY <2>1 DEF ApprovalInv, ActingOwnsApproval
  <2>6. EffectAtMostOnce' /\ ConsumedIffRecorded' /\ RecordIsTruthful'
    BY <1>1, <2>1, <2>2, <2>3
    DEF Consume, ApprovalInv, EffectAtMostOnce, ConsumedIffRecorded, RecordIsTruthful
  <2>7. ActingOwnsApproval'
    BY <1>1, <2>1, <2>2, <2>3, <2>4, <2>5 DEF Consume, ApprovalInv, ActingOwnsApproval
  <2> QED
    BY <2>6, <2>7 DEF ApprovalInv
<1>2. ASSUME FailClosed(w) PROVE ApprovalInv'
  <2> DEFINE a == work[w].appr
  <2>1. a \in Approvals /\ approval[a].status = "CONSUMED"
    BY <1>2 DEF FailClosed, ClosingHasRecord
  <2>2. \A b \in Approvals : exec'[b] = IF b = a THEN "AMBIGUOUS" ELSE exec[b]
    BY <1>2 DEF FailClosed, TypeOK
  <2>3. \A v \in Workers : work'[v].pc \in Acting => work'[v] = work[v]
    BY <1>0, <1>2, NotActing DEF FailClosed
  <2>4. UNCHANGED <<approval, effects>>
    BY <1>2 DEF FailClosed
  <2> HIDE DEF a
  <2>5. EffectAtMostOnce' /\ ConsumedIffRecorded' /\ RecordIsTruthful'
    BY <2>1, <2>2, <2>4
    DEF ApprovalInv, EffectAtMostOnce, ConsumedIffRecorded, RecordIsTruthful
  <2>6. ActingOwnsApproval'
    BY <2>2, <2>3, <2>4 DEF ApprovalInv, ActingOwnsApproval
  <2> QED
    BY <2>5, <2>6 DEF ApprovalInv
<1>14. ASSUME NEW a \in Approvals, ReadOpen(w, a) PROVE ApprovalInv'
  <2>1. UNCHANGED approvalVars
    BY <1>14 DEF ReadOpen
  <2>2. \A v \in Workers : work'[v].pc \in Acting => work'[v] = work[v]
    BY <1>0, <1>14 DEF ReadOpen, WorkerState, Acting
  <2> QED
    BY <2>1, <2>2, ApprovalFrame
<1>15. ASSUME NEW a \in Approvals, ReplayBlocked(w, a) PROVE ApprovalInv'
  <2>1. work' = [work EXCEPT ![w] = ToAck(w)] /\ UNCHANGED <<approval, effects>>
    BY <1>15 DEF ReplayBlocked
  <2>2. exec' = exec
    <3>1. exec[a] # "NONE"
      BY <1>15 DEF ReplayBlocked, Consumed, Latest, ApprovalInv, ConsumedIffRecorded
    <3> QED
      BY <1>15, <3>1 DEF ReplayBlocked, TypeOK
  <2> QED
    BY <1>0, <2>1, <2>2, ApprovalFrame, NotActing DEF approvalVars
<1>3. ASSUME NEW happened \in BOOLEAN, NEW raised \in BOOLEAN, CallTool(w, happened, raised)
      PROVE ApprovalInv'
  <2> DEFINE a == work[w].appr
  <2>1. a \in Approvals /\ effects[a] = 0 /\ approval[a].status = "CONSUMED"
        /\ exec[a] \in {"PENDING", "AMBIGUOUS"}
    BY <1>3 DEF CallTool, Acting, ApprovalInv, ActingOwnsApproval
  <2>2. \A b \in Approvals : effects'[b] = IF b = a /\ happened THEN 1 ELSE effects[b]
    BY <1>3, <2>1 DEF CallTool, TypeOK
  <2>3. /\ work'[w].pc = (IF raised THEN "errored" ELSE "called") /\ work'[w].appr = a
        /\ \A v \in Workers : v # w => work'[v] = work[v]
    BY <1>0, <1>3 DEF CallTool, WorkerState
  <2>4. \A v \in Workers : v # w /\ work[v].pc \in Acting => work[v].appr # a
    BY <1>3 DEF CallTool, Acting, ApprovalInv, ActingOwnsApproval
  <2>5. happened \/ raised
    BY <1>3 DEF CallTool
  <2> HIDE DEF a
  <2>6. EffectAtMostOnce' /\ ConsumedIffRecorded' /\ RecordIsTruthful'
    BY <1>3, <2>1, <2>2
    DEF CallTool, ApprovalInv, EffectAtMostOnce, ConsumedIffRecorded, RecordIsTruthful
  <2>7. ActingOwnsApproval'
    BY <1>3, <2>1, <2>2, <2>3, <2>4, <2>5 DEF CallTool, ApprovalInv, ActingOwnsApproval
  <2> QED
    BY <2>6, <2>7 DEF ApprovalInv
<1>4. ASSUME FinishCall(w) \/ FailCall(w) PROVE ApprovalInv'
  <2> DEFINE a == work[w].appr
  <2>1. a \in Approvals /\ approval[a].status = "CONSUMED"
    BY <1>4 DEF FinishCall, FailCall, Acting, ApprovalInv, ActingOwnsApproval
  <2>2. \A b \in Approvals : b # a => exec'[b] = exec[b]
    BY <1>4 DEF FinishCall, FailCall, TypeOK
  <2>3. exec'[a] = "AMBIGUOUS" \/ (exec'[a] = "SUCCEEDED" /\ effects[a] = 1)
    BY <1>4, <2>1 DEF FinishCall, FailCall, TypeOK, Acting, ApprovalInv, ActingOwnsApproval
  <2>4. \A v \in Workers : work'[v].pc \in Acting => v # w /\ work'[v] = work[v]
    BY <1>0, <1>4, NotActing DEF FinishCall, FailCall
  <2>5. \A v \in Workers : v # w /\ work[v].pc \in Acting => work[v].appr # a
    BY <1>4 DEF FinishCall, FailCall, Acting, ApprovalInv, ActingOwnsApproval
  <2>6. UNCHANGED <<approval, effects>>
    BY <1>4 DEF FinishCall, FailCall
  <2> HIDE DEF a
  <2>7. EffectAtMostOnce' /\ ConsumedIffRecorded' /\ RecordIsTruthful'
    BY <2>1, <2>2, <2>3, <2>6
    DEF ApprovalInv, EffectAtMostOnce, ConsumedIffRecorded, RecordIsTruthful
  <2>8. ActingOwnsApproval'
    BY <2>1, <2>2, <2>4, <2>5, <2>6 DEF ApprovalInv, ActingOwnsApproval
  <2> QED
    BY <2>7, <2>8 DEF ApprovalInv
<1>5. ASSUME FinishRaises(w) PROVE ApprovalInv'
  <2>1. /\ work'[w].pc = "errored" /\ work'[w].appr = work[w].appr
        /\ \A v \in Workers : v # w => work'[v] = work[v]
    BY <1>0, <1>5 DEF FinishRaises, WorkerState
  <2>2. EffectAtMostOnce' /\ ConsumedIffRecorded' /\ RecordIsTruthful'
    BY <1>5 DEF FinishRaises, approvalVars, ApprovalInv, EffectAtMostOnce,
                ConsumedIffRecorded, RecordIsTruthful
  <2>3. ActingOwnsApproval'
    BY <1>5, <2>1 DEF FinishRaises, Acting, approvalVars, ApprovalInv, ActingOwnsApproval
  <2> QED
    BY <2>2, <2>3 DEF ApprovalInv
<1>6. ASSUME NEW a \in Approvals, AwaitApproval(w, a) PROVE ApprovalInv'
  <2>1. approval[a].status = "NONE"
    BY <1>6 DEF AwaitApproval, FreshApproval
  <2>2. \A b \in Approvals :
          approval'[b].status = IF b = a THEN "PENDING" ELSE approval[b].status
    BY <1>6 DEF AwaitApproval, TypeOK
  <2>3. \A v \in Workers : work'[v].pc \in Acting => work'[v] = work[v]
    BY <1>0, <1>6 DEF AwaitApproval, WorkerState, Acting
  <2>4. EffectAtMostOnce' /\ ConsumedIffRecorded' /\ RecordIsTruthful'
    BY <1>6, <2>1, <2>2 DEF AwaitApproval, ApprovalInv, EffectAtMostOnce,
                            ConsumedIffRecorded, RecordIsTruthful
  <2>5. UNCHANGED <<exec, effects>>
    BY <1>6 DEF AwaitApproval
  <2>6. \A v \in Workers : work[v].pc \in Acting =>
          work[v].appr \in Approvals /\ approval'[work[v].appr].status = "CONSUMED"
    BY <2>1, <2>2 DEF ApprovalInv, ActingOwnsApproval
  <2>7. ActingOwnsApproval'
    BY <2>3, <2>5, <2>6 DEF ApprovalInv, ActingOwnsApproval
  <2> QED
    BY <2>4, <2>7 DEF ApprovalInv
<1>7. ASSUME NEW t \in Tickets, NEW r \in Runs, run[r].status \in RunStatus, Load(w, t, r),
             UNCHANGED approvalVars
      PROVE  ApprovalInv'
  <2>1. \A v \in Workers : work'[v].pc \in Acting => work'[v] = work[v]
    BY <1>0, <1>7, NotActing DEF Load
  <2> QED
    BY <1>7, <2>1, ApprovalFrame
<1>8. CASE Fetch(w)
  <2>1. ASSUME NEW t \in Tickets, NEW r \in Runs, Receive(w, t, r) PROVE ApprovalInv'
    BY <1>7, <2>1, RunFields DEF Receive
  <2>2. ASSUME NEW t \in Tickets, Reclaim(w, t) PROVE ApprovalInv'
    <3>1. pel[t] \in Runs
      BY <2>2 DEF Reclaim, TypeOK
    <3> QED
      BY <1>7, <2>2, <3>1, RunFields DEF Reclaim
  <2> QED
    BY <1>8, <2>1, <2>2 DEF Fetch
<1>9. ASSUME NEW a \in Approvals,
             \/ ClaimRefused(w) \/ ConsumeRefused(w, a) \/ FinalWrite(w)
      PROVE  ApprovalInv'
  <2>1. work' = [work EXCEPT ![w] = ToAck(w)] /\ UNCHANGED approvalVars
    BY <1>9 DEF ClaimRefused, ConsumeRefused, FinalWrite
  <2> QED
    BY <1>0, <2>1, ApprovalFrame, NotActing
<1>10. CASE ClaimRefused(w) \/ FinalWrite(w)
  <2>1. work' = [work EXCEPT ![w] = ToAck(w)] /\ UNCHANGED approvalVars
    BY <1>10 DEF ClaimRefused, FinalWrite
  <2> QED
    BY <1>0, <2>1, ApprovalFrame, NotActing
<1>11. CASE Ack(w) \/ AckFails(w) \/ Crash(w)
  <2>1. work' = [work EXCEPT ![w] = Idle] /\ UNCHANGED approvalVars
    BY <1>11 DEF Ack, AckFails, Crash
  <2> QED
    BY <1>0, <2>1, ApprovalFrame, NotActing
<1>12. CASE Heartbeat(w)
  BY <1>12, ApprovalFrame DEF Heartbeat
<1>13. ASSUME NEW out \in {"PAUSED", "CANCELLED", "COMPLETED", "FAILED"},
              Claim(w) \/ NoContinuation(w) \/ CoordinatorEnds(w, out)
       PROVE  ApprovalInv'
  <2>1. \A v \in Workers : work'[v].pc \in Acting => work'[v] = work[v]
    BY <1>0, <1>13 DEF Claim, NoContinuation, CoordinatorEnds, WorkerState, Acting
  <2> QED
    BY <1>13, <2>1, ApprovalFrame DEF Claim, NoContinuation, CoordinatorEnds
<1> QED
  BY <1>1, <1>2, <1>3, <1>4, <1>5, <1>6, <1>8, <1>9, <1>10, <1>11, <1>12, <1>13, <1>14, <1>15
  DEF WorkerStep, Process

\* Scheduler and time do not touch approvals, records or workers.
LEMMA BackgroundApproval ==
  ASSUME TypeOK, ApprovalInv, Background
  PROVE  ApprovalInv'
<1>1. UNCHANGED <<approvalVars, work>>
  BY DEF Background, DirectPublish, LeaseExpires, LeaseSlips, PublishMessage, PublishCommit,
         SchedulerCrash, Recover, RecoverScan, DeadLetter, RecoverCommit
<1> QED
  BY <1>1, ApprovalFrame

\* Every step of the system keeps ApprovalInv.
LEMMA NextApproval == TypeOK /\ ApprovalInv /\ ClosingHasRecord /\ [Next]_vars => ApprovalInv'
<1> SUFFICES ASSUME TypeOK, ApprovalInv, ClosingHasRecord, [Next]_vars PROVE ApprovalInv'
  OBVIOUS
<1>1. CASE UNCHANGED vars
  BY <1>1, ApprovalFrame DEF vars, approvalVars
<1>2. CASE Next
  BY <1>2, OperatorApproval, WorkerApproval, BackgroundApproval DEF Next
<1> QED
  BY <1>1, <1>2

\* The continuation owns its approval: the invariant behind the next three.
THEOREM ApprovalInvariant == Spec => []ApprovalInv
  BY TypeCorrect, ClosingIsAlone, InitApproval, NextApproval, PTL DEF Spec

\* No crash, redelivery, lost lease or recovery makes the remote write behind
\* an approval happen twice.
THEOREM AtMostOnce == Spec => []EffectAtMostOnce
<1>1. ApprovalInv => EffectAtMostOnce
  BY DEF ApprovalInv
<1> QED
  BY <1>1, ApprovalInvariant, PTL

\* An approval is consumed exactly when its execution record exists.
THEOREM ConsumptionIsRecorded == Spec => []ConsumedIffRecorded
<1>1. ApprovalInv => ConsumedIffRecorded
  BY DEF ApprovalInv
<1> QED
  BY <1>1, ApprovalInvariant, PTL

\* SUCCEEDED in the execution record means that the write was made.
THEOREM SuccessIsTrue == Spec => []RecordIsTruthful
<1>1. ApprovalInv => RecordIsTruthful
  BY DEF ApprovalInv
<1> QED
  BY <1>1, ApprovalInvariant, PTL

-----------------------------------------------------------------------------
(* Refinement: RunLifecycle implements ApprovedAction.                     *)

\* The initial state is one of ApprovedAction.
LEMMA InitRefines == Init => Abstract!Init
  BY DEF Init, Idle, Abstract!Init, PermitOf, ReportOf

\* Every step is a step of ApprovedAction or leaves the mapped variables alone.
LEMMA StepRefines ==
  ASSUME TypeOK, ApprovalInv, ClosingHasRecord, [Next]_vars
  PROVE  [Abstract!Next]_(Abstract!vars)
<1> DEFINE permit == [a \in Approvals |-> PermitOf(approval[a].status)]
           report == [a \in Approvals |-> ReportOf(exec[a])]
           doubted == {a \in Approvals : \E w \in Workers : work[w].pc = "closing" /\ work[w].appr = a}
<1>0. /\ work \in [Workers -> WorkerState] /\ effects \in [Approvals -> Nat]
      /\ exec \in [Approvals -> ExecutionStatus] /\ approval \in [Approvals -> ApprovalRow]
  BY DEF TypeOK
<1>18. ASSUME NEW w \in Workers, Elsewhere(w) PROVE UNCHANGED doubted
  BY <1>18, StaysElsewhere
<1>1. ASSUME UNCHANGED <<exec, effects, doubted>>,
             \A a \in Approvals : approval'[a].status = approval[a].status
      PROVE  UNCHANGED Abstract!vars
  BY <1>1 DEF Abstract!vars
<1>2. ASSUME NEW a \in Approvals, NEW s, UNCHANGED <<exec, effects>>,
             \A b \in Approvals : approval'[b].status = IF b = a THEN s ELSE approval[b].status
      PROVE  /\ permit' = [permit EXCEPT ![a] = PermitOf(s)]
             /\ UNCHANGED <<effects, report>>
  BY <1>2
<1>3. ASSUME NEW a \in Approvals, UNCHANGED <<approval, effects>>,
             \A b \in Approvals : b # a => exec'[b] = exec[b]
      PROVE  /\ report' = [report EXCEPT ![a] = ReportOf(exec'[a])]
             /\ UNCHANGED <<effects, permit>>
  BY <1>3
<1>4. ASSUME NEW a \in Approvals, ApprovalTimeout(a) PROVE UNCHANGED Abstract!vars
  <2>1. \A b \in Approvals : approval'[b].status = approval[b].status
    BY <1>0, <1>4 DEF ApprovalTimeout, ApprovalRow
  <2>2. UNCHANGED <<exec, effects, work>>
    BY <1>4 DEF ApprovalTimeout
  <2> QED
    BY <1>1, <2>1, <2>2
<1>5. ASSUME NEW a \in Approvals, Approve(a) \/ Reject(a) \/ DecideTooLate(a)
      PROVE  Abstract!Next
  <2>1. PICK s \in {"APPROVED", "REJECTED", "EXPIRED"} :
          approval' = [approval EXCEPT ![a].status = s]
    BY <1>5 DEF Approve, Reject, DecideTooLate
  <2>2. approval[a].status = "PENDING" /\ UNCHANGED <<exec, effects, work>>
    BY <1>5 DEF Approve, Reject, DecideTooLate
  <2>7. UNCHANGED doubted
    BY <2>2
  <2>3. \A b \in Approvals : approval'[b].status = IF b = a THEN s ELSE approval[b].status
    BY <1>0, <2>1 DEF ApprovalRow
  <2>4. PermitOf(s) \in {"granted", "refused"}
    BY DEF PermitOf
  <2>5. permit[a] = "asked"
    BY <2>2 DEF PermitOf
  <2>6. Abstract!Decide(a, PermitOf(s))
    BY <1>2, <2>2, <2>3, <2>4, <2>5, <2>7 DEF Abstract!Decide
  <2> QED
    BY <2>4, <2>6 DEF Abstract!Next
<1>6. ASSUME NEW w \in Workers, NEW a \in Approvals, Consume(w, a) PROVE Abstract!Next
  <2>1. approval[a].status = "APPROVED"
    BY <1>6 DEF Consume, Latest
  <2>2. \A b \in Approvals :
          /\ approval'[b].status = IF b = a THEN "CONSUMED" ELSE approval[b].status
          /\ exec'[b] = IF b = a THEN "PENDING" ELSE exec[b]
    BY <1>0, <1>6 DEF Consume, ApprovalRow
  <2>3. permit[a] = "granted" /\ PermitOf("CONSUMED") = "spent" /\ ReportOf("PENDING") = "open"
    BY <2>1 DEF PermitOf, ReportOf
  <2>4. /\ permit' = [permit EXCEPT ![a] = PermitOf("CONSUMED")]
        /\ report' = [report EXCEPT ![a] = ReportOf("PENDING")]
    BY <2>2
  <2>6. UNCHANGED doubted /\ UNCHANGED effects
    BY <1>6, <1>18 DEF Elsewhere, Consume
  <2>5. Abstract!Spend(a)
    BY <2>3, <2>4, <2>6 DEF Abstract!Spend
  <2> QED
    BY <2>5 DEF Abstract!Next
<1>7. ASSUME NEW w \in Workers, NEW a \in Approvals, AwaitApproval(w, a) PROVE Abstract!Next
  <2>1. approval[a].status = "NONE" /\ UNCHANGED <<exec, effects>>
    BY <1>7 DEF AwaitApproval, FreshApproval
  <2>2. \A b \in Approvals :
          approval'[b].status = IF b = a THEN "PENDING" ELSE approval[b].status
    BY <1>0, <1>7 DEF AwaitApproval
  <2>3. permit[a] = "none" /\ PermitOf("PENDING") = "asked"
    BY <2>1 DEF PermitOf
  <2>5. UNCHANGED doubted
    BY <1>7, <1>18 DEF Elsewhere
  <2>4. Abstract!Ask(a)
    BY <1>2, <2>1, <2>2, <2>3, <2>5 DEF Abstract!Ask
  <2> QED
    BY <2>4 DEF Abstract!Next
<1>8. ASSUME NEW a \in Approvals, exec[a] \in {"PENDING", "AMBIGUOUS"}, exec'[a] = "AMBIGUOUS",
             UNCHANGED <<approval, effects, doubted>>, \A b \in Approvals : b # a => exec'[b] = exec[b]
      PROVE  [Abstract!Next]_(Abstract!vars)
  <2>1. CASE exec[a] = "AMBIGUOUS"
    <3>1. exec' = exec \/ \A b \in Approvals : exec'[b] = exec[b]
      BY <1>8, <2>1
    <3> QED
      BY <1>8, <3>1 DEF Abstract!vars
  <2>2. CASE exec[a] = "PENDING"
    <3>1. report[a] = "open" /\ ReportOf(exec'[a]) = "unknown"
      BY <1>8, <2>2 DEF ReportOf
    <3>2. Abstract!ReportUnknown(a)
      BY <1>3, <1>8, <3>1 DEF Abstract!ReportUnknown
    <3> QED
      BY <3>2 DEF Abstract!Next
  <2> QED
    BY <1>8, <2>1, <2>2
<1>9. ASSUME NEW w \in Workers, FailClosed(w) PROVE Abstract!Next
  <2>1. PICK a \in Approvals : a = work[w].appr
    BY <1>9 DEF FailClosed, ClosingHasRecord
  <2>2. /\ work[w].pc = "closing" /\ UNCHANGED <<approval, effects>>
        /\ \A b \in Approvals : exec'[b] = IF b = a THEN "AMBIGUOUS" ELSE exec[b]
    BY <1>0, <1>9, <2>1 DEF FailClosed
  <2>3. work'[w].pc # "closing" /\ \A v \in Workers : v # w => work'[v] = work[v]
    BY <1>0, <1>9, NotClosing DEF FailClosed
  <2>4. a \in doubted /\ doubted' = doubted \ {a}
    BY <2>1, <2>2, <2>3 DEF ClosingHasRecord
  <2>7. ReportOf("AMBIGUOUS") = "unknown"
    BY DEF ReportOf
  <2>8. exec'[a] = "AMBIGUOUS" /\ \A b \in Approvals : b # a => exec'[b] = exec[b]
    BY <2>2
  <2>5. report' = [report EXCEPT ![a] = "unknown"]
    BY <1>3, <2>2, <2>7, <2>8
  <2> HIDE DEF doubted, report
  <2>6. Abstract!WriteOff(a)
    BY <2>2, <2>4, <2>5 DEF Abstract!WriteOff, doubted, report
  <2> QED
    BY <2>6 DEF Abstract!Next
<1>19. ASSUME NEW w \in Workers, NEW a \in Approvals, ReadOpen(w, a) PROVE Abstract!Next
  <2>1. /\ UNCHANGED <<approval, exec, effects>> /\ exec[a] = "PENDING"
        /\ \A v \in Workers : ~(work[v].pc = "closing" /\ work[v].appr = a)
    BY <1>19 DEF ReadOpen, Consumed, approvalVars
  <2>2. /\ work'[w].pc = "closing" /\ work'[w].appr = a /\ work[w].pc # "closing"
        /\ \A v \in Workers : v # w => work'[v] = work[v]
    BY <1>0, <1>19 DEF ReadOpen, Consumed, WorkerState
  <2>3. a \notin doubted /\ doubted' = doubted \cup {a}
    BY <2>1, <2>2
  <2>4. report[a] = "open"
    BY <2>1 DEF ReportOf
  <2>5. Abstract!Doubt(a)
    BY <2>1, <2>3, <2>4 DEF Abstract!Doubt
  <2> QED
    BY <2>5 DEF Abstract!Next
<1>20. ASSUME NEW w \in Workers, Crash(w) PROVE [Abstract!Next]_(Abstract!vars)
  <2>1. UNCHANGED <<approval, exec, effects>> /\ work' = [work EXCEPT ![w] = Idle]
    BY <1>20 DEF Crash, approvalVars
  <2>2. work'[w].pc # "closing" /\ \A v \in Workers : v # w => work'[v] = work[v]
    BY <1>0, <2>1, NotClosing
  <2>3. CASE work[w].pc # "closing"
    <3>1. UNCHANGED doubted
      BY <2>2, <2>3
    <3> QED
      BY <1>1, <2>1, <3>1
  <2>4. CASE work[w].pc = "closing"
    <3>1. PICK a \in Approvals : a = work[w].appr
      BY <2>4 DEF ClosingHasRecord
    <3>2. a \in doubted /\ doubted' = doubted \ {a}
      BY <2>2, <2>4, <3>1 DEF ClosingHasRecord
    <3>3. Abstract!GiveUp(a)
      BY <2>1, <3>2 DEF Abstract!GiveUp
    <3> QED
      BY <3>3 DEF Abstract!Next
  <2> QED
    BY <2>3, <2>4
<1>21. ASSUME NEW w \in Workers, NEW a \in Approvals, ReplayBlocked(w, a) PROVE UNCHANGED Abstract!vars
  <2>1. exec[a] # "NONE" /\ UNCHANGED <<approval, effects>>
    BY <1>21 DEF ReplayBlocked, Consumed, Latest, ApprovalInv, ConsumedIffRecorded
  <2>2. exec' = exec
    BY <1>0, <1>21, <2>1 DEF ReplayBlocked
  <2>3. UNCHANGED doubted
    BY <1>18, <1>21 DEF Elsewhere
  <2> QED
    BY <1>1, <2>1, <2>2, <2>3
<1>10. ASSUME NEW w \in Workers, FailCall(w) PROVE [Abstract!Next]_(Abstract!vars)
  <2>1. work[w].appr \in Approvals /\ exec[work[w].appr] \in {"PENDING", "AMBIGUOUS"}
    BY <1>10 DEF FailCall, Acting, ApprovalInv, ActingOwnsApproval
  <2>2. UNCHANGED doubted
    BY <1>10, <1>18 DEF Elsewhere
  <2> HIDE DEF doubted
  <2> QED
    BY <1>0, <1>8, <1>10, <2>1, <2>2 DEF FailCall
<1>11. ASSUME NEW w \in Workers, FinishCall(w) PROVE Abstract!Next
  <2> DEFINE a == work[w].appr
  <2>1. a \in Approvals /\ exec[a] \in {"PENDING", "AMBIGUOUS"} /\ effects[a] = 1
    BY <1>11 DEF FinishCall, Acting, ApprovalInv, ActingOwnsApproval
  <2>2. /\ UNCHANGED <<approval, effects>> /\ exec'[a] = "SUCCEEDED"
        /\ \A b \in Approvals : b # a => exec'[b] = exec[b]
    BY <1>0, <1>11, <2>1 DEF FinishCall
  <2> HIDE DEF a
  <2>3. report[a] \in {"open", "unknown"} /\ ReportOf(exec'[a]) = "done"
    BY <2>1, <2>2 DEF ReportOf
  <2>5. UNCHANGED doubted
    BY <1>11, <1>18 DEF Elsewhere
  <2>4. Abstract!ReportDone(a)
    BY <1>3, <2>1, <2>2, <2>3, <2>5 DEF Abstract!ReportDone
  <2> QED
    BY <2>1, <2>4 DEF Abstract!Next
<1>12. ASSUME NEW w \in Workers, NEW happened \in BOOLEAN, NEW raised \in BOOLEAN,
              CallTool(w, happened, raised)
       PROVE  [Abstract!Next]_(Abstract!vars)
  <2> DEFINE a == work[w].appr
  <2>1. a \in Approvals /\ approval[a].status = "CONSUMED" /\ effects[a] = 0
    BY <1>12 DEF CallTool, Acting, ApprovalInv, ActingOwnsApproval
  <2>2. UNCHANGED <<approval, exec>>
    BY <1>12 DEF CallTool
  <2>3. effects' = effects \/ effects' = [effects EXCEPT ![a] = 1]
    BY <1>0, <1>12, <2>1 DEF CallTool
  <2>7. UNCHANGED doubted
    BY <1>12, <1>18 DEF Elsewhere
  <2> HIDE DEF a
  <2>4. permit[a] = "spent"
    BY <2>1 DEF PermitOf
  <2>5. CASE effects' = [effects EXCEPT ![a] = 1]
    <3>1. Abstract!Act(a)
      BY <2>1, <2>2, <2>4, <2>5, <2>7 DEF Abstract!Act
    <3> QED
      BY <2>1, <3>1 DEF Abstract!Next
  <2>6. CASE effects' = effects
    BY <1>1, <2>2, <2>6, <2>7
  <2> QED
    BY <2>3, <2>5, <2>6
<1>13. ASSUME UNCHANGED <<approvalVars, doubted>> PROVE UNCHANGED Abstract!vars
  BY <1>1, <1>13 DEF approvalVars
<1>22. ASSUME UNCHANGED <<approvalVars, work>> PROVE UNCHANGED Abstract!vars
  BY <1>13, <1>22
<1>14. CASE Operator
  BY <1>4, <1>5, <1>14, <1>22
  DEF Operator, CreateTask, TelegramTask, DirectLost, ControlRun, TelegramControl,
      TelegramResume, RetryRun
<1>15. ASSUME NEW w \in Workers, WorkerStep(w) PROVE [Abstract!Next]_(Abstract!vars)
  <2>1. CASE Elsewhere(w)
    <3>1. \/ UNCHANGED approvalVars
          \/ \E a \in Approvals : Consume(w, a) \/ ReplayBlocked(w, a) \/ AwaitApproval(w, a)
          \/ \E happened, raised \in BOOLEAN : CallTool(w, happened, raised)
          \/ FinishCall(w) \/ FailCall(w)
      BY <2>1
      DEF Elsewhere, Fetch, Receive, Reclaim, Claim, ClaimRefused, ConsumeRefused,
          NoContinuation, FinishRaises, CoordinatorEnds, FinalWrite, Ack, AckFails, Heartbeat
    <3>2. UNCHANGED doubted
      BY <1>18, <2>1
    <3> HIDE DEF doubted
    <3> QED
      BY <1>6, <1>7, <1>10, <1>11, <1>12, <1>13, <1>21, <3>1, <3>2
  <2> QED
    BY <1>9, <1>15, <1>19, <1>20, <2>1, StepKinds
<1>16. CASE Background
  <2>1. UNCHANGED <<approvalVars, work>>
    BY <1>16
    DEF Background, DirectPublish, LeaseExpires, LeaseSlips, PublishMessage, PublishCommit,
        SchedulerCrash, Recover, RecoverScan, DeadLetter, RecoverCommit
  <2> QED
    BY <1>22, <2>1
<1>17. CASE UNCHANGED vars
  BY <1>17, <1>22 DEF vars, approvalVars
<1> QED
  BY <1>14, <1>15, <1>16, <1>17 DEF Next

\* Every behaviour of the workers, the scheduler, the operators and the faults
\* is a behaviour of ApprovedAction: one question, one decision, one use, one
\* effect per approval, and a report that is never wrong, and withdrawn only by
\* a worker that had read the record before it was made.
THEOREM SingleUse == Spec => ApprovalsAreSingleUse
<1>1. TypeOK /\ ApprovalInv /\ ClosingHasRecord /\ [Next]_vars => [Abstract!Next]_(Abstract!vars)
  BY StepRefines
<1> QED
  BY <1>1, InitRefines, TypeCorrect, ApprovalInvariant, ClosingIsAlone, PTL
  DEF Spec, ApprovalsAreSingleUse, Abstract!Spec

-----------------------------------------------------------------------------
(* A queued run is not forgotten.                                          *)

\* The run that a message names.
LEMMA MessageRuns ==
  /\ \A r \in Runs : MsgRun(RunMsg(r)) = r
  /\ \A a \in Approvals : MsgRun(ApproveMsg(a)) = approval[a].run
  /\ \A m \in Messages : m.kind # "run" => m.id \in Approvals /\ m = ApproveMsg(m.id)
  BY DEF MsgRun, RunMsg, ApproveMsg, Messages

\* A message goes on naming the run it named if approvals keep theirs.
LEMMA MessageRunsKept ==
  ASSUME \A a \in Approvals : approval'[a].run = approval[a].run
  PROVE  \A m \in Messages : MsgRun(m)' = MsgRun(m)
  BY MessageRuns DEF MsgRun

\* What is left of a worker that has only to acknowledge.
LEMMA AckState ==
  \A w \in Workers : ToAck(w).pc = "ack" /\ ToAck(w).ticket = work[w].ticket
  BY DEF ToAck, Idle

\* A step that leaves the workers and the pending entries alone keeps the
\* invariant if every run it leaves QUEUED has something on its way.
LEMMA DeliveryFrame ==
  ASSUME DeliveryInv, UNCHANGED <<work, pel>>,
         \A a \in Approvals : approval'[a].status = "NONE" => outbox'[ApproveMsg(a)] = "none",
         \A r \in Runs : run'[r].status = "QUEUED" =>
           \/ Outstanding(r)' \/ r \in lost'
           \/ /\ run[r].status = "QUEUED"
              /\ unread[r] > 0 => unread'[r] > 0
              /\ r \in direct \cup lost => r \in direct' \cup lost'
              /\ \A m \in Messages : outbox[m] = "unprocessed" /\ MsgRun(m) = r
                   => (outbox[m] = "unprocessed" /\ MsgRun(m) = r)' \/ unread'[r] > 0
  PROVE  DeliveryInv'
<1>1. ASSUME NEW r \in Runs, run'[r].status = "QUEUED" PROVE Outstanding(r)' \/ r \in lost'
  <2>1. CASE run[r].status = "QUEUED"
    <3>1. Outstanding(r) \/ r \in lost
      BY <2>1 DEF DeliveryInv, QueuedHasMessage
    <3> QED
      BY <1>1, <3>1 DEF Outstanding
  <2> QED
    BY <1>1, <2>1
<1> QED
  BY <1>1 DEF DeliveryInv, QueuedHasMessage

\* A step of one worker that leaves the tables, the outbox and the stream alone
\* keeps the invariant if no witness is lost: an entry the worker now holds
\* beyond loading, or whose row it held, was not the only thing bringing a run.
LEMMA DeliveryWorker ==
  ASSUME TypeOK, DeliveryInv, NEW w \in Workers,
         UNCHANGED <<approval, outbox, direct, lost, unread, pel>>,
         \A r \in Runs : run'[r].status = "QUEUED" => run[r].status = "QUEUED",
         \A v \in Workers : v # w => work'[v] = work[v],
         \A t \in Tickets : work'[w].ticket = t =>
           \/ work'[w].pc = "loaded"
           \/ work[w].ticket = t /\ work[w].pc # "loaded"
           \/ pel[t] \in Runs => run'[pel[t]].status # "QUEUED",
         work'[w].pc = "loaded" =>
           work'[w].ticket \in Tickets /\ pel[work'[w].ticket] \in {0, work'[w].run},
         work'[w].pc = "final" => work'[w].out # "QUEUED"
  PROVE  DeliveryInv'
<1>1. ASSUME NEW r \in Runs, run'[r].status = "QUEUED" PROVE Outstanding(r)' \/ r \in lost'
  <2>1. run[r].status = "QUEUED"
    BY <1>1
  <2>2. Outstanding(r) \/ r \in lost
    BY <2>1 DEF DeliveryInv, QueuedHasMessage
  <2>3. ASSUME NEW t \in Tickets, pel[t] = r,
               \A v \in Workers : work[v].ticket = t => work[v].pc = "loaded"
        PROVE  Outstanding(r)'
    <3>1. work'[w].ticket = t => work'[w].pc = "loaded"
      BY <1>1, <2>3
    <3>2. \A v \in Workers : work'[v].ticket = t => work'[v].pc = "loaded"
      BY <3>1, <2>3
    <3> QED
      BY <3>2, <2>3 DEF Outstanding
  <2> QED
    BY <2>2, <2>3 DEF Outstanding, MsgRun
<1> QED
  BY <1>1 DEF DeliveryInv, QueuedHasMessage

\* Initially nothing is queued.
LEMMA InitDelivery == Init => DeliveryInv
  BY MessageTypes DEF Init, DeliveryInv, QueuedHasMessage, Idle

\* A handler that queues a run leaves its message or goes on to publish.
LEMMA OperatorDelivery ==
  ASSUME TypeOK, DeliveryInv, Operator
  PROVE  DeliveryInv'
<1>0. run \in [Runs -> RunRow] /\ approval \in [Approvals -> ApprovalRow]
      /\ outbox \in [Messages -> {"none", "unprocessed", "sent", "processed"}]
  BY DEF TypeOK
<1>1. ASSUME NEW r \in Runs, NEW n \in Runs, CreateTask(n) \/ RetryRun(r, n) PROVE DeliveryInv'
  <2>1. /\ outbox' = [outbox EXCEPT ![RunMsg(n)] = "unprocessed"]
        /\ UNCHANGED <<approvalVars, direct, streamVars, work, lost>>
        /\ \A q \in Runs : q # n => run'[q] = run[q]
    BY <1>0, <1>1 DEF CreateTask, RetryRun
  <2>2. outbox'[RunMsg(n)] = "unprocessed" /\ MsgRun(RunMsg(n))' = n
    BY <1>0, <2>1, MessageTypes DEF RunMsg, MsgRun
  <2>3. \A a \in Approvals : outbox'[ApproveMsg(a)] = outbox[ApproveMsg(a)]
    BY <1>0, <2>1, MessageTypes DEF RunMsg, ApproveMsg
  <2>4. \A m \in Messages : outbox[m] = "unprocessed" => outbox'[m] = "unprocessed"
    BY <1>0, <2>1
  <2> QED
    BY <2>1, <2>2, <2>3, <2>4, DeliveryFrame, MessageTypes
    DEF approvalVars, streamVars, Outstanding, MsgRun, DeliveryInv
<1>2. ASSUME NEW r \in Runs, TelegramTask(r) \/ TelegramResume(r) PROVE DeliveryInv'
  <2>1. /\ direct' = direct \cup {r} /\ \A q \in Runs : q # r => run'[q] = run[q]
        /\ UNCHANGED <<approvalVars, outbox, streamVars, work, lost>>
    BY <1>0, <1>2 DEF TelegramTask, TelegramResume
  <2> QED
    BY <2>1, DeliveryFrame DEF approvalVars, streamVars, Outstanding, MsgRun, DeliveryInv
<1>3. ASSUME NEW r \in Runs, DirectLost(r) PROVE DeliveryInv'
  BY <1>3, DeliveryFrame DEF DirectLost, approvalVars, streamVars, MsgRun, DeliveryInv
<1>4. ASSUME NEW r \in Runs, NEW c \in {"pause", "stop", "resume"},
             ControlRun(r, c) \/ TelegramControl(r, c)
      PROVE  DeliveryInv'
  <2>1. \A q \in Runs : run'[q].status = run[q].status
    BY <1>0, <1>4 DEF ControlRun, TelegramControl, RunRow
  <2>2. UNCHANGED <<approvalVars, outbox, direct, streamVars, work, lost>>
    BY <1>4 DEF ControlRun, TelegramControl
  <2> QED
    BY <2>1, <2>2, DeliveryFrame DEF approvalVars, streamVars, MsgRun, DeliveryInv
<1>5. ASSUME NEW a \in Approvals, Approve(a) PROVE DeliveryInv'
  <2>1. /\ outbox' = [outbox EXCEPT ![ApproveMsg(a)] = "unprocessed"]
        /\ UNCHANGED <<direct, streamVars, work, lost>>
        /\ \A b \in Approvals : /\ approval'[b].run = approval[b].run
                                /\ approval'[b].status = "NONE" => b # a /\ approval[b].status = "NONE"
    BY <1>0, <1>5 DEF Approve, ApprovalRow
  <2>2. \A q \in Runs : q # approval[a].run => run'[q] = run[q]
    BY <1>0, <1>5 DEF Approve
  <2>3. outbox'[ApproveMsg(a)] = "unprocessed" /\ MsgRun(ApproveMsg(a))' = approval[a].run
    BY <1>0, <2>1, MessageTypes DEF MsgRun, ApproveMsg
  <2>4. \A b \in Approvals : b # a => outbox'[ApproveMsg(b)] = outbox[ApproveMsg(b)]
    BY <1>0, <2>1, MessageTypes DEF ApproveMsg
  <2>5. \A m \in Messages : outbox[m] = "unprocessed" => outbox'[m] = "unprocessed"
    BY <1>0, <2>1
  <2>6. \A m \in Messages : MsgRun(m)' = MsgRun(m)
    BY <2>1, MessageRunsKept DEF MsgRun
  <2> QED
    BY <2>1, <2>2, <2>3, <2>4, <2>5, <2>6, DeliveryFrame, MessageTypes
    DEF streamVars, Outstanding, DeliveryInv, MsgRun
<1>6. ASSUME NEW a \in Approvals, ApprovalTimeout(a) \/ Reject(a) \/ DecideTooLate(a)
      PROVE  DeliveryInv'
  <2>1. /\ UNCHANGED <<outbox, direct, streamVars, work, lost>>
        /\ \A b \in Approvals : /\ approval'[b].run = approval[b].run
                                /\ approval'[b].status = "NONE" => approval[b].status = "NONE"
    BY <1>0, <1>6 DEF ApprovalTimeout, Reject, DecideTooLate, ApprovalRow
  <2>2. \A q \in Runs : run'[q].status = "QUEUED" => run[q].status = "QUEUED"
    <3>1. CASE Reject(a)
      BY <1>0, <3>1 DEF Reject, RunRow
    <3> QED
      BY <1>6, <3>1 DEF ApprovalTimeout, DecideTooLate
  <2>3. \A m \in Messages : MsgRun(m)' = MsgRun(m)
    BY <2>1, MessageRunsKept DEF MsgRun
  <2> QED
    BY <2>1, <2>2, <2>3, DeliveryFrame DEF streamVars, DeliveryInv, MsgRun
<1> QED
  BY <1>1, <1>2, <1>3, <1>4, <1>5, <1>6 DEF Operator

\* A worker takes an entry over before anything else of it is given up, and
\* gives an entry up only when its run is no longer queued.
LEMMA WorkerDelivery ==
  ASSUME TypeOK, DeliveryInv, NEW w \in Workers, WorkerStep(w)
  PROVE  DeliveryInv'
<1>0. /\ work \in [Workers -> WorkerState] /\ run \in [Runs -> RunRow]
      /\ pel \in [Tickets -> Runs \cup {0}] /\ unread \in [Runs -> Nat] /\ 0 \notin Tickets
      /\ approval \in [Approvals -> ApprovalRow]
  BY DEF TypeOK, Tickets
<1>1. ASSUME NEW t \in Tickets, NEW q \in Runs, Receive(w, t, q) PROVE DeliveryInv'
  <2>1. /\ UNCHANGED <<run, approvalVars, outbox, direct, lost>>
        /\ \A r \in Runs : r # q => unread'[r] = unread[r]
        /\ \A u \in Tickets : pel'[u] = IF u = t THEN q ELSE pel[u]
        /\ \A v \in Workers : v # w => work'[v] = work[v] /\ work[v].ticket # t
        /\ pel[t] = 0
    BY <1>0, <1>1 DEF Receive, Load, FreshTicket
  <2>2. /\ work'[w].ticket = t /\ work'[w].pc \in {"loaded", "ack"}
        /\ work'[w].pc = "loaded" => work'[w].run = q
        /\ run[q].status = "QUEUED" => work'[w].pc = "loaded"
    BY <1>0, <1>1 DEF Receive, Load, Idle, Terminal
  <2>3. ASSUME NEW r \in Runs, run[r].status = "QUEUED" PROVE Outstanding(r)' \/ r \in lost'
    <3>1. CASE r = q
      BY <2>1, <2>2, <2>3, <3>1 DEF Outstanding
    <3>2. CASE r # q
      <4>1. Outstanding(r) \/ r \in lost
        BY <2>3 DEF DeliveryInv, QueuedHasMessage
      <4>2. ASSUME NEW u \in Tickets, pel[u] = r,
                   \A v \in Workers : work[v].ticket = u => work[v].pc = "loaded"
            PROVE  Outstanding(r)'
        <5>1. u # t
          BY <2>1, <4>2 DEF Runs
        <5>2. pel'[u] = r /\ \A v \in Workers : work'[v].ticket = u => work'[v].pc = "loaded"
          BY <2>1, <2>2, <4>2, <5>1
        <5> QED
          BY <5>2 DEF Outstanding
      <4> QED
        BY <2>1, <3>2, <4>1, <4>2 DEF Outstanding, MsgRun, approvalVars
    <3> QED
      BY <3>1, <3>2
  <2>4. \A v \in Workers : work'[v].pc = "loaded" =>
          work'[v].ticket \in Tickets /\ pel'[work'[v].ticket] \in {0, work'[v].run}
    BY <2>1, <2>2 DEF DeliveryInv
  <2>5. \A v \in Workers : work'[v].pc = "final" => work'[v].out # "QUEUED"
    BY <2>1, <2>2 DEF DeliveryInv
  <2> QED
    BY <2>1, <2>3, <2>4, <2>5 DEF DeliveryInv, QueuedHasMessage, approvalVars
<1>2. ASSUME NEW t \in Tickets, Reclaim(w, t) PROVE DeliveryInv'
  <2>1. /\ pel[t] \in Runs /\ UNCHANGED <<run, approvalVars, outbox, direct, lost, unread, pel>>
        /\ \A v \in Workers : v # w => work'[v] = work[v]
    BY <1>0, <1>2 DEF Reclaim, Load, streamVars
  <2>2. /\ work'[w].ticket = t /\ work'[w].pc \in {"loaded", "ack"}
        /\ work'[w].pc = "loaded" => work'[w].run = pel[t]
        /\ run[pel[t]].status = "QUEUED" => work'[w].pc = "loaded"
    BY <1>0, <1>2 DEF Reclaim, Load, Idle, Terminal
  <2> QED
    BY <2>1, <2>2, DeliveryWorker DEF approvalVars
<1>3. ASSUME Claim(w) \/ ClaimRefused(w) PROVE DeliveryInv'
  <2>1. /\ work[w].pc = "loaded" /\ work[w].ticket \in Tickets
        /\ pel[work[w].ticket] \in {0, work[w].run}
    BY <1>3 DEF Claim, ClaimRefused, DeliveryInv
  <2>2. /\ UNCHANGED <<approvalVars, outbox, direct, streamVars, lost>>
        /\ \A v \in Workers : v # w => work'[v] = work[v]
        /\ work'[w].pc \in {"claimed", "ack"} /\ work'[w].ticket = work[w].ticket
    <3>1. CASE Claim(w)
      BY <1>0, <3>1 DEF Claim, WorkerState
    <3>2. CASE ClaimRefused(w)
      BY <1>0, <3>2, AckState DEF ClaimRefused
    <3> QED
      BY <1>3, <3>1, <3>2
  <2>3. \A r \in Runs : run'[r].status = "QUEUED" => run[r].status = "QUEUED" /\ r # work[w].run
    <3>1. CASE Claim(w)
      <4>1. /\ \A r \in Runs : r # work[w].run => run'[r] = run[r]
            /\ work[w].run \in Runs => run'[work[w].run].status = "EXECUTING"
        BY <1>0, <3>1 DEF Claim, RunRow
      <4> QED
        BY <4>1
    <3>2. CASE ClaimRefused(w)
      BY <3>2 DEF ClaimRefused, Claimable
    <3> QED
      BY <1>3, <3>1, <3>2
  <2>4. pel[work[w].ticket] \in Runs => run'[pel[work[w].ticket]].status # "QUEUED"
    BY <2>1, <2>3 DEF Runs
  <2> QED
    BY <2>1, <2>2, <2>3, <2>4, DeliveryWorker DEF approvalVars, streamVars
<1>4. ASSUME NEW a \in Approvals, AwaitApproval(w, a) PROVE DeliveryInv'
  <2>1. /\ UNCHANGED <<run, outbox, direct, streamVars, lost>>
        /\ approval[a].status = "NONE" /\ approval'[a].status = "PENDING"
        /\ \A b \in Approvals : b # a => approval'[b] = approval[b]
    BY <1>0, <1>4 DEF AwaitApproval, FreshApproval
  <2>2. /\ \A v \in Workers : v # w => work'[v] = work[v]
        /\ work[w].pc = "running" /\ work'[w].pc = "final" /\ work'[w].out = "WAITING_APPROVAL"
        /\ work'[w].ticket = work[w].ticket
    BY <1>0, <1>4 DEF AwaitApproval, WorkerState
  <2>3. \A m \in Messages : outbox[m] = "unprocessed" => MsgRun(m)' = MsgRun(m)
    <3>1. outbox[ApproveMsg(a)] = "none"
      BY <2>1 DEF DeliveryInv
    <3> QED
      BY <2>1, <3>1 DEF MsgRun, Messages, ApproveMsg
  <2>4. \A r \in Runs : run'[r].status = "QUEUED" => Outstanding(r)' \/ r \in lost'
    <3>1. \A t \in Tickets :
            (\A v \in Workers : work[v].ticket = t => work[v].pc = "loaded")
              => \A v \in Workers : work'[v].ticket = t => work'[v].pc = "loaded"
      BY <2>2
    <3> QED
      BY <2>1, <2>3, <3>1 DEF Outstanding, DeliveryInv, QueuedHasMessage, streamVars
  <2> QED
    BY <2>1, <2>2, <2>4 DEF DeliveryInv, QueuedHasMessage, streamVars
<1>5. CASE Ack(w)
  <2>1. /\ UNCHANGED <<run, approvalVars, outbox, direct, lost, unread>>
        /\ \A u \in Tickets : u # work[w].ticket => pel'[u] = pel[u]
        /\ \A u \in Tickets : pel'[u] \in {0, pel[u]}
        /\ \A v \in Workers : v # w => work'[v] = work[v]
        /\ work[w].pc = "ack" /\ work'[w].pc = "idle"
    BY <1>0, <1>5 DEF Ack, Idle
  <2>2. ASSUME NEW r \in Runs, run[r].status = "QUEUED" PROVE Outstanding(r)' \/ r \in lost'
    <3>1. Outstanding(r) \/ r \in lost
      BY <2>2 DEF DeliveryInv, QueuedHasMessage
    <3>2. ASSUME NEW u \in Tickets, pel[u] = r,
                 \A v \in Workers : work[v].ticket = u => work[v].pc = "loaded"
          PROVE  Outstanding(r)'
      <4>1. u # work[w].ticket
        BY <2>1, <3>2
      <4>2. work'[w].ticket # u
        BY <1>0, <1>5 DEF Ack, Idle
      <4> QED
        BY <2>1, <3>2, <4>1, <4>2 DEF Outstanding
    <3> QED
      BY <2>1, <3>1, <3>2 DEF Outstanding, MsgRun, approvalVars
  <2>3. \A v \in Workers : work'[v].pc = "loaded" =>
          work'[v].ticket \in Tickets /\ pel'[work'[v].ticket] \in {0, work'[v].run}
    <3>1. ASSUME NEW v \in Workers, work'[v].pc = "loaded"
          PROVE  work'[v].ticket \in Tickets /\ pel'[work'[v].ticket] \in {0, work'[v].run}
      <4>1. work'[v] = work[v]
        BY <2>1, <3>1
      <4> QED
        BY <2>1, <3>1, <4>1 DEF DeliveryInv
    <3> QED
      BY <3>1
  <2>4. \A v \in Workers : work'[v].pc = "final" => work'[v].out # "QUEUED"
    BY <2>1 DEF DeliveryInv
  <2> QED
    BY <2>1, <2>2, <2>3, <2>4 DEF DeliveryInv, QueuedHasMessage, approvalVars
<1>6. CASE AckFails(w) \/ Crash(w)
  <2>1. /\ UNCHANGED <<run, approvalVars, outbox, direct, streamVars, lost>>
        /\ work' = [work EXCEPT ![w] = Idle]
    BY <1>6 DEF AckFails, Crash
  <2>2. work'[w].ticket = 0 /\ work'[w].pc = "idle" /\ \A v \in Workers : v # w => work'[v] = work[v]
    BY <1>0, <2>1 DEF Idle
  <2> QED
    BY <1>0, <2>1, <2>2, DeliveryWorker DEF approvalVars, streamVars
<1>7. CASE Heartbeat(w)
  <2>1. \A r \in Runs : run'[r].status = run[r].status
    BY <1>0, <1>7 DEF Heartbeat, RunRow
  <2>2. UNCHANGED <<approvalVars, outbox, direct, streamVars, work, lost>>
    BY <1>7 DEF Heartbeat
  <2> QED
    BY <2>1, <2>2, DeliveryFrame DEF approvalVars, streamVars, MsgRun, DeliveryInv
<1>8. ASSUME UNCHANGED <<outbox, direct, streamVars, lost>>,
             \A b \in Approvals : /\ approval'[b].run = approval[b].run
                                  /\ approval'[b].status = "NONE" => approval[b].status = "NONE",
             \A r \in Runs : run'[r].status = "QUEUED" => run[r].status = "QUEUED",
             \A v \in Workers : v # w => work'[v] = work[v],
             work[w].pc # "loaded", work'[w].pc # "loaded",
             work'[w].ticket = work[w].ticket,
             work'[w].pc = "final" => work'[w].out # "QUEUED"
      PROVE  DeliveryInv'
  <2>1. \A m \in Messages : MsgRun(m)' = MsgRun(m)
    BY <1>8, MessageRunsKept DEF MsgRun
  <2>2. \A t \in Tickets :
          (\A v \in Workers : work[v].ticket = t => work[v].pc = "loaded")
            => \A v \in Workers : work'[v].ticket = t => work'[v].pc = "loaded"
    BY <1>8
  <2>3. \A r \in Runs : run'[r].status = "QUEUED" => Outstanding(r)' \/ r \in lost'
    BY <1>8, <2>1, <2>2 DEF Outstanding, DeliveryInv, QueuedHasMessage, streamVars
  <2>4. \A v \in Workers : work'[v].pc = "loaded" => work'[v] = work[v]
    BY <1>8
  <2> QED
    BY <1>8, <2>3, <2>4 DEF DeliveryInv, QueuedHasMessage, streamVars
<1>9. ASSUME NEW a \in Approvals, Consume(w, a) PROVE DeliveryInv'
  <2>1. \A r \in Runs : run'[r].status = "QUEUED" => run[r].status = "QUEUED"
    BY <1>0, <1>9 DEF Consume
  <2>2. /\ \A v \in Workers : v # w => work'[v] = work[v]
        /\ work[w].pc # "loaded" /\ work'[w].pc = "calling" /\ work'[w].ticket = work[w].ticket
    BY <1>0, <1>9 DEF Consume, WorkerState
  <2>3. \A b \in Approvals : /\ approval'[b].run = approval[b].run
                             /\ approval'[b].status = "NONE" => approval[b].status = "NONE"
    BY <1>0, <1>9 DEF Consume, ApprovalRow
  <2> QED
    BY <1>8, <1>9, <2>1, <2>2, <2>3 DEF Consume, approvalVars
<1>10. ASSUME NEW a \in Approvals, ConsumeRefused(w, a) PROVE DeliveryInv'
  <2>1. \A r \in Runs : run'[r].status = "QUEUED" => run[r].status = "QUEUED"
    BY <1>0, <1>10 DEF ConsumeRefused
  <2>2. /\ \A v \in Workers : v # w => work'[v] = work[v]
        /\ work[w].pc # "loaded" /\ work'[w].pc = "ack" /\ work'[w].ticket = work[w].ticket
    BY <1>0, <1>10, AckState DEF ConsumeRefused
  <2> QED
    BY <1>8, <1>10, <2>1, <2>2 DEF ConsumeRefused, approvalVars
<1>11. ASSUME FailClosed(w) PROVE DeliveryInv'
  <2>1. \A r \in Runs : run'[r].status = "QUEUED" => run[r].status = "QUEUED"
    BY <1>0, <1>11 DEF FailClosed, SettleRun, RunRow
  <2>2. /\ \A v \in Workers : v # w => work'[v] = work[v]
        /\ work[w].pc # "loaded" /\ work'[w].pc = "ack" /\ work'[w].ticket = work[w].ticket
    BY <1>0, <1>11, AckState DEF FailClosed
  <2> QED
    BY <1>8, <1>11, <2>1, <2>2 DEF FailClosed, approvalVars
<1>19. ASSUME NEW a \in Approvals, ReplayBlocked(w, a) PROVE DeliveryInv'
  <2>1. \A r \in Runs : run'[r].status = "QUEUED" => run[r].status = "QUEUED"
    <3>1. run' = [run EXCEPT ![work[w].run].status = IF @ = "EXECUTING" THEN "COMPLETED" ELSE @]
          \/ run' = [run EXCEPT ![work[w].run].status = IF @ = "EXECUTING" THEN "FAILED" ELSE @]
      BY <1>19 DEF ReplayBlocked, SettleRun
    <3> QED
      BY <1>0, <3>1 DEF RunRow
  <2>2. /\ \A v \in Workers : v # w => work'[v] = work[v]
        /\ work[w].pc # "loaded" /\ work'[w].pc = "ack" /\ work'[w].ticket = work[w].ticket
    BY <1>0, <1>19, AckState DEF ReplayBlocked, Consumed
  <2> QED
    BY <1>8, <1>19, <2>1, <2>2 DEF ReplayBlocked, approvalVars
<1>20. ASSUME NEW a \in Approvals, ReadOpen(w, a) PROVE DeliveryInv'
  <2>1. UNCHANGED <<run, approval, outbox, direct, streamVars, lost>>
    BY <1>20 DEF ReadOpen, approvalVars
  <2>2. /\ \A v \in Workers : v # w => work'[v] = work[v]
        /\ work[w].pc # "loaded" /\ work'[w].pc = "closing" /\ work'[w].ticket = work[w].ticket
    BY <1>0, <1>20 DEF ReadOpen, Consumed, WorkerState
  <2> QED
    BY <1>8, <2>1, <2>2
<1>12. ASSUME NoContinuation(w) PROVE DeliveryInv'
  <2>1. \A r \in Runs : run'[r].status = "QUEUED" => run[r].status = "QUEUED"
    BY <1>0, <1>12 DEF NoContinuation
  <2>2. /\ \A v \in Workers : v # w => work'[v] = work[v]
        /\ work[w].pc # "loaded" /\ work'[w].pc = "running" /\ work'[w].ticket = work[w].ticket
    BY <1>0, <1>12 DEF NoContinuation, WorkerState
  <2> QED
    BY <1>8, <1>12, <2>1, <2>2 DEF NoContinuation, approvalVars
<1>13. ASSUME NEW happened \in BOOLEAN, NEW raised \in BOOLEAN, CallTool(w, happened, raised) PROVE DeliveryInv'
  <2>1. \A r \in Runs : run'[r].status = "QUEUED" => run[r].status = "QUEUED"
    BY <1>0, <1>13 DEF CallTool
  <2>2. /\ \A v \in Workers : v # w => work'[v] = work[v]
        /\ work[w].pc # "loaded" /\ work'[w].pc \in {"errored", "called"} /\ work'[w].ticket = work[w].ticket
    BY <1>0, <1>13 DEF CallTool, WorkerState
  <2> QED
    BY <1>8, <1>13, <2>1, <2>2 DEF CallTool, approvalVars
<1>14. ASSUME FinishCall(w) PROVE DeliveryInv'
  <2>1. \A r \in Runs : run'[r].status = "QUEUED" => run[r].status = "QUEUED"
    BY <1>0, <1>14 DEF FinishCall, RunRow
  <2>2. /\ \A v \in Workers : v # w => work'[v] = work[v]
        /\ work[w].pc # "loaded" /\ work'[w].pc = "ack" /\ work'[w].ticket = work[w].ticket
    BY <1>0, <1>14, AckState DEF FinishCall
  <2> QED
    BY <1>8, <1>14, <2>1, <2>2 DEF FinishCall, approvalVars
<1>15. ASSUME FinishRaises(w) PROVE DeliveryInv'
  <2>1. \A r \in Runs : run'[r].status = "QUEUED" => run[r].status = "QUEUED"
    BY <1>0, <1>15 DEF FinishRaises
  <2>2. /\ \A v \in Workers : v # w => work'[v] = work[v]
        /\ work[w].pc # "loaded" /\ work'[w].pc = "errored" /\ work'[w].ticket = work[w].ticket
    BY <1>0, <1>15 DEF FinishRaises, WorkerState
  <2> QED
    BY <1>8, <1>15, <2>1, <2>2 DEF FinishRaises, approvalVars
<1>16. ASSUME FailCall(w) PROVE DeliveryInv'
  <2>1. \A r \in Runs : run'[r].status = "QUEUED" => run[r].status = "QUEUED"
    BY <1>0, <1>16 DEF FailCall, RunRow
  <2>2. /\ \A v \in Workers : v # w => work'[v] = work[v]
        /\ work[w].pc # "loaded" /\ work'[w].pc = "ack" /\ work'[w].ticket = work[w].ticket
    BY <1>0, <1>16, AckState DEF FailCall
  <2> QED
    BY <1>8, <1>16, <2>1, <2>2 DEF FailCall, approvalVars
<1>17. ASSUME NEW out \in {"PAUSED", "CANCELLED", "COMPLETED", "FAILED"}, CoordinatorEnds(w, out) PROVE DeliveryInv'
  <2>1. \A r \in Runs : run'[r].status = "QUEUED" => run[r].status = "QUEUED"
    BY <1>0, <1>17 DEF CoordinatorEnds
  <2>2. /\ \A v \in Workers : v # w => work'[v] = work[v]
        /\ work[w].pc # "loaded" /\ work'[w].pc = "final" /\ work'[w].ticket = work[w].ticket
        /\ work'[w].out = out
    BY <1>0, <1>17 DEF CoordinatorEnds, WorkerState
  <2> QED
    BY <1>8, <1>17, <2>1, <2>2 DEF CoordinatorEnds, approvalVars
<1>18. ASSUME FinalWrite(w) PROVE DeliveryInv'
  <2>1. \A r \in Runs : run'[r].status = "QUEUED" => run[r].status = "QUEUED"
    BY <1>0, <1>18 DEF FinalWrite, DeliveryInv, RunRow
  <2>2. /\ \A v \in Workers : v # w => work'[v] = work[v]
        /\ work[w].pc # "loaded" /\ work'[w].pc = "ack" /\ work'[w].ticket = work[w].ticket
    BY <1>0, <1>18, AckState DEF FinalWrite
  <2> QED
    BY <1>8, <1>18, <2>1, <2>2 DEF FinalWrite, approvalVars
<1> QED
  BY <1>1, <1>2, <1>3, <1>4, <1>5, <1>6, <1>7, <1>9, <1>10, <1>11, <1>12, <1>13, <1>14,
     <1>15, <1>16, <1>17, <1>18, <1>19, <1>20 DEF WorkerStep, Fetch, Process

\* The scheduler turns an outbox row into a stream entry before it marks the
\* row, and the recovery commits a message with every run it queues.
LEMMA BackgroundDelivery ==
  ASSUME TypeOK, DeliveryInv, Background
  PROVE  DeliveryInv'
<1>0. /\ run \in [Runs -> RunRow] /\ unread \in [Runs -> Nat]
      /\ outbox \in [Messages -> {"none", "unprocessed", "sent", "processed"}]
  BY DEF TypeOK
<1>1. ASSUME NEW r \in Runs, DirectPublish(r) PROVE DeliveryInv'
  <2>1. /\ direct' = direct \ {r} /\ UNCHANGED <<run, approvalVars, outbox, pel, work, lost>>
        /\ unread'[r] > 0 /\ \A q \in Runs : unread[q] > 0 => unread'[q] > 0
    BY <1>0, <1>1 DEF DirectPublish
  <2> QED
    BY <2>1, DeliveryFrame DEF approvalVars, MsgRun, DeliveryInv, Outstanding
<1>2. ASSUME NEW r \in Runs, LeaseExpires(r) \/ LeaseSlips(r) PROVE DeliveryInv'
  <2>1. \A q \in Runs : run'[q].status = run[q].status
    BY <1>0, <1>2 DEF LeaseExpires, LeaseSlips, RunRow
  <2>2. UNCHANGED <<approvalVars, outbox, direct, streamVars, work, lost>>
    BY <1>2 DEF LeaseExpires, LeaseSlips
  <2> QED
    BY <2>1, <2>2, DeliveryFrame DEF approvalVars, streamVars, MsgRun, DeliveryInv
<1>3. ASSUME NEW m \in Messages, PublishMessage(m) PROVE DeliveryInv'
  <2>1. /\ UNCHANGED <<run, approvalVars, direct, pel, work, lost>>
        /\ outbox' = [outbox EXCEPT ![m] = "sent"] /\ outbox[m] = "unprocessed"
        /\ unread' = [unread EXCEPT ![MsgRun(m)] = @ + 1]
    BY <1>3 DEF PublishMessage
  <2>2. \A q \in Runs : /\ unread[q] > 0 => unread'[q] > 0
                        /\ q = MsgRun(m) => unread'[q] > 0
    BY <1>0, <2>1
  <2>3. \A n \in Messages : outbox'[n] # outbox[n] => n = m
    BY <1>0, <2>1
  <2>4. \A a \in Approvals : outbox[ApproveMsg(a)] = "none" => outbox'[ApproveMsg(a)] = "none"
    BY <2>1, <2>3, MessageTypes
  <2> QED
    BY <2>1, <2>2, <2>3, <2>4, DeliveryFrame DEF approvalVars, MsgRun, DeliveryInv
<1>4. ASSUME PublishCommit \/ SchedulerCrash PROVE DeliveryInv'
  <2>1. /\ UNCHANGED <<run, approvalVars, direct, streamVars, work, lost>>
        /\ \A m \in Messages : outbox[m] \in {"none", "unprocessed"} => outbox'[m] = outbox[m]
    BY <1>0, <1>4 DEF PublishCommit, SchedulerCrash
  <2> QED
    BY <2>1, DeliveryFrame, MessageTypes DEF approvalVars, streamVars, MsgRun, DeliveryInv
<1>5. ASSUME RecoverScan \/ \E r \in Runs : DeadLetter(r) PROVE DeliveryInv'
  <2>1. UNCHANGED <<run, approvalVars, outbox, direct, streamVars, work, lost>>
    BY <1>5 DEF RecoverScan, DeadLetter
  <2> QED
    BY <2>1, DeliveryFrame DEF approvalVars, streamVars, MsgRun, DeliveryInv
<1>6. ASSUME NEW new \in SUBSET Runs, NEW of \in [new -> stuck], RecoverCommit(new, of)
      PROVE  DeliveryInv'
  <2>1. /\ UNCHANGED <<approvalVars, direct, streamVars, work, lost>>
        /\ \A m \in Messages :
             outbox'[m] = IF m.kind = "run" /\ m.id \in new THEN "unprocessed" ELSE outbox[m]
        /\ \A r \in Runs : run'[r].status = "QUEUED" => r \in new \/ run'[r] = run[r]
    <3>1. /\ UNCHANGED <<approvalVars, direct, streamVars, work, lost>>
          /\ outbox' = [m \in Messages |->
                          IF m.kind = "run" /\ m.id \in new THEN "unprocessed" ELSE outbox[m]]
          /\ run' = [r \in Runs |->
                       IF r \in stuck
                       THEN [run[r] EXCEPT !.status = "FAILED", !.retries = @ + 1]
                       ELSE IF r \in new THEN QueuedRow(run[of[r]].retries + 1) ELSE run[r]]
      BY <1>6 DEF RecoverCommit
    <3>2. \A r \in Runs : r \in stuck => run'[r].status = "FAILED"
      BY <1>0, <3>1 DEF RunRow
    <3>3. \A r \in Runs : r \notin stuck /\ r \notin new => run'[r] = run[r]
      BY <3>1
    <3>4. \A r \in Runs : run'[r].status = "QUEUED" => r \in new \/ run'[r] = run[r]
      BY <3>2, <3>3
    <3> QED
      BY <3>1, <3>4
  <2>2. ASSUME NEW r \in new PROVE Outstanding(r)'
    <3>1. outbox'[RunMsg(r)] = "unprocessed" /\ MsgRun(RunMsg(r))' = r
      BY <2>1, MessageTypes DEF RunMsg, MsgRun
    <3> QED
      BY <3>1, MessageTypes DEF Outstanding
  <2>3. \A a \in Approvals : outbox'[ApproveMsg(a)] = outbox[ApproveMsg(a)]
    BY <2>1, MessageTypes DEF ApproveMsg
  <2> QED
    BY <2>1, <2>2, <2>3, DeliveryFrame DEF approvalVars, streamVars, MsgRun, DeliveryInv
<1> QED
  BY <1>1, <1>2, <1>3, <1>4, <1>5, <1>6 DEF Background, Recover

\* Every step keeps the invariant.
LEMMA NextDelivery == TypeOK /\ DeliveryInv /\ [Next]_vars => DeliveryInv'
<1> SUFFICES ASSUME TypeOK, DeliveryInv, [Next]_vars PROVE DeliveryInv'
  OBVIOUS
<1>1. CASE UNCHANGED vars
  BY <1>1, DeliveryFrame DEF vars, MsgRun, DeliveryInv
<1> QED
  BY <1>1, OperatorDelivery, WorkerDelivery, BackgroundDelivery DEF Next

\* A QUEUED run always has something on its way to a worker, through crashes of
\* workers and scheduler, redelivery and recovery; only a swallowed XADD of a
\* Telegram handler can lose one.
THEOREM QueuedIsDelivered == Spec => []QueuedHasMessage
<1>1. DeliveryInv => QueuedHasMessage
  BY DEF DeliveryInv
<1> QED
  BY <1>1, TypeCorrect, InitDelivery, NextDelivery, PTL DEF Spec
=============================================================================
