---------------------------- MODULE LeaseProofs ----------------------------
(***************************************************************************)
(* The lease of a run excludes: theorems about RunLifecycle for instances  *)
(* whose lease renewals are never late ("slip" is not one of the Faults).  *)
(***************************************************************************)
EXTENDS RunLifecycleProofs

\* A step after which every worker that drives a run drove it before, and whose
\* row is still safe for that worker.
LEMMA LeaseFrame ==
  ASSUME "slip" \notin Faults => \A v \in Workers :
           /\ work'[v].pc \in Driving \cup {"loaded"} => work'[v].run \in Runs
           /\ work'[v].pc \in Driving => SafeRow(run'[work'[v].run], v)
  PROVE  DrivingOwnsRun'
  BY DEF DrivingOwnsRun, SafeRow

\* A step that leaves the workers alone keeps the invariant if it keeps every
\* safe row safe.
LEMMA LeaseRows ==
  ASSUME DrivingOwnsRun, UNCHANGED work,
         "slip" \notin Faults => \A r \in Runs, v \in Workers :
           SafeRow(run[r], v) /\ work[v].run = r /\ work[v].pc \in Driving
             => SafeRow(run'[r], v)
  PROVE  DrivingOwnsRun'
  BY LeaseFrame DEF DrivingOwnsRun, Driving, Acting

\* Two workers that drive runs drive different ones.
LEMMA DrivingDiffer ==
  ASSUME DrivingOwnsRun, "slip" \notin Faults, NEW v \in Workers, NEW w \in Workers, v # w,
         work[v].pc \in Driving, work[w].pc \in Driving
  PROVE  work[v].run # work[w].run
  BY DEF DrivingOwnsRun, SafeRow

\* What a worker's fresh local states hold.
LEMMA FreshLocals ==
  /\ Idle.pc = "idle"
  /\ \A w \in Workers : ToAck(w).pc = "ack"
  BY DEF Idle, ToAck

\* Initially no worker drives anything.
LEMMA InitLease == Init => DrivingOwnsRun
  BY DEF Init, Idle, DrivingOwnsRun, Driving, Acting

\* Handlers write a run only where its status or its request allows, never its
\* owner or lease: what they leave of an owned row stays safe.
LEMMA OperatorLease ==
  ASSUME TypeOK, DrivingOwnsRun, Operator
  PROVE  DrivingOwnsRun'
<1>0. UNCHANGED work
  BY DEF Operator, CreateTask, TelegramTask, DirectLost, ControlRun, TelegramControl,
         TelegramResume, RetryRun, ApprovalTimeout, Approve, Reject, DecideTooLate
<1>1. run \in [Runs -> RunRow]
  BY DEF TypeOK
<1>2. ASSUME NEW r \in Runs, CreateTask(r) \/ TelegramTask(r) PROVE DrivingOwnsRun'
  <2>1. run[r].status = "NONE" /\ \A q \in Runs : q # r => run'[q] = run[q]
    BY <1>1, <1>2 DEF CreateTask, TelegramTask, FreshRun
  <2> QED
    BY <1>0, <2>1, LeaseRows DEF SafeRow
<1>3. ASSUME NEW r \in Runs, NEW n \in Runs, RetryRun(r, n) PROVE DrivingOwnsRun'
  <2>1. run[n].status = "NONE" /\ \A q \in Runs : q # n => run'[q] = run[q]
    BY <1>1, <1>3 DEF RetryRun, FreshRun
  <2> QED
    BY <1>0, <2>1, LeaseRows DEF SafeRow
<1>4. ASSUME NEW r \in Runs, NEW c \in {"pause", "stop", "resume"},
             ControlRun(r, c) \/ TelegramControl(r, c)
      PROVE  DrivingOwnsRun'
  <2>1. \A q \in Runs : /\ run'[q].owner = run[q].owner /\ run'[q].status = run[q].status
                        /\ run'[q].lease = run[q].lease /\ run'[q].retries = run[q].retries
    BY <1>1, <1>4 DEF ControlRun, TelegramControl, RunRow
  <2> QED
    BY <1>0, <2>1, LeaseRows DEF SafeRow
<1>5. ASSUME NEW r \in Runs, TelegramResume(r) PROVE DrivingOwnsRun'
  <2>1. \A q \in Runs : /\ run'[q].owner = run[q].owner
                        /\ run[q].status # "PAUSED" => run'[q].status = run[q].status
                        /\ run'[q].lease = run[q].lease /\ run'[q].retries = run[q].retries
    BY <1>1, <1>5 DEF TelegramResume, RunRow
  <2> QED
    BY <1>0, <2>1, LeaseRows DEF SafeRow
<1>6. ASSUME NEW a \in Approvals, Approve(a) \/ Reject(a) PROVE DrivingOwnsRun'
  <2>1. \A q \in Runs : run[q].status # "WAITING_APPROVAL" => run'[q] = run[q]
    BY <1>1, <1>6 DEF Approve, Reject
  <2> QED
    BY <1>0, <2>1, LeaseRows DEF SafeRow
<1>7. CASE UNCHANGED run
  BY <1>0, <1>7, LeaseRows
<1> QED
  BY <1>2, <1>3, <1>4, <1>5, <1>6, <1>7
  DEF Operator, DirectLost, ApprovalTimeout, DecideTooLate

\* The claiming UPDATE is what keeps a second worker out: a row under a live
\* lease, or failed by the recovery, cannot be claimed.
LEMMA WorkerLease ==
  ASSUME TypeOK, DrivingOwnsRun, NEW w \in Workers, WorkerStep(w)
  PROVE  DrivingOwnsRun'
<1>1. run \in [Runs -> RunRow] /\ work \in [Workers -> WorkerState]
  BY DEF TypeOK
<1>2. ASSUME Claim(w) PROVE DrivingOwnsRun'
  <2> SUFFICES ASSUME "slip" \notin Faults, NEW v \in Workers
               PROVE  /\ work'[v].pc \in Driving \cup {"loaded"} => work'[v].run \in Runs
                      /\ work'[v].pc \in Driving => SafeRow(run'[work'[v].run], v)
    BY LeaseFrame
  <2>1. work[w].run \in Runs /\ Claimable(work[w].run)
    BY <1>2 DEF Claim, DrivingOwnsRun
  <2>2. CASE v = w
    <3>1. work'[v].run = work[w].run
      BY <1>1, <1>2, <2>2 DEF Claim, WorkerState
    <3>2. run'[work[w].run].owner = w /\ run'[work[w].run].status = "EXECUTING"
          /\ run'[work[w].run].lease = "live"
      BY <1>1, <1>2, <2>1 DEF Claim, RunRow
    <3> QED
      BY <2>1, <2>2, <3>1, <3>2 DEF SafeRow
  <2>3. CASE v # w
    <3>1. work'[v] = work[v]
      BY <1>1, <1>2, <2>3 DEF Claim
    <3>2. work[v].pc \in Driving => work[v].run # work[w].run
      BY <2>1 DEF DrivingOwnsRun, SafeRow, Claimable
    <3>3. \A q \in Runs : q # work[w].run => run'[q] = run[q]
      BY <1>1, <1>2, <2>1 DEF Claim
    <3> QED
      BY <3>1, <3>2, <3>3 DEF DrivingOwnsRun
  <2> QED
    BY <2>2, <2>3
<1>3. ASSUME work[w].pc \in Driving, work' = [work EXCEPT ![w] = ToAck(w)],
             \A q \in Runs : q # work[w].run => run'[q] = run[q]
      PROVE  DrivingOwnsRun'
  <2> SUFFICES ASSUME "slip" \notin Faults, NEW v \in Workers
               PROVE  /\ work'[v].pc \in Driving \cup {"loaded"} => work'[v].run \in Runs
                      /\ work'[v].pc \in Driving => SafeRow(run'[work'[v].run], v)
    BY LeaseFrame
  <2>1. CASE v = w
    <3>1. work'[v].pc = "ack"
      BY <1>1, <1>3, <2>1 DEF ToAck, Idle
    <3> QED
      BY <3>1 DEF Driving, Acting
  <2>2. CASE v # w
    <3>1. work'[v] = work[v]
      BY <1>1, <1>3, <2>2
    <3> QED
      BY <1>3, <2>2, <3>1, DrivingDiffer DEF DrivingOwnsRun
  <2> QED
    BY <2>1, <2>2
<1>4. ASSUME Heartbeat(w) PROVE DrivingOwnsRun'
  <2>1. \A q \in Runs : /\ run'[q].owner = run[q].owner /\ run'[q].status = run[q].status
                        /\ run'[q].lease = run[q].lease \/ run'[q].lease = "live"
                        /\ run'[q].retries = run[q].retries
    BY <1>1, <1>4 DEF Heartbeat, RunRow
  <2>2. UNCHANGED work
    BY <1>4 DEF Heartbeat
  <2> QED
    BY <2>1, <2>2, LeaseRows DEF SafeRow
<1>6. ASSUME NEW t \in Tickets, NEW r \in Runs, Load(w, t, r), UNCHANGED run
      PROVE  DrivingOwnsRun'
  <2>1. \A v \in Workers : v # w => work'[v] = work[v]
    BY <1>1, <1>6 DEF Load
  <2>2. work'[w].pc = "ack" \/ (work'[w].pc = "loaded" /\ work'[w].run = r)
    <3> DEFINE acked == [Idle EXCEPT !.pc = "ack", !.ticket = t]
               loaded == [Idle EXCEPT !.pc = "loaded", !.run = r, !.ticket = t,
                                      !.loaded = run[r].status]
    <3>1. work'[w] = acked \/ work'[w] = loaded
      BY <1>1, <1>6 DEF Load
    <3>2. acked.pc = "ack" /\ loaded.pc = "loaded" /\ loaded.run = r
      BY DEF Idle
    <3> HIDE DEF acked, loaded
    <3> QED
      BY <3>1, <3>2
  <2>3. "ack" \notin Driving \cup {"loaded"}
    BY DEF Driving, Acting
  <2> QED
    BY <1>6, <2>1, <2>2, <2>3, LeaseFrame DEF DrivingOwnsRun, Driving, Acting
<1>7. CASE Fetch(w)
  <2>1. ASSUME NEW t \in Tickets, NEW r \in Runs, Receive(w, t, r) PROVE DrivingOwnsRun'
    BY <1>6, <2>1 DEF Receive
  <2>2. ASSUME NEW t \in Tickets, Reclaim(w, t) PROVE DrivingOwnsRun'
    <3>1. pel[t] \in Runs
      BY <2>2 DEF Reclaim, TypeOK
    <3> QED
      BY <1>6, <2>2, <3>1 DEF Reclaim
  <2> QED
    BY <1>7, <2>1, <2>2 DEF Fetch
<1>8. ASSUME \/ work' = [work EXCEPT ![w] = ToAck(w)]
             \/ work' = [work EXCEPT ![w] = Idle],
             UNCHANGED run
      PROVE  DrivingOwnsRun'
  <2>1. work'[w].pc \in {"ack", "idle"} /\ \A v \in Workers : v # w => work'[v] = work[v]
    <3>1. /\ work'[w] = ToAck(w) \/ work'[w] = Idle
          /\ \A v \in Workers : v # w => work'[v] = work[v]
      BY <1>1, <1>8
    <3> QED
      BY <3>1, FreshLocals
  <2>2. "ack" \notin Driving \cup {"loaded"} /\ "idle" \notin Driving \cup {"loaded"}
    BY DEF Driving, Acting
  <2> QED
    BY <1>8, <2>1, <2>2, LeaseFrame DEF DrivingOwnsRun
<1>9. ASSUME NEW a \in Approvals, ConsumeRefused(w, a) PROVE DrivingOwnsRun'
  BY <1>8, <1>9 DEF ConsumeRefused
<1>10. CASE ClaimRefused(w) \/ Ack(w) \/ AckFails(w) \/ Crash(w)
  BY <1>8, <1>10 DEF ClaimRefused, Ack, AckFails, Crash
<1>11. ASSUME work[w].pc \in Driving, work'[w].run = work[w].run, UNCHANGED run,
              \A v \in Workers : v # w => work'[v] = work[v]
       PROVE  DrivingOwnsRun'
  BY <1>11, LeaseFrame DEF DrivingOwnsRun
<1>12. ASSUME NEW a \in Approvals, Consume(w, a) \/ ReadOpen(w, a) \/ AwaitApproval(w, a)
       PROVE  DrivingOwnsRun'
  <2>1. work[w].pc \in Driving
    BY <1>12 DEF Consume, ReadOpen, Consumed, AwaitApproval, Driving, Acting
  <2>2. work'[w].run = work[w].run /\ \A v \in Workers : v # w => work'[v] = work[v]
    <3>1. CASE Consume(w, a)
      BY <1>1, <3>1 DEF Consume, WorkerState
    <3>2. CASE AwaitApproval(w, a)
      BY <1>1, <3>2 DEF AwaitApproval, WorkerState
    <3>3. CASE ReadOpen(w, a)
      BY <1>1, <3>3 DEF ReadOpen, WorkerState
    <3> QED
      BY <1>12, <3>1, <3>2, <3>3
  <2> QED
    BY <1>11, <1>12, <2>1, <2>2 DEF Consume, ReadOpen, AwaitApproval
<1>13. ASSUME NEW happened \in BOOLEAN, NEW raised \in BOOLEAN, CallTool(w, happened, raised)
       PROVE  DrivingOwnsRun'
  <2>1. work[w].pc \in Driving
    BY <1>13 DEF CallTool, Driving, Acting
  <2>2. work'[w].run = work[w].run /\ \A v \in Workers : v # w => work'[v] = work[v]
    BY <1>1, <1>13 DEF CallTool, WorkerState
  <2> QED
    BY <1>11, <1>13, <2>1, <2>2 DEF CallTool
<1>14. ASSUME NEW out \in {"PAUSED", "CANCELLED", "COMPLETED", "FAILED"},
              NoContinuation(w) \/ FinishRaises(w) \/ CoordinatorEnds(w, out)
       PROVE  DrivingOwnsRun'
  <2>1. work[w].pc \in Driving
    BY <1>14 DEF NoContinuation, FinishRaises, CoordinatorEnds, Driving, Acting
  <2>2. work'[w].run = work[w].run /\ \A v \in Workers : v # w => work'[v] = work[v]
    BY <1>1, <1>14 DEF NoContinuation, FinishRaises, CoordinatorEnds, WorkerState
  <2> QED
    BY <1>11, <1>14, <2>1, <2>2 DEF NoContinuation, FinishRaises, CoordinatorEnds
<1>15. CASE FinalWrite(w) \/ FinishCall(w) \/ FailCall(w)
  <2>1. work[w].pc \in Driving /\ work' = [work EXCEPT ![w] = ToAck(w)]
    BY <1>15 DEF FinalWrite, FinishCall, FailCall, Driving, Acting
  <2>2. \A q \in Runs : q # work[w].run => run'[q] = run[q]
    BY <1>1, <1>15 DEF FinalWrite, FinishCall, FailCall
  <2> QED
    BY <1>3, <2>1, <2>2
<1>16. ASSUME NEW a \in Approvals, ReplayBlocked(w, a) PROVE DrivingOwnsRun'
  <2>1. work[w].pc \in Driving /\ work' = [work EXCEPT ![w] = ToAck(w)]
    BY <1>16 DEF ReplayBlocked, Consumed, Driving, Acting
  <2>2. \A q \in Runs : q # work[w].run => run'[q] = run[q]
    BY <1>1, <1>16 DEF ReplayBlocked, SettleRun
  <2> QED
    BY <1>3, <2>1, <2>2
<1>18. CASE FailClosed(w)
  <2>1. work[w].pc \in Driving /\ work' = [work EXCEPT ![w] = ToAck(w)]
    BY <1>18 DEF FailClosed, Driving, Acting
  <2>2. \A q \in Runs : q # work[w].run => run'[q] = run[q]
    BY <1>1, <1>18 DEF FailClosed, SettleRun
  <2> QED
    BY <1>3, <2>1, <2>2
<1>17. CASE NoContinuation(w) \/ FinishRaises(w)
  BY <1>14, <1>17
<1> QED
  BY <1>2, <1>4, <1>7, <1>9, <1>10, <1>12, <1>13, <1>14, <1>15, <1>16, <1>17, <1>18
  DEF WorkerStep, Process

\* Only the lease of a run without an owner expires, and the recovery leaves a
\* row it fails with a positive retry_count.
LEMMA BackgroundLease ==
  ASSUME TypeOK, DrivingOwnsRun, Background
  PROVE  DrivingOwnsRun'
<1>0. UNCHANGED work
  BY DEF Background, DirectPublish, LeaseExpires, LeaseSlips, PublishMessage, PublishCommit,
         SchedulerCrash, Recover, RecoverScan, DeadLetter, RecoverCommit
<1>1. run \in [Runs -> RunRow]
  BY DEF TypeOK
<1>2. ASSUME NEW r \in Runs, LeaseExpires(r) PROVE DrivingOwnsRun'
  <2>1. \A q \in Runs : q # r => run'[q] = run[q]
    BY <1>1, <1>2 DEF LeaseExpires
  <2>2. \A v \in Workers : work[v].run = r /\ work[v].pc \in Driving => run[r].owner # v
    BY <1>2 DEF LeaseExpires, Owned, Driving, Acting
  <2> QED
    BY <1>0, <2>1, <2>2, LeaseRows DEF SafeRow
<1>3. ASSUME NEW r \in Runs, LeaseSlips(r) PROVE DrivingOwnsRun'
  BY <1>3 DEF LeaseSlips, Fault, DrivingOwnsRun
<1>4. ASSUME NEW new \in SUBSET Runs, NEW of \in [new -> stuck], RecoverCommit(new, of)
      PROVE  DrivingOwnsRun'
  <2>1. ASSUME NEW r \in Runs, NEW v \in Workers, SafeRow(run[r], v) PROVE SafeRow(run'[r], v)
    <3>1. r \notin new
      BY <1>4, <2>1 DEF RecoverCommit, SafeRow
    <3>2. CASE r \notin stuck
      BY <1>4, <2>1, <3>1, <3>2 DEF RecoverCommit
    <3>3. CASE r \in stuck
      <4>1. run'[r] = [run[r] EXCEPT !.status = "FAILED", !.retries = @ + 1]
        BY <1>4, <3>3 DEF RecoverCommit
      <4>2. run[r].retries \in Nat /\ run[r] \in RunRow
        BY <1>1 DEF RunRow
      <4>3. run[r].retries + 1 > 0
        BY <4>2
      <4>4. run'[r].owner = run[r].owner /\ run'[r].status = "FAILED"
            /\ run'[r].retries = run[r].retries + 1
        BY <4>1, <4>2 DEF RunRow
      <4> QED
        BY <2>1, <4>3, <4>4 DEF SafeRow
    <3> QED
      BY <3>2, <3>3
  <2> QED
    BY <1>0, <2>1, LeaseRows
<1>5. CASE UNCHANGED run
  BY <1>0, <1>5, LeaseRows
<1> QED
  BY <1>2, <1>3, <1>4, <1>5
  DEF Background, DirectPublish, PublishMessage, PublishCommit, SchedulerCrash, Recover,
      RecoverScan, DeadLetter

\* Every step of the system keeps DrivingOwnsRun.
LEMMA NextLease == TypeOK /\ DrivingOwnsRun /\ [Next]_vars => DrivingOwnsRun'
<1> SUFFICES ASSUME TypeOK, DrivingOwnsRun, [Next]_vars PROVE DrivingOwnsRun'
  OBVIOUS
<1>1. CASE UNCHANGED vars
  BY <1>1, LeaseRows DEF vars
<1>2. CASE Next
  BY <1>2, OperatorLease, WorkerLease, BackgroundLease DEF Next
<1> QED
  BY <1>1, <1>2

\* The row of a run that a worker drives names that worker, and is EXECUTING
\* under a live lease or was failed by a recovery that had read it earlier.
THEOREM LeaseInvariant == Spec => []DrivingOwnsRun
  BY TypeCorrect, InitLease, NextLease, PTL DEF Spec

\* Two workers never drive the same run while renewals are in time, whatever is
\* redelivered, recovered or lost.
THEOREM Exclusion == Spec => []LeaseExclusion
<1>1. DrivingOwnsRun => LeaseExclusion
  BY DEF DrivingOwnsRun, SafeRow, LeaseExclusion
<1> QED
  BY <1>1, LeaseInvariant, PTL

-----------------------------------------------------------------------------
(* Terminal statuses.                                                      *)

\* The step behind TerminalStays, one case per action that writes table runs.
LEMMA TerminalStep ==
  ASSUME TypeOK, DrivingOwnsRun, "slip" \notin Faults, Next, NEW r \in Runs,
         run[r].status \in Terminal, r \notin stuck, run[r].retries = 0
  PROVE  run'[r].status = run[r].status
<1>0. run \in [Runs -> RunRow] /\ work \in [Workers -> WorkerState]
  BY DEF TypeOK
<1>1. run[r].status \notin {"NONE", "QUEUED", "EXECUTING", "PAUSED", "WAITING_APPROVAL"}
  BY DEF Terminal
<1>2. \A w \in Workers : work[w].pc \in Driving => work[w].run # r
  BY <1>1 DEF DrivingOwnsRun, SafeRow
<1>3. CASE UNCHANGED run
  BY <1>3
<1>4. CASE Operator
  <2>1. ASSUME NEW q \in Runs, CreateTask(q) \/ TelegramTask(q)
        PROVE  run'[r].status = run[r].status
    BY <1>0, <1>1, <2>1 DEF CreateTask, TelegramTask, FreshRun
  <2>2. ASSUME NEW q \in Runs, NEW c \in {"pause", "stop", "resume"},
               ControlRun(q, c) \/ TelegramControl(q, c)
        PROVE  run'[r].status = run[r].status
    BY <1>0, <2>2 DEF ControlRun, TelegramControl, RunRow
  <2>3. ASSUME NEW q \in Runs, TelegramResume(q) PROVE run'[r].status = run[r].status
    BY <1>0, <1>1, <2>3 DEF TelegramResume, RunRow
  <2>4. ASSUME NEW q \in Runs, NEW n \in Runs, RetryRun(q, n)
        PROVE  run'[r].status = run[r].status
    BY <1>0, <1>1, <2>4 DEF RetryRun, FreshRun
  <2>5. ASSUME NEW a \in Approvals, Approve(a) \/ Reject(a)
        PROVE  run'[r].status = run[r].status
    BY <1>0, <1>1, <2>5 DEF Approve, Reject
  <2> QED
    BY <1>3, <1>4, <2>1, <2>2, <2>3, <2>4, <2>5
    DEF Operator, DirectLost, ApprovalTimeout, DecideTooLate
<1>5. ASSUME NEW w \in Workers, WorkerStep(w) PROVE run'[r].status = run[r].status
  <2>1. CASE Claim(w)
    <3>1. work[w].run \in Runs /\ Claimable(work[w].run)
      BY <2>1 DEF Claim, DrivingOwnsRun
    <3>2. work[w].run # r
      BY <1>1, <3>1 DEF Claimable
    <3> QED
      BY <1>0, <2>1, <3>1, <3>2 DEF Claim
  <2>2. CASE FinalWrite(w) \/ FinishCall(w) \/ FailCall(w)
    <3>1. work[w].run # r
      BY <1>2, <2>2 DEF FinalWrite, FinishCall, FailCall, Driving, Acting
    <3> QED
      BY <1>0, <2>2, <3>1 DEF FinalWrite, FinishCall, FailCall
  <2>3. CASE FailClosed(w) \/ \E a \in Approvals : ReplayBlocked(w, a)
    <3>1. work[w].run # r
      BY <1>2, <2>3 DEF FailClosed, ReplayBlocked, Consumed, Driving, Acting
    <3> QED
      BY <1>0, <2>3, <3>1 DEF FailClosed, ReplayBlocked, SettleRun
  <2>4. CASE Heartbeat(w)
    BY <1>0, <2>4 DEF Heartbeat, RunRow
  <2> QED
    BY <1>3, <1>5, <2>1, <2>2, <2>3, <2>4
    DEF WorkerStep, Fetch, Process, Receive, Reclaim, ClaimRefused, Consume, ConsumeRefused,
        ReadOpen, NoContinuation, CallTool, FinishRaises, CoordinatorEnds, AwaitApproval, Ack,
        AckFails, Crash
<1>6. CASE Background
  <2>1. ASSUME NEW q \in Runs, LeaseExpires(q) \/ LeaseSlips(q)
        PROVE  run'[r].status = run[r].status
    BY <1>0, <2>1 DEF LeaseExpires, LeaseSlips, RunRow
  <2>2. ASSUME NEW new \in SUBSET Runs, NEW of \in [new -> stuck], RecoverCommit(new, of)
        PROVE  run'[r].status = run[r].status
    <3>1. r \notin new
      BY <1>1, <2>2 DEF RecoverCommit
    <3> QED
      BY <2>2, <3>1 DEF RecoverCommit
  <2> QED
    BY <1>3, <1>6, <2>1, <2>2
    DEF Background, DirectPublish, PublishMessage, PublishCommit, SchedulerCrash, Recover,
        RecoverScan, DeadLetter
<1> QED
  BY <1>4, <1>5, <1>6 DEF Next

\* While renewals are in time, only the recovery of stuck runs can cost a run
\* its terminal status: no redelivery, decision or second worker does.
THEOREM TerminalStays == Spec => TerminalUnlessRecovered
<1>1. TypeOK /\ DrivingOwnsRun /\ [Next]_vars
        => [\A r \in Runs :
              /\ "slip" \notin Faults
              /\ run[r].status \in Terminal /\ r \notin stuck /\ run[r].retries = 0
              => run'[r].status = run[r].status]_vars
  BY TerminalStep
<1> QED
  BY <1>1, TypeCorrect, LeaseInvariant, PTL DEF Spec, TerminalUnlessRecovered
=============================================================================
