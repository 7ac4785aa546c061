---------------------------- MODULE RunLifecycle ----------------------------
(***************************************************************************)
(* The life of a LUMI run, from the transaction that queues it to its last *)
(* status: the API and Telegram handlers that create, control, retry and   *)
(* decide, the transactional outbox, the Redis stream with its consumer    *)
(* group, the workers that claim a run under a lease, the continuation     *)
(* that executes an approved action, and the scheduler that publishes the  *)
(* outbox and recovers stuck runs.                                         *)
(*                                                                         *)
(* One action is one database transaction or one Redis command; everything *)
(* that can interleave between two of them in the code can interleave here.*)
(* Time is abstracted: a lease and an approval may run out at any moment   *)
(* the faults of the configuration allow.                                  *)
(***************************************************************************)
EXTENDS Naturals, FiniteSets

CONSTANTS
  Workers,     \* worker processes (consumers of the group lumi-workers)
  MaxTasks,    \* bound: runs that operators create by submitting a task
  MaxRuns,     \* bound: rows of table runs
  MaxApprovals,\* bound: rows of table approvals
  MaxTickets,  \* bound: entries delivered and not yet acknowledged (PEL)
  MaxUnread,   \* bound: undelivered stream entries of one run
  MaxRetries,  \* recover_stuck_runs: retry > 3 goes to the DLQ
  MaxRecovered,\* bound: the retry_count beyond which a row is not recovered again
  MaxFailures, \* bound: worker and scheduler crashes, failing XACKs, late leases
  Faults,      \* the kinds of fault that happen: a worker crash, a late lease
               \* renewal, a scheduler crash, a failing XACK, a lost XADD, an
               \* approval running out of time
  Operations   \* what operators do

ASSUME ConstantsAssumption ==
  /\ MaxTasks \in Nat /\ MaxRuns \in Nat /\ MaxApprovals \in Nat /\ MaxTickets \in Nat
  /\ MaxUnread \in Nat /\ MaxRetries \in Nat
  /\ MaxRecovered \in Nat /\ MaxFailures \in Nat
  /\ Faults \subseteq {"crash", "slip", "sched", "noack", "lost", "expire"}
  /\ Operations \subseteq {"web", "telegram", "pause", "stop", "resume", "retry"}
  /\ 0 \notin Workers

Runs == 1 .. MaxRuns
Approvals == 1 .. MaxApprovals      \* numbered in order of created_at
Tickets == 1 .. MaxTickets
Messages == [kind : {"run"}, id : Runs] \cup [kind : {"approve"}, id : Approvals]

Terminal == {"COMPLETED", "FAILED", "CANCELLED"}
RunStatus == Terminal \cup {"NONE", "QUEUED", "EXECUTING", "PAUSED", "WAITING_APPROVAL"}
ApprovalStatus == {"NONE", "PENDING", "APPROVED", "REJECTED", "EXPIRED", "CONSUMED"}
ExecutionStatus == {"NONE", "PENDING", "SUCCEEDED", "AMBIGUOUS"}
PC == {"idle", "loaded", "claimed", "closing", "running", "final", "calling",
       "called", "errored", "ack"}

VARIABLES
  run,      \* table runs: status, control_request, worker_id, lease, retry_count
  approval, \* table approvals: status, run_id, and whether expires_at has passed
  exec,     \* table action_executions (approval_id unique): status
  effects,  \* history: remote calls made on behalf of each approval
  outbox,   \* table outbox_messages
  direct,   \* runs whose Telegram handler is about to XADD by itself
  unread,   \* stream entries not delivered yet, per run
  pel,      \* pending entries list: the run a delivered, unacknowledged entry names
  work,     \* the workers' local state
  stuck,    \* runs the current recover_stuck_runs has read as stuck
  dlq,      \* dead-letter stream
  lost,     \* history: runs whose direct XADD failed and was swallowed
  failures  \* history: how many of the bounded faults have happened

vars == <<run, approval, exec, effects, outbox, direct, unread, pel, work, stuck,
          dlq, lost, failures>>
approvalVars == <<approval, exec, effects>>
streamVars == <<unread, pel>>
schedVars == <<stuck, dlq>>

Idle == [pc |-> "idle", run |-> 0, ticket |-> 0, loaded |-> "NONE",
         appr |-> 0, out |-> "NONE"]

RunRow ==
  [status : RunStatus, control : {"none", "pause", "stop"}, owner : Workers \cup {0},
   lease : {"null", "live", "expired"}, retries : Nat]
ApprovalRow == [status : ApprovalStatus, run : Runs \cup {0}, expired : BOOLEAN]
WorkerState ==
  [pc : PC, run : Runs \cup {0}, ticket : Tickets \cup {0}, loaded : RunStatus,
   appr : Approvals \cup {0}, out : RunStatus]

\* Every table, stream and local variable has its type.
TypeOK ==
  /\ run \in [Runs -> RunRow]
  /\ approval \in [Approvals -> ApprovalRow]
  /\ exec \in [Approvals -> ExecutionStatus]
  /\ effects \in [Approvals -> Nat]
  /\ outbox \in [Messages -> {"none", "unprocessed", "sent", "processed"}]
  /\ direct \subseteq Runs
  /\ unread \in [Runs -> Nat]
  /\ pel \in [Tickets -> Runs \cup {0}]
  /\ work \in [Workers -> WorkerState]
  /\ stuck \subseteq Runs
  /\ dlq \subseteq Runs
  /\ lost \subseteq Runs
  /\ failures \in Nat

Init ==
  /\ run = [r \in Runs |-> [status |-> "NONE", control |-> "none", owner |-> 0,
                            lease |-> "null", retries |-> 0]]
  /\ approval = [a \in Approvals |-> [status |-> "NONE", run |-> 0, expired |-> FALSE]]
  /\ exec = [a \in Approvals |-> "NONE"]
  /\ effects = [a \in Approvals |-> 0]
  /\ outbox = [m \in Messages |-> "none"]
  /\ direct = {}
  /\ unread = [r \in Runs |-> 0]
  /\ pel = [t \in Tickets |-> 0]
  /\ work = [w \in Workers |-> Idle]
  /\ stuck = {}
  /\ dlq = {}
  /\ lost = {}
  /\ failures = 0

-----------------------------------------------------------------------------
(* Helpers.                                                                *)

Fault(kind) ==
  /\ kind \in Faults
  /\ failures < MaxFailures
  /\ failures' = failures + 1

\* The next row of a table: ids are handed out in order of creation.
FreshRun(r) ==
  /\ run[r].status = "NONE"
  /\ \A q \in Runs : q < r => run[q].status # "NONE"

FreshApproval(a) ==
  /\ approval[a].status = "NONE"
  /\ \A b \in Approvals : b < a => approval[b].status # "NONE"

\* A ticket names an entry of the stream while somebody may still refer to it.
FreshTicket(t) ==
  /\ pel[t] = 0
  /\ \A w \in Workers : work[w].ticket # t
  /\ \A u \in Tickets : u < t => pel[u] # 0 \/ \E w \in Workers : work[w].ticket = u

RunMsg(r) == [kind |-> "run", id |-> r]
ApproveMsg(a) == [kind |-> "approve", id |-> a]
MsgRun(m) == IF m.kind = "run" THEN m.id ELSE approval[m.id].run

QueuedRow(retries) ==
  [status |-> "QUEUED", control |-> "none", owner |-> 0, lease |-> "null",
   retries |-> retries]

\* The approval that the ORDER BY created_at DESC of _try_continuation picks.
Latest(a, r, status) ==
  /\ approval[a].run = r /\ approval[a].status = status
  /\ \A b \in Approvals :
       approval[b].run = r /\ approval[b].status = status => b <= a

HasApproval(r, status) ==
  \E a \in Approvals : approval[a].run = r /\ approval[a].status = status

-----------------------------------------------------------------------------
(* Operators: the web API and Telegram.                                    *)

\* POST /tasks: Task, Run QUEUED and the outbox message in one transaction.
CreateTask(r) ==
  /\ "web" \in Operations
  /\ FreshRun(r) /\ r <= MaxTasks
  /\ run' = [run EXCEPT ![r] = QueuedRow(0)]
  /\ outbox' = [outbox EXCEPT ![RunMsg(r)] = "unprocessed"]
  /\ UNCHANGED <<approvalVars, direct, streamVars, work, schedVars, lost, failures>>

\* /ask and /task: the run is committed first, the handler publishes by itself.
TelegramTask(r) ==
  /\ "telegram" \in Operations
  /\ FreshRun(r) /\ r <= MaxTasks
  /\ run' = [run EXCEPT ![r] = QueuedRow(0)]
  /\ direct' = direct \cup {r}
  /\ UNCHANGED <<approvalVars, outbox, streamVars, work, schedVars, lost, failures>>

DirectPublish(r) ==
  /\ r \in direct
  /\ unread[r] < MaxUnread
  /\ unread' = [unread EXCEPT ![r] = @ + 1]
  /\ direct' = direct \ {r}
  /\ UNCHANGED <<run, approvalVars, outbox, pel, work, schedVars, lost, failures>>

\* The XADD raises (or the process dies) and the exception is swallowed.
DirectLost(r) ==
  /\ "lost" \in Faults
  /\ r \in direct
  /\ direct' = direct \ {r}
  /\ lost' = lost \cup {r}
  /\ UNCHANGED <<run, approvalVars, outbox, streamVars, work, schedVars, failures>>

\* POST /runs/{id}/control: only a QUEUED or EXECUTING run takes a request.
ControlRun(r, c) ==
  /\ c \in Operations
  /\ run[r].status \in {"EXECUTING", "QUEUED"}
  /\ run' = [run EXCEPT ![r].control = IF c = "resume" THEN "none" ELSE c]
  /\ UNCHANGED <<approvalVars, outbox, direct, streamVars, work, schedVars, lost, failures>>

\* /pause and /stop: whatever the status of the run.
TelegramControl(r, c) ==
  /\ "telegram" \in Operations
  /\ c \in Operations
  /\ run[r].status # "NONE"
  /\ run' = [run EXCEPT ![r].control = c]
  /\ UNCHANGED <<approvalVars, outbox, direct, streamVars, work, schedVars, lost, failures>>

\* /resume: clears the request, re-queues a PAUSED run and publishes by itself.
TelegramResume(r) ==
  /\ {"telegram", "resume"} \subseteq Operations
  /\ run[r].status = "PAUSED" \/ run[r].control = "pause"
  /\ run' = [run EXCEPT ![r] =
               [@ EXCEPT !.control = "none",
                         !.status = IF run[r].status = "PAUSED" THEN "QUEUED"
                                    ELSE run[r].status]]
  /\ direct' = direct \cup {r}
  /\ UNCHANGED <<approvalVars, outbox, streamVars, work, schedVars, lost, failures>>

\* POST /runs/{id}/retry: a terminal run gets a successor, with its message.
RetryRun(r, n) ==
  /\ "retry" \in Operations
  /\ run[r].status \in Terminal
  /\ FreshRun(n)
  /\ run' = [run EXCEPT ![n] = QueuedRow(run[r].retries + 1)]
  /\ outbox' = [outbox EXCEPT ![RunMsg(n)] = "unprocessed"]
  /\ UNCHANGED <<approvalVars, direct, streamVars, work, schedVars, lost, failures>>

\* expires_at of an approval passes.
ApprovalTimeout(a) ==
  /\ "expire" \in Faults
  /\ approval[a].status \in {"PENDING", "APPROVED"}
  /\ ~approval[a].expired
  /\ approval' = [approval EXCEPT ![a].expired = TRUE]
  /\ UNCHANGED <<run, exec, effects, outbox, direct, streamVars, work, schedVars, lost, failures>>

\* Mutant of Approve: decide without the check that the approval is PENDING.
ApproveAgain(a) ==
  /\ approval[a].status \in {"PENDING", "REJECTED", "CONSUMED"}
  /\ ~approval[a].expired
  /\ approval' = [approval EXCEPT ![a].status = "APPROVED"]
  /\ LET r == approval[a].run
     IN  run' = IF run[r].status = "WAITING_APPROVAL"
                THEN [run EXCEPT ![r] = [@ EXCEPT !.status = "QUEUED", !.control = "none"]]
                ELSE run
  /\ outbox' = [outbox EXCEPT ![ApproveMsg(a)] = "unprocessed"]
  /\ UNCHANGED <<exec, effects, direct, streamVars, work, schedVars, lost, failures>>

\* decide_with_continuation, approve: the decision, the run's transition and
\* the outbox message are one transaction.
Approve(a) ==
  /\ approval[a].status = "PENDING"
  /\ ~approval[a].expired
  /\ approval' = [approval EXCEPT ![a].status = "APPROVED"]
  /\ LET r == approval[a].run
     IN  run' = IF run[r].status = "WAITING_APPROVAL"
                THEN [run EXCEPT ![r] = [@ EXCEPT !.status = "QUEUED", !.control = "none"]]
                ELSE run
  /\ outbox' = [outbox EXCEPT ![ApproveMsg(a)] = "unprocessed"]
  /\ UNCHANGED <<exec, effects, direct, streamVars, work, schedVars, lost, failures>>

\* Mutant of Reject: the run is failed whatever its status.
RejectAnyRun(a) ==
  /\ approval[a].status = "PENDING"
  /\ ~approval[a].expired
  /\ approval' = [approval EXCEPT ![a].status = "REJECTED"]
  /\ run' = [run EXCEPT ![approval[a].run].status = "FAILED"]
  /\ UNCHANGED <<exec, effects, outbox, direct, streamVars, work, schedVars, lost, failures>>

\* decide_with_continuation, reject.
Reject(a) ==
  /\ approval[a].status = "PENDING"
  /\ ~approval[a].expired
  /\ approval' = [approval EXCEPT ![a].status = "REJECTED"]
  /\ LET r == approval[a].run
     IN  run' = IF run[r].status = "WAITING_APPROVAL"
                THEN [run EXCEPT ![r].status = "FAILED"]
                ELSE run
  /\ UNCHANGED <<exec, effects, outbox, direct, streamVars, work, schedVars, lost, failures>>

\* A decision that comes too late only records the expiry; the run is not touched.
DecideTooLate(a) ==
  /\ approval[a].status = "PENDING"
  /\ approval[a].expired
  /\ approval' = [approval EXCEPT ![a].status = "EXPIRED"]
  /\ UNCHANGED <<run, exec, effects, outbox, direct, streamVars, work, schedVars, lost, failures>>

-----------------------------------------------------------------------------
(* Workers.                                                                *)

\* _process_run returns: all that is left to do is to acknowledge the entry.
ToAck(w) == [Idle EXCEPT !.pc = "ack", !.ticket = work[w].ticket]

\* s.get(Run): the row as the worker's session keeps it from now on.
Load(w, t, r) ==
  work' = [work EXCEPT ![w] =
             IF run[r].status \in Terminal
             THEN [Idle EXCEPT !.pc = "ack", !.ticket = t]
             ELSE [Idle EXCEPT !.pc = "loaded", !.run = r, !.ticket = t,
                               !.loaded = run[r].status]]

\* Mutant of Receive: the entry is acknowledged before the run is processed.
ReceiveAcknowledged(w, t, r) ==
  /\ work[w].pc = "idle"
  /\ unread[r] > 0
  /\ FreshTicket(t)
  /\ unread' = [unread EXCEPT ![r] = @ - 1]
  /\ Load(w, t, r)
  /\ UNCHANGED <<run, approvalVars, outbox, direct, pel, schedVars, lost, failures>>

\* XREADGROUP delivers a new entry, which becomes pending.
Receive(w, t, r) ==
  /\ work[w].pc = "idle"
  /\ unread[r] > 0
  /\ FreshTicket(t)
  /\ unread' = [unread EXCEPT ![r] = @ - 1]
  /\ pel' = [pel EXCEPT ![t] = r]
  /\ Load(w, t, r)
  /\ UNCHANGED <<run, approvalVars, outbox, direct, schedVars, lost, failures>>

\* Mutant of Reclaim: a consumer only gets back entries of runs still EXECUTING.
ReclaimExecuting(w, t) ==
  /\ work[w].pc = "idle"
  /\ \A r \in Runs : unread[r] = 0
  /\ pel[t] # 0
  /\ run[pel[t]].status = "EXECUTING"
  /\ Load(w, t, pel[t])
  /\ UNCHANGED <<run, approvalVars, outbox, direct, streamVars, schedVars, lost, failures>>

\* XAUTOCLAIM, tried when nothing is new: an entry idle for 30s changes hands,
\* whether its consumer is dead or merely slow.
Reclaim(w, t) ==
  /\ work[w].pc = "idle"
  /\ \A r \in Runs : unread[r] = 0
  /\ pel[t] # 0
  /\ Load(w, t, pel[t])
  /\ UNCHANGED <<run, approvalVars, outbox, direct, streamVars, schedVars, lost, failures>>

\* Mutant of Claimable: the lease of an EXECUTING run is not looked at.
ClaimableWithoutLease(r) == run[r].status \in {"QUEUED", "EXECUTING"}

Claimable(r) ==
  \/ run[r].status = "QUEUED"
  \/ run[r].status = "EXECUTING" /\ run[r].lease # "live"

\* The atomic UPDATE ... WHERE of _process_run ...
Claim(w) ==
  /\ work[w].pc = "loaded"
  /\ Claimable(work[w].run)
  /\ run' = [run EXCEPT ![work[w].run] = [@ EXCEPT !.status = "EXECUTING", !.owner = w,
                                                  !.lease = "live"]]
  /\ work' = [work EXCEPT ![w].pc = "claimed"]
  /\ UNCHANGED <<approvalVars, outbox, direct, streamVars, schedVars, lost, failures>>

\* ... whose rowcount 0 skips the message.
ClaimRefused(w) ==
  /\ work[w].pc = "loaded"
  /\ ~Claimable(work[w].run)
  /\ work' = [work EXCEPT ![w] = ToAck(w)]
  /\ UNCHANGED <<run, approvalVars, outbox, direct, streamVars, schedVars, lost, failures>>

\* _try_continuation finds an APPROVED approval: consume_and_record commits
\* CONSUMED together with the PENDING execution record.
Consume(w, a) ==
  /\ work[w].pc = "claimed"
  /\ Latest(a, work[w].run, "APPROVED")
  /\ ~approval[a].expired
  /\ approval' = [approval EXCEPT ![a].status = "CONSUMED"]
  /\ exec' = [exec EXCEPT ![a] = "PENDING"]
  /\ work' = [work EXCEPT ![w] = [@ EXCEPT !.pc = "calling", !.appr = a]]
  /\ UNCHANGED <<run, effects, outbox, direct, streamVars, schedVars, lost, failures>>

\* consume_and_record refuses an approval that expired after it was granted;
\* the continuation counts as handled and the run keeps its status.
ConsumeRefused(w, a) ==
  /\ work[w].pc = "claimed"
  /\ Latest(a, work[w].run, "APPROVED")
  /\ approval[a].expired
  /\ work' = [work EXCEPT ![w] = ToAck(w)]
  /\ UNCHANGED <<run, approvalVars, outbox, direct, streamVars, schedVars, lost, failures>>

\* No APPROVED approval but a CONSUMED one, which stays locked: never execute
\* again, settle the run by what the execution record says.
Consumed(w, a) ==
  /\ work[w].pc = "claimed"
  /\ ~HasApproval(work[w].run, "APPROVED")
  /\ Latest(a, work[w].run, "CONSUMED")
  /\ \A v \in Workers : ~(work[v].pc = "closing" /\ work[v].appr = a)

\* Mutant of ReadOpen: an execution still PENDING is run again.
RerunPending(w, a) ==
  /\ Consumed(w, a)
  /\ exec[a] = "PENDING"
  /\ work' = [work EXCEPT ![w] = [@ EXCEPT !.pc = "calling", !.appr = a]]
  /\ UNCHANGED <<run, approvalVars, outbox, direct, streamVars, schedVars, lost, failures>>

\* The record is read without a lock.  Read as PENDING, it is written later ...
ReadOpen(w, a) ==
  /\ Consumed(w, a)
  /\ exec[a] = "PENDING"
  /\ work' = [work EXCEPT ![w] = [@ EXCEPT !.pc = "closing", !.appr = a]]
  /\ UNCHANGED <<run, approvalVars, outbox, direct, streamVars, schedVars, lost, failures>>

\* ... over whatever another worker has recorded by then; the run, whose row is
\* locked and read again, fails only if it still executes.
SettleRun(w, status) ==
  run' = [run EXCEPT ![work[w].run].status = IF @ = "EXECUTING" THEN status ELSE @]

FailClosed(w) ==
  /\ work[w].pc = "closing"
  /\ exec' = [exec EXCEPT ![work[w].appr] = "AMBIGUOUS"]
  /\ SettleRun(w, "FAILED")
  /\ work' = [work EXCEPT ![w] = ToAck(w)]
  /\ UNCHANGED <<approval, effects, outbox, direct, streamVars, schedVars, lost, failures>>

\* A record that is settled settles the run; one that is missing is added.
ReplayBlocked(w, a) ==
  /\ Consumed(w, a)
  /\ exec[a] # "PENDING"
  /\ exec' = [exec EXCEPT ![a] = IF @ = "NONE" THEN "AMBIGUOUS" ELSE @]
  /\ SettleRun(w, IF exec[a] = "SUCCEEDED" THEN "COMPLETED" ELSE "FAILED")
  /\ work' = [work EXCEPT ![w] = ToAck(w)]
  /\ UNCHANGED <<approval, effects, outbox, direct, streamVars, schedVars, lost, failures>>

\* Neither: the coordinator plans from scratch.
NoContinuation(w) ==
  /\ work[w].pc = "claimed"
  /\ ~HasApproval(work[w].run, "APPROVED")
  /\ ~HasApproval(work[w].run, "CONSUMED")
  /\ work' = [work EXCEPT ![w].pc = "running"]
  /\ UNCHANGED <<run, approvalVars, outbox, direct, streamVars, schedVars, lost, failures>>

\* Mutant of CallTool: an exception of the tool is taken for a result.
CallToolSwallowing(w, happened, raised) ==
  /\ work[w].pc = "calling"
  /\ happened \/ raised
  /\ effects' = IF happened THEN [effects EXCEPT ![work[w].appr] = @ + 1] ELSE effects
  /\ work' = [work EXCEPT ![w].pc = "called"]
  /\ UNCHANGED <<run, approval, exec, outbox, direct, streamVars, schedVars, lost, failures>>

\* registry.call of the approved tool: the remote write happens and the call
\* returns, or it happens and the call raises, or it raises without effect.
CallTool(w, happened, raised) ==
  /\ work[w].pc = "calling"
  /\ happened \/ raised
  /\ effects' = IF happened THEN [effects EXCEPT ![work[w].appr] = @ + 1] ELSE effects
  /\ work' = [work EXCEPT ![w].pc = IF raised THEN "errored" ELSE "called"]
  /\ UNCHANGED <<run, approval, exec, outbox, direct, streamVars, schedVars, lost, failures>>

\* ToolCall, execution SUCCEEDED and run COMPLETED in one transaction, whatever
\* the run's status has become meanwhile.
FinishCall(w) ==
  /\ work[w].pc = "called"
  /\ exec' = [exec EXCEPT ![work[w].appr] = "SUCCEEDED"]
  /\ run' = [run EXCEPT ![work[w].run].status = "COMPLETED"]
  /\ work' = [work EXCEPT ![w] = ToAck(w)]
  /\ UNCHANGED <<approval, effects, outbox, direct, streamVars, schedVars, lost, failures>>

\* The TOOL_CALL event or that transaction fails: same handler as a failed call.
FinishRaises(w) ==
  /\ work[w].pc = "called"
  /\ work' = [work EXCEPT ![w].pc = "errored"]
  /\ UNCHANGED <<run, approvalVars, outbox, direct, streamVars, schedVars, lost, failures>>

\* The except branch: an exception does not prove that nothing happened.
FailCall(w) ==
  /\ work[w].pc = "errored"
  /\ exec' = [exec EXCEPT ![work[w].appr] = "AMBIGUOUS"]
  /\ run' = [run EXCEPT ![work[w].run].status = "FAILED"]
  /\ work' = [work EXCEPT ![w] = ToAck(w)]
  /\ UNCHANGED <<approval, effects, outbox, direct, streamVars, schedVars, lost, failures>>

\* Mutant of CoordinatorEnds: the last internal status is not turned into
\* COMPLETED.
CoordinatorEndsPersisting(w, out) ==
  /\ work[w].pc = "running"
  /\ out = "COMPLETED"
  /\ work' = [work EXCEPT ![w] = [@ EXCEPT !.pc = "final", !.out = "PERSISTING"]]
  /\ UNCHANGED <<run, approvalVars, outbox, direct, streamVars, schedVars, lost, failures>>

\* The coordinator's plan loop ends without an approval: on a request it reads
\* from the row before an action, in failure, or with all actions verified.  A
\* request set after the last check, or whose check raised, is not seen.
CoordinatorEnds(w, out) ==
  /\ work[w].pc = "running"
  /\ \/ out = "PAUSED" /\ run[work[w].run].control = "pause"
     \/ out = "CANCELLED" /\ run[work[w].run].control = "stop"
     \/ out \in {"COMPLETED", "FAILED"}
  /\ work' = [work EXCEPT ![w] = [@ EXCEPT !.pc = "final", !.out = out]]
  /\ UNCHANGED <<run, approvalVars, outbox, direct, streamVars, schedVars, lost, failures>>

\* REQUIRE_APPROVAL: the sink commits the PENDING approval; the run's own
\* status follows only in FinalWrite.
AwaitApproval(w, a) ==
  /\ work[w].pc = "running"
  /\ FreshApproval(a)
  /\ approval' = [approval EXCEPT ![a] =
                    [status |-> "PENDING", run |-> work[w].run, expired |-> FALSE]]
  /\ work' = [work EXCEPT ![w] = [@ EXCEPT !.pc = "final", !.out = "WAITING_APPROVAL"]]
  /\ UNCHANGED <<run, exec, effects, outbox, direct, streamVars, schedVars, lost, failures>>

\* run2.status = status on the object loaded before the claim: no condition on
\* the row, and no write at all when the loaded value already equals it.
FinalWrite(w) ==
  /\ work[w].pc = "final"
  /\ run' = IF work[w].out = work[w].loaded THEN run
            ELSE [run EXCEPT ![work[w].run].status = work[w].out]
  /\ work' = [work EXCEPT ![w] = ToAck(w)]
  /\ UNCHANGED <<approvalVars, outbox, direct, streamVars, schedVars, lost, failures>>

\* XACK; a failing XACK is swallowed and leaves the entry pending.
Ack(w) ==
  /\ work[w].pc = "ack"
  /\ pel' = [pel EXCEPT ![work[w].ticket] = 0]
  /\ work' = [work EXCEPT ![w] = Idle]
  /\ UNCHANGED <<run, approvalVars, outbox, direct, unread, schedVars, lost, failures>>

AckFails(w) ==
  /\ work[w].pc = "ack"
  /\ Fault("noack")
  /\ work' = [work EXCEPT ![w] = Idle]
  /\ UNCHANGED <<run, approvalVars, outbox, direct, streamVars, schedVars, lost>>

\* The process dies, or an exception escapes _process_run: no acknowledgement.
Crash(w) ==
  /\ Fault("crash")
  /\ work[w].pc # "idle"
  /\ work' = [work EXCEPT ![w] = Idle]
  /\ UNCHANGED <<run, approvalVars, outbox, direct, streamVars, schedVars, lost>>

\* _heartbeat_loop: the row's worker_id is checked, its status is not.
Heartbeat(w) ==
  /\ work[w].pc \in {"running", "final"}
  /\ run[work[w].run].owner = w
  /\ run[work[w].run].lease = "expired"
  /\ run' = [run EXCEPT ![work[w].run].lease = "live"]
  /\ UNCHANGED <<approvalVars, outbox, direct, streamVars, work, schedVars, lost, failures>>

\* 30s pass without renewal because the owner is gone.  Only the lease of an
\* EXECUTING row is ever read.
Owned(r) ==
  \E w \in Workers : work[w].run = r /\ work[w].pc # "loaded" /\ run[r].owner = w

LeaseExpires(r) ==
  /\ run[r].status = "EXECUTING" /\ run[r].lease = "live"
  /\ ~Owned(r)
  /\ run' = [run EXCEPT ![r].lease = "expired"]
  /\ UNCHANGED <<approvalVars, outbox, direct, streamVars, work, schedVars, lost, failures>>

\* The owner is alive but late: a continuation has no heartbeat, and an error
\* in the heartbeat is swallowed.
LeaseSlips(r) ==
  /\ Fault("slip")
  /\ run[r].status = "EXECUTING" /\ run[r].lease = "live"
  /\ Owned(r)
  /\ run' = [run EXCEPT ![r].lease = "expired"]
  /\ UNCHANGED <<approvalVars, outbox, direct, streamVars, work, schedVars, lost>>

-----------------------------------------------------------------------------
(* Scheduler.                                                              *)

\* publish_outbox: XADD first, the row is marked in the transaction that
\* commits at the end of the batch.
PublishMessage(m) ==
  /\ stuck = {}
  /\ outbox[m] = "unprocessed"
  /\ unread[MsgRun(m)] < MaxUnread
  /\ unread' = [unread EXCEPT ![MsgRun(m)] = @ + 1]
  /\ outbox' = [outbox EXCEPT ![m] = "sent"]
  /\ UNCHANGED <<run, approvalVars, direct, pel, work, schedVars, lost, failures>>

PublishCommit ==
  /\ \E m \in Messages : outbox[m] = "sent"
  /\ outbox' = [m \in Messages |-> IF outbox[m] = "sent" THEN "processed" ELSE outbox[m]]
  /\ UNCHANGED <<run, approvalVars, direct, streamVars, work, schedVars, lost, failures>>

\* The scheduler dies inside a transaction: what it published stays published.
SchedulerCrash ==
  /\ Fault("sched")
  /\ stuck # {} \/ \E m \in Messages : outbox[m] = "sent"
  /\ outbox' = [m \in Messages |-> IF outbox[m] = "sent" THEN "unprocessed" ELSE outbox[m]]
  /\ stuck' = {}
  /\ UNCHANGED <<run, approvalVars, direct, streamVars, work, dlq, lost>>

\* Mutant of RecoverScan: only rows that never had a lease are read as stuck.
RecoverScanUnleased ==
  /\ stuck = {}
  /\ \A m \in Messages : outbox[m] # "sent"
  /\ stuck' = {r \in Runs : run[r].status = "EXECUTING" /\ run[r].lease = "null"}
  /\ stuck' # {}
  /\ UNCHANGED <<run, approvalVars, outbox, direct, streamVars, work, dlq, lost, failures>>

\* recover_stuck_runs reads the EXECUTING rows without locking them ...
RecoverScan ==
  /\ stuck = {}
  /\ \A m \in Messages : outbox[m] # "sent"
  /\ stuck' = {r \in Runs : run[r].status = "EXECUTING" /\ run[r].lease = "expired"}
  /\ \A r \in stuck' : run[r].retries <= MaxRecovered
  /\ stuck' # {}
  /\ UNCHANGED <<run, approvalVars, outbox, direct, streamVars, work, dlq, lost, failures>>

\* ... sends those whose retry budget is used up to the dead-letter stream (an
\* XADD that fails is only logged) ...
Exhausted(r) == run[r].retries >= MaxRetries

DeadLetter(r) ==
  /\ r \in stuck
  /\ Exhausted(r)
  /\ r \notin dlq
  /\ dlq' = dlq \cup {r}
  /\ UNCHANGED <<run, approvalVars, outbox, direct, streamVars, work, stuck, lost, failures>>

\* ... and in one transaction fails them all and queues a new run, with its
\* message, for each of the others: new are the new rows, of[n] is the stuck run
\* that row n retries.
RecoverCommit(new, of) ==
  /\ stuck # {}
  /\ \A n \in new, q \in Runs :
       /\ run[n].status = "NONE"
       /\ q < n /\ q \notin new => run[q].status # "NONE"
  /\ of \in [new -> stuck]
  /\ \A m, n \in new : of[m] = of[n] => m = n
  /\ {of[n] : n \in new} = {r \in stuck : ~Exhausted(r)}
  /\ run' = [r \in Runs |->
               IF r \in stuck
               THEN [run[r] EXCEPT !.status = "FAILED", !.retries = @ + 1]
               ELSE IF r \in new THEN QueuedRow(run[of[r]].retries + 1) ELSE run[r]]
  /\ outbox' = [m \in Messages |->
                  IF m.kind = "run" /\ m.id \in new THEN "unprocessed" ELSE outbox[m]]
  /\ stuck' = {}
  /\ UNCHANGED <<approvalVars, direct, streamVars, work, dlq, lost, failures>>

-----------------------------------------------------------------------------
Operator ==
  \/ \E r \in Runs :
       \/ CreateTask(r) \/ TelegramTask(r) \/ DirectLost(r)
       \/ \E c \in {"pause", "stop", "resume"} : ControlRun(r, c)
       \/ \E c \in {"pause", "stop"} : TelegramControl(r, c)
       \/ TelegramResume(r)
       \/ \E n \in Runs : RetryRun(r, n)
  \/ \E a \in Approvals :
       ApprovalTimeout(a) \/ Approve(a) \/ Reject(a) \/ DecideTooLate(a)

Fetch(w) ==
  \/ \E t \in Tickets, r \in Runs : Receive(w, t, r)
  \/ \E t \in Tickets : Reclaim(w, t)

Process(w) ==
  \/ Claim(w) \/ ClaimRefused(w)
  \/ \E a \in Approvals :
       Consume(w, a) \/ ConsumeRefused(w, a) \/ ReadOpen(w, a) \/ ReplayBlocked(w, a)
  \/ FailClosed(w)
  \/ NoContinuation(w)
  \/ \E happened, raised \in BOOLEAN : CallTool(w, happened, raised)
  \/ FinishCall(w) \/ FinishRaises(w) \/ FailCall(w)
  \/ \E out \in {"PAUSED", "CANCELLED", "COMPLETED", "FAILED"} : CoordinatorEnds(w, out)
  \/ \E a \in Approvals : AwaitApproval(w, a)
  \/ FinalWrite(w) \/ Ack(w)

Recover ==
  \/ RecoverScan
  \/ \E r \in Runs : DeadLetter(r)
  \/ \E new \in SUBSET Runs : \E of \in [new -> stuck] : RecoverCommit(new, of)

WorkerStep(w) == Fetch(w) \/ Process(w) \/ AckFails(w) \/ Crash(w) \/ Heartbeat(w)

\* The scheduler, time, and the second half of the Telegram handlers.
Background ==
  \/ \E r \in Runs : DirectPublish(r) \/ LeaseExpires(r) \/ LeaseSlips(r)
  \/ \E m \in Messages : PublishMessage(m)
  \/ PublishCommit \/ SchedulerCrash \/ Recover

Next ==
  \/ Operator
  \/ \E w \in Workers : WorkerStep(w)
  \/ Background

Spec == Init /\ [][Next]_vars

\* Workers poll in an endless loop, the scheduler ticks every 60s, time passes
\* and a handler that has committed goes on to its XADD. Nobody has to decide
\* or to ask for anything, and no fault has to happen.
Fairness ==
  /\ \A w \in Workers : WF_vars(Fetch(w)) /\ WF_vars(Process(w))
  /\ \A r \in Runs : WF_vars(DirectPublish(r)) /\ WF_vars(LeaseExpires(r))
  /\ WF_vars(\E m \in Messages : PublishMessage(m))
  /\ WF_vars(PublishCommit)
  /\ WF_vars(Recover)

FairSpec == Spec /\ Fairness

-----------------------------------------------------------------------------
(* Properties.                                                             *)

Acting == {"calling", "called", "errored"}                  \* holds a consumed approval
Driving == Acting \cup {"claimed", "closing", "running", "final"}
                                                            \* between claim and last write

\* What consume_and_record promises across failures, redelivery and lease loss:
\* the remote write behind one approval is made at most once.
EffectAtMostOnce == \A a \in Approvals : effects[a] <= 1

\* An approval is consumed exactly when its execution record exists, and only
\* a consumed approval ever reaches the remote side.
ConsumedIffRecorded ==
  \A a \in Approvals :
    /\ (approval[a].status = "CONSUMED") <=> (exec[a] # "NONE")
    /\ effects[a] > 0 => approval[a].status = "CONSUMED"

\* The execution record never claims more than happened: SUCCEEDED means the
\* write was made, whichever worker wrote the record and however late.
RecordIsTruthful ==
  \A a \in Approvals : exec[a] = "SUCCEEDED" => effects[a] = 1

\* Why the three hold, as an inductive invariant: a worker inside a continuation
\* owns its consumed approval alone, has made the call or not as its position
\* says, and nobody has reported success in its place.
ActingOwnsApproval ==
  \A w \in Workers : work[w].pc \in Acting =>
    /\ work[w].appr \in Approvals
    /\ approval[work[w].appr].status = "CONSUMED"
    /\ exec[work[w].appr] \in {"PENDING", "AMBIGUOUS"}
    /\ work[w].pc = "calling" => effects[work[w].appr] = 0
    /\ work[w].pc = "called" => effects[work[w].appr] = 1
    /\ \A v \in Workers : work[v].pc \in Acting /\ work[v].appr = work[w].appr => v = w

ApprovalInv ==
  /\ EffectAtMostOnce
  /\ ConsumedIffRecorded
  /\ RecordIsTruthful
  /\ ActingOwnsApproval

\* A worker about to write off an open record is the only one, and its approval
\* was consumed.
ClosingHasRecord ==
  \A w \in Workers : work[w].pc = "closing" =>
    /\ work[w].appr \in Approvals
    /\ approval[work[w].appr].status = "CONSUMED"
    /\ \A v \in Workers : work[v].pc = "closing" /\ work[v].appr = work[w].appr => v = w

\* RunLifecycle implements ApprovedAction: the approval row, the execution
\* record and the remote call are all that remains of it.
PermitOf(status) ==
  CASE status = "NONE" -> "none"
    [] status = "PENDING" -> "asked"
    [] status = "APPROVED" -> "granted"
    [] status = "CONSUMED" -> "spent"
    [] status \in {"REJECTED", "EXPIRED"} -> "refused"

ReportOf(status) ==
  CASE status = "NONE" -> "none"
    [] status = "PENDING" -> "open"
    [] status = "AMBIGUOUS" -> "unknown"
    [] status = "SUCCEEDED" -> "done"

Abstract ==
  INSTANCE ApprovedAction WITH
    Actions <- Approvals,
    permit <- [a \in Approvals |-> PermitOf(approval[a].status)],
    done <- effects,
    report <- [a \in Approvals |-> ReportOf(exec[a])],
    doubted <- {a \in Approvals : \E w \in Workers : work[w].pc = "closing" /\ work[w].appr = a}

\* Whatever is redelivered, recovered or lost, the approvals behave as
\* ApprovedAction says: one question, one decision, one use, one effect, and a
\* success that nobody had seen open before is not withdrawn.
ApprovalsAreSingleUse == Abstract!Spec

\* Something that will bring run r to a worker: an outbox row to publish, a
\* handler about to publish, a stream entry, or a pending entry that no worker
\* has looked at beyond loading the row.
Outstanding(r) ==
  \/ \E m \in Messages : outbox[m] = "unprocessed" /\ MsgRun(m) = r
  \/ r \in direct
  \/ unread[r] > 0
  \/ \E t \in Tickets :
       /\ pel[t] = r
       /\ \A w \in Workers : work[w].ticket = t => work[w].pc = "loaded"

\* A QUEUED run is never forgotten between the database and Redis ("outbox is
\* sole reliable publish path", app.py), unless a Telegram handler, which has no
\* outbox row, swallowed the failure of its own XADD.
QueuedHasMessage ==
  \A r \in Runs : run[r].status = "QUEUED" => Outstanding(r) \/ r \in lost

\* Why it is not, as an inductive invariant: an approval that does not exist yet
\* has no message, a worker that has only loaded a row holds that run's entry or
\* one already acknowledged, and the coordinator never re-queues a run.
DeliveryInv ==
  /\ QueuedHasMessage
  /\ \A a \in Approvals : approval[a].status = "NONE" => outbox[ApproveMsg(a)] = "none"
  /\ \A w \in Workers :
       /\ work[w].pc = "loaded" =>
            /\ work[w].ticket \in Tickets
            /\ pel[work[w].ticket] \in {0, work[w].run}
       /\ work[w].pc = "final" => work[w].out # "QUEUED"

\* The lease excludes: as long as renewals are never late, two workers never
\* drive the same run, whatever is redelivered or recovered.
LeaseExclusion ==
  "slip" \notin Faults =>
    \A v, w \in Workers :
      /\ work[v].pc \in Driving /\ work[w].pc \in Driving
      /\ work[v].run = work[w].run
      => v = w

\* Why it excludes, as an inductive invariant: the row of a run that a worker
\* drives names that worker and is EXECUTING under a live lease, unless the
\* recovery, having read the row before the worker claimed it, failed it meanwhile.
SafeRow(x, w) ==
  /\ x.owner = w
  /\ \/ x.status = "EXECUTING" /\ x.lease = "live"
     \/ x.status = "FAILED" /\ x.retries > 0

DrivingOwnsRun ==
  "slip" \notin Faults =>
    \A w \in Workers :
      /\ work[w].pc \in Driving \cup {"loaded"} => work[w].run \in Runs
      /\ work[w].pc \in Driving => SafeRow(run[work[w].run], w)

\* A run the recovery never touched keeps its terminal status while renewals
\* are in time: no redelivered message and no second worker undoes it.
TerminalUnlessRecovered ==
  [][\A r \in Runs :
       /\ "slip" \notin Faults
       /\ run[r].status \in Terminal /\ r \notin stuck /\ run[r].retries = 0
       => run'[r].status = run[r].status]_vars

\* "atomically transition the run from WAITING_APPROVAL to QUEUED (approve)"
\* (approval.py): a granted approval does not leave its run waiting for ever.
ApprovedRunResumes ==
  \A a \in Approvals :
    approval[a].status = "APPROVED"
      ~> (approval[a].status # "APPROVED"
            \/ run[approval[a].run].status # "WAITING_APPROVAL")

\* Every queued run is picked up, and every run being executed comes to rest:
\* the message survives failures in the PEL, a dead owner is recovered.
QueuedRunIsClaimed ==
  \A r \in Runs : run[r].status = "QUEUED" ~> run[r].status # "QUEUED"

ExecutingRunRests ==
  \A r \in Runs : run[r].status = "EXECUTING" ~> run[r].status # "EXECUTING"
=============================================================================
