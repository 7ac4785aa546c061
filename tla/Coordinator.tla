---------------------------- MODULE Coordinator -----------------------------
(***************************************************************************)
(* RunCoordinator.run and what the worker makes of its end: one plan, its  *)
(* actions one by one under control requests, budgets, the policy and the  *)
(* circuit breaker, the events it must persist, and the verification of    *)
(* the evidence.  RunLifecycle has all of this as CoordinatorEnds and      *)
(* AwaitApproval; here one run is looked at from inside.                   *)
(***************************************************************************)
EXTENDS Naturals, Sequences, FiniteSets

CONSTANTS
  Allowed, Gated, Denied, \* tools by what PolicyEngine.decide says of them
  Watched,       \* JEV_POLICY_TOOLS, empty when the Jev layer is off
  MaxActions,    \* bound: length of a plan
  MaxIterations, \* RunBudget.max_iterations
  MaxCalls,      \* RunBudget.max_tool_calls
  Threshold,     \* CircuitBreaker threshold
  MaxRequests,   \* bound: control requests that arrive during the run
  Faults         \* "sink": an event cannot be persisted; "read": the control
                 \* request cannot be read; "raise": planner or policy raise

ASSUME CoordinatorAssumption ==
  /\ MaxActions \in Nat /\ MaxIterations \in Nat /\ MaxCalls \in Nat
  /\ MaxRequests \in Nat /\ Threshold \in Nat \ {0}
  /\ Allowed \cap Gated = {} /\ Allowed \cap Denied = {} /\ Gated \cap Denied = {}
  /\ Faults \subseteq {"sink", "read", "raise"}

Tools == Allowed \cup Gated \cup Denied
Junk == "junk"                \* an entry of the plan that is no dict
Plans == UNION {[1 .. n -> Tools \cup {Junk}] : n \in 0 .. MaxActions}

VARIABLES
  pc,        \* where run() is
  plan,      \* the actions of the plan
  next,      \* position in the plan
  status,    \* self.status
  code,      \* self.failure_code
  iteration, \* self.iteration
  calls,     \* self.tool_calls_count
  good, bad, \* entries of executed with ok True and ok False
  breaker,   \* failures of each tool inside the cooldown window
  over,      \* token or cost budget exceeded
  late,      \* wall time exceeded
  control,   \* control_request of the row, as operators write it
  requests,  \* history: control requests so far
  after,     \* history: tool calls started since the stop request in force
  missed,    \* history: has a request been missed because its read failed
  called,    \* history: tools that were called
  recorded,  \* history: calls whose TOOL_CALL event was persisted
  outcome    \* what _process_run does: returned (and ACK), or raised (no ACK)

vars == <<pc, plan, next, status, code, iteration, calls, good, bad, breaker, over,
          late, control, requests, after, missed, called, recorded, outcome>>
envVars == <<late, control, requests>>
stops == <<after, missed>>
evidence == <<good, bad, called, recorded>>

Status == {"PLANNING", "EXECUTING", "PAUSED", "CANCELLED", "WAITING_APPROVAL",
           "FAILED", "COMPLETED"}
Code == {"", "limit", "denied", "tool_error", "no_actions", "verification_failed",
         "worker_execution_error"}

\* The fields of the coordinator, the row's request and the histories have their
\* types; the position never passes the end of the plan by more than one.
TypeOK ==
  /\ pc \in {"plan", "pause", "stop", "guard", "policy", "ask", "call", "record",
             "error", "finish", "done"}
  /\ plan \in Plans
  /\ next \in 1 .. MaxActions + 1
  /\ status \in Status /\ code \in Code
  /\ iteration \in Nat /\ calls \in Nat /\ good \in Nat /\ bad \in Nat
  /\ breaker \in [Tools -> Nat]
  /\ over \in BOOLEAN /\ late \in BOOLEAN /\ missed \in BOOLEAN
  /\ control \in {"none", "pause", "stop"}
  /\ requests \in Nat /\ after \in Nat /\ recorded \in Nat
  /\ called \subseteq Tools
  /\ outcome \in {"none", "returned", "raised"}

Init ==
  /\ pc = "plan" /\ plan = << >> /\ next = 1
  /\ status = "PLANNING" /\ code = ""
  /\ iteration = 0 /\ calls = 0 /\ good = 0 /\ bad = 0
  /\ breaker = [t \in Tools |-> 0]
  /\ over = FALSE /\ late = FALSE
  /\ control = "none" /\ requests = 0 /\ after = 0 /\ missed = FALSE
  /\ called = {} /\ recorded = 0
  /\ outcome = "none"

-----------------------------------------------------------------------------
(* Around the run: operators and time.                                     *)

Request(c) ==
  /\ outcome = "none"
  /\ requests < MaxRequests
  /\ c # control
  /\ control' = c
  /\ requests' = requests + 1
  /\ after' = 0 /\ missed' = FALSE
  /\ UNCHANGED <<pc, plan, next, status, code, iteration, calls, evidence, breaker,
                 over, late, outcome>>

WallTimePasses ==
  /\ outcome = "none" /\ ~late
  /\ late' = TRUE
  /\ UNCHANGED <<pc, plan, next, status, code, iteration, calls, evidence, breaker,
                 over, control, requests, stops, outcome>>

-----------------------------------------------------------------------------
(* The run.                                                                *)

\* CriticalEventPersistenceError leaves run() and _process_run: no ACK.
RaiseCritical ==
  /\ "sink" \in Faults
  /\ pc' = "done" /\ outcome' = "raised"

\* make_plan and the PLAN event; a plan without actions fails at once.
MakePlan(p, exceeded) ==
  /\ pc = "plan"
  /\ plan' = p
  /\ over' = exceeded
  /\ IF p = << >>
     THEN /\ pc' = "done" /\ outcome' = "returned"
          /\ status' = "FAILED" /\ code' = "no_actions"
     ELSE pc' = "pause" /\ UNCHANGED <<outcome, status, code>>
  /\ UNCHANGED <<next, iteration, calls, evidence, breaker, envVars, stops>>

PlanNotPersisted ==
  /\ pc = "plan"
  /\ RaiseCritical
  /\ UNCHANGED <<plan, next, status, code, iteration, calls, evidence, breaker, over,
                 envVars, stops>>

\* Any other exception: the worker records FATAL and fails the run, or raises
\* when even that event cannot be written.
Raises(fatalRecorded) ==
  /\ "raise" \in Faults
  /\ pc \in {"plan", "policy"}
  /\ IF fatalRecorded
     THEN /\ outcome' = "returned" /\ status' = "FAILED"
          /\ code' = IF code = "" THEN "worker_execution_error" ELSE code
     ELSE /\ "sink" \in Faults
          /\ outcome' = "raised"
          /\ UNCHANGED <<status, code>>
  /\ pc' = "done"
  /\ UNCHANGED <<plan, next, iteration, calls, evidence, breaker, over, envVars, stops>>

More == next <= Len(plan)
Tool == plan[next]

\* The coordinator does not rely on the planner for well-formed entries.
SkipJunk ==
  /\ pc = "pause" /\ More /\ Tool = Junk
  /\ next' = next + 1
  /\ UNCHANGED <<pc, plan, status, code, iteration, calls, evidence, breaker, over,
                 envVars, stops, outcome>>

\* The two checks read the row one after the other; a read that fails counts
\* as no request.
Sees(c) == control = c /\ UNCHANGED missed
Misses(c) ==
  \/ control # c /\ UNCHANGED missed
  \/ control = c /\ "read" \in Faults /\ missed' = TRUE

\* Mutant of CheckPause: control requests are read once, before the first action.
CheckPauseOnce ==
  /\ pc = "pause" /\ More /\ Tool # Junk
  /\ \/ next = 1 /\ Sees("pause") /\ status' = "PAUSED" /\ pc' = "finish"
     \/ next = 1 /\ Misses("pause") /\ pc' = "stop" /\ UNCHANGED status
     \/ next > 1 /\ pc' = "guard" /\ UNCHANGED <<status, missed>>
  /\ UNCHANGED <<plan, next, code, iteration, calls, evidence, breaker, over, envVars,
                 after, outcome>>

CheckPause ==
  /\ pc = "pause" /\ More /\ Tool # Junk
  /\ \/ Sees("pause") /\ status' = "PAUSED" /\ pc' = "finish"
     \/ Misses("pause") /\ pc' = "stop" /\ UNCHANGED status
  /\ UNCHANGED <<plan, next, code, iteration, calls, evidence, breaker, over, envVars,
                 after, outcome>>

CheckStop ==
  /\ pc = "stop"
  /\ \/ Sees("stop") /\ status' = "CANCELLED" /\ pc' = "finish"
     \/ Misses("stop") /\ pc' = "guard" /\ UNCHANGED status
  /\ UNCHANGED <<plan, next, code, iteration, calls, evidence, breaker, over, envVars,
                 after, outcome>>

CanContinue ==
  /\ ~late /\ iteration < MaxIterations /\ calls < MaxCalls /\ ~over

Guard ==
  /\ pc = "guard"
  /\ IF CanContinue
     THEN iteration' = iteration + 1 /\ status' = "EXECUTING" /\ pc' = "policy"
          /\ UNCHANGED code
     ELSE status' = "FAILED" /\ code' = "limit" /\ pc' = "finish"
          /\ UNCHANGED iteration
  /\ UNCHANGED <<plan, next, calls, evidence, breaker, over, envVars, stops,
                 outcome>>

\* decide_async: the static map is the floor, the Jev layer may tighten what it
\* allows; an unavailable Jev leaves the static decision.
Decision(t) ==
  CASE t \in Allowed /\ t \in Watched -> {"ALLOW", "REQUIRE_APPROVAL", "DENY"}
    [] t \in Allowed /\ t \notin Watched -> {"ALLOW"}
    [] t \in Gated -> {"REQUIRE_APPROVAL"}
    [] t \in Denied -> {"DENY"}

Decide(d) ==
  /\ pc = "policy"
  /\ d \in Decision(Tool)
  /\ \/ d = "DENY" /\ status' = "FAILED" /\ code' = "denied" /\ pc' = "finish"
     \/ d = "REQUIRE_APPROVAL" /\ status' = "WAITING_APPROVAL" /\ pc' = "ask"
          /\ UNCHANGED code
     \/ d = "ALLOW" /\ pc' = "call" /\ UNCHANGED <<status, code>>
  /\ UNCHANGED <<plan, next, iteration, calls, evidence, breaker, over, envVars, stops, outcome>>

\* The AWAITING_APPROVAL event and the approval row.
Ask ==
  /\ pc = "ask"
  /\ pc' = "finish"
  /\ UNCHANGED <<plan, next, status, code, iteration, calls, evidence, breaker, over,
                 envVars, stops, outcome>>

AskNotPersisted ==
  /\ pc = "ask"
  /\ RaiseCritical
  /\ UNCHANGED <<plan, next, status, code, iteration, calls, evidence, breaker, over,
                 envVars, stops>>

\* executor.execute returns (counted, evidence ok) or raises (not counted).
CallTool(ok) ==
  /\ pc = "call"
  /\ called' = called \cup {Tool}
  /\ after' = IF control = "stop" THEN after + 1 ELSE after
  /\ IF ok THEN calls' = calls + 1 /\ good' = good + 1 /\ pc' = "record"
           ELSE pc' = "error" /\ UNCHANGED <<calls, good>>
  /\ UNCHANGED <<plan, next, status, code, iteration, bad, recorded, breaker, over,
                 envVars, missed, outcome>>

\* The TOOL_CALL event; its failure is caught like an error of the tool.
RecordCall ==
  /\ pc = "record"
  /\ recorded' = recorded + 1
  /\ breaker' = [breaker EXCEPT ![Tool] = 0]
  /\ next' = next + 1
  /\ pc' = "pause"
  /\ UNCHANGED <<plan, status, code, iteration, calls, good, bad, called, over, envVars,
                 stops, outcome>>

CallNotPersisted ==
  /\ pc = "record"
  /\ "sink" \in Faults

  /\ pc' = "error"
  /\ UNCHANGED <<plan, next, status, code, iteration, calls, evidence, breaker, over,
                 envVars, stops, outcome>>

\* Mutant of ToolError: a failed action is skipped.
ToolErrorForgotten(failures) ==
  /\ pc = "error"
  /\ failures \in 1 .. breaker[Tool] + 1
  /\ pc' = "pause" /\ next' = next + 1
  /\ UNCHANGED <<plan, status, code, iteration, calls, evidence, breaker, over, envVars,
                 stops, outcome>>

\* The except branch; failures that left the cooldown window are forgotten.
ToolError(failures) ==
  /\ pc = "error"
  /\ failures \in 1 .. breaker[Tool] + 1
  /\ breaker' = [breaker EXCEPT ![Tool] = failures]
  /\ bad' = bad + 1
  /\ code' = "tool_error"
  /\ IF failures >= Threshold
     THEN status' = "FAILED" /\ pc' = "finish" /\ UNCHANGED next
     ELSE pc' = "pause" /\ next' = next + 1 /\ UNCHANGED status
  /\ UNCHANGED <<plan, iteration, calls, good, called, recorded, over, envVars, stops, outcome>>

EndOfPlan ==
  /\ pc = "pause" /\ ~More
  /\ pc' = "finish"
  /\ UNCHANGED <<plan, next, status, code, iteration, calls, evidence, breaker, over,
                 envVars, stops, outcome>>

\* DefaultVerifier: some evidence is ok and none is not.
Verified == good > 0 /\ bad = 0

\* Only a run still in progress is judged: an error fails it, otherwise the
\* verifier decides.
Finalize ==
  /\ pc = "finish"
  /\ IF status \in {"PLANNING", "EXECUTING"}
     THEN IF Verified THEN status' = "COMPLETED" /\ UNCHANGED code
          ELSE status' = "FAILED" /\ code' = IF code = "" THEN "verification_failed" ELSE code
     ELSE UNCHANGED <<status, code>>
  /\ pc' = "done" /\ outcome' = "returned"
  /\ UNCHANGED <<plan, next, iteration, calls, evidence, breaker, over, envVars, stops>>

-----------------------------------------------------------------------------
Run ==
  \/ \E p \in Plans, exceeded \in BOOLEAN : MakePlan(p, exceeded)
  \/ PlanNotPersisted
  \/ \E fatalRecorded \in BOOLEAN : Raises(fatalRecorded)
  \/ SkipJunk \/ CheckPause \/ CheckStop \/ Guard
  \/ \E d \in {"ALLOW", "REQUIRE_APPROVAL", "DENY"} : Decide(d)
  \/ Ask \/ AskNotPersisted
  \/ \E ok \in BOOLEAN : CallTool(ok)
  \/ RecordCall \/ CallNotPersisted
  \/ \E failures \in 1 .. Threshold : ToolError(failures)
  \/ EndOfPlan \/ Finalize

Next ==
  \/ Run
  \/ \E c \in {"none", "pause", "stop"} : Request(c)
  \/ WallTimePasses

Spec == Init /\ [][Next]_vars

-----------------------------------------------------------------------------
(* Properties.                                                             *)

\* COMPLETED is earned: every action of the plan was called, succeeded and has
\* its TOOL_CALL event; no break, no skipped error, no lost event on the way.
CompletedIsEarned ==
  outcome = "returned" /\ status = "COMPLETED"
    => /\ Cardinality({i \in DOMAIN plan : plan[i] # Junk}) = recorded
       /\ recorded = calls /\ good = calls /\ bad = 0 /\ calls > 0

\* Whatever Jev answers, the coordinator itself only calls tools that the
\* static policy map allows.
OnlyAllowedToolsRun == called \subseteq Allowed

\* Neither budget is overrun, by failing calls or by failing events either.
BudgetsHold == iteration <= MaxIterations /\ calls <= MaxCalls

\* A stop request in the row lets at most the call already decided on start:
\* the coordinator reads the row before every action, and only a failing read
\* makes it miss the request.
StopLetsOneCallThrough == ~missed => after <= 1

\* A run that fails says why, and one that completes carries no old reason.
ReasonMatchesStatus ==
  outcome = "returned" =>
    (status = "FAILED" => code # "") /\ (status = "COMPLETED" => code = "")

\* What a run has when the coordinator gives it back is earned: its variables
\* have their types, COMPLETED had every action behind it, no tool ran that the
\* policy does not allow, no budget is overrun, and a failure says why.
EndIsEarned ==
  TypeOK /\ CompletedIsEarned /\ OnlyAllowedToolsRun /\ BudgetsHold /\ ReasonMatchesStatus

\* Why all of this holds, as an inductive invariant.  Between two actions the
\* events and calls so far match the actions so far, as long as nothing failed;
\* where the coordinator is says what the budgets and the plan still allow.
Handled(n) == {i \in DOMAIN plan : i < n /\ plan[i] # Junk}

EvidenceMatches ==
  /\ good = calls
  /\ bad = 0 /\ pc # "error" =>
       /\ Cardinality(Handled(next)) = recorded
       /\ calls = IF pc = "record" THEN recorded + 1 ELSE recorded
  /\ called \subseteq Allowed

PositionAllows ==
  /\ (outcome = "none") <=> (pc # "done")
  /\ pc = "plan" => next = 1
  /\ pc \in {"stop", "guard", "policy", "ask", "call", "record", "error"}
       => More /\ Tool \in Tools \ {Junk}
  /\ pc \in {"policy", "call"} => calls < MaxCalls
  /\ pc = "call" => Tool \in Allowed
  /\ BudgetsHold

StatusFollows ==
  /\ status = "COMPLETED" => pc = "done" /\ CompletedIsEarned
  /\ status = "FAILED" => pc \in {"finish", "done"} /\ code # ""
  /\ pc = "ask" => status = "WAITING_APPROVAL"
  /\ pc = "finish" /\ status \in {"PLANNING", "EXECUTING"} => ~More
  /\ bad > 0 \/ status = "FAILED" \/ code = ""
  /\ ReasonMatchesStatus

CoordinatorInv == TypeOK /\ EvidenceMatches /\ PositionAllows /\ StatusFollows

\* A stop request set after its check meets at most the action in progress.
StopInv ==
  /\ after \in Nat
  /\ StopLetsOneCallThrough
  /\ control # "stop" => after = 0
  /\ ~missed /\ after > 0 => pc \notin {"guard", "policy", "call"}
=============================================================================
