--------------------------- MODULE DecisionProofs ---------------------------
(***************************************************************************)
(* Proofs about the decisions: when a run ends (Coordinator), what a       *)
(* transcript adds up to (Fold), what a frame commits to (OfferGate), what *)
(* a message is rated (Evaluator), when the gateway is asked (JevClient),  *)
(* whose token counts (Sessions), and how many requests are admitted       *)
(* (Limiter).                                                              *)
(***************************************************************************)
EXTENDS Coordinator, Fold, Evaluator, JevClient, OfferGate, Sessions, Limiter,
        FiniteSetTheorems, SequenceTheorems, WellFoundedInduction, TLAPS
-----------------------------------------------------------------------------
(***************************************************************************)
(* The run coordinator.                                                    *)
(***************************************************************************)

\* A plan is a sequence of at most MaxActions entries.
LEMMA PlanType ==
  ASSUME NEW p \in Plans
  PROVE  /\ Len(p) \in 0 .. MaxActions /\ DOMAIN p = 1 .. Len(p)
         /\ \A i \in 1 .. Len(p) : p[i] \in Tools \cup {Junk}
         /\ p # << >> => Len(p) > 0
<1>1. PICK n \in 0 .. MaxActions : p \in [1 .. n -> Tools \cup {Junk}]
  BY DEF Plans
<1>2. n \in Nat /\ p \in Seq(Tools \cup {Junk})
  BY <1>1, CoordinatorAssumption
<1>3. Len(p) = n
  BY <1>1, <1>2
<1> QED
  BY <1>1, <1>2, <1>3, CoordinatorAssumption

\* The empty plan is a plan.
LEMMA EmptyPlan == << >> \in Plans /\ Len(<< >>) = 0
<1>1. << >> \in [1 .. 0 -> Tools \cup {Junk}]
  OBVIOUS
<1> QED
  BY <1>1, CoordinatorAssumption DEF Plans

\* The set of actions already handled is finite; it grows by the action just
\* handled, and not by an entry that is no action.
LEMMA HandledGrows ==
  ASSUME plan \in Plans, next \in Nat \ {0}, More
  PROVE  /\ IsFiniteSet(Handled(next)) /\ Cardinality(Handled(next)) \in Nat
         /\ Tool = Junk => Handled(next + 1) = Handled(next)
         /\ Tool # Junk => Cardinality(Handled(next + 1)) = Cardinality(Handled(next)) + 1
<1>1. Len(plan) \in Nat /\ DOMAIN plan = 1 .. Len(plan)
  BY PlanType, CoordinatorAssumption
<1>2. Handled(next) \subseteq 1 .. Len(plan) /\ IsFiniteSet(1 .. Len(plan))
  BY <1>1, FS_Interval DEF Handled
<1>3. IsFiniteSet(Handled(next)) /\ Cardinality(Handled(next)) \in Nat
  BY <1>2, FS_Subset, FS_CardinalityType
<1>4. Tool = Junk => Handled(next + 1) = Handled(next)
  BY <1>1 DEF Handled, Tool, More
<1>5. Tool # Junk => Handled(next + 1) = Handled(next) \cup {next} /\ next \notin Handled(next)
  BY <1>1 DEF Handled, Tool, More
<1> QED
  BY <1>3, <1>4, <1>5, FS_AddElement

\* The types of the flags, and of everything else.
FlagTypes == over \in BOOLEAN /\ late \in BOOLEAN /\ missed \in BOOLEAN

OtherTypes ==
  /\ pc \in {"plan", "pause", "stop", "guard", "policy", "ask", "call", "record",
             "error", "finish", "done"}
  /\ plan \in Plans
  /\ next \in 1 .. MaxActions + 1
  /\ status \in Status /\ code \in Code
  /\ iteration \in Nat /\ calls \in Nat /\ good \in Nat /\ bad \in Nat
  /\ breaker \in [Tools -> Nat]
  /\ control \in {"none", "pause", "stop"}
  /\ requests \in Nat /\ after \in Nat /\ recorded \in Nat
  /\ called \subseteq Tools
  /\ outcome \in {"none", "returned", "raised"}

LEMMA TypeParts == (TypeOK <=> FlagTypes /\ OtherTypes) /\ (TypeOK' <=> FlagTypes' /\ OtherTypes')
<1>1. TypeOK <=> FlagTypes /\ OtherTypes
  BY DEF TypeOK, FlagTypes, OtherTypes
<1>2. TypeOK' <=> FlagTypes' /\ OtherTypes'
  BY DEF TypeOK, FlagTypes, OtherTypes
<1> QED
  BY <1>1, <1>2

\* Initially nothing is planned, handled or recorded.
LEMMA InitCoordinator == Init => CoordinatorInv /\ StopInv
<1> SUFFICES ASSUME Init PROVE CoordinatorInv /\ StopInv
  OBVIOUS
<1>0. /\ pc = "plan" /\ next = 1 /\ after = 0 /\ iteration = 0 /\ calls = 0
      /\ plan \in Plans /\ outcome = "none" /\ control = "none"
  BY EmptyPlan DEF Init
<1>1. TypeOK
  <2>1. FlagTypes
    BY DEF Init, FlagTypes
  <2>2. OtherTypes
    <3>1. next \in 1 .. MaxActions + 1
      BY <1>0, CoordinatorAssumption
    <3>2. breaker \in [Tools -> Nat] /\ good \in Nat /\ bad \in Nat /\ requests \in Nat /\ recorded \in Nat
      BY DEF Init
    <3>3. iteration \in Nat /\ calls \in Nat /\ after \in Nat
      BY <1>0
    <3> QED
      BY <1>0, <3>1, <3>2, <3>3 DEF Init, OtherTypes, Status, Code
  <2> QED
    BY <2>1, <2>2, TypeParts
<1>2. Handled(next) = {}
  BY <1>0, PlanType, CoordinatorAssumption DEF Handled
<1>3. EvidenceMatches
  BY <1>2, FS_EmptySet DEF Init, EvidenceMatches
<1>4. PositionAllows
  BY <1>0, CoordinatorAssumption DEF PositionAllows, BudgetsHold
<1>5. StatusFollows
  BY DEF Init, StatusFollows, ReasonMatchesStatus
<1>6. StopInv
  BY <1>0 DEF StopInv, StopLetsOneCallThrough
<1> QED
  BY <1>1, <1>3, <1>4, <1>5, <1>6 DEF CoordinatorInv

\* A step that leaves the plan, the evidence and the budgets alone: what the
\* invariant says of them holds if it holds of the new position and status.
LEMMA CoordinatorFrame ==
  ASSUME CoordinatorInv, UNCHANGED <<plan, next, evidence, calls>>,
         pc \notin {"record", "error"}, pc' # "record"
  PROVE  EvidenceMatches'
  BY DEF CoordinatorInv, EvidenceMatches, Handled, evidence

\* Requests and time keep the invariant.
LEMMA EnvironmentCoordinator ==
  ASSUME CoordinatorInv, WallTimePasses \/ \E c \in {"none", "pause", "stop"} : Request(c)
  PROVE  CoordinatorInv'
<1>1. UNCHANGED <<pc, plan, next, status, code, iteration, calls, evidence, breaker, over, outcome>>
  BY DEF WallTimePasses, Request
<1>2. TypeOK'
  <2>1. FlagTypes'
    BY DEF WallTimePasses, Request, CoordinatorInv, TypeOK, FlagTypes, stops
  <2>2. OtherTypes'
    <3>1. control' \in {"none", "pause", "stop"} /\ requests' \in Nat /\ after' \in Nat
      BY TypeParts DEF WallTimePasses, Request, CoordinatorInv, OtherTypes, stops
    <3> QED
      BY <1>1, <3>1, TypeParts DEF OtherTypes, CoordinatorInv, evidence
  <2> QED
    BY <2>1, <2>2, TypeParts
<1>3. EvidenceMatches'
  BY <1>1 DEF CoordinatorInv, EvidenceMatches, Handled, evidence
<1>4. PositionAllows'
  BY <1>1 DEF CoordinatorInv, PositionAllows, BudgetsHold, More, Tool, evidence
<1>5. StatusFollows'
  BY <1>1 DEF CoordinatorInv, StatusFollows, ReasonMatchesStatus, CompletedIsEarned, More, evidence
<1> QED
  BY <1>2, <1>3, <1>4, <1>5 DEF CoordinatorInv

\* The steps of a run keep the types.
LEMMA RunFlagTypes ==
  ASSUME TypeOK, Run
  PROVE  FlagTypes'
  BY DEF TypeOK, FlagTypes, Run, MakePlan, PlanNotPersisted, RaiseCritical, Raises, SkipJunk,
         CheckPause, CheckStop, Sees, Misses, Guard, Decide, Ask, AskNotPersisted, CallTool,
         RecordCall, CallNotPersisted, ToolError, EndOfPlan, Finalize, stops, envVars

LEMMA RunOtherTypes ==
  ASSUME CoordinatorInv, Run
  PROVE  OtherTypes'
<1>a. OtherTypes /\ PositionAllows
  BY TypeParts DEF CoordinatorInv
<1>0. More => next + 1 \in 1 .. MaxActions + 1
  <2>1. plan \in Plans /\ next \in 1 .. MaxActions + 1
    BY <1>a DEF OtherTypes
  <2> QED
    BY <2>1, PlanType, CoordinatorAssumption DEF More
<1> USE DEF OtherTypes, evidence, envVars, stops
<1>1. ASSUME NEW p \in Plans, NEW exceeded \in BOOLEAN, MakePlan(p, exceeded) PROVE OtherTypes'
  BY <1>a, <1>1 DEF MakePlan, Status, Code
<1>2. CASE PlanNotPersisted \/ AskNotPersisted
  BY <1>a, <1>2 DEF PlanNotPersisted, AskNotPersisted, RaiseCritical
<1>3. ASSUME NEW fatalRecorded \in BOOLEAN, Raises(fatalRecorded) PROVE OtherTypes'
  BY <1>a, <1>3 DEF Raises, Status, Code
<1>4. CASE SkipJunk
  BY <1>a, <1>0, <1>4 DEF SkipJunk
<1>5. CASE CheckPause
  BY <1>a, <1>5 DEF CheckPause, Sees, Misses, Status, Code
<1>6. CASE CheckStop
  BY <1>a, <1>6 DEF CheckStop, Sees, Misses, Status, Code
<1>7. CASE Guard
  <2>1. iteration' \in Nat
    BY <1>a, <1>7 DEF Guard
  <2> QED
    BY <1>a, <1>7, <2>1 DEF Guard, Status, Code
<1>8. ASSUME NEW d \in {"ALLOW", "REQUIRE_APPROVAL", "DENY"}, Decide(d) PROVE OtherTypes'
  BY <1>a, <1>8 DEF Decide, Status, Code
<1>9. CASE Ask \/ CallNotPersisted \/ EndOfPlan
  BY <1>a, <1>9 DEF Ask, CallNotPersisted, EndOfPlan
<1>10. ASSUME NEW ok \in BOOLEAN, CallTool(ok) PROVE OtherTypes'
  <2>1. Tool \in Tools
    BY <1>a, <1>10 DEF CallTool, PositionAllows
  <2>2. calls' \in Nat /\ good' \in Nat /\ after' \in Nat
    BY <1>a, <1>10 DEF CallTool
  <2> QED
    BY <1>a, <1>10, <2>1, <2>2 DEF CallTool
<1>11. CASE RecordCall
  <2>1. More
    BY <1>a, <1>11 DEF RecordCall, PositionAllows
  <2>2. next' \in 1 .. MaxActions + 1 /\ recorded' \in Nat /\ breaker' \in [Tools -> Nat]
    <3>1. next' = next + 1 /\ recorded' = recorded + 1 /\ breaker' = [breaker EXCEPT ![Tool] = 0]
      BY <1>a, <1>11 DEF RecordCall
    <3>2. next \in 1 .. MaxActions + 1 /\ recorded \in Nat /\ breaker \in [Tools -> Nat]
      BY <1>a
    <3>3. next' \in 1 .. MaxActions + 1 /\ recorded' \in Nat
      BY <1>0, <2>1, <3>1, <3>2
    <3>4. breaker' \in [Tools -> Nat]
      BY <3>1, <3>2
    <3> QED
      BY <3>3, <3>4
  <2> QED
    BY <1>a, <1>11, <2>2 DEF RecordCall
<1>12. ASSUME NEW failures \in 1 .. Threshold, ToolError(failures) PROVE OtherTypes'
  <2>1. More
    BY <1>a, <1>12 DEF ToolError, PositionAllows
  <2>2. next' \in 1 .. MaxActions + 1 /\ bad' \in Nat /\ breaker' \in [Tools -> Nat]
    <3>1. next' \in {next, next + 1} /\ bad' = bad + 1 /\ breaker' = [breaker EXCEPT ![Tool] = failures]
      BY <1>a, <1>12 DEF ToolError
    <3>2. failures \in Nat
      BY CoordinatorAssumption
    <3>3. next \in 1 .. MaxActions + 1 /\ bad \in Nat /\ breaker \in [Tools -> Nat]
      BY <1>a
    <3>4. next' \in 1 .. MaxActions + 1 /\ bad' \in Nat
      BY <1>0, <2>1, <3>1, <3>3
    <3>5. breaker' \in [Tools -> Nat]
      BY <3>1, <3>2, <3>3
    <3> QED
      BY <3>4, <3>5
  <2> QED
    BY <1>a, <1>12, <2>2 DEF ToolError, Status, Code
<1>13. CASE Finalize
  BY <1>a, <1>13 DEF Finalize, Status, Code
<1> QED
  BY <1>1, <1>2, <1>3, <1>4, <1>5, <1>6, <1>7, <1>8, <1>9, <1>10, <1>11, <1>12, <1>13 DEF Run

\* The steps of a run keep the evidence in step with the plan.
LEMMA RunEvidence ==
  ASSUME CoordinatorInv, Run
  PROVE  EvidenceMatches'
<1>0. /\ plan \in Plans /\ next \in Nat \ {0} /\ calls \in Nat /\ bad \in Nat /\ recorded \in Nat
      /\ EvidenceMatches /\ PositionAllows
  BY DEF CoordinatorInv, TypeOK
<1>1. ASSUME NEW p \in Plans, NEW exceeded \in BOOLEAN, MakePlan(p, exceeded) PROVE EvidenceMatches'
  <2>1. next = 1 /\ next' = next /\ plan' = p
    BY <1>0, <1>1 DEF MakePlan, PositionAllows
  <2>2. Handled(next) = {} /\ Handled(next)' = {}
    BY <1>0, <2>1, PlanType, CoordinatorAssumption DEF Handled
  <2> QED
    BY <1>0, <1>1, <2>2 DEF MakePlan, EvidenceMatches, evidence
<1>2. CASE PlanNotPersisted \/ AskNotPersisted \/ CheckPause \/ CheckStop \/ Guard \/ Ask
           \/ EndOfPlan \/ Finalize
  BY <1>2, CoordinatorFrame
  DEF PlanNotPersisted, AskNotPersisted, RaiseCritical, CheckPause, CheckStop, Guard, Ask,
      EndOfPlan, Finalize
<1>3. ASSUME NEW fatalRecorded \in BOOLEAN, Raises(fatalRecorded) PROVE EvidenceMatches'
  BY <1>3, CoordinatorFrame DEF Raises
<1>4. CASE SkipJunk
  <2>1. Handled(next + 1) = Handled(next)
    BY <1>0, <1>4, HandledGrows DEF SkipJunk
  <2>2. Handled(next)' = Handled(next + 1)
    BY <1>4 DEF SkipJunk, Handled
  <2> QED
    BY <1>0, <1>4, <2>1, <2>2 DEF SkipJunk, EvidenceMatches, evidence
<1>8. ASSUME NEW d \in {"ALLOW", "REQUIRE_APPROVAL", "DENY"}, Decide(d) PROVE EvidenceMatches'
  BY <1>8, CoordinatorFrame DEF Decide
<1>10. ASSUME NEW ok \in BOOLEAN, CallTool(ok) PROVE EvidenceMatches'
  <2>1. Tool \in Allowed
    BY <1>0, <1>10 DEF CallTool, PositionAllows
  <2>2. Handled(next)' = Handled(next)
    BY <1>10 DEF CallTool, Handled
  <2> QED
    BY <1>0, <1>10, <2>1, <2>2 DEF CallTool, EvidenceMatches
<1>11. CASE RecordCall
  <2>1. More /\ Tool # Junk
    BY <1>0, <1>11 DEF RecordCall, PositionAllows
  <2>2. Cardinality(Handled(next + 1)) = Cardinality(Handled(next)) + 1
    BY <1>0, <2>1, HandledGrows
  <2>3. Handled(next)' = Handled(next + 1)
    BY <1>11 DEF RecordCall, Handled
  <2> QED
    BY <1>0, <1>11, <2>2, <2>3 DEF RecordCall, EvidenceMatches
<1>12. CASE CallNotPersisted
  BY <1>0, <1>12 DEF CallNotPersisted, EvidenceMatches, evidence
<1>13. ASSUME NEW failures \in 1 .. Threshold, ToolError(failures) PROVE EvidenceMatches'
  BY <1>0, <1>13 DEF ToolError, EvidenceMatches
<1> QED
  BY <1>1, <1>2, <1>3, <1>4, <1>8, <1>10, <1>11, <1>12, <1>13 DEF Run

\* The steps of a run keep the position and the budgets.
LEMMA RunPosition ==
  ASSUME CoordinatorInv, Run
  PROVE  PositionAllows'
<1>0. /\ plan \in Plans /\ next \in Nat \ {0} /\ calls \in Nat /\ iteration \in Nat
      /\ PositionAllows /\ outcome \in {"none", "returned", "raised"}
      /\ pc \in {"plan", "pause", "stop", "guard", "policy", "ask", "call", "record",
                 "error", "finish", "done"}
  BY DEF CoordinatorInv, TypeOK
<1> USE CoordinatorAssumption DEF PositionAllows, BudgetsHold, More, Tool
<1>1. ASSUME NEW p \in Plans, NEW exceeded \in BOOLEAN, MakePlan(p, exceeded) PROVE PositionAllows'
  BY <1>0, <1>1 DEF MakePlan
<1>2. CASE PlanNotPersisted \/ AskNotPersisted
  BY <1>0, <1>2 DEF PlanNotPersisted, AskNotPersisted, RaiseCritical
<1>3. ASSUME NEW fatalRecorded \in BOOLEAN, Raises(fatalRecorded) PROVE PositionAllows'
  BY <1>0, <1>3 DEF Raises
<1>4. CASE SkipJunk
  BY <1>0, <1>4 DEF SkipJunk
<1>5. CASE CheckPause
  <2>1. Tool \in Tools \ {Junk}
    BY <1>0, <1>5, PlanType DEF CheckPause
  <2> QED
    BY <1>0, <1>5, <2>1 DEF CheckPause
<1>6. CASE CheckStop
  BY <1>0, <1>6 DEF CheckStop
<1>7. CASE Guard
  BY <1>0, <1>7 DEF Guard, CanContinue
<1>8. ASSUME NEW d \in {"ALLOW", "REQUIRE_APPROVAL", "DENY"}, Decide(d) PROVE PositionAllows'
  <2>1. d = "ALLOW" => Tool \in Allowed
    BY <1>0, <1>8 DEF Decide, Decision, Tools
  <2> QED
    BY <1>0, <1>8, <2>1 DEF Decide
<1>9. CASE Ask \/ CallNotPersisted \/ EndOfPlan
  BY <1>0, <1>9 DEF Ask, CallNotPersisted, EndOfPlan
<1>10. ASSUME NEW ok \in BOOLEAN, CallTool(ok) PROVE PositionAllows'
  BY <1>0, <1>10 DEF CallTool
<1>11. CASE RecordCall
  BY <1>0, <1>11 DEF RecordCall
<1>12. ASSUME NEW failures \in 1 .. Threshold, ToolError(failures) PROVE PositionAllows'
  BY <1>0, <1>12 DEF ToolError
<1>13. CASE Finalize
  BY <1>0, <1>13 DEF Finalize
<1> QED
  BY <1>1, <1>2, <1>3, <1>4, <1>5, <1>6, <1>7, <1>8, <1>9, <1>10, <1>11, <1>12, <1>13 DEF Run

\* The steps of a run keep what the status says.
LEMMA RunStatus ==
  ASSUME CoordinatorInv, Run
  PROVE  StatusFollows'
<1>0. /\ plan \in Plans /\ next \in Nat \ {0} /\ calls \in Nat /\ bad \in Nat /\ good \in Nat
      /\ status \in Status /\ code \in Code
      /\ StatusFollows /\ PositionAllows /\ EvidenceMatches
  BY DEF CoordinatorInv, TypeOK
<1>a. \A k : k # "COMPLETED" /\ status' = k => ReasonMatchesStatus' \/ k = "FAILED"
  BY DEF ReasonMatchesStatus
<1> USE DEF StatusFollows, ReasonMatchesStatus, More
<1>1. ASSUME NEW p \in Plans, NEW exceeded \in BOOLEAN, MakePlan(p, exceeded) PROVE StatusFollows'
  BY <1>0, <1>1 DEF MakePlan, evidence
<1>2. CASE PlanNotPersisted \/ AskNotPersisted
  BY <1>0, <1>2 DEF PlanNotPersisted, AskNotPersisted, RaiseCritical, evidence
<1>3. ASSUME NEW fatalRecorded \in BOOLEAN, Raises(fatalRecorded) PROVE StatusFollows'
  BY <1>0, <1>3 DEF Raises, evidence
<1>4. CASE SkipJunk
  BY <1>0, <1>4 DEF SkipJunk, evidence
<1>5. CASE CheckPause
  BY <1>0, <1>5 DEF CheckPause, evidence
<1>6. CASE CheckStop
  BY <1>0, <1>6 DEF CheckStop, evidence
<1>7. CASE Guard
  BY <1>0, <1>7 DEF Guard, evidence
<1>8. ASSUME NEW d \in {"ALLOW", "REQUIRE_APPROVAL", "DENY"}, Decide(d) PROVE StatusFollows'
  BY <1>0, <1>8 DEF Decide, evidence
<1>9. CASE Ask \/ CallNotPersisted \/ EndOfPlan
  BY <1>0, <1>9 DEF Ask, CallNotPersisted, EndOfPlan, evidence
<1>10. ASSUME NEW ok \in BOOLEAN, CallTool(ok) PROVE StatusFollows'
  BY <1>0, <1>10 DEF CallTool
<1>11. CASE RecordCall
  BY <1>0, <1>11 DEF RecordCall
<1>12. ASSUME NEW failures \in 1 .. Threshold, ToolError(failures) PROVE StatusFollows'
  <2>1. bad' > 0
    <3>1. bad \in Nat /\ bad' = bad + 1
      BY <1>0, <1>12 DEF ToolError
    <3> QED
      BY <3>1
  <2>2. status' \in {status, "FAILED"} /\ code' = "tool_error" /\ pc = "error"
        /\ ((status' = "FAILED" /\ pc' = "finish") \/ (status' = status /\ pc' = "pause"))
    BY <1>12 DEF ToolError
  <2> QED
    BY <1>0, <2>1, <2>2
<1>13. CASE Finalize
  <2>1. CASE status \in {"PLANNING", "EXECUTING"} /\ Verified
    <3>a. pc = "finish" /\ ~More /\ good > 0 /\ bad = 0
      BY <1>0, <1>13, <2>1 DEF Finalize, Verified
    <3>b. code = ""
      <4>1. ~(bad > 0)
        BY <3>a
      <4> QED
        BY <1>0, <2>1, <4>1
    <3>c. Len(plan) \in Nat /\ DOMAIN plan = 1 .. Len(plan) /\ next \in Nat /\ ~(next <= Len(plan))
      <4>1. plan \in Plans /\ next \in Nat
        BY <1>0
      <4> QED
        BY <3>a, <4>1, PlanType, CoordinatorAssumption
    <3>1. {i \in DOMAIN plan : plan[i] # Junk} = Handled(next)
      BY <3>c DEF Handled
    <3>2. CompletedIsEarned'
      BY <1>0, <1>13, <2>1, <3>1, <3>a DEF Finalize, Verified, CompletedIsEarned, EvidenceMatches, evidence
    <3> QED
      BY <1>13, <2>1, <3>2, <3>b DEF Finalize, evidence
  <2>2. CASE status \in {"PLANNING", "EXECUTING"} /\ ~Verified
    BY <1>0, <1>13, <2>2 DEF Finalize, evidence
  <2>3. CASE status \notin {"PLANNING", "EXECUTING"}
    BY <1>0, <1>13, <2>3 DEF Finalize, evidence, Status
  <2> QED
    BY <2>1, <2>2, <2>3
<1> QED
  BY <1>1, <1>2, <1>3, <1>4, <1>5, <1>6, <1>7, <1>8, <1>9, <1>10, <1>11, <1>12, <1>13 DEF Run

\* Every step keeps the invariant.
LEMMA NextCoordinator == CoordinatorInv /\ [Next]_vars => CoordinatorInv'
<1> SUFFICES ASSUME CoordinatorInv, [Next]_vars PROVE CoordinatorInv'
  OBVIOUS
<1>1. CASE UNCHANGED vars
  <2>1. TypeOK'
    BY <1>1 DEF CoordinatorInv, TypeOK, vars, evidence, envVars, stops
  <2>2. EvidenceMatches'
    BY <1>1 DEF CoordinatorInv, EvidenceMatches, Handled, vars
  <2>3. PositionAllows'
    BY <1>1 DEF CoordinatorInv, PositionAllows, BudgetsHold, More, Tool, vars
  <2>4. StatusFollows'
    BY <1>1 DEF CoordinatorInv, StatusFollows, ReasonMatchesStatus, CompletedIsEarned, More, vars
  <2> QED
    BY <2>1, <2>2, <2>3, <2>4 DEF CoordinatorInv
<1>2. CASE Run
  BY <1>2, RunFlagTypes, RunOtherTypes, RunEvidence, RunPosition, RunStatus, TypeParts
  DEF CoordinatorInv
<1>3. CASE WallTimePasses \/ \E c \in {"none", "pause", "stop"} : Request(c)
  BY <1>3, EnvironmentCoordinator
<1> QED
  BY <1>1, <1>2, <1>3 DEF Next

\* A stop request resets the count; the check before every action sees it.
LEMMA NextStop == TypeOK /\ StopInv /\ [Next]_vars => StopInv'
<1> SUFFICES ASSUME TypeOK, StopInv, [Next]_vars PROVE StopInv'
  OBVIOUS
<1> USE DEF StopInv, StopLetsOneCallThrough
<1>1. CASE UNCHANGED vars
  BY <1>1 DEF vars
<1>2. CASE WallTimePasses
  BY <1>2 DEF WallTimePasses, stops
<1>3. ASSUME NEW c \in {"none", "pause", "stop"}, Request(c) PROVE StopInv'
  BY <1>3 DEF Request
<1>4. CASE PlanNotPersisted \/ AskNotPersisted \/ SkipJunk \/ Ask \/ RecordCall \/ CallNotPersisted
           \/ EndOfPlan \/ Finalize
  BY <1>4 DEF PlanNotPersisted, AskNotPersisted, RaiseCritical, SkipJunk, Ask, RecordCall,
              CallNotPersisted, EndOfPlan, Finalize, stops, envVars
<1>5. CASE CheckPause
  BY <1>5 DEF CheckPause, Sees, Misses, envVars
<1>6. CASE CheckStop
  BY <1>6 DEF CheckStop, Sees, Misses, envVars
<1>7. CASE Guard
  BY <1>7 DEF Guard, stops, envVars
<1>8. ASSUME NEW p \in Plans, NEW exceeded \in BOOLEAN, MakePlan(p, exceeded) PROVE StopInv'
  BY <1>8 DEF MakePlan, stops, envVars
<1>9. ASSUME NEW fatalRecorded \in BOOLEAN, Raises(fatalRecorded) PROVE StopInv'
  BY <1>9 DEF Raises, stops, envVars
<1>10. ASSUME NEW d \in {"ALLOW", "REQUIRE_APPROVAL", "DENY"}, Decide(d) PROVE StopInv'
  BY <1>10 DEF Decide, stops, envVars
<1>11. ASSUME NEW ok \in BOOLEAN, CallTool(ok) PROVE StopInv'
  BY <1>11 DEF CallTool, envVars
<1>12. ASSUME NEW failures \in 1 .. Threshold, ToolError(failures) PROVE StopInv'
  BY <1>12 DEF ToolError, stops, envVars
<1> QED
  BY <1>1, <1>2, <1>3, <1>4, <1>5, <1>6, <1>7, <1>8, <1>9, <1>10, <1>11, <1>12 DEF Next, Run

\* The coordinator's inductive invariant.
THEOREM CoordinatorInvariant == Spec => []CoordinatorInv
  BY InitCoordinator, NextCoordinator, PTL DEF Spec

\* A COMPLETED run called and recorded every action of its plan, no tool ran
\* that the policy denies or gates, no budget is overrun, a failure says why.
THEOREM RunEndIsEarned == Spec => []EndIsEarned
<1>1. CoordinatorInv => EndIsEarned
  <2> SUFFICES ASSUME CoordinatorInv PROVE EndIsEarned
    OBVIOUS
  <2>1. CompletedIsEarned
    BY DEF CoordinatorInv, StatusFollows, CompletedIsEarned
  <2> QED
    BY <2>1 DEF CoordinatorInv, EndIsEarned, EvidenceMatches, PositionAllows, StatusFollows,
                OnlyAllowedToolsRun
<1> QED
  BY <1>1, CoordinatorInvariant, PTL

\* A stop request whose reading does not fail lets at most one call start.
THEOREM StopIsSeen == Spec => []StopLetsOneCallThrough
<1>1. CoordinatorInv => TypeOK
  BY DEF CoordinatorInv
<1>2. StopInv => StopLetsOneCallThrough
  BY DEF StopInv
<1> QED
  BY <1>1, <1>2, InitCoordinator, NextStop, CoordinatorInvariant, PTL DEF Spec
-----------------------------------------------------------------------------
(***************************************************************************)
(* The transcript fold.                                                    *)
(***************************************************************************)

\* The fields of a folded contract, and what an update of them gives.
LEMMA ContractFields ==
  ASSUME NEW x \in FoldedContracts
  PROVE  /\ x.status \in {"proposed", "accepted", "locked"} \cup TERMINAL
         /\ x.offer \in Offers /\ x.rail_ref \in {"lock", Null}
         /\ x.payer \in Dids \cup {Null} /\ x.payee \in Dids \cup {Null}
         /\ x.contract \in Contracts \cup {Null} /\ x.statement \in Statements \cup {Null}
         /\ x.rail \in Rails \cup {Null} /\ x.secret \in Secrets \cup {Null}
  BY DEF FoldedContracts

LEMMA ContractStatus ==
  \A x \in FoldedContracts, s \in {"accepted", "locked"} \cup TERMINAL :
    [x EXCEPT !.status = s] \in FoldedContracts
  BY DEF FoldedContracts

LEMMA ContractAccepted ==
  \A x \in FoldedContracts, c \in Contracts, s \in Statements, p, q \in Dids \cup {Null} :
    [x EXCEPT !.status = "accepted", !.contract = c, !.statement = s, !.payer = p, !.payee = q]
      \in FoldedContracts
<1> SUFFICES ASSUME NEW x \in FoldedContracts, NEW c \in Contracts, NEW s \in Statements,
                    NEW p \in Dids \cup {Null}, NEW q \in Dids \cup {Null}
             PROVE  [x EXCEPT !.status = "accepted", !.contract = c, !.statement = s,
                              !.payer = p, !.payee = q] \in FoldedContracts
  OBVIOUS
<1>1. PICK y : y = [x EXCEPT !.contract = c, !.statement = s]
  OBVIOUS
<1>2. y \in FoldedContracts
  BY <1>1 DEF FoldedContracts
<1>3. PICK z : z = [y EXCEPT !.payer = p, !.payee = q]
  OBVIOUS
<1>4. z \in FoldedContracts
  BY <1>2, <1>3 DEF FoldedContracts
<1>5. [z EXCEPT !.status = "accepted"] \in FoldedContracts
  BY <1>4, ContractStatus
<1>6. [x EXCEPT !.status = "accepted", !.contract = c, !.statement = s, !.payer = p, !.payee = q]
        = [z EXCEPT !.status = "accepted"]
  BY <1>1, <1>3 DEF FoldedContracts
<1> QED
  BY <1>5, <1>6

LEMMA ContractLocked ==
  \A x \in FoldedContracts, r \in Rails :
    [x EXCEPT !.status = "locked", !.rail = r, !.rail_ref = "lock"] \in FoldedContracts
  BY DEF FoldedContracts

LEMMA ContractClaimed ==
  \A x \in FoldedContracts, s \in Secrets :
    [x EXCEPT !.status = "claimed", !.secret = s] \in FoldedContracts
  BY DEF FoldedContracts, TERMINAL

\* An offer opens a contract of its own.
LEMMA ContractOpened ==
  \A o \in Offers : /\ open_contract(o) \in FoldedContracts /\ open_contract(o).offer = o
                    /\ open_contract(o).status = "proposed" /\ open_contract(o).contract = Null
                    /\ open_contract(o).payer = IF o.role = "payer" THEN o.from ELSE Null
                    /\ open_contract(o).payee = IF o.role = "payee" THEN o.from ELSE Null
  BY DEF open_contract, FoldedContracts, Offers

\* A record changes the contract in one of these ways, or not at all.
Accepted(from, statement) ==
  /\ fdState.status = "proposed" /\ from # fdState.offer.from
  /\ fdState' = [fdState EXCEPT !.status = "accepted",
                                !.contract = contract_id(from, statement), !.statement = statement,
                                !.payer = IF fdState.offer.role = "payee" THEN from ELSE @,
                                !.payee = IF fdState.offer.role = "payee" THEN @ ELSE from]

Locked(rail) ==
  /\ fdState.status = "accepted" /\ rail_offered(fdState.offer.rails, rail)
  /\ fdState' = [fdState EXCEPT !.status = "locked", !.rail = rail, !.rail_ref = "lock"]

Claimed(secret) ==
  /\ fdState.status = "locked" /\ secret = fdState.statement
  /\ fdState' = [fdState EXCEPT !.status = "claimed", !.secret = secret]

Ended(before, ending) ==
  /\ fdState.status \in before
  /\ fdState' = [fdState EXCEPT !.status = ending]

LEMMA FoldSteps ==
  ASSUME FdNext
  PROVE  \/ UNCHANGED fdState
         \/ fdState.status = "none" /\ \E o \in Offers : fdState' = open_contract(o)
         \/ Opened /\ \/ \E d \in Dids, s \in Statements : Accepted(d, s)
                      \/ \E rail \in Rails : Locked(rail)
                      \/ \E s \in Secrets : Claimed(s)
                      \/ Ended({"locked"}, "refunded")
                      \/ Ended({"proposed", "accepted"}, "cancelled")
<1> DEFINE Goal ==
         \/ UNCHANGED fdState
         \/ fdState.status = "none" /\ \E o \in Offers : fdState' = open_contract(o)
         \/ Opened /\ \/ \E d \in Dids, s \in Statements : Accepted(d, s)
                      \/ \E rail \in Rails : Locked(rail)
                      \/ \E s \in Secrets : Claimed(s)
                      \/ Ended({"locked"}, "refunded")
                      \/ Ended({"proposed", "accepted"}, "cancelled")
<1>1. ASSUME BadRecord \/ RaiseOnFrame PROVE Goal
  BY <1>1 DEF BadRecord, Reject, RaiseOnFrame
<1>2. ASSUME NEW o \in Offers, NEW r, OfferRecord(o, r) PROVE Goal
  BY <1>2 DEF OfferRecord, Reject, Opened
<1>3. ASSUME NEW d \in Dids, NEW c, NEW t, NEW r, NEW this, NEW key, NEW s \in Statements,
             AcceptRecord(d, this, s, c, key, t, r)
      PROVE  Goal
  <2>1. Opened
    BY <1>3 DEF AcceptRecord, Apply
  <2>2. ASSUME ~UNCHANGED fdState PROVE Accepted(d, s)
    BY <1>3, <2>2 DEF AcceptRecord, Apply, Reject, Accepted
  <2> QED
    BY <2>1, <2>2
<1>4. ASSUME NEW d, NEW c, NEW rail \in Rails, NEW t, NEW r, LockRecord(d, c, rail, t, r)
      PROVE  Goal
  <2>1. Opened
    BY <1>4 DEF LockRecord, Apply
  <2>2. ASSUME ~UNCHANGED fdState PROVE Locked(rail)
    BY <1>4, <2>2 DEF LockRecord, Apply, Reject, Locked
  <2> QED
    BY <2>1, <2>2
<1>5. ASSUME NEW d, NEW c, NEW ref, NEW s \in Secrets, NEW t, NEW r,
             RevealRecord(d, c, ref, s, t, r)
      PROVE  Goal
  <2>1. Opened
    BY <1>5 DEF RevealRecord, Apply
  <2>2. ASSUME ~UNCHANGED fdState PROVE Claimed(s)
    BY <1>5, <2>2 DEF RevealRecord, Apply, Reject, Claimed, verify_hash_preimage
  <2> QED
    BY <2>1, <2>2
<1>6. ASSUME NEW d, NEW c, NEW ref, NEW t, NEW r, RefundRecord(d, c, ref, t, r) PROVE Goal
  <2>1. Opened
    BY <1>6 DEF RefundRecord, Apply
  <2>2. ASSUME ~UNCHANGED fdState PROVE Ended({"locked"}, "refunded")
    BY <1>6, <2>2 DEF RefundRecord, Apply, Reject, Ended
  <2> QED
    BY <2>1, <2>2
<1>7. ASSUME NEW d, NEW c, NEW r, CancelRecord(d, c, r) PROVE Goal
  <2>1. Opened
    BY <1>7 DEF CancelRecord, Apply
  <2>2. ASSUME ~UNCHANGED fdState PROVE Ended({"proposed", "accepted"}, "cancelled")
    BY <1>7, <2>2 DEF CancelRecord, Apply, Reject, Ended
  <2> QED
    BY <2>1, <2>2
<1>8. ASSUME NEW d, NEW c, NEW o, NEW rail, NEW ref, NEW r,
             HeartbeatRecord(d, c, r) \/ ReceiptRecord(d, c, o, rail, ref, r)
      PROVE  Goal
  BY <1>8 DEF HeartbeatRecord, ReceiptRecord, Apply, Reject
<1> HIDE DEF Goal
<1>9. Goal
  BY <1>1, <1>2, <1>3, <1>4, <1>5, <1>6, <1>7, <1>8 DEF FdNext
<1> QED
  BY <1>9 DEF Goal

\* What the sides are before the accept.
LEMMA ProposedSides ==
  ASSUME FoldInv, fdState.status = "proposed"
  PROVE  /\ fdState \in FoldedContracts /\ fdState.contract = Null
         /\ fdState.offer \in Offers /\ fdState.offer.from \in Dids
         /\ fdState.offer.role \in {"payer", "payee"} /\ fdState.offer.from # Null
         /\ fdState.payer = IF fdState.offer.role = "payer" THEN fdState.offer.from ELSE Null
         /\ fdState.payee = IF fdState.offer.role = "payee" THEN fdState.offer.from ELSE Null
<1>1. fdState \in FoldedContracts
  BY DEF FoldInv, Unopened
<1>2. fdState.offer \in Offers
  BY <1>1, ContractFields
<1>3. fdState.offer.from \in Dids /\ fdState.offer.role \in {"payer", "payee"}
  BY <1>2 DEF Offers
<1>4. fdState = open_contract(fdState.offer)
  BY DEF FoldInv
<1> QED
  BY <1>1, <1>2, <1>3, <1>4, ContractOpened, FoldAssumption

\* What an accept makes of the contract.
LEMMA AcceptedContract ==
  ASSUME FoldInv, NEW d \in Dids, NEW s \in Statements, Accepted(d, s)
  PROVE  /\ fdState' \in FoldedContracts /\ fdState'.status = "accepted"
         /\ fdState'.contract = contract_id(d, s) /\ fdState'.contract # Null
         /\ fdState'.statement = s /\ fdState'.offer = fdState.offer
         /\ fdState'.payer = IF fdState.offer.role = "payee" THEN d ELSE fdState.payer
         /\ fdState'.payee = IF fdState.offer.role = "payee" THEN fdState.payee ELSE d
         /\ d # fdState.offer.from
<1>1. fdState \in FoldedContracts
  BY ProposedSides DEF Accepted
<1>2. contract_id(d, s) \in Contracts /\ contract_id(d, s) # Null
  BY FoldAssumption DEF contract_id, Contracts, Statements
<1>3. fdState.payer \in Dids \cup {Null} /\ fdState.payee \in Dids \cup {Null}
  BY <1>1, ContractFields
<1>4. fdState' = [fdState EXCEPT !.status = "accepted", !.contract = contract_id(d, s),
                    !.statement = s,
                    !.payer = IF fdState.offer.role = "payee" THEN d ELSE fdState.payer,
                    !.payee = IF fdState.offer.role = "payee" THEN fdState.payee ELSE d]
  BY DEF Accepted
<1>5. fdState' \in FoldedContracts
  BY <1>1, <1>2, <1>3, <1>4, ContractAccepted
<1>6. /\ fdState'.status = "accepted" /\ fdState'.contract = contract_id(d, s)
      /\ fdState'.statement = s /\ fdState'.offer = fdState.offer
      /\ fdState'.payer = IF fdState.offer.role = "payee" THEN d ELSE fdState.payer
      /\ fdState'.payee = IF fdState.offer.role = "payee" THEN fdState.payee ELSE d
  BY <1>1, <1>4 DEF FoldedContracts
<1> QED
  BY <1>2, <1>5, <1>6 DEF Accepted

\* The initial state.
LEMMA FoldInit == FdInit => FoldInv /\ Deal!EscrowInit
  BY DEF FdInit, FoldInv, Unopened, ContractIsWhole, Opened, Deal!EscrowInit

\* Every record keeps the contract whole.
LEMMA FoldStep == FoldInv /\ [FdNext]_fdVars => FoldInv'
<1> SUFFICES ASSUME FoldInv, [FdNext]_fdVars PROVE FoldInv'
  OBVIOUS
<1>1. CASE UNCHANGED fdState
  BY <1>1 DEF FoldInv, ContractIsWhole, Opened
<1>2. ASSUME NEW o \in Offers, fdState' = open_contract(o) PROVE FoldInv'
  BY <1>2, ContractOpened DEF FoldInv, ContractIsWhole, Opened
<1>3. ASSUME NEW d \in Dids, NEW s \in Statements, Accepted(d, s) PROVE FoldInv'
  <2>1. /\ {fdState'.payer, fdState'.payee} \subseteq Dids /\ fdState'.payer # fdState'.payee
        /\ fdState'.contract \in {contract_id(e, fdState'.statement) :
                                    e \in {fdState'.payer, fdState'.payee} \ {fdState'.offer.from}}
    <3>1. fdState.status = "proposed"
      BY <1>3 DEF Accepted
    <3>2. CASE fdState.offer.role = "payer"
      <4>1. fdState'.payer = fdState.offer.from /\ fdState'.payee = d
        BY <1>3, <3>1, <3>2, AcceptedContract, ProposedSides
      <4> QED
        BY <1>3, <3>1, <4>1, AcceptedContract, ProposedSides
    <3>3. CASE fdState.offer.role = "payee"
      <4>1. fdState'.payer = d /\ fdState'.payee = fdState.offer.from
        BY <1>3, <3>1, <3>3, AcceptedContract, ProposedSides
      <4> QED
        BY <1>3, <3>1, <4>1, AcceptedContract, ProposedSides
    <3> QED
      BY <3>1, <3>2, <3>3, ProposedSides
  <2> QED
    BY <1>3, <2>1, AcceptedContract DEF FoldInv, ContractIsWhole
<1>4. ASSUME Opened PROVE fdState \in FoldedContracts
  BY <1>4 DEF FoldInv, Opened, Unopened
<1>5. ASSUME NEW rail \in Rails, Opened, Locked(rail) PROVE FoldInv'
  <2>1. fdState' \in FoldedContracts
    BY <1>4, <1>5, ContractLocked DEF Locked
  <2>2. /\ fdState'.status = "locked" /\ fdState'.rail = rail /\ fdState'.offer = fdState.offer
        /\ fdState'.contract = fdState.contract /\ fdState'.statement = fdState.statement
        /\ fdState'.payer = fdState.payer /\ fdState'.payee = fdState.payee
    BY <1>4, <1>5 DEF Locked, FoldedContracts
  <2> QED
    BY <1>5, <2>1, <2>2 DEF FoldInv, ContractIsWhole, Locked, Opened
<1>6. ASSUME NEW s \in Secrets, Opened, Claimed(s) PROVE FoldInv'
  <2>1. fdState' \in FoldedContracts
    BY <1>4, <1>6, ContractClaimed DEF Claimed
  <2>2. /\ fdState'.status = "claimed" /\ fdState'.rail = fdState.rail /\ fdState'.secret = s
        /\ fdState'.offer = fdState.offer
        /\ fdState'.contract = fdState.contract /\ fdState'.statement = fdState.statement
        /\ fdState'.payer = fdState.payer /\ fdState'.payee = fdState.payee
    BY <1>4, <1>6 DEF Claimed, FoldedContracts
  <2> QED
    BY <1>6, <2>1, <2>2 DEF FoldInv, ContractIsWhole, Claimed, Opened
<1>7. ASSUME NEW before, NEW ending \in {"refunded", "cancelled"}, Opened, Ended(before, ending),
             ending = "refunded" => fdState.status = "locked"
      PROVE  FoldInv'
  <2>1. fdState' \in FoldedContracts
    BY <1>4, <1>7, ContractStatus DEF Ended, TERMINAL
  <2>2. /\ fdState'.status = ending /\ fdState'.rail = fdState.rail
        /\ fdState'.offer = fdState.offer
        /\ fdState'.contract = fdState.contract /\ fdState'.statement = fdState.statement
        /\ fdState'.payer = fdState.payer /\ fdState'.payee = fdState.payee
    BY <1>4, <1>7 DEF Ended, FoldedContracts
  <2> QED
    BY <1>7, <2>1, <2>2 DEF FoldInv, ContractIsWhole, Opened
<1> QED
  BY <1>1, <1>2, <1>3, <1>5, <1>6, <1>7, FoldSteps DEF fdVars, Ended

\* Every record is a step of the deal, or none.
LEMMA FoldRefines == FoldInv /\ [FdNext]_fdVars => [Deal!EscrowNext]_(Deal!escrowVars)
<1> SUFFICES ASSUME FoldInv, [FdNext]_fdVars PROVE [Deal!EscrowNext]_(Deal!escrowVars)
  OBVIOUS
<1>1. CASE UNCHANGED fdState
  BY <1>1 DEF Deal!escrowVars, Opened
<1>2. ASSUME NEW o \in Offers, fdState.status = "none", fdState' = open_contract(o)
      PROVE  Deal!EscrowNext
  <2>1. o.from \in Dids /\ o.role \in {"payer", "payee"}
    BY DEF Offers
  <2>2. Deal!Propose
    BY <1>2, <2>1, ContractOpened DEF Deal!Propose, Opened
  <2> QED
    BY <2>2 DEF Deal!EscrowNext
<1>3. ASSUME NEW d \in Dids, NEW s \in Statements, Accepted(d, s) PROVE Deal!EscrowNext
  <2>1. Deal!Agree
    <3>1. fdState.status = "proposed" /\ fdState'.status = "accepted"
      BY <1>3, AcceptedContract DEF Accepted
    <3>2. CASE fdState.offer.role = "payer"
      BY <1>3, <3>1, <3>2, AcceptedContract, ProposedSides DEF Deal!Agree, Opened
    <3>3. CASE fdState.offer.role = "payee"
      BY <1>3, <3>1, <3>3, AcceptedContract, ProposedSides DEF Deal!Agree, Opened
    <3> QED
      BY <3>1, <3>2, <3>3, ProposedSides
  <2> QED
    BY <2>1 DEF Deal!EscrowNext
<1>4. ASSUME Opened PROVE fdState \in FoldedContracts
  BY <1>4 DEF FoldInv, Opened, Unopened
<1>5. ASSUME NEW rail \in Rails, Opened, Locked(rail) PROVE Deal!EscrowNext
  <2>1. fdState'.status = "locked" /\ fdState'.payer = fdState.payer /\ fdState'.payee = fdState.payee
    BY <1>4, <1>5 DEF Locked, FoldedContracts
  <2>2. Deal!Fund
    BY <1>5, <2>1 DEF Locked, Deal!Fund, Opened
  <2> QED
    BY <2>2 DEF Deal!EscrowNext
<1>6. ASSUME NEW s \in Secrets, Opened, Claimed(s) PROVE Deal!EscrowNext
  <2>1. fdState'.status = "claimed" /\ fdState'.payer = fdState.payer /\ fdState'.payee = fdState.payee
    BY <1>4, <1>6 DEF Claimed, FoldedContracts
  <2>2. Deal!Settle
    BY <1>6, <2>1 DEF Claimed, Deal!Settle, Opened
  <2> QED
    BY <2>2 DEF Deal!EscrowNext
<1>7. ASSUME Opened, Ended({"locked"}, "refunded") PROVE Deal!EscrowNext
  <2>1. fdState'.status = "refunded" /\ fdState'.payer = fdState.payer /\ fdState'.payee = fdState.payee
    BY <1>4, <1>7 DEF Ended, FoldedContracts
  <2>2. Deal!Settle
    BY <1>7, <2>1 DEF Ended, Deal!Settle, Opened
  <2> QED
    BY <2>2 DEF Deal!EscrowNext
<1>8. ASSUME Opened, Ended({"proposed", "accepted"}, "cancelled") PROVE Deal!EscrowNext
  <2>1. fdState'.status = "cancelled" /\ fdState'.payer = fdState.payer /\ fdState'.payee = fdState.payee
    BY <1>4, <1>8 DEF Ended, FoldedContracts
  <2>2. Deal!Abandon
    BY <1>8, <2>1 DEF Ended, Deal!Abandon, Opened
  <2> QED
    BY <2>2 DEF Deal!EscrowNext
<1> QED
  BY <1>1, <1>2, <1>3, <1>5, <1>6, <1>7, <1>8, FoldSteps DEF fdVars

\* Whatever records the rooms hold, in whatever order, the folded contract is
\* whole at every record and moves as a hash-locked deal does: two parties, one
\* lock, one settlement, no side changing hands.
THEOREM FoldImplementsEscrow == FdSpec => FoldIsEscrow
<1>1. FoldInv => ContractIsWhole
  BY DEF FoldInv
<1> QED
  BY <1>1, FoldInit, FoldStep, FoldRefines, PTL DEF FdSpec, FoldIsEscrow, Deal!EscrowSpec
-----------------------------------------------------------------------------
(***************************************************************************)
(* The gates in front of an accept (OfferGate).                            *)
(***************************************************************************)

\* The frame and the settings are what the market and the operator may send.
OgTypeOK == ogFrame \in Frames \cup {NoField} /\ ogPolicy \in Policies

LEMMA OgTyping == OgSpec => []OgTypeOK
<1>1. OgInit => OgTypeOK
  BY DEF OgInit, OgTypeOK
<1>2. OgTypeOK /\ [OgNext]_ogVars => OgTypeOK'
  BY DEF OgTypeOK, OgNext, LookAt, ogVars
<1> QED
  BY <1>1, <1>2, PTL DEF OgSpec

\* An offer that the audit accepts fails none of its eleven checks.
LEMMA AcceptFailsNoCheck ==
  ASSUME NEW f, NEW p, audit_offer(f, p).decision = "accept"
  PROVE  /\ \A i \in 1 .. 11 : ~audit_checks(f, p)[i].fails
         /\ audit_offer(f, p).risk = IF offer_spec(f) = NoField THEN "watch" ELSE "safe"
<1> DEFINE checks == audit_checks(f, p)
           failing == {i \in DOMAIN checks : checks[i].fails}
           first == CHOOSE i \in failing : \A j \in failing : i <= j
<1>1. audit_offer(f, p) =
        IF failing = {}
        THEN [decision |-> "accept", risk |-> IF offer_spec(f) = NoField THEN "watch" ELSE "safe"]
        ELSE [decision |-> "skip", risk |-> checks[first].risk]
  BY Zenon DEF audit_offer
<1> HIDE DEF failing, first, checks
<1>2. failing = {}
  BY <1>1
<1>3. DOMAIN checks = 1 .. 11
  BY DEF checks, audit_checks
<1>4. \A i \in 1 .. 11 : ~checks[i].fails
  BY <1>2, <1>3 DEF failing
<1> QED
  BY <1>1, <1>2, <1>4 DEF checks

\* What the checks look at, one by one.
LEMMA PassesChecks ==
  ASSUME NEW f, NEW p, \A i \in 1 .. 11 : ~audit_checks(f, p)[i].fails
  PROVE  /\ f.kind = "offer" /\ f.signed /\ p.rails # {}
         /\ ~NoRailFits(f, p) /\ f.role # "payee" /\ ~BadAmount(f)
         /\ ~offer_expired(f) /\ ~TooHard(f, p) /\ p.patterns
         /\ offer_spec(f) # "other" /\ (offer_spec(f) # NoField \/ p.specless)
<1> DEFINE checks == audit_checks(f, p)
<1>1. /\ checks[1].fails = (f.kind # "offer")
      /\ checks[2].fails = (~f.signed)
      /\ checks[3].fails = (p.rails = {})
      /\ checks[4].fails = NoRailFits(f, p)
      /\ checks[5].fails = (f.role = "payee")
      /\ checks[6].fails = BadAmount(f)
  BY DEF audit_checks, Check
<1>2. /\ checks[7].fails = offer_expired(f)
      /\ checks[8].fails = TooHard(f, p)
      /\ checks[9].fails = (~p.patterns)
      /\ checks[10].fails = (offer_spec(f) = "other")
      /\ checks[11].fails = (offer_spec(f) = NoField /\ ~p.specless)
  BY DEF audit_checks, Check
<1>3. /\ ~checks[1].fails /\ ~checks[2].fails /\ ~checks[3].fails /\ ~checks[4].fails
      /\ ~checks[5].fails /\ ~checks[6].fails /\ ~checks[7].fails /\ ~checks[8].fails
      /\ ~checks[9].fails /\ ~checks[10].fails /\ ~checks[11].fails
  OBVIOUS
<1> HIDE DEF checks
<1> QED
  BY <1>1, <1>2, <1>3

\* Under the ceiling "safe", the risk of an offer without a brief is too high.
LEMMA WatchIsNotSafe == ~risk_ok("watch", "safe")
<1>1. /\ 1 \in DOMAIN RISK_ORDER /\ 2 \in DOMAIN RISK_ORDER
      /\ RISK_ORDER[1] = "safe" /\ RISK_ORDER[2] = "watch"
  BY DEF RISK_ORDER
<1>2. ~(2 <= 1)
  OBVIOUS
<1> QED
  BY <1>1, <1>2 DEF risk_ok

\* CommitmentIsGated, for every frame and every setting: what audit_offer lets
\* the agent commit to under its ceiling also passes offer_allows, is no offer
\* that names it as the payer, and has a brief or the operator's word for one
\* without.  Of an offer that names no side nothing more follows.
THEOREM CommitmentPassesBothGates == OgSpec => []CommitmentIsGated
<1>1. OgTypeOK => CommitmentIsGated
  <2> SUFFICES ASSUME OgTypeOK, ogFrame # NoField, Committed(ogFrame, ogPolicy)
               PROVE  /\ offer_allows(ogFrame, ogPolicy)
                      /\ ogFrame.role # "payee" /\ ogFrame.expires # "past"
                      /\ ogFrame.spec = NoField => ogPolicy.specless /\ ogPolicy.tier # "safe"
    BY DEF CommitmentIsGated
  <2> DEFINE f == ogFrame
             p == ogPolicy
  <2>1. f \in Frames /\ p \in Policies
    BY DEF OgTypeOK
  <2>2. /\ \A i \in 1 .. 11 : ~audit_checks(f, p)[i].fails
        /\ audit_offer(f, p).risk = IF offer_spec(f) = NoField THEN "watch" ELSE "safe"
    BY AcceptFailsNoCheck DEF Committed
  <2>3. /\ f.kind = "offer" /\ f.signed /\ p.rails # {}
        /\ ~NoRailFits(f, p) /\ f.role # "payee" /\ ~BadAmount(f)
        /\ ~offer_expired(f) /\ ~TooHard(f, p) /\ p.patterns
        /\ offer_spec(f) # "other" /\ (offer_spec(f) # NoField \/ p.specless)
    BY <2>2, PassesChecks
  <2>4. offer_spec(f) = f.spec
    BY <2>3 DEF offer_spec
  <2>5. f.role # "payee" /\ f.spec \in {NoField, "known", "other"}
    BY <2>1, <2>3 DEF Frames
  <2>6. offer_allows(f, p)
    BY <2>3, <2>4, <2>5 DEF offer_allows
  <2>7. f.expires # "past"
    BY <2>3 DEF offer_expired
  <2>8. f.spec = NoField => p.specless /\ p.tier # "safe"
    <3>1. f.spec = NoField => risk_ok("watch", p.tier)
      BY <2>2, <2>4 DEF Committed
    <3> QED
      BY <3>1, <2>3, <2>4, WatchIsNotSafe
  <2> QED
    BY <2>5, <2>6, <2>7, <2>8
<1> QED
  BY <1>1, OgTyping, PTL
-----------------------------------------------------------------------------
(***************************************************************************)
(* The message evaluator (Evaluator).                                      *)
(***************************************************************************)

\* The larger of two numbers, as Max picks it.
LEMMA MaxOfTwo ==
  ASSUME NEW a \in Int, NEW b \in Int
  PROVE  /\ Max({a, b}) \in {a, b} /\ Max({a, b}) \in Int
         /\ Max({a, b}) >= a /\ Max({a, b}) >= b
<1>1. \E x \in {a, b} : \A y \in {a, b} : x >= y
  <2>1. CASE a >= b
    BY <2>1
  <2>2. CASE b >= a
    BY <2>2
  <2> QED
    BY <2>1, <2>2
<1>2. Max({a, b}) \in {a, b} /\ \A y \in {a, b} : Max({a, b}) >= y
  BY <1>1, Zenon DEF Max
<1> QED
  BY <1>2

\* A set of scores has a largest, and Max picks it.
LEMMA MaxOfScores ==
  ASSUME NEW S \in SUBSET (0 .. 100), S # {}
  PROVE  Max(S) \in S /\ Max(S) \in Int /\ \A x \in S : Max(S) >= x
<1> DEFINE T == {100 - x : x \in S}
<1>1. T \subseteq Nat /\ T # {}
  <2>1. PICK x \in S : TRUE
    OBVIOUS
  <2>2. 100 - x \in T
    OBVIOUS
  <2>3. T \subseteq Nat
    OBVIOUS
  <2> QED
    BY <2>2, <2>3
<1>2. \E x \in T : \A y \in T : ~(<<y, x>> \in OpToRel(<, Nat))
  BY <1>1, NatLessThanWellFounded, WFMin, Zenon
<1>3. PICK n \in T : \A y \in T : ~(<<y, n>> \in OpToRel(<, Nat))
  BY <1>2
<1>4. \A y \in T : ~(y < n)
  BY <1>1, <1>3 DEF OpToRel
<1>5. \E z \in S : \A y \in S : z >= y
  <2>1. PICK z \in S : n = 100 - z
    OBVIOUS
  <2>2. \A y \in S : ~(100 - y < n)
    BY <1>4
  <2> QED
    BY <2>1, <2>2
<1>6. Max(S) \in S /\ \A x \in S : Max(S) >= x
  BY <1>5, Zenon DEF Max
<1>7. S \subseteq Int
  OBVIOUS
<1> QED
  BY <1>6, <1>7, Zenon

\* The tier is read from the score.
LEMMA TierOfScore == \A score \in Int : tier_from_score(score) \in Tiers
  BY DEF tier_from_score, Tiers, SAFE, WATCH, RISKY, DANGEROUS

\* The likeliest tier of a table exists and is the likeliest.
LEMMA TopTier ==
  ASSUME NEW probs \in [Tiers -> Int]
  PROVE  top_tier(probs) \in Tiers /\ \A t \in Tiers : probs[t] <= probs[top_tier(probs)]
<1> DEFINE best == {t \in Tiers : \A u \in Tiers : probs[u] <= probs[t]}
<1>1. Tiers = {0, 1, 2, 3}
  BY DEF Tiers
<1>2. probs[0] \in Int /\ probs[1] \in Int /\ probs[2] \in Int /\ probs[3] \in Int
  BY <1>1
<1>3. \E t \in {0, 1, 2, 3} : probs[0] <= probs[t] /\ probs[1] <= probs[t] /\ probs[2] <= probs[t] /\ probs[3] <= probs[t]
  BY <1>2
<1>4. best # {} /\ best \in SUBSET {0, 1, 2, 3}
  BY <1>1, <1>3
<1> HIDE DEF best
<1>5. \E x \in best : \A y \in best : x >= y
  <2>1. CASE 3 \in best
    BY <1>4, <2>1
  <2>2. CASE 3 \notin best /\ 2 \in best
    BY <1>4, <2>2
  <2>3. CASE 3 \notin best /\ 2 \notin best /\ 1 \in best
    BY <1>4, <2>3
  <2>4. CASE 3 \notin best /\ 2 \notin best /\ 1 \notin best
    <3>1. best \in SUBSET {0} /\ 0 \in best
      BY <1>4, <2>4
    <3> QED
      BY <3>1
  <2> QED
    BY <2>1, <2>2, <2>3, <2>4
<1>6. Max(best) \in best
  BY <1>5, Zenon DEF Max
<1>7. top_tier(probs) = Max(best)
  BY DEF top_tier, best
<1> QED
  BY <1>6, <1>7 DEF best

\* A table made for a tier has most of its mass there from a third on.
LEMMA ProbsForTier ==
  ASSUME NEW tier \in Tiers, NEW conf \in Nat
  PROVE  /\ probs_for_tier(tier, conf) \in [Tiers -> Int]
         /\ conf >= 7000 => \A t \in Tiers : probs_for_tier(tier, conf)[t] <= probs_for_tier(tier, conf)[tier]
<1>1. (2 * (Full - conf) + 3) \div 6 \in Int /\ (conf >= 7000 => (2 * (Full - conf) + 3) \div 6 <= conf)
  BY DEF Full
<1> QED
  BY <1>1 DEF probs_for_tier

LEMMA TotalIsTyped ==
  ASSUME NEW table \in [Tiers -> Nat]
  PROVE  Total(table) \in Nat
<1>1. table[SAFE] \in Nat /\ table[WATCH] \in Nat /\ table[RISKY] \in Nat /\ table[DANGEROUS] \in Nat
  BY DEF Tiers, SAFE, WATCH, RISKY, DANGEROUS
<1> QED
  BY <1>1 DEF Total

LEMMA NormalizedIsTyped ==
  ASSUME NEW table \in [Tiers -> Nat], ~(Total(table) <= 0)
  PROVE  Normalized(table) \in [Tiers -> Int]
<1>1. Total(table) \in Nat /\ Total(table) > 0
  BY TotalIsTyped
<1>2. ASSUME NEW t \in Tiers PROVE (2 * table[t] * Full + Total(table)) \div (2 * Total(table)) \in Int
  <2>1. 2 * table[t] * Full + Total(table) \in Int /\ 2 * Total(table) \in Nat \ {0}
    BY <1>1 DEF Full
  <2> QED
    BY <2>1
<1> QED
  BY <1>2 DEF Normalized

LEMMA NormalizeIsTyped ==
  ASSUME NEW table \in Tables, NEW tier
  PROVE  normalize_probabilities(table, tier) \in [Tiers -> Int]
<1>1. AllOn(tier) \in [Tiers -> Int]
  BY DEF AllOn, Full
<1>2. ~(table = NoTable \/ Total(table) <= 0) => Normalized(table) \in [Tiers -> Int]
  BY EvaluatorAssumption, NormalizedIsTyped DEF Tiers
<1> QED
  BY <1>1, <1>2 DEF normalize_probabilities

\* The patterns' evaluation.
LEMMA HeuristicIsSound ==
  ASSUME NEW hits \in SUBSET HitScores, NEW long \in BOOLEAN
  PROVE  Sound(heuristic_evaluate(hits, long))
<1> DEFINE scores == hits \cup {10} \cup (IF long THEN {25} ELSE {})
           score == Max(scores)
<1>1. ASSUME NEW tier \in Tiers, NEW n \in Int, NEW conf \in Nat, conf >= 7000
      PROVE  Sound(Evaluation(tier, n, probs_for_tier(tier, conf), conf))
  BY <1>1, ProbsForTier DEF Sound, Evaluation, Evaluations, MostMass
<1>2. scores \in SUBSET (0 .. 100) /\ scores # {}
  BY EvaluatorAssumption
<1>3. score \in Int
  <2> HIDE DEF scores
  <2> QED
    BY <1>2, MaxOfScores
<1>4. tier_from_score(score) \in Tiers /\ SAFE \in Tiers
  BY <1>3, TierOfScore DEF SAFE, Tiers
<1>5. heuristic_evaluate(hits, long) =
        IF hits = {} /\ ~long
        THEN Evaluation(SAFE, 10, probs_for_tier(SAFE, 9000), 9000)
        ELSE Evaluation(tier_from_score(score), score, probs_for_tier(tier_from_score(score), 8000), 8000)
  BY DEF heuristic_evaluate
<1> HIDE DEF score
<1> QED
  BY <1>1, <1>3, <1>4, <1>5

\* The chat model's evaluation.
LEMMA LlmIsSound ==
  ASSUME NEW score \in HitScores \cup {10}, NEW declared, NEW table \in Tables
  PROVE  Sound(normalize_llm_result(score, declared, table))
<1> DEFINE fallback == IF declared = NoTier THEN tier_from_score(score) ELSE declared
           probs == normalize_probabilities(table, fallback)
           tier == top_tier(probs)
<1>1. normalize_llm_result(score, declared, table) = Evaluation(tier, score, probs, probs[tier])
  BY DEF normalize_llm_result
<1>2. probs \in [Tiers -> Int]
  BY NormalizeIsTyped
<1>3. score \in Int
  BY EvaluatorAssumption
<1> HIDE DEF probs
<1>4. tier \in Tiers /\ \A t \in Tiers : probs[t] <= probs[tier]
  BY <1>2, TopTier
<1>5. probs[tier] \in Int
  BY <1>2, <1>4
<1> HIDE DEF tier
<1> QED
  BY <1>1, <1>2, <1>3, <1>4, <1>5 DEF Sound, Evaluation, Evaluations, MostMass

\* Jev's evaluation.
LEMMA JevIsSound ==
  ASSUME NEW choice \in Tiers \cup {NoTier}, NEW confidence \in Confidences, NEW table \in Tables,
         NEW injection \in Signals, NEW technical \in Signals
  PROVE  Sound(jev_evaluate(choice, confidence, table, injection, technical))
<1> DEFINE conf == choice_confidence(choice, confidence, table)
           floor == jev_floor(injection, technical)
           tier == conservative_pick(IF choice = NoTier THEN SAFE ELSE choice, floor)
           score == Max({tier_score(tier), IF injection >= 9000 THEN 80 ELSE 0})
           sure == Max({conf, IF injection >= 9000 THEN injection ELSE 0})
           probs == served_probs(table, tier, conf)
<1>1. jev_evaluate(choice, confidence, table, injection, technical) = Evaluation(tier, score, probs, sure)
  BY DEF jev_evaluate
<1>2. table = NoTable \/ table \in [Tiers -> Nat]
  BY EvaluatorAssumption DEF Tiers
<1>3. conf \in Nat
  BY <1>2, EvaluatorAssumption DEF choice_confidence, NoTier
<1>4. floor \in Tiers
  BY DEF jev_floor, Tiers, SAFE, RISKY, DANGEROUS
<1>5. tier \in Tiers
  <2> HIDE DEF floor
  <2> QED
    BY <1>4 DEF conservative_pick, Tiers, SAFE
<1> HIDE DEF conf, floor, tier
<1>6. score \in Int
  <2> DEFINE a == tier_score(tier)
             b == IF injection >= 9000 THEN 80 ELSE 0
  <2>1. a \in Int /\ b \in Int
    BY <1>5 DEF tier_score, Tiers
  <2> HIDE DEF a, b
  <2>2. Max({a, b}) \in Int
    BY <2>1, MaxOfTwo
  <2> QED
    BY <2>2 DEF a, b
<1>7. sure \in Int
  <2> DEFINE b == IF injection >= 9000 THEN injection ELSE 0
  <2>1. b \in Int
    BY EvaluatorAssumption
  <2> HIDE DEF b
  <2>2. conf \in Int
    BY <1>3
  <2>3. Max({conf, b}) \in Int
    BY <2>1, <2>2, MaxOfTwo
  <2> QED
    BY <2>3 DEF b
<1>8. probs \in [Tiers -> Int] /\ \A t \in Tiers : probs[t] <= probs[tier]
  <2> DEFINE given == IF table = NoTable \/ Total(table) <= 0
                      THEN probs_for_tier(tier, IF conf = 0 THEN 7000 ELSE conf)
                      ELSE Normalized(table)
             made == probs_for_tier(tier, Max({conf, 7000}))
  <2>1. probs = IF \E t \in Tiers : given[t] > given[tier] THEN made ELSE given
    BY DEF served_probs
  <2>2. given \in [Tiers -> Int]
    <3>1. CASE table = NoTable \/ Total(table) <= 0
      BY <1>3, <1>5, <3>1, ProbsForTier
    <3>2. CASE ~(table = NoTable \/ Total(table) <= 0)
      BY <1>2, <3>2, NormalizedIsTyped
    <3> QED
      BY <3>1, <3>2
  <2>3. made \in [Tiers -> Int] /\ \A t \in Tiers : made[t] <= made[tier]
    <3> DEFINE most == Max({conf, 7000})
    <3>1. conf \in Int /\ 7000 \in Int
      BY <1>3
    <3>2. most \in Int /\ most >= 7000
      <4>1. Max({conf, 7000}) \in Int /\ Max({conf, 7000}) >= 7000
        BY <3>1, MaxOfTwo
      <4> QED
        BY <4>1
    <3> HIDE DEF most
    <3>3. most \in Nat
      BY <3>2
    <3>4. /\ probs_for_tier(tier, most) \in [Tiers -> Int]
          /\ \A t \in Tiers : probs_for_tier(tier, most)[t] <= probs_for_tier(tier, most)[tier]
      BY <1>5, <3>2, <3>3, ProbsForTier
    <3> QED
      BY <3>4 DEF most
  <2> HIDE DEF given, made, probs
  <2>4. CASE \E t \in Tiers : given[t] > given[tier]
    BY <2>1, <2>3, <2>4
  <2>5. CASE ~\E t \in Tiers : given[t] > given[tier]
    <3>1. \A t \in Tiers : given[t] \in Int /\ ~(given[t] > given[tier])
      BY <2>2, <2>5
    <3>2. \A t \in Tiers : given[t] <= given[tier]
      BY <1>5, <3>1
    <3> QED
      BY <2>1, <2>2, <2>5, <3>2
  <2> QED
    BY <2>4, <2>5
<1> HIDE DEF score, sure, probs
<1> QED
  BY <1>1, <1>5, <1>6, <1>7, <1>8 DEF Sound, Evaluation, Evaluations, MostMass

\* Merging keeps the riskier evaluation, and the higher score.
LEMMA MergeIsSound ==
  ASSUME NEW a, NEW b, Sound(a), Sound(b)
  PROVE  /\ Sound(merge_conservative(a, b))
         /\ merge_conservative(a, b).tier >= a.tier /\ merge_conservative(a, b).tier >= b.tier
         /\ merge_conservative(a, b).score >= a.score
<1> DEFINE tier == conservative_pick(a.tier, b.tier)
           winner == IF tier = a.tier THEN a ELSE b
           score == Max({a.score, b.score})
           conf == Max({a.confidence, b.confidence})
<1>1. merge_conservative(a, b) = Evaluation(tier, score, winner.probs, conf)
  BY DEF merge_conservative
<1>2. /\ a.tier \in Tiers /\ a.score \in Int /\ a.confidence \in Int /\ a.probs \in [Tiers -> Int]
      /\ b.tier \in Tiers /\ b.score \in Int /\ b.confidence \in Int /\ b.probs \in [Tiers -> Int]
  BY DEF Sound, Evaluations
<1>3. /\ score \in Int /\ score >= a.score /\ conf \in Int
  BY <1>2, MaxOfTwo
<1>4. /\ tier \in {a.tier, b.tier} /\ tier >= a.tier /\ tier >= b.tier
  BY <1>2 DEF conservative_pick, Tiers
<1> HIDE DEF tier
<1>5. winner.tier = tier /\ Sound(winner)
  BY <1>4
<1>6. winner.probs \in [Tiers -> Int] /\ \A t \in Tiers : winner.probs[t] <= winner.probs[tier]
  BY <1>5 DEF Sound, Evaluations, MostMass
<1> HIDE DEF winner, score, conf
<1>7. tier \in Tiers
  BY <1>2, <1>4
<1>8. Sound(Evaluation(tier, score, winner.probs, conf))
  BY <1>3, <1>6, <1>7 DEF Sound, Evaluation, Evaluations, MostMass
<1>9. Evaluation(tier, score, winner.probs, conf).tier = tier /\ Evaluation(tier, score, winner.probs, conf).score = score
  BY DEF Evaluation
<1> QED
  BY <1>1, <1>3, <1>4, <1>8, <1>9

LEMMA EvaluatorInit == EvInit => EvaluatorInv
<1> SUFFICES ASSUME EvInit PROVE EvaluatorInv
  OBVIOUS
<1>1. LayersAreSound /\ EscalationNeverLowers
  BY DEF EvInit, LayersAreSound, EscalationNeverLowers
<1>2. SamplingInv
  BY EvaluatorAssumption DEF EvInit, SamplingInv
<1> QED
  BY <1>1, <1>2 DEF EvaluatorInv

LEMMA NothingIsUnsound == ~Sound(Nothing)
  BY DEF Sound, Evaluations, Nothing, Evaluation, NoTier, Tiers

LEMMA SoundIsOrdered ==
  ASSUME NEW e, Sound(e)
  PROVE  e.tier \in Int /\ e.score \in Int /\ e.tier >= e.tier /\ e.score >= e.score
<1>1. e.tier \in Tiers /\ e.score \in Int
  BY DEF Sound, Evaluations
<1> QED
  BY <1>1 DEF Tiers

\* The counter of candidates, modulo SampleN.
LEMMA SamplingStep ==
  ASSUME SamplingInv, evSeen' = (evSeen + 1) % SampleN,
         evClean' = IF evSeen' = 0 THEN 0 ELSE evClean + 1
  PROVE  SamplingInv'
<1>1. SampleN \in Nat /\ SampleN > 0
  BY EvaluatorAssumption
<1>2. evSeen \in Nat /\ evSeen < SampleN /\ evSeen = evClean
  BY <1>1 DEF SamplingInv
<1>3. CASE evSeen + 1 < SampleN
  <2>1. evSeen' = evSeen + 1
    BY <1>1, <1>2, <1>3
  <2> QED
    BY <1>1, <1>2, <1>3, <2>1 DEF SamplingInv
<1>4. CASE evSeen + 1 = SampleN
  <2>1. evSeen' = 0
    BY <1>1, <1>2, <1>4
  <2> QED
    BY <1>1, <2>1 DEF SamplingInv
<1> QED
  BY <1>1, <1>2, <1>3, <1>4

LEMMA EvaluatorStep == EvaluatorInv /\ [EvNext]_evVars => EvaluatorInv'
<1> SUFFICES ASSUME EvaluatorInv, [EvNext]_evVars PROVE EvaluatorInv'
  OBVIOUS
<1>0. LayersAreSound /\ SamplingInv /\ EscalationNeverLowers
  BY DEF EvaluatorInv
<1>a. ASSUME UNCHANGED <<evSeen, evClean>> PROVE SamplingInv'
  BY <1>0, <1>a DEF SamplingInv
<1>1. ASSUME NEW hits \in SUBSET HitScores, NEW long \in BOOLEAN, Evaluate(hits, long) PROVE EvaluatorInv'
  <2>1. /\ evHeur' = heuristic_evaluate(hits, long) /\ evJev' = Nothing /\ evLlm' = Nothing
        /\ (evStage' = "done" /\ evOut' = evHeur') \/ evStage' \in {"jev", "llm"}
    BY <1>1 DEF Evaluate, JevCandidate, Serve
  <2>2. Sound(evHeur')
    BY <2>1, HeuristicIsSound
  <2>3. LayersAreSound'
    BY <2>1, <2>2 DEF LayersAreSound
  <2>4. EscalationNeverLowers'
    BY <2>1 DEF EscalationNeverLowers
  <2>5. SamplingInv'
    <3>1. \/ UNCHANGED <<evSeen, evClean>>
          \/ /\ evSeen' = (evSeen + 1) % SampleN
             /\ evClean' = IF evSeen' = 0 THEN 0 ELSE evClean + 1
      BY <1>1 DEF Evaluate, JevCandidate, Serve
    <3> QED
      BY <1>0, <1>a, <3>1, SamplingStep
  <2> QED
    BY <2>3, <2>4, <2>5 DEF EvaluatorInv
<1>2. ASSUME NEW answer, Sound(answer), JevAnswers(answer) PROVE EvaluatorInv'
  <2>1. /\ Sound(evHeur) /\ evLlm = Nothing /\ evStage = "jev"
        /\ UNCHANGED <<evSeen, evClean, evHeur, evLlm>> /\ evJev' = answer
    BY <1>0, <1>2 DEF JevAnswers, LayersAreSound
  <2> DEFINE merged == merge_conservative(answer, evHeur)
  <2>2. /\ Sound(merged) /\ merged.tier >= answer.tier /\ merged.tier >= evHeur.tier
        /\ merged.score >= answer.score
    BY <1>2, <2>1, MergeIsSound
  <2>3. \/ evStage' = "done" /\ evOut' = answer /\ answer.confidence >= AUTO
        \/ evStage' = "llm" 
        \/ evStage' = "done" /\ evOut' = merged
    BY <1>2 DEF JevAnswers, Serve
  <2> HIDE DEF merged
  <2>4. LayersAreSound'
    BY <1>2, <2>1, <2>2, <2>3 DEF LayersAreSound
  <2>5. EscalationNeverLowers'
    <3>1. answer.tier >= answer.tier /\ answer.score >= answer.score /\ answer.confidence \in Int
      BY <1>2, SoundIsOrdered DEF Sound, Evaluations
    <3>2. CASE evStage' = "done" /\ evOut' = answer /\ answer.confidence >= AUTO
      BY <2>1, <3>1, <3>2 DEF EscalationNeverLowers, AUTO
    <3>3. CASE evStage' = "llm"
      BY <3>3 DEF EscalationNeverLowers
    <3>4. CASE evStage' = "done" /\ evOut' = merged
      BY <2>1, <2>2, <3>4 DEF EscalationNeverLowers
    <3> QED
      BY <2>3, <3>2, <3>3, <3>4
  <2> QED
    BY <1>a, <2>1, <2>4, <2>5 DEF EvaluatorInv
<1>3. ASSUME JevUnavailable PROVE EvaluatorInv'
  <2>1. /\ Sound(evHeur) /\ evJev = Nothing /\ evLlm = Nothing
        /\ UNCHANGED <<evSeen, evClean, evHeur, evJev, evLlm>> /\ evStage' = "done" /\ evOut' = evHeur
    BY <1>0, <1>3 DEF JevUnavailable, LayersAreSound, Serve
  <2>2. LayersAreSound' /\ EscalationNeverLowers'
    BY <2>1 DEF LayersAreSound, EscalationNeverLowers
  <2> QED
    BY <1>a, <2>1, <2>2 DEF EvaluatorInv
<1>4. ASSUME NEW answer, Sound(answer), LlmAnswers(answer) PROVE EvaluatorInv'
  <2>1. /\ Sound(evHeur) /\ (evJev = Nothing \/ Sound(evJev))
        /\ UNCHANGED <<evSeen, evClean, evHeur, evJev>> /\ evLlm' = answer /\ evStage' = "done"
        /\ evOut' = IF evJev = Nothing THEN answer ELSE merge_conservative(evJev, answer)
    BY <1>0, <1>4 DEF LlmAnswers, LayersAreSound, Serve
  <2> DEFINE merged == merge_conservative(evJev, answer)
  <2>2. evJev # Nothing =>
          /\ Sound(merged) /\ merged.tier >= evJev.tier /\ merged.tier >= answer.tier
          /\ merged.score >= evJev.score
    BY <1>4, <2>1, MergeIsSound
  <2> HIDE DEF merged
  <2>3. LayersAreSound'
    BY <1>4, <2>1, <2>2 DEF LayersAreSound, merged
  <2>4. EscalationNeverLowers'
    BY <1>4, <2>1, <2>2, NothingIsUnsound DEF EscalationNeverLowers, merged
  <2> QED
    BY <1>a, <2>1, <2>3, <2>4 DEF EvaluatorInv
<1>5. ASSUME LlmFails PROVE EvaluatorInv'
  <2>1. /\ Sound(evHeur) /\ (evJev = Nothing \/ Sound(evJev)) /\ evLlm = Nothing
        /\ UNCHANGED <<evSeen, evClean, evHeur, evJev, evLlm>> /\ evStage' = "done"
        /\ evOut' = IF evJev = Nothing THEN evHeur ELSE merge_conservative(evJev, evHeur)
    BY <1>0, <1>5 DEF LlmFails, LayersAreSound, Serve
  <2> DEFINE merged == merge_conservative(evJev, evHeur)
  <2>2. evJev # Nothing =>
          /\ Sound(merged) /\ merged.tier >= evJev.tier /\ merged.tier >= evHeur.tier
          /\ merged.score >= evJev.score
    BY <2>1, MergeIsSound
  <2> HIDE DEF merged
  <2>3. LayersAreSound'
    BY <2>1, <2>2 DEF LayersAreSound, merged
  <2>4. EscalationNeverLowers'
    BY <2>1, <2>2 DEF EscalationNeverLowers, merged
  <2> QED
    BY <1>a, <2>1, <2>3, <2>4 DEF EvaluatorInv
<1>6. ASSUME Taken PROVE EvaluatorInv'
  <2>1. /\ evStage' = "idle" /\ evJev' = Nothing /\ evLlm' = Nothing /\ UNCHANGED <<evSeen, evClean>>
    BY <1>6 DEF Taken
  <2>2. LayersAreSound' /\ EscalationNeverLowers'
    BY <2>1 DEF LayersAreSound, EscalationNeverLowers
  <2> QED
    BY <1>a, <2>1, <2>2 DEF EvaluatorInv
<1>7. ASSUME UNCHANGED evVars PROVE EvaluatorInv'
  <2>1. UNCHANGED <<evStage, evSeen, evClean, evHeur, evJev, evLlm, evOut>>
    BY <1>7 DEF evVars
  <2> QED
    BY <1>0, <1>a, <2>1 DEF EvaluatorInv, LayersAreSound, EscalationNeverLowers
<1> QED
  <2>1. ASSUME NEW choice \in Tiers \cup {NoTier}, NEW conf \in Confidences, NEW table \in Tables,
               NEW i \in Signals, NEW t \in Signals, JevAnswers(jev_evaluate(choice, conf, table, i, t))
        PROVE  EvaluatorInv'
    BY <1>2, <2>1, JevIsSound
  <2>2. ASSUME NEW score \in HitScores \cup {10}, NEW declared \in Tiers \cup {NoTier}, NEW table \in Tables,
               LlmAnswers(normalize_llm_result(score, declared, table))
        PROVE  EvaluatorInv'
    BY <1>4, <2>2, LlmIsSound
  <2> QED
    BY <1>1, <1>3, <1>5, <1>6, <1>7, <2>1, <2>2 DEF EvNext

\* RiskIsNotMissed, for all scores, probability tables, confidences and
\* signals that the layers may answer with, and every sampling rate.
THEOREM NoRiskIsMissed == EvSpec => []RiskIsNotMissed
<1>1. EvaluatorInv => RiskIsNotMissed
  <2> SUFFICES ASSUME EvaluatorInv PROVE RiskIsNotMissed
    OBVIOUS
  <2>1. ServedTierHasMostMass
    BY DEF EvaluatorInv, LayersAreSound, Sound, MostMass, ServedTierHasMostMass
  <2>2. CleanTrafficIsSampled
    BY EvaluatorAssumption DEF EvaluatorInv, SamplingInv, CleanTrafficIsSampled
  <2> QED
    BY <2>1, <2>2 DEF EvaluatorInv, RiskIsNotMissed
<1> QED
  BY <1>1, EvaluatorInit, EvaluatorStep, PTL DEF EvSpec
-----------------------------------------------------------------------------
(***************************************************************************)
(* The cost guard in front of the decision gateway (JevClient).            *)
(***************************************************************************)

LEMMA ElementsAreTyped ==
  ASSUME NEW S, NEW s \in Seq(S), NEW i \in 1 .. Len(s)
  PROVE  s[i] \in S
  OBVIOUS

LEMMA IndicesAreFinite ==
  ASSUME NEW n \in Nat, NEW S \in SUBSET (1 .. n)
  PROVE  IsFiniteSet(S) /\ Cardinality(S) \in Nat
<1>1. IsFiniteSet(1 .. n)
  BY FS_Interval
<1>2. IsFiniteSet(S)
  BY <1>1, FS_Subset
<1> QED
  BY <1>2, FS_CardinalityType

\* Whoever is in flight is an asker, and an asker is a coroutine.
LEMMA AskersAreFinite ==
  ASSUME JvTypeOK, CallsAreOurs
  PROVE  /\ Askers \in SUBSET Coroutines /\ IsFiniteSet(Askers)
         /\ Cardinality(Askers) \in Nat /\ Cardinality(Askers) >= 1
         /\ \A P : "none" \notin P =>
              /\ InFlight(P) \in SUBSET Askers /\ IsFiniteSet(InFlight(P))
              /\ Cardinality(InFlight(P)) \in Nat
              /\ Cardinality(InFlight(P)) <= Cardinality(Askers)
<1>1. (CHOOSE c \in Coroutines : TRUE) \in Coroutines
  BY JevAssumption
<1>2. Askers \in SUBSET Coroutines /\ Askers # {}
  BY <1>1, JevAssumption DEF Askers
<1>3. IsFiniteSet(Askers)
  BY <1>2, FS_Subset, JevAssumption
<1>4. Cardinality(Askers) \in Nat /\ Cardinality(Askers) # 0
  BY <1>2, <1>3, FS_CardinalityType, FS_EmptySet
<1>5. ASSUME NEW P, "none" \notin P
      PROVE  /\ InFlight(P) \in SUBSET Askers /\ IsFiniteSet(InFlight(P))
             /\ Cardinality(InFlight(P)) \in Nat
             /\ Cardinality(InFlight(P)) <= Cardinality(Askers)
  <2>1. InFlight(P) \in SUBSET Askers
    BY <1>5 DEF InFlight, CallsAreOurs
  <2>2. IsFiniteSet(InFlight(P)) /\ Cardinality(InFlight(P)) <= Cardinality(Askers)
    BY <1>3, <2>1, FS_Subset
  <2> QED
    BY <2>1, <2>2, FS_CardinalityType
<1> QED
  BY <1>2, <1>3, <1>4, <1>5

LEMMA CallsAreFinite ==
  ASSUME JvTypeOK
  PROVE  /\ Len(jvCalls) \in Nat /\ DOMAIN jvCalls = 1 .. Len(jvCalls)
         /\ IsFiniteSet(TodaysCalls) /\ Cardinality(TodaysCalls) \in Nat
         /\ \A P : IsFiniteSet(Recent(P)) /\ Cardinality(Recent(P)) \in Nat
<1>1. Len(jvCalls) \in Nat /\ DOMAIN jvCalls = 1 .. Len(jvCalls)
  BY DEF JvTypeOK
<1>2. TodaysCalls \in SUBSET (1 .. Len(jvCalls))
  BY <1>1 DEF TodaysCalls
<1>3. \A P : Recent(P) \in SUBSET (1 .. Len(jvCalls))
  BY <1>1 DEF Recent
<1> QED
  BY <1>1, <1>2, <1>3, IndicesAreFinite

\* A later moment is not on an earlier day.
LEMMA DaysGoOn ==
  ASSUME NEW a \in Nat, NEW b \in Nat, a <= b
  PROVE  a \div Day \in Nat /\ a \div Day <= b \div Day
<1>0. Day \in Nat /\ Day > 0
  BY JevAssumption
<1> DEFINE x == a \div Day
           y == b \div Day
<1>1. x \in Int /\ Day * x <= a /\ a < Day * x + Day
  BY <1>0
<1>2. y \in Int /\ Day * y <= b /\ b < Day * y + Day
  BY <1>0
<1> HIDE DEF x, y
<1>3. \A i \in Int, j \in Int : i >= j + 1 => Day * i >= Day * j + Day
  BY <1>0
<1>4. x <= y
  <2> SUFFICES ASSUME x >= y + 1 PROVE FALSE
    BY <1>1, <1>2
  <2>1. Day * x >= Day * y + Day /\ Day * x \in Int /\ Day * y \in Int
    BY <1>0, <1>1, <1>2, <1>3
  <2> QED
    BY <1>0, <1>1, <1>2, <2>1
<1>5. x >= 0
  <2> SUFFICES ASSUME 0 >= x + 1 PROVE FALSE
    BY <1>1
  <2>1. Day * 0 >= Day * x + Day /\ Day * x \in Int
    BY <1>0, <1>1, <1>3
  <2> QED
    BY <1>0, <1>1, <2>1
<1> QED
  BY <1>1, <1>4, <1>5 DEF x, y

\* A coroutine that comes back leaves the flight.
LEMMA BackFromFlight ==
  ASSUME JvTypeOK, CallsAreOurs, NEW c \in Coroutines, jvAsking[c] # "none",
         jvAsking' = [jvAsking EXCEPT ![c] = "none"], NEW P, "none" \notin P
  PROVE  Cardinality(InFlight(P)') =
           IF jvAsking[c] \in P THEN Cardinality(InFlight(P)) - 1 ELSE Cardinality(InFlight(P))
<1>1. InFlight(P)' = InFlight(P) \ {c}
  BY DEF InFlight, JvTypeOK
<1>2. c \in InFlight(P) <=> jvAsking[c] \in P
  BY DEF InFlight
<1>3. IsFiniteSet(InFlight(P))
  BY AskersAreFinite
<1> QED
  BY <1>1, <1>2, <1>3, FS_RemoveElement

\* The purposes, as what the counts range over.
LEMMA PurposesAreNamed ==
  /\ "none" \notin Purposes /\ "none" \notin {"evaluator"}
  /\ "evaluator" \in Purposes /\ PurposesHere \subseteq Purposes
  /\ (jvProcess = "api" => "evaluator" \notin PurposesHere)
  BY DEF Purposes, PurposesHere

LEMMA JevTypeStep == JevInv /\ [JvNext]_jvVars => JvTypeOK'
<1> SUFFICES ASSUME JevInv, [JvNext]_jvVars PROVE JvTypeOK'
  OBVIOUS
<1>0. /\ jvProcess \in {"scheduler", "api"}
      /\ jvNow \in Nat /\ jvDay \in Nat \cup {-1} /\ jvDayCalls \in Nat
      /\ jvOpenUntil \in Nat /\ jvPromised \in Nat
      /\ jvCalls \in Seq([at : Nat, purpose : Purposes])
      /\ jvAsking \in [Coroutines -> Purposes \cup {"none"}]
  BY DEF JevInv, JvTypeOK
<1>1. ASSUME NEW c \in Coroutines, NEW x \in Purposes \cup {"none"}, jvAsking' = [jvAsking EXCEPT ![c] = x]
      PROVE  jvAsking' \in [Coroutines -> Purposes \cup {"none"}]
  BY <1>0, <1>1
<1>2. Askers \subseteq Coroutines
  BY AskersAreFinite DEF JevInv
<1>3. ASSUME NEW c \in Askers, NEW p \in PurposesHere, CapCheck(c, p) PROVE JvTypeOK'
  <2>1. Today \in Nat
    BY <1>0, DaysGoOn DEF Today
  <2>2. jvDay' \in Nat \cup {-1} /\ jvDayCalls' \in Nat
    BY <1>0, <1>3, <2>1 DEF CapCheck
  <2>3. jvAsking' \in [Coroutines -> Purposes \cup {"none"}]
    BY <1>0, <1>1, <1>2, <1>3, PurposesAreNamed DEF CapCheck
  <2> QED
    BY <1>0, <1>3, <2>2, <2>3 DEF CapCheck, JvTypeOK
<1>4. ASSUME NEW c \in Askers, Answered(c) PROVE JvTypeOK'
  <2>1. jvAsking' \in [Coroutines -> Purposes \cup {"none"}]
    BY <1>1, <1>2, <1>4 DEF Answered
  <2>2. [at |-> jvNow, purpose |-> jvAsking[c]] \in [at : Nat, purpose : Purposes]
    BY <1>0, <1>2, <1>4 DEF Answered
  <2>3. jvCalls' \in Seq([at : Nat, purpose : Purposes])
    BY <1>0, <1>4, <2>2 DEF Answered
  <2>4. jvDayCalls' \in Nat
    BY <1>0, <1>4 DEF Answered
  <2> QED
    BY <1>0, <1>4, <2>1, <2>3, <2>4 DEF Answered, JvTypeOK
<1>5. ASSUME NEW c \in Askers, NEW s \in Backoffs, RateLimited(c, s) PROVE JvTypeOK'
  <2>1. jvAsking' \in [Coroutines -> Purposes \cup {"none"}]
    BY <1>1, <1>2, <1>5 DEF RateLimited
  <2>2. s \in Nat
    BY JevAssumption
  <2>3. jvOpenUntil' \in Nat /\ jvPromised' \in Nat
    BY <1>0, <1>5, <2>2 DEF RateLimited, TripBreaker, Later
  <2> QED
    BY <1>0, <1>5, <2>1, <2>3 DEF RateLimited, JvTypeOK
<1>6. ASSUME NEW c \in Askers, Failed(c) PROVE JvTypeOK'
  <2>1. jvAsking' \in [Coroutines -> Purposes \cup {"none"}]
    BY <1>1, <1>2, <1>6 DEF Failed
  <2> QED
    BY <1>0, <1>6, <2>1 DEF Failed, JvTypeOK
<1>7. CASE Tick
  BY <1>0, <1>7 DEF Tick, JvTypeOK
<1>8. CASE UNCHANGED jvVars
  BY <1>0, <1>8 DEF jvVars, JvTypeOK
<1> QED
  BY <1>3, <1>4, <1>5, <1>6, <1>7, <1>8 DEF JvNext

\* A check that refuses, or lets the coroutine go ahead with its purpose.
LEMMA CheckKeeps ==
  ASSUME JevInv, JvTypeOK', NEW c \in Askers, NEW p \in PurposesHere, CapCheck(c, p)
  PROVE  JevInv'
<1>0. JvTypeOK /\ CallsAreOurs
  BY DEF JevInv
<1>1. /\ UNCHANGED <<jvProcess, jvNow, jvCalls, jvOpenUntil, jvPromised>>
      /\ jvAsking[c] = "none" /\ c \in Coroutines /\ p \in Purposes
  BY <1>0, AskersAreFinite, PurposesAreNamed DEF CapCheck
<1>2. /\ Recent(Purposes)' = Recent(Purposes) /\ Recent({"evaluator"})' = Recent({"evaluator"})
      /\ TodaysCalls' = TodaysCalls /\ Today' = Today
      /\ Askers' = Askers /\ PurposesHere' = PurposesHere
  BY <1>1 DEF Recent, TodaysCalls, Today, Askers, PurposesHere
<1>3. CallsAreOurs'
  <2>1. \A d \in Coroutines : jvAsking'[d] = jvAsking[d] \/ (d = c /\ jvAsking'[d] = p)
    BY <1>0 DEF CapCheck, JvTypeOK
  <2> QED
    BY <1>0, <1>1, <1>2, <2>1 DEF CallsAreOurs
<1>4. BackoffIsCovered'
  BY <1>1 DEF BackoffIsCovered, JevInv
<1> DEFINE A == Cardinality(Askers)
           F == Cardinality(InFlight(Purposes))
           F1 == Cardinality(InFlight(Purposes)')
           R == Cardinality(Recent(Purposes))
           T == Cardinality(TodaysCalls)
<1>5. A \in Nat /\ A >= 1 /\ F \in Nat /\ F <= A /\ F1 \in Nat /\ F1 <= A
  <2>1. A \in Nat /\ A >= 1 /\ F \in Nat /\ F <= A
    BY <1>0, AskersAreFinite, PurposesAreNamed
  <2>2. IsFiniteSet(Askers)
    BY <1>0, AskersAreFinite
  <2>3. InFlight(Purposes)' \in SUBSET Askers
    BY <1>2, <1>3, PurposesAreNamed DEF InFlight, CallsAreOurs
  <2> HIDE DEF A, F
  <2>4. IsFiniteSet(InFlight(Purposes)') /\ F1 <= Cardinality(Askers)
    BY <2>2, <2>3, FS_Subset
  <2>5. F1 \in Nat
    BY <2>4, FS_CardinalityType
  <2> QED
    BY <2>1, <2>4, <2>5 DEF A
<1>6. R \in Nat /\ T \in Nat
  BY <1>0, CallsAreFinite
<1>7. UNCHANGED jvAsking \/ (jvDayCalls' < DAILY_CALL_CAP /\ R < CALLS_PER_MINUTE
                             /\ purpose_cap_ok(p) /\ jvAsking' = [jvAsking EXCEPT ![c] = p])
  BY DEF CapCheck
<1>8. UNCHANGED jvAsking => InFlight(Purposes)' = InFlight(Purposes) /\ InFlight({"evaluator"})' = InFlight({"evaluator"})
  BY DEF InFlight
<1>9. {CALLS_PER_MINUTE, DAILY_CALL_CAP, EVALUATOR_PER_MINUTE} \subseteq Nat \ {0}
  BY JevAssumption
<1>10. MinuteCapHolds'
  <2>1. R + F <= CALLS_PER_MINUTE + A - 1
    BY DEF JevInv, MinuteCapHolds
  <2>2. R + F1 <= CALLS_PER_MINUTE + A - 1
    <3>1. CASE UNCHANGED jvAsking
      BY <1>8, <2>1, <3>1
    <3>2. CASE R < CALLS_PER_MINUTE
      <4> HIDE DEF R, F1, A
      <4> QED
        BY <1>5, <1>6, <1>9, <3>2
    <3> QED
      BY <1>7, <3>1, <3>2
  <2> QED
    BY <1>2, <2>2 DEF MinuteCapHolds
<1>11. EvaluatorLeavesRoom'
  <2> DEFINE E == Cardinality(InFlight({"evaluator"}))
             RE == Cardinality(Recent({"evaluator"}))
  <2>1. RE + E <= EVALUATOR_PER_MINUTE
    BY DEF JevInv, EvaluatorLeavesRoom
  <2>2. CASE UNCHANGED jvAsking \/ p # "evaluator"
    <3>1. InFlight({"evaluator"})' = InFlight({"evaluator"})
      <4>1. CASE UNCHANGED jvAsking
        BY <1>8, <4>1
      <4>2. CASE p # "evaluator" /\ jvAsking' = [jvAsking EXCEPT ![c] = p]
        BY <1>0, <1>1, <4>2 DEF InFlight, JvTypeOK
      <4> QED
        BY <1>7, <2>2, <4>1, <4>2
    <3> QED
      BY <1>2, <2>1, <3>1 DEF EvaluatorLeavesRoom
  <2>3. CASE p = "evaluator" /\ ~UNCHANGED jvAsking
    <3>1. RE < EVALUATOR_PER_MINUTE
      BY <1>7, <2>3 DEF purpose_cap_ok
    <3>2. Askers = {c}
      BY <2>3, PurposesAreNamed DEF Askers
    <3>3. InFlight({"evaluator"})' \in SUBSET {c}
      BY <1>2, <1>3, <3>2 DEF InFlight, CallsAreOurs
    <3>4. Cardinality(InFlight({"evaluator"})') \in Nat /\ Cardinality(InFlight({"evaluator"})') <= 1
      <4>1. IsFiniteSet({c}) /\ Cardinality({c}) = 1
        BY FS_Singleton
      <4>2. IsFiniteSet(InFlight({"evaluator"})') /\ Cardinality(InFlight({"evaluator"})') <= Cardinality({c})
        BY <3>3, <4>1, FS_Subset
      <4> QED
        BY <4>1, <4>2, FS_CardinalityType
    <3>5. RE \in Nat
      BY <1>0, CallsAreFinite
    <3>6. RE + Cardinality(InFlight({"evaluator"})') <= EVALUATOR_PER_MINUTE
      <4> HIDE DEF RE
      <4> QED
        BY <1>9, <3>1, <3>4, <3>5
    <3> QED
      BY <1>2, <3>6 DEF EvaluatorLeavesRoom
  <2> QED
    BY <2>2, <2>3
<1>12. DayIsCounted'
  <2>1. /\ jvDay <= Today
        /\ jvDayCalls + F <= DAILY_CALL_CAP + A - 1
        /\ jvDay = Today => T <= jvDayCalls + A
        /\ jvDay # Today => T + F <= A
    BY DEF JevInv, DayIsCounted
  <2>2. jvDay' = Today /\ jvDayCalls' = (IF Today # jvDay THEN 0 ELSE jvDayCalls)
    BY DEF CapCheck
  <2>3. Today \in Nat /\ jvDayCalls \in Nat /\ jvDayCalls' \in Nat
    BY <1>0, <1>2, DaysGoOn DEF JvTypeOK, Today
  <2>4. jvDayCalls' + F1 <= DAILY_CALL_CAP + A - 1
    <3> HIDE DEF F, F1, A
    <3>1. CASE Today # jvDay
      BY <1>5, <1>9, <2>2, <3>1
    <3>2. CASE Today = jvDay /\ UNCHANGED jvAsking
      <4>1. F1 = F
        BY <1>8, <3>2 DEF F, F1
      <4> QED
        BY <2>1, <2>2, <3>2, <4>1
    <3>3. CASE jvDayCalls' < DAILY_CALL_CAP
      BY <1>5, <1>9, <2>3, <3>3
    <3> QED
      BY <1>7, <3>1, <3>2, <3>3
  <2>5. T <= jvDayCalls' + A
    <3> HIDE DEF T, F, A
    <3> QED
      BY <1>5, <1>6, <2>1, <2>2, <2>3
  <2>6. jvDay' <= Today
    BY <2>2, <2>3
  <2> QED
    BY <1>2, <2>2, <2>4, <2>5, <2>6 DEF DayIsCounted
<1> QED
  BY <1>3, <1>4, <1>10, <1>11, <1>12 DEF JevInv

\* A usable answer moves one call from the flight to the record.
LEMMA AnswerKeeps ==
  ASSUME JevInv, JvTypeOK', NEW c \in Askers, Answered(c)
  PROVE  JevInv'
<1>0. JvTypeOK /\ CallsAreOurs
  BY DEF JevInv
<1> DEFINE n == Len(jvCalls)
           call == [at |-> jvNow, purpose |-> jvAsking[c]]
<1>1. /\ UNCHANGED <<jvProcess, jvNow, jvDay, jvOpenUntil, jvPromised>>
      /\ jvAsking[c] # "none" /\ c \in Coroutines /\ jvDayCalls' = jvDayCalls + 1
      /\ jvCalls' = Append(jvCalls, call) /\ jvAsking' = [jvAsking EXCEPT ![c] = "none"]
  BY <1>0, AskersAreFinite DEF Answered
<1>2. jvAsking[c] \in PurposesHere /\ jvAsking[c] \in Purposes /\ "none" \notin Purposes
  BY <1>0, <1>1, PurposesAreNamed DEF CallsAreOurs
<1>3. /\ Today' = Today /\ Askers' = Askers /\ PurposesHere' = PurposesHere
      /\ jvNow \in Nat /\ jvNow - jvNow < Minute
  BY <1>0, <1>1, JevAssumption DEF Today, Askers, PurposesHere, JvTypeOK
<1>4. /\ n \in Nat /\ DOMAIN jvCalls = 1 .. n /\ n + 1 \notin DOMAIN jvCalls
      /\ DOMAIN jvCalls' = DOMAIN jvCalls \cup {n + 1}
      /\ \A i \in DOMAIN jvCalls : jvCalls'[i] = jvCalls[i]
      /\ jvCalls'[n + 1] = call
  BY <1>0, <1>1 DEF JvTypeOK
<1> HIDE DEF n
<1>5. call.at = jvNow /\ call.purpose = jvAsking[c]
  OBVIOUS
<1> HIDE DEF call
<1>6. Recent(Purposes)' = Recent(Purposes) \cup {n + 1} /\ n + 1 \notin Recent(Purposes)
  BY <1>1, <1>2, <1>3, <1>4, <1>5 DEF Recent
<1>7. /\ TodaysCalls' = TodaysCalls \cup {n + 1} /\ n + 1 \notin TodaysCalls
  BY <1>1, <1>3, <1>4, <1>5 DEF TodaysCalls, Today
<1>8. /\ n + 1 \notin Recent({"evaluator"})
      /\ Recent({"evaluator"})' = IF jvAsking[c] = "evaluator" THEN Recent({"evaluator"}) \cup {n + 1}
                                  ELSE Recent({"evaluator"})
  BY <1>1, <1>3, <1>4, <1>5 DEF Recent
<1>9. CallsAreOurs'
  <2>1. \A d \in Coroutines : jvAsking'[d] # "none" => d # c /\ jvAsking'[d] = jvAsking[d]
    BY <1>0, <1>1 DEF JvTypeOK
  <2>2. \A i \in DOMAIN jvCalls' : jvCalls'[i].at <= jvNow' /\ jvCalls'[i].purpose \in PurposesHere'
    BY <1>0, <1>1, <1>2, <1>3, <1>4, <1>5 DEF CallsAreOurs
  <2> QED
    BY <1>0, <1>3, <2>1, <2>2 DEF CallsAreOurs
<1>10. BackoffIsCovered'
  BY <1>1 DEF BackoffIsCovered, JevInv
<1>11. MinuteCapHolds'
  <2>1. Cardinality(InFlight(Purposes)') = Cardinality(InFlight(Purposes)) - 1
    BY <1>0, <1>1, <1>2, BackFromFlight
  <2>2. Cardinality(Recent(Purposes)') = Cardinality(Recent(Purposes)) + 1
    BY <1>0, <1>6, CallsAreFinite, FS_AddElement
  <2>3. /\ Cardinality(InFlight(Purposes)) \in Nat /\ Cardinality(Recent(Purposes)) \in Nat
    BY <1>0, <1>2, AskersAreFinite, CallsAreFinite
  <2>4. Cardinality(Recent(Purposes)') + Cardinality(InFlight(Purposes)')
          = Cardinality(Recent(Purposes)) + Cardinality(InFlight(Purposes))
    BY <2>1, <2>2, <2>3
  <2> QED
    BY <1>3, <2>4 DEF JevInv, MinuteCapHolds
<1>12. EvaluatorLeavesRoom'
  <2> DEFINE E == InFlight({"evaluator"})
             RE == Recent({"evaluator"})
  <2>1. Cardinality(E') = IF jvAsking[c] = "evaluator" THEN Cardinality(E) - 1 ELSE Cardinality(E)
    BY <1>0, <1>1, BackFromFlight, PurposesAreNamed
  <2>2. Cardinality(RE') = IF jvAsking[c] = "evaluator" THEN Cardinality(RE) + 1 ELSE Cardinality(RE)
    BY <1>0, <1>8, CallsAreFinite, FS_AddElement
  <2>3. Cardinality(E) \in Nat /\ Cardinality(RE) \in Nat
    BY <1>0, PurposesAreNamed, AskersAreFinite, CallsAreFinite
  <2>4. Cardinality(RE') + Cardinality(E') = Cardinality(RE) + Cardinality(E)
    <3> HIDE DEF E, RE
    <3> QED
      BY <2>1, <2>2, <2>3
  <2> QED
    BY <2>4 DEF JevInv, EvaluatorLeavesRoom
<1>13. DayIsCounted'
  <2> DEFINE A == Cardinality(Askers)
             F == Cardinality(InFlight(Purposes))
             F1 == Cardinality(InFlight(Purposes)')
             T == Cardinality(TodaysCalls)
             T1 == Cardinality(TodaysCalls')
  <2>1. /\ jvDay <= Today
        /\ jvDayCalls + F <= DAILY_CALL_CAP + A - 1
        /\ jvDay = Today => T <= jvDayCalls + A
        /\ jvDay # Today => T + F <= A
    BY DEF JevInv, DayIsCounted
  <2>2. F1 = F - 1
    BY <1>0, <1>1, <1>2, BackFromFlight
  <2>3. T1 = T + 1
    BY <1>0, <1>7, CallsAreFinite, FS_AddElement
  <2>4. A \in Nat /\ F \in Nat /\ T \in Nat /\ jvDayCalls \in Nat
    BY <1>0, <1>2, AskersAreFinite, CallsAreFinite DEF JvTypeOK
  <2>5. /\ jvDayCalls + 1 + F1 <= DAILY_CALL_CAP + A - 1
        /\ jvDay = Today => T1 <= jvDayCalls + 1 + A
        /\ jvDay # Today => T1 + F1 <= A
    <3>1. DAILY_CALL_CAP \in Nat
      BY JevAssumption
    <3> HIDE DEF A, F, F1, T, T1
    <3> QED
      BY <2>1, <2>2, <2>3, <2>4, <3>1
  <2> QED
    BY <1>1, <1>3, <2>1, <2>5 DEF DayIsCounted
<1> QED
  BY <1>9, <1>10, <1>11, <1>12, <1>13 DEF JevInv

\* A 429 or a failed call only leaves the flight; the circuit may open for longer.
LEMMA ReturnKeeps ==
  ASSUME JevInv, JvTypeOK', NEW c \in Askers, jvAsking[c] # "none",
         jvAsking' = [jvAsking EXCEPT ![c] = "none"], BackoffIsCovered',
         UNCHANGED <<jvProcess, jvNow, jvCalls, jvDay, jvDayCalls>>
  PROVE  JevInv'
<1>0. JvTypeOK /\ CallsAreOurs /\ c \in Coroutines
  BY AskersAreFinite DEF JevInv
<1>1. /\ Recent(Purposes)' = Recent(Purposes) /\ Recent({"evaluator"})' = Recent({"evaluator"})
      /\ TodaysCalls' = TodaysCalls /\ Today' = Today
      /\ Askers' = Askers /\ PurposesHere' = PurposesHere
  BY DEF Recent, TodaysCalls, Today, Askers, PurposesHere
<1>2. CallsAreOurs'
  <2>1. \A d \in Coroutines : jvAsking'[d] # "none" => jvAsking'[d] = jvAsking[d]
    BY <1>0 DEF JvTypeOK
  <2> QED
    BY <1>0, <1>1, <2>1 DEF CallsAreOurs
<1> DEFINE F == Cardinality(InFlight(Purposes))
           F1 == Cardinality(InFlight(Purposes)')
           E == Cardinality(InFlight({"evaluator"}))
           E1 == Cardinality(InFlight({"evaluator"})')
           A == Cardinality(Askers)
           R == Cardinality(Recent(Purposes))
           RE == Cardinality(Recent({"evaluator"}))
           T == Cardinality(TodaysCalls)
<1>3. F1 = F - 1 \/ F1 = F
  BY <1>0, BackFromFlight, PurposesAreNamed
<1>4. E1 = E - 1 \/ E1 = E
  BY <1>0, BackFromFlight, PurposesAreNamed
<1>5. F \in Nat /\ E \in Nat /\ A \in Nat /\ R \in Nat /\ RE \in Nat /\ T \in Nat /\ jvDayCalls \in Nat
  BY <1>0, PurposesAreNamed, AskersAreFinite, CallsAreFinite DEF JvTypeOK
<1>6. {CALLS_PER_MINUTE, DAILY_CALL_CAP, EVALUATOR_PER_MINUTE} \subseteq Nat
  BY JevAssumption
<1>7. /\ R + F <= CALLS_PER_MINUTE + A - 1 /\ RE + E <= EVALUATOR_PER_MINUTE
      /\ jvDay <= Today
      /\ jvDayCalls + F <= DAILY_CALL_CAP + A - 1
      /\ jvDay = Today => T <= jvDayCalls + A
      /\ jvDay # Today => T + F <= A
  BY DEF JevInv, MinuteCapHolds, EvaluatorLeavesRoom, DayIsCounted
<1>8. /\ R + F1 <= CALLS_PER_MINUTE + A - 1 /\ RE + E1 <= EVALUATOR_PER_MINUTE
      /\ jvDayCalls + F1 <= DAILY_CALL_CAP + A - 1
      /\ jvDay # Today => T + F1 <= A
  <2> HIDE DEF F, F1, E, E1, A, R, RE, T
  <2> QED
    BY <1>3, <1>4, <1>5, <1>6, <1>7
<1>9. MinuteCapHolds' /\ EvaluatorLeavesRoom'
  BY <1>1, <1>8 DEF MinuteCapHolds, EvaluatorLeavesRoom
<1>10. DayIsCounted'
  BY <1>1, <1>7, <1>8 DEF DayIsCounted
<1> QED
  BY <1>2, <1>9, <1>10 DEF JevInv

\* Time passes: calls leave the minute, and at midnight the day.
LEMMA TickKeeps ==
  ASSUME JevInv, JvTypeOK', Tick
  PROVE  JevInv'
<1>0. JvTypeOK /\ CallsAreOurs
  BY DEF JevInv
<1>1. /\ UNCHANGED <<jvProcess, jvCalls, jvDay, jvDayCalls, jvOpenUntil, jvAsking, jvPromised>>
      /\ jvNow' = jvNow + 1 /\ jvNow \in Nat
  BY <1>0 DEF Tick, JvTypeOK
<1>2. /\ InFlight(Purposes)' = InFlight(Purposes) /\ InFlight({"evaluator"})' = InFlight({"evaluator"})
      /\ Askers' = Askers /\ PurposesHere' = PurposesHere
  BY <1>1 DEF InFlight, Askers, PurposesHere
<1>3. \A i \in DOMAIN jvCalls : jvCalls[i].at \in Nat /\ jvCalls[i].at <= jvNow
  <2>1. \A i \in DOMAIN jvCalls : jvCalls[i] \in [at : Nat, purpose : Purposes]
    <3>1. jvCalls \in Seq([at : Nat, purpose : Purposes])
      BY <1>0 DEF JvTypeOK
    <3>2. DOMAIN jvCalls = 1 .. Len(jvCalls) /\ Len(jvCalls) \in Nat
      BY <1>0, CallsAreFinite
    <3>3. ASSUME NEW i \in 1 .. Len(jvCalls) PROVE jvCalls[i] \in [at : Nat, purpose : Purposes]
      BY <3>1, ElementsAreTyped, Zenon
    <3> QED
      BY <3>2, <3>3
  <2> QED
    BY <1>0, <2>1 DEF CallsAreOurs
<1>4. CallsAreOurs'
  BY <1>0, <1>1, <1>2, <1>3 DEF CallsAreOurs
<1>5. BackoffIsCovered'
  BY <1>1 DEF BackoffIsCovered, JevInv
<1>6. /\ Recent(Purposes)' \in SUBSET Recent(Purposes)
      /\ Recent({"evaluator"})' \in SUBSET Recent({"evaluator"})
  BY <1>1, <1>3, JevAssumption DEF Recent
<1> DEFINE F == Cardinality(InFlight(Purposes))
           E == Cardinality(InFlight({"evaluator"}))
           A == Cardinality(Askers)
           R == Cardinality(Recent(Purposes))
           RE == Cardinality(Recent({"evaluator"}))
           R1 == Cardinality(Recent(Purposes)')
           RE1 == Cardinality(Recent({"evaluator"})')
           T == Cardinality(TodaysCalls)
<1>7. R1 <= R /\ RE1 <= RE /\ R1 \in Nat /\ RE1 \in Nat
  BY <1>0, <1>6, CallsAreFinite, FS_Subset, FS_CardinalityType
<1>8. F \in Nat /\ E \in Nat /\ A \in Nat /\ R \in Nat /\ RE \in Nat /\ T \in Nat /\ F <= A
  BY <1>0, PurposesAreNamed, AskersAreFinite, CallsAreFinite DEF JvTypeOK
<1>9. {CALLS_PER_MINUTE, DAILY_CALL_CAP, EVALUATOR_PER_MINUTE} \subseteq Nat
  BY JevAssumption
<1>10. /\ R + F <= CALLS_PER_MINUTE + A - 1 /\ RE + E <= EVALUATOR_PER_MINUTE
       /\ jvDay <= Today
       /\ jvDayCalls + F <= DAILY_CALL_CAP + A - 1
       /\ jvDay = Today => T <= jvDayCalls + A
       /\ jvDay # Today => T + F <= A
  BY DEF JevInv, MinuteCapHolds, EvaluatorLeavesRoom, DayIsCounted
<1>11. R1 + F <= CALLS_PER_MINUTE + A - 1 /\ RE1 + E <= EVALUATOR_PER_MINUTE
  <2> HIDE DEF F, E, A, R, RE, R1, RE1, T
  <2> QED
    BY <1>7, <1>8, <1>9, <1>10
<1>12. MinuteCapHolds' /\ EvaluatorLeavesRoom'
  BY <1>2, <1>11 DEF MinuteCapHolds, EvaluatorLeavesRoom
<1>13. Today \in Nat /\ Today' \in Nat /\ Today <= Today'
  BY <1>1, DaysGoOn DEF Today
<1>14. DayIsCounted'
  <2>1. CASE Today' = Today
    <3>1. TodaysCalls' = TodaysCalls
      BY <1>1, <2>1 DEF TodaysCalls
    <3> QED
      BY <1>1, <1>2, <1>10, <2>1, <3>1 DEF DayIsCounted
  <2>2. CASE Today' # Today
    <3>1. Today < Today' /\ jvDay <= Today' /\ jvDay # Today'
      BY <1>0, <1>10, <1>13, <2>2 DEF JvTypeOK
    <3>2. \A i \in DOMAIN jvCalls : jvCalls[i].at \div Day \in Nat /\ jvCalls[i].at \div Day <= Today
      BY <1>1, <1>3, DaysGoOn DEF Today
    <3>3. \A i \in DOMAIN jvCalls : jvCalls[i].at \div Day # Today'
      BY <1>13, <3>1, <3>2
    <3>4. TodaysCalls' = {}
      BY <1>1, <3>3 DEF TodaysCalls
    <3>5. Cardinality(TodaysCalls') = 0
      BY <3>4, FS_EmptySet
    <3>6. Cardinality(TodaysCalls') + F <= A
      <4> HIDE DEF F, A
      <4> QED
        BY <1>8, <3>5
    <3> QED
      BY <1>1, <1>2, <1>10, <3>1, <3>6 DEF DayIsCounted
  <2> QED
    BY <2>1, <2>2
<1> QED
  BY <1>4, <1>5, <1>12, <1>14 DEF JevInv

LEMMA JevStep == JevInv /\ [JvNext]_jvVars => JevInv'
<1> SUFFICES ASSUME JevInv, [JvNext]_jvVars PROVE JevInv'
  OBVIOUS
<1>0. JvTypeOK'
  BY JevTypeStep
<1>1. ASSUME NEW c \in Askers, NEW p \in PurposesHere, CapCheck(c, p) PROVE JevInv'
  BY <1>0, <1>1, CheckKeeps
<1>2. ASSUME NEW c \in Askers, Answered(c) PROVE JevInv'
  BY <1>0, <1>2, AnswerKeeps
<1>3. ASSUME NEW c \in Askers, NEW s \in Backoffs, RateLimited(c, s) PROVE JevInv'
  <2>1. s \in Nat /\ jvNow \in Nat /\ jvOpenUntil \in Nat /\ jvPromised \in Nat /\ jvPromised <= jvOpenUntil
    BY JevAssumption DEF JevInv, JvTypeOK, BackoffIsCovered
  <2>2. /\ jvOpenUntil' = Later(jvOpenUntil, jvNow + Later(1, s))
        /\ jvPromised' = Later(jvPromised, jvNow + s)
    BY <1>3 DEF RateLimited, TripBreaker
  <2>3. BackoffIsCovered'
    BY <2>1, <2>2 DEF BackoffIsCovered, Later
  <2> QED
    BY <1>0, <1>3, <2>3, ReturnKeeps DEF RateLimited
<1>4. ASSUME NEW c \in Askers, Failed(c) PROVE JevInv'
  <2>1. BackoffIsCovered'
    BY <1>4 DEF Failed, BackoffIsCovered, JevInv
  <2> QED
    BY <1>0, <1>4, <2>1, ReturnKeeps DEF Failed
<1>5. CASE Tick
  BY <1>0, <1>5, TickKeeps
<1>6. CASE UNCHANGED jvVars
  BY <1>6 DEF jvVars, JevInv, JvTypeOK, CallsAreOurs, BackoffIsCovered, MinuteCapHolds,
     EvaluatorLeavesRoom, DayIsCounted, Askers, PurposesHere, Recent, InFlight, TodaysCalls, Today
<1> QED
  BY <1>1, <1>2, <1>3, <1>4, <1>5, <1>6 DEF JvNext

LEMMA JevInit == JvInit => JevInv
<1> SUFFICES ASSUME JvInit PROVE JevInv
  OBVIOUS
<1>1. JvTypeOK
  BY DEF JvInit, JvTypeOK
<1>2. CallsAreOurs /\ BackoffIsCovered
  BY DEF JvInit, CallsAreOurs, BackoffIsCovered
<1>3. /\ InFlight(Purposes) = {} /\ InFlight({"evaluator"}) = {} /\ TodaysCalls = {}
      /\ Recent(Purposes) = {} /\ Recent({"evaluator"}) = {}
  BY PurposesAreNamed DEF JvInit, InFlight, Recent, TodaysCalls
<1>4. Cardinality({}) = 0
  BY FS_EmptySet
<1>5. Cardinality(Askers) \in Nat /\ Cardinality(Askers) >= 1
  BY <1>1, <1>2, AskersAreFinite
<1>6. {CALLS_PER_MINUTE, DAILY_CALL_CAP, EVALUATOR_PER_MINUTE} \subseteq Nat \ {0}
  BY JevAssumption
<1>7. MinuteCapHolds /\ EvaluatorLeavesRoom
  <2> DEFINE A == Cardinality(Askers)
  <2>1. 0 + 0 <= CALLS_PER_MINUTE + A - 1 /\ 0 + 0 <= EVALUATOR_PER_MINUTE
    <3> HIDE DEF A
    <3> QED
      BY <1>5, <1>6 DEF A
  <2> QED
    BY <1>3, <1>4, <2>1 DEF MinuteCapHolds, EvaluatorLeavesRoom
<1>8. Today \in Nat /\ jvDay = -1 /\ jvDayCalls = 0
  BY DaysGoOn DEF JvInit, Today
<1>9. DayIsCounted
  BY <1>3, <1>4, <1>5, <1>6, <1>8 DEF DayIsCounted
<1> QED
  BY <1>1, <1>2, <1>7, <1>9 DEF JevInv

THEOREM JevInvariant == JvSpec => []JevInv
  BY JevInit, JevStep, PTL DEF JvSpec

\* GatewayIsSpared, for any number of coroutines, any caps, windows and
\* backoffs: the minute's cap, the evaluator's and the day's hold up to the
\* calls that pass the check together, and no call starts before the latest
\* moment a 429 has asked for.
THEOREM GatewayIsLeftAlone == JvSpec => GatewayIsSpared
<1>1. JevInv => MinuteCapHolds /\ EvaluatorLeavesRoom /\ DayCapHolds
  <2> SUFFICES ASSUME JevInv PROVE DayCapHolds
    BY DEF JevInv
  <2> DEFINE A == Cardinality(Askers)
             F == Cardinality(InFlight(Purposes))
             T == Cardinality(TodaysCalls)
  <2>1. /\ jvDayCalls + F <= DAILY_CALL_CAP + A - 1
        /\ jvDay = Today => T <= jvDayCalls + A
        /\ jvDay # Today => T + F <= A
    BY DEF JevInv, DayIsCounted
  <2>2. A \in Nat /\ A >= 1 /\ F \in Nat /\ T \in Nat /\ jvDayCalls \in Nat
    BY PurposesAreNamed, AskersAreFinite, CallsAreFinite DEF JevInv, JvTypeOK
  <2>3. DAILY_CALL_CAP \in Nat /\ DAILY_CALL_CAP >= 1
    BY JevAssumption
  <2>4. T <= DAILY_CALL_CAP + 2 * A - 1
    <3> HIDE DEF A, F, T
    <3> QED
      BY <2>1, <2>2, <2>3
  <2> QED
    BY <2>4 DEF DayCapHolds
<1>2. JevInv /\ [JvNext]_jvVars
        => [\A c \in Coroutines : jvAsking[c] = "none" /\ jvAsking'[c] # "none" => jvNow >= jvPromised]_jvVars
  <2> SUFFICES ASSUME JevInv, JvNext, NEW c \in Coroutines, jvAsking[c] = "none", jvAsking'[c] # "none"
               PROVE  jvNow >= jvPromised
    OBVIOUS
  <2>0. /\ jvAsking \in [Coroutines -> Purposes \cup {"none"}] /\ Askers \subseteq Coroutines
        /\ jvNow \in Nat /\ jvOpenUntil \in Nat /\ jvPromised \in Nat /\ jvPromised <= jvOpenUntil
    BY AskersAreFinite DEF JevInv, JvTypeOK, BackoffIsCovered
  <2>1. \E d \in Askers, p \in PurposesHere : CapCheck(d, p)
    <3>1. ASSUME NEW d \in Askers, Answered(d) \/ (\E s \in Backoffs : RateLimited(d, s)) \/ Failed(d)
          PROVE  FALSE
      <4>1. jvAsking' = [jvAsking EXCEPT ![d] = "none"]
        BY <3>1 DEF Answered, RateLimited, Failed
      <4> QED
        BY <2>0, <4>1
    <3>2. ~Tick
      BY DEF Tick
    <3> QED
      BY <3>1, <3>2 DEF JvNext
  <2>2. jvNow >= jvOpenUntil
    BY <2>1 DEF CapCheck
  <2> QED
    BY <2>0, <2>2
<1> QED
  BY <1>1, <1>2, JevInvariant, PTL DEF JvSpec, GatewayIsSpared, BackoffIsHonoured
-----------------------------------------------------------------------------
(***************************************************************************)
(* The sessions of an account (Sessions).                                  *)
(***************************************************************************)

\* Writing a version over the one it was read from.
LEMMA BumpKeepsTokensBehind ==
  ASSUME SeTypeOK, TokensAreBehind, NEW version \in Nat, Bump(version),
         \/ UNCHANGED seIssued
         \/ seIssued' = seIssued \cup {version + 1}
  PROVE  TokensAreBehind' /\ seVersion' \in Nat /\ (seRevoked \subseteq Nat)' /\ seStale' \in BOOLEAN
<1>1. seVersion' \in Nat /\ (seRevoked \subseteq Nat)'
  BY DEF Bump, SeTypeOK
<1>2. seStale' \in BOOLEAN
  BY DEF Bump, SeTypeOK
<1>3. CASE seStale'
  BY <1>1, <1>2, <1>3 DEF TokensAreBehind
<1>4. CASE ~seStale'
  <2>1. version = seVersion /\ ~seStale /\ seVersion' = seVersion + 1
    BY <1>4 DEF Bump
  <2>2. \A v \in seIssued : v \in Nat /\ v <= seVersion
    BY <2>1 DEF TokensAreBehind, SeTypeOK
  <2>3. \A v \in seRevoked' : v < seVersion'
    BY <2>1, <2>2 DEF TokensAreBehind, SeTypeOK, Bump
  <2>4. \A v \in seIssued' : v <= seVersion'
    <3>1. seVersion \in Nat /\ \A v \in seIssued : v <= seVersion'
      BY <2>1, <2>2 DEF SeTypeOK
    <3> QED
      BY <2>1, <3>1
  <2> QED
    BY <1>1, <1>2, <2>3, <2>4 DEF TokensAreBehind
<1> QED
  BY <1>3, <1>4

LEMMA SessionsInit == SeInit => SessionsInv
<1> SUFFICES ASSUME SeInit PROVE SessionsInv
  OBVIOUS
<1>1. SeIdle \in RequestSteps
  BY DEF RequestSteps
<1>2. SeTypeOK
  BY <1>1 DEF SeInit, SeTypeOK
<1>3. TokensAreBehind
  BY DEF SeInit, TokensAreBehind
<1> QED
  BY <1>2, <1>3 DEF SeInit, SessionsInv, PasswordIsKept

LEMMA SessionsStep == SessionsInv /\ [SeNext]_seVars => SessionsInv'
<1> SUFFICES ASSUME SessionsInv, [SeNext]_seVars PROVE SessionsInv'
  OBVIOUS
<1>0. /\ seVersion \in Nat /\ seReq \in [Requests -> RequestSteps]
      /\ seIssued \subseteq Nat /\ seRevoked \subseteq Nat /\ seStale \in BOOLEAN
      /\ TokensAreBehind /\ seHash = seWanted /\ seMark = seEnv /\ SeTypeOK
  BY DEF SessionsInv, SeTypeOK, PasswordIsKept
<1> DEFINE Same == UNCHANGED <<seVersion, seIssued, seRevoked, seStale>>
           SamePassword == UNCHANGED <<seHash, seWanted, seMark, seEnv>>
<1>a. ASSUME Same, seReq' \in [Requests -> RequestSteps], SamePassword PROVE SessionsInv'
  <2>1. SeTypeOK'
    BY <1>0, <1>a DEF SeTypeOK
  <2>2. TokensAreBehind'
    BY <1>0, <1>a DEF TokensAreBehind
  <2> QED
    BY <1>0, <1>a, <2>1, <2>2 DEF SessionsInv, PasswordIsKept
<1>1. ASSUME NEW p \in Passwords, Login(p) PROVE SessionsInv'
  <2>1. seIssued' = seIssued \cup {seVersion} /\ UNCHANGED <<seVersion, seReq, seRevoked, seStale>> /\ SamePassword
    BY <1>1 DEF Login
  <2>2. SeTypeOK'
    BY <1>0, <2>1 DEF SeTypeOK
  <2>3. TokensAreBehind'
    BY <1>0, <2>1 DEF TokensAreBehind
  <2> QED
    BY <1>0, <2>1, <2>2, <2>3 DEF SessionsInv, PasswordIsKept
<1>2. ASSUME NEW p \in Passwords, Start(EnvHash(p)) PROVE SessionsInv'
  <2> DEFINE env == EnvHash(p)
  <2> HIDE DEF env
  <2>0. Start(env)
    BY <1>2 DEF env
  <2>1. seReq' \in [Requests -> RequestSteps] /\ seIssued' = seIssued /\ seEnv' = env
    BY <2>0 DEF Start, RequestSteps
  <2>2. CASE seMark = env
    <3>1. Same /\ SamePassword
      BY <1>0, <2>0, <2>1, <2>2 DEF Start, Sync
    <3> QED
      BY <1>a, <2>1, <3>1
  <2>3. CASE seMark # env
    <3>1. seHash' = env /\ seMark' = env /\ seWanted' = env
      BY <1>0, <2>0, <2>3 DEF Start, Sync
    <3>2. /\ TokensAreBehind' /\ seVersion' \in Nat /\ (seRevoked \subseteq Nat)'
          /\ seStale' \in BOOLEAN
      <4>1. CASE seHash # env
        <5>1. Bump(seVersion)
          BY <2>0, <2>3, <4>1 DEF Start, Sync
        <5> QED
          BY <1>0, <2>1, <5>1, BumpKeepsTokensBehind
      <4>2. CASE seHash = env
        <5>1. UNCHANGED <<seVersion, seRevoked, seStale>>
          BY <2>0, <2>3, <4>2 DEF Start, Sync
        <5> QED
          BY <1>0, <2>1, <5>1 DEF TokensAreBehind
      <4> QED
        BY <4>1, <4>2
    <3>3. SeTypeOK'
      BY <1>0, <2>1, <3>2 DEF SeTypeOK
    <3> QED
      BY <2>1, <3>1, <3>2, <3>3 DEF SessionsInv, PasswordIsKept
  <2> QED
    BY <2>2, <2>3
<1>3. ASSUME NEW q \in Requests, ResolveLogout(q) PROVE SessionsInv'
  <2>1. seReq' \in [Requests -> RequestSteps]
    BY <1>0, <1>3 DEF ResolveLogout, Resolve, RequestSteps
  <2> QED
    BY <1>a, <1>3, <2>1 DEF ResolveLogout, Resolve
<1>4. ASSUME NEW q \in Requests, NEW old \in Passwords, NEW new \in Passwords, ResolveChange(q, old, new)
      PROVE SessionsInv'
  <2>1. [step |-> "change", old |-> old, new |-> new] \in RequestSteps
    BY DEF RequestSteps
  <2>2. seReq' \in [Requests -> RequestSteps]
    BY <1>0, <1>4, <2>1 DEF ResolveChange, Resolve
  <2> QED
    BY <1>a, <1>4, <2>2 DEF ResolveChange, Resolve
<1>5. ASSUME NEW q \in Requests, Load(q) PROVE SessionsInv'
  <2> DEFINE loaded ==
        CASE seReq[q].step = "logout" -> [step |-> "bump", version |-> seVersion]
          [] seReq[q].step = "change" /\ seReq[q].old = seHash.pw ->
               [step |-> "rehash", version |-> seVersion, hash |-> WebHash(seReq[q].new)]
          [] OTHER -> SeIdle
  <2>1. loaded \in RequestSteps
    <3>1. CASE seReq[q].step = "logout"
      <4>1. loaded = [step |-> "bump", version |-> seVersion]
        BY <3>1
      <4> QED
        BY <1>0, <4>1 DEF RequestSteps
    <3>2. CASE seReq[q].step = "change" /\ seReq[q].old = seHash.pw
      <4>1. seReq[q] \in [step : {"change"}, old : Passwords, new : Passwords]
        BY <1>0, <3>2 DEF RequestSteps, SeIdle
      <4>2. seReq[q].new \in Passwords
        BY <4>1
      <4>3. loaded = [step |-> "rehash", version |-> seVersion, hash |-> WebHash(seReq[q].new)]
        BY <3>2
      <4> QED
        BY <1>0, <4>2, <4>3 DEF RequestSteps
    <3>3. CASE seReq[q].step # "logout" /\ ~(seReq[q].step = "change" /\ seReq[q].old = seHash.pw)
      <4>1. loaded = SeIdle
        BY <3>3
      <4> QED
        BY <4>1 DEF RequestSteps
    <3> QED
      BY <3>1, <3>2, <3>3
  <2>2. seReq' = [seReq EXCEPT ![q] = loaded]
    BY <1>5 DEF Load
  <2> HIDE DEF loaded
  <2>3. seReq' \in [Requests -> RequestSteps]
    BY <1>0, <2>1, <2>2
  <2> QED
    BY <1>a, <1>5, <2>3 DEF Load
<1>6. ASSUME NEW q \in Requests, CommitLogout(q) PROVE SessionsInv'
  <2>1. seReq[q].version \in Nat /\ Bump(seReq[q].version)
    BY <1>0, <1>6 DEF CommitLogout, RequestSteps, SeIdle
  <2>2. seReq' \in [Requests -> RequestSteps]
    BY <1>0, <1>6 DEF CommitLogout, RequestSteps
  <2>3. SamePassword /\ seIssued' = seIssued
    BY <1>6 DEF CommitLogout
  <2>4. TokensAreBehind' /\ seVersion' \in Nat /\ (seRevoked \subseteq Nat)' /\ seStale' \in BOOLEAN
    BY <1>0, <2>1, <2>3, BumpKeepsTokensBehind
  <2>5. SeTypeOK'
    BY <1>0, <2>2, <2>3, <2>4 DEF SeTypeOK
  <2> QED
    BY <1>0, <2>3, <2>4, <2>5 DEF SessionsInv, PasswordIsKept
<1>7. ASSUME NEW q \in Requests, CommitChange(q) PROVE SessionsInv'
  <2>1. seReq[q].version \in Nat /\ Bump(seReq[q].version)
    BY <1>0, <1>7 DEF CommitChange, RequestSteps, SeIdle
  <2>2. seReq' \in [Requests -> RequestSteps]
    BY <1>0, <1>7 DEF CommitChange, RequestSteps
  <2>3. /\ seHash' = seWanted' /\ seMark' = seEnv'
        /\ seIssued' = seIssued \cup {seReq[q].version + 1}
    BY <1>0, <1>7 DEF CommitChange
  <2>4. TokensAreBehind' /\ seVersion' \in Nat /\ (seRevoked \subseteq Nat)' /\ seStale' \in BOOLEAN
    BY <1>0, <2>1, <2>3, BumpKeepsTokensBehind
  <2>5. SeTypeOK'
    <3>1. (seIssued \subseteq Nat)'
      <4>1. seReq[q].version + 1 \in Nat
        BY <2>1
      <4>2. seIssued' \subseteq Nat
        BY <1>0, <4>1, <2>3, Zenon
      <4> QED
        BY <4>2
    <3> QED
      BY <2>2, <2>4, <3>1 DEF SeTypeOK
  <2> QED
    BY <2>3, <2>4, <2>5 DEF SessionsInv, PasswordIsKept
<1>8. CASE UNCHANGED seVars
  BY <1>0, <1>8, <1>a DEF seVars
<1> QED
  BY <1>1, <1>2, <1>3, <1>4, <1>5, <1>6, <1>7, <1>8 DEF SeNext

\* LastWordHolds, for any number of concurrent logouts and password changes,
\* any passwords and however often the API starts: a revoked token stays out
\* unless a bump was misplaced, and the password is the one last asked for.
THEOREM LastWordIsKept == SeSpec => []LastWordHolds
<1>1. SessionsInv => LastWordHolds
  BY DEF SessionsInv, SeTypeOK, TokensAreBehind, LastWordHolds, RevokedStaysOut
<1> QED
  BY <1>1, SessionsInit, SessionsStep, PTL DEF SeSpec

-----------------------------------------------------------------------------
(* The rate limit.  A burst is bounded because two counters at most have   *)
(* let something through that is still in the window: the present one, and *)
(* those before it, whose admissions leave before the present one ends.    *)

\* A time that enters a window is its youngest.
LEMMA Admitted ==
  ASSUME NEW w \in Seq(Ages), InOrder(w)
  PROVE  /\ Admit(w) \in Seq(Ages) /\ InOrder(Admit(w))
         /\ Len(Admit(w)) = Len(w) + 1
         /\ \A k \in 1 .. Len(w) : Admit(w)[k] = w[k]
<1>1. WINDOW \in Ages
  BY LimiterAssumption DEF Ages
<1>2. /\ Admit(w) \in Seq(Ages) /\ Len(Admit(w)) = Len(w) + 1
      /\ Len(w) \in Nat /\ DOMAIN w = 1 .. Len(w) /\ DOMAIN Admit(w) = 1 .. Len(w) + 1
      /\ \A k \in 1 .. Len(w) : Admit(w)[k] = w[k]
      /\ Admit(w)[Len(w) + 1] = WINDOW
  BY <1>1, AppendProperties DEF Admit
<1>3. \A k \in 1 .. Len(w) : w[k] \in Ages
  BY ElementOfSeq
<1>4. InOrder(Admit(w))
  <2> SUFFICES ASSUME NEW j \in 1 .. Len(w) + 1, NEW k \in 1 .. Len(w) + 1, j <= k
               PROVE  Admit(w)[j] <= Admit(w)[k]
    BY <1>2 DEF InOrder
  <2>1. CASE k \in 1 .. Len(w)
    <3>1. j \in 1 .. Len(w)
      BY <1>2, <2>1
    <3> QED BY <1>2, <2>1, <3>1 DEF InOrder
  <2>2. CASE k = Len(w) + 1 /\ j \in 1 .. Len(w)
    <3>1. w[j] <= WINDOW
      BY <1>3, <2>2, LimiterAssumption DEF Ages
    <3> QED BY <1>2, <2>2, <3>1
  <2>3. CASE k = Len(w) + 1 /\ j = Len(w) + 1
    BY <1>2, <2>3, LimiterAssumption
  <2> QED BY <1>2, <2>1, <2>2, <2>3
<1> QED BY <1>2, <1>4

\* After a tick the oldest are gone, exactly those that had one tick left.
LEMMA Aged ==
  ASSUME NEW w \in Seq(Ages), InOrder(w)
  PROVE  \E gone \in 0 .. Len(w) :
           /\ Older(w) \in Seq(Ages) /\ InOrder(Older(w))
           /\ Len(Older(w)) = Len(w) - gone
           /\ \A k \in 1 .. Len(w) - gone : Older(w)[k] = w[k + gone] - 1
           /\ \A k \in 1 .. Len(w) : w[k] = 1 => k <= gone
<1> DEFINE Due == {k \in DOMAIN w : w[k] = 1}
           gone == Cardinality(Due)
<1>1. Len(w) \in Nat /\ DOMAIN w = 1 .. Len(w) /\ \A k \in 1 .. Len(w) : w[k] \in Ages
  BY LenProperties, ElementOfSeq
<1>2. \A k \in Nat : IsFiniteSet(1 .. k) /\ Cardinality(1 .. k) = k
  BY FS_Interval
<1>3. IsFiniteSet(Due) /\ gone \in Nat /\ gone <= Len(w)
  <2>1. Due \subseteq 1 .. Len(w)
    BY <1>1
  <2> HIDE DEF Due
  <2>2. IsFiniteSet(Due) /\ Cardinality(Due) <= Cardinality(1 .. Len(w)) /\ Cardinality(Due) \in Nat
    BY <1>1, <1>2, <2>1, FS_Subset, FS_CardinalityType
  <2> QED BY <1>1, <1>2, <2>2
<1>4. ASSUME NEW k \in 1 .. Len(w), w[k] = 1 PROVE k <= gone
  <2>1. 1 .. k \subseteq Due
    <3> SUFFICES ASSUME NEW j \in 1 .. k PROVE j \in Due
      OBVIOUS
    <3>1. j \in 1 .. Len(w) /\ j <= k
      BY <1>1
    <3>2. w[j] <= w[k] /\ w[j] \in Ages
      BY <1>1, <3>1 DEF InOrder
    <3>3. w[j] = 1
      BY <1>4, <3>2 DEF Ages
    <3> QED BY <1>1, <3>1, <3>3
  <2> HIDE DEF Due
  <2>2. Cardinality(1 .. k) <= Cardinality(Due)
    BY <1>3, <2>1, FS_Subset
  <2>3. Cardinality(1 .. k) = k
    BY <1>2
  <2> QED BY <2>2, <2>3
<1>5. ASSUME NEW k \in 1 .. Len(w), k > gone PROVE w[k] - 1 \in Ages
  <2>1. w[k] \in Ages /\ w[k] # 1
    BY <1>1, <1>3, <1>4, <1>5
  <2> QED BY <2>1, LimiterAssumption DEF Ages
<1>6. Older(w) = [k \in 1 .. Len(w) - gone |-> w[k + gone] - 1]
  BY DEF Older
<1> HIDE DEF gone
<1>7. \A k \in 1 .. Len(w) - gone : k + gone \in 1 .. Len(w) /\ k + gone > gone
  BY <1>1, <1>3
<1>8. Older(w) \in Seq(Ages) /\ Len(Older(w)) = Len(w) - gone
  <2>1. Len(w) - gone \in Nat
    BY <1>1, <1>3
  <2>2. \A k \in 1 .. Len(w) - gone : Older(w)[k] \in Ages
    BY <1>5, <1>6, <1>7
  <2>3. Older(w) \in [1 .. Len(w) - gone -> Ages]
    BY <1>6, <2>2
  <2> QED BY <2>1, <2>3, SeqDef, LenProperties
<1>9. InOrder(Older(w))
  <2> SUFFICES ASSUME NEW j \in 1 .. Len(w) - gone, NEW k \in 1 .. Len(w) - gone, j <= k
               PROVE  Older(w)[j] <= Older(w)[k]
    BY <1>6 DEF InOrder
  <2>1. w[j + gone] <= w[k + gone]
    <3>1. j + gone \in DOMAIN w /\ k + gone \in DOMAIN w /\ j + gone <= k + gone
      BY <1>1, <1>3, <1>7
    <3> QED BY <3>1 DEF InOrder
  <2>2. w[j + gone] \in Int /\ w[k + gone] \in Int
    BY <1>1, <1>7 DEF Ages
  <2> QED BY <1>6, <2>1, <2>2
<1>10. gone \in 0 .. Len(w)
  BY <1>1, <1>3
<1>11. \A k \in 1 .. Len(w) - gone : Older(w)[k] = w[k + gone] - 1
  BY <1>6
<1> QED BY <1>4, <1>8, <1>9, <1>10, <1>11

\* What a step leaves of the counter and its key.
LEMMA KeyStep ==
  ASSUME LimiterInv, LiNext
  PROVE  /\ liCount' \in 0 .. RATE_LIMIT + 1 /\ liTtl' \in {NoTtl} \cup Ages
         /\ liPc' \in [Checks -> {"idle", "first"}] /\ KeyInv'
<1> USE LimiterAssumption
<1>t. /\ liCount \in 0 .. RATE_LIMIT + 1 /\ liTtl \in {NoTtl} \cup Ages
      /\ liPc \in [Checks -> {"idle", "first"}] /\ KeyInv
  BY DEF LimiterInv, LiTyped
<1>w. WINDOW \in Ages /\ NoTtl \notin Ages
  BY DEF Ages, NoTtl
<1>1. CASE LiTick
  <2>1. /\ liTtl' = IF liTtl \in {NoTtl, 1} THEN NoTtl ELSE liTtl - 1
        /\ liCount' = IF liTtl = 1 THEN 0 ELSE liCount
        /\ UNCHANGED liPc
    BY <1>1 DEF LiTick
  <2>2. liTtl' \in {NoTtl} \cup Ages /\ liCount' \in 0 .. RATE_LIMIT + 1
    BY <1>t, <2>1 DEF Ages, NoTtl
  <2>3. liTtl = NoTtl => liTtl' = NoTtl /\ liCount' = liCount
    BY <2>1 DEF NoTtl
  <2>4. liTtl # NoTtl => Pending = {} /\ (liCount' = 0 => liTtl' = NoTtl)
    BY <1>t, <2>1 DEF KeyInv
  <2>5. Pending' = Pending
    BY <2>1 DEF Pending
  <2> QED BY <1>t, <2>1, <2>2, <2>3, <2>4, <2>5 DEF KeyInv
<1>2. CASE LiRestart
  <2>1. UNCHANGED <<liCount, liTtl>> /\ liPc' = [c \in Checks |-> "idle"]
    BY <1>2 DEF LiRestart
  <2>2. Pending' = {}
    BY <2>1 DEF Pending
  <2> QED BY <1>t, <2>1, <2>2 DEF KeyInv
<1>3. ASSUME NEW c \in Checks, Incr(c) PROVE
         /\ liCount' \in 0 .. RATE_LIMIT + 1 /\ liTtl' \in {NoTtl} \cup Ages
         /\ liPc' \in [Checks -> {"idle", "first"}] /\ KeyInv'
  <2>1. /\ liCount' = (IF liCount + 1 > RATE_LIMIT THEN RATE_LIMIT + 1 ELSE liCount + 1)
        /\ liTtl' = liTtl
        /\ IF liCount = 0 THEN liPc' = [liPc EXCEPT ![c] = "first"] ELSE liPc' = liPc
    <3>1. liCount + 1 = 1 <=> liCount = 0
      BY <1>t
    <3> QED BY <1>3, <3>1 DEF Incr
  <2>2. liCount' \in 1 .. RATE_LIMIT + 1
    BY <1>t, <2>1
  <2>3. CASE liCount = 0
    <3>1. liTtl = NoTtl /\ Pending = {}
      BY <1>t, <2>3 DEF KeyInv
    <3>2. liPc' = [liPc EXCEPT ![c] = "first"]
      BY <2>1, <2>3
    <3>3. Pending' = {c}
      BY <1>t, <3>1, <3>2 DEF Pending
    <3> QED BY <1>t, <2>1, <2>2, <3>1, <3>2, <3>3 DEF KeyInv
  <2>4. CASE liCount # 0
    <3>1. Pending' = Pending
      BY <2>1, <2>4 DEF Pending
    <3>2. liCount' # 0
      BY <2>2
    <3> QED BY <1>t, <2>1, <2>2, <2>4, <3>1, <3>2 DEF KeyInv
  <2> QED BY <2>3, <2>4
<1>4. ASSUME NEW c \in Checks, Expire(c) \/ ExpireFails(c) PROVE
         /\ liCount' \in 0 .. RATE_LIMIT + 1 /\ liTtl' \in {NoTtl} \cup Ages
         /\ liPc' \in [Checks -> {"idle", "first"}] /\ KeyInv'
  <2>1. /\ liPc[c] = "first" /\ liPc' = [liPc EXCEPT ![c] = "idle"]
        /\ liTtl' \in {liTtl, WINDOW} /\ UNCHANGED liCount
    BY <1>4 DEF Expire, ExpireFails
  <2>2. Pending = {c}
    BY <1>t, <2>1 DEF KeyInv, Pending
  <2>3. Pending' = {}
    BY <1>t, <2>1, <2>2 DEF Pending
  <2> QED BY <1>t, <1>w, <2>1, <2>2, <2>3 DEF KeyInv
<1>5. ASSUME NEW c \in Checks, IncrFails(c) PROVE
         /\ liCount' \in 0 .. RATE_LIMIT + 1 /\ liTtl' \in {NoTtl} \cup Ages
         /\ liPc' \in [Checks -> {"idle", "first"}] /\ KeyInv'
  <2>1. /\ liCount' \in {liCount, IF liCount >= RATE_LIMIT THEN RATE_LIMIT + 1 ELSE liCount + 1}
        /\ UNCHANGED <<liTtl, liPc>>
    BY <1>5 DEF IncrFails
  <2>2. liCount' \in 0 .. RATE_LIMIT + 1 /\ (liCount' = 0 => liCount = 0)
    BY <1>t, <2>1
  <2>3. Pending' = Pending
    BY <2>1 DEF Pending
  <2> QED BY <1>t, <2>1, <2>2, <2>3 DEF KeyInv
<1> QED BY <1>1, <1>2, <1>3, <1>4, <1>5 DEF LiNext

\* What a step leaves of the windows: a time enters, all of them age, or none changes.
LEMMA WindowStep ==
  ASSUME LimiterInv, LiNext
  PROVE  /\ liByRedis' \in Seq(Ages) /\ InOrder(liByRedis')
         /\ liByMem' \in Seq(Ages) /\ InOrder(liByMem') /\ liMem' = liByMem'
         /\ Len(liByMem') <= RATE_LIMIT
<1>t. /\ liByRedis \in Seq(Ages) /\ InOrder(liByRedis)
      /\ liByMem \in Seq(Ages) /\ InOrder(liByMem) /\ liMem = liByMem
      /\ Len(liByMem) <= RATE_LIMIT /\ Len(liByMem) \in Nat /\ RATE_LIMIT \in Nat
  BY LenProperties, LimiterAssumption DEF LimiterInv, LiTyped
<1>1. liByRedis' \in {liByRedis, Admit(liByRedis), Older(liByRedis)}
  BY DEF LiNext, LiTick, LiRestart, Incr, Expire, IncrFails, ExpireFails, ByCounter
<1>2. /\ liMem' = liByMem'
      /\ \/ liByMem' \in {liByMem, <<>>, Older(liByMem)}
         \/ liByMem' = Admit(liByMem) /\ Len(liMem) < RATE_LIMIT
  <2>1. ASSUME ByMemory
        PROVE  /\ liMem' = liByMem'
               /\ liByMem' = liByMem \/ (liByMem' = Admit(liByMem) /\ Len(liMem) < RATE_LIMIT)
    <3>1. CASE Len(liMem) >= RATE_LIMIT
      <4>1. UNCHANGED <<liMem, liByMem>>
        BY <2>1, <3>1 DEF ByMemory
      <4>2. liMem' = liMem /\ liByMem' = liByMem
        BY <4>1
      <4> QED BY <1>t, <4>2
    <3>2. CASE ~(Len(liMem) >= RATE_LIMIT)
      <4>1. liMem' = Admit(liMem) /\ liByMem' = Admit(liByMem)
        BY <2>1, <3>2 DEF ByMemory
      <4>2. Len(liMem) < RATE_LIMIT
        BY <1>t, <3>2
      <4> QED BY <1>t, <4>1, <4>2
    <3> QED BY <3>1, <3>2
  <2>2. CASE LiTick
    BY <1>t, <2>2 DEF LiTick
  <2>3. CASE LiRestart
    BY <2>3 DEF LiRestart
  <2>4. ASSUME NEW c \in Checks, IncrFails(c) \/ ExpireFails(c) PROVE ByMemory
    BY <2>4 DEF IncrFails, ExpireFails
  <2>5. ASSUME NEW c \in Checks, Incr(c) \/ Expire(c) PROVE UNCHANGED <<liMem, liByMem>>
    BY <2>5 DEF Incr, Expire
  <2> QED BY <1>t, <2>1, <2>2, <2>3, <2>4, <2>5 DEF LiNext
<1>3. liByRedis' \in Seq(Ages) /\ InOrder(liByRedis')
  BY <1>t, <1>1, Admitted, Aged
<1>4. liByMem' \in Seq(Ages) /\ InOrder(liByMem') /\ Len(liByMem') <= RATE_LIMIT
  <2>1. CASE liByMem' = liByMem
    BY <1>t, <2>1
  <2>2. CASE liByMem' = <<>>
    <3>1. liByMem' \in Seq(Ages) /\ Len(liByMem') = 0 /\ DOMAIN liByMem' = {}
      BY <2>2, EmptySeq
    <3> QED BY <1>t, <3>1 DEF InOrder
  <2>3. CASE liByMem' = Older(liByMem)
    <3>1. PICK gone \in 0 .. Len(liByMem) :
            /\ Older(liByMem) \in Seq(Ages) /\ InOrder(Older(liByMem))
            /\ Len(Older(liByMem)) = Len(liByMem) - gone
      BY <1>t, Aged
    <3> QED BY <1>t, <2>3, <3>1
  <2>4. CASE liByMem' = Admit(liByMem) /\ Len(liMem) < RATE_LIMIT
    BY <1>t, <2>4, Admitted
  <2> QED BY <1>2, <2>1, <2>2, <2>3, <2>4
<1> QED BY <1>2, <1>3, <1>4

\* What a step leaves of the split of a window into earlier counters and the present one.
LEMMA SplitStep ==
  ASSUME LimiterInv, LiNext
  PROVE  (\E old \in 0 .. Len(liByRedis) : OfWindows(old))'
<1> USE LimiterAssumption
<1> DEFINE w == liByRedis
           asked == IF Pending = {} THEN 0 ELSE 1
<1>t. /\ liCount \in 0 .. RATE_LIMIT + 1 /\ liTtl \in {NoTtl} \cup Ages
      /\ w \in Seq(Ages) /\ InOrder(w) /\ Len(w) \in Nat /\ KeyInv /\ RATE_LIMIT \in Nat
      /\ \A k \in 1 .. Len(w) : w[k] \in Ages
  BY LenProperties, ElementOfSeq DEF LimiterInv, LiTyped
<1>o. PICK old \in 0 .. Len(w) : OfWindows(old)
  BY DEF LimiterInv
<1>p. /\ old <= RATE_LIMIT /\ old \in Nat
      /\ liTtl # NoTtl => \A k \in 1 .. old : w[k] <= liTtl
      /\ Len(w) - old + asked <= liCount /\ Len(w) - old <= RATE_LIMIT
      /\ asked = 1 /\ RATE_LIMIT > 0 => Len(w) - old < RATE_LIMIT
  BY <1>o DEF OfWindows
<1>1. CASE LiTick
  <2>1. /\ liTtl' = IF liTtl \in {NoTtl, 1} THEN NoTtl ELSE liTtl - 1
        /\ liCount' = IF liTtl = 1 THEN 0 ELSE liCount
        /\ liPc' = liPc /\ liByRedis' = Older(w)
    BY <1>1 DEF LiTick
  <2>2. PICK gone \in 0 .. Len(w) :
           /\ Len(Older(w)) = Len(w) - gone
           /\ \A k \in 1 .. Len(w) - gone : Older(w)[k] = w[k + gone] - 1
           /\ \A k \in 1 .. Len(w) : w[k] = 1 => k <= gone
    BY <1>t, Aged
  <2>3. Pending' = Pending
    BY <2>1 DEF Pending
  <2>4. CASE liTtl = 1
    <3>1. old <= gone
      <4>1. CASE old = 0
        BY <2>2, <4>1
      <4>2. CASE old # 0
        <5>1. old \in 1 .. old /\ old \in 1 .. Len(w)
          BY <1>p, <1>o, <4>2
        <5>2. w[old] = 1
          <6>1. liTtl # NoTtl
            BY <2>4 DEF NoTtl
          <6>2. w[old] <= 1 /\ w[old] \in Ages
            BY <1>p, <1>t, <2>4, <5>1, <6>1
          <6> QED BY <6>2 DEF Ages
        <5> QED BY <2>2, <5>1, <5>2
      <4> QED BY <4>1, <4>2
    <3>2. Pending = {} /\ liTtl' = NoTtl /\ liCount' = 0
      BY <1>t, <2>1, <2>4 DEF KeyInv, NoTtl
    <3>3. Len(liByRedis') \in Nat /\ Len(liByRedis') <= RATE_LIMIT
      BY <1>p, <1>t, <2>1, <2>2, <3>1
    <3>4. OfWindows(Len(liByRedis))'
      BY <2>3, <3>2, <3>3 DEF OfWindows
    <3> QED BY <3>3, <3>4
  <2>5. CASE liTtl # 1
    <3> DEFINE left == IF gone < old THEN old - gone ELSE 0
    <3>1. /\ left \in 0 .. Len(liByRedis') /\ left <= old
          /\ Len(liByRedis') - left <= Len(w) - old
          /\ Len(liByRedis') - left \in Nat
      BY <1>o, <1>p, <1>t, <2>1, <2>2
    <3>2. liCount' = liCount
      BY <2>1, <2>5
    <3>3. ASSUME liTtl' # NoTtl, NEW k \in 1 .. left PROVE liByRedis'[k] <= liTtl'
      <4>1. liTtl # NoTtl /\ liTtl' = liTtl - 1
        BY <2>1, <2>5, <3>3
      <4>2. k + gone \in 1 .. old /\ k \in 1 .. Len(w) - gone /\ k + gone \in 1 .. Len(w)
        BY <1>o, <1>p, <1>t, <2>2, <3>3
      <4>3. w[k + gone] <= liTtl /\ w[k + gone] \in Int /\ liTtl \in Int
        BY <1>p, <1>t, <4>1, <4>2 DEF Ages
      <4>4. liByRedis'[k] = w[k + gone] - 1
        BY <2>1, <2>2, <4>2
      <4> QED BY <4>1, <4>3, <4>4
    <3> HIDE DEF left
    <3>4. asked' = asked
      BY <2>3
    <3>5. Len(liByRedis') - left + asked <= liCount' /\ Len(liByRedis') - left <= RATE_LIMIT
          /\ (asked = 1 /\ RATE_LIMIT > 0 => Len(liByRedis') - left < RATE_LIMIT) /\ left <= RATE_LIMIT
      <4>1. PICK m, n : m = Len(liByRedis') - left /\ n = Len(w) - old
        OBVIOUS
      <4>2. m \in Nat /\ n \in Int /\ m <= n /\ left \in Int /\ left <= old
        BY <1>o, <1>t, <3>1, <4>1
      <4>3. n + asked <= liCount' /\ n <= RATE_LIMIT /\ (asked = 1 /\ RATE_LIMIT > 0 => n < RATE_LIMIT)
        BY <1>p, <3>2, <4>1
      <4>4. asked \in Int /\ liCount' \in Int /\ RATE_LIMIT \in Int /\ old \in Int /\ old <= RATE_LIMIT
        BY <1>p, <1>t, <3>2
      <4> HIDE DEF asked, w
      <4>5. m + asked <= liCount' /\ m <= RATE_LIMIT
            /\ (asked = 1 /\ RATE_LIMIT > 0 => m < RATE_LIMIT) /\ left <= RATE_LIMIT
        BY <4>2, <4>3, <4>4
      <4> QED BY <4>1, <4>5
    <3>6. OfWindows(left)'
      BY <3>3, <3>4, <3>5 DEF OfWindows
    <3> QED BY <3>1, <3>6
  <2> QED BY <2>4, <2>5
<1>2. CASE LiRestart
  <2>1. UNCHANGED <<liCount, liTtl, liByRedis>> /\ liPc' = [c \in Checks |-> "idle"]
    BY <1>2 DEF LiRestart
  <2>2. Pending' = {}
    BY <2>1 DEF Pending
  <2>3. Len(w) - old <= liCount
    BY <1>p, <1>t, <1>o
  <2>4. OfWindows(old)'
    BY <1>p, <1>t, <1>o, <2>1, <2>2, <2>3 DEF OfWindows
  <2> QED BY <2>1, <2>4
<1>a. /\ Admit(w) \in Seq(Ages) /\ Len(Admit(w)) = Len(w) + 1
      /\ \A k \in 1 .. Len(w) : Admit(w)[k] = w[k]
  BY <1>t, Admitted
<1>3. ASSUME NEW c \in Checks, Incr(c) PROVE (\E n \in 0 .. Len(liByRedis) : OfWindows(n))'
  <2>1. /\ liCount' = (IF liCount + 1 > RATE_LIMIT THEN RATE_LIMIT + 1 ELSE liCount + 1)
        /\ liTtl' = liTtl
        /\ IF liCount = 0
           THEN liPc' = [liPc EXCEPT ![c] = "first"] /\ liByRedis' = w
           ELSE liPc' = liPc /\ liByRedis' = IF liCount + 1 <= RATE_LIMIT THEN Admit(w) ELSE w
    <3>1. liCount + 1 = 1 <=> liCount = 0
      BY <1>t
    <3> QED BY <1>3, <3>1 DEF Incr, ByCounter
  <2>2. CASE liCount = 0
    <3>1. liTtl' = NoTtl /\ Pending = {} /\ liByRedis' = w
      BY <1>t, <2>1, <2>2 DEF KeyInv
    <3>2. Pending' = {c}
      <4>1. liPc \in [Checks -> {"idle", "first"}]
        BY DEF LimiterInv, LiTyped
      <4> QED BY <2>1, <2>2, <3>1, <4>1 DEF Pending
    <3>3. liCount' = 1
      BY <1>t, <2>1, <2>2
    <3>4. old = Len(w)
      BY <1>o, <1>p, <1>t, <2>2, <3>1
    <3>5. OfWindows(old)'
      BY <1>p, <1>t, <3>1, <3>2, <3>3, <3>4 DEF OfWindows
    <3> QED BY <3>1, <3>5
  <2>3. CASE liCount # 0
    <3>1. Pending' = Pending /\ liTtl' = liTtl
      BY <2>1, <2>3 DEF Pending
    <3>2. asked \in {0, 1} /\ asked' = asked
      BY <3>1
    <3> HIDE DEF asked
    <3>3. CASE liCount + 1 <= RATE_LIMIT
      <4>1. liByRedis' = Admit(w) /\ liCount' = liCount + 1
        BY <1>t, <2>1, <2>3, <3>3
      <4>2. /\ old \in 0 .. Len(liByRedis')
            /\ Len(liByRedis') - old + asked' <= liCount' /\ Len(liByRedis') - old <= RATE_LIMIT
            /\ asked' = 1 /\ RATE_LIMIT > 0 => Len(liByRedis') - old < RATE_LIMIT
        BY <1>a, <1>o, <1>p, <1>t, <3>2, <3>3, <4>1
      <4>3. liTtl' # NoTtl => \A k \in 1 .. old : liByRedis'[k] <= liTtl'
        <5>1. \A k \in 1 .. old : k \in 1 .. Len(w)
          BY <1>o, <1>t
        <5> QED BY <1>a, <1>p, <3>1, <4>1, <5>1
      <4>4. OfWindows(old)'
        BY <1>p, <4>2, <4>3 DEF OfWindows, asked
      <4> QED BY <4>2, <4>4
    <3>4. CASE ~(liCount + 1 <= RATE_LIMIT)
      <4>1. liByRedis' = w /\ liCount' \in Int /\ liCount <= liCount'
        BY <1>t, <2>1, <2>3, <3>4
      <4>2. Len(w) - old + asked' <= liCount'
        BY <1>o, <1>p, <1>t, <3>2, <4>1
      <4>3. OfWindows(old)'
        BY <1>p, <3>1, <3>2, <4>1, <4>2 DEF OfWindows, asked
      <4> QED BY <4>1, <4>3
    <3> QED BY <3>3, <3>4
  <2> QED BY <2>2, <2>3
<1>4. ASSUME NEW c \in Checks, Expire(c) \/ ExpireFails(c)
      PROVE (\E n \in 0 .. Len(liByRedis) : OfWindows(n))'
  <2>1. /\ liPc[c] = "first" /\ liPc' = [liPc EXCEPT ![c] = "idle"]
        /\ liTtl' \in {liTtl, WINDOW} /\ liCount' = liCount
        /\ liByRedis' = w \/ (liByRedis' = Admit(w) /\ 1 <= RATE_LIMIT)
    <3>1. CASE Expire(c)
      BY <3>1 DEF Expire, ByCounter
    <3>2. CASE ExpireFails(c)
      <4>1. /\ liPc[c] = "first" /\ liPc' = [liPc EXCEPT ![c] = "idle"]
            /\ liTtl' = WINDOW \/ UNCHANGED liTtl
            /\ UNCHANGED <<liCount, liByRedis>>
        BY <3>2 DEF ExpireFails
      <4> QED BY <4>1
    <3> QED BY <1>4, <3>1, <3>2
  <2>2. asked = 1
    BY <2>1 DEF Pending
  <2>3. Pending' = {}
    <3>1. Pending = {c}
      BY <1>t, <2>1 DEF KeyInv, Pending
    <3>2. liPc \in [Checks -> {"idle", "first"}]
      BY DEF LimiterInv, LiTyped
    <3> QED BY <2>1, <3>1, <3>2 DEF Pending
  <2>4. /\ old \in 0 .. Len(liByRedis')
        /\ Len(liByRedis') - old <= liCount' /\ Len(liByRedis') - old <= RATE_LIMIT
    BY <1>a, <1>o, <1>p, <1>t, <2>1, <2>2
  <2>5. \A k \in 1 .. old : k \in 1 .. Len(w) /\ liByRedis'[k] = w[k] /\ w[k] <= WINDOW
    <3>1. \A k \in 1 .. old : k \in 1 .. Len(w)
      BY <1>o, <1>t
    <3>2. \A k \in 1 .. Len(w) : w[k] <= WINDOW
      BY <1>t DEF Ages
    <3>3. \A k \in 1 .. Len(w) : liByRedis'[k] = w[k]
      BY <1>a, <2>1
    <3> QED BY <3>1, <3>2, <3>3
  <2>6. liTtl' # NoTtl => \A k \in 1 .. old : liByRedis'[k] <= liTtl'
    BY <1>p, <2>1, <2>5
  <2>7. OfWindows(old)'
    <3>1. asked' = 0
      BY <2>3
    <3>2. Len(liByRedis') - old + asked' <= liCount'
      BY <1>o, <1>a, <2>1, <2>4, <3>1
    <3> QED BY <1>p, <2>4, <2>6, <3>1, <3>2 DEF OfWindows
  <2> QED BY <2>4, <2>7
<1>5. ASSUME NEW c \in Checks, IncrFails(c) PROVE (\E n \in 0 .. Len(liByRedis) : OfWindows(n))'
  <2>1. /\ liCount' \in {liCount, IF liCount >= RATE_LIMIT THEN RATE_LIMIT + 1 ELSE liCount + 1}
        /\ UNCHANGED <<liTtl, liPc, liByRedis>>
    BY <1>5 DEF IncrFails
  <2>2. liCount' \in Int /\ liCount <= liCount'
    BY <1>t, <2>1
  <2>3. Pending' = Pending
    BY <2>1 DEF Pending
  <2>4. asked \in Int /\ asked' = asked
    BY <2>3
  <2> HIDE DEF asked
  <2>5. Len(w) - old + asked' <= liCount'
    BY <1>o, <1>p, <1>t, <2>2, <2>4
  <2>6. OfWindows(old)'
    BY <1>p, <2>1, <2>4, <2>5 DEF OfWindows, asked
  <2> QED BY <2>1, <2>6
<1> QED BY <1>1, <1>2, <1>3, <1>4, <1>5 DEF LiNext

LEMMA LimiterBegins == LiInit => LimiterInv
<1> SUFFICES ASSUME LiInit PROVE LimiterInv
  OBVIOUS
<1>1. /\ liByRedis = <<>> /\ liMem = <<>> /\ liByMem = <<>> /\ liCount = 0 /\ liTtl = NoTtl
      /\ liPc \in [Checks -> {"idle", "first"}] /\ Pending = {}
  BY DEF LiInit, Pending
<1>2. <<>> \in Seq(Ages) /\ Len(<<>>) = 0 /\ InOrder(<<>>)
  BY EmptySeq DEF InOrder
<1>3. LiTyped /\ KeyInv
  BY <1>1, <1>2, LimiterAssumption DEF LiTyped, KeyInv
<1>4. OfWindows(0)
  BY <1>1, <1>2, LimiterAssumption DEF OfWindows
<1> QED BY <1>1, <1>2, <1>3, <1>4, LimiterAssumption DEF LimiterInv

LEMMA LimiterStep == LimiterInv /\ [LiNext]_liVars => LimiterInv'
<1>1. ASSUME LimiterInv, LiNext PROVE LimiterInv'
  BY <1>1, KeyStep, WindowStep, SplitStep DEF LimiterInv, LiTyped
<1>2. ASSUME LimiterInv, UNCHANGED liVars PROVE LimiterInv'
  BY <1>2 DEF liVars, LimiterInv, LiTyped, KeyInv, OfWindows, Pending
<1> QED BY <1>1, <1>2

(* LimiterInv is invariant, whatever commands fail and processes die.      *)
THEOREM LimiterInvariant == LiSpec => []LimiterInv
<1> QED BY LimiterBegins, LimiterStep, PTL DEF LiSpec

(* RateLimiter.check admits at most twice the limit within one window's    *)
(* time by its counter in Redis, and at most the limit by its memory,      *)
(* however many checks overlap and whatever commands fail in between.      *)
THEOREM BurstsAreBounded == LiSpec => []BurstIsBounded
<1>1. LimiterInv => BurstIsBounded
  <2> SUFFICES ASSUME LimiterInv PROVE BurstIsBounded
    OBVIOUS
  <2>1. PICK old \in 0 .. Len(liByRedis) : OfWindows(old)
    BY DEF LimiterInv
  <2>2. Len(liByRedis) \in Nat /\ Len(liByMem) <= RATE_LIMIT
    BY LenProperties DEF LimiterInv, LiTyped
  <2>3. old <= RATE_LIMIT /\ Len(liByRedis) - old <= RATE_LIMIT
    BY <2>1 DEF OfWindows
  <2>4. Len(liByRedis) <= 2 * RATE_LIMIT
    BY <2>2, <2>3, LimiterAssumption
  <2> QED BY <2>2, <2>4 DEF BurstIsBounded
<1> QED BY <1>1, LimiterInvariant, PTL
=============================================================================
