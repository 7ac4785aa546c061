--------------------------- MODULE ApprovedAction ---------------------------
(***************************************************************************)
(* What the approval service promises for each action that needs a human:  *)
(* somebody asks once, somebody decides at most once, a granted approval is*)
(* spent at most once, the action behind it happens at most once and only  *)
(* after it was spent, and a report that it was done is never wrong.  Such *)
(* a report may be withdrawn, to "unknown", only by somebody who saw it    *)
(* open before it was made.  No queues, leases, workers or crashes.        *)
(***************************************************************************)
EXTENDS Naturals

CONSTANT Actions

VARIABLES
  permit,  \* per action: where its approval stands
  done,    \* per action: has it happened
  report,  \* per action: what the system says about it
  doubted  \* actions whose open report somebody has seen and may write off

vars == <<permit, done, report, doubted>>

Init ==
  /\ permit = [a \in Actions |-> "none"]
  /\ done = [a \in Actions |-> 0]
  /\ report = [a \in Actions |-> "none"]
  /\ doubted = {}

Ask(a) ==
  /\ permit[a] = "none"
  /\ permit' = [permit EXCEPT ![a] = "asked"]
  /\ UNCHANGED <<done, report, doubted>>

Decide(a, d) ==
  /\ permit[a] = "asked"
  /\ d \in {"granted", "refused"}
  /\ permit' = [permit EXCEPT ![a] = d]
  /\ UNCHANGED <<done, report, doubted>>

Spend(a) ==
  /\ permit[a] = "granted"
  /\ permit' = [permit EXCEPT ![a] = "spent"]
  /\ report' = [report EXCEPT ![a] = "open"]
  /\ UNCHANGED <<done, doubted>>

Act(a) ==
  /\ permit[a] = "spent"
  /\ done[a] = 0
  /\ done' = [done EXCEPT ![a] = 1]
  /\ UNCHANGED <<permit, report, doubted>>

ReportDone(a) ==
  /\ done[a] = 1
  /\ report[a] \in {"open", "unknown"}
  /\ report' = [report EXCEPT ![a] = "done"]
  /\ UNCHANGED <<permit, done, doubted>>

ReportUnknown(a) ==
  /\ report[a] = "open"
  /\ report' = [report EXCEPT ![a] = "unknown"]
  /\ UNCHANGED <<permit, done, doubted>>

\* Somebody sees the report open, and later writes it off or gives up.
Doubt(a) ==
  /\ report[a] = "open" /\ a \notin doubted
  /\ doubted' = doubted \cup {a}
  /\ UNCHANGED <<permit, done, report>>

WriteOff(a) ==
  /\ a \in doubted
  /\ doubted' = doubted \ {a}
  /\ report' = [report EXCEPT ![a] = "unknown"]
  /\ UNCHANGED <<permit, done>>

GiveUp(a) ==
  /\ a \in doubted
  /\ doubted' = doubted \ {a}
  /\ UNCHANGED <<permit, done, report>>

Next ==
  \E a \in Actions :
    \/ Ask(a) \/ Spend(a) \/ Act(a) \/ ReportDone(a) \/ ReportUnknown(a)
    \/ Doubt(a) \/ WriteOff(a) \/ GiveUp(a)
    \/ \E d \in {"granted", "refused"} : Decide(a, d)

Spec == Init /\ [][Next]_vars
=============================================================================
