------------------------------ MODULE EventFeed -----------------------------
(***************************************************************************)
(* What the run events promise whoever follows them: the log grows at its  *)
(* end only, the events of a run are numbered in its order, and a reader   *)
(* gets one event after the other, always the next one there is, starting  *)
(* where a reader noted that it had come to.                               *)
(***************************************************************************)
EXTENDS Integers

CONSTANT Readers

VARIABLES
  log,    \* the events: a run, a number in that run, an id
  from,   \* per reader: the id it was opened with
  upto,   \* per reader: the id of the last event it got
  got,    \* per reader: the ids it got since it was opened
  noted   \* the id a reader that is opened starts with

vars == <<log, from, upto, got, noted>>

Init ==
  /\ log = {} /\ noted = 0
  /\ from = [t \in Readers |-> 0] /\ upto = [t \in Readers |-> 0]
  /\ got = [t \in Readers |-> {}]

\* The events of each run are numbered 0, 1, 2, ... in the order of their ids.
Numbered(events) ==
  /\ \A e \in events : \A n \in 0 .. e.seq - 1 : \E f \in events : f.run = e.run /\ f.seq = n
  /\ \A e, f \in events : e.g = f.g => e = f
  /\ \A e, f \in events : e.run = f.run => (e.g < f.g <=> e.seq < f.seq)

Grow ==
  /\ log \subseteq log' /\ log' # log
  /\ \A e \in log' \ log : \A f \in log : f.g < e.g
  /\ Numbered(log')
  /\ UNCHANGED <<from, upto, got, noted>>

Read(t) ==
  \E e \in log :
    /\ upto[t] < e.g
    /\ \A f \in log : upto[t] < f.g => e.g <= f.g
    /\ upto' = [upto EXCEPT ![t] = e.g]
    /\ got' = [got EXCEPT ![t] = @ \cup {e.g}]
    /\ noted' = e.g
    /\ UNCHANGED <<log, from>>

\* A reader is opened anew.
Start(t) ==
  /\ from' = [from EXCEPT ![t] = noted] /\ upto' = [upto EXCEPT ![t] = noted]
  /\ got' = [got EXCEPT ![t] = {}]
  /\ UNCHANGED <<log, noted>>

Next == Grow \/ \E t \in Readers : Read(t) \/ Start(t)

Spec == Init /\ [][Next]_vars
=============================================================================
