------------------------------ MODULE MCWatch -------------------------------
(***************************************************************************)
(* The watch for TLC: the scorer, which evaluates the rooms' messages, the *)
(* source monitor, and the digests, which report what the two have found.  *)
(* The digests see of them only rows that commit some time after they were *)
(* made, as module Digest has them, so a behaviour of this module is a     *)
(* behaviour of the one named by "watcher"; the others stay in their       *)
(* initial states.                                                         *)
(***************************************************************************)
EXTENDS RoomScorer, Sources, Digest

CONSTANT Watchers

VARIABLE watcher

watchVars == <<watcher, vars, srVars, dgVars>>

MCByName == <<"s1", "s2", "s3">>
MCByTitle == <<"d1">>

WatchInit == watcher \in Watchers /\ Init /\ SrInit /\ DgInit

WatchNext ==
    /\ UNCHANGED watcher
    /\ \/ watcher = "scorer" /\ Next /\ UNCHANGED <<srVars, dgVars>>
       \/ watcher = "sources" /\ SrNext /\ UNCHANGED <<vars, dgVars>>
       \/ watcher = "digest" /\ DgNext /\ UNCHANGED <<vars, srVars>>

\* The fairness of each of them (Spec, SrFairness), for the one that runs.
WatchFairness ==
    /\ WF_watchVars(watcher = "scorer" /\ Step /\ UNCHANGED <<watcher, srVars, dgVars>>)
    /\ WF_watchVars(watcher = "sources" /\ Pass /\ UNCHANGED <<watcher, vars, dgVars>>)
    /\ \A s \in SourceSet :
         WF_watchVars(watcher = "sources" /\ BackoffEnds(s) /\ UNCHANGED <<watcher, vars, dgVars>>)

WatchSpec == WatchInit /\ [][WatchNext]_watchVars /\ WatchFairness
=============================================================================
