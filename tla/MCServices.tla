---------------------------- MODULE MCServices ------------------------------
(***************************************************************************)
(* The services around the runs, for TLC: the outbox, the event log and    *)
(* its stream, the webhook inbox and the memory.  Each works on tables of  *)
(* its own, so a behaviour of this module is a behaviour of the one named  *)
(* by "service"; the others stay in their initial states.                  *)
(***************************************************************************)
EXTENDS Outbox, EventLog, Inbox, Memory

CONSTANT Services

VARIABLE service

serviceVars == <<service, vars, elVars, inVars, meVars>>

ServiceInit ==
    /\ service \in Services
    /\ Init /\ ElInit /\ InInit /\ MeInit

ServiceNext ==
    /\ UNCHANGED service
    /\ \/ service = "outbox" /\ Next /\ UNCHANGED <<elVars, inVars, meVars>>
       \/ service = "events" /\ ElNext /\ UNCHANGED <<vars, inVars, meVars>>
       \/ service = "inbox" /\ InNext /\ UNCHANGED <<vars, elVars, meVars>>
       \/ service = "memory" /\ MeNext /\ UNCHANGED <<vars, elVars, inVars>>

\* The fairness of each of them (ElFairness, InFairness, MeFairness), for the one that runs.
ServiceFairness ==
    /\ WF_vars(service = "outbox" /\ Pass /\ UNCHANGED <<service, elVars, inVars, meVars>>)
    /\ \A i \in Rows :
         WF_vars(service = "outbox" /\ NotBeforePasses(i) /\ UNCHANGED <<service, elVars, inVars, meVars>>)
    /\ \A t \in Tabs :
         WF_elVars(service = "events" /\ Follow(t) /\ UNCHANGED <<service, vars, inVars, meVars>>)
    /\ \A h \in Handlers :
         WF_inVars(service = "inbox" /\ InStep(h) /\ UNCHANGED <<service, vars, elVars, meVars>>)
    /\ \A u \in Updates :
         WF_inVars(/\ service = "inbox" /\ \E h \in Handlers : Deliver(h, u)
                   /\ UNCHANGED <<service, vars, elVars, meVars>>)
    /\ WF_meVars(service = "memory" /\ Maintenance /\ UNCHANGED <<service, vars, elVars, inVars>>)

ServiceSpec == ServiceInit /\ [][ServiceNext]_serviceVars /\ ServiceFairness
=============================================================================
