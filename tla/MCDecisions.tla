---------------------------- MODULE MCDecisions -----------------------------
(***************************************************************************)
(* The decisions for TLC: the run coordinator, the transcript fold, the    *)
(* message evaluator, the Jev client, the gate in front of an accept, the  *)
(* solver, and what lets a request in: sessions and the rate limiter.      *)
(* They keep no state in common, so a behaviour of this module is a        *)
(* behaviour of the one named by "part".                                   *)
(***************************************************************************)
EXTENDS Coordinator, Fold, Evaluator, JevClient, OfferGate, Solver, Sessions, Limiter

CONSTANT Parts

VARIABLE part

decisionVars == <<part, vars, fdVars, evVars, jvVars, ogVars, slVars, seVars, liVars>>

\* Probability tables with mass on the lowest tier, another one, or neither.
MCTables ==
    {NoTable} \cup {[t \in 0 .. 3 |-> IF t = k THEN a ELSE IF t = 0 THEN b ELSE 0] :
                       k \in 0 .. 3, a \in {0, 4000, 10000}, b \in {0, 4000}}

MCLower == [r \in Rails |-> IF r = "HTLC" THEN "htlc" ELSE r]

\* 41^2 = 1681 is the least composite that trial division does not find.
MCNumbers == (1 .. 130) \cup (1660 .. 1860)

MCNumerals == {<<"4">>, <<"4", "1">>}
MCWords == {<<"r", "o", "w", "s">>, <<"f", "o", "u", "n", "d">>} \cup MCNumerals

DecisionInit ==
    /\ part \in Parts
    /\ Init /\ FdInit /\ SlInit /\ LiInit
    /\ EvInit /\ (part # "evaluator" => evCfg = [jev |-> FALSE, llm |-> FALSE, escalate |-> FALSE])
    /\ JvInit /\ (part # "jev" => jvProcess = "api")
    /\ SeInit /\ (part # "sessions" => seEnv = EnvHash(CHOOSE p \in Passwords : TRUE))
    /\ OgInit /\ (part # "gate" => ogPolicy = CHOOSE p \in Policies : TRUE)

DecisionNext ==
    /\ UNCHANGED part
    /\ \/ part = "coordinator" /\ Next /\ UNCHANGED <<fdVars, evVars, jvVars, ogVars, slVars, seVars, liVars>>
       \/ part = "fold" /\ FdNext /\ UNCHANGED <<vars, evVars, jvVars, ogVars, slVars, seVars, liVars>>
       \/ part = "evaluator" /\ EvNext /\ UNCHANGED <<vars, fdVars, jvVars, ogVars, slVars, seVars, liVars>>
       \/ part = "jev" /\ JvNext /\ UNCHANGED <<vars, fdVars, evVars, ogVars, slVars, seVars, liVars>>
       \/ part = "gate" /\ OgNext /\ UNCHANGED <<vars, fdVars, evVars, jvVars, slVars, seVars, liVars>>
       \/ part = "solver" /\ SlNext /\ UNCHANGED <<vars, fdVars, evVars, jvVars, ogVars, seVars, liVars>>
       \/ part = "sessions" /\ SeNext /\ UNCHANGED <<vars, fdVars, evVars, jvVars, ogVars, slVars, liVars>>
       \/ part = "limiter" /\ LiNext /\ UNCHANGED <<vars, fdVars, evVars, jvVars, ogVars, slVars, seVars>>

\* The limiter's time passes, and its EXPIRE follows its INCR.
Elsewhere == <<part, vars, fdVars, evVars, jvVars, ogVars, slVars, seVars>>
DecisionSpec ==
    /\ DecisionInit /\ [][DecisionNext]_decisionVars
    /\ WF_liVars(part = "limiter" /\ LiTick /\ UNCHANGED Elsewhere)
    /\ \A c \in Checks : WF_liVars(part = "limiter" /\ Expire(c) /\ UNCHANGED Elsewhere)
=============================================================================
