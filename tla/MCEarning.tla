----------------------------- MODULE MCEarning ------------------------------
(***************************************************************************)
(* The earning programs for TLC.  They are separate programs with separate *)
(* state files and share nothing, so a behaviour of this module is a       *)
(* behaviour of one of them, named by "program"; the others stay in their  *)
(* initial states.                                                         *)
(***************************************************************************)
EXTENDS ComputeSpend, BlockRewards, Kibble, Trader, Close1

CONSTANT Programs

VARIABLE program

earningVars == <<program, csVars, brVars, kbVars, trVars, clVars>>

MCMarkets == <<"m02", "m03", "m16">>
MCNested == <<[narrow |-> "m02", wide |-> "m03", chain |-> TRUE],
              [narrow |-> "m16", wide |-> "m03", chain |-> FALSE]>>
MCRoomOffers == <<[id |-> "x", side |-> "sell", px |-> 3],
                  [id |-> "y", side |-> "sell", px |-> 2],
                  [id |-> "z", side |-> "buy", px |-> 9]>>

EarningInit ==
    /\ program \in Programs
    /\ CsInit /\ BrInit /\ KbInit /\ TrInit /\ ClInit
    /\ program # "flop_compute" =>
          csEnv = [enabled |-> TRUE, gateway |-> TRUE, node |-> TRUE, chain |-> TRUE, dest |-> TRUE]

EarningNext ==
    /\ UNCHANGED program
    /\ \/ program = "flop_compute" /\ CsNext /\ UNCHANGED <<brVars, kbVars, trVars, clVars>>
       \/ program = "blockrewards" /\ BrNext /\ UNCHANGED <<csVars, kbVars, trVars, clVars>>
       \/ program = "kibble" /\ KbNext /\ UNCHANGED <<csVars, brVars, trVars, clVars>>
       \/ program = "trader" /\ TrNext /\ UNCHANGED <<csVars, brVars, kbVars, clVars>>
       \/ program = "close1" /\ ClNext /\ UNCHANGED <<csVars, brVars, kbVars, trVars>>

EarningSpec == EarningInit /\ [][EarningNext]_earningVars
=============================================================================
