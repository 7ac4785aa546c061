------------------------------- MODULE Close1 -------------------------------
(***************************************************************************)
(* The close-1 runner (apps/earn/close1.py): an invocation either takes    *)
(* somebody's offer (--auto) or posts an offer of our own (--offer).  What *)
(* was taken and offered is one JSON file, read at the start and written   *)
(* back whole after the post, in place: a death in the middle of the write *)
(* leaves a file that cannot be read, which counts as an empty one.  An    *)
(* invocation may also raise at a post or die before it writes, and        *)
(* nothing keeps two of them apart.                                        *)
(***************************************************************************)
EXTENDS Integers, Sequences

CONSTANTS
    Calls,      \* invocations of the runner, each made once
    RoomOffers, \* the offers in the room, in order: [id, side, px]
    Lo, Hi,     \* the referee's price limits
    TARGET,     \* contracts to offer in total
    Quantities  \* values of --qty

ASSUME Close1Assumption ==
    /\ RoomOffers \in Seq([id : {RoomOffers[k].id : k \in DOMAIN RoomOffers}, side : {"buy", "sell"}, px : Nat])
    /\ {Lo, Hi, TARGET} \subseteq Nat /\ Quantities \subseteq Nat

VARIABLES
    clTaken,    \* the file: ids taken and quantities offered
    clPc, clMine, clPick,  \* per invocation: step, its copy of the file, its choice
    clTrades,   \* history: trades posted per offer id
    clOffered,  \* history: contracts in offers of ours that reached our room
    clUnsaved,  \* history: trades and contracts posted and not in the file, or no longer
    clOverlap   \* history: two invocations ran at once

clVars == <<clTaken, clPc, clMine, clPick, clTrades, clOffered, clUnsaved, clOverlap>>

OfferIds == {RoomOffers[k].id : k \in DOMAIN RoomOffers}
NoPick == [kind |-> "none"]
EmptyFile == [ids |-> {}, offered |-> 0]

ClInit ==
    /\ clTaken = EmptyFile
    /\ clPc = [i \in Calls |-> "idle"]
    /\ clMine = [i \in Calls |-> clTaken]
    /\ clPick = [i \in Calls |-> NoPick]
    /\ clTrades = [d \in OfferIds |-> 0]
    /\ clOffered = 0
    /\ clUnsaved = [trades |-> [d \in OfferIds |-> 0], qty |-> 0]
    /\ clOverlap = FALSE

ClRunning == {i \in Calls : clPc[i] \in {"ready", "posted"}}

(* load_taken: the file, or nothing while another invocation writes it.    *)
load_taken == {clTaken} \cup {EmptyFile : i \in {j \in Calls : clPc[j] = "posted"}}

(* view: the last price against its mean and against a week ago.           *)
view(enough, trend, momentum) ==
    IF enough /\ trend > 0 /\ momentum > 0 THEN "buy"
    ELSE IF enough /\ trend < 0 /\ momentum < 0 THEN "sell"
    ELSE "flat"

\* Mutant: taken offers are not left out.
CandidatesTaken(side, taken) ==
    {k \in DOMAIN RoomOffers : /\ RoomOffers[k].side = (IF side = "buy" THEN "sell" ELSE "buy")
                               /\ Lo <= RoomOffers[k].px /\ RoomOffers[k].px <= Hi}

(* auto's choice among the positions in the room: offers of the other      *)
(* side, inside the limits and not taken; a buyer keeps the cheapest, and  *)
(* of equals, as a seller always does, the first.                          *)
Candidates(side, taken) ==
    {k \in DOMAIN RoomOffers : /\ RoomOffers[k].side = (IF side = "buy" THEN "sell" ELSE "buy")
                               /\ Lo <= RoomOffers[k].px /\ RoomOffers[k].px <= Hi
                               /\ RoomOffers[k].id \notin taken.ids}

Cheapest(offers) == {k \in offers : \A j \in offers : RoomOffers[k].px <= RoomOffers[j].px}
First(offers) == CHOOSE k \in offers : \A j \in offers : k <= j
BestOf(side, offers) == RoomOffers[First(IF side = "buy" THEN Cheapest(offers) ELSE offers)]

-----------------------------------------------------------------------------
AutoBegin(i) ==
    /\ clPc[i] = "idle"
    /\ \E enough \in BOOLEAN, trend, momentum \in -1 .. 1, file \in load_taken :
          LET side == view(enough, trend, momentum)
              offers == Candidates(side, file)
              found == side # "flat" /\ offers # {}
          IN  /\ clPc' = [clPc EXCEPT ![i] = IF found THEN "ready" ELSE "done"]
              /\ clPick' = [clPick EXCEPT ![i] = IF found THEN [kind |-> "trade", id |-> BestOf(side, offers).id]
                                                 ELSE @]
              /\ clMine' = [clMine EXCEPT ![i] = file]
    /\ clOverlap' = (clOverlap \/ ClRunning # {})
    /\ UNCHANGED <<clTaken, clTrades, clOffered, clUnsaved>>

(* offer: what is still missing to TARGET, at a price inside the limits.   *)
OfferBegin(i) ==
    /\ clPc[i] = "idle"
    /\ \E qty \in Quantities, p \in {Lo, Hi + 1}, file \in load_taken :
          LET rest == TARGET - file.offered
              ok == file.offered < TARGET /\ Lo <= p /\ p <= Hi /\ p > 0
          IN  /\ clPc' = [clPc EXCEPT ![i] = IF ok THEN "ready" ELSE "done"]
              /\ clPick' = [clPick EXCEPT ![i] = IF ok THEN [kind |-> "offer", qty |-> IF qty < rest THEN qty ELSE rest]
                                                 ELSE @]
              /\ clMine' = [clMine EXCEPT ![i] = file]
    /\ clOverlap' = (clOverlap \/ ClRunning # {})
    /\ UNCHANGED <<clTaken, clTrades, clOffered, clUnsaved>>

(* signed_post: the line lands and the call returns, or the call raises,   *)
(* with the line landed or not, and the invocation ends unrecorded.  (An   *)
(* offer is posted to two rooms; our own comes first.)                     *)
Landed(i) ==
    /\ clTrades' = IF clPick[i].kind = "trade" THEN [clTrades EXCEPT ![clPick[i].id] = @ + 1] ELSE clTrades
    /\ clOffered' = IF clPick[i].kind = "offer" THEN clOffered + clPick[i].qty ELSE clOffered

Forgotten(i) ==
    clUnsaved' = IF clPick[i].kind = "trade"
                 THEN [clUnsaved EXCEPT !.trades[clPick[i].id] = @ + 1]
                 ELSE [clUnsaved EXCEPT !.qty = @ + clPick[i].qty]

PostLine(i) ==
    /\ clPc[i] = "ready"
    /\ \/ Landed(i) /\ clPc' = [clPc EXCEPT ![i] = "posted"] /\ UNCHANGED clUnsaved
       \/ Landed(i) /\ Forgotten(i) /\ clPc' = [clPc EXCEPT ![i] = "done"]
       \/ clPc' = [clPc EXCEPT ![i] = "done"] /\ UNCHANGED <<clTrades, clOffered, clUnsaved>>
    /\ UNCHANGED <<clTaken, clMine, clPick, clOverlap>>

(* save_taken writes back the copy read at the start, with the new entry.  *)
Recorded(i) ==
    IF clPick[i].kind = "trade"
    THEN [clMine[i] EXCEPT !.ids = @ \cup {clPick[i].id}]
    ELSE [clMine[i] EXCEPT !.offered = @ + clPick[i].qty]

SaveTaken(i) ==
    /\ clPc[i] = "posted"
    /\ clTaken' = Recorded(i)
    /\ clPc' = [clPc EXCEPT ![i] = "done"]
    /\ UNCHANGED <<clMine, clPick, clTrades, clOffered, clUnsaved, clOverlap>>

DieUnsaved(i) ==
    /\ clPc[i] = "posted"
    /\ Forgotten(i)
    /\ clPc' = [clPc EXCEPT ![i] = "done"]
    /\ UNCHANGED <<clTaken, clMine, clPick, clTrades, clOffered, clOverlap>>

(* A death in the middle of the write takes with it all that was written.  *)
DieSaving(i) ==
    /\ clPc[i] = "posted"
    /\ clTaken' = EmptyFile
    /\ clUnsaved' = [trades |-> [d \in OfferIds |-> IF d \in Recorded(i).ids THEN clUnsaved.trades[d] + 1
                                                    ELSE clUnsaved.trades[d]],
                     qty |-> clUnsaved.qty + Recorded(i).offered]
    /\ clPc' = [clPc EXCEPT ![i] = "done"]
    /\ UNCHANGED <<clMine, clPick, clTrades, clOffered, clOverlap>>

ClNext ==
    \E i \in Calls :
        \/ AutoBegin(i) \/ OfferBegin(i) \/ PostLine(i)
        \/ SaveTaken(i) \/ DieUnsaved(i) \/ DieSaving(i)

ClSpec == ClInit /\ [][ClNext]_clVars

-----------------------------------------------------------------------------
(* offer aims "for TARGET and stop": as long as no two invocations ran at  *)
(* once, the contracts offered exceed TARGET by no more than what a post   *)
(* that raised or a death before or within the write kept out of the file. *)
TargetHolds == ~clOverlap => clOffered <= TARGET + clUnsaved.qty

(* auto takes an offer once, under the same proviso: a second trade of the *)
(* same id needs a first one that was not recorded, or whose record went   *)
(* with the file.                                                          *)
OfferTakenOnce ==
    ~clOverlap => \A d \in OfferIds : clTrades[d] <= 1 + clUnsaved.trades[d]

(* What the file has recorded is neither offered nor taken again.           *)
DealsAreCounted == TargetHolds /\ OfferTakenOnce
-----------------------------------------------------------------------------
(* The inductive invariant.  An invocation that runs alone works on a copy *)
(* of the file that is still the file, and between its post and its save   *)
(* what it posted is neither in the file nor counted as unsaved.  What a   *)
(* lost file held is counted once more for each id, which is enough.       *)
File == [ids : SUBSET OfferIds, offered : Nat]
Trades == [kind : {"trade"}, id : OfferIds]
Offering == [kind : {"offer"}, qty : Nat]

ClTypeOK ==
    /\ clTaken \in File /\ clMine \in [Calls -> File]
    /\ clPc \in [Calls -> {"idle", "ready", "posted", "done"}]
    /\ clPick \in [Calls -> {NoPick} \cup Trades \cup Offering]
    /\ clTrades \in [OfferIds -> Nat] /\ clOffered \in Nat
    /\ clUnsaved \in [trades : [OfferIds -> Nat], qty : Nat]
    /\ clOverlap \in BOOLEAN
    /\ \A i \in ClRunning : clPick[i] # NoPick

RunsAlone ==
    /\ \A i, j \in ClRunning : i = j
    /\ \A i \in ClRunning :
          /\ clMine[i] = clTaken
          /\ clPick[i].kind = "trade" => clPick[i].id \notin clTaken.ids
          /\ clPick[i].kind = "offer" => clTaken.offered + clPick[i].qty <= TARGET
    /\ clTaken.offered <= TARGET

Posted(i, kind) == clPc[i] = "posted" /\ clPick[i].kind = kind
InFlight(d) == \E i \in Calls : Posted(i, "trade") /\ clPick[i].id = d

PostsAreCounted ==
    /\ \A d \in OfferIds :
          /\ clTrades[d] <= 1 + clUnsaved.trades[d]
          /\ clTrades[d] <= clUnsaved.trades[d] \/ d \in clTaken.ids \/ InFlight(d)
    /\ clOffered <= clTaken.offered + clUnsaved.qty \/ \E i \in Calls : Posted(i, "offer")
    /\ \A i \in Calls : Posted(i, "offer") => clOffered <= clTaken.offered + clUnsaved.qty + clPick[i].qty

CloseInv == ClTypeOK /\ (~clOverlap => RunsAlone /\ PostsAreCounted)
=============================================================================
