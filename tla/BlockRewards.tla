---------------------------- MODULE BlockRewards ----------------------------
(***************************************************************************)
(* The block-reward worker (apps/earn/blockrewards.py): it reads offers    *)
(* from the board and tasks from the feed, accepts an offer, delivers the  *)
(* answer in the deal's own room and, once the payer has locked the        *)
(* payment, reveals the claim.  The whole state is one dictionary, written *)
(* to disk every SaveEvery rounds: a restart goes back to the last save.   *)
(*                                                                         *)
(* A contract is <<offer, n>>, the n-th accept of that offer (the nonce    *)
(* makes each one different).  Posts may fail, and one that fails may have *)
(* reached its room; reads that fail return nothing and are a step that    *)
(* does not happen.                                                        *)
(***************************************************************************)
EXTENDS Integers, Sequences, FiniteSets, SequencesExt

CONSTANTS
    Offers,      \* offer ids
    Payouts,     \* the offers that look like a payout of the house
    PER_HOUR,    \* accepts per hour
    WorkingKeep, \* how many offer ids the "working" list keeps
    SaveEvery,   \* rounds between two saves
    MaxLocks,    \* bound: frames posted about deals
    MaxRounds,   \* bound: rounds of the first process, each next one has one fewer
    BrMaxCrashes, BrMaxFailures

ASSUME RewardsAssumption == WorkingKeep \in Nat

VARIABLES
    brBoard,   \* the board room: offer frames and stray frames about deals
    brFeed,    \* the feed room: one line per offer
    brRoom,    \* [contract -> frames in the deal room]
    brMem,     \* the worker's dictionary
    brPending, \* the in-memory deals: [contract -> phase]
    brDisk,    \* the dictionary as last saved
    brKeep,    \* tasks of this round's queue that stay queued
    brPc, brRound,
    brAccepts,   \* history: accepts that reached the board, per offer
    brDelivered, \* history: contracts whose delivery was posted
    brRevealed,  \* history: contract -> the frame that triggered the claim
    brMissed,    \* history: contracts whose reveal was due and failed
    brUnsaved,   \* history: contracts delivered since the last save
    brLost,      \* history: contracts delivered that the worker knows nothing of
    brCut,       \* history: offers this process cut from "working"
    brCrashes, brFailures

brWorld == <<brBoard, brFeed, brRoom>>
brWorker == <<brMem, brPending, brDisk, brKeep, brPc, brRound>>
brDeals == <<brAccepts, brDelivered, brRevealed, brMissed>>
brRecords == <<brUnsaved, brLost, brCut>>
brHistory == <<brDeals, brRecords>>
brVars == <<brWorld, brWorker, brHistory, brCrashes, brFailures>>

\* An offer is accepted again only after a crash or a failed post.
Contracts == Offers \X (1 .. BrMaxCrashes + BrMaxFailures + 1)
NoDeals == [c \in Contracts |-> "none"]

(* A frame of a deal room: a lock that passes _lock_verified (signed, on   *)
(* one of our rails, naming this deal, from the offer's payer), one that   *)
(* does not, or the payer's refund.                                        *)
DealFrames == {"verified", "unverified", "refund"}
lock_verified(frame) == frame = "verified"

EmptyState ==
    [backfill_done |-> FALSE, board_since |-> 0, feed_since |-> 0, seen |-> {}, done |-> {},
     offers |-> {}, queue |-> <<>>, accepts |-> 0, working |-> <<>>, payouts_seen |-> {},
     room_since |-> [c \in Contracts |-> 0], pending |-> NoDeals]

BrInit ==
    /\ brBoard = <<>> /\ brFeed = <<>>
    /\ brRoom = [c \in Contracts |-> <<>>]
    /\ brMem = EmptyState /\ brDisk = EmptyState
    /\ brPending = NoDeals /\ brKeep = <<>>
    /\ brPc = "backfill" /\ brRound = 1
    /\ brAccepts = [o \in Offers |-> 0]
    /\ brDelivered = {} /\ brMissed = {} /\ brUnsaved = {} /\ brLost = {} /\ brCut = {}
    /\ brRevealed = NoDeals
    /\ brCrashes = 0 /\ brFailures = 0

PostFails == brFailures < BrMaxFailures /\ brFailures' = brFailures + 1
PostWorks == UNCHANGED brFailures

-----------------------------------------------------------------------------
(* The world: offers are announced (on the feed too, or not), payers lock, *)
(* refund, or post frames about a deal on the board, out of protocol.      *)
OfferFrame(o) == [kind |-> "offer", o |-> o]

Announce(o) ==
    /\ ~ Contains(brBoard, OfferFrame(o))
    /\ brBoard' = Append(brBoard, OfferFrame(o))
    /\ brFeed' \in {brFeed, Append(brFeed, o)}
    /\ UNCHANGED <<brRoom, brWorker, brHistory, brCrashes, brFailures>>

DealFramesPosted ==
    Len(SelectSeq(brBoard, LAMBDA e : e.kind # "offer"))
    + FoldSet(LAMBDA c, n : n + Len(brRoom[c]), 0, Contracts)

PostFrame(c) ==
    /\ c[2] <= brAccepts[c[1]] /\ DealFramesPosted < MaxLocks
    /\ \/ \E f \in DealFrames : brRoom' = [brRoom EXCEPT ![c] = Append(@, f)]
          /\ UNCHANGED brBoard
       \/ \E k \in {"lock", "reveal"} : brBoard' = Append(brBoard, [kind |-> k, c |-> c])
          /\ UNCHANGED brRoom
    /\ UNCHANGED <<brFeed, brWorker, brHistory, brCrashes, brFailures>>

-----------------------------------------------------------------------------
(* reveal: the phase changes only when the post succeeds; one that fails   *)
(* may have been read all the same.  "mem" is the dictionary with the      *)
(* caller's cursor already moved.                                          *)
reveal(c, frame, mem) ==
    \/ /\ PostWorks
       /\ brPending' = [brPending EXCEPT ![c] = "revealed"]
       /\ brMem' = [mem EXCEPT !.pending[c] = "revealed"]
       /\ brRevealed' = [brRevealed EXCEPT ![c] = frame]
       /\ UNCHANGED brMissed
    \/ /\ PostFails
       /\ brMem' = mem /\ brMissed' = brMissed \cup {c}
       /\ brRevealed' \in {brRevealed, [brRevealed EXCEPT ![c] = frame]}
       /\ UNCHANGED brPending

(* receipt: only the in-memory phase follows.                              *)
receipt(c, mem) ==
    /\ brMem' = mem
    /\ \/ PostWorks /\ brPending' = [brPending EXCEPT ![c] = "receipted"]
       \/ PostFails /\ UNCHANGED brPending
    /\ UNCHANGED <<brRevealed, brMissed>>

(* backfill: once per state file, the offers already on the board are      *)
(* cached, the cursor jumps to its end and the state is saved.             *)
Backfill ==
    /\ brPc = "backfill"
    /\ brPc' = "board"
    /\ IF brMem.backfill_done \/ brBoard = <<>>
       THEN UNCHANGED <<brMem, brDisk, brUnsaved>>
       ELSE /\ brMem' = [brMem EXCEPT !.backfill_done = TRUE, !.board_since = Len(brBoard),
                            !.offers = @ \cup {o \in Offers : Contains(brBoard, OfferFrame(o))}]
            /\ brDisk' = brMem' /\ brUnsaved' = {}
    /\ UNCHANGED <<brWorld, brPending, brKeep, brRound, brDeals, brLost, brCut, brCrashes, brFailures>>

(* scan_board, one frame: an offer is cached; a lock of a delivered deal   *)
(* triggers the claim, without _lock_verified.                             *)
ScanBoard ==
    LET frame == brBoard[brMem.board_since + 1]
        mem == [brMem EXCEPT !.board_since = @ + 1]
    IN  /\ brPc = "board" /\ brMem.board_since < Len(brBoard)
        /\ \/ /\ frame.kind = "offer"
              /\ brMem' = [mem EXCEPT !.offers = @ \cup {frame.o}]
              /\ UNCHANGED <<brPending, brRevealed, brMissed, brFailures>>
           \/ /\ frame.kind = "lock" /\ brPending[frame.c] = "delivered"
              /\ reveal(frame.c, "board", mem)
           \/ /\ frame.kind = "reveal" /\ brPending[frame.c] = "revealed"
              /\ receipt(frame.c, mem)
           \/ /\ frame.kind = "lock" => brPending[frame.c] # "delivered"
              /\ frame.kind = "reveal" => brPending[frame.c] # "revealed"
              /\ frame.kind # "offer"
              /\ brMem' = mem
              /\ UNCHANGED <<brPending, brRevealed, brMissed, brFailures>>
        /\ UNCHANGED <<brWorld, brDisk, brKeep, brPc, brRound, brAccepts, brDelivered, brRecords, brCrashes>>

BoardRead ==
    /\ brPc = "board" /\ brMem.board_since = Len(brBoard)
    /\ brPc' = "feed"
    /\ UNCHANGED <<brWorld, brMem, brPending, brDisk, brKeep, brRound, brHistory, brCrashes, brFailures>>

(* scan_feed: ids not seen before are queued; "working" is cut to its last *)
(* entries.                                                                *)
LastN(s, n) == IF Len(s) <= n THEN s ELSE SubSeq(s, Len(s) - n + 1, Len(s))

ScanFeed ==
    LET lines == SubSeq(brFeed, brMem.feed_since + 1, Len(brFeed))
        fresh == SelectSeq(lines, LAMBDA o : o \notin brMem.seen)
    IN  /\ brPc = "feed"
        /\ brMem' = [brMem EXCEPT !.seen = @ \cup Range(fresh), !.queue = @ \o fresh,
                        !.working = LastN(@, WorkingKeep), !.feed_since = Len(brFeed)]
        /\ brCut' = brCut \cup (Range(brMem.working) \ Range(LastN(brMem.working, WorkingKeep)))
        /\ brPc' = "work" /\ brKeep' = <<>>
        /\ UNCHANGED <<brWorld, brPending, brDisk, brRound, brDeals, brUnsaved, brLost, brCrashes, brFailures>>

\* Mutant: the "working" list is not asked.
accept_and_deliver_unmarked(o, mem) ==
    LET c == <<o, brAccepts[o] + 1>>
        marked == [mem EXCEPT !.working = Append(@, o)]
        accepted == [marked EXCEPT !.accepts = @ + 1, !.pending[c] = "accepted"]
    IN  \/ /\ o \in mem.done
           /\ brMem' = mem
           /\ UNCHANGED <<brPending, brAccepts, brDelivered, brUnsaved, brLost, brFailures>>
        \/ /\ o \notin mem.done
           /\ \/ /\ PostFails
                 /\ brMem' = marked
                 /\ brAccepts' \in {brAccepts, [brAccepts EXCEPT ![o] = @ + 1]}
                 /\ UNCHANGED <<brPending, brDelivered, brUnsaved, brLost>>
              \/ /\ PostFails
                 /\ brMem' = accepted
                 /\ brPending' = [brPending EXCEPT ![c] = "accepted"]
                 /\ brAccepts' = [brAccepts EXCEPT ![o] = @ + 1]
                 /\ \/ UNCHANGED <<brDelivered, brLost>>
                    \/ brDelivered' = brDelivered \cup {c} /\ brLost' = brLost \cup {c}
                 /\ UNCHANGED brUnsaved
              \/ /\ PostWorks
                 /\ brMem' = [accepted EXCEPT !.pending[c] = "delivered", !.done = @ \cup {o}]
                 /\ brPending' = [brPending EXCEPT ![c] = "delivered"]
                 /\ brAccepts' = [brAccepts EXCEPT ![o] = @ + 1]
                 /\ brDelivered' = brDelivered \cup {c} /\ brUnsaved' = brUnsaved \cup {c}
                 /\ UNCHANGED brLost

(* accept_and_deliver: the offer is marked as worked first, and the mark   *)
(* stays when the accept fails.  A failed accept may be on the board, under *)
(* a contract this worker forgets.  A failed delivery leaves the deal      *)
(* accepted for good, even when it is in the room.                         *)
accept_and_deliver(o, mem) ==
    LET c == <<o, brAccepts[o] + 1>>
        marked == [mem EXCEPT !.working = Append(@, o)]
        accepted == [marked EXCEPT !.accepts = @ + 1, !.pending[c] = "accepted"]
    IN  \/ /\ o \in mem.done \/ Contains(mem.working, o)
           /\ brMem' = mem
           /\ UNCHANGED <<brPending, brAccepts, brDelivered, brUnsaved, brLost, brFailures>>
        \/ /\ o \notin mem.done /\ ~Contains(mem.working, o)
           /\ \/ /\ PostFails
                 /\ brMem' = marked
                 /\ brAccepts' \in {brAccepts, [brAccepts EXCEPT ![o] = @ + 1]}
                 /\ UNCHANGED <<brPending, brDelivered, brUnsaved, brLost>>
              \/ /\ PostFails
                 /\ brMem' = accepted
                 /\ brPending' = [brPending EXCEPT ![c] = "accepted"]
                 /\ brAccepts' = [brAccepts EXCEPT ![o] = @ + 1]
                 /\ \/ UNCHANGED <<brDelivered, brLost>>
                    \/ brDelivered' = brDelivered \cup {c} /\ brLost' = brLost \cup {c}
                 /\ UNCHANGED brUnsaved
              \/ /\ PostWorks
                 /\ brMem' = [accepted EXCEPT !.pending[c] = "delivered", !.done = @ \cup {o}]
                 /\ brPending' = [brPending EXCEPT ![c] = "delivered"]
                 /\ brAccepts' = [brAccepts EXCEPT ![o] = @ + 1]
                 /\ brDelivered' = brDelivered \cup {c} /\ brUnsaved' = brUnsaved \cup {c}
                 /\ UNCHANGED brLost

(* run's queue loop and work, one task: it expired or has no exact answer  *)
(* (dropped), it must wait (the hour is full, the offer or its spec is     *)
(* missing), or it is taken.                                               *)
Work ==
    LET o == Head(brMem.queue)
        mem == [brMem EXCEPT !.queue = Tail(@)]
    IN  /\ brPc = "work" /\ brMem.queue # <<>>
        /\ \/ /\ brMem' = mem /\ UNCHANGED <<brKeep, brPending, brAccepts, brDelivered, brUnsaved, brLost, brFailures>>
           \/ /\ brMem' = mem /\ brKeep' = Append(brKeep, o)
              /\ UNCHANGED <<brPending, brAccepts, brDelivered, brUnsaved, brLost, brFailures>>
           \/ /\ brMem.accepts < PER_HOUR /\ o \in brMem.offers
              /\ accept_and_deliver(o, mem)
              /\ UNCHANGED brKeep
        /\ UNCHANGED <<brWorld, brDisk, brPc, brRound, brRevealed, brMissed, brCut, brCrashes>>

QueueDone ==
    /\ brPc = "work" /\ brMem.queue = <<>>
    /\ brMem' = [brMem EXCEPT !.queue = brKeep] /\ brKeep' = <<>>
    /\ brPc' = "payouts"
    /\ UNCHANGED <<brWorld, brPending, brDisk, brRound, brHistory, brCrashes, brFailures>>

(* scan_payouts: every cached payout offer is claimed once, whatever the   *)
(* hour cap says.                                                          *)
UnseenPayouts == (brMem.offers \cap Payouts) \ (brMem.done \cup brMem.payouts_seen)

ScanPayouts ==
    /\ brPc = "payouts"
    /\ \E o \in UnseenPayouts :
          accept_and_deliver(o, [brMem EXCEPT !.payouts_seen = @ \cup {o}])
    /\ UNCHANGED <<brWorld, brDisk, brKeep, brPc, brRound, brRevealed, brMissed, brCut, brCrashes>>

PayoutsDone ==
    /\ brPc = "payouts" /\ UnseenPayouts = {}
    /\ brPc' = "rooms"
    /\ UNCHANGED <<brWorld, brMem, brPending, brDisk, brKeep, brRound, brHistory, brCrashes, brFailures>>

(* scan_deal_rooms, one frame of an open deal: a verified lock of a        *)
(* delivered deal triggers the claim, a refund closes the deal in memory.  *)
(* A deal that is neither accepted nor delivered any more is not read: its *)
(* remaining frames would change nothing but the phase.                    *)
Unread == {c \in Contracts : /\ brPending[c] \in {"accepted", "delivered"}
                             /\ brMem.room_since[c] < Len(brRoom[c])}

ScanDealRoom(c) ==
    LET frame == brRoom[c][brMem.room_since[c] + 1]
        mem == [brMem EXCEPT !.room_since[c] = @ + 1]
    IN  /\ brPc = "rooms" /\ c \in Unread
        /\ \/ /\ lock_verified(frame) /\ brPending[c] = "delivered"
              /\ reveal(c, frame, mem)
           \/ /\ frame = "refund"
              /\ brMem' = mem /\ brPending' = [brPending EXCEPT ![c] = "refunded"]
              /\ UNCHANGED <<brRevealed, brMissed, brFailures>>
           \/ /\ frame # "refund" /\ ~(lock_verified(frame) /\ brPending[c] = "delivered")
              /\ brMem' = mem
              /\ UNCHANGED <<brPending, brRevealed, brMissed, brFailures>>
        /\ UNCHANGED <<brWorld, brDisk, brKeep, brPc, brRound, brAccepts, brDelivered, brRecords, brCrashes>>

(* run: the end of a round; every SaveEvery rounds the state is saved.  An *)
(* hour may have passed by the next one.                                   *)
EndRound ==
    /\ brPc = "rooms" /\ Unread = {} /\ brRound < MaxRounds - brCrashes
    /\ IF brRound % SaveEvery = 0
       THEN brDisk' = brMem /\ brUnsaved' = {}
       ELSE UNCHANGED <<brDisk, brUnsaved>>
    /\ \E n \in {brMem.accepts, 0} : brMem' = [brMem EXCEPT !.accepts = n]
    /\ brRound' = brRound + 1 /\ brPc' = "board"
    /\ UNCHANGED <<brWorld, brPending, brKeep, brDeals, brLost, brCut, brCrashes, brFailures>>

\* Mutant: deals that were only accepted are recovered as delivered.
recover_pending_accepted(disk) ==
    [c \in Contracts |-> IF disk.pending[c] \in {"accepted", "delivered"} THEN "delivered" ELSE "none"]

(* The process dies at any point; the next one loads the last save and     *)
(* _recover_pending rebuilds the delivered deals, and only those.          *)
recover_pending(disk) ==
    [c \in Contracts |-> IF disk.pending[c] = "delivered" THEN "delivered" ELSE "none"]

BrRestart ==
    /\ brCrashes < BrMaxCrashes
    /\ brCrashes' = brCrashes + 1
    /\ brMem' = brDisk
    /\ brPending' = recover_pending(brDisk)
    /\ brKeep' = <<>> /\ brPc' = "backfill" /\ brRound' = 1
    /\ brLost' = brLost \cup brUnsaved /\ brUnsaved' = {} /\ brCut' = {}
    /\ UNCHANGED <<brWorld, brDisk, brDeals, brFailures>>

BrNext ==
    \/ \E o \in Offers : Announce(o)
    \/ \E c \in Contracts : PostFrame(c) \/ ScanDealRoom(c)
    \/ Backfill \/ ScanBoard \/ BoardRead \/ ScanFeed \/ Work \/ QueueDone
    \/ ScanPayouts \/ PayoutsDone \/ EndRound \/ BrRestart

BrSpec == BrInit /\ [][BrNext]_brVars

-----------------------------------------------------------------------------
(* "no duplicate deals" (accept_and_deliver): an offer whose deal is in    *)
(* the saved state is never accepted again, by this process or, after a    *)
(* crash, by the next one.  A delivered deal is kept for good, one that was *)
(* only tried until the list that remembers it is cut.                     *)
SavedDealIsNotRepeated ==
    [][\A o \in Offers :
          o \in brDisk.done \/ (Contains(brDisk.working, o) /\ o \notin brCut)
          => brAccepts'[o] = brAccepts[o]]_brVars

(* The claim is revealed only for a deal whose answer was delivered, also  *)
(* when the deal was recovered from the state file.                        *)
RevealFollowsDelivery ==
    \A c \in Contracts : brRevealed[c] # "none" => c \in brDelivered

(* A payer's verified lock is not passed over: when the cursor of the deal *)
(* room is beyond one and the deal still waits, its reveal was tried and   *)
(* failed.  Across restarts this needs the phase and the cursor to be      *)
(* saved together.                                                         *)
LockIsNotPassedOver ==
    \A c \in Contracts :
        brPending[c] = "delivered"
        /\ (\E k \in 1 .. brMem.room_since[c] : lock_verified(brRoom[c][k]))
        => c \in brMissed

(* "A restart between delivery and the payer's lock no longer loses the    *)
(* deal" (_recover_pending): until its claim is revealed or the payer takes *)
(* the payment back, a delivered deal waits for its lock.  It is lost in    *)
(* two ways only: the process died before the next save, or the delivery    *)
(* was posted and the call that posted it failed.                           *)
DeliveriesWait ==
    \A c \in Contracts :
        c \in brDelivered \ brLost /\ brRevealed[c] = "none" => brPending[c] \in {"delivered", "refunded"}

(* "A lock may only trigger the reveal when it is a venue-verified         *)
(* commitment that binds to THIS deal" (_lock_verified).                   *)
RevealNeedsVerifiedLock ==
    \A c \in Contracts : brRevealed[c] \in {"none", "verified"}

(* A delivered deal and the lock that pays for it find each other: no claim *)
(* is revealed for an answer not delivered, no lock for one is passed over, *)
(* and the deal waits for its lock across restarts.                         *)
LocksAreAnswered == RevealFollowsDelivery /\ LockIsNotPassedOver /\ DeliveriesWait
-----------------------------------------------------------------------------
(* The inductive invariant: the dictionary, in memory and as saved, claims *)
(* a delivery that took place and no cursor beyond a verified lock that    *)
(* was not tried.  The phase in memory may be ahead of the dictionary's    *)
(* (a refund), which a restart forgets, but an accepted deal is accepted   *)
(* in both.  A contract not yet accepted has an empty room.                *)
Phases == {"none", "accepted", "delivered", "revealed", "receipted", "refunded"}
BoardFrames == [kind : {"offer"}, o : Offers] \cup [kind : {"lock", "reveal"}, c : Contracts]
IsState(d) ==
    /\ DOMAIN d = DOMAIN EmptyState
    /\ d.pending \in [Contracts -> Phases] /\ d.room_since \in [Contracts -> Nat]
    /\ d.board_since \in Nat /\ d.offers \subseteq Offers

BrTypeOK ==
    /\ brBoard \in Seq(BoardFrames) /\ brRoom \in [Contracts -> Seq(DealFrames)]
    /\ IsState(brMem) /\ IsState(brDisk)
    /\ brPending \in [Contracts -> Phases]
    /\ brAccepts \in [Offers -> Nat]
    /\ brRevealed \in [Contracts -> {"none", "board"} \cup DealFrames]

Delivered(pending) == {c \in Contracts : pending[c] = "delivered"}
PassedLock(c, since) == \E k \in 1 .. since[c] : lock_verified(brRoom[c][k])

PhasesAgree ==
    /\ Delivered(brPending) \cup Delivered(brMem.pending) \cup Delivered(brDisk.pending) \subseteq brDelivered
    /\ \A c \in Contracts : brPending[c] = "accepted" => brMem.pending[c] = "accepted"

RoomsAreAhead ==
    \A c \in Contracts :
        /\ brMem.room_since[c] <= Len(brRoom[c]) /\ brDisk.room_since[c] <= Len(brRoom[c])
        /\ c[2] > brAccepts[c[1]] => brRoom[c] = <<>>

PassedIsMissed ==
    /\ \A c \in Delivered(brPending) \cup Delivered(brMem.pending) : PassedLock(c, brMem.room_since) => c \in brMissed
    /\ \A c \in Delivered(brDisk.pending) : PassedLock(c, brDisk.room_since) => c \in brMissed

RewardsInv == BrTypeOK /\ PhasesAgree /\ RoomsAreAhead /\ PassedIsMissed /\ RevealFollowsDelivery

(* What was delivered and not lost is in the dictionary, in memory and,    *)
(* once saved, on disk; a phase beyond the claim is a claim that was       *)
(* revealed.                                                               *)
Remembered(pending, c) == pending[c] \in {"delivered", "revealed"}
Kept(c) ==
    /\ c \in brDelivered => c[2] <= brAccepts[c[1]]
    /\ c \in brDelivered \ brLost =>
          /\ Remembered(brMem.pending, c)
          /\ c \notin brUnsaved => Remembered(brDisk.pending, c)
          /\ brRevealed[c] = "none" => brPending[c] \in {"delivered", "refunded"}
    /\ brPending[c] \in {"revealed", "receipted"} => brRevealed[c] # "none"
    /\ brMem.pending[c] = "revealed" \/ brDisk.pending[c] = "revealed" => brRevealed[c] # "none"

DeliveriesAreKept == \A c \in Contracts : Kept(c)

(* What is saved of "done", and of "working" as long as it is not cut,     *)
(* stays in the dictionary that the guard of accept_and_deliver asks.      *)
SavedInv ==
    /\ brMem.working \in Seq(Offers) /\ brDisk.working \in Seq(Offers)
    /\ brDisk.done \subseteq brMem.done
    /\ \A o \in Offers : Contains(brDisk.working, o) /\ o \notin brCut => Contains(brMem.working, o)
=============================================================================
