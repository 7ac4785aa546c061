-------------------------------- MODULE Fold --------------------------------
(***************************************************************************)
(* The transcript fold of the protocol family (apps/scheduler/br_fold.py): *)
(* records of several rooms are folded in append order into the state of   *)
(* one contract; a record that fails a guard is rejected and changes       *)
(* nothing.  The records are inputs: any agent may write any frame, with   *)
(* any time, into any room.                                                *)
(*                                                                         *)
(* Hashes are injective: an offer id stands for the offer, a contract id   *)
(* for the accept that names it, a statement for the one secret that opens *)
(* it, unless it has the length of a point.  Of the frames refused, which  *)
(* answer() lists, the model only keeps that there was one.                *)
(***************************************************************************)
EXTENDS Naturals

CONSTANTS
    Dids,        \* agents
    Null,        \* what is not there yet: a side, a contract, a rail
    Secrets,     \* secrets; a statement is named by the secret that opens it
    Rails,       \* settlement rails, as they are spelt
    lower,       \* the same in lower case
    MaxTime      \* bound on the records' times and the offer's deadlines

ASSUME FoldAssumption ==
    /\ Null \notin Dids \cup Secrets \cup Rails \cup {"point"}
    /\ Null \notin [by : Dids, statement : Secrets \cup {"point"}]
    /\ "point" \notin Secrets
    /\ DOMAIN lower = Rails
    /\ MaxTime \in Nat

VARIABLES
    fdState,     \* the contract, or Unopened
    fdRejected,  \* a record was rejected
    fdRaised     \* the fold ended in an exception

fdVars == <<fdState, fdRejected, fdRaised>>

Times == 0 .. MaxTime
TERMINAL == {"claimed", "refunded", "cancelled"}

\* An accept of either kind of offer may carry a statement of either length;
\* no preimage of 32 bytes opens the longer one.
Statements == Secrets \cup {"point"}

contract_id(from, statement) == [by |-> from, statement |-> statement]
Contracts == [by : Dids, statement : Statements]

OFFER_ROOM == [kind |-> "offers", of |-> Null]
deal_room(contract) == [kind |-> "deal", of |-> contract]
Rooms == {OFFER_ROOM} \cup {deal_room(c) : c \in Contracts}

Refs == {"lock", "other"}
Absent == "absent"

Offers == [from : Dids, role : {"payer", "payee"}, rails : SUBSET Rails,
           lock : {"hash", "point"}, expiresMs : Times, claimByMs : Times, refundAfterMs : Times]

\* validate_frame's checks of an offer that are not about a field's syntax.
validate_offer(offer) == offer.rails # {} /\ offer.claimByMs < offer.refundAfterMs

Unopened == [status |-> "none"]

open_contract(offer) ==
    [status |-> "proposed", offer |-> offer,
     payer |-> IF offer.role = "payer" THEN offer.from ELSE Null,
     payee |-> IF offer.role = "payee" THEN offer.from ELSE Null,
     contract |-> Null, statement |-> Null,
     rail |-> Null, rail_ref |-> Null, secret |-> Null]

is_party(did) == did \in {fdState.offer.from, fdState.payer, fdState.payee}

\* The hash alone is looked at, whichever lock the offer asked for.
verify_hash_preimage(statement, secret) == secret = statement

\* _rail_offered: a rail is compared without regard to case.
rail_offered(rails, selected) == \E r \in rails : lower[r] = lower[selected]

expected_room(type) ==
    IF type \in {"offer", "accept"} \/ fdState.contract = Null
    THEN OFFER_ROOM ELSE deal_room(fdState.contract)

FdInit == fdState = Unopened /\ fdRejected = FALSE /\ fdRaised = FALSE

Opened == fdState.status # "none"

Reject == fdRejected' = TRUE /\ UNCHANGED fdState

\* One well-formed record of an open contract: the room, then apply_frame's
\* guards; what passes becomes the contract's next state.
Apply(type, room, guard, next) ==
    /\ Opened /\ ~fdRaised
    /\ IF room = expected_room(type) /\ guard
       THEN fdState' = next /\ UNCHANGED fdRejected
       ELSE Reject
    /\ UNCHANGED fdRaised
-----------------------------------------------------------------------------
\* A record that does not decode, whose sender is not its "from", that comes
\* before the offer, or that validate_frame refuses; and a second offer.
BadRecord == ~fdRaised /\ Reject /\ UNCHANGED fdRaised

\* A type or an outcome that JSON can write and a Python set cannot be asked
\* about (a list, an object) escapes the handler for ValueError.
RaiseOnFrame ==
    /\ Opened /\ ~fdRaised
    /\ fdRaised' = TRUE
    /\ UNCHANGED <<fdState, fdRejected>>

OfferRecord(offer, room) ==
    /\ ~Opened /\ ~fdRaised
    /\ IF room = OFFER_ROOM /\ validate_offer(offer)
       THEN fdState' = open_contract(offer) /\ UNCHANGED fdRejected
       ELSE Reject
    /\ UNCHANGED fdRaised

AcceptRecord(from, thisOffer, statement, contract, hasKey, time, room) ==
    Apply("accept", room,
          /\ fdState.status = "proposed"
          /\ thisOffer
          /\ from # fdState.offer.from
          /\ time < fdState.offer.expiresMs
          /\ contract = contract_id(from, statement)
          /\ fdState.offer.lock = "point" => hasKey,
          [fdState EXCEPT !.status = "accepted", !.contract = contract, !.statement = statement,
                          !.payer = IF fdState.offer.role = "payee" THEN from ELSE @,
                          !.payee = IF fdState.offer.role = "payee" THEN @ ELSE from])

LockRecord(from, contract, rail, time, room) ==
    Apply("lock", room,
          /\ fdState.status = "accepted"
          /\ contract = fdState.contract
          /\ from = fdState.payer
          /\ time < fdState.offer.refundAfterMs
          /\ rail_offered(fdState.offer.rails, rail),
          [fdState EXCEPT !.status = "locked", !.rail = rail, !.rail_ref = "lock"])

RevealRecord(from, contract, ref, secret, time, room) ==
    Apply("reveal", room,
          /\ fdState.status = "locked"
          /\ contract = fdState.contract
          /\ ref \in {Absent, fdState.rail_ref}
          /\ from = fdState.payee
          /\ time < fdState.offer.refundAfterMs
          /\ verify_hash_preimage(fdState.statement, secret),
          [fdState EXCEPT !.status = "claimed", !.secret = secret])

\* Mutant: a refund is also taken after the claim.
RefundSettled(from, contract, ref, time, room) ==
    Apply("refund", room,
          /\ fdState.status \in {"locked", "claimed"}
          /\ contract = fdState.contract
          /\ ref \in {Absent, fdState.rail_ref}
          /\ from = fdState.payer
          /\ time >= fdState.offer.refundAfterMs,
          [fdState EXCEPT !.status = "refunded"])

RefundRecord(from, contract, ref, time, room) ==
    Apply("refund", room,
          /\ fdState.status = "locked"
          /\ contract = fdState.contract
          /\ ref \in {Absent, fdState.rail_ref}
          /\ from = fdState.payer
          /\ time >= fdState.offer.refundAfterMs,
          [fdState EXCEPT !.status = "refunded"])

\* Before the accept a cancel may name any contract.
CancelRecord(from, contract, room) ==
    Apply("cancel", room,
          /\ fdState.status \in {"proposed", "accepted"}
          /\ fdState.status = "accepted" => contract = fdState.contract
          /\ is_party(from),
          [fdState EXCEPT !.status = "cancelled"])

\* A deal cancelled before its accept has no contract a receipt could name.
ReceiptRecord(from, contract, outcome, rail, ref, room) ==
    Apply("receipt", room,
          /\ fdState.status \in TERMINAL
          /\ contract = fdState.contract
          /\ is_party(from)
          /\ outcome = fdState.status
          /\ rail \in {Absent, fdState.rail} \/ fdState.rail = Null
          /\ ref \in {Absent, fdState.rail_ref} \/ fdState.rail_ref = Null
          /\ fdState.status = "cancelled" => rail = Absent /\ ref = Absent,
          fdState)

HeartbeatRecord(from, contract, room) ==
    Apply("heartbeat", room,
          /\ fdState.status \in {"accepted", "locked"}
          /\ contract = fdState.contract
          /\ is_party(from),
          fdState)

\* The room a record belongs into, and one that stands for all the others.
RoomsFor(type) == {expected_room(type), CHOOSE r \in Rooms : r # expected_room(type)}

\* Likewise the contract a record should name, and another one.
ContractsLike(contract) == ({contract} \cap Contracts) \cup {CHOOSE c \in Contracts : c # contract}

FdNext ==
    \/ BadRecord
    \/ RaiseOnFrame
    \/ \E o \in Offers, r \in Rooms : OfferRecord(o, r)
    \/ Opened /\ \E d \in Dids, t \in Times, r \in RoomsFor("accept"), this, key \in BOOLEAN, s \in Statements :
          \E c \in ContractsLike(contract_id(d, s)) : AcceptRecord(d, this, s, c, key, t, r)
    \/ Opened /\ \E d \in Dids, c \in ContractsLike(fdState.contract), t \in Times :
          \/ \E r \in RoomsFor("lock"), rail \in Rails : LockRecord(d, c, rail, t, r)
          \/ \E r \in RoomsFor("reveal"), ref \in Refs \cup {Absent}, s \in Secrets : RevealRecord(d, c, ref, s, t, r)
          \/ \E r \in RoomsFor("refund"), ref \in Refs \cup {Absent} : RefundRecord(d, c, ref, t, r)
    \/ Opened /\ \E d \in Dids, c \in ContractsLike(fdState.contract), r \in RoomsFor("cancel") :
          \/ CancelRecord(d, c, r)
          \/ HeartbeatRecord(d, c, r)
          \/ \E o \in TERMINAL, rail \in Rails \cup {Absent}, ref \in Refs \cup {Absent} :
                ReceiptRecord(d, c, o, rail, ref, r)

FdSpec == FdInit /\ [][FdNext]_fdVars
-----------------------------------------------------------------------------
(***************************************************************************)
(* Properties.                                                             *)
(***************************************************************************)

\* A folded contract is whole: both sides are taken from the accept on, by
\* two agents, the contract is the one that accept derives, the lock is on
\* an offered rail, and a claim carries the secret that opens the statement,
\* so a deal over a point is never claimed (apply_frame, over any order of
\* records).  Nothing is said of the lock the offer asked for: the fold does
\* not compare it, and a point offer accepted with a hash is claimed by it.
ContractIsWhole ==
    Opened =>
      /\ fdState.contract # Null =>
            /\ {fdState.payer, fdState.payee} \subseteq Dids
            /\ fdState.payer # fdState.payee
            /\ fdState.contract \in {contract_id(d, fdState.statement) :
                                        d \in {fdState.payer, fdState.payee} \ {fdState.offer.from}}
      /\ fdState.status \in {"locked", "claimed", "refunded"} =>
            fdState.contract # Null /\ rail_offered(fdState.offer.rails, fdState.rail)
      /\ fdState.status = "claimed" => fdState.secret \in Secrets /\ fdState.secret = fdState.statement

Deal == INSTANCE Escrow WITH
    Agents <- Dids, Nobody <- Null,
    status <- fdState.status,
    payer <- IF Opened THEN fdState.payer ELSE Null,
    payee <- IF Opened THEN fdState.payee ELSE Null

\* Whatever the transcript, the folded contract moves as a hash-locked deal
\* does: the money leaves the lock once, and no side changes hands; and it is
\* whole at every record.
FoldIsEscrow == Deal!EscrowSpec /\ []ContractIsWhole

\* Why both hold, as an inductive invariant: before the accept the offering side
\* is the only one taken and nothing is agreed on; from the accept on there is a
\* contract.
FoldedContracts ==
    [status : {"proposed", "accepted", "locked"} \cup TERMINAL, offer : Offers,
     payer : Dids \cup {Null}, payee : Dids \cup {Null}, contract : Contracts \cup {Null},
     statement : Statements \cup {Null}, rail : Rails \cup {Null}, rail_ref : {"lock", Null},
     secret : Secrets \cup {Null}]

FoldInv ==
    /\ fdState = Unopened \/ fdState \in FoldedContracts
    /\ fdState.status = "proposed" => fdState = open_contract(fdState.offer)
    /\ fdState.status \in {"accepted", "locked"} => fdState.contract # Null
    /\ ContractIsWhole
=============================================================================
