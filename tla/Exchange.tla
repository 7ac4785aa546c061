------------------------------ MODULE Exchange ------------------------------
(***************************************************************************)
(* What an agent that sells its work against a hash-locked payment does in *)
(* public, whatever it forgets, rereads or rolls back: in each of its      *)
(* lives it takes up an offer at most once, it delivers the work of a      *)
(* contract once, unless it cannot tell whether a delivery got there, and  *)
(* it shows a secret only where somebody has told it that money was        *)
(* locked, and only the secret of a contract it was told about.            *)
(***************************************************************************)
EXTENDS Naturals, Sequences

CONSTANTS
  Offers, Contracts,
  Rooms          \* deal rooms: one per contract, its own and others'

VARIABLES
  offered,     \* the offers made to it
  taken,       \* those it has taken up or passed over in its present life
  agreed,      \* its contracts, each by the offer it answers
  locked,      \* the locks it was told of: deal room, and what is referred to
  delivered,   \* deliveries per contract
  doubted,     \* contracts with a delivery it cannot tell about
  shown        \* the secrets shown: deal room and offer

dealVars == <<agreed, locked, delivered, doubted, shown>>
exchangeVars == <<offered, taken, dealVars>>

ExchangeInit ==
  /\ offered = {} /\ taken = {}
  /\ agreed = <<>> /\ locked = {} /\ delivered = [c \in Contracts |-> 0]
  /\ doubted = {} /\ shown = {}

Offer(o) == offered' = offered \cup {o} /\ UNCHANGED <<taken, dealVars>>

\* The agent takes up an offer, or lets it go for good.
TakeUp(o) ==
  /\ o \in offered \ taken /\ taken' = taken \cup {o}
  /\ agreed' \in {agreed, Append(agreed, o)}
  /\ UNCHANGED <<offered, locked, delivered, doubted, shown>>

\* A new life: what it had decided is forgotten, what it did is not undone.
Forget == taken' = {} /\ UNCHANGED <<offered, dealVars>>

Deliver(c) ==
  /\ c \in DOMAIN agreed /\ (delivered[c] = 0 \/ c \in doubted)
  /\ delivered' = [delivered EXCEPT ![c] = @ + 1]
  /\ doubted' \in {doubted, doubted \cup {c}}
  /\ UNCHANGED <<offered, taken, agreed, locked, shown>>

\* Anybody may say so, of any deal.
Lock(lock) ==
  /\ locked' = locked \cup {lock}
  /\ UNCHANGED <<offered, taken, agreed, delivered, doubted, shown>>

Show(lock, c) ==
  /\ lock \in locked
  /\ c \in DOMAIN agreed /\ (c \in {lock[1], lock[2]} \/ agreed[c] = lock[2])
  /\ shown' = shown \cup {<<lock[1], agreed[c]>>}
  /\ UNCHANGED <<offered, taken, agreed, locked, delivered, doubted>>

ExchangeNext ==
  \/ \E o \in Offers : Offer(o) \/ TakeUp(o)
  \/ Forget
  \/ \E c \in Contracts : Deliver(c)
  \/ \E lock \in Rooms \X (Rooms \cup Offers) : Lock(lock) \/ \E c \in Contracts : Show(lock, c)

ExchangeSpec == ExchangeInit /\ [][ExchangeNext]_exchangeVars
=============================================================================
