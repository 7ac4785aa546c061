----------------------------- MODULE TclkAgent -----------------------------
(***************************************************************************)
(* The market agent inside the agent scorer: it reads the frames of a      *)
(* market room, writes one row per frame, audits each offer, accepts some, *)
(* ships the work and, once the payer locks the contract, reveals the      *)
(* secret that claims the escrow.  One coroutine does all of it; what      *)
(* interleaves with it is the market, the clock, failing posts and commits *)
(* and the restart of the process.                                         *)
(*                                                                         *)
(* One room stands for all of them: rooms are polled one after the other   *)
(* by the same code and each has its own cursor and commit.                *)
(***************************************************************************)
EXTENDS Naturals, Sequences, FiniteSets

CONSTANTS
  Offers,          \* the offers the market may publish
  Validation,      \* the offers of the validation lane
  AcceptPerHour,   \* TCLK_AGENT_ACCEPT_PER_HOUR
  Reserve,         \* TCLK_AGENT_VALIDATION_RESERVE
  MaxActive,       \* TCLK_AGENT_MAX_ACTIVE
  MaxFrames,       \* bound: frames in the room
  MaxAccepts,      \* bound: accepts that reach the room
  MaxFailures,     \* bound: failing posts and commits
  MaxCrashes       \* bound: restarts

ASSUME TclkAssumption ==
  /\ Validation \subseteq Offers
  /\ {AcceptPerHour, Reserve, MaxActive, MaxFrames, MaxAccepts, MaxFailures, MaxCrashes} \subseteq Nat

VARIABLES
  room,        \* the market room: the sequence of frames
  db,          \* what is committed: cursor, frame rows, audit rows
  tx,          \* the same as the open session sees it
  pend,        \* frame rows added to the session and not yet flushed
  poisoned,    \* a flush failed and nobody has rolled back yet
  pc,          \* where the coroutine is
  base,        \* cursor the current batch was read from
  at,          \* sequence number of the frame in hand
  last,        \* last sequence number of the batch
  deal,        \* the locked deal in hand
  mem,         \* what only the process remembers
  accepts,     \* the accepts on the room: contract c answers offer accepts[c]
  shipped,     \* deliveries on the room, per contract
  unsure,      \* contracts with a delivery whose post failed but may have landed
  reveals,     \* the secrets revealed: <<deal room, offer of the secret>>
  failures, crashes,
  disturbed    \* some session was rolled back, or some batch read again

vars == <<room, db, tx, pend, poisoned, pc, base, at, last, deal, mem,
          accepts, shipped, unsure, reveals, failures, crashes, disturbed>>

session == <<db, tx, pend, poisoned>>
batch == <<base, at, last>>
market == <<accepts, shipped, unsure, reveals>>
ghosts == <<failures, crashes, disturbed>>

Contracts == 1 .. MaxAccepts
Seqs == 1 .. MaxFrames

\* A contract that is none of the agent's; a deal room is named by its contract.
FOREIGN == 0
Rooms == Contracts \cup {FOREIGN}

\* The frames parse_frame recognises; "chat" is any line it does not.  A lock
\* is taken at its word, whoever sends it, signed or not: it may name any
\* contract and refer to any contract, any offer, or to neither.
Frames == [kind : {"chat"}]
          \cup [kind : {"offer"}, offer : Offers]
          \cup [kind : {"lock"}, contract : Rooms, ref : Rooms \cup Offers, rail : BOOLEAN]
          \cup [kind : {"reveal"}, contract : Rooms]

\* One audit row; contract 0 until an outcome is recorded.
NoRow == [ref |-> FALSE, contract |-> 0, outcome |-> "none", answer |-> FALSE]
EmptyRow == [NoRow EXCEPT !.outcome = ""]
AuditRow == [ref : BOOLEAN, contract : 0 .. MaxAccepts,
             outcome : {"none", "", "delivered", "no_answer", "error", "claimed"}, answer : BOOLEAN]

Deal == [contract : Rooms, offer : Offers, answer : BOOLEAN]
ActiveDeal == [contract : Contracts, offer : Offers, answer : BOOLEAN,
               slug : Rooms, locked : BOOLEAN, old : BOOLEAN]

\* What the process remembers, and what the database holds.
Memory == [seen : SUBSET Offers, active : SUBSET ActiveDeal, delivered : SUBSET Contracts,
           claimed : SUBSET Rooms, rails : SUBSET Rooms, used : 0 .. AcceptPerHour + Reserve]
Database == [cursor : 0 .. MaxFrames, frames : SUBSET Seqs, audits : [Seqs -> AuditRow]]

\* A fresh process: everything here is lost by a restart.
Blank == [seen |-> {}, active |-> {}, delivered |-> {}, claimed |-> {}, rails |-> {}, used |-> 0]

Init ==
  /\ room = <<>>
  /\ db = [cursor |-> 0, frames |-> {}, audits |-> [s \in Seqs |-> NoRow]]
  /\ tx = db /\ pend = {} /\ poisoned = FALSE
  /\ pc = "idle" /\ base = 0 /\ at = 0 /\ last = 0 /\ deal = <<>>
  /\ mem = Blank
  /\ accepts = <<>> /\ shipped = [c \in Contracts |-> 0] /\ unsure = {} /\ reveals = {}
  /\ failures = 0 /\ crashes = 0 /\ disturbed = FALSE

----------------------------------------------------------------------------
(* The market and the clock. *)

Publish ==
  /\ Len(room) < MaxFrames
  /\ \E f \in Frames :
       /\ f.kind \in {"lock", "reveal"} => f.contract \in DOMAIN accepts \cup {FOREIGN}
       /\ f.kind = "lock" => f.ref \in DOMAIN accepts \cup Offers \cup {FOREIGN}
       /\ room' = Append(room, f)
  /\ UNCHANGED <<session, batch, pc, deal, mem, market, ghosts>>

\* Half an hour: every deal in memory has outlived TCLK_AGENT_ACTIVE_TTL.
TtlPasses ==
  /\ \E d \in mem.active : ~d.old
  /\ mem' = [mem EXCEPT !.active = {[d EXCEPT !.old = TRUE] : d \in mem.active}]
  /\ UNCHANGED <<room, session, batch, pc, deal, market, ghosts>>

\* An hour: the accepts leave the rolling window as well.
HourPasses ==
  /\ mem.used > 0
  /\ mem' = [mem EXCEPT !.used = 0, !.active = {[d EXCEPT !.old = TRUE] : d \in mem.active}]
  /\ UNCHANGED <<room, session, batch, pc, deal, market, ghosts>>

----------------------------------------------------------------------------
(* The session.  A statement first flushes the pending frame rows; a row   *)
(* that is already there fails the flush, and the session then refuses     *)
(* every statement until it is rolled back.                                *)

FlushFails == poisoned \/ pend \cap tx.frames # {}
Flushed == [tx EXCEPT !.frames = @ \cup pend]

Rollback == db' = db /\ tx' = db /\ pend' = {} /\ poisoned' = FALSE
Store(t) == db' = db /\ tx' = t /\ pend' = {} /\ poisoned' = FALSE
Commit(t) == db' = t /\ tx' = t /\ pend' = {} /\ poisoned' = FALSE
Poison == poisoned' = TRUE /\ UNCHANGED <<db, tx, pend>>

NextFrame == pc' = "frame" /\ at' = at + 1 /\ UNCHANGED <<base, last>>
Stay(p) == pc' = p /\ UNCHANGED batch

----------------------------------------------------------------------------
(* _poll_tclk *)

\* A cursor that cannot be read counts as 0: the whole room is read again.
Poll ==
  /\ pc = "idle"
  /\ \E c \in {db.cursor, 0} :
       /\ c < Len(room)
       /\ c # db.cursor => failures < MaxFailures
       /\ failures' = IF c = db.cursor THEN failures ELSE failures + 1
       /\ base' = c /\ at' = c + 1
       /\ disturbed' = (disturbed \/ c < db.cursor)
  /\ last' = Len(room) /\ pc' = "frame"
  /\ UNCHANGED <<room, session, deal, mem, market, crashes>>

\* A line that is no frame only moves the cursor on.
Chat ==
  /\ pc = "frame" /\ at <= last /\ room[at].kind = "chat"
  /\ NextFrame
  /\ UNCHANGED <<room, session, deal, mem, market, ghosts>>

\* The deal rooms with an escrow rail after a frame; a lock that names another
\* rail takes its room off, one that names none leaves it.
RailsAfter(f) ==
  IF f.kind # "lock" THEN {mem.rails}
  ELSE IF f.rail THEN {mem.rails \cup {f.contract}}
  ELSE {mem.rails, mem.rails \ {f.contract}}

Persist ==
  /\ pc = "frame" /\ at <= last /\ room[at].kind \in {"offer", "lock"}
  /\ pend' = pend \cup {at}
  /\ \E rails \in RailsAfter(room[at]) : mem' = [mem EXCEPT !.rails = rails]
  /\ Stay(room[at].kind)
  /\ UNCHANGED <<room, db, tx, poisoned, deal, market, ghosts>>

\* The claim radar: announced once per deal room; a settled deal of ours
\* leaves the memory when the announcement was sent.
ClaimRadar ==
  /\ pc = "frame" /\ at <= last /\ room[at].kind = "reveal"
  /\ pend' = pend \cup {at}
  /\ LET c == room[at].contract
         settled == {d \in mem.active : d.slug = c}
     IN \E sent \in BOOLEAN :
          mem' = IF c \in mem.rails /\ c \notin mem.claimed
                 THEN [mem EXCEPT !.claimed = @ \cup {c},
                                  !.active = IF sent THEN @ \ settled ELSE @]
                 ELSE mem
  /\ NextFrame
  /\ UNCHANGED <<room, db, tx, poisoned, deal, market, ghosts>>

\* The end of the batch: cursor and rows are committed together, or rolled back.
EndBatch ==
  /\ pc = "frame" /\ at > last
  /\ \/ ~FlushFails /\ Commit([Flushed EXCEPT !.cursor = IF last > @ THEN last ELSE @])
        /\ UNCHANGED <<failures, disturbed>>
     \/ /\ FlushFails \/ failures < MaxFailures
        /\ failures' = IF FlushFails THEN failures ELSE failures + 1
        /\ disturbed' = TRUE
        /\ Rollback
  /\ Stay("idle")
  /\ UNCHANGED <<room, deal, mem, market, crashes>>

----------------------------------------------------------------------------
(* _tclk_on_offer *)

\* accept_room: the cap, with slots on top of it for the validation lane.
RateOK(o) ==
  /\ AcceptPerHour > 0
  /\ mem.used < AcceptPerHour + IF o \in Validation THEN Reserve ELSE 0

Pruned == {d \in mem.active : ~d.old}

\* The audit of the offer, the veto of _jev_offer_audit, the risk ceiling and
\* the brief: they depend on the offer, on its expiry and on other services,
\* so either answer may come, and another one the next time.
Cleared == BOOLEAN

RecordAudit ==
  IF FlushFails THEN Poison
  ELSE Store(IF tx.audits[at] = NoRow THEN [Flushed EXCEPT !.audits[at] = EmptyRow] ELSE Flushed)

OnOffer ==
  /\ pc = "offer"
  /\ RecordAudit
  /\ LET o == room[at].offer
     IN \E cleared \in Cleared :
          IF cleared /\ RateOK(o) /\ Cardinality(Pruned) < MaxActive /\ o \notin mem.seen
          THEN /\ mem' = [mem EXCEPT !.active = Pruned, !.seen = @ \cup {o}]
               /\ Stay("ref")
          ELSE mem' = [mem EXCEPT !.active = Pruned] /\ NextFrame
  /\ UNCHANGED <<room, deal, market, ghosts>>

\* _tclk_set_audit_ref names the offer on the row and commits, in the middle
\* of the batch.  Any exception rolls the whole session back.
SetAuditRef ==
  /\ pc = "ref"
  /\ LET row == tx.audits[at]
         raises == failures < MaxFailures /\ failures' = failures + 1
     IN \/ ~FlushFails /\ (row = NoRow \/ row.ref) /\ Store(Flushed) /\ UNCHANGED <<failures, disturbed>>
        \/ /\ ~FlushFails /\ row # NoRow /\ ~row.ref
           /\ Commit([Flushed EXCEPT !.audits[at].ref = TRUE])
           /\ UNCHANGED <<failures, disturbed>>
        \/ /\ IF FlushFails THEN UNCHANGED failures ELSE raises
           /\ Rollback /\ disturbed' = TRUE
  /\ Stay("accept")
  /\ UNCHANGED <<room, deal, mem, market, crashes>>

\* The producer is not healthy, or the accept is not posted: the deal is dropped.
\* A post whose answer is lost has still put the accept on the room.
AcceptDropped ==
  /\ pc = "accept"
  /\ \/ UNCHANGED <<accepts, failures>>
     \/ /\ failures < MaxFailures /\ Len(accepts) < MaxAccepts
        /\ failures' = failures + 1
        /\ accepts' = Append(accepts, room[at].offer)
  /\ NextFrame
  /\ UNCHANGED <<room, session, deal, mem, shipped, unsure, reveals, crashes, disturbed>>

AcceptPosted ==
  /\ pc = "accept" /\ Len(accepts) < MaxAccepts
  /\ accepts' = Append(accepts, room[at].offer)
  /\ mem' = [mem EXCEPT !.used = @ + 1,
                        !.active = @ \cup {[contract |-> Len(accepts'), offer |-> room[at].offer,
                                            answer |-> FALSE, slug |-> Len(accepts'),
                                            locked |-> FALSE, old |-> FALSE]}]
  /\ Stay("work")
  /\ UNCHANGED <<room, session, deal, shipped, unsure, reveals, ghosts>>

\* What one post of a delivery may come to.
PostDelivery(c, outcome) ==
  \/ /\ outcome = "delivered"
     /\ shipped' = [shipped EXCEPT ![c] = @ + 1]
     /\ UNCHANGED <<unsure, failures>>
  \/ /\ outcome = "error" /\ failures < MaxFailures
     /\ failures' = failures + 1
     /\ \/ UNCHANGED <<shipped, unsure>>
        \/ shipped' = [shipped EXCEPT ![c] = @ + 1] /\ unsure' = unsure \cup {c}

\* _tclk_solve, and _tclk_produce when it finds nothing: an answer that passes
\* the quality gate, or none.  Both depend on other services.
Answered == BOOLEAN

\* Solve or produce, ship, and attach the outcome to the audit row.
Work ==
  /\ pc = "work"
  /\ LET c == Len(accepts)
         kept(d, ans) == IF d.contract = c THEN [d EXCEPT !.answer = ans] ELSE d
     IN \E answered \in Answered : \E outcome \in IF answered THEN {"delivered", "error"} ELSE {"no_answer"} :
          /\ IF outcome = "no_answer" THEN UNCHANGED <<shipped, unsure, failures>> ELSE PostDelivery(c, outcome)
          /\ mem' = [mem EXCEPT !.active = {kept(d, answered) : d \in @},
                                !.delivered = IF outcome = "delivered" THEN @ \cup {c} ELSE @]
          /\ Store(IF tx.audits[at] = NoRow THEN Flushed
                   ELSE [Flushed EXCEPT !.audits[at].contract = c, !.audits[at].outcome = outcome,
                                        !.audits[at].answer = answered])
  /\ NextFrame
  /\ UNCHANGED <<room, deal, accepts, reveals, crashes, disturbed>>

----------------------------------------------------------------------------
(* _tclk_on_lock *)

\* The deals in memory the lock refers to, by contract or by offer; the
\* contract the lock itself names is not compared.
RefMatches(d, f) == f.ref \in {d.contract, d.offer}

\* Mutant: the rail of the lock is not looked at.
HandledAnyRail(f) == {d \in mem.active : ~d.locked /\ RefMatches(d, f)}

Handled(f) == {d \in mem.active : ~d.locked /\ RefMatches(d, f) /\ f.rail}

OnLock ==
  /\ pc = "lock" /\ Handled(room[at]) # {}
  /\ LET d == CHOOSE x \in Handled(room[at]) : \A y \in Handled(room[at]) : x.contract <= y.contract
     IN /\ deal' = [contract |-> d.contract, offer |-> d.offer, answer |-> d.answer]
        /\ mem' = [mem EXCEPT !.active = (@ \ {d}) \cup
                                         {[d EXCEPT !.locked = TRUE, !.slug = room[at].contract]}]
  /\ Stay("reveal")
  /\ UNCHANGED <<room, session, market, ghosts>>

\* Our own rows of a contract; a row without an outcome names none.
Rows(c) == {s \in Seqs : c # FOREIGN /\ tx.audits[s].contract = c}

\* _tclk_recover_pending: the deal is no longer in memory, our own row names it,
\* by the contract of the lock or by its reference; the newest such row, and a
\* batch that is read again may write its rows in another order than the
\* room's.  A row without the offer id is completed by reading the offer again.

RecoverPending ==
  /\ pc = "lock" /\ Handled(room[at]) = {}
  /\ LET f == room[at]
     IN \E readable \in BOOLEAN :
        LET found == Rows(f.contract) \cup Rows(f.ref)
            named(s) == tx.audits[s].ref \/ (readable /\ s > 1)
        IN /\ IF ~f.rail THEN UNCHANGED session
              ELSE IF FlushFails THEN Poison ELSE Store(Flushed)
           /\ \/ \E s \in found :
                   /\ f.rail /\ ~FlushFails /\ named(s)
                   /\ deal' = [contract |-> f.contract, offer |-> room[s].offer, answer |-> FALSE]
                   /\ Stay("reveal")
              \/ /\ ~f.rail \/ FlushFails \/ found = {} \/ \E s \in found : ~named(s)
                 /\ deal' = deal /\ NextFrame
  /\ UNCHANGED <<room, mem, market, ghosts>>

\* Mutant: only a claimed row counts as shipped.
AlreadyDeliveredLate(c) == \E s \in Rows(c) : tx.audits[s].outcome = "claimed"

\* _tclk_already_delivered: the process remembers it, or our row says so.  A
\* lookup that fails counts as "no".
AlreadyDelivered(c) ==
  \/ c \in mem.delivered
  \/ ~FlushFails /\ \E s \in Rows(c) : tx.audits[s].outcome \in {"delivered", "claimed"} /\ tx.audits[s].answer

\* _tclk_do_task_and_reveal: ship what was not shipped, then reveal (three
\* attempts), then mark the row as claimed.
Ship ==
  /\ pc = "reveal"
  /\ LET c == deal.contract
     IN IF deal.answer /\ ~AlreadyDelivered(c)
        THEN \E outcome \in {"delivered", "error"} :
               /\ PostDelivery(c, outcome)
               /\ mem' = IF outcome = "delivered" THEN [mem EXCEPT !.delivered = @ \cup {c}] ELSE mem
        ELSE UNCHANGED <<shipped, unsure, failures, mem>>
  /\ Stay("claim")
  /\ UNCHANGED <<room, session, deal, accepts, reveals, crashes, disturbed>>

MarkClaimed(t) ==
  [t EXCEPT !.audits = [s \in Seqs |-> IF s \in Rows(deal.contract)
                                       THEN [t.audits[s] EXCEPT !.outcome = "claimed"] ELSE t.audits[s]]]

\* Mutant: the row says claimed although no attempt went through.
RevealAssumed ==
  /\ pc = "claim"
  /\ \/ /\ reveals' = reveals \cup {<<room[at].contract, deal.offer>>}
        /\ IF FlushFails THEN Poison ELSE Store(MarkClaimed(Flushed))
        /\ UNCHANGED failures
     \/ /\ failures < MaxFailures /\ failures' = failures + 1
        /\ Store(MarkClaimed(Flushed)) /\ UNCHANGED reveals
  /\ deal' = <<>>
  /\ NextFrame
  /\ UNCHANGED <<room, mem, accepts, shipped, unsure, crashes, disturbed>>

\* An attempt that raises may have put the secret on the room all the same.
Reveal ==
  /\ pc = "claim"
  /\ \/ /\ reveals' = reveals \cup {<<room[at].contract, deal.offer>>}
        /\ IF FlushFails THEN Poison ELSE Store(MarkClaimed(Flushed))
        /\ UNCHANGED failures
     \/ /\ failures < MaxFailures /\ failures' = failures + 1
        /\ reveals' \in {reveals, reveals \cup {<<room[at].contract, deal.offer>>}}
        /\ UNCHANGED session
  /\ deal' = <<>>
  /\ NextFrame
  /\ UNCHANGED <<room, mem, accepts, shipped, unsure, crashes, disturbed>>

----------------------------------------------------------------------------
\* The process dies and starts again with nothing but the database.
Restart ==
  /\ crashes < MaxCrashes
  /\ crashes' = crashes + 1
  /\ disturbed' = (disturbed \/ pc # "idle")
  /\ Rollback
  /\ mem' = Blank /\ pc' = "idle" /\ deal' = <<>>
  /\ UNCHANGED <<room, batch, market, failures>>

Step ==
  \/ Poll \/ Chat \/ Persist \/ ClaimRadar \/ EndBatch
  \/ OnOffer \/ SetAuditRef \/ AcceptDropped \/ AcceptPosted \/ Work
  \/ OnLock \/ RecoverPending \/ Ship \/ Reveal

Next == Step \/ Publish \/ TtlPasses \/ HourPasses \/ Restart

Spec == Init /\ [][Next]_vars

\* run_forever polls for as long as the process lives.
FairSpec == Spec /\ WF_vars(Step)
----------------------------------------------------------------------------
(* Properties *)

\* The types of all variables.
TclkTypeOK ==
  /\ room \in Seq(Frames) /\ Len(room) <= MaxFrames
  /\ db \in Database /\ tx \in Database
  /\ pend \subseteq Seqs /\ poisoned \in BOOLEAN
  /\ pc \in {"idle", "frame", "offer", "ref", "accept", "work", "lock", "reveal", "claim"}
  /\ deal \in Deal \cup {<<>>}
  /\ mem \in Memory /\ Cardinality(mem.active) <= MaxActive
  /\ accepts \in Seq(Offers) /\ unsure \subseteq Contracts
  /\ reveals \subseteq Rooms \X Offers
  /\ failures \in 0 .. MaxFailures /\ crashes \in 0 .. MaxCrashes /\ disturbed \in BOOLEAN

\* The agent commits itself to an offer at most once in the life of a process,
\* whatever is disturbed from an old cursor: a second public accept of the same
\* offer needs a restart in between (_tclk_seen is kept in memory only).
OneAcceptPerLife ==
  \A o \in Offers : Cardinality({c \in DOMAIN accepts : accepts[c] = o}) <= 1 + crashes

\* "Exactly once per contract": the work is shipped by the accept or by the
\* lock, never by both, through restarts, expired deals and repeated locks.  Only
\* a post that failed without telling whether it landed can put it there twice.
DeliveredAtMostOnce == \A c \in Contracts \ unsure : shipped[c] <= 1

\* A lock asks for the secret of a contract of ours: it names it, or refers to
\* it or to the offer it answers.
AsksFor(f, c) == c \in {f.contract, f.ref} \/ accepts[c] = f.ref

\* A secret is revealed only in the deal room of a lock that is on the room, on
\* a rail that holds escrow, and only the secret of an offer we accepted and
\* that lock asks for.  That is all: neither who sent the lock nor whether the
\* contract it names and the deal it refers to belong together is looked at.
RevealAnswersLock ==
  \A r \in reveals :
    \E i \in DOMAIN room, c \in DOMAIN accepts :
      /\ room[i].kind = "lock" /\ room[i].rail /\ room[i].contract = r[1]
      /\ AsksFor(room[i], c) /\ accepts[c] = r[2]

\* As long as no session was rolled back and nothing was read twice, the trail
\* is complete: below the cursor every frame has its row, every offer its audit.
TrailIsComplete ==
  ~disturbed =>
    \A s \in 1 .. db.cursor :
      /\ room[s].kind # "chat" => s \in db.frames
      /\ room[s].kind = "offer" => db.audits[s] # NoRow

\* A row says "claimed" only if a secret was revealed for it, the one of its
\* offer or, when a lock named one deal and referred to another, one in its
\* deal room; it says "delivered" only if that contract's work is on the room.
ClaimedFor(r, s, row) == r[2] = room[s].offer \/ r[1] = row.contract
OutcomeIsTruthful ==
  \A s \in Seqs :
    LET row == db.audits[s]
    IN /\ row.outcome = "claimed" => \E r \in reveals : ClaimedFor(r, s, row)
       /\ row.outcome = "delivered" => shipped[row.contract] > 0

\* _tclk_record_audit promises not to stall the loop when a batch is read
\* again: whatever fails once, the cursor reaches the end of the room.
LoopIsNotStalled == []<>(db.cursor = Len(room))

\* A deal is made once: one accept of an offer per life of the process, one
\* delivery per contract.
OncePerDeal == OneAcceptPerLife /\ DeliveredAtMostOnce

\* The audit trail is well formed, complete and true.
AuditIsTrue == TclkTypeOK /\ TrailIsComplete /\ OutcomeIsTruthful

\* The agent as an exchange: what is said in the room, and the offers it has
\* decided about since it was started.
OffersMade == {room[i].offer : i \in {j \in DOMAIN room : room[j].kind = "offer"}}
LocksMade == {<<room[i].contract, room[i].ref>> :
                i \in {j \in DOMAIN room : room[j].kind = "lock" /\ room[j].rail}}
AcceptIsDue(o) == pc \in {"ref", "accept"} /\ room[at].offer = o
Decided == {o \in mem.seen : ~AcceptIsDue(o)}

Trade == INSTANCE Exchange WITH
  offered <- OffersMade, taken <- Decided, agreed <- accepts, locked <- LocksMade,
  delivered <- shipped, doubted <- unsure, shown <- reveals

\* Whatever is read again, rolled back or forgotten by a restart, the agent
\* deals in public as Exchange does: every accept, delivery and reveal is one
\* step of it, taken in its order.
AgentIsExchange == Trade!ExchangeSpec

(***************************************************************************)
(* What a step relies on for the properties to survive it.                 *)
(***************************************************************************)

\* Where the coroutine is in its batch, and what kind of frame it has in hand.
PositionInv ==
  /\ {base, at, last} \subseteq Nat
  /\ db.cursor <= Len(room) /\ tx.cursor <= Len(room)
  /\ pc # "idle" => base < at /\ at <= last + 1 /\ last <= Len(room)
  /\ pc \notin {"idle", "frame"} => at <= last
  /\ pc \in {"offer", "ref", "accept", "work"} => room[at].kind = "offer"
  /\ pc \in {"lock", "reveal", "claim"} => room[at].kind = "lock"
  /\ pc \in {"reveal", "claim"} => room[at].rail /\ deal \in Deal

\* An offer's row and its contract belong together.
RowsFit(d) ==
  \A s \in Seqs : d.audits[s] # NoRow =>
    /\ s \in DOMAIN room /\ room[s].kind = "offer"
    /\ d.audits[s].contract # 0 =>
         d.audits[s].contract \in DOMAIN accepts /\ accepts[d.audits[s].contract] = room[s].offer

\* Whatever names a deal of ours, names the offer its contract answers; only a
\* deal rebuilt from a lock may carry a contract its offer does not belong to,
\* and then it is the one whose deal room the lock names.
DealsFit ==
  /\ Len(accepts) <= MaxAccepts
  /\ \A d \in mem.active : d.contract \in DOMAIN accepts /\ accepts[d.contract] = d.offer
  /\ pc = "work" => accepts # <<>> /\ accepts[Len(accepts)] = room[at].offer
  /\ pc \in {"reveal", "claim"} =>
       /\ \E c \in DOMAIN accepts : AsksFor(room[at], c) /\ accepts[c] = deal.offer
       /\ \/ deal.contract \in DOMAIN accepts /\ accepts[deal.contract] = deal.offer
          \/ deal.contract = room[at].contract /\ ~deal.answer
  /\ RowsFit(db) /\ RowsFit(tx)

\* A deal whose answer is kept and not known as shipped has not been shipped,
\* unless a failed post leaves it open.
AnswerIsKept(c) ==
  \/ \E d \in mem.active : d.contract = c /\ d.answer
  \/ pc = "reveal" /\ deal.contract = c /\ deal.answer

DeliveriesInv ==
  /\ shipped \in [Contracts -> Nat]
  /\ \A c \in Contracts : c > Len(accepts) => shipped[c] = 0
  /\ pc = "work" => shipped[Len(accepts)] = 0
  /\ \A c \in Contracts \ unsure :
       shipped[c] <= 1 /\ (c \notin mem.delivered /\ AnswerIsKept(c) => shipped[c] = 0)

\* The offer in hand is remembered before it is accepted.
AnswersTo(o) == {c \in DOMAIN accepts : accepts[c] = o}
AcceptsInv ==
  \A o \in Offers :
    /\ AcceptIsDue(o) => o \in mem.seen
    /\ IF o \in mem.seen /\ ~AcceptIsDue(o)
       THEN Cardinality(AnswersTo(o)) <= crashes + 1
       ELSE Cardinality(AnswersTo(o)) <= crashes

\* An accept that is due still fits the caps it was checked against.
CapsInv ==
  /\ IsFiniteSet(mem.active)
  /\ pc \in {"ref", "accept"} => mem.used < AcceptPerHour + Reserve /\ Cardinality(mem.active) < MaxActive

\* Frames before n have their rows in d or pending.
Trailed(d, n) ==
  \A s \in 1 .. n :
    /\ room[s].kind # "chat" => s \in d.frames \cup pend
    /\ room[s].kind = "offer" => d.audits[s] # NoRow

\* Undisturbed, a batch goes on from the cursor and no flush can fail.
TrailInv ==
  ~disturbed =>
    /\ ~FlushFails /\ TrailIsComplete
    /\ pc = "idle" => tx = db /\ pend = {} /\ db.frames \subseteq 1 .. db.cursor
    /\ pc # "idle" =>
         /\ db.cursor = base /\ tx.cursor = base /\ Trailed(tx, at - 1)
         /\ pc = "frame" => tx.frames \cup pend \subseteq 1 .. at - 1
    /\ pc \notin {"idle", "frame"} => tx.frames \cup pend \subseteq 1 .. at /\ at \in tx.frames \cup pend
    /\ pc \in {"ref", "accept", "work"} => tx.audits[at] # NoRow

\* What the session sees is as true as what is committed.
TruthInv ==
  \A d \in {db, tx} : \A s \in Seqs :
    /\ d.audits[s].outcome = "claimed" => \E r \in reveals : ClaimedFor(r, s, d.audits[s])
    /\ d.audits[s].outcome = "delivered" => d.audits[s].contract \in Contracts /\ shipped[d.audits[s].contract] > 0

MarketInv ==
  /\ TclkTypeOK /\ PositionInv /\ DealsFit /\ RevealAnswersLock
  /\ DeliveriesInv /\ AcceptsInv /\ CapsInv /\ TrailInv /\ TruthInv
=============================================================================
