# LUMI observatory: TLA+ models, checks and proofs

LUMI runs tasks for an operator: a task becomes a *run*, a worker executes the
run's plan of tool calls, dangerous calls wait for a human approval, and a
scheduler keeps the queue and the database in step. Around that core it watches
rooms and sources, answers in a market of other agents, and earns with a few
separate programs. This directory holds the TLA+ models of the parts that keep
state, the TLC configurations that check them on small instances, and proofs of
the most important properties for every instance.

Paths are relative to the repository (`src/`). `PROJECT.json` lists components,
runs, the source lines behind each definition, mutants, findings, hazards and
theorems.

## 1. Inventory

### The core

| Part | State | Operations | Talks to |
|---|---|---|---|
| Task, run and approval API (`apps/api/app.py`) | tables tasks, runs, approvals, outbox_messages | create_task, control_run, retry_run, decide_approval | database only; the outbox carries messages to Redis |
| Telegram bot (`packages/agent_core/telegram.py`) | the same tables | /ask, /task, /pause, /stop, /resume, /approve, /reject | commits the run, then XADDs **by itself**, swallowing errors |
| Approval service (`packages/policy/approval.py`) | approvals, action_executions | create, decide_with_continuation, consume_and_record | one transaction each; queues the waiting run and its message |
| Run queue (`packages/observability/queue.py`) | Redis stream, consumer group with pending entries (PEL), dead-letter stream | XADD, XREADGROUP, XAUTOCLAIM, XACK | workers, scheduler, Telegram handlers |
| Worker (`apps/worker/worker.py`) | the ORM object it loaded, the entry it holds; `worker_id` and `lease_until` of the run | fetch, claim, continuation of an approved action, coordinator, last write, heartbeat, ACK | queue, database, tools |
| Scheduler (`apps/scheduler/scheduler.py`) | rows read in the current transaction | publish_outbox, recover_stuck_runs, auto_promote_memory, observe_sources, run_due_digests | one tick after the other |
| Coordinator (`packages/agent_core/coordinator.py`), policy engine, executor, verifier | plan position, status, budgets, circuit breaker, evidence | make plan; per action: control checks, budgets, policy, call, event | reads `control_request`; writes events through the worker's sink |

What is hard here: at-least-once delivery (an entry changes hands after 30 s
whether its consumer died or is slow), a lease without fencing, an ORM object
kept over minutes and written back, several transactions where the comments say
one, crashes between a remote write and its record, and control requests that
race all of it. Correct means: an approved remote write happens at most once and
its record tells the truth; two workers do not drive one run; a queued run always
has a message on its way, and is eventually claimed; completion is earned; a stop
request takes effect.

### Services around the runs

| Part | State and operations | Hard | Correct when |
|---|---|---|---|
| Run events and live stream (`packages/observability/events.py`, SSE in `app.py`, `apps/web/src/api.ts`) | `seq` per run, `global_seq` for the table, both under one advisory lock; a cursor per page | transactions of several events, rollbacks, broken connections, several tabs with one localStorage | numbers are dense per run, a page misses nothing |
| Telegram webhook inbox (`app.py`, `handle_raw_update`) | telegram_updates: PENDING, PROCESSED, FAILED | overlapping deliveries, death between effect and mark, handlers whose failure is swallowed | an update is handled, or its handler's failure swallowed, and twice only for a reason |
| Sessions and rate limit (`app.py`, `packages/observability/auth.py`) | users: `token_version`, `password_hash`; a marker of the environment's password; counters in Redis and in memory | read-add-write without a lock; INCR and EXPIRE as two commands | a revocation lasts; the password last asked for holds; a window bounds its burst and ends |
| Memory service (`packages/memory/service.py`) | items: CANDIDATE, AUTO_APPROVED, ACTIVE, REJECTED, EXPIRED | decisions and the maintenance pass act on copies | only what earned it is served, and what has gone bad leaves |
| Source monitor (`packages/observability/source_monitor.py`) | hash and time of the last observation | scans without the pass's lock; failing sources at the front of the rotation | changes are recorded rightly, every sound source is revisited |
| Digest service (`packages/observability/digest_service.py`) | schedules with the window of the last digest | rows that commit after the digest of their time | nothing is skipped but what a late commit or the page hides |
| Agent scorer, rooms (`apps/scheduler/agent_scorer.py`, cursors in `connectors/technocore.py`) | cursors and evaluations in one session; known rooms in memory | batches, savepoints, failed commits, restarts | no cursor passes over anything, no alert is repeated |
| Agent evaluator (`connectors/agent_evaluator.py`), Jev connector (`connectors/jev.py`) | sampling counter; calls of the minute and the day, breaker | three unsure layers; a check and a record with an await in between | no layer lowers a risk; the caps hold up to what passes together |

### Market and earning

| Part | State and operations | Hard | Correct when |
|---|---|---|---|
| Market agent (`agent_scorer.py`, `tclk_producer.py`) | frame and audit rows, cursor, active deals in memory | commits in the middle of a batch; posts that may have landed; locks by anybody, and for deals already forgotten | one accept, one delivery; a reveal answers a lock that asks for it; the trail tells the truth |
| Offer audit (`connectors/tclk.py`), solver (`tclk_solver.py`), fold (`br_fold.py`) | pure decisions; the state of a contract | missing fields; squares of trial primes; records in any order | the audit implies the gate; answers are right; the fold is an escrow |
| Spending ledger (`apps/earn/flop_compute.py`, `flop_chain.py`, `flop_gateway.py`) | append-only ledger | charge first, record later; overlapping invocations | the cap holds beyond what got lost |
| Block rewards (`blockrewards.py`), job board (`kibble.py`), trader (`trader.py`), season trader (`close1.py`) | one state file each, saved at some points | death between post and save; a view of the last lines only | nothing done twice that is recorded; locks are answered; budgets hold |

### No state to model

Planner, skills, language model and context assembly (their result enters
`Coordinator` as an arbitrary plan); read-only connectors; `program_watch.py` (one
pass that writes rows and exits); log viewer, live log, command-line tools, web
front end beyond its event stream, migrations.

## 2. Modules

| Module | Models | Run |
|---|---|---|
| `RunLifecycle` | API, Telegram, approvals, outbox, queue, workers and recovery together; one action is one transaction or one Redis command | approvals, delivery, progress, approve_race |
| `ApprovedAction` | abstract: ask, decide once, use once, take effect at most once, report; refined by `RunLifecycle` | approvals |
| `Outbox`, `Relay` | `publish_outbox` with its window, attempt limit and `not_before`; abstract: a message waits, is sent, is confirmed | services |
| `Coordinator` | one call of `RunCoordinator.run` and what the worker makes of its end | decisions |
| `EventLog`, `EventFeed` | numbering, commits and rollbacks of events; pages that fetch, break, reconnect, reload; abstract: a log that grows at its end, readers that get the next event in turn | services |
| `Inbox` | deliveries of updates, de-duplication, handler, marks, crashes | services |
| `Memory` | candidates, decisions, expiry, promotion, what a search serves | services |
| `Sessions`, `Limiter` | login, logout, change of password, start with another environment; RateLimiter.check | decisions |
| `Evaluator`, `JevClient` | the three layers and their merges; caps and breaker | decisions |
| `OfferGate`, `Solver` | audit_offer and offer_allows; number questions and verdicts | decisions |
| `Fold`, `Escrow` | the transcript fold; abstract: a hash-locked deal | decisions |
| `RoomScorer`, `Sources`, `Digest` | poll_once; pass and scans; run_due and generate | watch |
| `TclkAgent`, `Exchange` | the market agent; abstract: what an agent that sells work does in public | market, market_stalled |
| `ComputeSpend`, `BlockRewards`, `Kibble`, `Trader`, `Close1` | the earning programs | earning, unavailable_spends, unverified_reveal |
| `MCRunLifecycle`, `MCServices`, `MCDecisions`, `MCWatch`, `MCTclkAgent`, `MCEarning` | instances for TLC | |
| `RunLifecycleProofs`, `LeaseProofs` | theorems about `RunLifecycle` | |
| `ServiceProofs` | theorems about `Outbox`, `Memory`, `Inbox` | |
| `EventLogProofs` | theorems about `EventLog` | |
| `DecisionProofs` | theorems about `Coordinator`, `Fold`, `OfferGate`, `Evaluator`, `JevClient`, `Sessions`, `Limiter` | |
| `WatchProofs` | theorems about `RoomScorer`, `Digest`, `Sources` | |
| `MarketProofs` | theorems about `TclkAgent` | |
| `EarningProofs` | theorems about `ComputeSpend`, `Close1`, `BlockRewards`, `Kibble`, `Trader` | |

`MCServices`, `MCDecisions`, `MCWatch` and `MCEarning` put modules that share no
state into one run: a behaviour is a behaviour of one of them, named by a variable
that never changes, and the others stay in their initial states. What does
interact is in one module: the parts of the core in `RunLifecycle`; the market and
the agent in `TclkAgent`; source rows and evaluations enter `Digest` as rows that
commit late.

### RunLifecycle

*State.* `run`, `approval`, `exec`, `outbox` are tables, reduced to the columns that
control depends on. `unread` and `pel` are the stream: undelivered entries per run,
and delivered, unacknowledged ones as numbered tickets. `work[w]` is what a worker
process holds in memory: its position, run, ticket, the status it *loaded* (the
session is opened with `expire_on_commit=False` and `s.get` later returns the
same object), the approval it consumed and the status it will write. `stuck` is
what the recovery has read and not yet written. `effects`, `lost`, `failures`
are histories.

*Time* is not a number. A lease is null, live or expired: it expires freely
once its owner is gone (`LeaseExpires`), and under a live owner only as the
fault `slip` (`LeaseSlips`) — a continuation has no heartbeat at all and the
heartbeat swallows its errors, so this does happen. An approval's `expires_at`
passes at any moment (`ApprovalTimeout`). The 30 s idle time of XAUTOCLAIM may
have passed for any pending entry (`Reclaim`).

*Worker actions*, in the order of `_handle_entry` and `_process_run`: `Receive` or
`Reclaim` (with the load of the row and the early return on a terminal
status), `Claim` or `ClaimRefused` (the conditional UPDATE and its row count),
`Consume`, `ConsumeRefused`, `ReadOpen` and `FailClosed`, `ReplayBlocked` or
`NoContinuation` (`_try_continuation`; the execution record is read without a lock
in `ReadOpen` and written as AMBIGUOUS in `FailClosed`, and another worker may have
recorded its SUCCEEDED in between), `CallTool`, `FinishCall`, `FinishRaises`, `FailCall` (the
approved action), `CoordinatorEnds` or `AwaitApproval`, `FinalWrite`, `Ack` or
`AckFails`; `Crash` at any point; `Heartbeat`. `FinalWrite` writes nothing when the
loaded status equals the new one: the ORM sees no change.

*Scheduler actions.* `PublishMessage` per XADD, `PublishCommit` at the end of the
transaction, `RecoverScan` (plain SELECT), `DeadLetter`, `RecoverCommit`,
`SchedulerCrash` inside either. The passes do not overlap: the tick runs them one
after the other. The window and the attempt limit of the outbox are in `Outbox`.

### The other modules

Each follows one program or one object of the code, an action per handler or per
stretch between two awaits:

* *Transactions.* Where the code commits, `db` (or the table) changes; a session's
  own view is `tx` (`RoomScorer`, `TclkAgent`), `elDraft` (`EventLog`) or what a
  request has loaded (`Memory`, `Sessions`). Rollbacks and the "session has to be
  rolled back first" state after a failed flush are kept: `TclkAgent` needs them.
* *Files.* The earning programs have what is on disk and what is in memory as two
  variables; a restart copies the first over the second.
* *Posts* to a room may fail, land, or land and raise. What the caller does not learn
  is kept in a history (`unsure`, `brLost`, `trSlipped`, `clUnsaved`).
* *Frames of others* in the market are taken as the code takes them: a lock may come
  from anybody and name any contract and any reference (`FOREIGN` is a contract that
  is none of the agent's).
* *Columns.* An assignment of the value that was loaded is no UPDATE (`Assigned` in
  `Sources`, `FinalWrite` in `RunLifecycle`).
* *Histories* (`alerts`, `accepts`, `csSettled`, `seRevoked`, ...) record what the
  properties compare; no guard reads them.
* *Remote answers* (hashes, Jev and model answers, prices, frames of other agents)
  are chosen from small sets at the moment they arrive.
* *Time* is relative where it can be (`Limiter`), a bounded counter where windows
  are compared (`JevClient`, `Digest`), and otherwise an event that may happen at
  any moment.

## 3. Runs

Passing runs disable the deadlock check where they may really stop (all tasks
done, nobody asks for anything, bounds used up).

| Run | Properties | Instance and size |
|---|---|---|
| `approvals` | `TypeOK`, `EffectAtMostOnce`, `RecordIsTruthful`, `ApprovalsAreSingleUse` | two workers, one run, two approvals, two faults out of crash and late lease, expiry; 2.9 M states up to symmetry |
| `delivery` | `QueuedHasMessage` | one worker, a run and its retry, every operator request, two faults out of worker crash, scheduler crash and failing XACK, any number of lost XADDs; once there is a second run, only one fault and no pause or stop (`CalmAfterRetry`); 1.8 M states |
| `progress` | `LeaseExclusion`, `TerminalUnlessRecovered`, `QueuedRunIsClaimed`, `ExecutingRunRests` | two workers, two runs, a crash, expiry, fairness; 346 k states |
| `services` | `OutboxIsRelay`, `EveryMessageIsPublished`, `LogIsFeed`, `EventsArrive`, `HandledOnce`, `UpdatesGetHandled`, `ServedIsEarned`, `BadItemsLeave` | three outbox rows and a window of two; two runs, three appenders, two tabs, pages of two, two breaks; two updates, two handlers, two faults; an item, two administrators, a failing pass; 223 k states |
| `decisions` | `EndIsEarned`, `StopLetsOneCallThrough`, `FoldIsEscrow`, `RiskIsNotMissed`, `GatewayIsSpared`, `CommitmentIsGated`, `MathIsRight`, `LastWordHolds`, `WindowIsFixed` | plans of up to four entries; three agents, two secrets, both lock types, a rail in two spellings; all layers; two API coroutines; all policies; numbers around 41² and below 130; two requests and two starts; two checks, three faults; 1.1 M states |
| `watch` | `CursorsPassNothing`, `NoAlertAfterCommit`, `RoomsCatchUp`, `SourcesAreWatched`, `NothingIsSkipped` | a configured and an announced room, a malformed announcement, a failure, a restart; three sources, one broken, two per pass; one schedule, three rows, pages of one; 1.1 M states |
| `market` | `OncePerDeal`, `AuditIsTrue`, `AgentIsExchange` | two offers, three frames, two accepts, a failure and a restart, the two not together once all three frames are posted (`CalmInLargeRooms`); 5.8 M states |
| `earning` | `CapHolds`, `LocksAreAnswered`, `SavedDealIsNotRepeated`, `ResultsAreDue`, `FailedCycleIsBounded`, `DealsAreCounted` | each program with a crash and failing posts; a list of one working offer; 8.1 M states |

A property whose name stands for several is the conjunction of named parts, each
stated next to it in its module: for example `GatewayIsSpared` is `MinuteCapHolds`,
`EvaluatorLeavesRoom`, `DayCapHolds` and `BackoffIsHonoured`.

*What they show.* In no run is an approved write repeated, or recorded as done
without being so, whatever crashes and is delivered again. Recovery alone costs a run its terminal
status, as long as leases are renewed in time. The event stream has no gaps
because the advisory lock is held to the end of the transaction: with a row lock
alone TLC finds the gap. The caps of the Jev client may be overshot by as many calls
as pass the check together, which for the scheduler's single caller is none. The
spending cap, the taken offers and the job results hold up to what a death, a lost
answer or two invocations at once keep out of the file, and the properties name
exactly that.

*Why the bounds are enough.* Two workers and two tickets let an entry be held by
a slow worker while another one has it too; a third worker would repeat the
roles. Two approvals make the "latest" rule matter. Two faults allow a crash of
the worker that took over from a crashed or slow one. A window or page is always
one smaller than what may wait for it (rows, events, digest rows, board lines,
the list of working offers: two offers and `WorkingKeep` 1), so something is left
outside. One failure in `watch` is enough for each place where one may strike; the
theorems about `RoomScorer` hold for any number. `CalmInLargeRooms` keeps `market` small;
the theorems about `TclkAgent` know no such bound. Two concurrent
requests are what a lost update takes. `MaxRetries` 1 and 0 take the recovery
through both its branches. `MaxRecovered`, `MaxUnread`, `MaxVersion`, `MaxNow` and the
like keep counters finite; each is named in its module.

*Fairness.* All weak, and only of loops the program really runs: each worker polls
and processes, the scheduler ticks (`Pass`, `Recover`, `Maintenance`, the sources'
`Pass`), the scorer's loop goes on (`Step`), the browser reconnects and the stream's
generator polls (`Follow`), Telegram delivers again what got no 200 (`Deliver`) and
the API finishes its requests (`InStep`), `not_before` and back-offs pass, time
ticks and a check that made a counter goes on to its EXPIRE (`LiTick`, `Expire`).
No operator has to decide anything and no fault has to occur. That every await
returns or raises rests on the HTTP timeouts of the connectors; for the database and
Redis clients it is assumed.

*`ExecutingRunRests` includes* the run whose granted approval expired before it was
consumed: it is left EXECUTING and acknowledged, and it is the recovery that
brings it on. It says nothing about WAITING_APPROVAL: a request nobody decides in
time leaves its run waiting, since nothing in the code watches for it.

## 4. Disagreements between code and its comments

Four runs check a sentence of the repository and TLC refutes it:

| Run | Sentence | What happens |
|---|---|---|
| `approve_race` | approve moves the run atomically to QUEUED; a message consumed too early comes again | the approval row is committed before the run is WAITING_APPROVAL; a decision in between uses up the only message and the run waits for ever, approved |
| `market_stalled` | a bookkeeping miss "must not stall the surveillance loop"; a duplicate is "the expected replay case" | a commit in the middle of a batch, then a failure of the batch's commit: every replay collides with its own rows and the cursor stays |
| `unavailable_spends` | "fails closed on every real spend" | the refusal for want of a client asks the client for its wording, and the chain client pays |
| `unverified_reveal` | only a venue-verified lock triggers the reveal | a lock frame on the public board triggers it unverified |

Others, met while modelling, have no run of their own; the models behave as the
code does and the properties leave room for it:

* `worker.py:293` "reload … (avoid stale)" returns the cached object, so a worker
  whose lease ran out writes over the FAILED of the recovery (`TerminalStays` excludes
  it by assuming renewals in time); an execution whose run the recovery failed first
  stays PENDING; a stop request does not stop an approved continuation
  (`worker.py:405` against `telegram.py:476`); rows with used-up attempts fill the
  outbox window (`scheduler.py:72`; `EveryMessageIsPublished` excuses it); a TOOL_CALL
  event that cannot be written is handled as a tool error although `events.py:21`
  says the entry must not be acknowledged; Telegram handlers publish past the outbox
  that `app.py` calls the only reliable path.
* The solver's validation ignores the numbers its comment says it compares
  (`tclk_solver.py:317-327`); a RESULT of a franchise job skips the first-claimer
  check of `kibble.py`; `verify_landed` takes a CLAIM line for the RESULT it looks for;
  coherence orders of the trader are outside the daily budget and may buy the
  overpriced leg.
* With Jev unavailable the evaluator serves the heuristic where its docstring
  escalates; `offer_allows` is called by nobody; the API's "approve" of a mere
  CANDIDATE memory answers ok and changes nothing.
* `app.py:1607` says "return 500 so Telegram retries". `handle_raw_update`
  (`telegram.py:571`) logs what a handler raises and returns, so the webhook answers
  200 and marks PROCESSED: a failing command is not tried again (`inSwallowed`).
* `ARCHITECTURE.md:79` says "one accept per `(author, nonce)`, ever". What was accepted is
  in memory only (`agent_scorer.py:446`): after a restart the offer, read again from the
  old cursor, is accepted again. `OneAcceptPerLife` claims one accept per life of the
  process, and no more.
* The agent answers a lock whoever sent it, signed or not (`agent_scorer.py:412-421`),
  and compares neither its contract with its reference nor either with the deal room
  it reveals in (1104-1118, 1137-1183). With two accepted offers a lock that names the
  contract of one and refers to the other's has the secret of the second revealed and
  the row of the first marked as claimed; `RevealAnswersLock` and `OutcomeIsTruthful` say
  what is left: some lock on the room asks for that secret, or names that row.
* `blockrewards.py:146-148` says that a restart between delivery and lock "no longer loses
  the deal". The state is saved every ten rounds (514), so a deal delivered since is
  lost; and a delivery that lands although its post raises leaves its deal "accepted",
  which recovery passes by. `DeliveriesWait` names both (`brLost`).
* The fail-closed path of a continuation reads the execution without a lock and writes
  AMBIGUOUS later (`worker.py:338-345`): a SUCCEEDED that a slow worker commits in between
  is lost, and its run may be COMPLETED with an AMBIGUOUS record. `ApprovedAction` has
  this as `Doubt`, `WriteOff` and `GiveUp`.
* The fold opens a point-locked deal with a hash preimage (`br_fold.py:267` looks at the
  statement alone).
* A malformed announcement ends the pass over its batch, but the cursor of the batch is
  already in the session (`technocore.py:431`) and the next room's commit keeps it: the
  rooms announced behind it are never monitored (`passed`).
* `close1.py:173` writes the file of taken offers in place: a death in the middle empties
  it, and offers recorded there may be taken again (`clUnsaved`).
* The trader's budget does not count an order whose post raises after it landed
  (`trader.py:360`), and an error page of a watched surface becomes its baseline
  (`trader.py:309`), so the page itself is news when it comes back.
* A source scan that overlaps with another may leave the row with the other's hash
  (`source_monitor.py:257`): the next observation is compared with that one.
* A lost EXPIRE leaves a rate-limit counter that never ends (`liTtlLost`); a logout
  that overlaps a change of password writes the same version, and the token that the
  change handed out survives the logout (`seStale`).

## 5. Proofs

Checked by TLAPS for every value of the constants that meets the module's
`ASSUME` (bounds are naturals, windows are not empty, `NoOne` is no appender, the
scores, prices and page limits of the code's types, ...). Each invariant named `...Inv`
stands at the end of its component's module, where TLC can check it as well.

* **`TypeCorrect`** (`RunLifecycleProofs`, `ServiceProofs`): per action, from lemmas on
  updates of rows.
* **`ApprovalInvariant`**, hence **`AtMostOnce`**, **`ConsumptionIsRecorded`**,
  **`SuccessIsTrue`**. None of the three is inductive: `CallTool` increments
  `effects` without looking at it. `ActingOwnsApproval` says why that is safe: a
  worker between `Consume` and its record holds a CONSUMED approval that no other
  worker holds, whose count is 0 before the call and 1 after a call that
  returned, and whose record is not SUCCEEDED. `Consume` establishes it, since
  APPROVED implies an absent record and a zero count; `FailClosed` of a second
  worker may set AMBIGUOUS under it, which is why AMBIGUOUS is allowed there, and
  over a SUCCEEDED too, which is why no theorem says that a record stays.
  The lease plays no part: the theorem holds with leases lost at any time.
* **`SingleUse`**: `RunLifecycle` implements `ApprovedAction` under `PermitOf` and
  `ReportOf`; each step maps to a step or a stutter, using the invariants above and
  `ClosingHasRecord`: a worker that is about to write AMBIGUOUS had read a record, so
  what it withdraws is a report the abstract action calls `doubted`.
* **`LeaseInvariant`**, hence **`Exclusion`** and **`TerminalStays`**, for instances
  where renewals are in time (`"slip" \notin Faults`). `DrivingOwnsRun`: the row of a
  driven run names its driver and is EXECUTING under a live lease, *or* has been
  failed by a recovery that had read it before the claim. The second case is why
  `TerminalStays` excludes runs the recovery has touched.
* **`PassInvariant`**, hence **`DuplicateBound`** and **`IsRelay`**: only the pass under
  way has marks, on open rows it is done with, and every entry of a row that
  neither this pass nor an earlier one confirmed is owed to a crash.
* **`QueuedIsDelivered`**. `DeliveryInv` adds to `QueuedHasMessage` what its steps look
  back at: a worker that has loaded a run still answers for the ticket it was given
  (or somebody else took the entry over), no worker ends a run as QUEUED, and an
  approval not asked for yet has no message.
* **`StreamHasNoGaps`**, **`SeqsAreDense`**, **`LogImplementsFeed`**. The invariant
  `ElInv`: drafts exist only under the advisory lock (`LockInv`), so every draft is
  numbered above every committed row (`OrderInv`, `UniqueInv`) and a run's numbers
  are dense with the holder's drafts counted in (`SeqInv`); what a page has not been
  shown up to its cursor is what it has fetched and not sent (`SeenInv`, `FetchInv`).
  `RunOrderInv` adds that a run's numbers follow the ids. With both, each step is one
  of `EventFeed` or a stutter: a commit extends the log at its end, what is sent is the
  lowest committed row above the page's last id, a reload starts where some page had
  come to, and appends, rollbacks, polls and broken connections change nothing a
  reader of the log can see.
* **`MemoryInvariant`**, hence **`ServedEarned`**: an item that is AUTO_APPROVED or
  ACTIVE was promoted, what an open pass will promote is high and live, and a copy
  loaded as AUTO_APPROVED vouches for a promoted item; the last is what makes a stale
  activation harmless.
* **`SpendTypes`**, **`CeilingHolds`**: while invocations do not overlap, at most one of
  them is between reading the ledger and recording, and for it what was charged is
  the ledger, what got lost and its own row; a spend looked at the first.

* **`InboxInvariant`**, hence **`UpdateIsHandledOnce`**: a row or a request says
  PROCESSED only after the update was carried out or its handler's failure swallowed,
  and every repetition has its excuse in the history (a death, a failed mark, an
  overlapping delivery).
* **`CoordinatorInvariant`**, hence **`RunEndIsEarned`** and **`StopIsSeen`**: evidence,
  outputs, calls and budgets are counted against the position in the plan
  (`EvidenceMatches`, `PositionAllows`); `StopInv` adds where the call can stand when a
  stop has been asked for and one more call was made.
* **`FoldImplementsEscrow`**: the fold's contract maps to the escrow's, and a record the
  fold refuses is a stutter; so every order of every records is covered, with any
  lock type, statement and spelling of rails (`ContractsLike`).
* **`CommitmentPassesBothGates`**, **`NoRiskIsMissed`**: from the definitions, for every
  offer, policy, score, table and confidence; the second needs how the merges order
  the verdicts and that the three layers answer in a fixed order.
* **`JevInvariant`**, hence **`GatewayIsLeftAlone`**: a cap may be passed by the calls
  that were let through and are not recorded yet; those are counted, and there are
  as many as coroutines that ask (`CallsAreOurs`, `DayIsCounted`, `BackoffIsCovered`).
* **`LastWordIsKept`**: unless a stale read wrote the version (`seStale`), every token was
  issued at or below the row's version and every revoked one below it
  (`TokensAreBehind`), whatever the requests in between have read.
* **`ScorerInvariant`**, hence **`NothingIsPassedOver`** and **`AlertsEndWithCommit`**: a
  committed cursor that stands above nothing open is not inductive, since the rows a
  poll has read are dealt with one at a time in one session; `BatchInv` says what the
  session holds beyond the tables at each of them, `AnnouncementsAreRead` how far its
  cursor of the announcements may be ahead: of nothing but what stood behind a
  malformed one (`passed`).
* **`DigestInvariant`**, hence **`DigestsSkipNothing`**: what is claimed of
  `last_generated_at` holds of every value that an open job, overlapping ones and
  those that will fail included, may still write into it (`JobsAreCovered`).
* **`MarketInvariant`**, hence **`DealIsMadeOnce`**, **`SecretAnswersLock`**,
  **`TrailIsTrue`**. The locks are anybody's: what is proved of a reveal is that the lock in
  hand asks for its secret (`AsksFor`), by the contract or the offer it refers to or by
  the contract it names, and on an allowed rail. The parts: where in the poll the agent is and what frame it looks at
  (`PositionInv`); a deal in memory was accepted in the room, and a deal in hand is one the
  lock in hand asks for (`DealsFit`); an offer's
  accepts are counted against `seen`, one more per restart (`AcceptsInv`), a delivery against
  `delivered` and the kept answer (`DeliveriesInv`); while no commit was rolled back
  and nothing read again, the frame and audit rows are complete up to the cursor
  (`TrailInv`); an audit row claims no more than the room shows (`TruthInv`).
* **`AgentImplementsExchange`**: under the map of `AgentIsExchange` (offers and locks are those
  of the room; decided are the offers seen but the one whose accept is due) each step
  of the agent is one of `Exchange` or a stutter: an accept finds its offer made and undecided
  (`OfferIsDue`), a delivery its contract undelivered or in doubt (`DeliveriesInv`), a reveal
  a lock in whose room it is shown and which asks for it (`DealsFit`).
* **`CloseInvariant`**, hence **`DealsAreCountedOnce`**: as long as no two invocations ran
  at once, one that runs works on the file as it is, and what it has posted is in
  its copy (`PostsAreCounted`); a file that a death in the middle of its write has
  emptied moves all it held to `clUnsaved`.
* **`RewardsInvariant`**, hence **`LocksFindTheirDeals`**: the dictionary in memory and the
  one last saved agree with what was delivered, and the rooms are ahead of both
  cursors (`PhasesAgree`, `RoomsAreAhead`, `PassedIsMissed`), and what was delivered and
  not revealed or refunded is kept in memory, and in the save but for what came after
  it, or counted as lost (`DeliveriesAreKept`). **`SavedDealsStand`** needs no bound on the
  offers: one that the process has cut from its list of working ones (`brCut`) may be
  taken again, no other.
* **`KibbleInvariant`**, hence **`ResultsStandFirst`**: a job's claims and results are lines
  behind its JOB line, so a read that shows the JOB line shows all of them
  (`JobsComeFirst`); a claim the state file knows stands on the board unless the job
  has its result (`ClaimsStand`); and no result was sent for a job the round has still
  to answer (`TodoIsOpen`). It needs the assumption that franchise jobs are jobs.
  Of the board it is assumed, in `PostJob` and `RivalPosts`, that a job has one JOB line and
  that its claims and results come after it. The code relies on that: `EVENT.search`
  (`kibble.py:145`) takes a JOB line anywhere in a text and `wanted` (247) the first of
  several, so a second JOB line could bring a job back whose first claim the window no
  longer shows.
* **`TraderInvariant`**, hence **`FailuresAreBounded`**. `FillsInv`: what was filled on a day
  is counted in the copy or belongs to a cycle that lost count of it, by failing
  before its save or by a post that landed and raised, and what the cycle may still
  fill is within the day's budget. `NewsInv`: until the save, a surface of a cycle's
  copy that is no hit has the baseline of the file, its first one or that of an error
  page, and at the save every hit is in the log.
* **`RejectionStands`**: `RejectedInv` says what the readers of a rejected item hold: no
  pass has it as a candidate, and a decision that loaded it found REJECTED or EXPIRED,
  unless the rejection came after the read and the history says so.
* **`ChangesAreToldRightly`**: the hash of a row is that of its latest observation, unless
  that one was overtaken (`Raced`) and found the hash it had read, which writes none
  (`HashIsLatest`), and what a pass has read under its lock is still there when it commits
  (`ReadUnderLock`); a scan makes no such promise, and the theorem none about it.
* **`LimiterInvariant`**, hence **`BurstsAreBounded`**: the admissions in a window split in
  two (`OfWindows`): those of earlier counters, at most the limit, which leave no later
  than the present key expires, and those the present counter has counted. A key whose
  EXPIRE was lost never expires and only makes this stricter.

*Only model-checked:* all liveness (`QueuedRunIsClaimed`, `ExecutingRunRests`,
`EveryMessageIsPublished`, `EventsArrive`, `UpdatesGetHandled`, `RoomsCatchUp`, and the
liveness halves of `BadItemsLeave`, `WindowIsFixed` and `SourcesAreWatched`, whose safety
halves are `RejectionStands`, `BurstsAreBounded` and `ChangesAreToldRightly`), since
fairness is out of the prover's reach; and `MathIsRight`: that twelve bases decide primality is a computation over all numbers of a
range, not a proof, and its definitions are recursive.

## 6. Left out of the modelled parts

The legacy list queue beside the stream; entries that cannot be parsed and runs
whose task row is missing (logged and acknowledged); trimming of the stream at
10000 entries; the Idempotency-Key of the creation endpoints; access checks and
read-only commands of Telegram; `ApprovalService.consume`,
`mark_execution_result` and `PolicyEngine.set_override` (tests only);
`RunCoordinator.request_stop`, `request_pause` and `resume`, `MemoryService.supersede`
and `link_contradiction` (called by no endpoint or job); token signatures, roles and
deactivation of accounts (nothing in the program writes them after the seed); the
numbering of events without the lock under SQLite; updates without an id; the
warning posted into a room and the health alert of the scorer; enrolment and
signing; word, list and extraction questions of the solver; wire formats of
frames; payloads, wording, metrics and logs. A connection lost in the middle of a
Redis command is a crash before or after it, except in `Limiter`, where it is an
action.

## 7. What could come next

1. `program_watch.py` as a module of its own: one pass that nobody interleaves with,
   so it comes last.
2. The branch of `append_run_event_in_session` without the lock (SQLite, for tests),
   whose order rests on what that database locks.

`Fold` is not composed with `TclkAgent`: the program folds the transcript a question
brings along, never the rooms its own agent works in, so nothing they share could go
wrong between them.
