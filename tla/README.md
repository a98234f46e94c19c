# A verification project for quant-factor-framework

This directory holds TLA+ models of the stateful parts of the repository, the
TLC configurations that check them on small instances, and TLAPS proofs about
them. Paths below are relative to the repository root (`src/src/...` in
`PROJECT.json` is `src/...` here).

## 1. The system

The repository computes equity factors, publishes market data and research,
backtests strategies, trades them on paper and reports on Discord. Almost all
of it is numeric code on frames. What can go wrong in ways a test hardly
reaches lies in a few stores shared by one-shot systemd jobs, a Web process
with a thread pool, and a chat webhook.

| Part | State it keeps | Operations | Interacts with | What makes it correct |
|---|---|---|---|---|
| Paper trading `papertrading/runner.py`, `store.py` | per account: frames fills, cash_events, orders, positions, equity_curve, runs; account record | one run per session, killed and retried | published data; notifications read its tables | the ledger is append-only, funded, exact; a commit is one consistent view |
| Notification outbox `notification_state.py`, `notifications.py`, `scripts/run_paper_notifications.py`, `alerts/discord.py` | `paper_notification_outbox` rows, file lock | stage, claim, send, settle | paper ledger; Discord | at most one message per row; rows that never lie |
| Data requests `storage/app_db.py`, `data/request_worker.py` | `data_requests` rows | enqueue, recover, claim, finish, retry | backtests and paper accounts enqueue; the market data writer serves | capped, settled, verdict only after publication |
| Backtest tasks `backtest/runner.py`, `store.py`, `webapp/routes_v2.py`, `webapp/app.py` | task rows, futures, monitor | create, submit, run, wait, resubmit, recover, delete | data requests, versions, research publications | nothing orphaned, one frozen contract, tasks end |
| Broad US pipeline `data/security_master_store.py`, `data/broad_coverage.py`, `data/universe_publication.py`, `factors/data_publication.py` and their scripts | Security Master generations, coverage versions, provider cache, universes, factor generations with checkpoints, pointers | four stages by one nightly unit, or one of them by hand | the vendor; each stage reads what the one before published | one linear chain of versions, prices on one basis, factors of one set of inputs |
| Intraday monitor `breakouts/live/` | cycle and observation tables, signal outbox, heartbeat | promote, poll, stage, send, finalize | the watchdog reads its tables; Discord | at-most-once signals, cooldown, live only after good sessions |
| Market data publication `data/foundation.py` | immutable versions, DuckDB catalog, pointers | update, publish, recover | every reader | a pointer names only complete versions |
| Group publication `factors/publication.py`, `group_analytics/` | generations, publication pointer | build, validate, publish | backtests | research of one version |
| Operations `operations/` | incidents, published snapshot | collect, reconcile, publish | systemd, the monitor | an outage shows |
| EP pipeline `breakouts/ep/`, `alerts/ep_event.py` | leased queue, event members, journal of paid requests, Discord outbox | discover, identify, group, match sources, ask the model, hand off, send | vendors, a paid model, Discord | nothing falls between two stages; each text paid for and posted at most once |
| Premarket digest, alerts, scans | small outboxes and queues | prepare, send | Discord | as the outbox |
| Strategies, watchlists, decision replay | single records, write-once bundles | CRUD | Web | one transaction each |
| Engine, factors, analysis, research, plots, pages | none of their own | pure computation | - | numeric; not for a model checker |

Hard behaviour: a run is not a transaction although each of its writes is; a
webhook can create a message and lose the answer; claims are given up by age
only; `update_task` reads and upserts in two transactions; the monitor acts on
a snapshot. `PROJECT.json` lists these under "hazards", at their lines.

## 2. Modules and the code

| Module | Models | Composes |
|---|---|---|
| `AtMostOnceDelivery` | what an outbox promises: a message is created at most once, each outcome is decided once | |
| `NotificationOutbox` | rows, lock, worker phases, Discord | refines `AtMostOnceDelivery` |
| `NotificationOutboxProofs` | theorems | extends `NotificationOutbox` |
| `PaperNotifications` | the worker reconciling the ledger of a trading run | extends `NotificationOutbox` |
| `PaperLedger` | one account and its runs | uses `Sums` |
| `Sums` | the sum of a column over some rows | |
| `SumTheorems` | what such sums do when rows are added or taken away | extends `Sums` |
| `PaperLedgerProofs` | theorems | extends `PaperLedger`, `SumTheorems` |
| `DataRequests` | what the queue promises: success after publication, verdicts final | |
| `DataRequestQueue` | rows, workers, recovery | refines `DataRequests` |
| `DataRequestQueueProofs` | theorems | extends `DataRequestQueue` |
| `BacktestTasks` | handlers, pool, monitor, recovery, writers | uses `DataRequests` for its requests |
| `BacktestTasksProofs` | theorems | extends `BacktestTasks` |
| `ImmutablePublication` | what a publication pointer promises: it names a finished artifact, which never changes | |
| `BroadCoverage` | Security Master and incremental coverage | |
| `BroadPipeline` | the point-in-time universe and the factor data on top | extends `BroadCoverage`, refines `ImmutablePublication` |
| `BroadPipelineProofs` | theorems | extends `BroadPipeline` |
| `IntradayMonitor` | sessions, cycles, promotion, signal outbox | |
| `IntradayWatch` | the watchdog over the monitor's tables | extends `IntradayMonitor`, refines `AtMostOnceDelivery` |
| `IntradayWatchProofs` | theorems | extends `IntradayWatch` |
| `EventQueue` | the leased job queue of the EP pipeline | |
| `EventOutbox` | the Discord outbox of its worker | |
| `EventPipeline` | news lane, source lane and paid worker | extends both, refines `AtMostOnceDelivery` |
| `EventPipelineProofs` | theorems | extends `EventPipeline` |

Each SQLite transaction, and each write of a whole frame, is one action; a
process may be killed between any two. `MC*` modules fix the constants.

**NotificationOutbox.** `rows` are the columns of the outbox table; `accepted`
counts the messages Discord has really created and is what no process can see.
`Begin` takes the `run_lock`; `StageNew`, `StageConflict` are the branches of
`stage`; `Claim` is `claim_next`, which first turns every interrupted SENDING
row into UNKNOWN; `Send` is the POST with every reply of `DiscordDeliveryError`
(rejected, retryable, uncertain, created); `MarkSent`, `MarkFailed` are the
compare-and-set updates; `Crash` kills a worker anywhere, also during the POST,
whose message may or may not have been created.

**PaperNotifications.** The ledger is a sequence of fills; a trading run
appends fills and, several transactions later, the row of the runs table. The
worker loads the ledger once (`snap`) and compares or stages fill by fill. The
payload is abstracted to the dataset version: it is the only field of a fill's
message that is not taken from the fill's own immutable row.

**PaperLedger.** `pc` walks through the writes of `_run_account_once_locked`:
fills, cash_events, orders, cash_events again, positions, equity_curve, the
decision, the reports, the account record. Filling happens in memory, one
action per branch of the loop, in the order of `scheduled_open`. `CashIn` and
`HeldIn` are the replay of `_state_from_fill_ledger`, `Oversells` and
`Overspends` what it raises on. Prices, dividends and volumes are a fixed small
market; the rebalance target is any of `Targets` the account can afford at the
close. `Crash` forgets the locals. A run may be started for any session.
Left out: `_validate_execution_units`, which refuses any run before the last mark
or fill (here only a run with orders to fill is, so the model has more runs than
the code); the `invalid_order` branch (no caller
writes such an order); watchlist accounts, which fail before their first
write; the `target_weights` and `target_history` tables and the replay
snapshot, which nothing reads back into the ledger (`SaveReports` stands for
the tables only readers use). Money and shares are integers; slippage is part
of the price, a fee is one amount per fill below the price of a share.

**DataRequestQueue.** `attempts` and `status` are columns, `aged` says that
`started_at` is older than `request_stale_minutes`; `batch` and `current` are
the memory of a worker. `Publish` is `update_universe`, which really publishes
only under the writer lock; the lock delays a worker and changes nothing the
properties see.

**BacktestTasks.** `at` is where a task's future is. `Update`/`Put` are the two
transactions of `update_task`, with the row read by the first in `draft`; a
read of the row just before it (`_run_task`, `load_task`) is merged with it.
Versions are numbers, a contract is the version it pins. `fits` says which
versions pass the preflight of a task (`inspect_coverage`): that depends on the
sessions, tickers and history a version holds, so `Grow` lets each publication
cover any of its readers or none, also the one made for a request. A version
never changes, but `_expected_session` moves on with the calendar until the end
of the task, so `Expire` may take all that is published so far from a task. A
named task without a contract only resolves identities
(`current_named_contract`) and pins them; with one it loads them. `Load` may
find research replaced or its version expired, and then waits without a request,
named or watchlist; `Compose` fails on replaced research. A universe without any
version is left out of `PrepareNamed` (the task fails there, which is `Fail`). The
lifespan's own `reconcile_waiting` is the first round of the monitor. Errors of
the store itself are not modelled: neither in the error handler of a job nor in
`startup_recovery`, which the lifespan would only log (`webapp/app.py:59`).

**BroadCoverage.** A price is reduced to its *basis*, the number of times the
vendor has re-scaled the security's history: two rows of one security on
different bases show a return that never happened, and that is all the audits of
the code can see. `Fetch` is one read from the vendor, kept in `cache`
(`provider_cache`) for every later attempt with the same parent, session and
master, so one publication can mix vendor states. `Assess` is `audit_overlap`,
the repair of drifted securities, their isolation, `_rebase_parent_to_fetched_scale`
and the choice between writing and linking a month; `Reject` are the failures of
the same code; `Register` is `publish_partitions` with its comparison of the
parent. A security that was repaired stays on its canonical source. Sessions are
numbers, two to a month. The jobs are the nightly unit (`"service"`) and one
script by hand (`"operator"`), which takes no `flock`.

**BroadPipeline.** `UniverseBegin`, `UniversePublish` are
`build_us_liquid_pit.py`, which keeps snapshots older than the window if the
inputs match; `FactorsBegin` to `FactorsPoint` are `run_broad_factor_data.py`:
a staged generation with a checkpoint per month, automatic resumption, a new
process after each computed month, months taken over when the fingerprint of
their inputs is unchanged, the rename, and the pointer after it. A month of
factors stands for the inputs it is computed from (`Reads`), which makes reuse
and resumption checkable exactly; `Fingerprint` is what the code compares, whole
partitions rather than the rows read.

**IntradayMonitor.** Time is a tick: one before the open, one per open minute,
one after the close. `Promoted` is decided once per start, from the
observations of the sessions completed before. The detectors fire at will.
`Claimed` is the transaction of `claim_next_delivery`; `Send` gives every reply of
the channel. Left out: the mirror column `signals.delivery_state`, candidate
snapshots, symbol states, pruning and the reduced data of the bars. `EndCycle`
writes heartbeat and cycle row in one step; a kill between them leaves what a
kill of a waiting unit leaves.

**IntradayWatch.** `Watch` is one `run_once` of the watchdog: collect, derive
the status, reconcile incidents, publish. The evidence of other jobs passes
through the same code and is left out; a failing collector, of this job or of
another, is kept. `Down` says that the unit should work and does not, by what
systemd and the tables really hold and not by the watchdog's reading of them.
The watchdog does not run while a person runs a cycle by hand: that cycle writes
the unit's heartbeat, and a documented answer to what the page should show then
does not exist.

**EventQueue, EventOutbox.** `jobs` are rows of the `jobs` table by stage and
item; PENDING stands for RETRY too, which is claimed the same way once its
delay is over, and a lease is a flag that says whether it has lapsed. All rows
of one event share the 72 hours of retention (`over`). The token of a lease is
not kept: one process at a time works a stage, so nobody else can hold a row
while a living process believes it does, and only its own lease can lapse. In
the outbox the age of a row is reduced to what `deliver` compares it with (two
minutes, an hour); a waiting row may reach its ninety minutes at any delivery.

**EventPipeline.** One event of one ticker. `run` holds the memory of the three
processes: the news lane (`process_identities`, `enqueue_event` in its two
transactions), the source lane (`process_sources`) and the worker (`cycle`, then
`notifications`). `gen` is `member_generation`, by which `finish` notices that a
revision was recorded during the fetch; `matched` and `seen` are history of the
last pass, which no code reads. `ledger` is `ep_llm_calls`; the preview and the
reservation are one step because the worker is its only writer. `paid` and
`accepted` are what the provider and Discord have really done. `EXCLUDED` stands
for `EXPIRED` where a row leaves a stage because of its window. The lanes are
independent consumers (`independent_consumers_enabled`).
Left out: the price and NEWS stages, the source watch, redelivery
when new financial inputs arrive, requests retried by hand, the validators.

## 3. Runs

`cd tla; tlc -config X.cfg M` for each row.

| Run | Bounds | What it asks |
|---|---|---|
| `notification_outbox` | 2 fills, 1 summary, 2 contents, 2 processes, 2 attempts, batches of 2, symmetric | `AtMostOnce`, `InFlightIsOwned`, and the refinement `PromiseSpec` |
| `paper_notifications` | 2 fills of a session, 1 summary, a version that changes once, 1 kill | a summary is tried even when every fills worker ends in a conflict (`DailyIsTried`); without a conflict every fill reaches the outbox (`UnchangedFillsReachOutbox`) |
| `paper_notifications_fills` | the same, no kill | **violated**: a frozen message conflicts and starves the fills behind it |
| `paper_ledger` | 2 tickers, 4 sessions, missing opens, a volume cap below an order, 3 ex-dates, cash short of the targets, kills everywhere | `NoOverfill`, `NeverRejected`, `LedgerSolvent`, `DividendsExact`, `OneRebalanceAtATime`, `LedgerGrowsForward`, `CommitIsConsistent` |
| `paper_ledger_orders` | the same | **violated**: `filled_quantity` is not rebuilt while an order finds no open |
| `data_requests` | 3 requests, batches of 2, 2 attempts, 3 kills, one worker at a time | `VerdictsAreEarned`, `EveryRequestSettles`, and the refinement `QueuePromise` |
| `backtest_tasks` | two shapes in one run: a named or a watchlist task alone with every version to come and 1 restart; and both together with a version behind them and no restart. 2 versions, pool of 1 | `ActiveIsBacked`, `ContractIsFrozen`, `WatchlistSettles` |
| `backtest_tasks_delete` | 1 named task | **violated**: a running task is deleted |
| `backtest_tasks_unblock` | 1 named task | **violated**: a task with a stale pin waits for ever |
| `broad_pipeline` | 2 securities, one listed later, one of them a benchmark; sessions 2..4, months {1}, {2, 3}, {4}; overlap 1; 1 re-scaling, 1 kill or error, 1 script by hand | `ChainIsLinear`, `WindowDecides`, `IsolationIsSticky`, `FactorsExact`, `OneChainOfInputs`, `CatchesUp`, and the refinement `FactorsArePublications` |
| `intraday_watch` | 1 ticker, 2 families, 2 open minutes, 3 sessions of which the first has passed; cooldown 1 tick, 2 attempts, 1 message per cycle; 1 kill, error, unhealthy session or cycle by hand | `CooldownKept`, `ShownIsPromoted`, `OutageShows`, and the refinement `SignalsAtMostOnce` |
| `event_pipeline` | two shapes in one run: 1 document with 2 revisions, the lanes alone, 2 faults; and 1 revision, every process, 1 fault. 2 official texts, 1 paid request and 2 sends per run, money for 2, 1 retry | `NothingFallsThrough`, `CommentaryCooldown`, `PaidIsUsed`, and the refinement `OnceOutside` |

Why the bounds are enough to meet the interesting cases: two rows let one be
interrupted while the other is claimed, and batches of two let a batch end
early; two processes compete for the lock. In the market of `MCPaperLedger`
orders fill in part, find no volume, find no open, and fill at an open that is
earlier than the run's session; a dividend's ex-date falls between the open a
catch-up run fills at and the run's session. Two attempts and three kills let a
request be recovered, used up and failed; three requests and batches of two
leave one behind. With two versions either may fail to cover a task, be published
under another key, expire before or after it is pinned, or come after the
verdict. One restart meets every phase of a job. In `broad_pipeline` a session
ends a month and the next one opens one, so months are linked, rewritten, taken over and
computed; one re-scaling falls between any two fetches of a window or between a
run and its repair; the script by hand races the unit at every stage; after a
kill a new process resumes what it finds. In `intraday_watch` the second session
decides the mode of the third; two families of one ticker compete for its
cooldown and, with one message per cycle, for the claim. In `event_pipeline` the
second revision is recorded before, during or after the fetch for the first, by
lanes that are killed twice or outlive a lease; two texts, one paid request per
run, make the second wait for a later run, compete for the ticker's hour and
meet the journal of the first. Bounds in guards: `MaxKills`, `MaxTrouble`,
`MaxRestarts`, `MaxVersion`, `LastDay`; attempts and batches are bounded by the
code. Deadlock is checked in every run.

The violated runs are documented statements the code does not keep; each is a
finding in `PROJECT.json` with the sentence and its line. In short: `filled_quantity` is
only rebuilt for some orders; a fill's message is built from whatever run row
is newest; check and deletion are two transactions; a contract is pinned before
its coverage is known.

Three behaviours of the code have no property, because no document promises
the opposite: a second worker started beside the unit can
claim the request of a slow one (claims are not fenced); attempts are counted
when a batch is claimed, so a request can use them up unserved; the monitor can
submit a task that ended after its snapshot. A fourth is the premise of
`WatchlistSettles`: a request that succeeds with data that do not pass the
preflight (too short a history, say, or an expected session that has passed
since) is never opened again, so the task is resubmitted and waits, round after
round, until some other request makes a version that covers it. Without the
premise TLC finds that loop; `docs/unified_data_storage.md` says of one such case
that the task stays waiting.

Two more are visible in the models and kept as notes of hazards: an order may
still fill at an open of the session that is already committed, which leaves the
equity row of that session stale (`LedgerGrowsForward` allows exactly that
session); and the source lane may complete a job with a fetch for another member
of the event than the revised one.

## 4. Fairness

- `NotificationOutbox` and `PaperLedger` state safety only.
- `PaperNotifications`: `quant-paper-discord-events.timer` starts a worker two
  minutes after the last one ended and `-daily.timer` once a day whatever
  happened before, hence strong fairness of `StartWorker` (they share the lock,
  so weak fairness would not do); a started worker runs on. Trading runs and
  kills have no fairness; a kill can only happen `MaxKills` times, because
  nothing could progress under a worker that is always killed.
- `DataRequestQueue`: `quant-data-requests.timer` starts the unit again and
  again, one instance at a time; time passes (`GrowOld`).
- `BacktestTasks`: threads run on, so jobs, the submitting handler, the monitor
  (it polls for ever) and the restart (systemd, then `startup_recovery`) are
  weakly fair; the pool is first in first out, so a queued job that sees a free
  thread again and again gets one (strong fairness). A request is answered
  because `EveryRequestSettles` holds. Creation, deletion, failures, versions,
  research and the calendar have none; `WatchlistSettles` says what it needs of
  the versions as a premise.
- `BroadPipeline`: the timer starts `quant-us-equity-coverage-root.service` every
  working day, `Restart=on-failure` starts it again, and it starts the factor
  unit when it succeeds; hence weak fairness of `Timer`. Sessions pass and a
  started script goes on. Re-scalings, kills, isolation and scripts by hand have
  none and stop at the last session: with an unlimited supply of them no update
  would ever be due to succeed.
- `IntradayMonitor` and `IntradayWatch` state safety only.
- `EventPipeline`: `quant-ep-event-review.timer` starts the worker every ten
  minutes of its hours and `TimeoutStartSec` ends one that hangs, hence weak
  fairness of `Worker`; a lease that no living process holds lapses after ten
  minutes. The lanes, the operator and faults have none, so `PaidIsUsed` is about the
  worker alone; faults are bounded by `MaxTrouble`, because a worker that is
  killed in every run uses nothing.

## 5. Proofs

Every type invariant, safety invariant, action property and refinement a run
checks is also a theorem for all values of the constants, except those of
`PaperNotifications`, whose run checks only liveness. The values are restricted
by the named `ASSUME` of each module alone, which every run evaluates;
`QueueKeepsPromise` has one hypothesis more, given below. Each proof
follows one pattern: an inductive invariant that was checked by TLC before it was
proved, one lemma per action with a step per conjunct it can disturb, and the
properties as consequences of the invariant or of what one step may change.

`NotificationOutboxProofs` proves, for any sets of fills, summaries, contents
and workers and any bounds that satisfy `OutboxAssumption`:

| Theorem | Says |
|---|---|
| `OutboxInvariant` | the inductive invariant holds |
| `OutboxTyping` | `OutboxTypeOK` |
| `DeliveredAtMostOnce` | `AtMostOnce` |
| `HonestRecords` | `RecordIsHonest` and `InFlightIsOwned` |
| `BoundedAttempts` | `AttemptsBounded` |
| `OutboxKeepsPromise` | the specification implies `PromiseSpec` |
| `SettledRowsAreFinal` | `SettledIsFinal` |

`AtMostOnce` is not inductive: whether a claimed row already has a message
depends on the reply its process has seen but not yet recorded. `OutboxInv`
adds `LockDiscipline` (only the holder of the lock is active, so claims do not
meet), `InFlightIsOwned` (the row of a live claim is SENDING) and
`AnswerMatchesChannel` (a reply, once seen, agrees with what the channel did).
Then a row that may be claimed again has no message: it is PENDING, or FAILED
with a reply that excludes one, while an interrupted SENDING row goes to
UNKNOWN and is never claimed. There is one lemma per action, with a step per
conjunct it can disturb. The refinement follows from the invariant by one lemma
on what a step may change.

`DataRequestQueueProofs` proves, for any set of requests and any caps that
satisfy `QueueAssumption`:

| Theorem | Says | Workers at a time |
|---|---|---|
| `QueueInvariant` | the inductive invariant holds | any number |
| `QueueTypes` | `QueueTypeOK` | any number |
| `RetryCap` | `AttemptsCapped` | any number |
| `EarnedVerdicts` | `VerdictsAreEarned` | any number |
| `QueueKeepsPromise` | the specification implies `QueuePromise` | one |

`QueueInv` adds to the three invariants that a row which does not exist has not
been tried (`AbsentIsUntried`, so a new row may be claimed) and that a worker
whose writer has returned serves a request with a version (`ServingIsKnown`, so
its `Finish` is earned whatever the row says by then). The run has one worker;
the theorems show that the cap and the order of publication and success do not
depend on that. The promise that a verdict is final does: two workers may hold
the same request once it is recovered, and `finish_data_request` does not ask
what the row says, so the late one may turn a failure into success or the
reverse. `QueueKeepsPromise` therefore assumes `\A v, w \in Workers : v = w`,
which is what the systemd unit gives, and needs `ClaimsAreHeld`: what the worker
holds is RUNNING and nobody else's, because it recovers only before it claims.

`RecordIsHonest`, `AttemptsBounded`, `SettledIsFinal` and `AttemptsCapped` are
proved for every value of the constants and not repeated by a run; all but
`SettledIsFinal` are parts of the inductive invariants.

`BacktestTasksProofs` proves, for any tasks, universes, requests, versions, size
of the pool and number of restarts:

| Theorem | Says |
|---|---|
| `TasksInvariant` | the inductive invariant holds |
| `TasksTyping` | `TasksTypeOK` |
| `ActiveRowsAreBacked` | `ActiveIsBacked` |
| `ContractsAreFrozen` | `ContractIsFrozen` |

`update_task` and the monitor both write a row they read in an earlier
transaction, so what a stale row may still say has to be part of the invariant.
`TasksInv` adds `RowsAreSound` (a job whose row waits for an unanswered request
has a contract), `DraftsAreSound` (a row about to be put keeps a contract the
stored row has), `SnapshotIsSound` (a task the monitor's old snapshot lets it fail
has no job or a contract) and `DoomIsSound` (the row the monitor is about to fail
has the contract of the stored one and of the one a job is about to put). The
last two are what makes two writers without a lock safe: a task without a
contract waits for its request, and no job runs beside a monitor that may still
fail it for that request; a task with one may have both, but whoever writes last
writes the same contract.
`TasksAssumption` asks that the two marks a snapshot uses, `NoRequest` and
`Unseen`, differ.

`IntradayWatchProofs` proves, for any tickers, lengths of a session and policy
constants (at least two sessions, so that there is one before the last):

| Theorem | Says |
|---|---|
| `WatchInvariant` | the inductive invariant holds |
| `WatchTyping` | `IntradayTypeOK` |
| `CooldownIsKept` | `CooldownKept` |
| `ShownOnlyIfPromoted` | `ShownIsPromoted` |
| `OutagesShow` | `OutageShows` |
| `SignalsAreShownOnce` | `SignalsAtMostOnce` |

The cooldown is tested when a row is claimed and must hold when its message is
confirmed. `ClaimIsCool` carries the test from one to the other: no message of
the ticker is confirmed meanwhile, because at most one row is SENDING
(`ClaimsAreOwned`), and the age of a row is counted from a cycle that cannot
outlive its session (`CycleIsOfToday`, `RowsAreOfToday`). `LiveIsEarned` ties the
mode a process decided when it started to the observations of today: sessions
completed before do not change. `ChannelAgrees` is the honesty of rows and
replies, from which the refinement follows.

`EventPipelineProofs` proves, for any finite set of documents, any texts and any
limits:

| Theorem | Says |
|---|---|
| `EventInvariant` | the inductive invariant holds |
| `EventTyping` | `EventTypeOK` |
| `NothingIsDropped` | `NothingFallsThrough` |
| `CooldownIsKept` | `CommentaryCooldown` |
| `PaidAndShownOnce` | `OnceOutside` |

The three processes hand work over in two transactions each, and each may be
killed between them or outlive its lease. `NewsHolds`, `SourceHolds` and
`WorkerHolds` say for every program point what is already stored: the next
stage's row exists before the row of this one is completed. For a revision that
arrives during a fetch, `SourceHolds` says that what the lane read is the newest
payload unless `member_generation` has moved, which is what `finish` compares.
`JournalAgrees` and `RowsAgree` relate the journal and the outbox to the
provider and the channel. `OneHot` (at most one row that may stand in the
channel is younger than an hour) is stronger than `CommentaryCooldown`: it counts
SENDING and UNKNOWN rows, because their message may be there.

`BroadPipelineProofs` proves, for any securities, sessions, re-scalings, kills
and scripts by hand (the first run is not on the first session, so that a month
has ended before it):

| Theorem | Says |
|---|---|
| `BroadInvariant` | the inductive invariant holds |
| `BroadTyping` | `BroadTypeOK` |
| `ChainIsOneLine` | `ChainIsLinear` |
| `WindowIsDecisive` | `WindowDecides` |
| `IsolationSticks` | `IsolationIsSticky` |
| `FactorsAreExact` | `FactorsExact` |
| `OneChain` | `OneChainOfInputs` |
| `FactorsArePublished` | `FactorsArePublications` |

`BroadInv` says of every stored artifact what it was checked for when it was
built: a version has bars for exactly the securities of its master that are not
isolated, on bases that only rise (`Sound`), and each security's history was
replaced or moved by one factor (`ExtendsVersion`); a cache was read after its
parent was registered (`CacheOK`); every partition of a generation reads the same
as that generation's own inputs (`PartOK`, for finished and staged ones). `Grows`,
proved of every step, says that no stored artifact ever changes, so nothing has
to be proved again about old ones; `JobOK` keeps the same facts for what a job
holds in memory. That both jobs may race is harmless for the same reason: what a
job compared is immutable, and `Register` compares the parent again.

`WindowDecides` is an induction along the chain of versions (`Decided`). Its proof
found that an earlier form was false from two re-scalings on. Two runs in a row
may each meet a re-scaling by the same factor between two reads of one window;
the second one's overlap then differs from the first one's by one ratio
throughout, `audit_overlap` (`data/broad_history_repair.py`, 200-225)
takes that for one re-scaling and `_rebase_parent_to_fetched_scale`
(`data/foundation.py`, 908-1031) moves the mixed history as a whole. So a security
may be on two bases behind a window that is on one. `MixedTwice` names this case,
which the property excludes; with `MaxRevisions = 1` the run cannot show it, and
`BroadInv` was therefore also checked with one security, six sessions and three
re-scalings.

`PaperLedgerProofs` proves, for any market, cash, fee and targets:

| Theorem | Says |
|---|---|
| `LedgerInvariant` | the inductive invariant holds |
| `LedgerTyping` | `LedgerTypeOK` |
| `FillsOnce` | `NoOverfill` |
| `RunsAreAccepted` | `NeverRejected` |
| `LedgerIsSolvent` | `LedgerSolvent` |
| `DividendsAreExact` | `DividendsExact` |
| `OneRebalance` | `OneRebalanceAtATime` |
| `LedgerOnlyGrowsForward` | `LedgerGrowsForward` |
| `CommitsAreConsistent` | `CommitIsConsistent` |

`LedgerAssumption` asks of the market integers, a positive close, and one flat fee
per fill below the price of one share at any open (a sale never costs money;
without it the replay of an accepted ledger could overspend). The code has
several fee models (basis points, or per share with a floor and a cap,
`execution/models.py`); the theorems hold for the flat fee.
`LedgerSolvent` is not inductive. It must hold of the fills on disk while a run
extends them in memory, and dividends are posted after the fills that spend
them. `LedgerInv` therefore states `SoundLedger` of the durable fills and of
these with the batch: fills are numbered in the order of their sessions, every
prefix is covered by shares, and by cash *with the dividends due by its session*,
posted or not. Appending a fill (`AppendFill`) keeps that because `Filling` knows
that the cash in memory is exactly this sum at the open being filled
(`CashAtTheEnd`) and that the opens left are not earlier. A later fill does
not change what an earlier session earned (`DueKept`), which is why a posted
dividend is never restated and a killed run can post it again. `Saving` and
`Valuing` say, write by write, which of the tables already agree with the fills;
a kill leaves only `Durable`, from which the next run starts.

The replay sums over sets of fills. `SumTheorems` proves what that needs (a sum
over disjoint sets, with one row more, of a column that is nowhere less) for sets
of any size, by a smallest counterexample: `WFMin` over `<` on the naturals,
applied to the set of cardinalities at which a law fails. No rule of induction
is needed.

Only model-checked, because liveness under fairness is out of the prover's
reach: `CatchesUp`, `EveryRequestSettles`, `WatchlistSettles`, `PaidIsUsed`,
`DailyIsTried`, `UnchangedFillsReachOutbox`. The statements of the `violated`
runs are false and have no theorem.

## 6. Not modelled

The parts marked `not_modelled` in `PROJECT.json` are numeric or offline code
(engine, factors, research, plots), single-transaction stores, presentation,
or belong to the plan below. Discord and systemd are modelled as the code uses
them; SQLite is taken to be atomic per transaction.

## 7. Plan

Order of the remaining work, most important first.

1. `MarketDataWriter`: `data/foundation.py` in detail (target before the lock,
   run rows, a kill between the move of the directories and the catalog),
   composed with `DataRequestQueue!Publish`.
2. `PaperLedger`: account creation, deletion and watchlist accounts; a second
   market that delists a ticker, for the order that never fills.
3. Theorems for both, next to the existing ones: a version becomes visible only
   complete, and the ledger invariant with an account that may be deleted.
