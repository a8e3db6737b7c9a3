# Inquisitor, specified

TLA+ modules, TLC runs and TLAPS proofs for VersoIt/Inquisitor, a Go platform
that records market data, researches hypotheses, validates strategies on paper
and submits approved orders to Bybit.  Paths below are those of the repository
(`src/` left out).

- [The system](#the-system): inventory of components and what is hard in them
- [The modules](#the-modules): how state and actions correspond to the code
- [The runs](#the-runs): what TLC checks, bounds, fairness
- [The proofs](#the-proofs): what TLAPS proves, and along which argument
- [Findings](#findings) and [observations](#observations)
- [What is left out](#what-is-left-out), and the [plan](#plan)

To check: `tlc -workers 2 -config <cfg> <module>.tla`, `tlapm <module>_proofs.tla`.
`PROJECT.json` lists the runs, the lines each definition stands for, for every
property a fault of the code that it would catch, and the hazards at their lines.

## The system

Thirty-two command-line programs (`cmd/`) call application services
(`internal/app`), which work on domain types (`internal/<domain>`) and
PostgreSQL repositories (`internal/storage/postgres`, `migrations/001` to
`028`).  The programs are separate processes and do not call each other.  They
meet in four places: PostgreSQL tables (nearly all of them append-only, written
with `ON CONFLICT DO NOTHING` and compared with the row that is there), advisory
locks (two of a session, one of a transaction), the exchange account, and JSON
artifacts that one command writes and another checks.

| Component (programs) | State | Operations | What is hard | Correct when |
|---|---|---|---|---|
| Live order submission (`live-submit`, `live-loop`) | `live_order_submissions`, `_acknowledgements`, `_status_snapshots`, `live_position_snapshots`; orders and position on the exchange | check, journal, POST with retries, acknowledge, reconcile status and position | a crash between journal and exchange; a lost or late answer; two commands with one decision; a Kill Switch read before the POST | one command posts an order; what is journaled is true of the exchange |
| Pending decision selection (`live-loop -select-pending`, `live-decision-scan`) | `risk_decisions`, an advisory lock | list, take the lock, select the oldest | lock lifetime over failures and crashes | one selector at a time; the lock is freed |
| Bounded live loop and its audit (`live-loop`, `live-health`, `live-loop-audit`) | `live_loop_runs`, `live_loop_iterations` | start, preflight, iterate, finish, review | a journal write that fails or is not confirmed; a cancelled context; time that runs out between readings | nothing unaudited happens; a review overlooks no running loop |
| Startup preflight (`live-preflight`, first step of every armed command) | reads the Kill Switch, account and positions; writes snapshots | one check | several answers, each with a stamp of its own; rows of one instant | ready means flat, and not over an active Kill Switch |
| Kill Switch (`risk-kill-switch`, drift guard) | append-only `risk_kill_switch_events` | activate, release, read the newest | writers stamp before they append; repeated event ids | an appended event is not overruled by an older one |
| Position drift and its guard (`live-position-drift`, `live-ops-report`) | reads snapshots others recorded; Kill Switch | compare, report, activate | old, missing or future baselines | CLEAR means compared with a fresh, normal baseline |
| Paper validation (`paper-report`, `paper-execute`, `paper`) | `paper_validation_records`, tickets, fills, open positions, closes, equity events | start, complete, cancel; ticket, fill, open, close, account | retries after a partial success; completion racing trading; closes out of order | the ledger is one continuous account; nothing is written into an ended validation unchecked |
| Paper cycle (`paper-execute -action auto-*`) | the same tables, an advisory lock | scan positions, exit or enter by quote | quotes read before they are used | at most one position in sight of the scans is open |
| Realtime collector (`collector`) | books in memory; `orderbook_snapshots`, candles, trades, quality events | subscribe, apply snapshots and deltas, reconnect | updates lost with a connection; rejected updates | a stored book is one the exchange had |
| Backfill and gaps (`backfill`) | `candles`, gap events | page, detect, store | pages, empty pages, the unfinished candle; the collector writes the same rows | holes are reported; a closed candle is final |
| Artifacts, readiness, deployment check, ops report, reviews (`live-readiness`, `live-deploy-check`, `live-ops-report`, `live-order-plan`, `live-handoff-verify`, `live-first-order-check`, `live-first-order-review`, `live-post-order-check`) | JSON files with fingerprints | write, load, verify, hand off | stale, mixed or mismatched files; a queue, a Kill Switch and journals that move under the commands | an armed loop orders what was reviewed; a ready review is about its own run's order |
| Smoke (`live-loop-smoke`) | a real LIVE decision and a loop on a fake exchange | seed, build artifacts in memory, execute, verify | the decision is in the real queue; a rerun deletes rows a loop may have built on | once a smoke has completed nobody begins to order its decision |
| Bybit REST client | none | sign, send, retry, map | retries of a POST; stamps taken after the answer | a retry is the same order |
| Risk engine | none; `risk_decisions` is its audit | evaluate an intent against limits, validate a decision and its row | numeric boundaries; the engine and the validators must agree | no approval over a limit; every decision can be recorded |
| Strategy signals, approvals, paper signal risk (`paper-execute` with a signal-backed ticket) | `strategy_signals`, `paper_strategy_approvals`, `paper_signal_risk_evaluations` | generate, grant, revoke, evaluate a signal once, submit a ticket, authorise a fill | a revocation between authorisation and the fill; two evaluations of one signal | no fill under a revoked approval; one decision per signal |
| Research, backtests, hypotheses (`research*`, `hypothesis`, `trend-experiment`) | `hypotheses`, `research_runs`, `research_results` | import, schedule, dry-run, evaluate rules, backtest, record, gate | gaps and overlapping positions in a backtest; results recorded twice; a hypothesis replaced under its run | a backtest knows no state before it closes; a grant rests on a run of its own hypothesis that passed every gate |
| Features, regime (`regime`) | none, or one row per evaluation | pure calculation | windows and warm-up | reads closed candles only |
| Paper simulation and performance (`paper-simulate`, `paper`) | none | pure calculation over rows | decimals | sums agree with the ledger |
| Migrations (`migrate`) | `schema_migrations` | check, apply | two runners, one failing migration | each applied once |
| Configuration, logging, scripts | none | | | |

What makes the system hard, in short: every use case is a sequence of separate
statements by processes that know nothing of each other; a POST and its journal
row cannot be one transaction; and freshness is measured by readings of a clock
taken at different moments.  `PROJECT.json` lists the hazards with their lines.

## The modules

| Module | Models | Extends, uses |
|---|---|---|
| `LiveOrder` | submission, selection, reconciliation, the exchange's order entry | refines `OrderLifecycle` |
| `OrderLifecycle` | the stages of one order, abstractly | |
| `LiveLoop` | `RunBoundedLiveLoop`, its audit rows and the audit review | |
| `LiveGuard` | Kill Switch events, startup preflight, drift report and guard | |
| `PaperLedger` | lifecycle, ticket, fill, position, close, equity event, cycles | refines `EquityAccount` |
| `EquityAccount` | an account moved once by each closed position, abstractly | |
| `MarketData` | collector and backfill, meeting in the candles | |
| `HandoffFiles` | the JSON artifacts: how each is built and what a later command checks of it | |
| `Handoff` | the commands that leave and check them, the loop they arm, what moves underneath | extends `HandoffFiles` |
| `Units` | the units in which decimals are integers | |
| `RiskEngine` | `internal/risk`: checks, size, decision, validators of the audit row | extends `Units` |
| `Strategies` | `internal/strategy`: selection and the three strategies | extends `Units` |
| `Backtest` | rules, trades, metrics, split, folds, gates and the validator of a result | extends `Units` |
| `SignalEntry` | from a hypothesis to a simulated entry, each command as its reads and its transactions | extends the three, refines `SignalDecision` |
| `SignalDecision` | what is promised of a signal, abstractly: one decision, one order, one entry | |
| `MC*` | instances for TLC | |
| `PipelineParts_proofs` | theorems and proofs about the operators of the three modules without state | extends `RiskEngine`, `Strategies`, `Backtest` |
| other `*_proofs` | theorems and proofs of one module each | |

`LiveOrder`, `LiveLoop`, `LiveGuard` and `Handoff` are four views of the live
side, each with the others reduced to what it can see of them: `LiveLoop` has no
orders, `LiveOrder` no audit, and `Handoff` one loop whose submission is a few steps.
`SignalEntry` and `PaperLedger` share the table of fills: `SignalEntry` ends with the
fill whose ticket rests on a signal, `PaperLedger` follows any fill to its close.

Conventions.  A process is one invocation of a program; it has a `pc` and local
variables, and a rerun is another element of the set of processes (in
`PaperLedger`, where a command keeps nothing, it is the same element again).
Reading a table and writing one are separate steps wherever the code has
another statement in between.  An operator with a comment that begins with
`Fault:` is a plausible bug and is used by no action; each belongs to a
property that excludes it.  History variables (`exposed`, `late`,
`refused`, `known`, `place`, `fetched`, `unrecorded`) are written and never
read by a guard.

### LiveOrder

| State | In the code |
|---|---|
| `pc`, `mode`, `target`, `stamp`, `seen` of a run | the call chain of `live-loop` and `live-submit`, its decision, the `CreatedAt` of its submission, the executed quantity it read |
| `writer`, `createdAt` | the row of `live_order_submissions`; `writer` is whose INSERT won |
| `acks`, `statusRows`, `positionRows` | the other journal tables |
| `attempt`, `reply`, `net` | `postAuthenticated`: attempts made, the answer at hand, requests on their way |
| `orders`, `working`, `position` | the exchange |
| `lock` | `pg_try_advisory_lock` of the pending selection |

A run selects or is given a decision (`StartSelecting`, `StartExplicit`,
`SelectPending`), passes `Preflight` and `LoopCheck`, then does
`SubmitApprovedEntryOrder` in the order of the code: `LoadDecision`, `Gate`
(clock, payload, Kill Switch), `JournalSubmission` or `FindSubmission`,
`SubmitOrder`, `RetryPost`, `ReceiveAcceptance`, `JournalAcknowledgement`; then
`ReconcileStatus`, `ReconcilePosition`.  Any step may `Fail` or `Crash`.
Decisions are numbered by `created_at` and may be recorded in any order.

Identifiers of a submission are a function of the decision
(`order_identity.go`), so the decision stands for them.  That a run finds its
submission only with the same `created_at` is the code's comparison of the
whole payload.  A pass of `Preflight` is one step here, and supposes that a
fresh flat position is taken for one; see `guard_future` for when it is not.

### LiveLoop

`clock`, `pc`, `startedAt`, `iteration`, `attempted`, `succeeded`, `deadline`,
`stopping`, `stop` are the locals and the result of `RunBoundedLiveLoop`; `inserted`
is `live_loop_runs` in the order of ids, `status`, `rowStop`, `rowAttempted`,
`rowSucceeded` its columns, `iterationRows` the iteration numbers in
`live_loop_iterations`.  A journal write is applied and confirmed, not applied,
or applied and not confirmed (`WriteEnds`); with a cancelled context it is not
applied.  `Review` is `SummarizeLiveLoopAuditReview` over the `Limit` newest
rows.  What an iteration does is `LiveOrder`'s business.

### LiveGuard

`events` is `risk_kill_switch_events` in the order of ids and `journal` is
`live_position_snapshots` by symbol and `observed_at`.  A command is a preflight,
a drift report, an activation or a release; `began` is the clock it read first,
which is what an activation, a release or a guard stamps its event with
(`FixedClock` in `cmd/risk-kill-switch` and `cmd/live-position-drift`), `now` the
reading snapshots are measured by, `observed` the stamp of the snapshot in hand.
The preflight goes through `CheckKillSwitch`, `ReadAccount`, `CheckAccount` and,
for each symbol, `Ask`, `Receive`, `RecordPosition`; the report through `Ask`,
`Receive`, `Compare` and perhaps `AppendKillSwitchEvent`.  The preflight is the
one with both an account expectation and flat-position expectations.
A position is one value that stands for everything the comparison looks at.

### PaperLedger

One validation: `status`, `startedAt`, and per ticket its `created`, `fill`,
`opened` and `close` rows; `ledger` the equity events.  Default identifiers are
used, so that a ticket names its rows.  `pc` and `mem` of a command are the next
statement of its use case and what it has read.  `enter` is ticket, fill and
position in one command (`-action enter`); the action `fill` is an `enter`
stopped after the fill.  `auto-cycle` holds the advisory lock and may run several
cycles.  `Stop` stands for errors, cancelled contexts and crashes alike: the
command ends at any step without a write, its session and lock gone.

### MarketData

`history` is the sequence of states of each order book on the exchange; a
connection delivers them as a snapshot and deltas, in order (`Received`).
`local` is `Service.orderbooks`, `latest` the newest row per symbol, `candles` the
table, `gaps` the gap events.  `pc`, `messagesRead`, `reconnectsUsed` are the
fields of `collectorRunner`; `stage`, `cursor`, `previousTail`, `page` the locals
of `backfillSymbolInterval`.  Time is counted in half candles so that there is
an instant within every candle.

### HandoffFiles and Handoff

A file is a record of what its JSON says; its SHA-256 fingerprint is the content
itself, and its path is its kind, so a command finds what the last one of that
kind wrote.  An invocation (`check[c]`) has a list of commands still to run:
seven for `live-first-order-check` (Kill Switch state, plan, readiness, loop
audit, deployment check, ops report, handoff verification), two for
`live-post-order-check` (review, ops report), one for a command run by hand.  The
stages of `live-readiness` are those of its reads (`LoadPlan`, `HashPlan`,
`CheckPlan`, `WriteReadiness`), because the plan file may be replaced between
the two times it is opened.  `Arm` gives a loop some of the files and flags;
`Select`, `Start`, `Preflight`, `Journal`, `Post`, `Observe`, `Complete` are
`live-loop` with the checks of the readiness handoff at their places, and `Stop`
and `Crash` end it anywhere.

`Smoke*` is `live-loop-smoke` with its real decision, `Rehearsed`.  A smoke may end after
any step and be run again.  With the default `-cleanup` it first deletes what its
identifiers name (`SmokeCleanup`): its run row, which becomes one of status DELETED,
then the snapshots of the decision's submission, then the submission, and it may
stop between these statements.  `SmokeSeed` then deletes the decision and records it anew, pending again; or
only deletes it and stops.  The decision keeps its number, and `Born` tells the old from
the new one as `created_at` does in the files.  `SmokeRehearse` builds and validates the
artifacts in memory, `SmokeExecute` runs the loop on the fake exchange to the end and
verifies the rows, `SmokeFails` leaves any part of them.

### RiskEngine, Strategies, Backtest and SignalEntry

The first three are operators over integers; `Units` fixes how many units make
100 %, 1 %, one and one in basis points.  Where the code takes a fraction of a
price, `Exact` says that the units are fine enough for the result to be whole, as a
decimal always is; `ValidStrategies` is what the constructors ask of a configuration.  `Checks` has a field for every check of
`Evaluate` and under its name; `SizeFor` is `roundDownToStep`.  A market context of
`Strategies` holds Booleans for what the code compares by identity (that candle,
feature and regime belong to one market, interval and instant).  `Backtest` follows
`BacktestRules`: states of the window that the hypothesis allows, rules on
consecutive states, an entry at the next candle's open, an exit after the holding
period or at the end, and from the trades the metrics, the split, the folds
and the decision.  Its loops are recursive functions over the positions of a series:
`BacktestAfter` is what the scan holds after so many states, `AccountAfter` the
equity and its drawdown after so many trades.

In `SignalEntry` a command is a worker: a step that reads and decides leaves a job
in `worker[w]`, and a step for each transaction writes it or finds that the
table has changed.  The tables are `hypothesis`, `run`, `result`, `validation`
(one row each, absent at first), `approval`, `signal`, `evaluation`, `ticket` and
`fill`.  `CheckPaperApprovalEvidence` is evaluated when a grant is made, whenever it
is resolved and again before a fill; `EligibleSignalSource` is the condition of
the fill's INSERT, which locks grant and validation.  Three reads of a
submission (grant, Kill Switch, existing evaluation) are one step, since only
an error is lost by joining them.  A ticket is prepared by resolving the grant
once more (`OrderSignal`), and `AuthorizePaperEntry` checks grant, freshness, ticket and
budget before a fill.  One command of the repository calls these services,
`paper-execute`, with a signal-backed ticket; `ApprovalService.Grant`, the
generation, the risk evaluation and the submission are wired to no command yet
and are modelled as their services stand.  `-trading-enabled` is taken to be on
and the risk policy to be one constant, so its comparison with the stored one
is left out.

## The runs

Twelve runs; seven pass and five show a disagreement.  Deadlock is checked except
where the system really may stop: a finite number of invocations that have all
ended (`order`, `loop`, `handoff`, `pipeline`).

| Run | Instance | Checks |
|---|---|---|
| `order` | 2 runs, 2 eligible decisions, 1 retry, quantity 1, clock 0..1; fairness | `IInv`, `OneSelector`, `AckIsTruthful`, `OnlyWriterPosts`, `DoneIsReconciled`, `ExposureBounded`, `EveryRunEnds`, `ImplementsLifecycle` |
| `loop` | 2 loops of 2 iterations at one instant, or 1 loop of runtime 3 and iteration timeout 2 with a clock 0..5; review of 2 rows; fairness | `IInv`, `FinishedRowAgrees`, `SuccessIsDurable`, `ClearMeansIdle`, `DeadlineWithinRuntime`, `KillSwitchHonoured`, `EveryLoopReturns` |
| `guard` | 2 commands of any kind, 2 symbols, flat or liquidated, ages 0, clock 0..1 | `IInv`, `ReadyIsBacked`, `ClearIsBacked`, `LastWordHolds`, `GuardHolds` |
| `guard_future` | 1 preflight | `OwnSnapshotIsNotFuture` fails |
| `paper_validation` | 2 commands of seven kinds (start, complete, cancel, ticket, settle, auto-exit, auto-cycle), 3 tickets, scans of 1 position and 3 tickets, results -2 and 1, balance 2, clock 0..1, Kill Switch in the first instant | `IInv`, `OneActiveInSight`, `AccountImplemented`, `LateWritesWereChecked` |
| `paper_retry` | 1 command after another | `RetrySucceeds` fails |
| `paper_complete` | a completion and an entry | `CompletedIsSettled` fails |
| `paper_scan` | cycles of one command with a scan of 1 position | `OneActivePosition` fails |
| `market_feeds` | 2 books of 3 and 1 states, 4 messages, 1 reconnect; 5 candles in pages of 2; fairness | `IInv`, `LatestBookIsReal`, `BlindOnlyUnrecorded`, `HolesAreReported`, `EveryCommandReturns` |
| `market_closed` | 1 collector and 1 backfill of 2 candles | `ClosedCandleIsFinal` fails |
| `handoff` | a first-order check, and a plan made by hand or a post-order check, beside one armed loop and 2 smokes; 3 decisions, one of them the smoke's, ages 0 and 1, 2 run rows beside the smoke's, and either a clock 0..1 or a Kill Switch event | `IInv`, `HandoffHolds`, `ReviewIsEarned`, `IdleIsReviewed`, `NoOrderAfterSmoke`, `QuietCheckIsRight` |
| `pipeline` | 2 commands at a time, 1 signal, 1 grant, 2 files of the hypothesis, 3 histories, 2 requests, 2 accounts, 2 executions, clock 0..1, 2 disturbances | `IInv`, `TradesAreHonest`, `EntriesAreBounded`, `NoEntryAfterRevocation`, `EntryImplemented` |

Why the bounds are enough.

- *Two processes.*  Every hazard is a race of one process with one other, or
  of a process with its surroundings (clock, Kill Switch, exchange, network).
  The proofs cover any number.
- *Two decisions, tickets or symbols* is the least number at which something may
  be put under the wrong one, selected before an older one or counted twice.
- *Retries.*  One retry lets two copies of a request overtake each other.  The client's
  number is 2; the proofs cover any.  The instance of `order` takes the runs in the
  order of their start and the newer decision as the first to be recorded, so that an
  older one may turn up behind it.  Once both decisions are recorded a POST is not
  repeated (the run may fail instead, so that fairness asks nothing impossible) and
  neither the clock nor the Kill Switch moves; the clock rests while the switch is active
  and where a POST was repeated.
- *Clocks* are as short as the comparison they feed: two readings to be equal
  or not; 0..5 for a
  runtime of 3 and timeouts of 2, which overrun it.
- *Ages of 0* in `guard` make every snapshot stale a tick later.
- *Results -2 and 1 of a balance of 2* reach an empty account and one that
  would go below zero.
- *Five candles in pages of two*: holes inside a page, at its edge, across an
  empty page.  Three book states with a shared level at other quantities and a
  side without levels: deletions, overwrites, a book that is rejected.
- *Two disturbances* in `pipeline` (a re-import, a stated result, a stop, a
  revocation, a turn of the Kill Switch or a crash) are one between the first two
  steps of a command and one between the next two.  One signal and one grant
  suffice because nothing in the code relates two signals; a run of the clock is
  longer than the freshness limit.
- *The history* of `pipeline` is six candles with a run of states, one gap, or
  too few; its prices make the first trade win, the second lose and the third
  win, so that split and folds differ.  The second file of the hypothesis has
  a lower limit of risk, another direction and a crossing rule.
- *One tick or one Kill Switch event* in `handoff`: what a check reads can change once
  between any two of its steps.  `MCSpec` leaves out that both move in one behaviour, and
  that either moves, another decision is recorded, or both invocations run, beside a
  smoke, which then meets the loop and one of them.  *Two smokes* are
  one that stops and its rerun; the rerun neither fails nor is followed by a third.
  The second run row is the one of a loop or of `live-health` beside the first, and comes
  completed and after the last seed.
- *Three tickets and scans of one position* in `paper_validation`: a settled position that
  fills the scan, an open one behind it, an entry beside that.
- *The Kill Switch* moves in the first instant only in `paper_validation` (`MCSpec`):
  what counts is whether it moves before or after a read, and nothing compares its
  instant with another.  Once two tickets are written the validation may be
  completed and not cancelled, which is the same race; once all three are, the switch
  rests and only cycles run, which is what the third ticket is for.
- Symmetry of runs, commands and tickets is declared in runs without liveness.

Fairness is weak fairness of each started process' own steps, and of
PostgreSQL ending the session of a dead process.  The code justifies it: every
call to the exchange and the database has a deadline (HTTP client timeout of
15 s, read timeout per message, `-timeout` of the command), so that a step
which waits is always able to fail.  Nothing else is fair: the exchange need not
answer or fill, the clock and the timeouts need not advance, the operator need
not act.  In `order` a run ends though its request is never answered; in
`loop` a loop returns though its clock stands still.

What the runs show of each part:

- **Orders.**  The INSERT of the submission row decides who posts; neither a
  retry nor a rerun nor a second command posts an order again
  (`OnlyWriterPosts`).  Rows written after a success agree with the exchange as
  it was read (`AckIsTruthful`, `DoneIsReconciled`).  An activation of the Kill
  Switch does not stop requests of a run that has passed its last check, and
  stops all others (`ExposureBounded`).
- **Loops.**  An iteration starts only when all earlier ones are in the journal;
  what a finished row says agrees with its iterations; exit code 0 means a
  COMPLETED row and all iteration rows; a CLEAR review means that a loop which
  still runs is behind `Limit` newer rows.
- **Guards.**  What `ready` and `CLEAR` rest on is in the tables, although rows of
  one instant collide; an appended event cannot be overruled by one that was
  there when its command began, although stamps are older than appends.
- **Paper.**  Settlements race for the next number of the ledger and none breaks
  it; cycles with their lock open a second position only when the first is hidden from
  their scan by as many settled ones as its limit (`OneActiveInSight`; `paper_scan` shows
  that they do then); commands that write into an ended validation had passed the check
  of their use case before the end.
- **Handoff.**  A loop armed with every file orders exactly the decision that was
  planned, was at the head of the queue, and passed the deployment check with
  these very files (`HandoffHolds`), although other commands replace files
  meanwhile; a ready review and a clear post-order report are about an order that
  the reviewed run itself placed; once a smoke has completed nobody begins to order
  the decision it made up (`NoOrderAfterSmoke`), also if it is a rerun whose cleanup has
  deleted the rows of an order that a loop had placed; and a check that nobody disturbs says yes exactly
  when Kill Switch, queue and audit allow it, so the commands do not contradict
  one another.
- **Pipeline.**  No trade of a backtest overlaps another, leaves the window or knows a
  state before it closed, and all metrics are of the same trades; a signal has one
  decision whatever submissions race, one order and one entry of it; an entry
  stays in the budget and in the regime, direction and age its grant allows; none
  is written after the revocation or the end of the validation.
- **Market data.**  A stored book was a book of the exchange under the same
  update id; a rejected update leads to a reconnect, except when its quality
  event could not be written; a hole within what a backfill was given is always
  in a gap event.

## The proofs

The theorems hold for all values of the constants under the `ASSUME`s of the
modules: sets of any size, any bounds and any clocks.  The assumptions are

- what the code validates: positive bounds, an iteration timeout within the runtime,
  the configuration of the strategies (`StrategyAssumption`), the request and the split
  of a backtest (`ValidRequest`, a hypothesis of the theorems on folds);
- what the schema promises: the candles of a stored series have different opening
  times and close after they open (`HistoryAssumption`, `ValidSeries`; the unique key
  and the CHECK of `migrations/002_market_data.sql`);
- properties of the encoding: `None` is no run, the inputs have the fields the steps
  fill in and no instrument takes an order above the bound `MaxQuantity`
  (`ContextAssumption`), fractions of prices are whole (`ExactContext`).

TLC evaluates every one of them on the constants of its runs.

| Module | Theorems (property) |
|---|---|
| `LiveOrder_proofs` | `Invariance` (`IInv`), `TypeCorrect`, `PostedOnce` (`OnlyWriterPosts`), `SelectorExclusion` (`OneSelector`), `Acknowledged` (`AckIsTruthful`), `Reconciled` (`DoneIsReconciled`), `KillSwitchBound` (`ExposureBounded`), `Refinement` (`ImplementsLifecycle`), `BoundedRuns`, `LockIsReleased` |
| `LiveLoop_proofs` | `Invariance` (`IInv`), `TypeCorrect`, `AuditFirst`, `RuntimeBound`, `AuditAgrees`, `ExitIsDurable`, `KillSwitchBound`, `ReviewIsSound` (`ClearMeansIdle`), `BoundedLoops` |
| `LiveGuard_proofs` | `TypeCorrect`, `InductiveInvariant`, `ReadyHasRows`, `ClearHasBaselines`, `ReadyIsReleased` (`GuardHolds`), `AppendDecides` (`LastWordHolds`) |
| `PaperLedger_proofs` | `Invariance` (`IInv`), `TypeCorrect`, `LedgerNeverBreaks` (`LedgerContinuous`), `LedgerImplementsAccount` (`AccountImplemented`), `StatusForward`, `LateWritesAreChecked`, `FillsAreGated`, `OnePositionInSight` (`OneActiveInSight`) |
| `MarketData_proofs` | `TypeCorrect`, `InductiveInvariant`, `BooksAreReal` (`LatestBookIsReal`), `HolesReported`, `NeverJustWaits` (`BlindOnlyUnrecorded`), `BoundedCommands` |
| `Handoff_proofs` | `InductiveInvariant` (`IInv`), `TypeCorrect`, `HandoffsHold`, `ReviewsAreEarned` (`ReviewIsEarned`), `IdleReportsAreReviewed` (`IdleIsReviewed`), `SmokesEndOrders` (`NoOrderAfterSmoke`), `QuietChecksAreRight` (`QuietCheckIsRight`) |
| `PipelineParts_proofs` | of the risk engine `SizeIsLargest`, `ApprovedLossIsBounded`, `DecisionsPassTheAudit`; of the strategies `ProposalsAreValid`; of the backtest `BacktestIsHonest`, `FoldsAreAllTrades`, `SplitIsAllTrades`, `ResultIsHonest`, `CandidatesEarnEveryFold` |
| `SignalEntry_proofs` | `Invariance` (`IInv`), `Bounded` (`EntriesAreBounded`), `NothingAfterRevocation` (`NoEntryAfterRevocation`), `Implementation` (`EntryImplemented`), `Honest` (`TradesAreHonest`) |

`PipelineParts_proofs` is about operators and needs no invariant.

- *Risk.*  An approval is the conjunction of all checks, the size is the quotient of
  budget and distance rounded down to the step, and the validators ask of the row only
  what the checks have established.
- *Strategies.*  Each computes stop and target on its own way; `ProposalsAreValid`
  follows each of them from the confirmation it asks of entry and close to the sides
  on which stop and target then lie.  It needs exact fractions, without which a stop
  may round onto the entry, and of the configuration no more than `validate` asks.
- *Backtest.*  `BacktestAfter[n]` is followed along n: the trades so far are in order
  and disjoint, the position lies behind the last of them, and each trade's
  states had closed when it was entered.  The sums over trades (`Total`) are followed
  along the number of trades; that folds and split add up to the whole is that the
  windows of the folds, cut by integer division, cover each instant of the window once.
  `CandidatesEarnEveryFold` adds that the outcome of a result is decided from these
  very numbers.

The library's induction theorems take an operator as a parameter and cannot be used.
Induction along the natural numbers is done with sets instead: the least element of
the set of counterexamples (`UpTo`, from the well-foundedness of the order), whose
predecessor is none.

Each of the other modules rests on an inductive invariant `IInv` of its module, checked by TLC in a run
and then proved, action by action.  Why the safety properties alone are not
inductive, and what `IInv` adds:

- `LiveOrder`: that only the writer posts needs to know where the writer is
  (`WriterKnown`: between its INSERT and its end), that requests on their way and
  acceptances belong to posted orders (`NetIsPosted`), and what a run in
  reconciliation has left behind (`TrailKept`).  `LockHeld` and `GateClosed`
  carry the lock and the Kill Switch.
- `LiveLoop`: the counters agree with the rows while an iteration waits for its
  audit (`AuditPending`), when the loop has decided to stop (`StopAccounted`) and in
  the finished row (`RowAccounted`).
- `LiveGuard`: stamps lie in the past of their command (`CommandsStamped`), a
  table that is not empty has a newest row (`NewestIsThere`), and every symbol a
  command has finished with still has the row that was found (`ChecksHold`): rows
  are only added, so what was found stays found.  That an appended event decides
  follows from the stamps alone.
- `PaperLedger`: a settlement about to write computed its event from the last
  one, which is still the last unless the number is taken (`NextEventKnown`): the
  key on the number is what makes racing settlements safe.  `ExposedKnown` and
  `LateKnown` say of whoever is about to write that it had read the Kill Switch
  inactive, or the validation running, before that changed.  `EntriesAreFilled` dates the
  rows by which a scan is ordered: a position is of a fill that is written, and an entry
  has its date before it is.  `CyclesKnown`, under the hypothesis
  that only cycles write fills (`CyclesOnly`, which is also the hypothesis of
  `OnePositionInSight`; the instance of `paper_validation` meets it), is about scans of
  any limit.  A command at a step of a cycle is the one holder of the lock
  (`CycleLocked`).  A position is hidden (`Behind`) when as many settled ones as the
  limit are no younger: the list may then end before it.  Rows are only added and
  settled stays settled, so what is hidden stays hidden.  A scan that has met no active
  position still has every active one before it, but for those that are hidden or will be
  once the positions it has yet to visit turn out settled (`FullBefore`); a cycle that is entering has none
  behind it that is not hidden (`ScanKnown`).  Others may close positions meanwhile, and
  only the holder of the lock can open one.
- `MarketData`: between two frames a local book is the state its connection has
  got to (`BookInStep`); what a backfill was given ends below its cursor
  (`PagesFollow`) and has no silent hole (`NoSilentHole`).
- `Handoff`: what is known of the database (`JournalsHold`, `RowsHold`: a row that
  says submitted is of a completed run whose order was placed, and which journaled it
  unless a smoke has undone that since), of the loop on
  its way (`LoopHolds`), and of the files.  A file is never changed, only replaced, so
  what is said of a file is said of its content: each content that a command leaves
  passes the validator of its kind (`TypeOK`), a ready review stays true because orders
  and rows only move forward (`Earned`; the smoke's own decision is excepted, whose rows
  a rerun deletes and writes again, but an order once placed stays placed), a ready deployment check speaks of a
  reviewed readiness report and a plan within the capital (`ReadyMeans`), and the loop
  keeps the copies it was armed with (`LoopArmed`).  From these `HandoffHolds` follows at
  the two places where a loop gets its decision, in `Arm` and in `Select`: the copies of
  plan, audit and switch state inside the deployment check and the readiness report
  must all be the same one.  `SeenHolds` is what `live-readiness` remembers of the plan
  between its reads.  For the check that nobody disturbs, `QuietHolds` says how far
  it is (`Remaining`), that the files before that place are those built from the
  database as it still is at some instant since it began (`QuietFiles`), and what the
  command in progress has read of it (`QuietSeen`).  `NoOrderAfterSmoke` is inductive by
  itself: the decision is journaled under the smoke's run, which keeps every loop from
  journaling it again, and a loop that is past its journal opened its run before
  the smoke's, whose row is the newest of the two.
- `SignalEntry`: the rows of the evidence lead back to each other (`EvidenceKept`),
  every row from a signal to its fill follows from the one before (`ChainKept`),
  and so does what a command has decided and not yet written (`JobsKept`).  The
  proof has one lemma for each action and a common part: no step takes back what
  another row was checked against (`Grows`), so that a decision made on rows read
  earlier is still right about the rows that never change, and only the rows that
  do change (the grant, the validation) must be read again at the write.  A backtest in
  progress keeps trades of a run, a hypothesis and a history that others may replace;
  `Honest` holds because the job keeps its copies, and what is recorded is computed from
  these and not read again.

Refinements.  In `LiveOrder` the stage of a decision is read off its rows and the
exchange's order; journaling, acceptance and acknowledgement are the three moves,
everything else stutters.  In `PaperLedger` a close is `Close`, an equity event is
`Settle`, and equity is that of the last event; the step needs that the
ledger is a chain, so that appending makes the new event the last.  In `SignalEntry`
the writes of evaluation, ticket and fill are `Decide`, `Order` and `Enter`, whichever
of the racing commands makes them, and all else stutters; the step needs `JobsKept`.

Bounded work.  That commands end takes fairness and is checked by TLC
(`EveryRunEnds`, `EveryLoopReturns`, `EveryCommandReturns`).  What it rests on holds
without fairness and is proved: a number of steps left, which every step of the process
lowers and no other step raises, from at most `MaxRetries + 14` for an order
(`BoundedRuns`), `6 * MaxIterations + 2` for a loop (`BoundedLoops`),
`4 * ReconnectAttempts + 2 * Messages + 4` for a collector and three for each candle of
the window of a backfill (`BoundedCommands`, which needs that every page, an empty one
too, moves the cursor: `PageInWindow`, proved with it).  So no answer of the exchange, the
network or another process makes a command go on for ever; what fairness adds is only that
it takes its next step.  `LockIsReleased`: the lock of the pending selection is held by a
run in progress, or by one that crashed and whose session is about to end.

The audit of `HandoffFiles` names the newest row of those it counts, and the queue has
an oldest decision.  That there is one (`NewestRunThere`, `OldestIsPending`) comes from
the well-foundedness of the natural numbers (`NatMin`, `NatMax`), without induction.

Only model-checked: liveness (`EveryRunEnds`, `EveryLoopReturns`,
`EveryCommandReturns`), since fairness and `ENABLED` are out of the prover's reach; and
the five violated properties, of which there is nothing to prove.  Every invariant and
action property that a passing run checks is also a theorem.

## Findings

Five runs show a disagreement between the code and what the repository says of it.

1. `paper_retry`.  A settlement stopped after its close cannot be repeated with
   the same observation: the close is stamped with the clock of each attempt and the
   repository compares the stamp, so the retry meets "already exists with
   different payload" (`paper_position_close_repository.go:148`,
   `position_close.go:85`; README.md:93).
2. `paper_complete`.  A validation is COMPLETED with an open position: an entry had
   read RUNNING before the completion read the journal (`lifecycle.go:72`;
   README.md:454).
3. `market_closed`.  A backfill that asks just before a candle closes and maps the
   answer just after stores values from before the close as a closed candle
   (`client.go:661`), and may do so over the collector's confirmed row
   (`candle_repository.go:60`; README.md:97).
4. `guard_future`.  The preflight and the drift report read the clock before they ask
   for positions, and the client stamps the answer later, so a fresh snapshot is one
   "of the future" as soon as the clock moves in between
   (`startup_preflight.go:375`, `position_drift.go:39`; README.md:543, 670).
5. `paper_scan`.  A cycle reads at most `-position-scan-limit` positions, oldest first and
   settled ones included (`auto_exit_reconciliation.go:132`,
   `paper_open_position_repository.go:79`; the default is 1000).  Behind that many
   settled ones an open position is not seen, and the cycle enters beside it
   (README.md:485: "skips entry while any active open position remains").

## Observations

Met while modelling; not counted as disagreements.

- A close whose `closed_at` is earlier than the last equity event cannot be accounted
  any more (`equity_event.go:85` and the order required of the ledger): two positions
  settled out of order leave one stranded, and the validation cannot be completed.
- When the context of a loop is cancelled, its finish audit is written with that
  context and fails (`execution_loop.go:263`): the row stays RUNNING and the audit
  review says BLOCKED until someone looks.
- A rerun after a crash between the submission row and the POST finds the row with
  another `created_at` and is refused; the decision is not submitted, nor is it
  pending again.  That is the safe side; the way out is manual.
- A release stamped while a drift report reads positions outlasts the activation
  that the report appends later with the stamp of its beginning.  `LastWordHolds`
  says what does hold: an event is never overruled by one its command began with.
- An explicit decision (`-decision-id`) that is not at the head of the queue never
  passes the readiness handoff, because readiness compares the plan with the head;
  README.md:584 reads as if any decision would do.
- `live-loop-smoke` seeds a real approved LIVE decision (`main.go:165`).  If it stops
  before its fake loop has journaled it, an armed `-select-pending` loop orders it on the
  exchange.  Run again, the smoke's cleanup (`main.go:843`) deletes the submission,
  acknowledgement and snapshots of that real order and seeds the same decision as
  pending, so that only the exchange's refusal of a repeated `orderLinkId` is left
  against a second order.  `NoOrderAfterSmoke` says what holds once a smoke has completed:
  nobody begins to order the decision, but an earlier order of it may be on the
  exchange, and a loop that opened its run before the smoke did may be about to send.
- A review of the smoke's decision may be ready on its fake fill, and the run row and the
  fake snapshot of a completed smoke stay in the shared tables.
- Readiness and audit files stay good for their age though the run they speak of has
  failed or crashed meanwhile; the audit's filter of status is not compared.
- A failed run keeps the review at REVIEW until `limit` newer rows push it out, and
  runs of `live-health` count among these.  With the default run id used twice a
  first-order review is never ready.
- The Kill Switch turned on and off again between two commands is invisible to both.
- The ops report of a post-order check is not tied to the latest order, and the
  review knows of a position its size and side only.
- Two recorders of a result that ran at once can change the status of a run the
  validator calls final (`result.go:141`): the UPDATE names the run only.
- A result recorded again after its validation was planned denies every grant on it
  for good (`recorded_at` must not be after `planned_at`).
- A grant repeated with its own id conflicts, because `granted_at` differs.  A
  revocation reads the clock before its UPDATE, so a fill may be stamped after
  `revoked_at`.
- A temporary denial (the Kill Switch) decides a signal for ever; the Kill Switch is
  not read again between the evaluation and the ticket, nor after the first check of
  a fill; a re-import between that check and the INSERT is not noticed.
- A crossing rule compares with the last state that passed the regime filter, not
  with the previous candle; the holding period counts stored candles, so a gap
  stretches it; every fold is asked for the whole `min_trades`; and a backtest whose
  coverage passes though a state is missing, with trades, cannot be recorded and
  leaves its run open.
- A preflight that refuses an open position has recorded it, and the next drift
  report takes it as its baseline.

## What is left out

- *Arithmetic.*  Prices, fees, sizes, features, statistics: decimals and floats over
  long series; a quantity is a small number where a property compares it and is
  absent elsewhere.
- *Parsing, signing, formatting, logging* and the wording of errors.
- *Smokes* with `-cleanup=false`, or with a `-decision-id` or `-run-id` that names
  somebody else's rows: the defaults are modelled.
- *Paper preflight, simulation and performance reports*: reads and arithmetic over the
  rows that `PaperLedger` writes; no decision of another command depends on them.
- *The trend experiment*: a report over variants in memory.
- *Features and the regime detector*: pure functions of decimals and floats over
  windows of candles; `Strategies` and `Backtest` take their results as inputs.
- *Migrations*: check and apply in one transaction per file; of two runners at once
  one fails on the key of the version, which is PostgreSQL's doing.
- *Configuration* flags of the artifacts, symbol filters and the drift section of the
  ops report: a check is in `HandoffFiles` only if it can fail for another reason.
- *Restoring tables*: but for the smoke's cleanup nothing deletes or repairs rows.
- *Public trades and tickers* of the collector: one insert that ignores known
  ids, and a log line.
- *Instrument constraints* that the backfill reads before each symbol.
- *Three commands at once* in `guard`: the second order of races is covered by the
  proofs only.
- Components not modelled, with the reason for each, are in `PROJECT.json`.

## Plan

Done, in this order: orders and their lifecycle; the loop and its audit; the guards;
the paper ledger; the feeds; the files of the handoff and the commands around
a first order; the risk engine, the strategies and the backtest as operators; the
way from a hypothesis to an entry, and its refinement of one decision, order
and entry per signal; proofs of every safety property that the passing runs check, of the
three refinements, of what the operators compute, and of bounds on the work of each
command that loops.

Left, the most useful first:

1. An index of the features and the regime detector over a few symbolic candles,
   for the warm-up of windows.
2. A measure for the commands of `PaperLedger` and `Handoff`, whose cycles are bounded
   by the number of positions and files.
3. Two migrators, if the repository ever runs them side by side.
