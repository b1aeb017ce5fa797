# Verification of the QuantPilot trading system

TLA+ models of the core of this repository, the TLC runs that check them on
small instances, and TLAPS proofs that hold for every instance. Paths below are
relative to the repository root (`src/` here); the lines of each modelled
definition are in `PROJECT.json` under `map`.

    tlc -workers 2 -config real_orders.cfg MCOrderLifecycle   # a run
    tlapm OrderLifecycleProofs.tla                            # a proof

## 1. Inventory

The system is a Korean-stock trader. Workers collect data into PostgreSQL and
publish a universe of candidates; a scheduler or the unified workflow starts one
trader process per cycle, about once a minute in the session; the trader
reconciles, plans and places market orders at the KIS broker (REAL or PAPER),
or fills them in a local simulation (SIMULATE), or only reports (DRY_RUN).

| Part (code) | State it keeps | Operations | Correct when |
|---|---|---|---|
| Order execution (`core/execution/order_execution.py`) | the batch's results, today's cash, the balance at its start | claim, submit, poll, infer, record, mark unknown | a KIS order exists at most once per decision; every one that exists has a row that is looked after |
| Order reconciliation (`order_reconciliation.py`) | none of its own; rows and executions in PostgreSQL | match lost orders, reject after the grace period, poll, infer PAPER sells, gate | it adopts only its own orders; it settles everything; what is settled stays settled |
| Order planning (`order_planning.py`, `core/strategy/fa_ta_momentum.py`) | targets and reasons of one batch; the day's rows, read once | signals, hedge override, allocation, transition cap, breaker, order sizes, suppression and numbering of attempts | stops survive every later stage; limits hold after the orders; bounded retries |
| Repositories (`storage/postgres/repositories/order_repo.py`, `execution_repo.py`) | `orders`, `executions`, status history | insert by unique key, status updates, one commit each | rows and executions agree after any crash |
| KIS adapter (`core/broker/kis_api.py`) | token, rate limit | one POST per order, daily inquiry, balance | an ambiguous POST is never repeated |
| Trader cycle (`core/execution/trader.py`, `run_live_trader.py`) | candidates, operational log, hedge state | daily, risk-only, premarket, liquidation | each step uses state it may rely on |
| Local simulation broker (`core/broker/simulation.py`) | one JSON file: cash, positions, fills | load, fill, save | a key fills once, the file balances at every crash point |
| Inverse hedge policy (`core/execution/inverse_hedge.py`) | one JSON file: entry, held days, cooldown | evaluate | holding is bounded, cooldown kept, one decision per date |
| Process locks (`core/utils/process_lock.py`) | lock file, metadata file, heartbeat file | acquire, release, probe | one owner; free when its owner is gone |
| Unified supervisor (`apps/system/supervisor.py`) | restart count, child | launch, watch for stalls, restart with backoff, stop | bounded restarts, a stop leaves nothing behind |
| Workflow (`apps/system/workflow.py`) | cycle lock, report | wait for the session, prepare, premarket, trade, risk-only fallback | no cycle leaves the holdings unlooked at |
| Scheduler and its supervisor (`scheduler.py`, `core/utils/scheduler_supervisor.py`) | last mark, cold-start retry, report dates | premarket 8:30, trading every minute, end-of-day report | batches run on candidates of the day; every session is reported |
| Analyzer publication (`apps/worker/analyzer`, `fa_analysis_repo.py`, `universe_repo.py`) | run rows, universe | reuse, create, analyse, publish, fail stale runs | the universe is that of one published run |
| Everything else | | | see `PROJECT.json`, `components` |

How they interact. There are two ways to run the trader: the supervisor launches
a watcher (`apps.system run --watch`), whose cycles start `run_live_trader.py`
once for the premarket batch and once for the trading or risk-only batch; or
`scheduler.py`, alone or under the legacy supervisor, starts it by the clock.
Three flocks keep them apart: `scheduler.instance` (one watcher or scheduler),
`cycle.lock` (one workflow cycle) and `trader.cycle.lock` (one trader process).
A trader shares state with earlier ones only through PostgreSQL, the JSON files
and KIS itself. Inside it everything is sequential, so what runs concurrently
is the trader and KIS, the trader's steps and its own death, the processes and
those who restart or stop them, and analyses that publish side by side.

What is hard, with the lines where it bites, is the list `hazards` in
`PROJECT.json`. In short: a POST whose answer is lost; an order rejected
locally while it lives at KIS; recovery by symbol, side, quantity and time
instead of an id; two commits per report; fills inferred from balances that are
older than they look; retries by every cycle; a hedge bought before the exits
it stands for; seven stages that rewrite the same targets after a stop was
decided; a JSON file replaced at the wrong moment; state counted per date and
evaluated per minute; orphaned, hung and stalled processes; a mark set before
the command it stands for has run; analyses that outlive their process.

## 2. Modules

| Module | What it is |
|---|---|
| `OrderLifecycle` | one trading day of the KIS path: trader, PostgreSQL rows, KIS |
| `MCOrderLifecycle` | its TLC instances (starting positions, symmetry) |
| `OrderLifecycleProofs` | its theorems: orders, recovery, ledger, retries and the hedge's order, on REAL and on PAPER |
| `Planning` | the daily batch from account and signals to order sizes |
| `MCPlanning` | the symbols and breakers TLC combines |
| `PlanningProofs` | its theorems: stops, hedge, breaker, allocation limits, transition cap, strong positions |
| `FillLedger` | abstract: what the simulated account promises |
| `SimulationBroker` | the SIMULATE path: account file, process, crashes; refines `FillLedger` |
| `SimulationBrokerProofs` | its theorems: the refinement, the balance of the account, the hedge's order |
| `InverseHedge` | the hedge policy, its state file and its orders over several dates |
| `InverseHedgeProofs` | its theorems: cooldown, holding window, one decision per date |
| `Supervision` | supervisor, watchers, workflow cycles, trader processes and their locks |
| `SupervisionProofs` | its theorems |
| `Scheduler` | `scheduler.py` over several days, its files, its supervisor |
| `SchedulerProofs` | its theorems |
| `Publication` | analyses and their publication to the universe |
| `MCPublication` | the instance TLC checks |
| `PublicationProofs` | its theorems |
| `SumTheorems` | lemmas about sums over finite sets, for the proofs of `Planning` and `SimulationBroker` |

The modules meet where the code's parts do: `Supervision` and `Scheduler` decide
that at most one trader works at a time, which `OrderLifecycle` and
`SimulationBroker` rely on; a batch of `OrderLifecycle` is free to want any
order, so that it covers all that `Planning` calculates; `Planning` lets the hedge
policy ask for everything that `InverseHedge` may answer.

### OrderLifecycle

State. `status, odno, qty, filledQty, born, ledger` are the `orders` row
(`born` is the grace period of `created_at`) and the sum of its `executions`.
A row is named by what its idempotency key varies in: symbol, side and attempt
number, or exit reason for risk and liquidation batches. `wire, bowner, bstate,
bfilled, listed, held` are KIS: submissions under way, the orders they created,
what the daily inquiry already shows, the shares in the account. `pc` and the
remaining variables are locals of the trader process and are lost by `Crash`.

Actions and code:

* a cycle: `StartCycle` (balance read, rows selected), then per row `LinkMatch`,
  `RejectNotFound`, `ReconcilePoll`, `Defer`; on PAPER `InferFromPosition`; then
  the gate: `PauseOrders`, or `PlanDaily` / `PlanRisk`;
* a batch: `Execute` (balance read again), then per order, sells first, `Skip` or
  `Claim` (`create_order`), `MarkSubmitted`, `Submit` (the POST), and one of
  `Rejected`, `Attach`, `OutcomeUnknown`; `Poll` up to the limit
  (`PollsExhausted`); on PAPER `Infer`; `MarkUnknown` or `Settle`;
* a report is two commits: `BeginRecord` inserts the execution of the new
  shares, `FinishRecord` writes the row; `RecordFails` is the second one failing;
* `StartLiquidation` skips reconciliation and gate, as `--liquidate` does;
* KIS: `BrokerReceive` (books or refuses), `BrokerList`, `BrokerFill`,
  `BrokerCancel`; `GracePasses` is more than `unknown_order_grace_seconds`.

Abstractions. Which symbols the strategy wants to buy or sell, in which
quantity and with which urgency, is free (`Intent`, `Sensible`); so are the price
guard, session checks and cash (`Skip`, and a buy of any quantity up to the
plan). Time is the number of grace periods that have passed: it separates what
the code separates, rows within 120 s of an order from those beyond it and rows
within 300 s of now from older ones. KIS is assumed to process a submission and
to list the order within one grace period; the code relies on it when it rejects
a row that it does not find. One trading day; the history table is left out.

### Planning

State. `stage` is how far `run_daily_batch` is; `facts, regime, riskKnown, goal,
blocks` are what it has read (the broker's position, prices and scores of each
symbol, what the hedge policy asks for, active breakers, and the day's earlier
orders of a symbol as one fact per side); `target` and `reason` are
`target_positions` and `target_details`; `conviction, remaining, budget` are the
locals of `_apply_portfolio_limits`; `sell, buy, after` are the orders and the
exits that a hedge entry waits for.

Actions are the stages in the code's order: `Begin`; `EvaluateSignals`
(`fa_ta_momentum.py`); `OverrideForHedge`; `StartAllocation`, one
`CapOverweight` per pass of the loop, `ShareOut` or `DivisionByZero`,
`AllocationDone`; `CapTransition`; `ApplyBreaker`; `CalculateOrders`; `Finish`.

Money is counted in ten-thousandths of the account, so that a weight, which the
code rounds to four digits, and its value are the same integer; a price is a few
hundred of these units. Indicators and regime are free facts, with what the code
implies among them as `PlanningAssumption` (a sound candidate scores at least the
minimum; a rising one is not falling; nobody scores an ETF).

### SimulationBroker and FillLedger

`disk` is the account file, `mem` the process's copy, `tmp` the temporary file.
`WriteTemp`, `Replace` and `SaveFails` are `_save`; `Replay` and `RejectShort` are
the branches of `_fill` that change nothing. The planner reads no order rows
in this mode, so a daily order's key has attempt 1 always. Prices are a small set,
met anew by every order; money is integer, and `Fee` stands for commission, tax
and slippage. `FillLedger` has no process, file or crash: a key fills at most
once, completely, and only with cash or shares for it.

### InverseHedge

`Evaluate` is `evaluate_inverse_hedge` with the state file's replacement and the
order that may follow; `OrderSettles` fills it, in part or not at all; `NextDay`
brings the next observed regime. `Weight` 0..3 are 0, 10, 20 and 30 percent;
stop-loss and the price triggers are one boolean `loss`; the quantitative
moving-average confirmation is `confident`. `last`, `lastExit` and `seen` are
history variables for the properties.

### Supervision

`sup, attempt, child, ended` are `supervise`; `wpc` says where each watcher is (in
which stage of `run_cycle` under the cycle lock, asleep between two, gone),
`code` its exit code; `tpc` and `rc` are the trader it started and what that
returned; `sched, cycle, tlock` hold the holders of the three flocks. A trader is
named by the watcher that started it, and may outlive it.

`Supervise`, `Launch`, `StopStalled`, `ChildExited`, `StopSupervisor` are
`supervise` and `stop_child`; `RunOnce`, `Boot`, `BeginCycle`, `Prepare`,
`Continue`, `Wake` are the command, the watch loop and `run_cycle` with
`FallBack`, its risk-only exit; `TraderStart`, `TraderEnds`, `TraderHangs`,
`TraderTimeout` are the trader process and `run_bounded`. The faults are
`KillSupervisor`, `Crash` (a watcher dies alone and orphans its trader) and
`GetStuck`. What a trader does is `OrderLifecycle`; what `prepare` does is
`Publication`; here each only succeeds, fails or hangs.

### Scheduler

A day is six slots: night, 8:30, the gap before 9:00, two minutes of the session,
evening. `now` is the clock as an iteration has sampled it, `mark` is
`last_run_mark`, `pending` the retry of a failed cold start; `cand, logged,
reported, failed` are the files (`fa_candidates.json`, session days in
`operational_health.jsonl`, daily artifacts, `eod_report_status.json`), the only
state that a crash leaves; `sup, restarts` the legacy supervisor, attached or
with a child.

`Boot`, `ColdStartEnds`, `RetryColdStart` are the cold start; `Top`, `Jobs`,
`PremarketEnds`, `IntradayEnds`, `StartReport`, `NoReport`, `ReportOk`,
`ReportFails` one iteration of the loop; `Supervise`, `Attach`, `ReplaceAttached`,
`ChildExited`, `Restart` the supervisor; `Tick` the clock, which a running command
may outlast; `Crash` and `SupervisorDies` the faults. `sought`, `idle` and
`excused` are history variables for `FreshBatches`.

### Publication

`rows` and `run` are `fa_analysis_runs`, `old` the runs created more than an hour
ago, `universe` the status of each company, `task` the analyses under way. One
action is one transaction or the computation between two: `Begin` (stale runs of
the month are failed), `Lookup` (`fetch_reusable_run`), `Insert`, `AnalysisEnds`,
`Publish` (demotion, promotion and both universe updates), `Crash`. Scoring,
selection and validation are one free outcome of `AnalysisEnds` and `Publish`.
`published` is `published_at`, as the session at hand then. `Latest`, `Selected` and
`Mismatch` are the query of the audit. The audit only reads; that it fails a preparation
which has published already changes nothing in this model.

## 3. Runs

All runs check for deadlock: no model ever stops.

| Run | Instance | Distinct states | What it shows |
|---|---|---|---|
| `real_orders` | REAL, 3 attempts, 2 shares, 1 grace period, 2 KIS orders | 1.8 M | `SingleLiveOrder`, `LiveOrderTracked`, `LinkedToOwner` under lost requests and replies, crashes, late listings |
| `paper_orders` | PAPER, 2 attempts, exit reason STOP, liquidation, limit 1 | 1.2 M | with all three kinds of keys: `RetryBounded`; FILLED rows are booked (`FilledMeansBooked`), the ledger only grows (`LedgerGrowsWithinOrder`), no row is reopened (`TerminalIsFinal`) |
| `hedge_entry` | PAPER, a long symbol and the hedge, 2 attempts, 2 KIS orders | 2 M | `HedgeAfterExits`; balance inference never books more than KIS filled (`LedgerNotAhead`) and nothing is duplicated or forgotten (`SafeUnlessMislinked`) before a recovery adopts a wrong order |
| `paper_recovery` | PAPER, 2 attempts, 2 shares | violation | `FilledAtBroker` fails, see below |
| `settlement` | REAL, fair | 7.5 k | `SubmittedIsSettled` |
| `sim_account` | 2 days, a long symbol and the hedge, STOP exits, prices 1 and 2, fee 2, cash 6 | 66 k | `ExactlyOnce` (refinement of `FillLedger`), `AccountMatchesFills`, `FilledIsDurable`, `HedgeAfterExitFills` |
| `planning` | 3 symbols in 11 situations each, 4 of the hedge, 5 regimes | 308 k | `StopsAreSold`, `NoBuyUnderBreaker`, `TransitionWithinCap`, `AllocationWithinLimits`, `StrongIsKept`, `HedgeReplacesLongs` |
| `stop_suppressed` | as `planning` | | `StopsAlwaysSold` is violated, see below |
| `supervision` | 2 watchers, 1 restart, fair | 164 k | `OneTrader`, `StoppedLeavesNothing`, `CyclesLookAtRisk`, `SupervisedCycleEnds` |
| `scheduler` | 3 days with a holiday, PAPER and REAL, 1 restart, fair | 583 k | `FreshBatches`, `EverySessionReported` |
| `publication` | 2 processes, 2 runs, 2 sessions in 2 months, fair | 1.2 M | `UniverseIsPublished`: one publication, and the one the audit asks for unless it was published ahead of its day; `AbandonedRunFails` |
| `hedge_policy` | 7 dates, holding limit 3, cooldown 2 | 55 k | `NoEntryInCooldown`, `HoldIsBounded`, `DecisionIsStable` |

The violations are findings. `stop_suppressed`: `_apply_portfolio_limits` deals weights out by
conviction, the score above the minimum. When those who have conviction reach
the symbol limit and leave, and budget remains for symbols that have none,
`conviction_total` is 0.0 and the division raises (`order_planning.py:50`). The
exception ends the batch before its orders, the stop-loss exits among them,
while `fa_ta_momentum.py:84-86` says that other data must never suppress a stop.
`StopsAreSold` is what does hold: every batch that completes sells its stops.

`paper_recovery`: when the reply of a PAPER submission is lost and the balance shows its
fill, the row becomes FILLED without the number of its KIS order
(`order_execution.py:272-279`). Reconciliation excludes only numbers that rows carry
(`order_reconciliation.py:109-126`), so that KIS order can be matched again: by a
later row of the same symbol, side and quantity, claimed within two minutes, whose
process died before the POST. The row becomes FILLED for shares that KIS was never asked
to trade, against the fourth safety invariant of
`docs/AUTOMATED_TRADING_SYSTEM_DESIGN.md`; if the later order did reach KIS, it is
live without a row. What does hold is `SafeUnlessMislinked`, that nothing of the kind
happens before a recovery has adopted a wrong order, and on REAL none ever does.

A third disagreement is between two parts of the code. After every preparation the audit
(`fetch_published_universe_mismatch`, `fa_analysis_repo.py:31-55`;
`apps/worker/analyzer/operations.py:55-56`) demands that the ACTIVE universe be the selection
of the LATEST published run, by `effective_date` and `run_version`, and
`workflow.py:133-135` ends the preparation with PUBLICATION_AUDIT_FAILED when it is not. In
the model this is `AuditPasses`. `publish_fa_run`, however, compares the run it promotes
with the present day only (`universe_repo.py:286`), never with later publications, so
`AuditPasses` is not an invariant; TLC, given it alone under `publication.cfg`, reports:

1. on day 1 a command analyses and publishes session 2 (`--effective-date`, which
   `README.md:119` asks for in the monthly operation);
2. the preparation of session 1 then publishes its own run, and ACTIVE is that one's
   selection, while the latest publication is still session 2's.

From then on every preparation fails its audit, and the cycles are risk-only. On day 2 the
preparation of the same inputs finds the run of session 2 PUBLISHED and returns early
(`universe_repo.py:265-279`), so that the universe stays the older one. What does hold, in
every interleaving, is `UniverseIsPublished`: ACTIVE is the selection of one published run,
and unless the latest one was published on a day before its own, the audit's condition.

What the code does and no property objects to, but a reader should know:

* a crash between `create_order` and `mark_order_submitted` leaves a PENDING row,
  which the gate counts and reconciliation does not select: trading pauses for
  the rest of the day;
* `--liquidate` neither reconciles nor asks the gate, and may sell once more what
  an earlier order is still selling; in SIMULATE its orders carry no price and
  are all rejected;
* buy, sell, buy, sell on one SIMULATE day replays the first sell;
* on the date the hedge's cooldown reaches zero the first evaluation answers
  COOLDOWN and the next may answer ENTRY_READY; `DecisionIsStable` allows that
  date and no other;
* a holding with a score between the exit limit 40 and the entry limit 50 has
  conviction 0 and is sold by the reallocation, though no exit rule says so;
  `StrongIsKept` therefore speaks of scores above the entry limit;
* a strong holding can still be sold whole when positions without data leave almost
  nothing of the gross exposure: the share of a symbol is rounded to four digits
  (`order_planning.py:50`), and less than one ten-thousandth of the account per point of
  conviction may round to 0. The proof of `StrongIsKept` met this case, which the
  instance of `planning` is too coarse for; `Room`, its premise, now excludes it, and
  holds whenever such positions leave a few percent of the account;
* a position that the broker reports without a price is compared with its
  average cost by the breaker and with the last close by the order size:
  `NoBuyUnderBreaker` and `HedgeReplacesLongs` except it;
* a cold start that ends late leaves the mark 8:30 over night, so that the next
  morning's premarket is skipped when no job came between (`excused`);
* a torn last line of `operational_health.jsonl` makes every later report fail;
* `--attach-pid` in REAL runs a scheduler of its own when the attached one ends;
* a stalled watcher that still handles SIGTERM returns 130, which ends its
  supervision; with `--interval` above the stall timeout, sleep counts as a stall;
* an orphaned trader keeps `trader.cycle.lock` until it ends, so later cycles fail;
* a run failed as stale may still pass and be published when its analysis ends; of two
  analyses of a session the last to publish wins, so it may replace the publication of
  an analysis that began after it, and of later sources: nothing in the code or its
  docs says which should stand, and the audit accepts either;
* `apps/worker/analyzer/README.md:19` and `:158` say that a PASS or WARNING result is
  published; `publish_fa_run` raises for every status but PASS;
* only stale runs of the analysed month are failed, but the audit counts those of
  every month.

Each property has a mutant: a fault a programmer could make in the code (the
operators marked "Fault"), under which TLC finds the property violated.

### Bounds and why they are enough

* Orders (`MaxAttempts`, `MaxQty`, `MaxEra`, `LastActiveEra`, `BrokerId`): two
  shares allow a partial fill, two attempts a retry that meets its predecessor's
  late order, one grace period separates young rows from old ones, and as many
  KIS orders as can be submitted in the scenario are available (when all numbers
  are used, KIS refuses, which is a legal answer). Risk runs have one symbol
  because keys of different symbols meet only in the gate, which only blocks
  more; the hedge runs have two. KIS order numbers are interchangeable, so safety
  runs use symmetry; fair runs do not. `LedgerNotAhead` is stated for histories
  without a wrong link, since a wrong adoption books another order's fills.
  `LastActiveEra` stops planning and crashes after its grace period, so that the fair
  run asks liveness of the recovery and not of a trader that dies for ever. The
  PAPER runs stay within the first grace period (`MaxEra` 0); recovery beyond it is
  the REAL runs', and the theorems'.
* Simulated account (`MaxDay`, `MaxQty`, `Price`, `Fee`, `InitCash`): two days so that a
  key is new again; cash that pays for some orders and not for all; a fee above the
  lower price, so that a sale may also cost cash.
* Hedge (`MaxDay`): seven dates hold an entry, a full window of three, a cooldown
  of two and a new entry.
* Planning (`Cases`, `HedgeCases`, `Blocks`, `HedgeStage`): the cases are chosen
  one by one, each the start of a branch: absent, candidate, borderline candidate,
  holdings of three sizes, one between the score limits, deteriorated and reduced
  before, without a price and with too few bars, at the hard stop, at the trailing
  stop without data. Three symbols are what it takes for the allocation to cap
  one, share out among others and keep a third; a hundred units of a price and the
  band of 20 percent make each limit met from both sides.
* Supervision (`Watcher`, `MaxRestarts`, `LongInterval`): two watchers are a
  supervised one and its rival, or a successor and the predecessor's orphan; the
  theorems of `SupervisionProofs` hold for any number. Time is the phases of a
  trading day, over and over.
* Scheduler (`LastDay`, `Trading`, `Span`, `MaxRestarts`): day 2 is a holiday, so
  that a session is followed by a night that no job runs in; `Span` 2 lets a
  command outlast 8:30 and the gap after it.
* Publication (`Process`, `MaxRuns`, `MonthOf`, `MaxSource`, `Selections`): two
  sessions, the last of a month and the first of the next; one change of the
  sources tells input hashes apart; two disjoint selections would show a mixture.
  Day 1 is before the second session, so that a command can publish ahead. A process
  that finds the table full gives up (`NoRoom`).

### Fairness and its source

* `OrderLifecycle`: the scheduler starts a cycle every minute and waits for its
  end, under the cycle lock, so `StartCycle` and every step of a running cycle are
  fair. Inquiries and commits may fail any number of times but not for ever, so
  what they complete (`LinkMatch`, `ReconcilePoll`, `FinishRecord`) is strongly
  fair: a failure disables it until the next cycle tries again. `RejectNotFound`
  and `GracePasses` are strongly fair for the same reason, being enabled only in
  part of a cycle. KIS processes, lists, and fills or cancels a market order:
  weakly fair.
* `Supervision`: processes run, `run_bounded`'s timeout expires, the supervisor
  polls once a second: weakly fair. Nobody has to start or stop anything, and
  neither the clock nor a fault is fair; a stuck watcher is ended by
  `StopStalled` or not at all. `SupervisedCycleEnds` excepts the one case in
  which nobody is left to do it, a killed supervisor.
* `Scheduler`: the loop and its commands, which have timeouts, are weakly fair, and
  so is the supervisor. A report may fail any number of times, but one that is
  tried again and again is written at last (strong fairness of `StartReport`, whose
  retry interval comes and goes, and of `ReportOk`). The property exempts a
  scheduler without a supervisor, and so one whose supervisor has used up its
  restarts.
* `Publication`: the watch loop calls `prepare` again and again, and its steps are
  weakly fair; commands need not run; hours pass.

## 4. Proofs

All for every value of the constants that the modules' assumptions allow, and all
checked by `tlapm`. Every invariant and every action property that a passing run
checks is the statement of a theorem; the hypotheses that some of them have on the kind
of account and on liquidations are named below. Each proof has the same shape: an
invariant that `Init` establishes and each action preserves, one step per action, and
the property as a consequence. TLC checked each inductive invariant on the instance
of a run before it was proved.

`OrderLifecycleProofs`

On both accounts and with liquidations:

* `TypeCorrect`: `Spec => []TypeOK`. `TypeInv` adds to `TypeOK` that a step that works
  on an order has one, and that a KIS order has an owner.
* `SettledIsFinal` (`TerminalIsFinal`), from `StepInv`: the row of the current
  step, and every row that reconciliation has yet to look at, is open.
* `FilledIsBooked` (`FilledMeansBooked`) and `LedgerIsMonotone`
  (`LedgerGrowsWithinOrder`), from `RecordInv`. Its parts: a linked KIS order has
  the symbol, side and quantity of the row (`LinkInv`; even a wrong adoption has,
  which is what keeps executions within the order on PAPER), and a report that is
  being recorded is in the ledger before it is in the row, complete when it says
  FILLED (`BookedInv`), which is what a crash between the two commits leaves.
* `RetriesAreBounded` (`RetryBounded`), from `RetryInv`: the rows of a symbol and side
  that have failed or still may fail number at most the limit; when an attempt is
  planned it is the only one of its symbol and side and one failure still fits, since
  the gate has seen no unresolved row. The bound counts rows, so it needs that
  only finitely many exist (`Rows`).

On both accounts, without liquidations:

* `OrdersAreSafeUnlessMislinked` (`SafeUnlessMislinked`), `LedgerIsBacked`
  (`LedgerNotAhead`), `FilledUnlessMislinked` (`LinkedToOwner => FilledAtBroker`),
  all from `SoundInv`. None of them is inductive, nor are they together:
  * that a second order of a key is never live needs that a key has one unresolved
    row, and none when it is planned (`GateInv`), that a row is posted at most
    once and listed within the grace period of its creation (`PostInv`), and that every
    order KIS works on has an open row (`OwnInv`);
  * that needs that a local rejection meets only rows without a KIS order. The recovery
    finds every listed order of the key that no row has linked, so that a row past its
    grace period without a match has none (`UnmatchedRow`);
  * a row that was inferred as filled has no number, so its KIS order is a match for
    others. `OwnInv` therefore says that an order is linked, or awaited by its open row,
    or completely filled by KIS. The last needs that an inference is right: the shares
    by which the balance has moved are those of the one unresolved row (`BalanceInv`),
    because KIS works on no other order of the key;
  * what is being recorded is then no more than what KIS has filled (`HonestInv`).

  One wrong link takes this argument away for its symbol and side, and for no others. The
  last three parts are therefore stated per key, for the keys in which no row carries another
  row's number (`Sound`), and each step is shown to preserve them while the key stays so.
  `MislinkInv` says how a wrong link can come about at all: after KIS has filled an order
  of the key.
* `HedgeWaitsForExits` (`HedgeAfterExits`): `KeyFilled` says that a FILLED row
  stands for an order of its key that KIS has filled completely. `SoundInv` implies it
  for the row's own order while its key is sound, and by `MislinkInv` afterwards, so a
  wrong adoption does not break it. `ExitInv` carries it from the rows to the batch: each
  symbol in `sold` has such an exit, and the order being placed has passed its
  prerequisites.

On the REAL account:

* with liquidations, `RealLedgerNotAhead` (`LedgerNotAhead`), from `PolledInv` (nothing is
  inferred; what is booked was polled under the row's number), and
  `RealHedgeAfterExits` (`HedgeAfterExits`), from `KeyFilled`, which `PolledInv`
  implies, and `ExitInv`;
* without liquidations, `RealOrdersAreSafe`:
  `[](SingleLiveOrder /\ LiveOrderTracked /\ LinkedToOwner)`. A FILLED row was polled
  and so has a number; with `OwnInv` no order of another row is ever a match, and
  `LinkedToOwner` is inductive relative to `SoundInv` and `PolledInv`. The other two
  follow. `LiveOrdersAreTracked` and `RecoveryFindsItsOwn` state two parts by themselves,
  and `RealFilledAtBroker` (`FilledAtBroker`) that the finding of `paper_recovery` cannot
  occur here.

The hypotheses are real limits. On PAPER recovery may adopt a wrong order, which
`paper_recovery` shows, so `SingleLiveOrder`, `LiveOrderTracked`, `LinkedToOwner` and
`FilledAtBroker` cannot hold without the reservation. A liquidation skips
reconciliation and gate, so it may meet an order still open for its key: then two live
orders of one key are what the code does, and on PAPER the balance moves by the fills
of both.

`PlanningProofs`

* `TypeCorrect`: weights, shares and the budget stay natural numbers within their
  bounds: the capping loop never spends more than it has.
* `StopsSurvive` (`StopsAreSold`): from `FactsInv` (the batch works on well-formed
  facts) and `StopInv`, which follows a stop through the stages: once decided its
  target is 0 for an urgent reason, it is not among the symbols the allocation
  deals to, and nothing later raises a target of 0.
* `HedgeComesAlone` (`HedgeReplacesLongs`): from `GoalInv` (what the policy may
  ask for in which regime), `HedgeInv` (the hedge carries the policy's target or is
  held back to its weight; in a downtrend every long's target is 0) and
  `HedgeDone`. It assumes `Spread`: for every stage weight `g`, `g * Band >= 1000`,
  so that an increase that passes the rebalance band exceeds the held weight by
  the 0.1 percent that the policy calls a scale-up. The configured stages of 10
  percent and more with a band of 20 percent satisfy it amply; with a smaller band a
  hedge could be topped up under a reason that names no exits.
* `BreakerHolds` (`NoBuyUnderBreaker`), from `HeldBack`: once the breaker has been
  applied no target exceeds what is held.
* `AllocationIsLimited` (`AllocationWithinLimits`), from `LimitInv`: while the loop
  runs, what is kept, what has been dealt, the remaining budget and one unit of
  rounding for every symbol still waiting stay within the limit. The kept and the free
  targets are summed apart (`Fixed`, `Free`).
* `TransitionIsCapped` (`TransitionWithinCap`), from `CapInv` (the sum of the scaled
  targets) and `OrdersInv` (the orders are what the last stage computes from
  them): what each symbol is left with exceeds its target by at most the band, or a
  share and a rounding, and these add up.
* `StrongStays` (`StrongIsKept`), from `StrongInv`: a strong position either has its
  weight already or still has conviction, and then the budget covers every remaining
  point of conviction or gives every remaining symbol its limit (`Covered`), so that no
  share rounds to 0. `Room` is what makes the first budget cover them.

`SupervisionProofs`, from `IInv`: types; `ChildInv` (a supervisor that watches has
a child); `LockInv` (a trader at work holds its lock, a cycle's owner is in one of
its stages); `TraderInv` (where a trader may be, given its watcher: an orphan's
watcher has crashed, and a stage that looks at risk has been noted)

* `TypeCorrect`, the bound on restarts among the types;
* `TradersNeverOverlap` (`OneTrader`);
* `StopIsComplete` (`StoppedLeavesNothing`): `StopInv` adds that the last child of a
  stopped supervisor stays gone;
* `CyclesEndWithRisk` (`CyclesLookAtRisk`).

`SchedulerProofs`, from `SchedInv`

* `TypeCorrect`, reports of trading days and bounded restarts among the types. It
  needs `ClockInv`: an iteration that outlasts its slot does so by at most `Span`
  slots of the same day, so a command never runs into the next day.
* `BatchesAreFresh` (`FreshBatches`): `MarkInv` says of which day an 8:30 mark can be,
  `CoverInv` from when on a trading day is covered by candidates, a started premarket or
  one of the two exceptions.

`PublicationProofs`, from `PubInv`

* `TypeCorrect`, with `ShapeInv` and `AloneInv` (a run is computed by the one process
  that created it; otherwise a second end of the analysis could find it published).
* `UniverseIsOnePublication` (`UniverseIsPublished`), inductive with these: the
  transaction that promotes a run also demotes its predecessor and rewrites the
  universe. For the latest publication the dates decide: the run just promoted is of
  today or later, and none was published after today (`TypeOK`), so a latest one that is
  another run was published ahead of its day. That there is a latest one at all is
  `LastSession`, from the well-foundedness of proper inclusion on finite sets.

`SimulationBrokerProofs`, from `SimInv` (types; the process's copy equals the file
while it runs; what is being saved is one fill away from the file;
reported fills are in the file)

* `TypeCorrect`: cash and positions never become negative.
* `FillsAreDurable`: a reported fill survives any crash.
* `FillsExactlyOnce`: `Spec => Ledger!LedgerSpec`. `Replace` is the one step that
  maps to a fill; every other step stutters.
* `HedgeWaitsForExits` (`HedgeAfterExitFills`), from `ExitInv`: who has bought or is
  writing a hedge entry has sold every exit before.
* `AccountBalances` (`AccountMatchesFills`): a fill adds one term to the sums over the
  file's fills, and position and cash move by that term.

`InverseHedgeProofs`, from `IInv`

* `CooldownIsKept` (`NoEntryInCooldown`): `CooldownInv` relates the counter to the
  dates since the exit.
* `HoldingWindowBinds` (`HoldIsBounded`): `WindowInv` relates the counter to the
  set of dates seen.
* `TypeCorrect`.
* `DecisionsAreStable` (`DecisionIsStable`), from `StableInv`: the state file
  determines the answer that a further evaluation of the same date gives.

`SumTheorems` is what the sums need. The models write them with the community
modules' fold over a finite set, which is defined by a recursive function. The
library's induction theorems cannot be applied to it, but its theorem that proper
inclusion is well founded on finite sets can: a set of counterexamples would have a
smallest member, and removing an element of that one gives a smaller. From this come that
a sum may be taken apart at any element (`TotalRemove`, although the fold itself removes
the element that CHOOSE picks), is a number, grows with its terms, splits over a
partition and is linear. All terms are integers and all sets finite, so `Ticker` and
`Reason` are assumed finite where sums range over symbols or keys.

Assumptions on the constants that the proofs use beyond what TLC's instances need: `Span`
of the scheduler is at most 2 (a command outlasts at most two of the six slots of a
day: every command has a timeout, and the evening is hours long), trading days are days,
symbols and exit reasons are finite sets, `None` is none of the values it marks the
absence of.

Only model-checked: liveness under fairness, which is out of the prover's reach
(`SubmittedIsSettled`, `SupervisedCycleEnds`, `EverySessionReported`,
`AbandonedRunFails`). Neither proved nor checked: `LedgerNotAhead` and `HedgeAfterExits` on PAPER
with liquidations; `hedge_entry` has none.

## 5. Not modelled

Every component is listed in `PROJECT.json`, with what is left out of the ones that
are modelled in part. By kind:

* Numbers without control: indicators, regime classification and scoring, which
  reach the models as free facts; the backtester with its own allocation
  (`core/portfolio`), which the live trader does not use; optimisation; the figures
  of analytics and reports. Two observations from reading the backtest: when
  signals exceed the capacity, `allocation.py` may deal a SELL_ONLY stock more
  than it has; and a bond target below 1 percent keeps the old bond weight.
* Read-only views: API, dashboard, simulation report, status commands.
* Network and parsing: collectors, loaders, the KIS client's rate limit, paging and
  token. The upserts are idempotent single statements.
* Straight-line operator commands: backup and restore, migrations, bootstrap.
* Files that nothing decides on: lock metadata and heartbeats, dashboard and
  trade-history files, the status history, notifications.
* Parts of modelled components: the scheduler's SIMULATE report of 15:21 and its
  DRY_RUN mode; configuration and file validation; the legacy migration of the
  simulated account; floating-point rounding of money.
* Other writers of the universe: `sync_positions_to_universe` and
  `mark_empty_sell_only_removed` of `universe_repo.py`, which nothing in the program calls
  and which only write SELL_ONLY and REMOVED; and the test fixture `seed_test_universe`.
* A commit of the ledger that succeeds while its acknowledgement is lost: the trader
  sees an error, and the model only a process that dies right after a commit
  (`Crash` between the two) or a second commit that fails (`RecordFails`).
* A SIGTERM that reaches the supervisor between the start of a child and the assignment
  of its handle: `Launch` is one step.
* The residual position after a FILLED exit when an earlier order bought more
  shares since the balance was read: no statement of the code says what should
  hold; it is listed under `hazards`.

The models stand for the state machines of the program. These are a small part of
the repository's lines, most of which are notebooks, analytics, charts, HTTP views
and collectors with nothing to interleave and no state to keep.

## 6. Plan

Done: every module of section 2, its runs and its proofs as section 4 lists them.

Next: an abstract contract of one order (claimed, sent at most once, settled once,
booked monotonically) that `OrderLifecycle` implements, in the manner of `FillLedger`, with
the refinement proved step by step from `RecordInv` and `PostInv`.
