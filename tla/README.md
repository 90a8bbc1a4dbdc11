# A verification project for the bull-call bot

TLA+ modules, TLC configurations and TLAPS proofs for the trading bot in
`src/src/bull_call`. The bot trades one 0DTE call spread per trading day: after
a wait it picks two strikes, buys the spread with a limit order, watches the
underlying, sells the spread when the price falls back through the breakeven,
and otherwise settles it at the close. It is one single-threaded process, but
not a sequential system: orders execute and positions change at IBKR while the
process polls, the process is killed and restarted by systemd, and what survives
it is one DynamoDB row, a journal of stop events and the account. Beside the bot the
repository has a second strategy, the v9 pilot (monthly rebalances of sector funds, as a
library), and the research scripts whose verdicts decide which strategy is traded at all.
These are modelled too.

Paths below are relative to `src/src/bull_call` unless they start elsewhere; the research
scripts are in `src/research/scripts`.

## The system

| component | source | state it keeps | operations |
|---|---|---|---|
| session | `scheduler.py`, `strategy.py` | program counter, `_stop_event` | reconcile, decide, enter, monitor, settle |
| session loop | `scheduler.py` | `consecutive_errors`, `_stop_event`; over all dates the rows of the store | connect, choose the next session, report stale rows, read the monthly gate, back off, give up, shut down |
| orders | `cpapi/execution.py` | none; the orders are at IBKR | submit an entry with one reprice, close at market, cancel orphans, verify legs, flatten a leg |
| reconciliation | `cpapi/reconcile.py` | none | detect a matched pair of legs in the account and adopt it |
| store | `state.py` | spread row and stop journal per (date, symbol) | `record_open`, adopt, `record_close`, `record_settlement`, `record_stop_event`, and queries |
| stop machine and monitor | `stop.py`, `strategy.monitor_stop` | `armed`, the outage clock, the reconnect count | advance on a price, track silence, reconnect, flatten |
| quote stream | `cpapi/spot.py` | time of the last yield | yield prices and silence sentinels until the close |
| selection and pricing | `strikes.py`, `pricing.py`, `cpapi/chain.py` | none | two scans of the chain, probability of profit, limit prices |
| settings | `config.py`, `ssm.py` | none after the start | parse and refuse |
| gateway, calendar, entry point, events, simulation | `cpapi/client.py`, `calendar.py`, `__main__.py`, `events.py`, `simulate.py` | none the rest depends on | connect, dates, signals, logs |
| v9 pilot | `v9/*.py` | pilot record, position rows, fill rows, the number of the next fill | initialize, start, complete, halt; plan a rebalance; submit a market order; book it |
| momentum | `v9/signal.py`, `v9/shadow.py`, `sim_sector_momentum.py` | prior holdings, the ledger | the target of a month, three times |
| option backtests v5, v6, v7 | `sim_iron_condor.py`, `sim_bull_call_strategy.py`, `sim_short_iron_condor.py` | ledger, monthly result, stopped months | simulate a day, stop a month, aggregate |
| edge studies | `run_directional_edge_v1.py`, `sweep_directional_edge.py`, `sweep_gap_fade.py`, `risk_adjusted_metrics.py`, `realized_vs_implied.py` | a table of days, a ledger of returns | filter, judge, sweep, risk figures |
| volatility carry | `sim_vol_carry.py` | position, suspension, month's start | one day |
| split gates | `eval_v8_tvh_split.py`, `eval_v9_tvh_split.py` | results of the gates | judge a slice, promote or kill |
| infrastructure, other scripts | `src/infra`, `src/scripts`, the rest of `src/research` | none | deployment, downloads, summaries |

The session calls all the others in sequence. It shares state with the next
process only through the store and through IBKR (orders left working, positions).
The environment acts between any two calls: orders execute, legs are reported
one by one, the clock reaches the entry deadline, the late window and the close,
TIF=DAY orders end, calls fail before or after they took effect.

### What is hard here

* **Checks and acts are separate calls.** An order polled unfilled is cancelled
  a call later; positions are read a call before orphaned orders are cancelled.
* **Crashes between an effect and its record.** Fill and `record_open`, close and
  `record_close`, flatten and nothing at all.
* **Unconditional writes.** `record_close` and `record_settlement` rely on their
  callers; no condition protects the row.
* **Memory that must come back.** The armed stop is a local variable, restored
  from the journal.
* **Timers that interact.** Sentinels every few seconds, a grace, a blind limit,
  reconnects that block, a counter that a price resets.
* **What one day leaves to the next.** An error, a back-off across the close or a
  refused settlement leaves an OPEN row that no query of a later date returns; the
  monthly sum, the stale scan and the operator's runbook work on the same rows.
* **Loops with early breaks and rounding after clamping** in the selection and
  the limits.
* **Books and account of the pilot.** A fill is two rows, written after the order; an order
  that was given up may execute, and the number in a fill's key starts again with the process.
* **Hand-written passes over a ledger** in the research: a running month that is stopped, a
  stretch that is still open at the end, a lag of a day that may look ahead, a comparison with
  a NaN, one rule written three times in three scripts.

### What makes each component correct

* Row: opened once, strikes and origin fixed, out of OPEN at most once, settled
  only after the close; STOPPED only if a close executed.
* Session: at most one filled entry a day, never an entry once the date has a row,
  never a close for a row that is not OPEN, no order or position left without
  supervision, an end to every day.
* Session loop: no trading day is forfeited, the monthly gate holds across processes
  and dates, every stale row is reported and none is touched, the breaker opens after
  consecutive errors only, a shutdown ends the process.
* Stop: never acts on a spread that was never above breakeven, never disarms
  across restarts, is never blind for longer than the settings allow, flattens for
  an outage only if there was one.
* Selection and limits: the strikes the rule describes, a limit that leaves a
  profit, keeps the profit ratio and respects the maximum loss.
* Pilot: buys are covered by the sells before them, but for what the market orders cost more than
  planned; rows differ from the account only where
  an order is in hand or was abandoned; no fill is overwritten.
* Backtests: no day loses more than the strategy promises; a month stops when its result
  reaches the cap, not before and not after.
* Studies: no filter looks ahead, two scripts judge the same trades alike, figures say what
  they are named for.
* Gates: what is promoted keeps the rules over the whole ledger, not per slice only.

## The modules

| module | models | how its state corresponds to the code |
|---|---|---|
| `Broker` | the IBKR account, as the bot uses it (external, but for the order shapes) | `orders` is the book of all orders sent, with state, time in force and the legs not yet reported; `pos` is the position report |
| `SpreadLifecycle` | what the row promises to its readers: the abstract specification | `row` (status, strikes, origin, exit kind) and `closed` |
| `TradingDay` | the process, one date and symbol, on top of `Broker` | `pc` is the call the process is at; `row`, `journal` the items in DynamoDB; `sel`, `cur`, `legQty`, `armed`, `exitKind` local variables, lost in a restart; `stop` is `_stop_event`; `clock` the part of the day |
| `StopMonitor` | `monitor_stop`, `stop.advance`, the journal replay and `stream_ticks`, in seconds | `lastYield`, `lastFresh`, `reconnects`, `armed` are the variables of the code; `lastInfo`, `reached` are history |
| `SessionLoop` | `run_forever`, `_next_entry_time`, the stale scan, the monthly gate and the settlement over several dates, the start of the gateway client | `pc` is the place in the loop or the session; `rows` is the table, one row per date; `errors`, `gate`, `target` are `consecutive_errors`, `gate_active`, `entry_utc`; `attended`, `outcomes`, `scanned`, `repaired` are history |
| `EntryDecision` | `propose_trade`, `select_spread`, the limits of `submit_entry_lmt` | `i`, `long`, `short` are the loop variables and candidates; `limit` the price of the order |
| `V9Pilot` | the pilot's rows, `plan_rebalance`, `submit_stock_market_order` and the booking of its fill; the account, the prices at which market orders execute and the order of the calls are external | `pilot`, `positions`, `fills` are the rows; `plan`, `pc`, `current`, `seq` belong to the process and are lost in a crash; `shares`, `cash`, `left` are the account; `clean`, `slipped`, `before`, `recorded`, `stray`, `restarts` are history |
| `Momentum` | the target portfolio in production, shadow and simulation, and the simulation's month loop | `closes` is the data, `months` the ledger, `prior` is `prior_holdings` |
| `SpreadTrades`, `Backtest` | one day of v5, v6 and v7 as operators (quotes, walks over the chain, stop, payoff); the day loop they share | `ledger`, `monthlyPnl`, `stopped` are the variables of `run_simulation`; `today` is history |
| `EdgeStudy` | the filters and verdicts of the frozen spec, the two sweeps, the risk figures, the moves | `days` is the data, `report` and `trades` what a study leaves, `risk` is `RiskMetrics` |
| `VolCarry` | the day loop of the carry simulation | the loop's variables, `carryRows` is the ledger |
| `SplitGates` | the slices, their figures, the gates of both evaluations | `slice` is the loop, `returns` the rows looked at, `gates` the results |
| `Figures` | sums, drawdowns, variance, t-statistic, median: what several scripts compute alike | none |
| `Research` | the six of them side by side: a behaviour runs one | all of these |

`TradingDay` extends `Broker` and instantiates `SpreadLifecycle` with
`closed <- clock = Closed`. It abstracts what the other two modules detail: its
market may arm, suppress, fire or flatten in any order the stop machine allows,
and its selection may pick any spread. `SessionLoop` abstracts `TradingDay` in turn: a
session may or may not enter, stop or settle, with any result. `MCTradingDay`,
`MCSessionLoop`, `MCStopMonitor`, `MCEntryDecision` and `MCResearch` give the constants values for TLC. Operators marked
`\* variant` are the definitions with a plausible error in them, with which a
property can be seen to fail; the specifications do not use them.

**One action is one call** to the gateway or the store, together with the code up
to the next call, because anything may happen at IBKR while a call is in flight
and the process may die there. So `PlaceEntry`, `AwaitEntry`, `Reprice`,
`CancelEntry` are the four calls of `submit_entry_lmt`, `ReadLongLeg` and
`FlattenUnmatchedLeg` the two reads and the order of `flatten_unmatched_leg`.
Within `StopMonitor` one action is one round of the poller and what the monitor
does with what it yields. In `EntryDecision` it is one iteration of a loop or one
price. In `SessionLoop` one action is one phase of a session, because nothing outside it
looks at less. In `V9Pilot` it is one call to the gateway or the table again; in the research
modules, which run alone on data that does not change, it is one row of a loop, one slice or
one study, and what a script computes of a finished table is an operator.

### Faults

`TradingDay` takes the set of fault kinds that may occur and how many may occur in
a day. A kind is where the code can be interrupted or deceived: `crash`,
`sigterm`, `raise` (an unguarded call raises before its effect), `lost_reply`
(after it), `no_id` (an order is accepted, its id is not in the answer), `query`
(a guarded read fails and its default is taken: not filled, flat, no orders),
`cancel` (a failed cancel is swallowed), `late_fill` (an order executes between the
check and the act), `leg` (the legs are reported one after the other), `reject`,
`no_quote`. `SessionLoop` bounds exceptions, failed connects and scans, signals and crashes
together. `V9Pilot` bounds crashes; that an order is rejected, that its poll is given up, that
the cancel fails silently and that it executes afterwards is ordinary there. Whatever is not a fault is ordinary and always possible: fills, slow
fills, soft retries, the close reached anywhere, and a restart at any time of day.

## The checks

| run | question | instance |
|---|---|---|
| `day_faults` | do the row, the journal and the orders sent keep their contracts whatever fails? | one spread, four orders, three faults of any of the eleven kinds |
| `day_recovery` | does the recovery suffice for one position, and does the day end? | two spreads, four orders, three faults out of six kinds |
| `session_loop` | is every day attended, and do the gate, the breaker and the stale scan count right over days and processes? | five days in two months with a half day and a holiday, results of +1 and -1, a breaker at two errors, two faults |
| `stop_monitor` | do the timers, the arming and the replay of the journal work together? | 24 s of session, blind limit 10, grace 3, two reconnects of up to 3 s, two restarts |
| `entry_decision` | do the scans and the limits do what they should? | all chains of four strikes (5 and 10 wide) with quotes out of five, two probability limits, with a ratio of 0.1 or none |
| `research` | are the pilot's books and its debt right, and do the scripts compute what they are trusted for? | see below, one instance for each of the six programs |
| `double_fill`, `late_close`, `over_close`, `leg_out`, `reconnect`, `max_loss` | does a promise in the repository hold? It does not | as small as the counterexample allows |

**`day_faults`.** `LifecycleKept`: the row implements `SpreadLifecycle`, though two
of its writes have no condition. `NoReentry`: no sequence of retries, restarts and
adoptions leads to an entry once the date has a row. `CloseOnlyOpenRow`: a later
session does not fire a stop again. `StoppedMeansClosed`: a timed-out, rejected or
interrupted close leaves the row OPEN. `ArmedForGood`: a stop seen armed is armed in
every later process.

**`day_recovery`.** `AtMostOneFilledEntry` (I1 of `src/docs/strategy-review.md`),
`OneWorkingCombo`, `PositionHasRow`, `NoUnattendedEntry` and the liveness property
`DayEnds`. They are checked under the faults from which the code does recover:
crashes, shutdowns, exceptions before and after an effect, rejections, missing
quotes. They do *not* hold when an order executes between check and act
(`late_fill`), when the account's answers are wrong or missing (`query`, `cancel`,
`no_id`), or when legs are reported apart (`leg`): the run `double_fill` shows the first, the
hazard list in `PROJECT.json` names the others.

**`session_loop`.** `GateKept` (R9): no spread is bought in a month whose realised
results are negative, except that what the operator books while a session trades counts
from the next session on, as the gate is read once per session. `NoSessionForfeited`: a
start in mid-session or an error does not postpone to the next day. `OwnDateOnly`: a session
never settles or stops the row of another date. `StaleRowsReported`: every row an
earlier day left OPEN is reported, also over the end of a month. `BreakerRight`: the process gives up
exactly after the configured number of errors in a row. `ShutdownEnds` is its liveness property.

**`stop_monitor`.** `BlindnessBounded`: a position is never held without a price for
longer than the blind limit and one sentinel interval, or one blocked reconnect.
`FlattenOnlyWhenBlind`, `FiredOnlyAfterBreakeven`, `ArmedSurvives`, and
`MonitorReturns`.

**`entry_decision`.** `LongStrikeRight`, `ShortStrikeRight` compare the loops with
their rule stated without a loop. `WidestWhenArbitrageFree` says that the early
break of the upward scan loses nothing, if the bids admit no arbitrage; the
argument needs the result of the downward scan. `LimitLeavesProfit`,
`RatioAlmostKept` and `LossAlmostCapped` bound both limits by the width, the ratio
and the loss: exactly, to half a tick, and to a tick and a half.

**`research`.** One run, as the six programs share nothing but helpers; each initial state
starts one of them.

* Pilot: `CashCoversBuys` (what the account may owe, below), `BooksExplained` and `FillsKept` (what the
  rows may differ in from the account, after any crashes and abandoned orders), `PilotTypeOK`.
* Backtests: `LossBounded` (a condor loses no more than its risk; a bull call no more than the
  debit, or at a stop the debit and two half-spreads) and `MonthCapKept` (the monthly stop, the
  count of stopped months, which misses a month whose last trade reached the cap, and the
  drawdown, which starts at the first trade and so may miss its loss).
* Studies: `VerdictsAgree` (the frozen spec and the sweep, of the same trades), `NoLookAhead`
  (nothing a filter reads of the day or later changes what is traded) and `OverlayRight` (the
  monthly cap and the longest stretch under water, against their definitions without a loop).
* Momentum: `PicksAgree` (production and shadow pick alike, the simulation up to ties at the
  cut, and none reads a close it could not know).
* Carry: `CarryAccounted` (what a month may lose, on which day's ratio a day earns, and which
  flips are paid for).
* Gates: `PromotionRight` (what `PROMOTE` implies of the whole ledger, below).

*What the pilot may owe.* The plan is estimated with last-known prices and carried out with market
orders (`v9/execution.py:137`), which execute at the gateway's `avg_price`; `V9Fill` has a field
for the difference. So the cash may be negative although every order filled, and `CashCoversBuys`
says how far: by no more than what the fills of the running plan, and of the one before until the
running one is done, cost beyond the prices of their plans (`slipped`, `before`; a commission would
count as slippage). The debts of several plans do not add up, because a plan made for an account
that owes money sells as much more. And no sale is of shares that are not held. It is said of
histories that are `clean`: every order filled and was reported so, no process died, and no plan
was made for an account worth less than nothing, which would ask for a negative number of shares
(the pilot is to be halted at a loss of 25 per cent, `docs/STRATEGY-v9-paper-trading.md:20`). Without
either of the two allowances the bound is violated in this run, as it is when the plan rounds up or
lists its buys first.

*What a promotion says.* The holdout may be behind the benchmark, by five points of total return
and no more (`eval_v9_tvh_split.py:172`; the repository's report has v9 promoted at +17.27% against
+21.53%). The train slice of v9 must be ahead of it, that of v8 need not; the validation slice is not
compared. The instance promotes v8 and v9, also below the benchmark and at exactly five points. Each
part of `PromotionRight` depends on a rule of its own: without the streak rule, the worst-day
rule, the train rule of v9 or the drawdown over all rows, or with twice the tolerance, TLC finds
the property violated.

### Why the bounds are enough

* *Four orders* hold an entry, its retry, a close and one more (a second close, a
  flatten or another entry). The guards that name `MaxOrders` sit where the process
  decides to trade, so a bounded run never stops an order halfway.
* *Three faults* cover an interrupted effect, an interrupted recovery and one more
  in the session after that. The proofs lift both bounds for the safety properties of `day_faults`.
* *Two spreads* in `day_recovery`, because a retry may pick other strikes: a second
  fill may then hide behind the first. Every property of `day_faults` speaks of one row only.
* *Five days and two faults* in `session_loop`: three sessions before a month's end, the second on a half day, so that a loss of one session gates another and a row can be stale
  across the end of the month; two errors open the breaker, or one error and one success do not.
* *24 seconds* hold two outages of the full length, or a restart into an outage,
  before the late window; the blind limit of 10 leaves room for a third reconnect
  that the limit of two must prevent.
* *Four strikes* let both scans stop at either end or in the middle; the quotes include a
  debit of exactly the loss cap and one a tick below the width, whose ratio ceiling is no whole
  tick, and a probability limit that keeps the scan from going on to a wider spread.

* *Research.* The pilot has three tickers of which it holds two, one of them too dear for half
  of the account, two price tables, fills up to one unit off the price, capital for a remainder
  in every plan, two rebalances (so that one sells and buys), one crash and one tick of the
  clock, so that a restart falls within a timestamp or after it. Four backtest days, three in
  one month: the cap is reached by one trade, by two, or not at all, and the month after starts
  afresh; the last day meets 90 markets (spots on and off the grid, three vols, five
  settlements, stops armed at the entry or later, and bars too late to act on). Four study
  dates of six kinds in two months: a first row without a predecessor, a date without a close,
  an event. Three tickers over six months, one of them listed late. Five days of carry: the lag
  of two, a suspension, and the first day of the next month. A slippage of one unit, on prices
  of two to four, is 25 to 50 per cent, enough for a debt in the first plan that the second
  must pay; a third rebalance would meet no other debt, as `before` is back at zero when the
  second is done. Eleven rows make slices of six, two and three: six hold a losing streak of
  three that the drawdown of the train slice allows, three a holdout that gains in spite of two
  losses. The benchmarks are such that one holdout of v9 is behind the first by exactly five
  points and another behind the second by more.

### Fairness

`TradingDay`: weak fairness of `Process` (every call has a timeout, every poll a
budget), of `Restart` (systemd's `Restart=always`, the ASG) and of `Tick` (the wall
clock). No fairness is assumed of fills, position reports or faults, so `DayEnds`
holds also if nothing ever executes. `StopMonitor`: weak fairness of a round, whose poll
takes at most a second, and of the restart. `SessionLoop`: weak fairness of the process's
own steps, none of the clock or the restart, so a shutdown does not wait for a time of day. The safety runs use the specifications
without fairness. `Research` has none: the pilot promises no progress without its job, and the
scripts are loops over finite data.

`Done`, `Over`, `DayOver` and `CalendarOver` are stutters that mark the states in which the program
really stops or waits for the next day, so that TLC still reports every other
state without a successor as a deadlock. Only `research` does not check for deadlocks, as its
programs end.

## Where the code and its documents differ

| run | the document | the code |
|---|---|---|
| `double_fill` | `docs/strategy-review.md:997`, I1: no more than one filled spread per date and symbol | an entry that executes between its last poll and its cancel is reported unfilled, and the loop buys again |
| `late_close` | `strategy.py:497`: the settlement P&L is that of a spread held to cash settlement | a close that executes after its timeout leaves the row OPEN, and it is settled at that P&L |
| `over_close` | `cpapi/execution.py:220`: the next instance's reconcile adopts the resulting position | nothing looks at a position that is gone; after a crash before `record_close` the spread is sold twice |
| `leg_out` | `docs/strategy-review.md:1005`, I5: no entry attempt follows a leg-out | the flatten leaves no row, so a restart before the deadline enters again |
| `reconnect` | `config.py:240`: otherwise the bot would flatten before any reconnect | the check admits grace equal to the blind limit, and then it does |
| `max_loss` | `README.md:118`: hard cap on the loss per spread | the reprice adds a tick to a debit that was exactly at the cap |

The following have no run.

* `docs/strategy-review.md:400` disables entries for the rest of a month once its result was
  below zero "at any point"; the code sums the month again in every session, so a stale row that
  the operator later settles with a gain opens the gate again.
* The comment at `cpapi/execution.py:130` says a price never delivers less than the demanded
  ratio; the rounding after the clamp may cost half a tick (`RatioAlmostKept` is the bound that
  holds). And the second limit may be the unrounded ceiling, which is no whole tick.
* `docs/STRATEGY-v9-paper-trading.md:20` and `:128`: a halted pilot is never resumed, and a
  startup reconciles the positions. Neither is in the repository: `start_pilot` updates without
  a condition, and nothing compares rows and account. The model has what is there.
* `run_directional_edge_v1.py:282`: with a t-statistic of NaN (one trade, or
  equal ones) the comparison is false, and the verdict is "significant". `VerdictsAgree` says
  exactly when.
* `sweep_directional_edge.py:400` tells the reader to take candidates with the verdict
  `EDGE_PRESENT_AND_SIGNIFICANT`, which this script never writes.
* `sweep_gap_fade.py:132`: "the prior trading day's eow" is that of the previous row that was
  kept; a day without one of its two bars is skipped.
* `sim_sector_momentum.py:129` says that a ticker without a lookback is dropped; its months were
  dropped for all tickers before, so that this and `insufficient_universe` are never reached.
* `v9/signal.py:33`: the ranking is said to end with the prior month-end; with one month
  skipped it ends a month earlier, in all three implementations alike.
* `sim_vol_carry.py:4` says that the ratio of the day before decides on today's position; the
  return it earns is tomorrow's, a lag of two days, which `CarryAccounted` states.
* `eval_v9_tvh_split.py:245` says "cumulative state up to slice end"; the losing streak is
  counted within the slice, so that one across an end may be longer than the limit
  (`PromotionRight` has this exception).
* `risk_adjusted_metrics.py:132`: the overlay is said to stop a month whose return "drops below"
  the cap; the code (`:153`) stops it at the cap already, and so does the model.
* `sim_short_iron_condor.py:15`: the walk is said to check the combined probability of profit;
  the code checks it once, after both walks.

## The proofs

`TradingDay_proofs`, `SessionLoop_proofs`, `StopMonitor_proofs`, `EntryDecision_proofs`,
`V9Pilot_proofs`, `Backtest_proofs` and `Studies_proofs` (the edge studies, momentum, carry and
gates) hold them, `Figures_proofs` the lemmas on sums, sets in rising order and folds that the last
three rest on. Every safety and action property that a run finds to hold is a theorem. Unless a theorem
says otherwise they use the named assumptions of the modules only: sets of any size, any faults,
any bounds, every setting that `load_settings` accepts, every ascending chain of whole ticks.

**TradingDay.** `Invariance` proves the inductive invariant `IInv`. `TypeOK` and
`StoppedMeansClosed` are not inductive alone: that `record_close` may write STOPPED
depends on the process having seen a fill (`RecordsAFill`), which depends on the
awaited order being the close (`AwaitsTheClose`); that the settlement is legal
depends on the time it runs (`SettleAfterClose`) and on nobody else having closed the
row (`MonitoredOpen`); that an entry is legal depends on what was decided before the
loop (`EntryUnopened`). So `IInv` says what is known at each program point. The first
section reduces every step on the account to `OrdersKept`: no order disappears,
changes its kind or un-executes. From `IInv` follow `TypeCorrect`,
`StoppedRowsWereClosed`, the action properties `NoReentryEver` and
`ClosesOnlyOpenRows`, and `LifecycleImplemented`, the refinement of
`SpreadLifecycle`: the first state maps to its first state, and each action to `Open`,
`Stop`, `Settle`, `MarketCloses` or a stutter. `StopNeverDisarms` needs a second
invariant: an armed monitor has something in the journal or watches an adopted row,
and neither is ever taken back.

**TradingDay, the recovery.** `Recovery` proves `RInv` under the assumption `Recoverable`: none of
the five faults occurs from which the code does not recover (`no_id`, `query`, `cancel`,
`late_fill`, `leg`); crashes, shutdowns, exceptions before or after an effect, rejections and
missing quotes may come as often as they like. What the excluded
kinds break is in the run `double_fill` and in the hazard list. `RInv` must hold of a process that died as
well as of a live one, so its core is about the account alone: `BookShape` (at most one entry
that works or executed, at most one combo that works) and `BookMatches` (as long as there is no
row, the positions are exactly those of the executed entry, so the next process detects what
the last one bought). `OrderInHand` and `NothingLeft` say what the program counter adds: which
order the loop awaits, and where nothing works. From it and `IInv`: `OneFilledEntry`, `OneCombo`,
`PositionsHaveRows`, `NoEntryLeftBehind`, for any number of orders, faults and spreads.

**SessionLoop.** `IInv` says that a session and its back-off belong to the current date
(`SessionIsToday`), that a waiting process waits for the first session that is not over and
that no clock runs past it (`WaitsInTime`, where `_next_entry_time` enters), that the sum the
gate read is unchanged while the session may enter (`GateWasRead`: a repair ends a row the
sum did not contain), and that the count is the number of trailing errors of the remembered
outcomes (`ErrorsCounted`). From it: `StaleRowsAreReported`, `BreakerIsRight`, `OnlyOwnDate`,
`GateIsKept` and `NoneForfeited`, for every calendar, breaker limit and number of faults.

**StopMonitor.** `IInv` relates the three timers of a running monitor: the outage clock
starts at the last price or at most a second after the watch began, the last yield is recent, and a
yield that was not a price came before the blind limit; and it ties `armed` to the
journal. From it: `BlindnessIsBounded`, `FlattensOnlyWhenBlind`,
`FiresOnlyAfterBreakeven`, `ArmingSurvives`.

**EntryDecision.** `IInv` holds the loop invariants of the scans, their results and the
bounds of the limits. The prices rest on lemmas about rounding: at most half a tick
away, never past a whole tick it was below, and no change to a whole tick.
`LimitsLeaveProfit` is where the widths must be whole ticks. `EarlyBreakLosesNothing` follows from `IInv` without another induction.

**V9Pilot.** None of its invariants bounds the crashes. `BooksKept`: outside
`stray`, the account exceeds the rows by the order in hand, if it executed, and by nothing else;
this needs `CallKept`, where in the call an order can have executed. `KeysKept`: as long as no process
restarted within the timestamp of a fill, there are as many keys as fills, and the next number
is above all numbers of the current timestamp. From them: `BooksAreExplained`, `FillsAreKept`.
`PilotIsTyped` needs `InHand`: a call in the midst of an order has it at the head of the plan. `BuysAreCovered`,
for every distance between the prices of a plan and of its fills, follows from `CashKept`: while every
order filled, the orders still to execute lead to holdings that the account, lent what the fills of this
plan cost beyond its prices, can pay for at the prices of the plan; a fill takes no more from the
cash as it adds to the loan (`Traded`). When nothing is left to execute the loan of the plan before is not
needed any more (`PaidOff`). A plan starts so, because the target gives each of `HoldTopN`
tickers a whole number of shares for an equal part of the account's value (`GoalAfforded`), and its
head leaves it so, whoever executes it, because the sells come first (`FirstAfforded`). The sums
over the tickers may be taken in any order (`WorthAre`).

**Sums, drawdowns, rising sets.** `Figures` folds over sequences and sets, and the library
defines a fold by a recursive function. `SetSumsExist` and `FoldExists` prove that such a function
exists on a finite domain, by building it one size or one prefix at a time; after that a sum is what
it is without an order (`SetSumsAdd`, `SumAppend`, `SumChanged`, `SumConcat`), a running sum grows by
one result at a time (`UpToAre`), and a drawdown is the distance from the largest so far
(`DrawdownsAre`, `FallsNoDeeper`). `AscendingLists` proves that `Ascending`, which counts the smaller
members, lists all members of a finite set once, in rising order. The induction over prefixes is
`EveryPrefix`, over a set of numbers, because a theorem that takes a predicate cannot be applied.

**Backtest.** `LossIsBounded` needs no induction over days but the one on the ledger: a row is
never changed. The work is in the trades. `WalkEnds` and `WalkAwayViable` show that what a walk
returns has passed its test (the extremes of a bounded set of integers exist, by well-founded
induction on `<`); `CondorBounds` and `PayoffBounds` bound what the legs pay; `CallFalls` says
that the higher strike is worth less, whence a stop costs at most the half-spreads. The
assumption `Quoted` is about the data: spots are numbers and a sigma is no more than the index,
without which the put strike of v5 would be negative. `CapIsKept` uses `CapInv`: the result kept
for a month is the sum of its rows of the ledger, and a month is stopped when, and only when, its
rows have reached the cap; no row follows in it. That the report's drawdown, which does not start
at zero, misses no more than the first loss is `ZeroDeepens`.

**Edge studies.** `NoFilterLooksAhead`: the rows before a date, and so the close before it and
the last two moves of the bonds, are the same rows with the same closes when that date and later
ones bring other closes (`LaterRows`, `FiltersBlind`). `VerdictsDoAgree` goes through the three
ways a report comes about: that a fade negates the sum and keeps the spread (`NegatedFigures`), that
the sort of the candidates only moves them, and that each fired gap has one side.
`OverlayIsRight` uses `OverlayInv`: the ledger has a date and a number in each row, and figures exist
only of the ledger that is still there. `OverlayIs` is the loop over a month, by prefixes: as long
as the cap is not hit the sum is the running sum and nothing is skipped, then both stand still.
`CountedByLabel` adds the months up to the whole ledger. `LongestStretch` is the loop over the
drawdowns: what it carries is the length of a stretch that ends here, the longest closed one is the
length of some stretch, and neither is shorter than any stretch so far. The cap below zero, as the
script pins it, is an assumption of the module.

**Momentum.** `PicksDoAgree`: ranking by cross products is a total preorder of the tickers whose
closes are positive (`StrengthOrders`), each tie-break makes it a strict order, and the members of a
finite strict order with fewer than `TopN` before them are the first `TopN` (`FirstOfOrder`); two tie-breaks
can therefore differ only in tickers tied at the cut (`TopsDiffer`). A ticker that is listed
stays listed, an assumption about the data; so the months with a return are an interval
(`ReturnMonths`), and the row that the shadow finds by position is the month that production finds
by date. `MonthsInv` is the induction over the simulated months.

**VolCarry.** `CarryInv` writes the loop's variables as functions of the ledger (a suspension
holds until the month of its trigger is over) and each row as a function of the rows before it.
`CarryIsAccounted` assumes that the daily returns have a worst one, as a finite file has.

**SplitGates.** `PromotionIsRight` uses `SplitInv`: every slice that passed kept its own rules
(the streak of v9, the worst day of v8), and the last gate saw all rows so far, which are the
ledger. Hence the drawdown holds across slices, from row to row (`FallsNoDeeper`), and the streak
only within one (`RunOfSlice`, from the fold in `LongestRun`). What the gates compared with the
benchmark is kept in their results (`SlicePassed`), with the tolerance of the holdout.

**Only model-checked.** The liveness properties `DayEnds`, `MonitorReturns` and `ShutdownEnds`, which need
fairness and ENABLED and are out of the prover's reach. That medians and sorted medians are what
they are named for is in no property.

## Not modelled, and why

* In `TradingDay`, the count of consecutive errors: its `Backoff` may end the process or
  not (`SessionLoop` has the count). The heartbeat, which only logs.
* The gateway's authentication, configuration parsing, the calendar's rules, time zones, logs
  and the simulation: I/O, or pure functions of a library. The calendar's results (`clock`) and
  the settings' relations (the assumption of `StopMonitor`) are taken as given.
* Prices in `TradingDay`, the content of messages, floating point: limits are exact, and a
  price halfway between ticks may be rounded either way.
* `pop_bs` is any function that falls with the breakeven. In the backtests a Black-Scholes price
  is what exercise pays and a time value that is largest at the spot and gone a sigma away;
  probabilities are distances in sigmas; the vol at a stop is seven tenths of the entry's.
* Returns in `EdgeStudy` are thousandths, rounded down; in `SplitGates` they are steps of 10/9
  (totals are compared with the benchmark's by what a million becomes, whole units, where five
  points are 50000), in `VolCarry` logarithms, so that they add up. A NaN is a case of its own: it
  compares false, as it does in the code. P-values, confidence intervals and the text of the
  reports are left out.
* DynamoDB reads return what was written.
* Of the pilot: an order executes whole, at one average price, or not at all; the NAV
  snapshots, which nothing reads back, and `contracts.py`, a lookup of contract ids. The job
  that calls the library is not in the repository: the order of the calls is an assumption of
  the model, and no property forbids what only the job could prevent.
* Of the research: `aggregate_metrics` of momentum and carry (statistics of a finished ledger),
  `combine_v8_v9.py` and `sim_spy_dca.py` (a weighted sum and a running product without a
  decision), the downloads, generators, cost estimates and the upload (I/O).
* The infrastructure: declarations. Only systemd's `Restart=always` is used.

## Plan

Done, in this order: `Broker`, `SpreadLifecycle`, `TradingDay`, `StopMonitor`, `EntryDecision`,
`SessionLoop` with their proofs; the recovery of `TradingDay` as theorems; `V9Pilot` and the
research modules; the proofs about all of them, so that only liveness is left to the runs.

What would add most from here:

1. A refinement that connects the modules: `StopMonitor` as an implementation of the
   monitor's part of `TradingDay`, and `TradingDay` as one session of `SessionLoop`. Until then
   the abstraction is argued above, and each module is checked with every behaviour the more
   abstract ones allow.
2. The operators of `Figures` and `SpreadTrades` against reference definitions: the median, the
   walks over the chain.
3. When the job that drives the pilot enters the repository: its schedule, its halt rules and
   the reconciliation on startup, on top of `V9Pilot`.
