---------------------------- MODULE Backtest ----------------------------
(***************************************************************************)
(* The day loop of the three option backtests (run_simulation of           *)
(* sim_iron_condor, sim_bull_call_strategy and sim_short_iron_condor), the *)
(* ledger it writes and the figures that aggregate_metrics reports.        *)
(***************************************************************************)
EXTENDS SpreadTrades, Figures

CONSTANTS
    MonthOf,    \* the month of each trading day
    Markets,    \* the markets each day may meet
    MonthlyCap  \* monthly_max_loss_usd

ASSUME BacktestAssumption ==
    /\ MonthOf \in Seq(Nat) /\ \A i, j \in DOMAIN MonthOf : i < j => MonthOf[i] <= MonthOf[j]
    /\ DOMAIN Markets = DOMAIN MonthOf
    /\ MonthlyCap \in Nat \ {0}

VARIABLES
    strategy,   \* "v5", "v6" or "v7"; "none" when another script runs
    day,        \* the day the loop is at
    ledger,     \* results: one row for each day the loop has seen
    monthlyPnl, \* monthly_pnl
    stopped,    \* monthly_stopped
    today       \* the market of the last day traded

backtest == <<strategy, day, ledger, monthlyPnl, stopped, today>>

Days == DOMAIN MonthOf
Month == MonthOf[day]

BacktestIdle ==
    /\ strategy = "none" /\ day = 1 /\ ledger = <<>> /\ monthlyPnl = <<>>
    /\ stopped = {} /\ today = <<>>
BacktestInit ==
    /\ strategy \in {"v5", "v6", "v7"} /\ day = 1 /\ ledger = <<>>
    /\ monthlyPnl = <<>> /\ stopped = {} /\ today = <<>>

-------------------------------------------------------------------------
Running == strategy # "none" /\ day \in Days
Write(result) == ledger' = Append(ledger, [month |-> Month, result |-> result])
NextDay == day' = day + 1 /\ UNCHANGED strategy
Keep == UNCHANGED <<monthlyPnl, stopped, today>>

\* The day is in the event calendar.
EventDay ==
    /\ Running /\ Write(Skipped("event_day")) /\ NextDay /\ Keep

MonthStopped == Month \in stopped
MonthlyStop ==
    /\ Running /\ MonthStopped
    /\ Write(Skipped("monthly_stop")) /\ NextDay /\ Keep

\* The first days of the VIX data have no prior close: extract_daily_data of v5 drops
\* them, the others write a row.
NoPriorVix ==
    /\ Running
    /\ \/ strategy = "v5" /\ UNCHANGED ledger
       \/ strategy # "v5" /\ ~MonthStopped /\ Write(Skipped("no_prior_vix"))
    /\ NextDay /\ Keep

\* extract_per_day_data: half-days, and days without a bar at the entry or at the
\* settlement, are no days of the loop.
NoBars == Running /\ NextDay /\ UNCHANGED ledger /\ Keep

SimulateOneDay(m) ==
    CASE strategy = "v5" -> SigmaCondorTrade(m)
      [] strategy = "v6" -> BullCallTrade(m)
      [] strategy = "v7" -> GridCondorTrade(m)

MonthPnl == IF Month \in DOMAIN monthlyPnl THEN monthlyPnl[Month] ELSE 0
CapOnDay(total) == total - MonthPnl <= -MonthlyCap   \* variant: the day alone
CapHit(total) == total <= -MonthlyCap
TradeDay ==
    /\ Running /\ ~MonthStopped
    /\ \E m \in Markets[day] :
          LET trade == SimulateOneDay(m)
              total == MonthPnl + trade.pnl
          IN  /\ Write(trade) /\ today' = m
              /\ IF trade.skip # "" THEN UNCHANGED <<monthlyPnl, stopped>>
                 ELSE /\ monthlyPnl' = [mo \in DOMAIN monthlyPnl \cup {Month} |->
                                            IF mo = Month THEN total ELSE monthlyPnl[mo]]
                      /\ stopped' = IF CapHit(total) THEN stopped \cup {Month} ELSE stopped
    /\ NextDay

BacktestNext == EventDay \/ MonthlyStop \/ NoPriorVix \/ NoBars \/ TradeDay

-------------------------------------------------------------------------
\* aggregate_metrics.

Traded == At(ledger, {i \in DOMAIN ledger : ledger[i].result.skip = ""})
Pnls(rows) == [i \in DOMAIN rows |-> rows[i].result.pnl]
MaxDrawdown == DeepestDrawdown(Pnls(Traded))

\* The months of the rows skipped for the cap.
StoppedMonths == {row.month : row \in {r \in ToSet(ledger) : r.result.skip = "monthly_stop"}}
SkipCounts(reason) == Cardinality({i \in DOMAIN ledger : ledger[i].result.skip = reason})
WinningMonths == {mo \in DOMAIN monthlyPnl : monthlyPnl[mo] > 0}

-------------------------------------------------------------------------
LastTrade == ledger[Len(ledger)].result
HasTrade == ledger # <<>> /\ LastTrade.skip = ""

\* "The wing widths bound per-trade loss" (v5, v7); a bull call loses no more than its
\* debit at expiry, and no more than the debit and two half-spreads at a stop.
LossBounded ==
    HasTrade =>
        IF strategy # "v6" THEN LastTrade.pnl >= -LastTrade.risk
        ELSE LET t == LastTrade
                 spot == today.bars[t.stop].spot
                 half(K) == HalfSpread(BsCallPrice(K, spot, StopVol(today)), K, spot)
             IN  /\ t.debit <= MaxLoss
                 /\ t.pnl + t.debit >= IF t.stop = 0 THEN 0 ELSE -(half(t.long) + half(t.short))
                 /\ t.stop = 0 => t.pnl + t.debit <= t.short - t.long

\* The monthly result is the sum of the month's trades; a month trades until its result
\* has reached the cap and not afterwards; the report counts the stopped months but for
\* those whose last row is the trade that reached the cap, and its drawdown is short of
\* the real one by no more than what the first trade lost.
RowsOf(mo) == At(ledger, {i \in DOMAIN ledger : ledger[i].month = mo})
CappedAfter(mo, i) == UpTo(Pnls(RowsOf(mo)), i) <= -MonthlyCap
TrueDrawdown == DeepestDrawdown(<<0>> \o Pnls(Traded))

MonthCapKept ==
    LET months == {row.month : row \in ToSet(ledger)}
        capped == {mo \in months : \E i \in DOMAIN RowsOf(mo) : CappedAfter(mo, i)}
    IN  /\ \A mo \in DOMAIN monthlyPnl : monthlyPnl[mo] = SumSeq(Pnls(RowsOf(mo)))
        /\ \A mo \in months : \A i, j \in DOMAIN RowsOf(mo) :
              i < j /\ CappedAfter(mo, i) =>
                  RowsOf(mo)[j].result.skip \in {"monthly_stop", "event_day"}
        /\ stopped = capped
        /\ StoppedMonths = {mo \in capped : "monthly_stop" \in
                                {row.result.skip : row \in ToSet(RowsOf(mo))}}
        /\ TrueDrawdown <= MaxDrawdown
        /\ Traded = <<>> \/ MaxDrawdown <= TrueDrawdown - Lesser(0, Traded[1].result.pnl)
=======================================================================
