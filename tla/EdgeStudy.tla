--------------------------- MODULE EdgeStudy ---------------------------
(***************************************************************************)
(* The studies of an edge in one index: run_directional_edge_v1 and the    *)
(* sweep of its parameters, the sweep of gap fades, the risk figures of a  *)
(* ledger and the test of realized against implied moves.                  *)
(*                                                                         *)
(* A day is a record: priced, a full trading day with a bar at each of    *)
(* the target times; event, it is in the event calendar; open, signal and  *)
(* eow, its prices; vix and bond, the daily closes, 0 when that data has   *)
(* no row for the date.  Returns are in thousandths, rounded down.         *)
(***************************************************************************)
EXTENDS Figures, FiniteSetsExt

CONSTANTS
    DayKinds,       \* what a day may be
    EdgeMonth,      \* the month of each date; its domain is the dates
    Specs,          \* the spec and the options of run
    VixThreshold,   \* prior_vix_threshold, as the frozen spec pins it
    Thresholds,     \* the grid of signal thresholds, and of gaps
    CapThreshold    \* cap_threshold

ASSUME EdgeAssumption ==
    /\ EdgeMonth \in Seq(Nat)
    /\ CapThreshold \in Int /\ CapThreshold < 0 /\ VixThreshold \in Nat \ {0}
    /\ Thresholds \in Seq(Nat \ {0})
    /\ DayKinds \subseteq [priced : BOOLEAN, event : BOOLEAN, open : Nat \ {0},
                           signal : Nat \ {0}, eow : Nat \ {0}, vix : Nat, bond : Nat]
    /\ Specs \subseteq [window : SUBSET DOMAIN EdgeMonth, events : BOOLEAN,
                        band : {"none", "low", "high"}, bonds : {"none", "up", "down"},
                        threshold : Int, direction : STRING]

VARIABLES
    days,       \* the data of every date
    study,      \* "calendar" or "idle" before a study, then its name
    spec,       \* the spec and options of the study
    report,     \* what the study reports
    trades,     \* the ledger it leaves, for the figures
    risk        \* RiskMetrics; NoRisk before

edgeStudy == <<days, study, spec, report, trades, risk>>

NoRisk == [n |-> 0]
Dates == DOMAIN EdgeMonth
EdgeStart(s) ==
    /\ study = s /\ spec = <<>> /\ report = <<>> /\ trades = <<>> /\ risk = NoRisk
EdgeIdle == EdgeStart("idle") /\ days = <<>>
EdgeInit == EdgeStart("calendar") /\ days \in [Dates -> DayKinds]

-------------------------------------------------------------------------
\* The filters of the calendar.

\* Each date of the data has the close of the row before it; the first has none.
RowsBefore(data, d) == {e \in Dates : e < d /\ data[e].vix # 0}
HasPriorVix(data, d) == data[d].vix # 0 /\ RowsBefore(data, d) # {}
SameDayVix(data, d) == data[d].vix   \* variant: the close of the day itself
PriorVix(data, d) == data[Max(RowsBefore(data, d))].vix

TwiceMedianPriorVix(data, w) ==
    LET ds == {d \in w : HasPriorVix(data, d)}
    IN  TwiceMedian([i \in 1..Cardinality(ds) |-> PriorVix(data, Ascending(ds)[i])])

InVixBand(data, band, median, d) ==
    /\ HasPriorVix(data, d)
    /\ IF band = "low" THEN 2 * PriorVix(data, d) < median
                       ELSE 2 * PriorVix(data, d) >= median

\* The sign of the last two closes before the date.
BondRows(data, d) == Ascending({e \in Dates : e < d /\ data[e].bond # 0})
BondMove(data, d) ==
    LET rows == BondRows(data, d)
        n == Len(rows)
    IN  IF data[d].bond = 0 \/ n < 2 THEN 0
        ELSE data[rows[n]].bond - data[rows[n - 1]].bond
InBondDirection(data, direction, d) ==
    IF direction = "up" THEN BondMove(data, d) > 0 ELSE BondMove(data, d) < 0

\* A filter that the spec or the candidate does not ask for keeps every date.
Filtered(data, cal, s, median) ==
    {d \in cal : /\ s.events => ~data[d].event
                 /\ s.band # "none" => InVixBand(data, s.band, median, d)
                 /\ s.bonds # "none" => InBondDirection(data, s.bonds, d)}

-------------------------------------------------------------------------
\* The ledger.

\* The return from b to a.
Return(a, b) == (1000 * (a - b)) \div b

\* extract_intraday_prices: full trading days with a bar at every target time.
ExtractPrices(data, cal) == Ascending({d \in cal : data[d].priced})

\* compute_ledger, of the days that entered.
Entered(data, rows, threshold) ==
    At(rows, {i \in DOMAIN rows : Return(data[rows[i]].signal, data[rows[i]].open) >= threshold})
ForwardReturns(data, rows) ==
    [i \in DOMAIN rows |-> Return(data[rows[i]].eow, data[rows[i]].signal)]
Negated(s) == [i \in DOMAIN s |-> -s[i]]

\* The verdicts: a t-statistic that does not exist compares false with everything.
SimpleVerdict(s) == IF SumSeq(s) > 0 THEN "EDGE_PRESENT" ELSE "NO_EDGE"
OneSidedT(s) == HasT(s) /\ SumSeq(s) > 0 /\ TwoOrMore(s)   \* variant: without abs
StrongT(s) == HasT(s) /\ TwoOrMore(s)
WeakT(s) == HasT(s) /\ ~TwoOrMore(s)
SpecVerdict(s) ==
    IF SimpleVerdict(s) = "NO_EDGE" THEN "NO_EDGE"
    ELSE IF WeakT(s) THEN "EDGE_INCONCLUSIVE" ELSE "EDGE_PRESENT_AND_SIGNIFICANT"
SweepVerdict(s, up, down) ==
    IF StrongT(s) THEN (IF SumSeq(s) > 0 THEN up ELSE down)
    ELSE IF SimpleVerdict(s) = "EDGE_PRESENT" THEN "EDGE_INCONCLUSIVE" ELSE "NO_EDGE"

-------------------------------------------------------------------------
\* The studies.

Report(name, r, rows) ==
    /\ study' = name /\ report' = r /\ trades' = rows
    /\ UNCHANGED <<days, risk>>

\* run, with a frozen spec.  Its three errors end the study without a report.
RunSpec(s) ==
    LET rows == ExtractPrices(days, Filtered(days, s.window, s, 2 * VixThreshold))
        entered == Entered(days, rows, s.threshold)
        raw == ForwardReturns(days, entered)
        returns == IF s.direction = "fade" THEN Negated(raw) ELSE raw
        failed == IF rows = <<>> THEN "no_days"
                  ELSE IF s.direction \notin {"long", "fade"} THEN "unknown_direction"
                  ELSE IF entered = <<>> THEN "no_signals" ELSE ""
    IN  /\ spec' = s
        /\ IF failed # "" THEN Report("spec", [error |-> failed], <<>>)
           ELSE Report("spec",
                       [error |-> "", verdict |-> SpecVerdict(returns),
                        entered |-> Len(entered), skipped |-> Len(rows) - Len(entered)],
                       [i \in DOMAIN entered |-> [date |-> entered[i], ret |-> returns[i]]])

\* sweep: a row for each candidate that entered twice, by falling |t|.
SweepRow(cal, candidate, median) ==
    LET rows == ExtractPrices(days, Filtered(days, cal, candidate, median))
        returns == ForwardReturns(days, Entered(days, rows, candidate.threshold))
    IN  [candidate |-> candidate, returns |-> returns,
         verdict |-> SweepVerdict(returns, "EDGE_PRESENT_CONTINUATION",
                                  "EDGE_PRESENT_MEAN_REVERSION")]
LargerT(r1, r2) ==
    LET square(s) == SumSeq(s) * SumSeq(s) * (Len(s) - 1)
    IN  square(r1.returns) * Spread(r2.returns) > square(r2.returns) * Spread(r1.returns)

\* sort keeps the order of rows that compare equal; with the comparisons of NaN the rows
\* come out in any order.
InOrder(rows, order) ==
    \A i, j \in DOMAIN rows : i < j =>
        LET r == rows[order[i]]
            q == rows[order[j]]
        IN  LargerT(r, q) \/ (~LargerT(q, r) /\ order[i] < order[j])
Rankings(rows) ==
    {[i \in DOMAIN rows |-> rows[order[i]]] :
        order \in {o \in Bijection(DOMAIN rows, DOMAIN rows) :
                      (\A r \in ToSet(rows) : HasT(r.returns)) => InOrder(rows, o)}}

\* The candidates that entered twice.
Twice(rows) == At(rows, {i \in DOMAIN rows : Len(rows[i].returns) >= 2})

SweepCandidates(s) ==
    LET bands == IF s.band = "none" THEN <<"none">> ELSE <<"low", "high">>
        moves == IF s.bonds = "none" THEN <<"none">> ELSE <<"up", "down">>
        candidate(t, move, band) == [s EXCEPT !.threshold = t, !.bonds = move, !.band = band]
        b == Len(bands)
        mb == Len(moves) * b
    IN  [k \in 1..Len(Thresholds) * mb |->
            candidate(Thresholds[(k - 1) \div mb + 1],
                      moves[((k - 1) % mb) \div b + 1], bands[((k - 1) % b) + 1])]

Sweep(s) ==
    LET candidates == SweepCandidates(s)
        median == TwiceMedianPriorVix(days, s.window)
        rows == [i \in DOMAIN candidates |-> SweepRow(s.window, candidates[i], median)]
        kept == Twice(rows)
    IN  /\ s.band # "none" => \E d \in s.window : HasPriorVix(days, d)
        /\ spec' = s
        /\ \E ranking \in Rankings(kept) : Report("sweep", ranking, <<>>)

-------------------------------------------------------------------------
\* sweep_gap_fade: the close before is the close of the row before, which is not the
\* day before when that one has no row.
GapRows ==
    LET rows == ExtractPrices(days, Dates)
    IN  [i \in 1..Len(rows) - 1 |->
            [date |-> rows[i + 1],
             gap |-> Return(days[rows[i + 1]].open, days[rows[i]].eow),
             forward |-> Return(days[rows[i + 1]].eow, days[rows[i + 1]].open)]]
Side(gap) == IF gap > 0 THEN 1 ELSE IF gap < 0 THEN -1 ELSE 0
FadePnl(row) == -Side(row.gap) * row.forward

GapRow(rows, threshold) ==
    LET fired == At(rows, {i \in DOMAIN rows :
                              rows[i].gap >= threshold \/ rows[i].gap <= -threshold})
        pnl == [i \in DOMAIN fired |-> FadePnl(fired[i])]
    IN  [threshold |-> threshold, returns |-> pnl,
         up |-> Cardinality({i \in DOMAIN fired : fired[i].gap > 0}),
         down |-> Cardinality({i \in DOMAIN fired : fired[i].gap < 0}),
         verdict |-> SweepVerdict(pnl, "EDGE_PRESENT_FADE_WORKS",
                                  "EDGE_PRESENT_FADE_BACKFIRES")]

SweepGaps(s) ==
    LET dates == Filtered(days, s.window, [s EXCEPT !.band = "none", !.bonds = "none"], 0)
        data == At(GapRows, {i \in DOMAIN GapRows : GapRows[i].date \in dates})
        rows == [i \in DOMAIN Thresholds |-> GapRow(data, Thresholds[i])]
        kept == Twice(rows)
    IN  /\ spec' = s
        /\ \E ranking \in Rankings(kept) : Report("gaps", ranking, <<>>)

-------------------------------------------------------------------------
\* test_realized_vs_implied_vol: the move of a day in hundredths of what the prior VIX
\* implies for it (a VIX of 16 implies a little more than one per cent).
ImpliedMove(d) == (63 * PriorVix(days, d)) \div 10
Ratio(d) ==
    LET move == Return(days[d].eow, days[d].open)
    IN  (100 * Max({move, -move})) \div ImpliedMove(d)

RatioVerdict(s) ==
    LET overOne == [i \in DOMAIN s |-> s[i] - 100]   \* the t-statistic is against 1
    IN  IF SumSeq(overOne) >= 0 THEN "NO_VOL_PREMIUM_OR_INVERTED"
        ELSE IF HasT(overOne) /\ TwoOrMore(overOne) THEN "VOL_PREMIUM_EXISTS"
        ELSE "VOL_PREMIUM_LIKELY"

RealizedVsImplied ==
    LET rows == ExtractPrices(days, {d \in Dates : HasPriorVix(days, d)})
        ratios == [i \in DOMAIN rows |-> Ratio(rows[i])]
    IN  /\ UNCHANGED spec
        /\ Report("ratios", IF rows = <<>> THEN [error |-> "no_data"]
                            ELSE [error |-> "", verdict |-> RatioVerdict(ratios)], <<>>)

-------------------------------------------------------------------------
\* risk_adjusted_metrics, of the ledger of a spec.

MonthsTraded == {EdgeMonth[t.date] : t \in ToSet(trades)}
InMonth(mo) == At(trades, {i \in DOMAIN trades : EdgeMonth[trades[i].date] = mo})
ReturnsOf(rows) == [i \in DOMAIN rows |-> rows[i].ret]
Total(f) == FoldFunction(LAMBDA a, b : a + b, 0, f)

\* The overlay walks each month and trades until its sum is at the cap.
CapPassed(sum) == sum < CapThreshold   \* variant: only below the cap
CapReached(sum) == sum <= CapThreshold
OverlayStep(acc, ret) ==
    IF acc.hit THEN [acc EXCEPT !.skipped = @ + 1]
    ELSE [acc EXCEPT !.sum = @ + ret, !.hit = CapReached(acc.sum + ret)]
OverlayMonth(mo) ==
    FoldLeft(OverlayStep, [sum |-> 0, skipped |-> 0, hit |-> FALSE], ReturnsOf(InMonth(mo)))

\* The loop over the drawdowns: the run it is in, and the longest it has closed.
DdStep(acc, dd) ==
    IF dd < 0 THEN [acc EXCEPT !.run = @ + 1]
    ELSE [run |-> 0, longest |-> Max({acc.longest, acc.run})]
DrawdownDuration(s) ==
    LET acc == FoldLeft(DdStep, [run |-> 0, longest |-> 0], Drawdowns(s))
    IN  Max({acc.longest, acc.run})

ComputeMetrics ==
    LET over == [mo \in MonthsTraded |-> OverlayMonth(mo)]
        sums == [mo \in MonthsTraded |-> SumSeq(ReturnsOf(InMonth(mo)))]
    IN  /\ study = "spec" /\ trades # <<>> /\ risk = NoRisk
        /\ risk' = [n |-> Len(trades),
                    drawdown |-> DeepestDrawdown(ReturnsOf(trades)),
                    duration |-> DrawdownDuration(ReturnsOf(trades)),
                    worst |-> Min({sums[mo] : mo \in MonthsTraded}),
                    negative |-> Cardinality({mo \in MonthsTraded : sums[mo] < 0}),
                    capped |-> Total([mo \in MonthsTraded |-> over[mo].sum]),
                    skipped |-> Total([mo \in MonthsTraded |-> over[mo].skipped]),
                    hit |-> Cardinality({mo \in MonthsTraded : over[mo].hit})]
        /\ UNCHANGED <<days, study, spec, report, trades>>

EdgeNext ==
    \/ study = "calendar" /\ \E s \in Specs : RunSpec(s) \/ Sweep(s) \/ SweepGaps(s)
    \/ study = "calendar" /\ RealizedVsImplied
    \/ ComputeMetrics

-------------------------------------------------------------------------
\* The two studies of the signal judge alike: the report of a spec says significant when
\* the sweep says so of the same trades, in the direction that the spec trades; and it
\* says so of trades that have no t-statistic at all, when their mean is positive.  A
\* fade has a side on every day it counts.
Significant(s) == Len(s) > 1 /\ Spread(s) > 0 /\ SumSeq(s) > 0 /\ TwoOrMore(s)
VerdictsAgree ==
    /\ study = "spec" /\ report.error = "" =>
          LET s == ReturnsOf(trades)
              forward == IF spec.direction = "fade" THEN Negated(s) ELSE s
              swept == SweepVerdict(forward, "long", "fade")
          IN  report.verdict = "EDGE_PRESENT_AND_SIGNIFICANT" <=>
                 IF HasT(s) THEN swept = spec.direction ELSE SumSeq(s) > 0
    /\ study = "sweep" => \A i \in DOMAIN report :
          (report[i].verdict = "EDGE_PRESENT_CONTINUATION") = Significant(report[i].returns)
    /\ study = "gaps" => \A i \in DOMAIN report :
          report[i].up + report[i].down = Len(report[i].returns)

\* No filter looks ahead: which dates a frozen spec trades does not depend on the closes
\* of the VIX and of the bonds on that date or later.
Later(d, close) ==
    [e \in Dates |-> IF e < d THEN days[e]
                     ELSE [days[e] EXCEPT !.vix = IF @ = 0 THEN 0 ELSE close,
                                          !.bond = IF @ = 0 THEN 0 ELSE close]]
NoLookAhead ==
    study = "spec" =>
        \A d \in spec.window, close \in {1, 2 * VixThreshold} :
            d \in Filtered(days, spec.window, spec, 2 * VixThreshold)
                <=> d \in Filtered(Later(d, close), spec.window, spec, 2 * VixThreshold)

\* The overlay counts, of each month, the shortest run of trades that reaches the cap;
\* the duration is that of the longest unbroken stretch below the peak.
CappedAt(mo) ==
    {i \in DOMAIN InMonth(mo) : UpTo(ReturnsOf(InMonth(mo)), i) <= CapThreshold}
Counted(mo) == IF CappedAt(mo) = {} THEN Len(InMonth(mo)) ELSE Min(CappedAt(mo))
Underwater(s, i, j) == \A k \in i..j : Drawdowns(s)[k] < 0
OverlayRight ==
    risk.n # 0 =>
        LET s == ReturnsOf(trades)
        IN  /\ risk.capped = Total([mo \in MonthsTraded |->
                                       UpTo(ReturnsOf(InMonth(mo)), Counted(mo))])
            /\ risk.n - risk.skipped = Total([mo \in MonthsTraded |-> Counted(mo)])
            /\ risk.hit = Cardinality({mo \in MonthsTraded : CappedAt(mo) # {}})
            /\ \A i, j \in DOMAIN s : i <= j /\ Underwater(s, i, j) => j - i + 1 <= risk.duration
            /\ risk.duration # 0 => \E i, j \in DOMAIN s :
                                       Underwater(s, i, j) /\ j - i + 1 = risk.duration
=======================================================================
