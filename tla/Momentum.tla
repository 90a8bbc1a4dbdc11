---------------------------- MODULE Momentum ----------------------------
(***************************************************************************)
(* The sector momentum signal in its three forms: the production signal    *)
(* (bull_call.v9.signal), its shadow (bull_call.v9.shadow) and the monthly *)
(* simulation whose verdict the pilot rests on (sim_sector_momentum).      *)
(* Tickers are numbered in alphabetical order; a close of 0 means that the *)
(* ticker is not listed yet.                                               *)
(***************************************************************************)
EXTENDS Figures, FiniteSetsExt

CONSTANTS
    ClosePaths,     \* the month-end closes a ticker may have
    Months,         \* the number of months of data
    Column,         \* the universe, in the order of its columns
    Benchmark,      \* the first month with a close of the benchmark
    Lookback, Skip, \* lookback_months, skip_recent_months
    TopN            \* hold_top_n

\* A ticker that is listed stays listed.
ASSUME MomentumAssumption ==
    /\ Months \in Nat /\ ClosePaths \subseteq [1..Months -> Nat]
    /\ \A path \in ClosePaths : \A i, k \in 1..Months : i < k /\ path[i] > 0 => path[k] > 0
    /\ Column \in Seq(Nat) /\ IsInjective(Column) /\ Benchmark \in 1..Months
    /\ Lookback \in Nat /\ Skip \in 0..Lookback - 1 /\ TopN \in 1..Len(Column)

VARIABLES
    closes,     \* the closes of each ticker
    index,      \* i, the row of monthly_returns the loop is at
    months,     \* the ledger
    prior       \* prior_holdings

momentum == <<closes, index, months, prior>>

Universe == ToSet(Column)
MomentumStart == index = 1 /\ months = <<>> /\ prior = {}
MomentumIdle == closes = <<>> /\ MomentumStart
MomentumInit == closes \in [Universe -> ClosePaths] /\ MomentumStart

-------------------------------------------------------------------------
\* pct_change().dropna(): the months in which every ticker has a return.  One that is
\* not listed yet takes the month from all of them.
Listed(data, m) == \A t \in Universe : data[t][m] > 0
MonthlyReturns(data) == {m \in 2..Months : Listed(data, m - 1) /\ Listed(data, m)}
SimReturns(data) == {m \in MonthlyReturns(data) : m > Benchmark}
RowOf(rows, i) == Ascending(rows)[i]

\* _lookback_return, at the row of month m: the closes that its product of returns
\* leaves, the last over the first.
Compounds(rows, m) == Cardinality({r \in rows : r < m}) >= Lookback
NoSkip(m) == m - 1   \* variant: the recent months are not left out
LastClose(m) == m - Skip - 1
FirstClose(m) == m - Lookback - 1
Stronger(data, m, t, u) ==
    data[t][LastClose(m)] * data[u][FirstClose(m)]
        > data[u][LastClose(m)] * data[t][FirstClose(m)]
Tied(data, m, t, u) == ~Stronger(data, m, t, u) /\ ~Stronger(data, m, u, t)

\* The strongest TopN; of a tie, the one with the lower rank.
Strongest(data, m, rank) ==
    {t \in Universe :
        Cardinality({u \in Universe : \/ Stronger(data, m, u, t)
                                      \/ Tied(data, m, u, t) /\ rank[u] < rank[t]}) < TopN}
Alphabetical == [t \in Universe |-> t]
InColumnOrder == [t \in Universe |-> CHOOSE i \in DOMAIN Column : Column[i] = t]

\* compute_target_portfolio at the last month-end m; the empty set for None.
ComputeTargetPortfolio(data, m) ==
    LET rows == {r \in MonthlyReturns(data) : r <= m}
    IN  IF rows = {} THEN {}
        ELSE IF Compounds(rows, Max(rows)) THEN Strongest(data, Max(rows), Alphabetical) ELSE {}

\* research_top_n, the shadow: the helpers of the simulation, the tie-break of production.
ResearchTopN(data, m) ==
    LET rows == MonthlyReturns(data)
        eligible == {r \in rows : r <= m}
    IN  IF eligible = {} \/ ~Compounds(rows, Max(eligible)) THEN {}
        ELSE Strongest(data, Max(eligible), Alphabetical)

-------------------------------------------------------------------------
\* simulate, one row of monthly_returns.
HoldingsChanged(held) == held # prior
SimulateMonth ==
    LET rows == SimReturns(closes)
        m == RowOf(rows, index)
        top == Strongest(closes, m, InColumnOrder)
        skipped(reason, held) ==
            /\ months' = Append(months, [decided |-> m, month |-> m, skip |-> reason,
                                         held |-> held, slippage |-> FALSE])
            /\ UNCHANGED prior
    IN  /\ index \in 1..Cardinality(rows)
        /\ IF ~Compounds(rows, m) THEN skipped("insufficient_lookback", {})
           ELSE IF index = Cardinality(rows) THEN skipped("no_forward_return", top)
           ELSE /\ months' = Append(months, [decided |-> m, month |-> RowOf(rows, index + 1),
                                             skip |-> "", held |-> top,
                                             slippage |-> HoldingsChanged(top)])
                /\ prior' = top
        /\ index' = index + 1
        /\ UNCHANGED closes

MomentumNext == closes # <<>> /\ SimulateMonth

-------------------------------------------------------------------------
\* What the pilot trades is what was tested: the shadow and the production signal pick
\* alike, and like the simulation but for tickers that tie at the cut.  The picks do not
\* change with what is known after the month before the recent ones.  The simulation
\* earns with them the month after the decision, each month once, and pays slippage when
\* the holdings are not those of the month before.
TiedAtTheCut(m, t) ==
    \E u \in Universe : u # t /\ Tied(closes, m, t, u)
                        /\ (u \in Strongest(closes, m, InColumnOrder)) #
                           (t \in Strongest(closes, m, InColumnOrder))
Forgotten(m) ==
    [t \in Universe |-> [k \in 1..Months |-> IF k < m - Skip THEN closes[t][k]
                                             ELSE IF closes[t][k] = 0 THEN 0 ELSE 1]]
PicksAgree ==
    months # <<>> =>
        LET row == Last(months)
            live == ComputeTargetPortfolio(closes, row.decided)
            n == Len(months)
        IN  /\ live = ResearchTopN(closes, row.decided)
            /\ live = ComputeTargetPortfolio(Forgotten(row.decided), row.decided)
            /\ row.held # {} => \A t \in SymDiff(live, row.held) : TiedAtTheCut(row.decided, t)
            /\ row.held # {} => Cardinality(live) = TopN
            /\ row.skip = "" => row.month = row.decided + 1
            /\ row.skip = "" /\ n > 1 /\ months[n - 1].skip = "" =>
                  /\ row.month = months[n - 1].month + 1
                  /\ row.slippage = (row.held # months[n - 1].held)
=======================================================================
