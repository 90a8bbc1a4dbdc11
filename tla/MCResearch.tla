--------------------------- MODULE MCResearch ---------------------------
(* Small data for each program, chosen so that its cases happen. *)
EXTENDS Research

\* The pilot: three tickers of which two are held, one of them too dear for half of the
\* account, and two tables of prices.
TwoTables == {<<2, 3, 20>>, <<4, 3, 20>>}

\* The option backtests: four days in two months.  The first three days lose or win, the
\* last one meets every market.
Bar(late, spot) == [late |-> late, spot |-> spot]
Market(open, settle, vol, bars) == [open |-> open, settle |-> settle, vol |-> vol, bars |-> bars]
Opens == {400120, 400000}
Settles == {397000, 399500, 400000, 400600, 403000}
Vols == {600, 1600, 3000}
Paths == { <<Bar(FALSE, 400000)>>, <<Bar(FALSE, 399000), Bar(FALSE, 400900), Bar(FALSE, 399500)>>,
           <<Bar(FALSE, 400900), Bar(TRUE, 398000)>> }
EveryMarket == {Market(o, c, v, b) : o \in Opens, c \in Settles, v \in Vols, b \in Paths}
EarlyMarkets == {Market(400120, c, v, <<Bar(FALSE, 400900), Bar(TRUE, 398000)>>) :
                     c \in {397000, 400600}, v \in {600, 1600}}
MCMarkets == <<EarlyMarkets, EarlyMarkets, EarlyMarkets, EveryMarket>>
MCMonthOf == <<1, 1, 1, 2>>

\* The studies of an edge: four dates in two months.
Day(priced, event, signal, eow, vix, bond) ==
    [priced |-> priced, event |-> event, open |-> 1000, signal |-> signal, eow |-> eow,
     vix |-> vix, bond |-> bond]
MCDayKinds == {
    Day(TRUE, FALSE, 1005, 1015, 15, 9), Day(TRUE, FALSE, 1005, 1013, 25, 10),
    Day(TRUE, TRUE, 1005, 995, 15, 10), Day(TRUE, FALSE, 1002, 994, 0, 0),
    Day(FALSE, FALSE, 1005, 1015, 25, 9), Day(TRUE, FALSE, 999, 992, 25, 11)}
FrozenSpec(window, events, band, bonds, direction) ==
    [window |-> window, events |-> events, band |-> band, bonds |-> bonds, threshold |-> 2,
     direction |-> direction]
MCSpecs == {
    FrozenSpec(1..4, TRUE, "none", "none", "long"), FrozenSpec(1..4, FALSE, "none", "none", "fade"),
    FrozenSpec(2..4, FALSE, "low", "none", "long"), FrozenSpec(1..4, FALSE, "high", "up", "long"),
    FrozenSpec(1..4, FALSE, "none", "down", "short")}
MCEdgeMonth == <<1, 1, 2, 2>>
MCThresholds == <<2, 4>>
MCCapThreshold == -10

\* The momentum signal: three tickers over six months, of which two are held.
MCClosePaths == {
    <<2, 3, 4, 4, 3, 2>>, <<2, 4, 4, 2, 4, 4>>, <<4, 3, 2, 4, 4, 3>>, <<3, 3, 3, 3, 3, 3>>,
    <<4, 4, 2, 2, 3, 4>>, <<0, 2, 2, 3, 4, 3>>}
MCColumn == <<3, 1, 2>>

\* The volatility carry: five days in two months.
MCCarryMonth == <<1, 1, 1, 1, 2>>
MCCarryMoves == {-4, -1}

\* The splits: eleven rows make slices of six, two and three, so that the train slice is
\* long enough for a losing streak that its drawdown allows, and the holdout for a gain in
\* spite of losses.  A holdout of v9 can be behind the first benchmark by exactly five
\* points, and behind the second by more.
MCDailySteps == {-3, -1, 2}
MCMonthlySteps == {-2, -1, 4}
MCBenchmarks == {1161111, 1320000}
=======================================================================
