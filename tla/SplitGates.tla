--------------------------- MODULE SplitGates ---------------------------
(***************************************************************************)
(* The promotion of a strategy over the train, validation and holdout      *)
(* slices of its ledger (eval_v8_tvh_split, eval_v9_tvh_split).            *)
(* A return is a number of steps of 10/9, so that returns compound by      *)
(* addition: a step up is 11 per cent and four are 52; a step down is 10,  *)
(* two are 19, three 27, four 34 and five 41.  The rules compare them with *)
(* their thresholds in steps, and a total with the benchmark's by what a   *)
(* million has become in each.                                             *)
(***************************************************************************)
EXTENDS Figures

CONSTANTS
    Rows,           \* the rows of the ledger
    DailySteps, MonthlySteps,   \* the returns of a day of v8, of a month of v9
    Benchmarks,     \* what a million in the benchmark becomes over a slice
    MaxStreak       \* the consecutive losing months that a slice may have

ASSUME SplitAssumption ==
    /\ Rows \in Nat /\ Rows >= 10 /\ MaxStreak \in Nat
    /\ DailySteps \subseteq -3..2 /\ MonthlySteps \subseteq -3..4
    /\ Benchmarks \subseteq Nat

VARIABLES
    evaluated,  \* "v8" or "v9", and "none" when no split is evaluated
    slice,      \* the slice whose gates are next: 1, 2, 3; 4 at the end
    returns,    \* the returns of the slices the gates have looked at
    gates,      \* gate_results
    verdict     \* final_verdict; "" before

splitGates == <<evaluated, slice, returns, gates, verdict>>

SplitStart == slice = 1 /\ returns = <<>> /\ gates = <<>> /\ verdict = ""
SplitIdle == evaluated = "none" /\ SplitStart
SplitInit == evaluated \in {"v8", "v9"} /\ SplitStart

-------------------------------------------------------------------------
Name == <<"train", "validation", "holdout">>
TrainEnd == (Rows * 6) \div 10
ValEnd == (Rows * 8) \div 10
RowsOfSlice(i) == <<TrainEnd, ValEnd - TrainEnd, Rows - ValEnd>>[i]
Steps == IF evaluated = "v8" THEN DailySteps ELSE MonthlySteps

\* What a million becomes in a number of steps, rounded down.
Grown[n \in Int] ==
    IF n = 0 THEN 1000000
    ELSE IF n > 0 THEN (Grown[n - 1] * 10) \div 9 ELSE (Grown[n + 1] * 9) \div 10
FivePoints == 50000
TotalReturn(s) == Grown[SumSeq(s)]

\* _max_dd in steps; the curve starts after the first return.
StepsDown(s) == -DeepestDrawdown(s)

\* The Sharpe ratio against tenths: mean / std * sqrt(periods), of the returns in per
\* cent.  It is not a number when the returns do not vary, and then compares false.
Percent(u) == <<-27, -19, -10, 0, 11, 23, 37, 52>>[u + 4]
PercentOf(s) == [i \in DOMAIN s |-> Percent(s[i])]
Periods == IF evaluated = "v8" THEN 252 ELSE 12
\* (10 * Sharpe)^2 is 4 * Square / Scale.
Square(p) == 25 * Periods * SumSeq(p) * SumSeq(p) * (Len(p) - 1)
Scale(p) == Len(p) * Spread(p)
SharpeAtLeast(s, tenths) ==
    LET p == PercentOf(s)
    IN  /\ Spread(p) > 0 /\ SumSeq(p) >= 0
        /\ Square(p) >= (tenths * tenths * Scale(p) + 3) \div 4
SharpeAbove(s, tenths) ==
    LET p == PercentOf(s)
    IN  /\ Spread(p) > 0 /\ SumSeq(p) >= 0
        /\ Square(p) > (tenths * tenths * Scale(p)) \div 4
SharpeNegative(s) == Spread(PercentOf(s)) > 0 /\ SumSeq(PercentOf(s)) < 0

WorstRow(s) == Min(ToSet(s))

\* _max_consecutive_losing, of the months of one slice.
StreakStep(acc, u) ==
    LET streak == IF u < 0 THEN acc.streak + 1 ELSE 0
    IN  [streak |-> streak, best |-> Max({acc.best, streak})]
MaxConsecutiveLosing(s) == FoldLeft(StreakStep, [streak |-> 0, best |-> 0], s).best

-------------------------------------------------------------------------
\* The rules: s the returns of the slice, b what a million in the benchmark became over it,
\* so_far the returns of the ledger up to its end.

SliceOnly(s, so_far) == s   \* variant: the drawdown of the slice alone
EquityCurve(s, so_far) == so_far
AlwaysKill(s, so_far) ==
    \/ StepsDown(EquityCurve(s, so_far)) >= 5
    \/ IF evaluated = "v8" THEN WorstRow(s) <= -3 ELSE MaxConsecutiveLosing(s) > MaxStreak

TrainKill(s) ==
    \/ SumSeq(s) < 0 \/ SharpeNegative(s) \/ StepsDown(s) >= 5
    \/ evaluated = "v8" /\ WorstRow(s) <= -3
TrainContinue(s, b) ==
    /\ StepsDown(s) <= 2
    /\ IF evaluated = "v8"
       THEN SumSeq(s) > 0 /\ SharpeAtLeast(s, 8) /\ WorstRow(s) >= -1
       ELSE TotalReturn(s) > b /\ SharpeAtLeast(s, 5)
ValidationContinue(s) ==
    /\ SumSeq(s) > 0 /\ StepsDown(s) <= 3
    /\ SharpeAbove(s, IF evaluated = "v8" THEN 5 ELSE 3)

\* The holdout may fall behind the benchmark by five points of return.
HoldoutContinue(s, b) ==
    /\ SumSeq(s) > 0 /\ TotalReturn(s) >= b - FivePoints
    /\ SharpeAbove(s, IF evaluated = "v8" THEN 3 ELSE 0)

GatePassed(i, s, b) ==
    CASE i = 1 -> ~TrainKill(s) /\ TrainContinue(s, b)
      [] i = 2 -> ValidationContinue(s)
      [] i = 3 -> HoldoutContinue(s, b)
GateName(i, s) ==
    IF i = 1 /\ TrainKill(s) THEN "train_kill_if" ELSE Name[i] \o "_continue_if"

\* The gates of the next slice.
EvaluateSlice(s, b) ==
    LET killed == AlwaysKill(s, FlattenSeq(returns) \o s)
        gate == IF killed THEN "always_kill_if" ELSE GateName(slice, s)
        passed == ~killed /\ GatePassed(slice, s, b)
    IN  /\ returns' = Append(returns, s)
        /\ gates' = Append(gates, [slice |-> Name[slice], gate |-> gate, passed |-> passed,
                                   benchmark |-> b])
        /\ verdict' = IF ~passed THEN "KILL" ELSE IF slice = 3 THEN "PROMOTE" ELSE ""
        /\ slice' = slice + 1
        /\ UNCHANGED evaluated

\* The benchmarks of a slice that a rule compares with one, and 0 of the others.
SeenBenchmarks ==
    IF slice = 3 \/ (slice = 1 /\ evaluated = "v9") THEN Benchmarks ELSE {0}
SplitNext ==
    /\ evaluated # "none" /\ verdict = ""
    /\ \E s \in [1..RowsOfSlice(slice) -> Steps], b \in SeenBenchmarks : EvaluateSlice(s, b)

SplitSpec == SplitInit /\ [][SplitNext]_splitGates

-------------------------------------------------------------------------
\* A strategy that is promoted made money over the window, and in the holdout no more than
\* five points less than the benchmark; v9 made more than the benchmark in the train slice;
\* from no row to a later one, across the slices too, did it lose 40 per cent; no day of v8
\* lost 25; and a losing streak of v9 that is longer than the limit lies across the end of
\* a slice.
Ledger == FlattenSeq(returns)
LosingRun(i, j) == \A k \in i..j : Ledger[k] < 0
Within(i, j) == \E e \in {<<1, TrainEnd>>, <<TrainEnd + 1, ValEnd>>, <<ValEnd + 1, Rows>>} :
                    e[1] <= i /\ j <= e[2]
PromotionRight ==
    verdict = "PROMOTE" =>
          /\ SumSeq(Ledger) > 0
          /\ TotalReturn(returns[3]) >= gates[3].benchmark - FivePoints
          /\ evaluated = "v9" => TotalReturn(returns[1]) > gates[1].benchmark
          /\ \A i, j \in DOMAIN Ledger : i < j => SumSeq(SubSeq(Ledger, i + 1, j)) > -5
          /\ evaluated = "v8" => \A i \in DOMAIN Ledger : Ledger[i] > -3
          /\ evaluated = "v9" => \A i, j \in DOMAIN Ledger :
                i <= j /\ LosingRun(i, j) /\ j - i + 1 > MaxStreak => ~Within(i, j)
=======================================================================
