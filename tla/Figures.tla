---------------------------- MODULE Figures ----------------------------
(***************************************************************************)
(* Figures that several research scripts take of a sequence of results.    *)
(***************************************************************************)
EXTENDS Integers, FiniteSets, SequencesExt

\* The members of a finite set of numbers in rising order.
Ascending(S) ==
    [i \in 1..Cardinality(S) |-> CHOOSE m \in S : Cardinality({r \in S : r < m}) = i - 1]

\* The rows of s at the positions of K, in their order.
At(s, K) == [i \in 1..Cardinality(K) |-> s[Ascending(K)[i]]]

SumSeq(s) == FoldSeq(LAMBDA a, b : a + b, 0, s)

\* cumsum and its cummax: the curve starts after the first result, not at zero.
UpTo(s, i) == SumSeq(SubSeq(s, 1, i))
PeakUpTo(s, i) == Max({UpTo(s, j) : j \in 1..i})
Drawdowns(s) == [i \in DOMAIN s |-> UpTo(s, i) - PeakUpTo(s, i)]
DeepestDrawdown(s) == Min({0} \cup ToSet(Drawdowns(s)))

\* The sample variance of s times n * (n - 1), and its mean times n.
Spread(s) == Len(s) * SumSeq([i \in DOMAIN s |-> s[i] * s[i]]) - SumSeq(s) * SumSeq(s)

\* The t-statistic of the mean against zero exists for two results that differ; its
\* square is sum^2 * (n - 1) / Spread.
HasT(s) == Len(s) > 1 /\ Spread(s) > 0
TwoOrMore(s) == SumSeq(s) * SumSeq(s) * (Len(s) - 1) >= 4 * Spread(s)

\* quantile 1/2, doubled.
TwiceMedian(s) ==
    LET o == SortSeq(s, <)
        n == Len(s)
    IN  o[(n + 1) \div 2] + o[n \div 2 + 1]
=======================================================================
