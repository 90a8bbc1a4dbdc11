------------------------- MODULE EntryDecision -------------------------
(***************************************************************************)
(* One entry attempt, from the chain snapshot to the limits of its order:  *)
(* strategy.propose_trade, strikes.select_spread, pricing.pop_bs and the   *)
(* prices of cpapi.execution.submit_entry_lmt.                             *)
(*                                                                         *)
(* Strikes and quotes are in cents, so that a cent of debit is a dollar of *)
(* max_loss_usd.  Limits are in cents times Scale, in which the ceiling of *)
(* the profit-to-loss ratio is exact.                                      *)
(***************************************************************************)
EXTENDS Integers, FiniteSets

CONSTANTS
    N,          \* the number of strikes in the chain
    Strike,     \* the strikes, ascending, whole ticks
    Quotes,     \* the bids and asks that may be quoted
    PopLimits,  \* the breakevens at which pop_bs may cross pop_threshold
    MaxLoss,    \* max_loss_usd
    Ratios,     \* the values of min_profit_to_loss_ratio * RatioDen; 0 is unset
    RatioDen

ASSUME EntryDecisionAssumption ==
    /\ N \in Nat \ {0}
    /\ Strike \in [1..N -> Nat]
    /\ \A j, k \in 1..N : j < k => Strike[j] < Strike[k]
    /\ \A k \in 1..N : Strike[k] % 5 = 0
    /\ Quotes \subseteq Nat \ {0}
    /\ PopLimits \subseteq Int
    /\ MaxLoss \in Nat \ {0}
    /\ Ratios \subseteq Nat /\ RatioDen \in Nat \ {0}

VARIABLES
    bid, ask,   \* the snapshot: both positive, or the strike is not in the chain
    popLimit,   \* the highest breakeven at which the POP is at least pop_threshold
    ratio,      \* min_profit_to_loss_ratio * RatioDen
    pc,         \* the scan or the order phase the attempt is in
    i,          \* the strike a scan looks at
    long,       \* the long candidate; 0 for None
    short,      \* the short candidate; 0 for None
    limit       \* the limit of the working order

given == <<bid, ask, popLimit, ratio>>
vars == <<given, pc, i, long, short, limit>>

\* A quote of one exchange is not crossed.
Init ==
    /\ bid \in [1..N -> Quotes] /\ ask \in [1..N -> Quotes]
    /\ \A k \in 1..N : bid[k] <= ask[k]
    /\ popLimit \in PopLimits /\ ratio \in Ratios
    /\ pc = "long" /\ i = N - 1
    /\ long = 0 /\ short = 0 /\ limit = 0

-------------------------------------------------------------------------
\* select_spread: the long strike.

\* Buying strike k and selling the next one costs less than it can pay.
GapBelowWidth(k) == ask[k] - bid[k + 1] < Strike[k + 1] - Strike[k]

ScanLongOn ==   \* variant: a pair that fails is skipped, the scan does not break
    /\ pc = "long" /\ i >= 1
    /\ long' = IF GapBelowWidth(i) THEN i ELSE long
    /\ i' = i - 1
    /\ UNCHANGED <<given, pc, short, limit>>

\* _find_long_index walks down from the last pair while the gap is below the width.
ScanLong ==
    /\ pc = "long" /\ i >= 1 /\ GapBelowWidth(i)
    /\ long' = i /\ i' = i - 1
    /\ UNCHANGED <<given, pc, short, limit>>

LongFound ==
    /\ pc = "long" /\ (i >= 1 => ~GapBelowWidth(i))
    /\ IF long = 0 THEN pc' = "none" /\ UNCHANGED i
                   ELSE pc' = "short" /\ i' = long + 1
    /\ UNCHANGED <<given, long, short, limit>>

-------------------------------------------------------------------------
\* select_spread: the short strike.

Width(k) == Strike[k] - Strike[long]
NetDebit(k) == ask[long] - bid[k]

\* pop_bs falls as the breakeven rises.
PopOk(k) == Strike[long] + NetDebit(k) <= popLimit

PopAndProfit(k) == PopOk(k) /\ NetDebit(k) < Width(k)   \* variant: any debit
Acceptable(k) == NetDebit(k) <= MaxLoss /\ PopOk(k) /\ NetDebit(k) < Width(k)

ScanShortOn ==   \* variant: a strike that fails is skipped, the scan does not break
    /\ pc = "short" /\ i <= N
    /\ short' = IF Acceptable(i) THEN i ELSE short
    /\ i' = i + 1
    /\ UNCHANGED <<given, pc, long, limit>>

\* _find_short_index walks up from the long strike while every constraint holds.
ScanShort ==
    /\ pc = "short" /\ i <= N /\ Acceptable(i)
    /\ short' = i /\ i' = i + 1
    /\ UNCHANGED <<given, pc, long, limit>>

FirstTaken == short # 0 \/ (i <= N => ~Acceptable(i))   \* variant: the scan stops too early
ScanEnds == i <= N => ~Acceptable(i)
Scanned == TRUE   \* variant: None is not told from an index
ShortChosen == short # 0

ShortFound ==
    /\ pc = "short" /\ ScanEnds
    /\ pc' = IF ShortChosen THEN "place" ELSE "none"
    /\ UNCHANGED <<given, i, long, short, limit>>

-------------------------------------------------------------------------
\* submit_entry_lmt: the limits.

Scale == RatioDen + ratio
Tick == 5 * Scale

\* _round_tick; a float halfway between two ticks may go to either.
Nearest(p, n) == 2 * (n * Tick - p) <= Tick /\ 2 * (p - n * Tick) <= Tick
Rounded(p) == {n * Tick : n \in {m \in (p \div Tick)..(p \div Tick + 1) : Nearest(p, m)}}

Lesser(a, b) == IF a <= b THEN a ELSE b
Greater(a, b) == IF a >= b THEN a ELSE b

\* _safe_debit_max: a tick below the width, and width / (1 + ratio), which is the
\* width itself, and so no constraint, when the ratio is unset.
WidthCeiling == Greater(0, Width(short) - 5) * Scale
RatioCeiling == Width(short) * RatioDen
RatioOnly(requested) == Lesser(requested, RatioCeiling)   \* variant: the width is not looked at
SafeDebitMax(requested) == Lesser(requested, Lesser(WidthCeiling, RatioCeiling))

\* propose_trade's debit is the first limit, rounded.
Place ==
    /\ pc = "place"
    /\ limit' \in Rounded(SafeDebitMax(NetDebit(short) * Scale))
    /\ pc' = "working"
    /\ UNCHANGED <<given, i, long, short>>

\* One reprice by a tick, below the ceiling for debit_max = debit + 0.20.
DebitMax == SafeDebitMax((NetDebit(short) + 20) * Scale)
Raised(rounded) == rounded                     \* variant: the ceiling is left out
Repriced(rounded) == Lesser(DebitMax, rounded)

Reprice ==
    /\ pc = "working"
    /\ \E t \in Rounded(limit + Tick) :
          /\ Repriced(t) > limit
          /\ limit' = Repriced(t)
    /\ pc' = "repriced"
    /\ UNCHANGED <<given, i, long, short>>

\* The attempt is over: filled at the limit or better, cancelled, or not made.
Over == pc \in {"none", "working", "repriced"} /\ UNCHANGED vars

Next == ScanLong \/ LongFound \/ ScanShort \/ ShortFound \/ Place \/ Reprice \/ Over
Spec == Init /\ [][Next]_vars

-------------------------------------------------------------------------
Selected == pc \in {"place", "working", "repriced"}

\* The type of every variable; the order phases have a spread (select_spread's
\* None is told from an index).
TypeOK ==
    /\ bid \in [1..N -> Nat \ {0}] /\ ask \in [1..N -> Nat \ {0}]
    /\ popLimit \in Int /\ ratio \in Nat
    /\ pc \in {"long", "short", "place", "working", "repriced", "none"}
    /\ i \in 0..N + 1
    /\ long \in 0..N - 1
    /\ short \in 0..N
    /\ Selected => long # 0 /\ short # 0
    /\ limit \in Int

\* The reference of _find_long_index: the lowest strike from which every adjacent
\* pair up to the end of the chain costs less than its width.
LongStrikeRight ==
    pc # "long" /\ long # 0 =>
        /\ \A k \in long..N - 1 : GapBelowWidth(k)
        /\ long > 1 => ~GapBelowWidth(long - 1)

\* The reference of _find_short_index: the end of the unbroken run of acceptable
\* strikes above the long one; no spread is chosen without one.
ShortStrikeRight ==
    Selected => /\ short > long
                /\ \A k \in long + 1..short : Acceptable(k)
                /\ short < N => ~Acceptable(short + 1)

\* In a chain without call-spread arbitrage the early break loses nothing: the
\* chosen short is the widest of all acceptable ones.
ArbitrageFree ==
    \A j, k \in 1..N : j < k => 0 <= bid[j] - bid[k] /\ bid[j] - bid[k] <= Strike[k] - Strike[j]
WidestWhenArbitrageFree ==
    Selected /\ ArbitrageFree => \A k \in long + 1..N : Acceptable(k) => k <= short

Priced == pc \in {"working", "repriced"}

\* No fill at either limit is a sure loss: the rounding after the clamp leaves a
\* tick of profit.
LimitLeavesProfit == Priced => limit <= (Width(short) - 5) * Scale

\* The rounding after the clamp costs at most half a tick of the profit ratio.
RatioSlack == (Tick * Scale) \div 2
RatioAlmostKept ==
    Priced =>
        (Width(short) * Scale - limit) * RatioDen >= limit * ratio - RatioSlack

\* A fill loses at most max_loss_usd and a tick and a half.
LossAlmostCapped == Priced => 2 * limit <= 2 * MaxLoss * Scale + 3 * Tick

\* README: MAX_LOSS_USD is a hard cap on the loss of a spread (debit x 100).
LossCapped == Priced => limit <= MaxLoss * Scale

-------------------------------------------------------------------------
\* The long candidate is the end of the pairs seen, all of them good.
LongLoop ==
    pc = "long" => /\ short = 0
                   /\ i = IF long = 0 THEN N - 1 ELSE long - 1
                   /\ long # 0 => \A k \in long..N - 1 : GapBelowWidth(k)

\* The short candidate is the last strike seen, all of them acceptable.
ShortLoop ==
    pc = "short" => /\ long # 0
                    /\ i = IF short = 0 THEN long + 1 ELSE short + 1
                    /\ short # 0 => short > long
                    /\ \A k \in long + 1..i - 1 : Acceptable(k)

\* The order rests at a whole number of ticks that the cap and the ratio round to.
Resting ==
    pc = "working" => /\ limit = (limit \div Tick) * Tick
                      /\ 2 * limit <= 2 * MaxLoss * Scale + Tick

\* The inductive invariant: the two loops and what they and the limits leave.
IInv ==
    /\ TypeOK /\ LongLoop /\ LongStrikeRight /\ ShortLoop /\ ShortStrikeRight
    /\ Resting /\ LimitLeavesProfit /\ RatioAlmostKept /\ LossAlmostCapped
=======================================================================
