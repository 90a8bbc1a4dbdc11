---------------------- MODULE EntryDecision_proofs ----------------------
(***************************************************************************)
(* The selection and the limits are right for every chain, every quote and *)
(* every setting.  IInv holds the two loop invariants; the limits rest on  *)
(* what rounding to a tick can do to a price below a ceiling.              *)
(***************************************************************************)
EXTENDS EntryDecision, TLAPS

\* The assumption without the strikes.
LEMMA Settings ==
    /\ N \in Nat \ {0} /\ MaxLoss \in Nat \ {0} /\ RatioDen \in Nat \ {0}
    /\ Quotes \subseteq Nat \ {0} /\ PopLimits \subseteq Int /\ Ratios \subseteq Nat
  BY EntryDecisionAssumption

-------------------------------------------------------------------------
\* Arithmetic of whole ticks.

\* Multiplication by a natural number keeps the order.
LEMMA TimesMonotone ==
    ASSUME NEW n \in Int, NEW m \in Int, NEW T \in Nat, n <= m
    PROVE  n * T <= m * T
  BY SMT

\* A bound leaves room for ticks.
LEMMA Slack ==
    ASSUME NEW l \in Int, NEW c \in Int, NEW T \in Nat
    PROVE  /\ l <= c => 2 * l <= 2 * c + T
           /\ 2 * l <= c + T => 2 * l <= c + 3 * T
           /\ \A k \in Int : k <= l + T /\ 2 * l <= c + T => 2 * k <= c + 3 * T
  BY SMT

\* Division undoes the multiplication by a tick.
LEMMA WholeTicks ==
    ASSUME NEW n \in Int, NEW T \in Nat \ {0}
    PROVE  (n * T) \div T = n
  BY SMT

\* A tick is a positive whole number.
LEMMA TickType ==
    ASSUME TypeOK
    PROVE  /\ Scale \in Nat \ {0} /\ Tick \in Nat \ {0}
           /\ Tick = 5 * Scale
  BY Settings DEF TypeOK, Scale, Tick

\* Rounding moves a price by at most half a tick, to a whole number of ticks.
LEMMA RoundedNear ==
    ASSUME TypeOK, NEW p \in Int, NEW t \in Rounded(p)
    PROVE  \E n \in Int : t = n * Tick /\ 2 * (t - p) <= Tick /\ 2 * (p - t) <= Tick
<1>1. Tick \in Nat \ {0}
  BY TickType
<1>2. p \div Tick \in Int
  BY <1>1
<1>3. PICK n \in (p \div Tick)..(p \div Tick + 1) : t = n * Tick /\ Nearest(p, n)
  BY DEF Rounded
<1> QED
  BY <1>2, <1>3 DEF Nearest

\* Rounding a price below a whole number of ticks stays below it.
LEMMA RoundedBelow ==
    ASSUME TypeOK, NEW p \in Int, NEW t \in Rounded(p), NEW m \in Int, p <= m * Tick
    PROVE  t <= m * Tick
<1>1. Tick \in Nat \ {0}
  BY TickType
<1>2. PICK n \in Int : t = n * Tick /\ 2 * (t - p) <= Tick
  BY RoundedNear
<1>3. CASE n <= m
  BY <1>1, <1>2, <1>3, TimesMonotone
<1>4. CASE n > m
  <2>1. (m + 1) * Tick <= n * Tick
    BY <1>1, <1>4, TimesMonotone
  <2>2. (m + 1) * Tick = m * Tick + Tick /\ m * Tick \in Int
    BY <1>1
  <2> QED
    BY <1>1, <1>2, <2>1, <2>2
<1> QED
  BY <1>3, <1>4

\* A whole number of ticks rounds to itself.
LEMMA RoundedWhole ==
    ASSUME TypeOK, NEW m \in Int, NEW t \in Rounded(m * Tick)
    PROVE  t = m * Tick
<1>1. Tick \in Nat \ {0} /\ m * Tick \in Int
  BY TickType
<1>2. PICK n \in Int : t = n * Tick /\ 2 * (m * Tick - t) <= Tick
  BY <1>1, RoundedNear
<1>3. t <= m * Tick
  <2> DEFINE p == m * Tick
  <2>1. p \in Int /\ t \in Rounded(p) /\ p <= m * Tick
    BY <1>1
  <2> HIDE DEF p
  <2> QED
    BY <2>1, RoundedBelow
<1>4. CASE n >= m
  BY <1>1, <1>2, <1>3, <1>4, TimesMonotone
<1>5. CASE n < m
  <2>1. (n + 1) * Tick <= m * Tick
    BY <1>1, <1>5, TimesMonotone
  <2>2. (n + 1) * Tick = n * Tick + Tick /\ n * Tick \in Int
    BY <1>1
  <2> QED
    BY <1>1, <1>2, <2>1, <2>2
<1> QED
  BY <1>4, <1>5

\* The ratio of a limit half a tick above the ratio's ceiling.
LEMMA RatioOfLimit ==
    ASSUME NEW W \in Int, NEW d \in Nat, NEW r \in Nat, NEW l \in Int,
           2 * l <= 2 * (W * d) + 5 * (d + r)
    PROVE  (W * (d + r) - l) * d >= l * r - ((5 * (d + r)) * (d + r)) \div 2
<1> DEFINE S == d + r
           X == W * d - l
<1>1. S \in Nat /\ X \in Int /\ 2 * (0 - X) <= 5 * S
  OBVIOUS
<1>2. (2 * (0 - X)) * S <= (5 * S) * S
  <2> HIDE DEF X, S
  <2> QED
    BY <1>1, TimesMonotone
<1>3. (W * S - l) * d - l * r = X * S
  BY SMT
<1>4. (2 * (0 - X)) * S = 0 - 2 * (X * S)
  BY <1>1
<1>5. (5 * S) * S \in Int /\ X * S \in Int /\ (W * S - l) * d \in Int /\ l * r \in Int
  OBVIOUS
<1> HIDE DEF X, S
<1>6. X * S >= 0 - ((5 * S) * S) \div 2
  BY <1>2, <1>4, <1>5
<1>7. (W * S - l) * d >= l * r - ((5 * S) * S) \div 2
  BY <1>3, <1>5, <1>6
<1> QED
  BY <1>7 DEF S

-------------------------------------------------------------------------
\* The two scans.

\* The conjuncts of IInv that speak of the order hold until there is one.
OrderParts == Resting /\ LimitLeavesProfit /\ RatioAlmostKept /\ LossAlmostCapped

\* Without an order its bounds hold.
LEMMA NoOrderYet ==
    ASSUME ~Priced PROVE OrderParts
  BY DEF OrderParts, Priced, Resting, LimitLeavesProfit, RatioAlmostKept, LossAlmostCapped

\* Without an order in the next state its bounds hold there.
LEMMA NoOrderNext ==
    ASSUME ~Priced' PROVE OrderParts'
  BY DEF OrderParts, Priced, Resting, LimitLeavesProfit, RatioAlmostKept, LossAlmostCapped

\* An attempt starts before the first pair, with no candidates.
LEMMA InitInv == Init => IInv
<1> SUFFICES ASSUME Init PROVE IInv
  OBVIOUS
<1>1. TypeOK
  <2>1. bid \in [1..N -> Nat \ {0}] /\ ask \in [1..N -> Nat \ {0}]
    BY Settings DEF Init
  <2>2. popLimit \in Int /\ ratio \in Nat
    BY Settings DEF Init
  <2>3. i \in 0..N + 1 /\ 0 \in 0..N - 1 /\ 0 \in 0..N
    BY Settings DEF Init
  <2> QED
    BY <2>1, <2>2, <2>3 DEF Init, TypeOK, Selected
<1>2. LongLoop /\ LongStrikeRight /\ ShortLoop /\ ShortStrikeRight
  BY DEF Init, LongLoop, LongStrikeRight, ShortLoop, ShortStrikeRight, Selected
<1>3. OrderParts
  BY NoOrderYet DEF Init, Priced
<1> QED
  BY <1>1, <1>2, <1>3 DEF IInv, OrderParts

\* A good pair extends the run of good pairs downwards.
LEMMA ScanLongInv == IInv /\ ScanLong => IInv'
<1> SUFFICES ASSUME IInv, ScanLong PROVE IInv'
  OBVIOUS
<1>1. TypeOK'
  BY Settings DEF IInv, TypeOK, ScanLong, LongLoop, Selected, given
<1>2. LongLoop'
  <2>1. long' = i /\ i' = i - 1 /\ i \in 1..N - 1 /\ short' = 0
    BY Settings DEF IInv, TypeOK, ScanLong, LongLoop
  <2>2. \A k \in i..N - 1 : GapBelowWidth(k)
    <3> SUFFICES ASSUME NEW k \in i..N - 1 PROVE GapBelowWidth(k)
      OBVIOUS
    <3>1. CASE k = i
      BY <3>1 DEF ScanLong
    <3>2. CASE k # i
      BY <2>1, <3>2 DEF IInv, TypeOK, ScanLong, LongLoop
    <3> QED
      BY <3>1, <3>2
  <2> QED
    BY <2>1, <2>2 DEF LongLoop, GapBelowWidth, ScanLong, given
<1>3. LongStrikeRight' /\ ShortLoop' /\ ShortStrikeRight'
  BY DEF ScanLong, LongStrikeRight, ShortLoop, ShortStrikeRight, Selected
<1>4. OrderParts'
  BY NoOrderNext DEF ScanLong, Priced
<1> QED
  BY <1>1, <1>2, <1>3, <1>4 DEF IInv, OrderParts

\* The downward scan stops at a pair that fails or at the bottom of the chain.
LEMMA LongFoundInv == IInv /\ LongFound => IInv'
<1> SUFFICES ASSUME IInv, LongFound PROVE IInv'
  OBVIOUS
<1>1. TypeOK'
  <2>1. i' \in 0..N + 1 /\ pc' \in {"short", "none"}
    BY Settings DEF IInv, TypeOK, LongFound
  <2> QED
    BY <2>1 DEF IInv, TypeOK, LongFound, Selected, given
<1>2. LongLoop'
  BY DEF LongFound, LongLoop
<1>3. LongStrikeRight'
  <2>1. long # 0 => /\ \A k \in long..N - 1 : GapBelowWidth(k)
                    /\ long > 1 => ~GapBelowWidth(long - 1)
    BY DEF IInv, TypeOK, LongFound, LongLoop
  <2> QED
    BY <2>1 DEF LongFound, LongStrikeRight, GapBelowWidth, given
<1>4. ShortLoop' /\ ShortStrikeRight'
  BY DEF IInv, TypeOK, LongFound, LongLoop, ShortLoop, ShortStrikeRight, Selected
<1>5. OrderParts'
  BY NoOrderNext DEF LongFound, Priced
<1> QED
  BY <1>1, <1>2, <1>3, <1>4, <1>5 DEF IInv, OrderParts

\* A step that keeps the chain and the long strike keeps the reference of the scan.
LEMMA LongKept ==
    ASSUME IInv, pc # "long", UNCHANGED <<given, long>>
    PROVE  LongStrikeRight'
  BY DEF IInv, LongStrikeRight, GapBelowWidth, given

\* What is acceptable depends on the chain, the settings and the long strike.
LEMMA AcceptableKept ==
    ASSUME UNCHANGED <<given, long>>, NEW k
    PROVE  Acceptable(k)' = Acceptable(k)
  BY DEF Acceptable, NetDebit, PopOk, Width, given

\* An acceptable strike extends the run of acceptable strikes upwards.
LEMMA ScanShortInv == IInv /\ ScanShort => IInv'
<1> SUFFICES ASSUME IInv, ScanShort PROVE IInv'
  OBVIOUS
<1>1. TypeOK'
  BY Settings DEF IInv, TypeOK, ScanShort, Selected, given, ShortLoop
<1>2. LongLoop' /\ ShortStrikeRight'
  BY DEF ScanShort, LongLoop, ShortStrikeRight, Selected
<1>3. LongStrikeRight'
  BY LongKept DEF ScanShort
<1>4. ShortLoop'
  <2>1. /\ long' = long /\ long # 0 /\ short' = i /\ i' = i + 1 /\ i > long
        /\ i \in Int /\ long \in Int
    BY DEF IInv, TypeOK, ScanShort, ShortLoop
  <2>2. \A k \in long + 1..i : Acceptable(k)
    BY <2>1 DEF IInv, ScanShort, ShortLoop
  <2>3. \A k \in long + 1..i : Acceptable(k)'
    BY <2>2, AcceptableKept DEF ScanShort
  <2> QED
    <3>1. long' + 1 = long + 1 /\ i' - 1 = i /\ short' # 0 /\ long' # 0 /\ i' = short' + 1
      BY <2>1 DEF IInv, TypeOK
    <3>2. short' > long'
      BY <2>1
    <3>3. \A k \in long' + 1..i' - 1 : Acceptable(k)'
      BY <2>3, <3>1
    <3> QED
      BY <3>1, <3>2, <3>3 DEF ShortLoop
<1>5. OrderParts'
  BY NoOrderNext DEF ScanShort, Priced
<1> QED
  BY <1>1, <1>2, <1>3, <1>4, <1>5 DEF IInv, OrderParts

\* The upward scan stops at a strike that fails or at the top of the chain.
LEMMA ShortFoundInv == IInv /\ ShortFound => IInv'
<1> SUFFICES ASSUME IInv, ShortFound PROVE IInv'
  OBVIOUS
<1>1. TypeOK'
  BY DEF IInv, TypeOK, ShortLoop, ShortFound, ShortChosen, Selected, given
<1>2. LongLoop' /\ ShortLoop'
  BY DEF ShortFound, LongLoop, ShortLoop
<1>3. LongStrikeRight'
  BY LongKept DEF ShortFound
<1>4. ShortStrikeRight'
  <2>1. short # 0 => /\ short > long
                     /\ \A k \in long + 1..short : Acceptable(k)
                     /\ short < N => ~Acceptable(short + 1)
    BY Settings DEF IInv, TypeOK, ShortFound, ScanEnds, ShortLoop
  <2> QED
    BY <2>1, AcceptableKept DEF ShortFound, ShortChosen, ShortStrikeRight, Selected, IInv, TypeOK
<1>5. OrderParts'
  BY NoOrderNext DEF ShortFound, Priced
<1> QED
  BY <1>1, <1>2, <1>3, <1>4, <1>5 DEF IInv, OrderParts

-------------------------------------------------------------------------
\* The limits.

\* A multiple of five is five times its fifth.
LEMMA Fifths ==
    ASSUME NEW w \in Int, w % 5 = 0
    PROVE  w \div 5 \in Int /\ w = 5 * (w \div 5)
  BY SMT

\* Two prices of whole ticks are a whole number of ticks apart.
LEMMA TicksApart ==
    ASSUME NEW a \in Nat, NEW b \in Nat, a < b, a % 5 = 0, b % 5 = 0
    PROVE  b - a >= 5 /\ (b - a - 5) % 5 = 0
  BY SMT

\* A spread is at least a tick wide, and a whole number of ticks.
LEMMA WidthType ==
    ASSUME TypeOK, ShortStrikeRight, Selected
    PROVE  /\ Width(short) \in Int /\ Width(short) >= 5
           /\ (Width(short) - 5) % 5 = 0
<1>1. long \in 0..N - 1 /\ short \in 1..N /\ short > long
  BY DEF TypeOK, ShortStrikeRight, Selected
<1>2. long # 0
  BY DEF TypeOK, Selected
<1>3. /\ Strike[long] \in Nat /\ Strike[short] \in Nat /\ Strike[long] < Strike[short]
      /\ Strike[long] % 5 = 0 /\ Strike[short] % 5 = 0
  BY EntryDecisionAssumption, <1>1, <1>2
<1> DEFINE a == Strike[long]
           b == Strike[short]
<1>4. Width(short) = b - a
  BY DEF Width
<1> HIDE DEF a, b
<1>5. b - a >= 5 /\ (b - a - 5) % 5 = 0 /\ b - a \in Int
  <2>1. a \in Nat /\ b \in Nat /\ a < b /\ a % 5 = 0 /\ b % 5 = 0
    BY <1>3 DEF a, b
  <2> QED
    BY <2>1, TicksApart
<1> QED
  BY <1>4, <1>5

\* A clamped price is below the request and both ceilings.
LEMMA Clamped ==
    ASSUME TypeOK, ShortStrikeRight, Selected, NEW requested \in Int
    PROVE  /\ SafeDebitMax(requested) \in Int
           /\ SafeDebitMax(requested) <= requested
           /\ SafeDebitMax(requested) <= (Width(short) - 5) * Scale
           /\ SafeDebitMax(requested) <= Width(short) * RatioDen
<1>1. Width(short) \in Int /\ Width(short) >= 5 /\ Scale \in Nat
  BY WidthType, TickType
<1>2. WidthCeiling = (Width(short) - 5) * Scale
  BY <1>1 DEF WidthCeiling, Greater
<1>3. (Width(short) - 5) * Scale \in Int /\ Width(short) * RatioDen \in Int
  BY Settings, <1>1
<1> QED
  BY <1>2, <1>3 DEF SafeDebitMax, Lesser, RatioCeiling

\* What the three bounds on the next limit follow from, in a step that keeps the spread.
LEMMA NextLimitBounds ==
    ASSUME TypeOK, TypeOK', ShortStrikeRight, Selected, ShortStrikeRight', Selected',
           UNCHANGED <<given, long, short>>,
           limit' <= (Width(short) - 5) * Scale,
           2 * limit' <= 2 * (Width(short) * RatioDen) + Tick,
           2 * limit' <= 2 * MaxLoss * Scale + 3 * Tick
    PROVE  (LimitLeavesProfit /\ RatioAlmostKept /\ LossAlmostCapped)'
<1>1. Width(short)' = Width(short) /\ Scale' = Scale /\ Tick' = Tick /\ ratio' = ratio
  BY DEF Width, Scale, Tick, given
<1>2. Width(short) \in Int /\ limit' \in Int /\ ratio \in Nat
  BY <1>1, WidthType DEF TypeOK
<1>3. (Width(short) * Scale - limit') * RatioDen
        >= limit' * ratio - ((5 * Scale) * Scale) \div 2
  BY Settings, <1>2, RatioOfLimit DEF Tick, Scale
<1>4. LimitLeavesProfit'
  BY <1>1 DEF LimitLeavesProfit
<1>5. RatioAlmostKept'
  BY <1>1, <1>3 DEF RatioAlmostKept, RatioSlack, Tick
<1>6. LossAlmostCapped'
  BY <1>1 DEF LossAlmostCapped
<1> QED
  BY <1>4, <1>5, <1>6

\* A step of the order keeps what the scans found.
LEMMA ScansKept ==
    ASSUME IInv, Selected, Selected', UNCHANGED <<given, i, long, short>>
    PROVE  /\ LongLoop' /\ ShortLoop' /\ LongStrikeRight' /\ ShortStrikeRight'
<1>1. LongLoop' /\ ShortLoop'
  BY DEF Selected, LongLoop, ShortLoop
<1>2. LongStrikeRight'
  BY LongKept DEF Selected
<1>3. ShortStrikeRight'
  BY AcceptableKept DEF IInv, ShortStrikeRight
<1> QED
  BY <1>1, <1>2, <1>3

\* The first limit is rounded from a clamped debit.
LEMMA PlaceInv == IInv /\ Place => IInv'
<1> SUFFICES ASSUME IInv, Place PROVE IInv'
  OBVIOUS
<1> USE DEF IInv
<1>1. Selected /\ Selected' /\ ~(pc = "working") /\ UNCHANGED <<given, i, long, short>>
  BY DEF Place, Selected
<1> DEFINE requested == NetDebit(short) * Scale
           p == SafeDebitMax(requested)
           m == (Width(short) - 5) \div 5
<1>2. /\ Scale \in Nat \ {0} /\ Tick \in Nat \ {0} /\ Tick = 5 * Scale
      /\ Width(short) \in Int /\ Width(short) - 5 = 5 * m /\ m \in Int
      /\ MaxLoss * Scale \in Int /\ Width(short) * RatioDen \in Int
  <2>1. /\ Scale \in Nat \ {0} /\ Tick \in Nat \ {0} /\ Tick = 5 * Scale
    BY TickType
  <2>2. Width(short) \in Int /\ (Width(short) - 5) % 5 = 0
    BY <1>1, WidthType
  <2>3. Width(short) - 5 = 5 * m /\ m \in Int
    <3> DEFINE w == Width(short) - 5
    <3>1. w \in Int /\ w % 5 = 0
      BY <2>2
    <3> HIDE DEF w
    <3>2. w \div 5 \in Int /\ w = 5 * (w \div 5)
      BY <3>1, Fifths
    <3> QED
      BY <3>2 DEF w
  <2>4. MaxLoss * Scale \in Int /\ Width(short) * RatioDen \in Int
    BY Settings, <2>1, <2>2
  <2> QED
    BY <2>1, <2>2, <2>3, <2>4
<1>3. NetDebit(short) \in Int /\ NetDebit(short) <= MaxLoss
  <2>1. long \in 1..N /\ short \in 1..N
    BY Settings, <1>1 DEF TypeOK
  <2>2. NetDebit(short) \in Int
    BY <2>1 DEF TypeOK, NetDebit
  <2>3. Acceptable(short)
    BY <1>1, <2>1 DEF ShortStrikeRight
  <2> QED
    BY <2>2, <2>3 DEF Acceptable
<1>4. requested \in Int /\ requested <= MaxLoss * Scale
  BY Settings, <1>2, <1>3, TimesMonotone
<1>5. /\ p \in Int /\ p <= requested /\ p <= (Width(short) - 5) * Scale
      /\ p <= Width(short) * RatioDen
  <2> HIDE DEF requested
  <2> QED
    BY <1>1, <1>4, Clamped
<1>6. limit' \in Rounded(p)
  BY DEF Place
<1>7. (Width(short) - 5) * Scale = m * Tick
  <2> HIDE DEF m
  <2> QED
    BY <1>2
<1> HIDE DEF requested, p, m
<1>8. limit' <= (Width(short) - 5) * Scale
  BY <1>2, <1>5, <1>6, <1>7, RoundedBelow
<1>9. PICK n \in Int : limit' = n * Tick /\ 2 * (limit' - p) <= Tick
  BY <1>5, <1>6, RoundedNear
<1>10. limit' \in Int /\ limit' = (limit' \div Tick) * Tick
  <2>1. (n * Tick) \div Tick = n
    BY <1>2, WholeTicks
  <2>2. n * Tick \in Int
    BY <1>2
  <2> QED
    BY <1>9, <2>1, <2>2
<1>11. /\ 2 * limit' <= 2 * (Width(short) * RatioDen) + Tick
       /\ 2 * limit' <= 2 * MaxLoss * Scale + Tick
  <2> DEFINE C == Width(short) * RatioDen
             L == MaxLoss * Scale
  <2>1. C \in Int /\ L \in Int /\ 2 * MaxLoss * Scale = 2 * L
    BY Settings, <1>2
  <2>2. p <= C /\ p <= L
    BY <1>4, <1>5, <2>1
  <2> HIDE DEF C, L
  <2>3. 2 * limit' <= 2 * C + Tick /\ 2 * limit' <= 2 * L + Tick
    BY <1>2, <1>5, <1>9, <1>10, <2>1, <2>2
  <2> QED
    BY <2>1, <2>3 DEF C
<1>12. TypeOK'
  BY <1>1, <1>10 DEF TypeOK, Place, Selected, given
<1>13. LongLoop' /\ ShortLoop' /\ LongStrikeRight' /\ ShortStrikeRight'
  BY <1>1, ScansKept
<1>14. 2 * limit' <= 2 * MaxLoss * Scale + 3 * Tick
  <2> DEFINE L == 2 * MaxLoss * Scale
  <2>1. L \in Int /\ Tick \in Nat /\ limit' \in Int /\ 2 * limit' <= L + Tick
    <3>1. L \in Int /\ Tick \in Nat
      BY Settings, <1>2
    <3>2. 2 * limit' <= L + Tick
      BY <1>11
    <3> QED
      BY <1>10, <3>1, <3>2
  <2> HIDE DEF L
  <2>2. 2 * limit' <= L + 3 * Tick
    BY <2>1, Slack
  <2> QED
    BY <2>2 DEF L
<1>15. (LimitLeavesProfit /\ RatioAlmostKept /\ LossAlmostCapped)'
  BY <1>1, <1>8, <1>11, <1>12, <1>13, <1>14, NextLimitBounds
<1>16. Resting'
  BY <1>1, <1>10, <1>11 DEF Resting, Scale, Tick, given
<1> QED
  BY <1>12, <1>13, <1>15, <1>16

\* The second limit is the first and a tick, or the ceiling below it.
LEMMA RepriceInv == IInv /\ Reprice => IInv'
<1> SUFFICES ASSUME IInv, Reprice PROVE IInv'
  OBVIOUS
<1> USE DEF IInv
<1>1. /\ Selected /\ Selected' /\ pc = "working" /\ pc' = "repriced"
      /\ UNCHANGED <<given, i, long, short>>
  BY DEF Reprice, Selected
<1> DEFINE requested == (NetDebit(short) + 20) * Scale
           n == limit \div Tick
<1>2. /\ Scale \in Nat \ {0} /\ Tick \in Nat \ {0} /\ Tick = 5 * Scale
      /\ Width(short) \in Int /\ limit \in Int /\ n \in Int /\ limit = n * Tick
      /\ MaxLoss * Scale \in Int /\ Width(short) * RatioDen \in Int
  <2>1. /\ Scale \in Nat \ {0} /\ Tick \in Nat \ {0} /\ Tick = 5 * Scale
    BY TickType
  <2>2. Width(short) \in Int /\ limit \in Int
    BY <1>1, WidthType DEF TypeOK
  <2>3. limit = n * Tick
    BY <1>1 DEF Resting
  <2>4. n \in Int
    BY <2>1, <2>2
  <2>5. MaxLoss * Scale \in Int /\ Width(short) * RatioDen \in Int
    BY Settings, <2>1, <2>2
  <2> HIDE DEF n
  <2> QED
    BY <2>1, <2>2, <2>3, <2>4, <2>5
<1>3. requested \in Int
  <2>1. long \in 1..N /\ short \in 1..N
    BY Settings, <1>1 DEF TypeOK
  <2>2. NetDebit(short) + 20 \in Int
    BY <2>1 DEF TypeOK, NetDebit
  <2> QED
    BY <1>2, <2>2
<1>4. /\ DebitMax \in Int /\ DebitMax <= (Width(short) - 5) * Scale
      /\ DebitMax <= Width(short) * RatioDen
  <2>1. DebitMax = SafeDebitMax(requested)
    BY DEF DebitMax
  <2> HIDE DEF requested
  <2> QED
    BY <1>1, <1>3, <2>1, Clamped
<1>5. PICK t \in Rounded(limit + Tick) : limit' = Repriced(t)
  BY DEF Reprice
<1>6. t = limit + Tick
  <2>1. limit + Tick = (n + 1) * Tick /\ n + 1 \in Int
    <3> HIDE DEF n
    <3> QED
      BY <1>2
  <2> QED
    BY <2>1, <1>5, RoundedWhole
<1>7. limit' \in Int /\ limit' <= DebitMax /\ limit' <= limit + Tick
  BY <1>2, <1>4, <1>5, <1>6 DEF Repriced, Lesser
<1>8. /\ limit' <= (Width(short) - 5) * Scale
      /\ 2 * limit' <= 2 * (Width(short) * RatioDen) + Tick
      /\ 2 * limit' <= 2 * MaxLoss * Scale + 3 * Tick
  <2>1. limit' <= (Width(short) - 5) * Scale
    <3>1. (Width(short) - 5) * Scale \in Int
      BY <1>2
    <3> QED
      BY <1>4, <1>7, <3>1
  <2>2. 2 * limit' <= 2 * (Width(short) * RatioDen) + Tick
    <3> DEFINE C == Width(short) * RatioDen
    <3>1. C \in Int /\ limit' <= C /\ Tick \in Nat /\ limit' \in Int
      BY <1>2, <1>4, <1>7
    <3> HIDE DEF C
    <3>2. 2 * limit' <= 2 * C + Tick
      BY <3>1, Slack
    <3> QED
      BY <3>2 DEF C
  <2>3. 2 * limit <= 2 * MaxLoss * Scale + Tick /\ 2 * MaxLoss * Scale \in Int
    BY Settings, <1>1, <1>2 DEF Resting
  <2>4. 2 * limit' <= 2 * MaxLoss * Scale + 3 * Tick
    <3> DEFINE L == 2 * MaxLoss * Scale
    <3>1. /\ L \in Int /\ 2 * limit <= L + Tick
          /\ Tick \in Nat /\ limit \in Int /\ limit' \in Int /\ limit' <= limit + Tick
      BY <1>2, <1>7, <2>3
    <3> HIDE DEF L
    <3>2. 2 * limit' <= L + 3 * Tick
      BY <3>1, Slack
    <3> QED
      BY <3>2 DEF L
  <2> QED
    BY <2>1, <2>2, <2>4
<1>9. TypeOK'
  BY <1>1, <1>7 DEF TypeOK, Selected, given
<1>10. LongLoop' /\ ShortLoop' /\ LongStrikeRight' /\ ShortStrikeRight'
  BY <1>1, ScansKept
<1>11. (LimitLeavesProfit /\ RatioAlmostKept /\ LossAlmostCapped)'
  BY <1>1, <1>8, <1>9, <1>10, NextLimitBounds
<1>12. Resting'
  BY <1>1 DEF Resting
<1> QED
  BY <1>9, <1>10, <1>11, <1>12

-------------------------------------------------------------------------
\* The theorems.

\* A step that changes nothing keeps the invariant.
LEMMA OverInv == IInv /\ UNCHANGED vars => IInv'
<1> SUFFICES ASSUME IInv, UNCHANGED vars PROVE IInv'
  OBVIOUS
<1>1. \A k : GapBelowWidth(k)' = GapBelowWidth(k) /\ Acceptable(k)' = Acceptable(k)
  BY AcceptableKept DEF vars, given, GapBelowWidth
<1>2. Scale' = Scale /\ Tick' = Tick /\ Width(short)' = Width(short)
  BY DEF vars, given, Scale, Tick, Width
<1>3. TypeOK' /\ (Selected' <=> Selected) /\ (Priced' <=> Priced)
  BY DEF IInv, TypeOK, vars, given, Selected, Priced
<1>4. LongLoop' /\ LongStrikeRight' /\ ShortLoop' /\ ShortStrikeRight'
  BY <1>1, <1>3 DEF IInv, vars, LongLoop, LongStrikeRight, ShortLoop, ShortStrikeRight
<1>5. OrderParts'
  BY <1>2, <1>3 DEF IInv, vars, given, OrderParts, Resting, LimitLeavesProfit,
                    RatioAlmostKept, RatioSlack, LossAlmostCapped
<1> QED
  BY <1>3, <1>4, <1>5 DEF IInv, OrderParts

\* The loop invariants and the bounds on the limits hold in every reachable state.
THEOREM Invariance == Spec => []IInv
<1>1. IInv /\ [Next]_vars => IInv'
  BY ScanLongInv, LongFoundInv, ScanShortInv, ShortFoundInv, PlaceInv, RepriceInv, OverInv
     DEF Next, Over
<1> QED
  BY <1>1, InitInv, PTL DEF Spec

\* Every variable keeps its type.
THEOREM TypeCorrect == Spec => []TypeOK
<1>1. IInv => TypeOK
  BY DEF IInv
<1> QED
  BY <1>1, Invariance, PTL

\* The downward scan of select_spread finds the strike its rule describes.
THEOREM LongStrikeIsRight == Spec => []LongStrikeRight
<1>1. IInv => LongStrikeRight
  BY DEF IInv
<1> QED
  BY <1>1, Invariance, PTL

\* The upward scan of select_spread finds the strike its rule describes.
THEOREM ShortStrikeIsRight == Spec => []ShortStrikeRight
<1>1. IInv => ShortStrikeRight
  BY DEF IInv
<1> QED
  BY <1>1, Invariance, PTL

\* Without arbitrage in the chain, stopping at the first strike that fails loses
\* nothing: a strike past it has less debit and breakeven in its favour only, and
\* the profit grows with the strike from the first pair on.
LEMMA NothingBeyond == IInv => WidestWhenArbitrageFree
<1> SUFFICES ASSUME IInv, Selected, ArbitrageFree, NEW k \in long + 1..N, Acceptable(k), k > short
             PROVE  FALSE
  BY DEF WidestWhenArbitrageFree, IInv, TypeOK
<1> DEFINE s == short + 1
           f == long + 1
<1>1. /\ long \in 1..N - 1 /\ short \in 1..N /\ long < short /\ f <= s /\ s <= k
      /\ s \in 1..N /\ f \in 1..N /\ k \in 1..N
  BY Settings DEF IInv, TypeOK, ShortStrikeRight
<1>2. ~Acceptable(s)
  BY Settings, <1>1 DEF IInv, ShortStrikeRight
<1>3. GapBelowWidth(long)
  BY <1>1 DEF IInv, LongStrikeRight, Selected
<1>4. /\ ask[long] \in Int /\ bid[s] \in Int /\ bid[f] \in Int /\ bid[k] \in Int
      /\ Strike[long] \in Int /\ Strike[s] \in Int /\ Strike[f] \in Int /\ popLimit \in Int
  BY EntryDecisionAssumption, <1>1 DEF IInv, TypeOK
<1>5. bid[s] >= bid[k]
  BY <1>1, <1>4 DEF ArbitrageFree
<1>6. bid[f] - bid[s] <= Strike[s] - Strike[f]
  <2>1. CASE f < s
    BY <1>1, <2>1 DEF ArbitrageFree
  <2>2. CASE f = s
    BY <1>4, <2>2
  <2> QED
    BY <1>1, <2>1, <2>2
<1>7. NetDebit(s) <= MaxLoss /\ PopOk(s)
  BY Settings, <1>4, <1>5 DEF Acceptable, NetDebit, PopOk
<1>8. NetDebit(s) < Width(s)
  <2>1. ask[long] - bid[f] < Strike[f] - Strike[long]
    BY <1>3 DEF GapBelowWidth
  <2>2. ask[long] - bid[s] < Strike[s] - Strike[long]
    <3> HIDE DEF f, s
    <3>1. ask[long] \in Int /\ bid[s] \in Int /\ bid[f] \in Int
      BY <1>4
    <3> QED
      BY <1>4, <1>6, <2>1, <3>1
  <2> QED
    BY <2>2 DEF NetDebit, Width
<1> QED
  BY <1>2, <1>7, <1>8 DEF Acceptable

\* On a chain without arbitrage, no acceptable short is wider than the chosen one.
THEOREM EarlyBreakLosesNothing == Spec => []WidestWhenArbitrageFree
  BY NothingBeyond, Invariance, PTL

\* Neither limit can fill at a sure loss.
THEOREM LimitsLeaveProfit == Spec => []LimitLeavesProfit
<1>1. IInv => LimitLeavesProfit
  BY DEF IInv
<1> QED
  BY <1>1, Invariance, PTL

\* Neither limit is more than half a tick above the ceiling of the profit ratio.
THEOREM RatioKeptToHalfATick == Spec => []RatioAlmostKept
<1>1. IInv => RatioAlmostKept
  BY DEF IInv
<1> QED
  BY <1>1, Invariance, PTL

\* Neither limit is more than a tick and a half above max_loss_usd.
THEOREM LossCappedToATickAndAHalf == Spec => []LossAlmostCapped
<1>1. IInv => LossAlmostCapped
  BY DEF IInv
<1> QED
  BY <1>1, Invariance, PTL
=========================================================================
