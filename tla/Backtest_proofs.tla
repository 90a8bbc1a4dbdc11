------------------------ MODULE Backtest_proofs ------------------------
(***************************************************************************)
(* What a simulated trade of the option backtests can lose, for every      *)
(* market, grid, half-spread and limit: the bound that the runs of the     *)
(* backtests rely on when they size a position.  And the monthly cap, for  *)
(* every calendar of markets: the sums, the stopped months, the drawdown.  *)
(***************************************************************************)
EXTENDS Backtest, Figures_proofs

\* A market that the data can hold: the vol is no larger than the index itself.
Market == [open : Nat, settle : Nat, vol : Nat, bars : Seq([late : BOOLEAN, spot : Nat])]
Quoted(m) == m \in Market /\ m.vol <= m.open

-------------------------------------------------------------------------
(* The strikes that are chosen, and their prices.                          *)

\* The strikes of the grid are integers between its ends.
LEMMA GridBounds ==
    ASSUME NEW S \in Nat
    PROVE  \E lo, hi \in Int : StrikeGrid(S) \subseteq {K \in Int : lo <= K /\ K <= hi}
<1> DEFINE anchor == Spacing * ((2 * S + Spacing) \div (2 * Spacing))
<1>1. anchor \in Int /\ Spacing \in Nat \ {0}
  <2>1. Spacing \in Nat \ {0} /\ 2 * Spacing \in Nat \ {0} /\ 2 * S + Spacing \in Nat
    BY SpreadAssumption
  <2>2. (2 * S + Spacing) \div (2 * Spacing) \in Int
    BY <2>1
  <2> QED
    BY <2>1, <2>2
<1>2. ASSUME NEW i \in -Below..Above - 1
      PROVE  /\ anchor + i * Spacing \in Int
             /\ anchor - Below * Spacing <= anchor + i * Spacing
             /\ anchor + i * Spacing <= anchor + Above * Spacing
  <2>1. i \in Int /\ -Below <= i /\ i <= Above /\ Below \in Nat /\ Above \in Nat
    BY SpreadAssumption
  <2>2. \A a, c, d \in Int : a <= c /\ d > 0 => a * d <= c * d
    OBVIOUS
  <2>3. i * Spacing <= Above * Spacing /\ -Below * Spacing <= i * Spacing
    BY <1>1, <2>1, <2>2
  <2> HIDE DEF anchor
  <2> QED
    BY <1>1, <2>1, <2>3
<1>3. anchor - Below * Spacing \in Int /\ anchor + Above * Spacing \in Int
  <2> HIDE DEF anchor
  <2> QED
    BY <1>1, SpreadAssumption
<1>4. \A K \in StrikeGrid(S) : /\ K \in Int
                               /\ anchor - Below * Spacing <= K
                               /\ K <= anchor + Above * Spacing
  <2>1. StrikeGrid(S) = {anchor + i * Spacing : i \in -Below..Above - 1}
    BY DEF StrikeGrid
  <2> HIDE DEF anchor
  <2> QED
    BY <1>2, <2>1
<1> HIDE DEF anchor
<1> QED
  BY <1>3, <1>4

\* A walk over strikes of the grid ends at one that passes, or finds none.
LEMMA WalkEnds ==
    ASSUME NEW S \in Nat, NEW good \in SUBSET StrikeGrid(S)
    PROVE  /\ WalkDown(good) # None => WalkDown(good) \in good
           /\ WalkUp(good) # None => WalkUp(good) \in good
<1>1. PICK lo \in Int, hi \in Int : StrikeGrid(S) \subseteq {K \in Int : lo <= K /\ K <= hi}
  BY GridBounds
<1>2. good \in SUBSET Int /\ \A K \in good : lo <= K /\ K <= hi
  BY <1>1
<1>3. CASE good = {}
  BY <1>3 DEF WalkDown, WalkUp
<1>4. CASE good # {}
  <2>1. Max(good) \in good /\ Min(good) \in good
    BY <1>2, <1>4, MaxIn, MinIn
  <2> DEFINE down == {K \in good : \A i \in 0..(Max(good) - K) \div Spacing :
                                       K + i * Spacing \in good}
             up == {K \in good : \A i \in 0..(K - Min(good)) \div Spacing :
                                       K - i * Spacing \in good}
  <2>2. \A K \in good : K - K = 0 /\ 0 \div Spacing = 0
    BY <1>2, SpreadAssumption
  <2>3. \A K \in good, i \in 0..0 : K + i * Spacing = K /\ K - i * Spacing = K
    BY <1>2, SpreadAssumption
  <2>4. Max(good) \in down /\ Min(good) \in up
    BY <2>1, <2>2, <2>3
  <2>5. /\ down \in SUBSET Int /\ \A K \in down : lo <= K
        /\ up \in SUBSET Int /\ \A K \in up : K <= hi
    BY <1>2
  <2>6. Min(down) \in down /\ Max(up) \in up
    <3> HIDE DEF down, up
    <3> QED
      BY <2>4, <2>5, MaxIn, MinIn
  <2>7. WalkDown(good) = Min(down) /\ WalkUp(good) = Max(up)
    BY <1>4 DEF WalkDown, WalkUp
  <2> QED
    BY <2>6, <2>7
<1> QED
  BY <1>3, <1>4

\* A walk away from a leg ends at a viable distance, or at none.
LEMMA WalkAwayViable ==
    ASSUME NEW viable \in SUBSET Int, NEW hi \in Int, \A w \in viable : w <= hi, NEW ending,
           WalkAway(viable, ending) # 0
    PROVE  WalkAway(viable, ending) \in viable
<1> DEFINE reached == {w \in viable : \A e \in ending : w < e}
<1>1. reached # {} /\ WalkAway(viable, ending) = Max(reached)
  BY DEF WalkAway
<1>2. reached \in SUBSET Int /\ \A w \in reached : w <= hi
  OBVIOUS
<1>3. Max(reached) \in reached
  <2> HIDE DEF reached
  <2> QED
    BY <1>1, <1>2, MaxIn
<1> QED
  BY <1>1, <1>3

-------------------------------------------------------------------------
(* Prices.                                                                 *)

\* The parts of a market.
LEMMA MarketParts ==
    ASSUME NEW m \in Market
    PROVE  /\ m.open \in Nat /\ m.settle \in Nat /\ m.vol \in Nat
           /\ m.open \in Int /\ m.settle \in Int /\ m.vol \in Int
           /\ DOMAIN m.bars \subseteq Nat
           /\ \A i \in DOMAIN m.bars : m.bars[i].spot \in Int
<1>1. /\ m.open \in Nat /\ m.settle \in Nat /\ m.vol \in Nat
      /\ m.bars \in Seq([late : BOOLEAN, spot : Nat])
  BY DEF Market
<1>2. ASSUME NEW R, NEW s \in Seq(R)
      PROVE  DOMAIN s \subseteq Nat /\ \A i \in DOMAIN s : s[i] \in R
  OBVIOUS
<1>3. \A r \in [late : BOOLEAN, spot : Nat] : r.spot \in Int
  OBVIOUS
<1>4. /\ DOMAIN m.bars \subseteq Nat
      /\ \A i \in DOMAIN m.bars : m.bars[i] \in [late : BOOLEAN, spot : Nat]
  BY <1>1, <1>2
<1> QED
  BY <1>1, <1>3, <1>4

\* Prices are not negative.
LEMMA PriceType ==
    ASSUME NEW S \in Int, NEW vol \in Int, NEW K \in Int
    PROVE  /\ BsCallPrice(K, S, vol) \in Int /\ BsCallPrice(K, S, vol) >= 0
           /\ BsPutPrice(K, S, vol) \in Int /\ BsPutPrice(K, S, vol) >= 0
<1>1. TimeValue(K, S, vol) \in Nat
  BY DEF TimeValue, Greater, Distance
<1> QED
  BY <1>1 DEF BsCallPrice, BsPutPrice, Greater

\* A call is worth something between nothing and more, and less at a higher strike.
LEMMA CallFalls ==
    ASSUME NEW S \in Int, NEW vol \in Int, NEW K \in Int, NEW J \in Int, K <= J
    PROVE  /\ BsCallPrice(K, S, vol) \in Nat /\ BsPutPrice(K, S, vol) \in Nat
           /\ BsCallPrice(J, S, vol) <= BsCallPrice(K, S, vol)
<1>1. /\ TimeValue(K, S, vol) \in Nat /\ TimeValue(J, S, vol) \in Nat
      /\ TimeValue(J, S, vol) + Greater(0, S - J) <= TimeValue(K, S, vol) + Greater(0, S - K)
  BY DEF TimeValue, Greater, Distance
<1> QED
  BY <1>1 DEF BsCallPrice, BsPutPrice, Greater

\* A half-spread is a positive integer.
LEMMA HalfSpreadType ==
    ASSUME NEW mid \in Int, NEW K \in Int, NEW S \in Int
    PROVE  HalfSpread(mid, K, S) \in Int /\ HalfSpread(mid, K, S) >= 0
<1> DEFINE blend == Lesser(Distance(K, S), FarDistance)
           share == ((FarPct - AtmPct) * blend) \div FarDistance
           pct == AtmPct + share
<1>1. blend \in Int /\ FarPct - AtmPct \in Int /\ FarDistance \in Nat \ {0}
  BY SpreadAssumption DEF Lesser, Distance, Greater
<1>2. (FarPct - AtmPct) * blend \in Int
  <2> HIDE DEF blend
  <2> QED
    BY <1>1
<1>3. pct \in Int
  <2>1. share \in Int
    <3> HIDE DEF blend
    <3> QED
      BY <1>1, <1>2
  <2> HIDE DEF share
  <2> QED
    BY <2>1, SpreadAssumption
<1>4. mid * pct \in Int
  <2> HIDE DEF pct
  <2> QED
    BY <1>3
<1>5. (mid * pct) \div 100 \in Int /\ MinHalf \in Nat
  <2> HIDE DEF pct
  <2> QED
    BY <1>4, SpreadAssumption
<1>6. HalfSpread(mid, K, S) = Greater(MinHalf, (mid * pct) \div 100)
  BY DEF HalfSpread
<1> HIDE DEF pct
<1> QED
  BY <1>5, <1>6 DEF Greater

\* The bid and the ask of a call are integers.
LEMMA QuoteType ==
    ASSUME NEW S \in Int, NEW vol \in Int, NEW K \in Int
    PROVE  /\ CallBid(K, S, vol) \in Int /\ CallAsk(K, S, vol) \in Int
           /\ PutBid(K, S, vol) \in Int /\ PutAsk(K, S, vol) \in Int
<1>1. BsCallPrice(K, S, vol) \in Int /\ BsPutPrice(K, S, vol) \in Int
  BY PriceType
<1>2. /\ HalfSpread(BsCallPrice(K, S, vol), K, S) \in Int
      /\ HalfSpread(BsPutPrice(K, S, vol), K, S) \in Int
  BY <1>1, HalfSpreadType
<1> QED
  BY <1>1, <1>2 DEF CallBid, CallAsk, PutBid, PutAsk, Bid, Ask, Greater

\* Selling a spread at a stop never costs more than the two half-spreads.
LEMMA StopCost ==
    ASSUME NEW m \in Market, NEW spot \in Int, NEW long \in Int, NEW short \in Int, long <= short
    PROVE  /\ CloseCredit(m, long, short, spot) \in Int
           /\ CloseCredit(m, long, short, spot) >=
                -(HalfSpread(BsCallPrice(long, spot, StopVol(m)), long, spot)
                  + HalfSpread(BsCallPrice(short, spot, StopVol(m)), short, spot))
<1>1. StopVol(m) \in Int
  BY MarketParts DEF StopVol
<1> DEFINE dear == BsCallPrice(long, spot, StopVol(m))
           cheap == BsCallPrice(short, spot, StopVol(m))
<1>2. dear \in Int /\ cheap \in Int /\ 0 <= cheap /\ cheap <= dear
  BY <1>1, PriceType, CallFalls
<1>3. /\ HalfSpread(dear, long, spot) \in Int
      /\ HalfSpread(cheap, short, spot) \in Int
  <2> HIDE DEF dear, cheap
  <2> QED
    BY <1>2, HalfSpreadType
<1>4. CloseCredit(m, long, short, spot) =
          Greater(0, dear - HalfSpread(dear, long, spot))
              - (cheap + HalfSpread(cheap, short, spot))
  BY DEF CloseCredit, CallBid, CallAsk, Bid, Ask
<1> HIDE DEF dear, cheap
<1>5. /\ CloseCredit(m, long, short, spot) \in Int
      /\ CloseCredit(m, long, short, spot) >=
            -(HalfSpread(dear, long, spot) + HalfSpread(cheap, short, spot))
  BY <1>2, <1>3, <1>4 DEF Greater
<1> QED
  BY <1>5 DEF dear, cheap

\* At expiry a call spread pays between nothing and its width.
LEMMA PayoffBounds ==
    ASSUME NEW S \in Int, NEW long \in Int, NEW short \in Int, long <= short
    PROVE  /\ Payoff(long, short, S) \in Int
           /\ 0 <= Payoff(long, short, S) /\ Payoff(long, short, S) <= short - long
BY DEF Payoff, Greater

\* A condor loses at expiry no more than the wider of its wings, and only on one side.
LEMMA CondorBounds ==
    ASSUME NEW S \in Int, NEW longPut \in Int, NEW shortPut \in Int, NEW shortCall \in Int,
           NEW longCall \in Int, longPut <= shortPut, shortPut <= shortCall, shortCall <= longCall
    PROVE  /\ CondorPayoff(longPut, shortPut, shortCall, longCall, S) \in Int
           /\ CondorPayoff(longPut, shortPut, shortCall, longCall, S) >=
                -Greater(longCall - shortCall, shortPut - longPut)
BY DEF CondorPayoff, Greater

-------------------------------------------------------------------------
(* The trades.                                                             *)

\* v5: the wings bound the loss, whatever the credit is worth.
LEMMA SigmaCondorBounded ==
    ASSUME NEW m, Quoted(m)
    PROVE  /\ SigmaCondorTrade(m).pnl \in Int
           /\ SigmaCondorTrade(m).pnl >= -SigmaCondorTrade(m).risk
<1>1. /\ m.open \in Nat /\ m.vol \in Nat /\ m.vol <= m.open
      /\ m.open \in Int /\ m.vol \in Int /\ m.settle \in Int
  BY MarketParts DEF Quoted
<1> DEFINE shortCall == m.open + m.vol
           shortPut == m.open - m.vol
           callWing == (shortCall * WingMille) \div 1000
           putWing == (shortPut * WingMille) \div 1000
           longCall == shortCall + callWing
           longPut == shortPut - putWing
           call(K) == BsCallPrice(K, m.open, m.vol)
           put(K) == BsPutPrice(K, m.open, m.vol)
           credit == (call(shortCall) - call(longCall)) + (put(shortPut) - put(longPut))
<1>2. shortCall \in Nat /\ shortPut \in Nat /\ shortPut <= shortCall
  BY <1>1
<1>3. callWing \in Nat /\ putWing \in Nat
  <2>1. \A x \in Nat : x * WingMille \in Nat
    BY SpreadAssumption
  <2>2. \A x \in Nat : x \div 1000 \in Nat
    OBVIOUS
  <2> HIDE DEF shortCall, shortPut
  <2> QED
    BY <1>2, <2>1, <2>2
<1>4. /\ longCall \in Int /\ longPut \in Int
      /\ longPut <= shortPut /\ shortCall <= longCall
  <2> HIDE DEF shortCall, shortPut, callWing, putWing
  <2> QED
    BY <1>2, <1>3
<1>5. credit \in Int
  <2>1. /\ call(shortCall) \in Int /\ call(longCall) \in Int
        /\ put(shortPut) \in Int /\ put(longPut) \in Int
    <3> HIDE DEF shortCall, shortPut, longCall, longPut
    <3>1. shortCall \in Int /\ shortPut \in Int
      BY <1>2
    <3> QED
      BY <1>1, <1>4, <3>1, PriceType
  <2> HIDE DEF call, put, shortCall, shortPut, longCall, longPut
  <2> QED
    BY <2>1
<1>6. /\ SigmaCondorTrade(m).pnl =
            credit + CondorPayoff(longPut, shortPut, shortCall, longCall, m.settle)
      /\ SigmaCondorTrade(m).risk =
            Greater(longCall - shortCall, shortPut - longPut) - credit
  BY DEF SigmaCondorTrade
<1> HIDE DEF credit, longCall, longPut, shortCall, shortPut
<1>7. /\ CondorPayoff(longPut, shortPut, shortCall, longCall, m.settle) \in Int
      /\ CondorPayoff(longPut, shortPut, shortCall, longCall, m.settle) >=
            -Greater(longCall - shortCall, shortPut - longPut)
      /\ Greater(longCall - shortCall, shortPut - longPut) \in Int
  <2>1. shortCall \in Int /\ shortPut \in Int
    BY <1>2
  <2>2. Greater(longCall - shortCall, shortPut - longPut) \in Int
    BY <1>4, <2>1 DEF Greater
  <2> QED
    BY <1>1, <1>2, <1>4, <2>1, <2>2, CondorBounds
<1> QED
  BY <1>5, <1>6, <1>7

\* v6: the strikes are ascending strikes, and the debit is affordable.
LEMMA StrikesAffordable ==
    ASSUME NEW m \in Market, PickLongStrike(m) # None,
           PickShortStrike(m, PickLongStrike(m)) # 0
    PROVE  LET long == PickLongStrike(m)
               short == long + PickShortStrike(m, long)
           IN  /\ long \in Int /\ short \in Int /\ long < short
               /\ Debit(m, long, short) \in Int /\ Debit(m, long, short) <= MaxLoss
<1>1. m.open \in Nat /\ m.open \in Int /\ m.vol \in Int
  BY MarketParts
<1>2. PICK lo \in Int, hi \in Int : StrikeGrid(m.open) \subseteq {K \in Int : lo <= K /\ K <= hi}
  BY <1>1, GridBounds
<1> DEFINE long == PickLongStrike(m)
           gap(K) == CallAsk(K, m.open, m.vol) - CallBid(K + Spacing, m.open, m.vol)
           good == {K \in StrikeGrid(m.open) :
                       K + Spacing \in StrikeGrid(m.open) /\ gap(K) < GapWidth}
<1>3. long \in StrikeGrid(m.open)
  <2>1. long = WalkDown(good)
    BY DEF PickLongStrike
  <2>2. good \in SUBSET StrikeGrid(m.open)
    OBVIOUS
  <2> HIDE DEF good
  <2> QED
    BY <1>1, <2>1, <2>2, WalkEnds
<1>4. long \in Int
  BY <1>2, <1>3
<1> HIDE DEF long
<1> DEFINE widths == {K - long : K \in {J \in StrikeGrid(m.open) : J > long}}
           debit(w) == Debit(m, long, long + w)
           ok(w) == Affordable(m, debit(w)) /\ PopOk(m, long + debit(w))
           viable == {w \in widths : debit(w) >= 0 /\ ok(w)}
           ending == {w \in widths : debit(w) >= 0 /\ ~ok(w)}
           width == PickShortStrike(m, long)
<1>5. width = WalkAway(viable, ending)
  BY DEF PickShortStrike
<1>6. \A w \in widths : w \in Int /\ 0 < w /\ w <= hi - long
  BY <1>2, <1>4
<1>7. width \in viable
  <2>1. viable \in SUBSET Int /\ hi - long \in Int /\ \A w \in viable : w <= hi - long
    BY <1>2, <1>4, <1>6
  <2>2. WalkAway(viable, ending) # 0
    BY <1>5 DEF long
  <2> HIDE DEF viable, ending
  <2> QED
    BY <1>5, <2>1, <2>2, WalkAwayViable
<1>8. width \in Int /\ 0 < width /\ Affordable(m, Debit(m, long, long + width))
  BY <1>6, <1>7
<1> HIDE DEF width
<1>9. Debit(m, long, long + width) \in Int
  <2>1. long + width \in Int
    BY <1>4, <1>8
  <2>2. /\ CallAsk(long, m.open, m.vol) \in Int
        /\ CallBid(long + width, m.open, m.vol) \in Int
    BY <1>1, <1>4, <2>1, QuoteType
  <2> QED
    BY <2>2 DEF Debit
<1> QED
  BY <1>4, <1>8, <1>9 DEF Affordable, long, width

\* v6: the lower strike is a strike of the grid.
LEMMA LongStrikeType ==
    ASSUME NEW m \in Market, PickLongStrike(m) # None
    PROVE  PickLongStrike(m) \in Int
<1>1. m.open \in Nat
  BY MarketParts
<1>2. PICK lo \in Int, hi \in Int : StrikeGrid(m.open) \subseteq {K \in Int : lo <= K /\ K <= hi}
  BY <1>1, GridBounds
<1> DEFINE gap(K) == CallAsk(K, m.open, m.vol) - CallBid(K + Spacing, m.open, m.vol)
           good == {K \in StrikeGrid(m.open) :
                       K + Spacing \in StrikeGrid(m.open) /\ gap(K) < GapWidth}
<1>3. PickLongStrike(m) = WalkDown(good) /\ good \in SUBSET StrikeGrid(m.open)
  BY DEF PickLongStrike
<1> HIDE DEF good
<1>4. PickLongStrike(m) \in good
  BY <1>1, <1>3, WalkEnds
<1> QED
  BY <1>2, <1>3, <1>4

\* v6: the stop fires at a bar of the day or at none.
LEMMA StopAtBar ==
    ASSUME NEW m \in Market, NEW breakeven, StopBar(m, breakeven) # 0
    PROVE  StopBar(m, breakeven) \in DOMAIN m.bars
<1> DEFINE firing == {i \in DOMAIN m.bars : /\ \A j \in 1..i : ~m.bars[j].late
                                            /\ Armed(m, breakeven, i)
                                            /\ m.bars[i].spot < breakeven}
<1>1. StopBar(m, breakeven) = IF firing = {} THEN 0 ELSE Min(firing)
  BY DEF StopBar
<1>2. DOMAIN m.bars \subseteq Nat
  BY MarketParts
<1>3. firing \subseteq DOMAIN m.bars
  OBVIOUS
<1> HIDE DEF firing
<1>4. 0 \in Int /\ firing \in SUBSET Int /\ \A i \in firing : 0 <= i
  BY <1>2, <1>3
<1>5. firing # {} => Min(firing) \in firing
  BY <1>4, MinIn
<1> QED
  BY <1>1, <1>3, <1>5

\* v6: what a spread brings, at a stop or at expiry.
LEMMA ProceedsBounded ==
    ASSUME NEW m \in Market, NEW long \in Int, NEW short \in Int, long <= short,
           NEW bar, bar = 0 \/ bar \in DOMAIN m.bars
    PROVE  LET proceeds == IF bar # 0 THEN CloseCredit(m, long, short, m.bars[bar].spot)
                                      ELSE Payoff(long, short, m.settle)
               spot == m.bars[bar].spot
               half(K) == HalfSpread(BsCallPrice(K, spot, StopVol(m)), K, spot)
           IN  /\ proceeds \in Int
               /\ bar = 0 => 0 <= proceeds /\ proceeds <= short - long
               /\ bar # 0 => proceeds >= -(half(long) + half(short))
<1>1. CASE bar = 0
  <2>1. m.settle \in Int
    BY MarketParts
  <2> QED
    BY <1>1, <2>1, PayoffBounds
<1>2. CASE bar # 0
  <2>1. m.bars[bar].spot \in Int
    BY <1>2, MarketParts
  <2> QED
    BY <1>2, <2>1, StopCost
<1> QED
  BY <1>1, <1>2

\* A row of a day that traded.
IsTrade(t) == t.skip = ""

\* v6: the parts of a trade.
LEMMA BullCallParts ==
    ASSUME NEW m, IsTrade(BullCallTrade(m))
    PROVE  LET long == PickLongStrike(m)
               short == long + PickShortStrike(m, long)
               debit == Debit(m, long, short)
               bar == StopBar(m, long + debit)
               proceeds == IF bar # 0 THEN CloseCredit(m, long, short, m.bars[bar].spot)
                                      ELSE Payoff(long, short, m.settle)
           IN  /\ long # None /\ short # long
               /\ BullCallTrade(m).pnl = proceeds - debit /\ BullCallTrade(m).debit = debit
               /\ BullCallTrade(m).stop = bar
               /\ BullCallTrade(m).long = long /\ BullCallTrade(m).short = short
<1>1. PickLongStrike(m) # None
  BY DEF BullCallTrade, Skipped, IsTrade
<1>2. PickLongStrike(m) + PickShortStrike(m, PickLongStrike(m)) # PickLongStrike(m)
  BY DEF BullCallTrade, Skipped, IsTrade
<1> QED
  BY <1>1, <1>2 DEF BullCallTrade

\* v6: a traded day loses at most the debit, or at a stop the debit and two half-spreads.
LEMMA BullCallBounded ==
    ASSUME NEW m \in Market, NEW t, t = BullCallTrade(m), IsTrade(t)
    PROVE  LET spot == m.bars[t.stop].spot
               half(K) == HalfSpread(BsCallPrice(K, spot, StopVol(m)), K, spot)
           IN  /\ t.pnl \in Int
               /\ t.debit <= MaxLoss
               /\ t.pnl + t.debit >= IF t.stop = 0 THEN 0 ELSE -(half(t.long) + half(t.short))
               /\ t.stop = 0 => t.pnl + t.debit <= t.short - t.long
<1>1. PICK long, short, debit, bar, proceeds, p :
          /\ long = PickLongStrike(m) /\ short = long + PickShortStrike(m, long)
          /\ debit = Debit(m, long, short) /\ bar = StopBar(m, long + debit)
          /\ proceeds = IF bar # 0 THEN CloseCredit(m, long, short, m.bars[bar].spot)
                                   ELSE Payoff(long, short, m.settle)
          /\ long # None /\ short # long /\ p = proceeds - debit
          /\ t.pnl = p /\ t.debit = debit /\ t.stop = bar
          /\ t.long = long /\ t.short = short
  BY BullCallParts, Zenon
<1>2. long \in Int
  BY <1>1, LongStrikeType
<1>3. PickShortStrike(m, long) # 0
  <2>1. short = long + PickShortStrike(m, long) /\ short # long
    BY <1>1, Zenon
  <2>2. long + 0 = long
    BY <1>2
  <2> QED
    BY <2>1, <2>2, Zenon
<1>4. /\ short \in Int /\ long <= short
      /\ debit \in Int /\ debit <= MaxLoss
  <2>1. /\ PickLongStrike(m) # None
        /\ PickShortStrike(m, PickLongStrike(m)) # 0
    BY <1>1, <1>3
  <2>2. /\ short \in Int /\ long < short /\ debit \in Int /\ debit <= MaxLoss
    BY <1>1, <2>1, StrikesAffordable
  <2>3. \A x, y \in Int : x < y => x <= y
    OBVIOUS
  <2> QED
    BY <1>2, <2>2, <2>3, Zenon
<1>5. bar = 0 \/ bar \in DOMAIN m.bars
  BY <1>1, StopAtBar
<1> DEFINE spot == m.bars[bar].spot
           half(K) == HalfSpread(BsCallPrice(K, spot, StopVol(m)), K, spot)
<1>6. /\ proceeds \in Int
      /\ bar = 0 => 0 <= proceeds /\ proceeds <= short - long
      /\ bar # 0 => proceeds >= -(half(long) + half(short))
  BY <1>1, <1>2, <1>4, <1>5, ProceedsBounded
<1>7. /\ t.pnl = proceeds - debit /\ t.debit = debit /\ t.stop = bar
      /\ t.long = long /\ t.short = short
  <2>1. /\ t.pnl = p /\ p = proceeds - debit
    BY <1>1, Zenon
  <2> QED
    BY <1>1, <2>1, Zenon
<1>8. proceeds - debit + debit = proceeds
  <2>1. \A x, y \in Int : x - y + y = x
    OBVIOUS
  <2> QED
    BY <1>4, <1>6, <2>1, Zenon
<1> HIDE DEF half
<1>10. t.pnl \in Int
  <2>1. proceeds - debit \in Int
    BY <1>4, <1>6
  <2> QED
    BY <1>7, <2>1, Zenon
<1>9. /\ t.debit <= MaxLoss
      /\ t.pnl + t.debit >= IF t.stop = 0 THEN 0 ELSE -(half(t.long) + half(t.short))
      /\ t.stop = 0 => t.pnl + t.debit <= t.short - t.long
  BY <1>4, <1>6, <1>7, <1>8
<1> QED
  BY <1>7, <1>9, <1>10 DEF half

\* v7: a short leg is a strike of the grid on its side of the spot.
LEMMA ShortLegs ==
    ASSUME NEW m \in Market
    PROVE  /\ PickShortCall(m) # None => PickShortCall(m) \in Int /\ m.open < PickShortCall(m)
           /\ PickShortPut(m) # None => PickShortPut(m) \in Int /\ PickShortPut(m) < m.open
<1>1. m.open \in Nat
  BY MarketParts
<1>2. PICK lo \in Int, hi \in Int : StrikeGrid(m.open) \subseteq {K \in Int : lo <= K /\ K <= hi}
  BY <1>1, GridBounds
<1> DEFINE calls == {K \in StrikeGrid(m.open) : K > m.open}
           puts == {K \in StrikeGrid(m.open) : K < m.open}
           callGap(K) == CallAsk(K, m.open, m.vol) - CallBid(K + Spacing, m.open, m.vol)
           putGap(K) == PutAsk(K, m.open, m.vol) - PutBid(K - Spacing, m.open, m.vol)
           goodCalls == {K \in calls : K + Spacing \in calls /\ callGap(K) < CondorGap}
           goodPuts == {K \in puts : K - Spacing \in puts /\ putGap(K) < CondorGap}
<1>3. PickShortCall(m) = WalkDown(goodCalls) /\ PickShortPut(m) = WalkUp(goodPuts)
  BY DEF PickShortCall, PickShortPut
<1>4. /\ goodCalls \in SUBSET calls /\ goodPuts \in SUBSET puts
      /\ calls \in SUBSET StrikeGrid(m.open) /\ puts \in SUBSET StrikeGrid(m.open)
  OBVIOUS
<1>5. /\ \A K \in calls : K \in Int /\ m.open < K
      /\ \A K \in puts : K \in Int /\ K < m.open
  BY <1>1, <1>2
<1> HIDE DEF goodCalls, goodPuts, calls, puts
<1>6. /\ goodCalls \in SUBSET StrikeGrid(m.open) /\ goodPuts \in SUBSET StrikeGrid(m.open)
  BY <1>4
<1>7. /\ PickShortCall(m) # None => PickShortCall(m) \in goodCalls
      /\ PickShortPut(m) # None => PickShortPut(m) \in goodPuts
  BY <1>1, <1>3, <1>6, WalkEnds
<1> QED
  BY <1>4, <1>5, <1>7

\* v7: a wing is paid for, and what its side can lose is within the limit.
LEMMA CallWingSafe ==
    ASSUME NEW m \in Market, NEW short \in Int, NEW w, w = PickCallWing(m, short), w # 0
    PROVE  /\ w \in Int /\ 0 < w
           /\ CallCredit(m, short, w) \in Int /\ CallCredit(m, short, w) >= 0
           /\ w - CallCredit(m, short, w) <= MaxLossPerSide
<1>1. m.open \in Nat /\ m.open \in Int /\ m.vol \in Int
  BY MarketParts
<1>2. PICK lo \in Int, hi \in Int : StrikeGrid(m.open) \subseteq {K \in Int : lo <= K /\ K <= hi}
  BY <1>1, GridBounds
<1> DEFINE widths == {K - short : K \in {J \in StrikeGrid(m.open) : J > short}}
           paid == {v \in widths : CallCredit(m, short, v) >= 0}
           safe == {v \in paid : SideLoss(v, CallCredit(m, short, v)) <= MaxLossPerSide}
<1>3. w = WalkAway(safe, paid \ safe)
  BY DEF PickCallWing
<1>4. \A v \in widths : v \in Int /\ 0 < v /\ v <= hi - short
  BY <1>2
<1>5. w \in safe
  <2>1. safe \in SUBSET widths
    OBVIOUS
  <2> HIDE DEF safe, paid, widths
  <2>2. safe \in SUBSET Int /\ hi - short \in Int /\ \A v \in safe : v <= hi - short
    BY <1>2, <1>4, <2>1
  <2> QED
    BY <1>3, <2>2, WalkAwayViable
<1>6. /\ w \in widths /\ CallCredit(m, short, w) >= 0
      /\ SideLoss(w, CallCredit(m, short, w)) <= MaxLossPerSide
  BY <1>5
<1> HIDE DEF widths
<1>7. w \in Int /\ 0 < w /\ short + w \in Int
  BY <1>4, <1>6
<1>8. CallCredit(m, short, w) \in Int
  <2>1. CallBid(short, m.open, m.vol) \in Int /\ CallAsk(short + w, m.open, m.vol) \in Int
    BY <1>1, <1>7, QuoteType
  <2> QED
    BY <2>1 DEF CallCredit
<1> QED
  BY <1>6, <1>7, <1>8 DEF SideLoss

\* The same of the put wing.
LEMMA PutWingSafe ==
    ASSUME NEW m \in Market, NEW short \in Int, NEW w, w = PickPutWing(m, short), w # 0
    PROVE  /\ w \in Int /\ 0 < w
           /\ PutCredit(m, short, w) \in Int /\ PutCredit(m, short, w) >= 0
           /\ w - PutCredit(m, short, w) <= MaxLossPerSide
<1>1. m.open \in Nat /\ m.open \in Int /\ m.vol \in Int
  BY MarketParts
<1>2. PICK lo \in Int, hi \in Int : StrikeGrid(m.open) \subseteq {K \in Int : lo <= K /\ K <= hi}
  BY <1>1, GridBounds
<1> DEFINE widths == {short - K : K \in {J \in StrikeGrid(m.open) : J < short}}
           paid == {v \in widths : PutCredit(m, short, v) >= 0}
           safe == {v \in paid : SideLoss(v, PutCredit(m, short, v)) <= MaxLossPerSide}
<1>3. w = WalkAway(safe, paid \ safe)
  BY DEF PickPutWing
<1>4. \A v \in widths : v \in Int /\ 0 < v /\ v <= short - lo
  BY <1>2
<1>5. w \in safe
  <2>1. safe \in SUBSET widths
    OBVIOUS
  <2> HIDE DEF safe, paid, widths
  <2>2. safe \in SUBSET Int /\ short - lo \in Int /\ \A v \in safe : v <= short - lo
    BY <1>2, <1>4, <2>1
  <2> QED
    BY <1>3, <2>2, WalkAwayViable
<1>6. /\ w \in widths /\ PutCredit(m, short, w) >= 0
      /\ SideLoss(w, PutCredit(m, short, w)) <= MaxLossPerSide
  BY <1>5
<1> HIDE DEF widths
<1>7. w \in Int /\ 0 < w /\ short - w \in Int
  BY <1>4, <1>6
<1>8. PutCredit(m, short, w) \in Int
  <2>1. PutBid(short, m.open, m.vol) \in Int /\ PutAsk(short - w, m.open, m.vol) \in Int
    BY <1>1, <1>7, QuoteType
  <2> QED
    BY <2>1 DEF PutCredit
<1> QED
  BY <1>6, <1>7, <1>8 DEF SideLoss

\* v7: the parts of a trade.
LEMMA GridCondorParts ==
    ASSUME NEW m, IsTrade(GridCondorTrade(m))
    PROVE  LET shortCall == PickShortCall(m)
               shortPut == PickShortPut(m)
               call == PickCallWing(m, shortCall)
               put == PickPutWing(m, shortPut)
               credit == CallCredit(m, shortCall, call) + PutCredit(m, shortPut, put)
           IN  /\ shortCall # None /\ shortPut # None /\ call # 0 /\ put # 0
               /\ GridCondorTrade(m).risk = MaxLossPerSide
               /\ GridCondorTrade(m).pnl =
                      credit + CondorPayoff(shortPut - put, shortPut, shortCall,
                                            shortCall + call, m.settle)
<1>1. None \notin {PickShortCall(m), PickShortPut(m)}
  BY DEF GridCondorTrade, Skipped, IsTrade
<1>2. 0 \notin {PickCallWing(m, PickShortCall(m)), PickPutWing(m, PickShortPut(m))}
  BY <1>1 DEF GridCondorTrade, Skipped, IsTrade
<1> QED
  BY <1>1, <1>2 DEF GridCondorTrade, Skipped, IsTrade

\* v7: the walks to the wings bound the loss by the limit of a side.
LEMMA GridCondorBounded ==
    ASSUME NEW m \in Market, NEW t, t = GridCondorTrade(m), IsTrade(t)
    PROVE  t.pnl \in Int /\ t.pnl >= -t.risk
<1>1. PICK shortCall, shortPut, call, put, cc, pc, payoff :
          /\ shortCall = PickShortCall(m) /\ shortPut = PickShortPut(m)
          /\ call = PickCallWing(m, shortCall) /\ put = PickPutWing(m, shortPut)
          /\ cc = CallCredit(m, shortCall, call) /\ pc = PutCredit(m, shortPut, put)
          /\ payoff = CondorPayoff(shortPut - put, shortPut, shortCall,
                                   shortCall + call, m.settle)
          /\ shortCall # None /\ shortPut # None /\ call # 0 /\ put # 0
          /\ t.risk = MaxLossPerSide /\ t.pnl = (cc + pc) + payoff
  BY GridCondorParts, Zenon
<1>2. m.open \in Int /\ m.settle \in Int
  BY MarketParts
<1>3. shortCall \in Int /\ shortPut \in Int /\ shortPut <= shortCall
  <2>1. shortCall \in Int /\ m.open < shortCall /\ shortPut \in Int /\ shortPut < m.open
    BY <1>1, ShortLegs
  <2> QED
    BY <1>2, <2>1
<1>4. call \in Int /\ 0 < call /\ cc \in Int /\ cc >= 0 /\ call - cc <= MaxLossPerSide
  BY <1>1, <1>3, CallWingSafe
<1>5. put \in Int /\ 0 < put /\ pc \in Int /\ pc >= 0 /\ put - pc <= MaxLossPerSide
  BY <1>1, <1>3, PutWingSafe
<1>6. payoff \in Int /\ (payoff >= -call \/ payoff >= -put)
  <2>1. /\ shortPut - put \in Int /\ shortCall + call \in Int
        /\ shortPut - put <= shortPut /\ shortCall <= shortCall + call
    BY <1>3, <1>4, <1>5
  <2>2. /\ payoff \in Int
        /\ payoff >= -Greater((shortCall + call) - shortCall, shortPut - (shortPut - put))
    BY <1>1, <1>2, <1>3, <2>1, CondorBounds
  <2> QED
    BY <1>3, <1>4, <1>5, <2>2 DEF Greater
<1>7. MaxLossPerSide \in Int
  BY SpreadAssumption
<1>8. (cc + pc) + payoff \in Int /\ (cc + pc) + payoff >= -MaxLossPerSide
  BY <1>4, <1>5, <1>6, <1>7
<1>9. t.risk = MaxLossPerSide /\ t.pnl = (cc + pc) + payoff
  BY <1>1, Zenon
<1> QED
  BY <1>8, <1>9, Zenon

-------------------------------------------------------------------------
(* The loop.                                                               *)

\* What LossBounded says of a trade t of strategy v in market m.
TradeBounded(v, t, m) ==
    IF v # "v6" THEN t.pnl >= -t.risk
    ELSE LET spot == m.bars[t.stop].spot
             half(K) == HalfSpread(BsCallPrice(K, spot, StopVol(m)), K, spot)
         IN  /\ t.debit <= MaxLoss
             /\ t.pnl + t.debit >= IF t.stop = 0 THEN 0 ELSE -(half(t.long) + half(t.short))
             /\ t.stop = 0 => t.pnl + t.debit <= t.short - t.long

\* A day that trades keeps the bound, in each of the three strategies.
LEMMA DayBounded ==
    ASSUME NEW m, Quoted(m), strategy \in {"v5", "v6", "v7"}, IsTrade(SimulateOneDay(m))
    PROVE  TradeBounded(strategy, SimulateOneDay(m), m)
<1>1. m \in Market
  BY DEF Quoted
<1>2. CASE strategy = "v5"
  <2>1. SimulateOneDay(m) = SigmaCondorTrade(m)
    BY <1>2 DEF SimulateOneDay
  <2>2. SimulateOneDay(m).pnl >= -SimulateOneDay(m).risk
    BY <2>1, SigmaCondorBounded
  <2> QED
    BY <1>2, <2>2 DEF TradeBounded
<1>3. CASE strategy = "v6"
  <2>1. SimulateOneDay(m) = BullCallTrade(m)
    BY <1>3 DEF SimulateOneDay
  <2> QED
    BY <1>1, <1>3, <2>1, BullCallBounded DEF TradeBounded
<1>4. CASE strategy = "v7"
  <2>1. SimulateOneDay(m) = GridCondorTrade(m)
    BY <1>4 DEF SimulateOneDay
  <2>2. SimulateOneDay(m).pnl >= -SimulateOneDay(m).risk
    BY <1>1, <2>1, GridCondorBounded
  <2> QED
    BY <1>4, <2>2 DEF TradeBounded
<1> QED
  BY <1>2, <1>3, <1>4

\* The loop is one of the three, and its ledger is a sequence.
LoopInv ==
    /\ strategy \in {"v5", "v6", "v7"}
    /\ \E S : ledger \in Seq(S)
    /\ HasTrade => TradeBounded(strategy, LastTrade, today)

\* The reason of a skipped row.
LEMMA ReasonKept ==
    ASSUME NEW mo, NEW reason
    PROVE  [month |-> mo, result |-> Skipped(reason)].result.skip = reason
BY DEF Skipped

\* A row that was skipped says why.
LEMMA SkippedSays ==
    ASSUME NEW reason, reason # "", NEW S, ledger \in Seq(S), Write(Skipped(reason))
    PROVE  (\E T : ledger' \in Seq(T)) /\ ~HasTrade'
<1>1. ledger'[Len(ledger')] = [month |-> Month, result |-> Skipped(reason)]
  BY Appended DEF Write
<1>2. ledger'[Len(ledger')].result.skip = reason
  <2>1. [month |-> Month, result |-> Skipped(reason)].result.skip = reason
    BY ReasonKept
  <2> QED
    BY <1>1, <2>1, Zenon
<1> QED
  BY <1>2, Appended DEF HasTrade, LastTrade, Write

\* No day of the backtests loses more than its strategy promises, for every calendar of
\* markets, every grid, half-spread and limit.
THEOREM LossIsBounded ==
    ASSUME \A d \in Days : \A m \in Markets[d] : Quoted(m)
    PROVE  BacktestInit /\ [][BacktestNext]_backtest => []LossBounded
<1>1. BacktestInit => LoopInv
  <2> SUFFICES ASSUME BacktestInit PROVE LoopInv
    OBVIOUS
  <2>1. ledger = <<>> /\ strategy \in {"v5", "v6", "v7"}
    BY DEF BacktestInit
  <2>2. ledger \in Seq({})
    BY <2>1
  <2> QED
    BY <2>1, <2>2 DEF LoopInv, HasTrade
<1>2. LoopInv /\ [BacktestNext]_backtest => LoopInv'
  <2> SUFFICES ASSUME LoopInv, [BacktestNext]_backtest PROVE LoopInv'
    OBVIOUS
  <2>1. PICK S : ledger \in Seq(S)
    BY DEF LoopInv
  <2>2. ASSUME UNCHANGED <<strategy, ledger, today>> PROVE LoopInv'
    BY <2>2 DEF LoopInv, HasTrade, LastTrade, TradeBounded
  <2>3. CASE UNCHANGED backtest
    BY <2>2, <2>3 DEF backtest
  <2>4. ASSUME NEW reason, reason # "", Write(Skipped(reason)), UNCHANGED strategy
        PROVE  LoopInv'
    BY <2>1, <2>4, SkippedSays DEF LoopInv
  <2>5. CASE EventDay
    BY <2>4, <2>5 DEF EventDay, NextDay
  <2>6. CASE MonthlyStop
    BY <2>4, <2>6 DEF MonthlyStop, NextDay
  <2>7. CASE NoPriorVix
    <3>1. CASE UNCHANGED ledger
      BY <2>2, <2>7, <3>1 DEF NoPriorVix, NextDay, Keep
    <3>2. CASE Write(Skipped("no_prior_vix"))
      BY <2>4, <2>7, <3>2 DEF NoPriorVix, NextDay
    <3> QED
      BY <2>7, <3>1, <3>2 DEF NoPriorVix
  <2>8. CASE NoBars
    BY <2>2, <2>8 DEF NoBars, NextDay, Keep
  <2>9. CASE TradeDay
    <3>1. PICK m \in Markets[day] : Write(SimulateOneDay(m)) /\ today' = m
      BY <2>9, Zenon DEF TradeDay
    <3>2. Quoted(m) /\ strategy \in {"v5", "v6", "v7"} /\ strategy' = strategy
      BY <2>9, <3>1 DEF TradeDay, Running, NextDay, LoopInv
    <3> DEFINE t == SimulateOneDay(m)
    <3>3. /\ ledger' \in Seq(S \cup {[month |-> Month, result |-> t]})
          /\ ledger'[Len(ledger')] = [month |-> Month, result |-> t]
      <4> HIDE DEF t
      <4> QED
        BY <2>1, <3>1, Appended DEF Write, t
    <3>4. LastTrade' = t
      <4> HIDE DEF t
      <4> QED
        BY <3>3 DEF LastTrade
    <3>5. IsTrade(t) => TradeBounded(strategy, t, m)
      BY <3>2, DayBounded
    <3>6. HasTrade' => IsTrade(t)
      <4> HIDE DEF t
      <4> QED
        BY <3>4 DEF HasTrade, IsTrade
    <3>7. TradeBounded(strategy, t, m) => TradeBounded(strategy, LastTrade, today)'
      <4> HIDE DEF t
      <4> QED
        BY <3>1, <3>2, <3>4 DEF TradeBounded
    <3> HIDE DEF t
    <3> QED
      BY <3>2, <3>3, <3>5, <3>6, <3>7 DEF LoopInv
  <2> QED
    BY <2>3, <2>5, <2>6, <2>7, <2>8, <2>9 DEF BacktestNext
<1>3. LoopInv => LossBounded
  BY Zenon DEF LoopInv, LossBounded, TradeBounded
<1> QED
  BY <1>1, <1>2, <1>3, PTL

-------------------------------------------------------------------------
(* The monthly cap.                                                        *)

\* What a skipped row says.
LEMMA SkippedParts ==
    ASSUME NEW reason
    PROVE  Skipped(reason).skip = reason /\ Skipped(reason).pnl = 0
BY DEF Skipped

\* Why a day is not traded.
Reasons == {"no_viable_long", "no_viable_short", "no_viable_short_strike",
            "no_viable_long_strike", "pop_below_threshold"}

\* A day is traded, or it is skipped for one of five reasons.
LEMMA TradedOrSkipped ==
    ASSUME NEW m, strategy \in {"v5", "v6", "v7"}
    PROVE  \/ IsTrade(SimulateOneDay(m))
           \/ \E reason \in Reasons : SimulateOneDay(m) = Skipped(reason)
<1>1. CASE strategy = "v5"
  <2>1. SimulateOneDay(m) = SigmaCondorTrade(m)
    BY <1>1 DEF SimulateOneDay
  <2>2. IsTrade(SigmaCondorTrade(m))
    BY DEF SigmaCondorTrade, IsTrade
  <2> QED
    BY <2>1, <2>2, Zenon
<1>2. CASE strategy = "v6"
  <2>1. SimulateOneDay(m) = BullCallTrade(m)
    BY <1>2 DEF SimulateOneDay
  <2>2. \/ BullCallTrade(m) = Skipped("no_viable_long")
        \/ BullCallTrade(m) = Skipped("no_viable_short")
        \/ IsTrade(BullCallTrade(m))
    BY DEF BullCallTrade, IsTrade
  <2> QED
    BY <2>1, <2>2, Zenon DEF Reasons
<1>3. CASE strategy = "v7"
  <2>1. SimulateOneDay(m) = GridCondorTrade(m)
    BY <1>3 DEF SimulateOneDay
  <2>2. \/ GridCondorTrade(m) = Skipped("no_viable_short_strike")
        \/ GridCondorTrade(m) = Skipped("no_viable_long_strike")
        \/ GridCondorTrade(m) = Skipped("pop_below_threshold")
        \/ IsTrade(GridCondorTrade(m))
    BY DEF GridCondorTrade, IsTrade
  <2> QED
    BY <2>1, <2>2, Zenon DEF Reasons
<1> QED
  BY <1>1, <1>2, <1>3

\* The rows of a stopped month, and those that may follow the cap.
IsStop(t) == t.skip = "monthly_stop"
FollowsCap(t) == t.skip \in {"monthly_stop", "event_day"}

\* The result of a simulated day is a number, zero when it did not trade.
LEMMA DayResult ==
    ASSUME NEW m, Quoted(m), strategy \in {"v5", "v6", "v7"}, NEW t, t = SimulateOneDay(m)
    PROVE  t.pnl \in Int /\ ~IsStop(t) /\ (~IsTrade(t) => t.pnl = 0)
<1>1. m \in Market
  BY DEF Quoted
<1>2. CASE IsTrade(t)
  <2>1. ~IsStop(t)
    BY <1>2 DEF IsTrade, IsStop
  <2>2. CASE strategy = "v5"
    <3>1. t = SigmaCondorTrade(m)
      BY <2>2 DEF SimulateOneDay
    <3> QED
      BY <1>2, <2>1, <3>1, SigmaCondorBounded, Zenon
  <2>3. CASE strategy = "v6"
    <3>1. t = BullCallTrade(m)
      BY <2>3 DEF SimulateOneDay
    <3> QED
      BY <1>1, <1>2, <2>1, <3>1, BullCallBounded, Zenon
  <2>4. CASE strategy = "v7"
    <3>1. t = GridCondorTrade(m)
      BY <2>4 DEF SimulateOneDay
    <3> QED
      BY <1>1, <1>2, <2>1, <3>1, GridCondorBounded, Zenon
  <2> QED
    BY <2>2, <2>3, <2>4
<1>3. CASE ~IsTrade(t)
  <2>1. PICK reason \in Reasons : t = Skipped(reason)
    BY <1>3, TradedOrSkipped
  <2>2. t.skip = reason /\ t.pnl = 0
    BY <2>1, SkippedParts, Zenon
  <2>3. reason # "monthly_stop"
    BY DEF Reasons
  <2>4. ~IsStop(t)
    BY <2>2, <2>3, Zenon DEF IsStop
  <2>5. 0 \in Int
    OBVIOUS
  <2> QED
    BY <2>2, <2>4, <2>5, Zenon
<1> QED
  BY <1>2, <1>3

\* The results of rows.
Scored(S) == \A row \in S : row.result.pnl \in Int

\* Every row has one result, a number.
LEMMA PnlsAre ==
    ASSUME NEW S, Scored(S), NEW rows \in Seq(S)
    PROVE  /\ Pnls(rows) \in Seq(Int) /\ Len(Pnls(rows)) = Len(rows) /\ Len(rows) \in Nat
           /\ DOMAIN rows = 1..Len(rows)
           /\ \A i \in 1..Len(rows) : Pnls(rows)[i] = rows[i].result.pnl
<1>1. Len(rows) \in Nat /\ DOMAIN rows = 1..Len(rows) /\ \A i \in 1..Len(rows) : rows[i] \in S
  OBVIOUS
<1>2. \A i \in 1..Len(rows) : rows[i].result.pnl \in Int
  BY <1>1 DEF Scored
<1>3. Pnls(rows) \in [1..Len(rows) -> Int]
  BY <1>1, <1>2 DEF Pnls
<1>4. Pnls(rows) \in Seq(Int) /\ Len(Pnls(rows)) = Len(rows)
  BY <1>1, <1>3, FunctionIsSeq
<1>5. \A i \in 1..Len(rows) : Pnls(rows)[i] = rows[i].result.pnl
  BY <1>1 DEF Pnls
<1> QED
  BY <1>1, <1>4, <1>5

\* The sums of the rows before and after e is appended to them.
AddsUp(rows, e, more) ==
    /\ SumSeq(Pnls(rows)) \in Int
    /\ SumSeq(Pnls(more)) = SumSeq(Pnls(rows)) + e.result.pnl
    /\ \A i \in 1..Len(rows) : UpTo(Pnls(more), i) = UpTo(Pnls(rows), i)
    /\ UpTo(Pnls(more), Len(rows) + 1) = SumSeq(Pnls(rows)) + e.result.pnl

\* A row that is appended to rows adds its result to their sum.
LEMMA RowAdded ==
    ASSUME NEW S, Scored(S), NEW rows \in Seq(S), NEW e \in S, NEW more, more = Append(rows, e)
    PROVE  AddsUp(rows, e, more)
<1> DEFINE p == Pnls(rows)
           q == Pnls(more)
<1>0. PICK n, x \in Int : n = Len(rows) /\ x = e.result.pnl
  BY DEF Scored
<1>1. /\ more \in Seq(S) /\ Len(more) = n + 1 /\ more[n + 1] = e /\ n \in Nat
      /\ \A i \in 1..n : more[i] = rows[i]
  BY <1>0
<1>2. /\ p \in Seq(Int) /\ Len(p) = n /\ DOMAIN rows = 1..n
      /\ \A i \in 1..n : p[i] = rows[i].result.pnl
  BY <1>0, PnlsAre
<1>3. /\ q \in Seq(Int) /\ Len(q) = n + 1 /\ DOMAIN more = 1..n + 1
      /\ \A i \in 1..n + 1 : q[i] = more[i].result.pnl
  BY <1>1, PnlsAre
<1> HIDE DEF p, q
<1>4. q = Append(p, x)
  <2>1. Append(p, x) \in Seq(Int) /\ Len(Append(p, x)) = n + 1
    BY <1>2
  <2>2. \A i \in 1..n : Append(p, x)[i] = p[i]
    BY <1>2
  <2>3. Append(p, x)[n + 1] = x
    BY <1>2
  <2>4. ASSUME NEW i \in 1..n + 1 PROVE q[i] = Append(p, x)[i]
    <3>1. CASE i = n + 1
      BY <1>0, <1>1, <1>3, <2>3, <3>1
    <3>2. CASE i # n + 1
      <4>1. i \in 1..n
        BY <1>1, <3>2
      <4> QED
        BY <1>1, <1>2, <1>3, <2>2, <4>1
    <3> QED
      BY <3>1, <3>2
  <2> HIDE DEF Pnls
  <2>5. PICK t \in Seq(Int) : t = Append(p, x) /\ Len(t) = n + 1
    BY <2>1
  <2>6. \A i \in 1..n + 1 : q[i] = t[i]
    BY <2>4, <2>5
  <2>7. q = t
    BY <1>1, <1>3, <2>5, <2>6
  <2> QED
    BY <2>5, <2>7
<1>5. /\ \A i \in 1..n : UpTo(q, i) = UpTo(p, i)
      /\ UpTo(q, n + 1) = SumSeq(p) + x
  <2>1. \A i \in 1..n : i \in 0..Len(p)
    BY <1>1, <1>2
  <2>2. /\ \A i \in 0..Len(p) : UpTo(Append(p, x), i) = UpTo(p, i)
        /\ UpTo(Append(p, x), Len(p) + 1) = SumSeq(p) + x
    BY <1>2, UpToAppend
  <2> QED
    BY <1>2, <1>4, <2>1, <2>2
<1>6. SumSeq(q) = SumSeq(p) + x /\ SumSeq(p) \in Int
  BY <1>2, <1>4, SumAppend, SumType
<1> QED
  BY <1>0, <1>1, <1>5, <1>6, Zenon DEF p, q, AddsUp

\* The rows of a month reach the cap, and what follows the row that reached it.
Reaches(rows, i) == UpTo(Pnls(rows), i) <= -MonthlyCap
Capped(rows) == \E i \in DOMAIN rows : Reaches(rows, i)
CapEnds(rows) ==
    \A i, j \in DOMAIN rows : i < j /\ Reaches(rows, i) => FollowsCap(rows[j].result)

\* A month whose sum is at the cap reached it at some row.
LEMMA SumReaches ==
    ASSUME NEW S, Scored(S), NEW rows \in Seq(S), SumSeq(Pnls(rows)) <= -MonthlyCap
    PROVE  Capped(rows)
<1>1. /\ Pnls(rows) \in Seq(Int) /\ Len(Pnls(rows)) = Len(rows) /\ Len(rows) \in Nat
      /\ DOMAIN rows = 1..Len(rows)
  BY PnlsAre
<1>2. UpTo(Pnls(rows), 0) = 0 /\ UpTo(Pnls(rows), Len(rows)) = SumSeq(Pnls(rows))
  BY <1>1, UpToAre
<1>3. MonthlyCap \in Nat /\ MonthlyCap > 0
  BY BacktestAssumption
<1>4. ~(0 <= -MonthlyCap)
  BY <1>3
<1>5. Len(rows) # 0
  BY <1>2, <1>4
<1>6. Len(rows) \in DOMAIN rows
  BY <1>1, <1>5
<1> QED
  BY <1>2, <1>6 DEF Capped, Reaches

\* A row more: once the cap is reached, only a row without a result may follow.
LEMMA CapGrows ==
    ASSUME NEW S, Scored(S), NEW rows \in Seq(S), NEW e \in S, NEW more, more = Append(rows, e),
           CapEnds(rows), Capped(rows) => FollowsCap(e.result)
    PROVE  /\ CapEnds(more) /\ SumSeq(Pnls(more)) = SumSeq(Pnls(rows)) + e.result.pnl
           /\ Capped(more) <=>
                  Capped(rows) \/ SumSeq(Pnls(rows)) + e.result.pnl <= -MonthlyCap
<1>0. PICK n, x \in Int : n = Len(rows) /\ x = e.result.pnl
  BY DEF Scored
<1>1. /\ n \in Nat /\ DOMAIN more = 1..n + 1 /\ DOMAIN rows = 1..n
      /\ SumSeq(Pnls(more)) = SumSeq(Pnls(rows)) + x
      /\ \A i \in 1..n : more[i] = rows[i] /\ UpTo(Pnls(more), i) = UpTo(Pnls(rows), i)
      /\ more[n + 1] = e /\ UpTo(Pnls(more), n + 1) = SumSeq(Pnls(rows)) + x
  <2>1. AddsUp(rows, e, more)
    BY RowAdded
  <2>2. /\ SumSeq(Pnls(more)) = SumSeq(Pnls(rows)) + x
        /\ UpTo(Pnls(more), n + 1) = SumSeq(Pnls(rows)) + x
        /\ \A i \in 1..n : UpTo(Pnls(more), i) = UpTo(Pnls(rows), i)
    BY <1>0, <2>1, Zenon DEF AddsUp
  <2>3. more[n + 1] = e /\ \A i \in 1..n : more[i] = rows[i]
    BY <1>0
  <2>4. n \in Nat /\ DOMAIN more = 1..n + 1 /\ DOMAIN rows = 1..n
    BY <1>0
  <2> QED
    BY <2>2, <2>3, <2>4
<1>2. \A i \in 1..n + 1 : i = n + 1 \/ i \in 1..n
  BY <1>1
<1>3. \A i \in 1..n : i \in 1..n + 1 /\ (Reaches(more, i) <=> Reaches(rows, i))
  BY <1>1 DEF Reaches
<1>4. n + 1 \in 1..n + 1 /\ (Reaches(more, n + 1) <=> SumSeq(Pnls(rows)) + x <= -MonthlyCap)
  BY <1>1 DEF Reaches
<1>5. Capped(more) <=> Capped(rows) \/ SumSeq(Pnls(rows)) + x <= -MonthlyCap
  BY <1>1, <1>2, <1>3, <1>4, Zenon DEF Capped
<1>6. ASSUME NEW i \in 1..n + 1, NEW j \in 1..n + 1, i < j, Reaches(more, i)
      PROVE  FollowsCap(more[j].result)
  <2>1. i \in 1..n
    BY <1>1, <1>6
  <2>2. CASE j = n + 1
    <3>1. Capped(rows)
      BY <1>1, <1>3, <1>6, <2>1 DEF Capped
    <3>2. more[j] = e
      BY <1>1, <2>2
    <3> QED
      BY <3>1, <3>2, Zenon
  <2>3. CASE j \in 1..n
    <3>1. FollowsCap(rows[j].result)
      BY <1>1, <1>3, <1>6, <2>1, <2>3 DEF CapEnds
    <3>2. more[j] = rows[j]
      BY <1>1, <2>3
    <3> QED
      BY <3>1, <3>2, Zenon
  <2> QED
    BY <1>2, <2>2, <2>3
<1>7. CapEnds(more)
  <2>1. \A i, j \in 1..n + 1 : i < j /\ Reaches(more, i) => FollowsCap(more[j].result)
    BY <1>6, Zenon
  <2> QED
    BY <1>1, <2>1, Zenon DEF CapEnds
<1> QED
  BY <1>0, <1>1, <1>5, <1>7, Zenon

\* A row that is written is a row of its month, and of no other.
LEMMA RowWritten ==
    ASSUME NEW S, ledger \in Seq(S), NEW e \in S, ledger' = Append(ledger, e), NEW mo
    PROVE  /\ RowsOf(mo) \in Seq(S)
           /\ e.month = mo => RowsOf(mo)' = Append(RowsOf(mo), e)
           /\ e.month # mo => RowsOf(mo)' = RowsOf(mo)
<1> DEFINE n == Len(ledger)
           K == {i \in DOMAIN ledger : ledger[i].month = mo}
           L == {i \in DOMAIN ledger' : ledger'[i].month = mo}
<1>1. /\ n \in Nat /\ DOMAIN ledger = 1..n /\ DOMAIN ledger' = 1..n + 1
      /\ ledger'[n + 1] = e /\ \A i \in 1..n : ledger'[i] = ledger[i]
  OBVIOUS
<1> HIDE DEF n
<1>2. K \in SUBSET (1..n) /\ n + 1 \notin 1..n /\ 1..n + 1 = 1..n \cup {n + 1}
  BY <1>1
<1>3. \A i \in 1..n : i \in L <=> i \in K
  BY <1>1, <1>2, Zenon
<1>4. \A i \in L : i \in 1..n \/ i = n + 1
  BY <1>1, <1>2, Zenon
<1>5. n + 1 \in L <=> e.month = mo
  BY <1>1, <1>2, Zenon
<1>6. RowsOf(mo) = At(ledger, K) /\ RowsOf(mo)' = At(ledger', L)
  BY DEF RowsOf
<1>7. e.month = mo => L = K \cup {n + 1}
  <2> HIDE DEF K, L
  <2> QED
    BY <1>2, <1>3, <1>4, <1>5, Zenon
<1>8. e.month # mo => L = K
  <2> HIDE DEF K, L
  <2> QED
    BY <1>2, <1>3, <1>4, <1>5, Zenon
<1> HIDE DEF K, L
<1>9. K \in SUBSET (1..Len(ledger))
  BY <1>2 DEF n
<1>10. At(ledger, K) \in Seq(S)
  BY <1>9, AtIs
<1>11. At(Append(ledger, e), K) = At(ledger, K)
  BY <1>9, AtAppend
<1>12. At(Append(ledger, e), K \cup {Len(ledger) + 1}) = Append(At(ledger, K), e)
  BY <1>9, AtAppend
<1> QED
  BY <1>6, <1>7, <1>8, <1>10, <1>11, <1>12, Zenon DEF n

\* The result that the loop keeps of a month.
MonthResult(mo) == IF mo \in DOMAIN monthlyPnl THEN monthlyPnl[mo] ELSE 0

\* A month's result is the sum of its rows; a stopped month is one whose rows reached
\* the cap, and only a stopped month has rows that were skipped for it.
CapInv ==
    /\ strategy \in {"v5", "v6", "v7"}
    /\ \E S : ledger \in Seq(S) /\ Scored(S)
    /\ \A mo : MonthResult(mo) = SumSeq(Pnls(RowsOf(mo)))
    /\ \A mo : mo \in stopped <=> Capped(RowsOf(mo))
    /\ \A mo : CapEnds(RowsOf(mo))
    /\ \A i \in DOMAIN ledger : IsStop(ledger[i].result) => ledger[i].month \in stopped

\* A month whose result is at the cap is stopped.
LEMMA AtCapStopped ==
    ASSUME CapInv, NEW mo
    PROVE  /\ MonthResult(mo) \in Int
           /\ MonthResult(mo) <= -MonthlyCap => mo \in stopped
<1>1. PICK S : ledger \in Seq(S) /\ Scored(S)
  BY DEF CapInv
<1>2. RowsOf(mo) \in Seq(S)
  <2>1. {i \in DOMAIN ledger : ledger[i].month = mo} \in SUBSET (1..Len(ledger))
    BY <1>1
  <2> QED
    BY <1>1, <2>1, AtIs DEF RowsOf
<1>3. Pnls(RowsOf(mo)) \in Seq(Int)
  BY <1>1, <1>2, PnlsAre
<1>4. MonthResult(mo) = SumSeq(Pnls(RowsOf(mo))) /\ (mo \in stopped <=> Capped(RowsOf(mo)))
  BY DEF CapInv
<1> QED
  BY <1>1, <1>2, <1>3, <1>4, SumType, SumReaches

\* A row of month mo with result r keeps the invariant when the loop adds the result to
\* the month, and stops the month when that reaches the cap.
LEMMA RowCounts ==
    ASSUME CapInv, NEW mo, mo = Month, NEW r, NEW x \in Int, r.pnl = x, Write(r),
           UNCHANGED strategy,
           \A mp : MonthResult(mp)' = IF mp = mo THEN MonthResult(mp) + x ELSE MonthResult(mp),
           \A mp : mp \in stopped' <=>
                       mp \in stopped \/ (mp = mo /\ MonthResult(mo) + x <= -MonthlyCap),
           mo \in stopped => FollowsCap(r),
           IsStop(r) => mo \in stopped
    PROVE  CapInv'
<1> DEFINE e == [month |-> mo, result |-> r]
<1>1. e.month = mo /\ e.result = r
  OBVIOUS
<1>2. ledger' = Append(ledger, e)
  BY DEF Write
<1> HIDE DEF e
<1>3. PICK S : ledger \in Seq(S) /\ Scored(S)
  BY DEF CapInv
<1> DEFINE T == S \cup {e}
<1>4. ledger \in Seq(T) /\ e \in T /\ Scored(T)
  <2>1. e.result.pnl \in Int
    BY <1>1, Zenon
  <2>2. Scored(T)
    BY <1>3, <2>1, Zenon DEF Scored
  <2> QED
    BY <1>3, <2>2, LargerSeq
<1> HIDE DEF T
<1>5. ASSUME NEW mp
      PROVE  /\ RowsOf(mp) \in Seq(T)
             /\ mo = mp => RowsOf(mp)' = Append(RowsOf(mp), e)
             /\ mo # mp => RowsOf(mp)' = RowsOf(mp)
  BY <1>1, <1>2, <1>4, RowWritten
<1>6. ASSUME NEW mp
      PROVE  /\ MonthResult(mp) = SumSeq(Pnls(RowsOf(mp)))
             /\ mp \in stopped <=> Capped(RowsOf(mp))
             /\ CapEnds(RowsOf(mp))
  BY DEF CapInv
<1>7. ASSUME NEW mp
      PROVE  /\ MonthResult(mp)' = SumSeq(Pnls(RowsOf(mp)'))
             /\ mp \in stopped' <=> Capped(RowsOf(mp)')
             /\ CapEnds(RowsOf(mp)')
  <2>1. CASE mo # mp
    <3>1. RowsOf(mp)' = RowsOf(mp) /\ MonthResult(mp)' = MonthResult(mp)
      BY <1>5, <2>1
    <3>2. mp \in stopped' <=> mp \in stopped
      BY <2>1
    <3> QED
      BY <1>6, <3>1, <3>2
  <2>2. CASE mo = mp
    <3>1. PICK rows : rows = RowsOf(mp)
      OBVIOUS
    <3>2. PICK more : more = RowsOf(mp)'
      OBVIOUS
    <3>3. /\ rows \in Seq(T) /\ more = Append(rows, e) /\ x = e.result.pnl
          /\ CapEnds(rows)
      BY <1>1, <1>5, <1>6, <2>2, <3>1, <3>2, Zenon
    <3>4. Capped(rows) => FollowsCap(e.result)
      BY <1>1, <1>6, <2>2, <3>1, Zenon
    <3>5. /\ CapEnds(more) /\ SumSeq(Pnls(more)) = SumSeq(Pnls(rows)) + e.result.pnl
          /\ Capped(more) <=>
                Capped(rows) \/ SumSeq(Pnls(rows)) + e.result.pnl <= -MonthlyCap
      BY <1>4, <3>3, <3>4, CapGrows
    <3>6. MonthResult(mp)' = MonthResult(mp) + x
      BY <2>2
    <3>7. mp \in stopped' <=> mp \in stopped \/ MonthResult(mp) + x <= -MonthlyCap
      BY <2>2
    <3> QED
      BY <1>6, <3>1, <3>2, <3>3, <3>5, <3>6, <3>7, Zenon
  <2> QED
    BY <2>1, <2>2
<1>8. \A i \in DOMAIN ledger' : IsStop(ledger'[i].result) => ledger'[i].month \in stopped'
  <2> SUFFICES ASSUME NEW i \in DOMAIN ledger', IsStop(ledger'[i].result)
               PROVE  ledger'[i].month \in stopped'
    BY Zenon
  <2>1. /\ i \in DOMAIN ledger => ledger'[i] = ledger[i]
        /\ i \notin DOMAIN ledger => ledger'[i] = e
    BY <1>2, <1>3
  <2>2. CASE i \in DOMAIN ledger
    <3>1. ledger[i].month \in stopped
      BY <2>1, <2>2, Zenon DEF CapInv
    <3> QED
      BY <2>1, <2>2, <3>1, Zenon
  <2>3. CASE i \notin DOMAIN ledger
    BY <1>1, <2>1, <2>3, Zenon
  <2> QED
    BY <2>2, <2>3
<1>9. strategy' \in {"v5", "v6", "v7"} /\ ledger' \in Seq(T)
  BY <1>2, <1>4 DEF CapInv
<1> QED
  BY <1>4, <1>7, <1>8, <1>9, Zenon DEF CapInv

\* A skipped row changes no result and stops no month.
LEMMA SkipAddsNothing ==
    ASSUME CapInv, NEW reason, Write(Skipped(reason)), UNCHANGED strategy, Keep,
           Month \in stopped => reason \in {"monthly_stop", "event_day"},
           reason = "monthly_stop" => Month \in stopped
    PROVE  CapInv'
<1>1. PICK mo : mo = Month
  OBVIOUS
<1>2. PICK r : r = Skipped(reason)
  OBVIOUS
<1>3. r.skip = reason /\ r.pnl = 0 /\ Write(r)
  BY <1>2, SkippedParts, Zenon
<1>4. (mo \in stopped => FollowsCap(r)) /\ (IsStop(r) => mo \in stopped)
  BY <1>1, <1>3, Zenon DEF FollowsCap, IsStop
<1>5. \A mp : /\ MonthResult(mp)' = MonthResult(mp) /\ MonthResult(mp) \in Int
              /\ MonthResult(mp) <= -MonthlyCap => mp \in stopped
  BY AtCapStopped DEF Keep, MonthResult
<1>6. stopped' = stopped /\ 0 \in Int
  BY DEF Keep
<1>7. \A mp : MonthResult(mp)' = IF mp = mo THEN MonthResult(mp) + 0 ELSE MonthResult(mp)
  BY <1>5
<1>8. \A mp : mp \in stopped' <=>
                  mp \in stopped \/ (mp = mo /\ MonthResult(mo) + 0 <= -MonthlyCap)
  <2>1. MonthResult(mo) + 0 = MonthResult(mo)
    BY <1>5
  <2> QED
    BY <1>5, <1>6, <2>1, Zenon
<1> QED
  BY <1>1, <1>3, <1>4, <1>6, <1>7, <1>8, RowCounts

\* The rows of a month are the rows of the ledger that carry it.
LEMMA RowsAre ==
    ASSUME NEW S, ledger \in Seq(S), NEW mo
    PROVE  /\ \A i \in DOMAIN RowsOf(mo) : \E k \in DOMAIN ledger :
                  ledger[k].month = mo /\ RowsOf(mo)[i] = ledger[k]
           /\ \A k \in DOMAIN ledger : ledger[k].month = mo =>
                  \E i \in DOMAIN RowsOf(mo) : RowsOf(mo)[i] = ledger[k]
<1> DEFINE K == {i \in DOMAIN ledger : ledger[i].month = mo}
<1>1. K \in SUBSET (1..Len(ledger)) /\ \A k \in K : k \in DOMAIN ledger /\ ledger[k].month = mo
  OBVIOUS
<1>2. \A k \in DOMAIN ledger : ledger[k].month = mo => k \in K
  OBVIOUS
<1>3. RowsOf(mo) = At(ledger, K)
  BY DEF RowsOf
<1> HIDE DEF K
<1>4. /\ Cardinality(K) \in Nat /\ At(ledger, K) \in Seq(S)
      /\ Len(At(ledger, K)) = Cardinality(K)
      /\ \A i \in 1..Cardinality(K) : /\ Ascending(K)[i] \in K
                                      /\ At(ledger, K)[i] = ledger[Ascending(K)[i]]
      /\ \A k \in K : \E i \in 1..Cardinality(K) : Ascending(K)[i] = k
  BY <1>1, AtIs
<1>5. DOMAIN At(ledger, K) = 1..Cardinality(K)
  BY <1>4
<1>6. \A i \in DOMAIN RowsOf(mo) : \E k \in DOMAIN ledger :
          ledger[k].month = mo /\ RowsOf(mo)[i] = ledger[k]
  <2> SUFFICES ASSUME NEW i \in DOMAIN RowsOf(mo)
               PROVE  \E k \in DOMAIN ledger : ledger[k].month = mo /\ RowsOf(mo)[i] = ledger[k]
    OBVIOUS
  <2>1. PICK k : k = Ascending(K)[i]
    OBVIOUS
  <2>2. k \in K /\ RowsOf(mo)[i] = ledger[k]
    BY <1>3, <1>4, <1>5, <2>1
  <2> QED
    BY <1>1, <2>2, Zenon
<1>7. ASSUME NEW k \in DOMAIN ledger, ledger[k].month = mo
      PROVE  \E i \in DOMAIN RowsOf(mo) : RowsOf(mo)[i] = ledger[k]
  <2>1. PICK i \in 1..Cardinality(K) : Ascending(K)[i] = k
    BY <1>2, <1>4, <1>7, Zenon
  <2>2. i \in DOMAIN RowsOf(mo) /\ RowsOf(mo)[i] = ledger[k]
    BY <1>3, <1>4, <1>5, <2>1, Zenon
  <2> QED
    BY <2>2
<1> QED
  BY <1>6, <1>7, Zenon

\* Every day keeps the invariant of the cap.
LEMMA CapKept ==
    ASSUME \A d \in Days : \A m \in Markets[d] : Quoted(m)
    PROVE  CapInv /\ [BacktestNext]_backtest => CapInv'
<1> SUFFICES ASSUME CapInv, [BacktestNext]_backtest PROVE CapInv'
  OBVIOUS
<1>1. strategy \in {"v5", "v6", "v7"}
  BY DEF CapInv
<1>2. ASSUME UNCHANGED <<strategy, ledger, monthlyPnl, stopped>> PROVE CapInv'
  BY <1>2 DEF CapInv, MonthResult, RowsOf
<1>3. CASE UNCHANGED backtest
  BY <1>2, <1>3 DEF backtest
<1>4. CASE EventDay
  BY <1>4, SkipAddsNothing DEF EventDay, NextDay
<1>5. CASE MonthlyStop
  BY <1>5, SkipAddsNothing DEF MonthlyStop, MonthStopped, NextDay
<1>6. CASE NoPriorVix
  <2>1. CASE UNCHANGED ledger
    BY <1>2, <1>6, <2>1 DEF NoPriorVix, NextDay, Keep
  <2>2. CASE ~MonthStopped /\ Write(Skipped("no_prior_vix"))
    BY <1>6, <2>2, SkipAddsNothing DEF NoPriorVix, MonthStopped, NextDay
  <2> QED
    BY <1>6, <2>1, <2>2 DEF NoPriorVix
<1>7. CASE NoBars
  BY <1>2, <1>7 DEF NoBars, NextDay, Keep
<1>8. CASE TradeDay
  <2>1. PICK m \in Markets[day] :
            LET trade == SimulateOneDay(m)
                total == MonthPnl + trade.pnl
            IN  /\ Write(trade) /\ today' = m
                /\ IF trade.skip # "" THEN UNCHANGED <<monthlyPnl, stopped>>
                   ELSE /\ monthlyPnl' = [mo \in DOMAIN monthlyPnl \cup {Month} |->
                                              IF mo = Month THEN total ELSE monthlyPnl[mo]]
                        /\ stopped' = IF CapHit(total) THEN stopped \cup {Month} ELSE stopped
    BY <1>8, Zenon DEF TradeDay
  <2>2. Quoted(m) /\ Month \notin stopped /\ UNCHANGED strategy
    BY <1>8, <2>1 DEF TradeDay, Running, MonthStopped, NextDay
  <2>3. PICK r : r = SimulateOneDay(m)
    OBVIOUS
  <2>4. r.pnl \in Int /\ ~IsStop(r) /\ (~IsTrade(r) => r.pnl = 0)
    BY <1>1, <2>2, <2>3, DayResult
  <2>5. PICK x \in Int : r.pnl = x
    BY <2>4, Zenon
  <2>6. PICK mo : mo = Month
    OBVIOUS
  <2>7. PICK total : total = MonthResult(mo) + x
    OBVIOUS
  <2>8. /\ Write(r)
        /\ ~IsTrade(r) => UNCHANGED <<monthlyPnl, stopped>>
        /\ IsTrade(r) =>
              /\ monthlyPnl' = [mp \in DOMAIN monthlyPnl \cup {mo} |->
                                    IF mp = mo THEN total ELSE monthlyPnl[mp]]
              /\ stopped' = IF CapHit(total) THEN stopped \cup {mo} ELSE stopped
    <3>1. MonthPnl + SimulateOneDay(m).pnl = total
      BY <2>3, <2>5, <2>6, <2>7, Zenon DEF MonthPnl, MonthResult
    <3> QED
      BY <2>1, <2>3, <2>6, <3>1, Zenon DEF IsTrade
  <2>9. \A mp : /\ MonthResult(mp) \in Int
                /\ MonthResult(mp) <= -MonthlyCap => mp \in stopped
    BY AtCapStopped
  <2>10. \A mp : MonthResult(mp)' = IF mp = mo THEN MonthResult(mp) + x ELSE MonthResult(mp)
    <3>1. CASE ~IsTrade(r)
      <4>1. x = 0 /\ \A mp : MonthResult(mp)' = MonthResult(mp)
        BY <2>4, <2>5, <2>8, <3>1, Zenon DEF MonthResult
      <4> QED
        BY <2>9, <4>1
    <3>2. CASE IsTrade(r)
      <4>1. monthlyPnl' = [mp \in DOMAIN monthlyPnl \cup {mo} |->
                              IF mp = mo THEN total ELSE monthlyPnl[mp]]
        BY <2>8, <3>2
      <4> QED
        BY <2>7, <4>1 DEF MonthResult
    <3> QED
      BY <3>1, <3>2
  <2>11. \A mp : mp \in stopped' <=>
                    mp \in stopped \/ (mp = mo /\ MonthResult(mo) + x <= -MonthlyCap)
    <3>1. CASE ~IsTrade(r)
      <4>1. x = 0 /\ stopped' = stopped
        BY <2>4, <2>5, <2>8, <3>1, Zenon
      <4>2. MonthResult(mo) + x = MonthResult(mo)
        BY <2>9, <4>1
      <4> QED
        BY <2>9, <4>1, <4>2, Zenon
    <3>2. CASE IsTrade(r)
      <4>1. stopped' = IF CapHit(total) THEN stopped \cup {mo} ELSE stopped
        BY <2>8, <3>2
      <4>2. CapHit(total) <=> MonthResult(mo) + x <= -MonthlyCap
        BY <2>7, Zenon DEF CapHit
      <4> QED
        BY <4>1, <4>2, Zenon
    <3> QED
      BY <3>1, <3>2
  <2> QED
    BY <2>2, <2>4, <2>5, <2>6, <2>8, <2>10, <2>11, RowCounts
<1> QED
  BY <1>3, <1>4, <1>5, <1>6, <1>7, <1>8 DEF BacktestNext

\* The cap is kept in every strategy, for every calendar of markets and every cap: each
\* month's result is the sum of its trades, nothing trades in a month once its result has
\* reached the cap, the stopped months are those that reached it, and the drawdown of the
\* report misses no more than the loss of the first trade.
THEOREM CapIsKept ==
    ASSUME \A d \in Days : \A m \in Markets[d] : Quoted(m)
    PROVE  BacktestInit /\ [][BacktestNext]_backtest => []MonthCapKept
<1>1. BacktestInit => CapInv
  <2> SUFFICES ASSUME BacktestInit PROVE CapInv
    OBVIOUS
  <2>1. /\ ledger = <<>> /\ monthlyPnl = <<>> /\ stopped = {}
        /\ strategy \in {"v5", "v6", "v7"}
    BY DEF BacktestInit
  <2>2. ledger \in Seq({}) /\ Scored({}) /\ DOMAIN ledger = {}
    BY <2>1 DEF Scored
  <2>3. ASSUME NEW mo PROVE RowsOf(mo) = <<>>
    <3>1. {i \in DOMAIN ledger : ledger[i].month = mo} = {}
      BY <2>2
    <3>2. {} \in SUBSET (1..Len(ledger)) /\ Cardinality({}) = 0
      BY FS_EmptySet
    <3>3. At(ledger, {}) \in Seq({}) /\ Len(At(ledger, {})) = 0
      BY <2>2, <3>2, AtIs
    <3>4. At(ledger, {}) = <<>>
      BY <3>3
    <3> QED
      BY <3>1, <3>4, Zenon DEF RowsOf
  <2>4. /\ Pnls(<<>>) = <<>> /\ ~Capped(<<>>) /\ CapEnds(<<>>)
        /\ \A mo : MonthResult(mo) = 0
    <3>1. DOMAIN <<>> = {}
      OBVIOUS
    <3>2. Pnls(<<>>) = <<>>
      BY <3>1 DEF Pnls
    <3> QED
      BY <2>1, <3>1, <3>2, Zenon DEF Capped, CapEnds, MonthResult
  <2> QED
    BY <2>1, <2>2, <2>3, <2>4, SumEmpty, Zenon DEF CapInv
<1>2. CapInv /\ [BacktestNext]_backtest => CapInv'
  BY CapKept
<1>3. CapInv => MonthCapKept
  <2> SUFFICES ASSUME CapInv PROVE MonthCapKept
    OBVIOUS
  <2>1. PICK S : ledger \in Seq(S) /\ Scored(S)
    BY DEF CapInv
  <2> DEFINE months == {row.month : row \in ToSet(ledger)}
             capped == {mo \in months : \E i \in DOMAIN RowsOf(mo) : CappedAfter(mo, i)}
             stops(mo) == "monthly_stop" \in {row.result.skip : row \in ToSet(RowsOf(mo))}
  <2>2. \A mo, i : CappedAfter(mo, i) <=> Reaches(RowsOf(mo), i)
    BY Zenon DEF CappedAfter, Reaches
  <2>3. \A mo : mo \in months <=> \E k \in DOMAIN ledger : ledger[k].month = mo
    BY Zenon DEF ToSet
  <2>4. \A mo \in DOMAIN monthlyPnl : monthlyPnl[mo] = SumSeq(Pnls(RowsOf(mo)))
    BY Zenon DEF CapInv, MonthResult
  <2>5. \A mo \in months : \A i, j \in DOMAIN RowsOf(mo) : i < j /\ CappedAfter(mo, i) =>
            RowsOf(mo)[j].result.skip \in {"monthly_stop", "event_day"}
    BY <2>2, Zenon DEF CapInv, CapEnds, FollowsCap
  <2>6. \A mo : /\ \A i \in DOMAIN RowsOf(mo) : \E k \in DOMAIN ledger :
                       ledger[k].month = mo /\ RowsOf(mo)[i] = ledger[k]
                /\ \A k \in DOMAIN ledger : ledger[k].month = mo =>
                       \E i \in DOMAIN RowsOf(mo) : RowsOf(mo)[i] = ledger[k]
    BY <2>1, RowsAre
  <2>7. \A mo : mo \in stopped <=> \E i \in DOMAIN RowsOf(mo) : CappedAfter(mo, i)
    BY <2>2, Zenon DEF CapInv, Capped
  <2>8. \A mo : mo \in stopped <=> mo \in capped
    BY <2>3, <2>6, <2>7, Zenon
  <2>9. \A mo : stops(mo) <=> \E i \in DOMAIN RowsOf(mo) : IsStop(RowsOf(mo)[i].result)
    BY Zenon DEF ToSet, IsStop
  <2>10. \A mo : mo \in StoppedMonths <=>
             \E k \in DOMAIN ledger : IsStop(ledger[k].result) /\ ledger[k].month = mo
    BY Zenon DEF StoppedMonths, ToSet, IsStop
  <2>11. \A k \in DOMAIN ledger : IsStop(ledger[k].result) => ledger[k].month \in stopped
    BY Zenon DEF CapInv
  <2> HIDE DEF capped, stops
  <2>12. stopped = capped
    BY <2>8, Zenon
  <2>13. ASSUME NEW mo PROVE mo \in StoppedMonths <=> mo \in capped /\ stops(mo)
    <3>1. ASSUME mo \in StoppedMonths PROVE mo \in capped /\ stops(mo)
      <4>1. PICK k \in DOMAIN ledger : IsStop(ledger[k].result) /\ ledger[k].month = mo
        BY <2>10, <3>1
      <4>2. mo \in capped
        BY <2>8, <2>11, <4>1, Zenon
      <4>3. PICK i \in DOMAIN RowsOf(mo) : RowsOf(mo)[i] = ledger[k]
        BY <2>6, <4>1
      <4> QED
        BY <2>9, <4>1, <4>2, <4>3, Zenon
    <3>2. ASSUME mo \in capped, stops(mo) PROVE mo \in StoppedMonths
      <4>1. PICK i \in DOMAIN RowsOf(mo) : IsStop(RowsOf(mo)[i].result)
        BY <2>9, <3>2
      <4>2. PICK k \in DOMAIN ledger : ledger[k].month = mo /\ RowsOf(mo)[i] = ledger[k]
        BY <2>6, <4>1
      <4> QED
        BY <2>10, <4>1, <4>2, Zenon
    <3> QED
      BY <3>1, <3>2
  <2>14. StoppedMonths = {mo \in capped : stops(mo)}
    BY <2>13, Zenon
  <2>15. /\ TrueDrawdown <= MaxDrawdown
         /\ Traded = <<>> \/ MaxDrawdown <= TrueDrawdown - Lesser(0, Traded[1].result.pnl)
    <3>1. PICK rows : rows = Traded
      OBVIOUS
    <3>2. rows \in Seq(S)
      <4>1. {i \in DOMAIN ledger : ledger[i].result.skip = ""} \in SUBSET (1..Len(ledger))
        <5>1. DOMAIN ledger = 1..Len(ledger)
          BY <2>1
        <5> QED
          BY <5>1, Zenon
      <4> QED
        BY <2>1, <3>1, <4>1, AtIs DEF Traded
    <3>3. /\ Pnls(rows) \in Seq(Int) /\ Len(Pnls(rows)) = Len(rows) /\ Len(rows) \in Nat
          /\ \A i \in 1..Len(rows) : Pnls(rows)[i] = rows[i].result.pnl
      BY <2>1, <3>2, PnlsAre
    <3>4. PICK s, t : s \in Seq(Int) /\ s = Pnls(rows) /\ t = << 0 >> \o s
      BY <3>3, Zenon
    <3>5. /\ DeepestDrawdown(t) <= DeepestDrawdown(s)
          /\ Len(s) > 0 => /\ s[1] \in Int
                           /\ \/ DeepestDrawdown(s) <= DeepestDrawdown(t)
                              \/ s[1] <= 0 /\ DeepestDrawdown(s) <= DeepestDrawdown(t) - s[1]
      BY <3>4, ZeroDeepens
    <3>6. DeepestDrawdown(s) \in Int /\ DeepestDrawdown(t) \in Int
      <4>1. t \in Seq(Int)
        BY <3>4
      <4> QED
        BY <3>4, <4>1, DeepestIs
    <3>7. MaxDrawdown = DeepestDrawdown(s) /\ TrueDrawdown = DeepestDrawdown(t)
      BY <3>1, <3>4, Zenon DEF MaxDrawdown, TrueDrawdown
    <3>8. rows # <<>> => DeepestDrawdown(s) <= DeepestDrawdown(t) - Lesser(0, rows[1].result.pnl)
      <4> SUFFICES ASSUME rows # <<>>
                   PROVE  DeepestDrawdown(s) <= DeepestDrawdown(t) - Lesser(0, rows[1].result.pnl)
        OBVIOUS
      <4>1. Len(rows) > 0 /\ 1 \in 1..Len(rows)
        BY <3>2
      <4>2. rows[1].result.pnl = s[1] /\ Len(s) > 0
        BY <3>3, <3>4, <4>1
      <4>3. DeepestDrawdown(s) <= DeepestDrawdown(t) - Lesser(0, s[1])
        BY <3>5, <3>6, <4>2 DEF Lesser
      <4> QED
        BY <4>2, <4>3, Zenon
    <3> QED
      BY <3>1, <3>5, <3>7, <3>8, Zenon
  <2>16. /\ \A mo \in DOMAIN monthlyPnl : monthlyPnl[mo] = SumSeq(Pnls(RowsOf(mo)))
         /\ \A mo \in months : \A i, j \in DOMAIN RowsOf(mo) : i < j /\ CappedAfter(mo, i) =>
                RowsOf(mo)[j].result.skip \in {"monthly_stop", "event_day"}
         /\ stopped = capped /\ StoppedMonths = {mo \in capped : stops(mo)}
    BY <2>4, <2>5, <2>12, <2>14, Zenon
  <2> QED
    BY <2>15, <2>16, Zenon DEF MonthCapKept, capped, stops
<1> QED
  BY <1>1, <1>2, <1>3, PTL
=======================================================================
