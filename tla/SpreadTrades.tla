-------------------------- MODULE SpreadTrades --------------------------
(***************************************************************************)
(* One simulated day of the research backtests of option spreads:          *)
(*   v5  sim_iron_condor.simulate_one_trade,                               *)
(*   v6  sim_bull_call_strategy.simulate_one_day,                          *)
(*   v7  sim_short_iron_condor.simulate_one_day.                           *)
(* Prices and strikes are in cents, so that a cent is a dollar of result.  *)
(* A market is a record: open and settle, the spot at entry and expiry;    *)
(* vol, the move of one sigma until expiry; bars, the spots of the day.    *)
(***************************************************************************)
EXTENDS Integers, Sequences, FiniteSetsExt

CONSTANTS
    Spacing, Below, Above,      \* the strike grid around the spot
    GapWidth,                   \* strike_width of v6
    CondorGap,                  \* strike_width of v7
    MaxLoss, MaxLossPerSide,    \* max_loss_usd of v6, of a side of v7
    MinHalf, AtmPct, FarPct, FarDistance,   \* bid_ask_min and the half-spreads
    WingMille                   \* wing_width_pct of v5, in thousandths

ASSUME SpreadAssumption ==
    /\ Spacing \in Nat \ {0} /\ Below \in Nat /\ Above \in Nat \ {0}
    /\ GapWidth \in Nat /\ CondorGap \in Nat
    /\ MaxLoss \in Nat /\ MaxLossPerSide \in Nat
    /\ MinHalf \in Nat \ {0} /\ AtmPct \in 0..FarPct /\ FarPct \in 0..100
    /\ FarDistance \in Nat \ {0} /\ WingMille \in Nat \ {0}

None == -1   \* no strike was found
Greater(a, b) == IF a >= b THEN a ELSE b
Lesser(a, b) == IF a <= b THEN a ELSE b
Distance(K, S) == Greater(K - S, S - K)

-------------------------------------------------------------------------
\* Prices.

\* The Black-Scholes prices: what exercise would pay, and a time value that is largest
\* at the spot and gone a sigma away from it.
TimeValue(K, S, vol) == Greater(0, vol - Distance(K, S)) \div 2
BsCallPrice(K, S, vol) == Greater(0, S - K) + TimeValue(K, S, vol)
BsPutPrice(K, S, vol) == Greater(0, K - S) + TimeValue(K, S, vol)

\* The half-spread is a share of the price that grows with the distance.
HalfSpread(mid, K, S) ==
    LET blend == Lesser(Distance(K, S), FarDistance)
        pct == AtmPct + ((FarPct - AtmPct) * blend) \div FarDistance
    IN  Greater(MinHalf, (mid * pct) \div 100)

Bid(mid, K, S) == Greater(0, mid - HalfSpread(mid, K, S))
Ask(mid, K, S) == mid + HalfSpread(mid, K, S)
CallBid(K, S, vol) == Bid(BsCallPrice(K, S, vol), K, S)
CallAsk(K, S, vol) == Ask(BsCallPrice(K, S, vol), K, S)
PutBid(K, S, vol) == Bid(BsPutPrice(K, S, vol), K, S)
PutAsk(K, S, vol) == Ask(BsPutPrice(K, S, vol), K, S)

StrikeGrid(S) ==
    LET anchor == Spacing * ((2 * S + Spacing) \div (2 * Spacing))
    IN  {anchor + i * Spacing : i \in -Below..Above - 1}

-------------------------------------------------------------------------
\* The walks over the chain.

\* A walk from one end skips strikes that fail until one passes, and stops at the next
\* that fails: it ends at the far end of the first unbroken run.
WalkDown(good) ==
    LET run == {K \in good : \A i \in 0..(Max(good) - K) \div Spacing : K + i * Spacing \in good}
    IN  IF good = {} THEN None ELSE Min(run)
WalkUp(good) ==
    LET run == {K \in good : \A i \in 0..(K - Min(good)) \div Spacing : K - i * Spacing \in good}
    IN  IF good = {} THEN None ELSE Max(run)

\* A walk away from a leg, by distance: the last viable distance before the first one
\* that ends the walk; 0 when there is none.
WalkAway(viable, ending) ==
    LET reached == {w \in viable : \A e \in ending : w < e}
    IN  IF reached = {} THEN 0 ELSE Max(reached)

-------------------------------------------------------------------------
\* v6: the bull call spread.

\* Buying K and selling the next strike costs less than the gap.
PickLongStrike(m) ==
    LET grid == StrikeGrid(m.open)
        gap(K) == CallAsk(K, m.open, m.vol) - CallBid(K + Spacing, m.open, m.vol)
    IN  WalkDown({K \in grid : K + Spacing \in grid /\ gap(K) < GapWidth})

Debit(m, long, short) == CallAsk(long, m.open, m.vol) - CallBid(short, m.open, m.vol)

\* pop >= pop_threshold: the breakeven is an eighth of a sigma below the spot.
PopOk(m, breakeven) == 8 * (m.open - breakeven) >= m.vol

Affordable(m, debit) == debit <= MaxLoss
PickShortStrike(m, long) ==
    LET widths == {K - long : K \in {J \in StrikeGrid(m.open) : J > long}}
        debit(w) == Debit(m, long, long + w)
        ok(w) == Affordable(m, debit(w)) /\ PopOk(m, long + debit(w))
    IN  WalkAway({w \in widths : debit(w) >= 0 /\ ok(w)},
                 {w \in widths : debit(w) >= 0 /\ ~ok(w)})

\* The bar at which the stop fires: the first before the last five minutes that is
\* below the breakeven when an earlier one, or the entry, was not; 0 for none.
Armed(m, breakeven, i) ==
    m.open >= breakeven \/ \E j \in 1..i : m.bars[j].spot >= breakeven
StopBar(m, breakeven) ==
    LET firing == {i \in DOMAIN m.bars : /\ \A j \in 1..i : ~m.bars[j].late
                                         /\ Armed(m, breakeven, i)
                                         /\ m.bars[i].spot < breakeven}
    IN  IF firing = {} THEN 0 ELSE Min(firing)

\* The stop sells at the bid and buys at the ask, always with half of the time left: a
\* sigma is then seven tenths of what it was.
StopVol(m) == (7 * m.vol) \div 10
CloseCredit(m, long, short, spot) ==
    CallBid(long, spot, StopVol(m)) - CallAsk(short, spot, StopVol(m))
Payoff(long, short, S) == Greater(0, S - long) - Greater(0, S - short)

Skipped(reason) == [skip |-> reason, pnl |-> 0]
BullCallTrade(m) ==
    LET long == PickLongStrike(m)
        short == long + PickShortStrike(m, long)
        debit == Debit(m, long, short)
        bar == StopBar(m, long + debit)
        proceeds == IF bar # 0 THEN CloseCredit(m, long, short, m.bars[bar].spot)
                               ELSE Payoff(long, short, m.settle)
    IN  IF long = None THEN Skipped("no_viable_long")
        ELSE IF short = long THEN Skipped("no_viable_short")
        ELSE [skip |-> "", pnl |-> proceeds - debit, long |-> long, short |-> short,
              debit |-> debit, stop |-> bar]

-------------------------------------------------------------------------
\* The condors.

\* What the two short and the two long legs pay at expiry.
CondorPayoff(longPut, shortPut, shortCall, longCall, S) ==
    (Greater(0, S - longCall) - Greater(0, S - shortCall))
        + (Greater(0, longPut - S) - Greater(0, shortPut - S))

\* v5: the short legs a sigma away, the wings a share of their strikes, no spread.
SigmaCondorTrade(m) ==
    LET shortCall == m.open + m.vol
        shortPut == m.open - m.vol
        longCall == shortCall + (shortCall * WingMille) \div 1000
        longPut == shortPut - (shortPut * WingMille) \div 1000
        call(K) == BsCallPrice(K, m.open, m.vol)
        put(K) == BsPutPrice(K, m.open, m.vol)
        credit == (call(shortCall) - call(longCall)) + (put(shortPut) - put(longPut))
    IN  [skip |-> "",
         pnl |-> credit + CondorPayoff(longPut, shortPut, shortCall, longCall, m.settle),
         risk |-> Greater(longCall - shortCall, shortPut - longPut) - credit]

\* v7: the short legs are the nearest out-of-the-money strikes the walks reach.
PickShortCall(m) ==
    LET calls == {K \in StrikeGrid(m.open) : K > m.open}
        gap(K) == CallAsk(K, m.open, m.vol) - CallBid(K + Spacing, m.open, m.vol)
    IN  WalkDown({K \in calls : K + Spacing \in calls /\ gap(K) < CondorGap})
PickShortPut(m) ==
    LET puts == {K \in StrikeGrid(m.open) : K < m.open}
        gap(K) == PutAsk(K, m.open, m.vol) - PutBid(K - Spacing, m.open, m.vol)
    IN  WalkUp({K \in puts : K - Spacing \in puts /\ gap(K) < CondorGap})

\* A wing grows while what its side can lose stays below the limit; a distance that
\* would not be paid for is passed over.
CallCredit(m, short, w) == CallBid(short, m.open, m.vol) - CallAsk(short + w, m.open, m.vol)
PutCredit(m, short, w) == PutBid(short, m.open, m.vol) - PutAsk(short - w, m.open, m.vol)
CreditOnly(w, credit) == -credit   \* variant: the width is left out
SideLoss(w, credit) == w - credit
PickCallWing(m, short) ==
    LET widths == {K - short : K \in {J \in StrikeGrid(m.open) : J > short}}
        paid == {w \in widths : CallCredit(m, short, w) >= 0}
        safe == {w \in paid : SideLoss(w, CallCredit(m, short, w)) <= MaxLossPerSide}
    IN  WalkAway(safe, paid \ safe)
PickPutWing(m, short) ==
    LET widths == {short - K : K \in {J \in StrikeGrid(m.open) : J < short}}
        paid == {w \in widths : PutCredit(m, short, w) >= 0}
        safe == {w \in paid : SideLoss(w, PutCredit(m, short, w)) <= MaxLossPerSide}
    IN  WalkAway(safe, paid \ safe)

\* compute_pop >= pop_threshold: the breakevens are three quarters of a sigma away.
CondorPopOk(m, lower, upper) == 2 * (upper - lower) >= 3 * m.vol

GridCondorTrade(m) ==
    LET shortCall == PickShortCall(m)
        shortPut == PickShortPut(m)
        call == PickCallWing(m, shortCall)
        put == PickPutWing(m, shortPut)
        credit == CallCredit(m, shortCall, call) + PutCredit(m, shortPut, put)
    IN  IF None \in {shortCall, shortPut} THEN Skipped("no_viable_short_strike")
        ELSE IF 0 \in {call, put} THEN Skipped("no_viable_long_strike")
        ELSE IF ~CondorPopOk(m, shortPut - credit, shortCall + credit)
        THEN Skipped("pop_below_threshold")
        ELSE [skip |-> "",
              pnl |-> credit + CondorPayoff(shortPut - put, shortPut, shortCall,
                                            shortCall + call, m.settle),
              risk |-> MaxLossPerSide]
=======================================================================
