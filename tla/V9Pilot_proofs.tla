------------------------- MODULE V9Pilot_proofs -------------------------
(***************************************************************************)
(* What the books of the v9 pilot are worth, for any universe, prices and  *)
(* number of crashes: they differ from the account only where an order is  *)
(* being booked or was abandoned, and a fill is lost only to a restart.    *)
(***************************************************************************)
EXTENDS V9Pilot, Figures_proofs

USE V9PilotAssumption DEF V9PilotAssumption

\* The order of the call is booked exactly once it is seen executed.
CallKept ==
    /\ current = "filled" => pc \in {"await", "book", "position"}
    /\ pc \in {"book", "position"} => current = "filled"

\* What the rows still owe to the account: the order in hand, once it executed.
Owed(t) == current = "filled" /\ Head(plan).ticker = t
BooksKept ==
    /\ positions = [t \in Tickers |-> positions[t]]
    /\ shares = [t \in Tickers |-> shares[t]]
    /\ \A t \in Tickers \ stray :
          shares[t] = IF Owed(t) THEN positions[t] + Signed(Head(plan)) ELSE positions[t]

\* A key is used again only if a process restarted within its timestamp.
Renumbered == \E key \in fills : key[1] \in restarts
Numbered ==
    /\ IsFiniteSet(fills) /\ Cardinality(fills) = recorded
    /\ \A key \in fills : key[1] <= clock /\ (key[1] = clock => key[2] < seq)
KeysKept ==
    /\ clock \in Nat /\ seq \in Nat /\ recorded \in Nat /\ fills \subseteq Nat \X Nat
    /\ Renumbered \/ Numbered

\* In every state the account and the books are related as CallKept and BooksKept say.
LEMMA BooksInvariance == PilotSpec => [](CallKept /\ BooksKept)
<1> DEFINE Inv == CallKept /\ BooksKept
<1>1. PilotInit => Inv
  BY DEF PilotInit, PilotStart, CallKept, BooksKept, Owed
<1>2. Inv /\ [PilotNext]_pilotVars => Inv'
  <2> SUFFICES ASSUME Inv, [PilotNext]_pilotVars PROVE Inv'
    OBVIOUS
  <2> USE DEF CallKept, BooksKept, Owed, record, account, process, history
  <2>1. CASE InitializePilot \/ StartPilot \/ CompletePilot \/ HaltPilot
    BY <2>1 DEF InitializePilot, StartPilot, CompletePilot, HaltPilot, SetPilot
  <2>2. CASE PlanRebalance
    BY <2>2 DEF PlanRebalance
  <2>3. CASE PlaceOrder
    BY <2>3 DEF PlaceOrder
  <2>4. CASE Execute
    BY <2>4 DEF Execute, Trade
  <2>5. CASE Reject
    BY <2>5 DEF Reject
  <2>6. CASE AwaitFill
    BY <2>6 DEF AwaitFill
  <2>7. CASE GiveUp
    BY <2>7 DEF GiveUp
  <2>8. CASE ReportUnfilled
    BY <2>8 DEF ReportUnfilled
  <2>9. ASSUME NEW k \in DOMAIN left, ExecuteLeft(k) PROVE Inv'
    BY <2>9 DEF ExecuteLeft, Trade
  <2>10. CASE RecordFill
    BY <2>10 DEF RecordFill
  <2>11. CASE UpsertPosition
    BY <2>11 DEF UpsertPosition, Booked
  <2>12. CASE PlanDone
    BY <2>12 DEF PlanDone
  <2>13. CASE Crash
    BY <2>13 DEF Crash
  <2>14. CASE UNCHANGED pilotVars
    BY <2>14 DEF pilotVars
  <2> QED
    BY <2>1, <2>2, <2>3, <2>4, <2>5, <2>6, <2>7, <2>8, <2>9, <2>10, <2>11, <2>12,
       <2>13, <2>14 DEF PilotNext
<1> QED
  BY <1>1, <1>2, PTL DEF PilotSpec

\* The rows of the pilot differ from the account only in the ticker of the order in hand,
\* or in one whose order executed when nobody was left to book it.
THEOREM BooksAreExplained == PilotSpec => []BooksExplained
<1>1. CallKept /\ BooksKept => BooksExplained
  BY DEF CallKept, BooksKept, Owed, BooksExplained
<1> QED
  BY <1>1, BooksInvariance, PTL

\* In every state the keys of the fills are as KeysKept says.
LEMMA KeysInvariance == PilotSpec => []KeysKept
<1>1. PilotInit => KeysKept
  BY FS_EmptySet DEF PilotInit, PilotStart, KeysKept, Numbered
<1>2. KeysKept /\ [PilotNext]_pilotVars => KeysKept'
  <2> SUFFICES ASSUME KeysKept, [PilotNext]_pilotVars PROVE KeysKept'
    OBVIOUS
  <2> DEFINE keys == <<fills, restarts, recorded, clock, seq>>
  <2>1. CASE UNCHANGED keys
    BY <2>1 DEF KeysKept, Numbered, Renumbered
  <2>2. CASE RecordFill
    <3>1. PICK ts \in clock..MaxClock : clock' = ts /\ fills' = fills \cup {<<ts, seq>>}
      BY <2>2 DEF RecordFill, FillKey
    <3>2. seq' = seq + 1 /\ recorded' = recorded + 1 /\ restarts' = restarts
      BY <2>2 DEF RecordFill
    <3>3. /\ clock' \in Nat /\ seq' \in Nat /\ recorded' \in Nat
          /\ fills' \subseteq Nat \X Nat
      BY <3>1, <3>2 DEF KeysKept
    <3>4. CASE Renumbered
      BY <3>1, <3>2, <3>3, <3>4 DEF KeysKept, Renumbered
    <3>5. CASE Numbered
      <4>1. <<ts, seq>> \notin fills
        BY <3>1, <3>5 DEF KeysKept, Numbered
      <4>2. IsFiniteSet(fills') /\ Cardinality(fills') = recorded'
        BY <3>1, <3>2, <3>5, <4>1, FS_AddElement DEF Numbered
      <4>3. ASSUME NEW key \in fills'
            PROVE key[1] <= clock' /\ (key[1] = clock' => key[2] < seq')
        BY <3>1, <3>2, <3>5 DEF KeysKept, Numbered
      <4> QED
        BY <3>3, <4>2, <4>3 DEF KeysKept, Numbered
    <3> QED
      BY <3>4, <3>5 DEF KeysKept
  <2>3. CASE Crash
    <3>1. /\ seq' = 1 /\ restarts' = restarts \cup {clock}
          /\ UNCHANGED <<fills, recorded, clock>>
      BY <2>3 DEF Crash, record
    <3>2. CASE Renumbered \/ \E key \in fills : key[1] = clock
      BY <3>1, <3>2 DEF KeysKept, Renumbered
    <3>3. CASE Numbered /\ \A key \in fills : key[1] # clock
      BY <3>1, <3>3 DEF KeysKept, Numbered
    <3> QED
      BY <3>2, <3>3 DEF KeysKept
  <2>4. CASE InitializePilot \/ StartPilot \/ CompletePilot \/ HaltPilot
    BY <2>1, <2>4 DEF InitializePilot, StartPilot, CompletePilot, HaltPilot, SetPilot, process,
                      history
  <2>5. CASE PlanRebalance \/ PlaceOrder \/ Execute \/ Reject \/ AwaitFill
    BY <2>1, <2>5 DEF PlanRebalance, PlaceOrder, Execute, Reject, AwaitFill, record, history
  <2>6. CASE GiveUp \/ ReportUnfilled \/ UpsertPosition \/ PlanDone
    BY <2>1, <2>6 DEF GiveUp, ReportUnfilled, UpsertPosition, PlanDone, record, history
  <2>7. ASSUME NEW k \in DOMAIN left, ExecuteLeft(k) PROVE KeysKept'
    BY <2>1, <2>7 DEF ExecuteLeft, record, process
  <2>8. CASE UNCHANGED pilotVars
    BY <2>1, <2>8 DEF pilotVars, record, process, history
  <2> QED
    BY <2>2, <2>3, <2>4, <2>5, <2>6, <2>7, <2>8 DEF PilotNext
<1> QED
  BY <1>1, <1>2, PTL DEF PilotSpec

\* Every fill has a row of its own, unless a process started again within the timestamp
\* of an earlier fill.
THEOREM FillsAreKept == PilotSpec => []FillsKept
<1>1. KeysKept => FillsKept
  BY DEF KeysKept, Numbered, Renumbered, FillsKept
<1> QED
  BY <1>1, KeysInvariance, PTL

-------------------------------------------------------------------------
(* What the account is worth.                                              *)

Worth(held, p) == SumSeq([t \in Tickers |-> held[t] * p[t]])

\* Functions of the tickers are sequences.
LEMMA Holdings ==
    ASSUME NEW held \in [Tickers -> Int], NEW p \in PriceTables
    PROVE  LET s == [t \in Tickers |-> held[t] * p[t]]
           IN  s \in Seq(Int) /\ Len(s) = Cardinality(Tickers)
<1> DEFINE n == Cardinality(Tickers)
           s == [t \in Tickers |-> held[t] * p[t]]
<1>1. n \in Nat /\ Tickers = 1..n
  BY FS_CardinalityType
<1>2. p \in [Tickers -> Nat \ {0}]
  OBVIOUS
<1>3. \A t \in Tickers : held[t] * p[t] \in Int
  BY <1>2
<1> HIDE DEF n
<1>4. s \in [1..n -> Int]
  BY <1>1, <1>3
<1> QED
  BY <1>1, <1>4 DEF n

\* The worth of holdings grows with each of them, and by the price with every share.
LEMMA WorthAre ==
    ASSUME NEW held \in [Tickers -> Int], NEW p \in PriceTables
    PROVE  /\ Worth(held, p) \in Int
           /\ \A more \in [Tickers -> Int] :
                 (\A t \in Tickers : held[t] <= more[t]) => Worth(held, p) <= Worth(more, p)
           /\ \A t \in Tickers, q \in Int :
                 Worth([held EXCEPT ![t] = @ + q], p) = Worth(held, p) + q * p[t]
<1> DEFINE s == [t \in Tickers |-> held[t] * p[t]]
<1>1. s \in Seq(Int) /\ Len(s) = Cardinality(Tickers) /\ s \in [Tickers -> Int]
  BY Holdings
<1>2. \A t \in Tickers : p[t] \in Nat \ {0} /\ held[t] \in Int
  OBVIOUS
<1>3. Worth(held, p) \in Int
  BY <1>1, SumType DEF Worth
<1>4. ASSUME NEW more \in [Tickers -> Int], \A t \in Tickers : held[t] <= more[t]
      PROVE  Worth(held, p) <= Worth(more, p)
  <2> DEFINE u == [t \in Tickers |-> more[t] * p[t]]
  <2>1. u \in Seq(Int) /\ Len(u) = Cardinality(Tickers)
    BY Holdings
  <2>2. \A a, b \in Int : \A c \in Nat : a <= b => a * c <= b * c
    OBVIOUS
  <2>3. \A t \in Tickers : s[t] <= u[t]
    BY <1>2, <1>4, <2>2
  <2> HIDE DEF s, u
  <2> QED
    BY <1>1, <2>1, <2>3, SumMonotone DEF Worth, s, u
<1>5. ASSUME NEW t \in Tickers, NEW q \in Int
      PROVE  Worth([held EXCEPT ![t] = @ + q], p) = Worth(held, p) + q * p[t]
  <2> DEFINE more == [held EXCEPT ![t] = @ + q]
             u == [x \in Tickers |-> more[x] * p[x]]
  <2>1. more \in [Tickers -> Int] /\ more[t] = held[t] + q
        /\ \A x \in Tickers : x # t => more[x] = held[x]
    OBVIOUS
  <2> HIDE DEF more
  <2>2. u \in Seq(Int) /\ Len(u) = Cardinality(Tickers)
    BY <2>1, Holdings
  <2>3. \A x \in Tickers : x # t => s[x] = u[x]
    BY <2>1
  <2>4. s[t] \in Int /\ u[t] \in Int /\ u[t] - s[t] = q * p[t]
    <3>1. \A a, b, c \in Int : (a + b) * c - a * c = b * c
      OBVIOUS
    <3> QED
      BY <1>2, <2>1, <3>1
  <2>5. Worth(held, p) = SumSeq(s) /\ Worth(more, p) = SumSeq(u)
    BY DEF Worth
  <2> HIDE DEF s, u
  <2>6. t \in 1..Len(s) /\ \A x \in 1..Len(s) : x # t => s[x] = u[x]
    BY <1>1, <2>3
  <2>7. SumSeq(u) = SumSeq(s) + (u[t] - s[t])
    BY <1>1, <2>2, <2>6, SumChanged
  <2> QED
    BY <2>4, <2>5, <2>7 DEF more
<1> QED
  BY <1>3, <1>4, <1>5

\* The shares of the target: every one of HoldTopN tickers has an equal weight of the value.
Goal(value, p, target) ==
    [t \in Tickers |-> IF t \in target THEN value \div (HoldTopN * p[t]) ELSE 0]

\* The target costs no more than the value.
LEMMA GoalAfforded ==
    ASSUME NEW value \in Nat, NEW p \in PriceTables, NEW target \in kSubset(HoldTopN, Tickers)
    PROVE  /\ Goal(value, p, target) \in [Tickers -> Nat]
           /\ Worth(Goal(value, p, target), p) <= value
<1> DEFINE w == Goal(value, p, target)
           s == [t \in Tickers |-> w[t] * p[t]]
           b == value \div HoldTopN
<1>1. HoldTopN \in Nat \ {0} /\ \A t \in Tickers : p[t] \in Nat \ {0}
  BY FS_CardinalityType
<1>2. target \in SUBSET Tickers /\ Cardinality(target) = HoldTopN
  BY DEF kSubset
<1>3. b \in Nat /\ HoldTopN * b <= value
  BY <1>1
<1>4. ASSUME NEW h \in Nat \ {0}, NEW c \in Nat \ {0}
      PROVE  value \div (h * c) \in Nat /\ (value \div (h * c)) * c <= value \div h
  <2>1. h * c \in Nat \ {0}
    OBVIOUS
  <2>2. \A d \in Nat \ {0} : value \div d \in Nat /\ (value \div d) * d <= value
    OBVIOUS
  <2>3. PICK q \in Nat : q = value \div (h * c) /\ q * (h * c) <= value
    BY <2>1, <2>2
  <2>4. q * c \in Nat /\ (q * c) * h <= value
    BY <2>3
  <2>5. \A x \in Nat : x * h <= value => x <= value \div h
    OBVIOUS
  <2> QED
    BY <2>3, <2>4, <2>5
<1>5. w \in [Tickers -> Nat]
  BY <1>1, <1>4 DEF Goal
<1>6. \A t \in target : s[t] <= b
  BY <1>1, <1>2, <1>4 DEF Goal
<1>7. \A t \in Tickers : t \notin target => s[t] <= 0
  BY <1>1 DEF Goal
<1> HIDE DEF b, w
<1>8. s \in Seq(Int) /\ Len(s) = Cardinality(Tickers)
  BY <1>5, Holdings
<1> HIDE DEF s
<1>9. SumSeq(s) <= HoldTopN * b
  <2>1. target \in SUBSET (1..Len(s)) /\ \A t \in 1..Len(s) : t \notin target => s[t] <= 0
    BY <1>2, <1>7, <1>8
  <2> QED
    BY <1>2, <1>3, <1>6, <1>8, <2>1, SumBounded
<1>10. Worth(w, p) <= value
  <2>1. SumSeq(s) \in Int
    BY <1>8, SumType
  <2>2. HoldTopN * b \in Int
    BY <1>1, <1>3
  <2> QED
    BY <1>3, <1>9, <2>1, <2>2 DEF Worth, s
<1> QED
  BY <1>5, <1>10 DEF w

-------------------------------------------------------------------------
(* The orders of a plan.                                                   *)

IsSell(o) == o.action = "SELL"

\* What an order is, whichever way it goes.
LEMMA OrderIs ==
    ASSUME NEW t \in Tickers, NEW q \in Nat \ {0}
    PROVE  /\ Order(t, "SELL", q) \in OrderType /\ Order(t, "BUY", q) \in OrderType
           /\ Order(t, "SELL", q).ticker = t /\ Order(t, "BUY", q).ticker = t
           /\ Signed(Order(t, "SELL", q)) = -q /\ Signed(Order(t, "BUY", q)) = q
           /\ IsSell(Order(t, "SELL", q)) /\ ~IsSell(Order(t, "BUY", q))
BY DEF Order, OrderType, Signed, IsSell

\* An order moves a whole number of shares of a ticker, down only if it is a sale.
LEMMA OrderSigned ==
    ASSUME NEW o \in OrderType
    PROVE  /\ o.ticker \in Tickers /\ Signed(o) \in Int
           /\ IsSell(o) => Signed(o) < 0
           /\ ~IsSell(o) => Signed(o) > 0
BY DEF OrderType, Signed, IsSell

\* A plan takes each ticker of the target, and each one held, to its target in one
\* order, and sells before it buys.
PlanLeads(orders, held, goal, target) ==
    /\ \A k \in DOMAIN orders :
          held[orders[k].ticker] + Signed(orders[k]) = goal[orders[k].ticker]
    /\ \A i, j \in DOMAIN orders : i < j =>
          /\ orders[i].ticker # orders[j].ticker
          /\ IsSell(orders[j]) => IsSell(orders[i])
    /\ \A t \in Tickers : (t \in target \/ held[t] >= 0) /\ held[t] # goal[t] =>
          \E k \in DOMAIN orders : orders[k].ticker = t

\* The orders that plan_rebalance writes are such a plan.
LEMMA PlanOrdersLead ==
    ASSUME NEW p \in PriceTables, NEW target \in kSubset(HoldTopN, Tickers),
           positions \in [Tickers -> Int], AccountValue(p) \in Int
    PROVE  /\ PlanOrders(p, target) \in Seq(OrderType)
           /\ PlanLeads(PlanOrders(p, target), positions, Goal(AccountValue(p), p, target), target)
<1> DEFINE goal == Goal(AccountValue(p), p, target)
           down == {t \in Tickers : positions[t] - goal[t] > 0}
           up == {t \in target : goal[t] - positions[t] > 0}
           a == Ascending(down)
           c == Ascending(up)
           sells == [k \in DOMAIN a |-> Order(a[k], "SELL", positions[a[k]] - goal[a[k]])]
           buys == [k \in DOMAIN c |-> Order(c[k], "BUY", goal[c[k]] - positions[c[k]])]
<1>1. /\ target \in SUBSET Tickers /\ IsFiniteSet(Tickers) /\ Tickers \in SUBSET Int
      /\ \A t \in Tickers : p[t] \in Nat \ {0} /\ positions[t] \in Int
      /\ HoldTopN \in Nat \ {0}
  BY FS_CardinalityType DEF kSubset
<1>2. \A t \in Tickers : goal[t] \in Int /\ goal[t] = TargetShares(p, target, t)
  <2>1. \A v \in Int, d \in Nat \ {0} : v \div d \in Int
    OBVIOUS
  <2>2. \A t \in Tickers : HoldTopN * p[t] \in Nat \ {0}
    BY <1>1
  <2> QED
    BY <2>1, <2>2 DEF Goal, TargetShares
<1>3. \A t \in Tickers : t \notin target => goal[t] = 0
  BY DEF Goal
<1> HIDE DEF goal
<1>4. Sells(p, target) = sells
  <2>1. {t \in Tickers : positions[t] - TargetShares(p, target, t) > 0} = down
    BY <1>2
  <2> DEFINE alike == [k \in DOMAIN a |-> Order(a[k], "SELL",
                                positions[a[k]] - TargetShares(p, target, a[k]))]
  <2>2. Sells(p, target) = alike
    BY <2>1 DEF Sells
  <2>3. \A k \in DOMAIN a : a[k] \in Tickers
    <3>1. IsFiniteSet(down) /\ down \in SUBSET Int /\ down \subseteq Tickers
      BY <1>1, FS_Subset
    <3> HIDE DEF down
    <3>2. a \in Seq(down)
      BY <3>1, AscendingLists
    <3> HIDE DEF a
    <3>3. \A k \in DOMAIN a : a[k] \in down
      BY <3>2, MembersOf
    <3> QED
      BY <3>1, <3>3, Zenon
  <2> HIDE DEF a
  <2> QED
    BY <1>2, <2>2, <2>3
<1>5. Buys(p, target) = buys
  <2>1. {t \in target : TargetShares(p, target, t) - positions[t] > 0} = up
    BY <1>1, <1>2
  <2> DEFINE alike == [k \in DOMAIN c |-> Order(c[k], "BUY",
                                TargetShares(p, target, c[k]) - positions[c[k]])]
  <2>2. Buys(p, target) = alike
    BY <2>1 DEF Buys
  <2>3. \A k \in DOMAIN c : c[k] \in Tickers
    <3>1. IsFiniteSet(up) /\ up \in SUBSET Int /\ up \subseteq Tickers
      BY <1>1, FS_Subset
    <3> HIDE DEF up
    <3>2. c \in Seq(up)
      BY <3>1, AscendingLists
    <3> HIDE DEF c
    <3>3. \A k \in DOMAIN c : c[k] \in up
      BY <3>2, MembersOf
    <3> QED
      BY <3>1, <3>3, Zenon
  <2> HIDE DEF c
  <2> QED
    BY <1>2, <2>2, <2>3
<1>6. /\ \A t \in down : t \in Tickers /\ positions[t] - goal[t] \in Nat \ {0}
      /\ \A t \in up : t \in Tickers /\ t \in target /\ goal[t] - positions[t] \in Nat \ {0}
      /\ \A t \in Tickers : t \notin down /\ goal[t] # positions[t] => goal[t] - positions[t] > 0
      /\ \A t \in target : goal[t] - positions[t] > 0 => t \in up
      /\ \A t \in down : t \notin up
  BY <1>1, <1>2
<1>7. /\ IsFiniteSet(down) /\ down \in SUBSET Int /\ IsFiniteSet(up) /\ up \in SUBSET Int
  BY <1>1, FS_Subset
<1> HIDE DEF down, up
<1>8. /\ a \in Seq(down) /\ DOMAIN a = 1..Len(a) /\ Len(a) \in Nat
      /\ \A i \in 1..Len(a) : a[i] \in down
      /\ \A i, j \in 1..Len(a) : i < j => a[i] # a[j]
      /\ \A t \in down : \E i \in 1..Len(a) : a[i] = t
  <2>1. /\ a \in Seq(down) /\ Len(a) = Cardinality(down)
        /\ \A i \in 1..Cardinality(down) : a[i] \in down
        /\ \A i, j \in 1..Cardinality(down) : i < j => a[i] < a[j]
        /\ \A t \in down : \E i \in 1..Cardinality(down) : a[i] = t
    BY <1>7, AscendingLists
  <2> HIDE DEF a
  <2>2. \A x, y \in down : x < y => x # y
    BY <1>7
  <2> QED
    BY <2>1, <2>2
<1>9. /\ c \in Seq(up) /\ DOMAIN c = 1..Len(c) /\ Len(c) \in Nat
      /\ \A i \in 1..Len(c) : c[i] \in up
      /\ \A i, j \in 1..Len(c) : i < j => c[i] # c[j]
      /\ \A t \in up : \E i \in 1..Len(c) : c[i] = t
  <2>1. /\ c \in Seq(up) /\ Len(c) = Cardinality(up)
        /\ \A i \in 1..Cardinality(up) : c[i] \in up
        /\ \A i, j \in 1..Cardinality(up) : i < j => c[i] < c[j]
        /\ \A t \in up : \E i \in 1..Cardinality(up) : c[i] = t
    BY <1>7, AscendingLists
  <2> HIDE DEF c
  <2>2. \A x, y \in up : x < y => x # y
    BY <1>7
  <2> QED
    BY <2>1, <2>2
<1> HIDE DEF a, c
<1>10. \A i \in 1..Len(a) : /\ sells[i] \in OrderType /\ sells[i].ticker = a[i]
                            /\ Signed(sells[i]) = -(positions[a[i]] - goal[a[i]])
                            /\ IsSell(sells[i])
  <2> SUFFICES ASSUME NEW i \in 1..Len(a)
               PROVE  /\ sells[i] \in OrderType /\ sells[i].ticker = a[i]
                      /\ Signed(sells[i]) = -(positions[a[i]] - goal[a[i]])
                      /\ IsSell(sells[i])
    BY Zenon
  <2>1. PICK t \in Tickers, q \in Nat \ {0} : t = a[i] /\ q = positions[a[i]] - goal[a[i]]
    BY <1>6, <1>8
  <2>2. sells[i] = Order(t, "SELL", q)
    BY <1>8, <2>1
  <2> HIDE DEF sells
  <2>3. sells[i] \in OrderType /\ sells[i].ticker = t /\ IsSell(sells[i])
    BY <2>2, OrderIs, Zenon
  <2>4. Signed(sells[i]) = -q
    BY <2>2, OrderIs
  <2> QED
    BY <2>1, <2>3, <2>4
<1>11. \A i \in 1..Len(c) : /\ buys[i] \in OrderType /\ buys[i].ticker = c[i]
                            /\ Signed(buys[i]) = goal[c[i]] - positions[c[i]]
                            /\ ~IsSell(buys[i])
  <2> SUFFICES ASSUME NEW i \in 1..Len(c)
               PROVE  /\ buys[i] \in OrderType /\ buys[i].ticker = c[i]
                      /\ Signed(buys[i]) = goal[c[i]] - positions[c[i]]
                      /\ ~IsSell(buys[i])
    BY Zenon
  <2>1. PICK t \in Tickers, q \in Nat \ {0} : t = c[i] /\ q = goal[c[i]] - positions[c[i]]
    BY <1>6, <1>9
  <2>2. buys[i] = Order(t, "BUY", q)
    BY <1>9, <2>1
  <2> HIDE DEF buys
  <2>3. /\ buys[i] \in OrderType /\ buys[i].ticker = t
        /\ Signed(buys[i]) = q /\ ~IsSell(buys[i])
    BY <2>2, OrderIs, Zenon
  <2> QED
    BY <2>1, <2>3, Zenon
<1>12. sells \in Seq(OrderType) /\ Len(sells) = Len(a)
  <2>1. DOMAIN sells = 1..Len(a) /\ sells = [i \in 1..Len(a) |-> sells[i]]
    BY <1>8
  <2> HIDE DEF sells
  <2>2. sells \in [1..Len(a) -> OrderType]
    BY <1>10, <2>1
  <2> QED
    BY <1>8, <2>2, FunctionIsSeq
<1>13. buys \in Seq(OrderType) /\ Len(buys) = Len(c)
  <2>1. DOMAIN buys = 1..Len(c) /\ buys = [i \in 1..Len(c) |-> buys[i]]
    BY <1>9
  <2> HIDE DEF buys
  <2>2. buys \in [1..Len(c) -> OrderType]
    BY <1>11, <2>1
  <2> QED
    BY <1>9, <2>2, FunctionIsSeq
<1> HIDE DEF sells, buys
<1> DEFINE orders == sells \o buys
           n == Len(a)
           m == Len(c)
<1>14. /\ orders \in Seq(OrderType) /\ DOMAIN orders = 1..n + m /\ n \in Nat /\ m \in Nat
       /\ \A i \in 1..n : i \in DOMAIN orders /\ orders[i] = sells[i]
       /\ \A i \in 1..m : n + i \in DOMAIN orders /\ orders[n + i] = buys[i]
       /\ \A k \in DOMAIN orders : k \in 1..n \/ (k - n \in 1..m /\ orders[k] = buys[k - n])
  <2>1. n \in Nat /\ m \in Nat /\ n = Len(sells) /\ m = Len(buys)
    BY <1>8, <1>9, <1>12, <1>13
  <2> HIDE DEF orders, n, m
  <2>2. orders = sells \o buys
    BY DEF orders
  <2>3. Joined(OrderType, n, m, orders, sells, buys)
    BY <1>12, <1>13, <2>1, <2>2, ConcatIs
  <2> QED
    BY <2>1, <2>3, Zenon DEF Joined
<1> HIDE DEF orders, n, m
<1>15. ASSUME NEW k \in DOMAIN orders
       PROVE  positions[orders[k].ticker] + Signed(orders[k]) = goal[orders[k].ticker]
  <2>1. CASE k \in 1..n
    <3>1. orders[k].ticker = a[k] /\ a[k] \in Tickers
          /\ Signed(orders[k]) = -(positions[a[k]] - goal[a[k]])
      BY <1>6, <1>8, <1>10, <1>14, <2>1 DEF n
    <3>2. positions[a[k]] \in Int /\ goal[a[k]] \in Int
      BY <1>1, <1>2, <3>1
    <3> QED
      BY <3>1, <3>2
  <2>2. CASE k \notin 1..n
    <3>1. k - n \in 1..m /\ orders[k] = buys[k - n]
      BY <1>14, <2>2
    <3>2. PICK i \in 1..m : orders[k] = buys[i]
      BY <3>1
    <3>3. orders[k].ticker = c[i] /\ c[i] \in Tickers
          /\ Signed(orders[k]) = goal[c[i]] - positions[c[i]]
      BY <1>6, <1>9, <1>11, <3>2 DEF m
    <3>4. positions[c[i]] \in Int /\ goal[c[i]] \in Int
      BY <1>1, <1>2, <3>3
    <3> QED
      BY <3>3, <3>4
  <2> QED
    BY <2>1, <2>2
<1>16. ASSUME NEW i \in DOMAIN orders, NEW j \in DOMAIN orders, i < j
       PROVE  /\ orders[i].ticker # orders[j].ticker
              /\ IsSell(orders[j]) => IsSell(orders[i])
  <2>1. CASE j \in 1..n
    <3>1. i \in 1..n
      BY <1>14, <1>16, <2>1
    <3>2. a[i] # a[j]
      BY <1>8, <1>16, <2>1, <3>1 DEF n
    <3>3. orders[i].ticker = a[i] /\ orders[j].ticker = a[j] /\ IsSell(orders[i])
      BY <1>10, <1>14, <2>1, <3>1 DEF n
    <3> QED
      BY <3>2, <3>3
  <2>2. CASE j \notin 1..n
    <3>1. j - n \in 1..m /\ orders[j] = buys[j - n]
      BY <1>14, <2>2
    <3>2. orders[j].ticker = c[j - n] /\ c[j - n] \in up /\ ~IsSell(orders[j])
      BY <1>9, <1>11, <3>1 DEF m
    <3>3. CASE i \in 1..n
      <4>1. orders[i].ticker = a[i] /\ a[i] \in down
        BY <1>8, <1>10, <1>14, <3>3 DEF n
      <4> QED
        BY <1>6, <3>2, <4>1
    <3>4. CASE i \notin 1..n
      <4>1. i - n \in 1..m /\ orders[i] = buys[i - n] /\ i - n < j - n
        BY <1>14, <1>16, <3>4
      <4>2. orders[i].ticker = c[i - n]
        BY <1>11, <4>1 DEF m
      <4> QED
        BY <1>9, <3>1, <3>2, <4>1, <4>2 DEF m
    <3> QED
      BY <3>3, <3>4
  <2> QED
    BY <2>1, <2>2
<1>17. ASSUME NEW t \in Tickers, t \in target \/ positions[t] >= 0, positions[t] # goal[t]
       PROVE  \E k \in DOMAIN orders : orders[k].ticker = t
  <2>1. CASE t \in down
    <3>1. PICK i \in 1..n : a[i] = t
      BY <1>8, <2>1 DEF n
    <3> QED
      BY <1>10, <1>14, <3>1 DEF n
  <2>2. CASE t \notin down
    <3>1. goal[t] - positions[t] > 0
      BY <1>6, <1>17, <2>2
    <3>2. t \in target
      BY <1>1, <1>3, <1>17, <3>1
    <3>3. PICK i \in 1..m : c[i] = t
      BY <1>6, <1>9, <3>1, <3>2 DEF m
    <3> QED
      BY <1>11, <1>14, <3>3 DEF m
  <2> QED
    BY <2>1, <2>2
<1>18. PlanOrders(p, target) = orders
  BY <1>4, <1>5 DEF PlanOrders, orders
<1> QED
  BY <1>14, <1>15, <1>16, <1>17, <1>18 DEF PlanLeads, goal

-------------------------------------------------------------------------
(* The type of every variable, and the order that a call has in hand.      *)

InHand ==
    /\ pc \in {"await", "unfilled", "book", "position"} => plan # <<>>
    /\ current \in {"working", "rejected"} => pc = "await"
    /\ current = "filled" => pc \in {"await", "book", "position"}
    /\ pc \in {"book", "position"} => current = "filled"

\* The head of a plan that has orders, and the rest of it.
LEMMA HeadOf ==
    ASSUME NEW s \in Seq(OrderType), s # <<>>
    PROVE  /\ Head(s) \in OrderType /\ Tail(s) \in Seq(OrderType)
           /\ \A x \in Seq(OrderType) : Append(x, Head(s)) \in Seq(OrderType)
OBVIOUS

\* What the account is worth is an integer.
LEMMA ValueTyped ==
    ASSUME shares \in [Tickers -> Int], cash \in Int, NEW p \in PriceTables
    PROVE  AccountValue(p) \in Int /\ AccountValue(p) = cash + Worth(shares, p)
<1>1. AccountValue(p) = cash + Worth(shares, p)
  BY DEF AccountValue, Worth
<1>2. Worth(shares, p) \in Int
  BY WorthAre
<1> QED
  BY <1>1, <1>2

\* What a trade is: the shares move by the order, and the money and what slippage costs
\* together by no more than the order at the plan's price.
Traded(o, held, money, cost) ==
    /\ held = [shares EXCEPT ![o.ticker] = @ + Signed(o)]
    /\ money \in Int /\ cost \in Nat
    /\ money + cost >= cash + slipped - Signed(o) * price[o.ticker]

\* Every trade is one of these.
LEMMA TradeIs ==
    ASSUME NEW o \in OrderType, price \in PriceTables, cash \in Int, slipped \in Nat, Trade(o)
    PROVE  Traded(o, shares', cash', slipped') /\ before' = before
<1>1. o.ticker \in Tickers /\ Signed(o) \in Int
  BY OrderSigned
<1>2. price[o.ticker] \in Nat \ {0}
  BY <1>1
<1>3. PICK q, p : q = Signed(o) /\ p = price[o.ticker]
  OBVIOUS
<1>4. PICK avg \in AvgPrices(o) :
          /\ shares' = [shares EXCEPT ![o.ticker] = @ + q]
          /\ cash' = cash - q * avg /\ slipped' = slipped + Loss(q * (avg - p))
          /\ before' = before
  BY <1>3 DEF Trade
<1>5. avg \in Int /\ q \in Int /\ p \in Int
  BY <1>1, <1>2, <1>3, <1>4 DEF AvgPrices
<1>6. \A x, y, z \in Int : x * y \in Int /\ x * (y - z) \in Int /\ x * (y - z) = x * y - x * z
  OBVIOUS
<1>7. PICK paid, planned \in Int : paid = q * avg /\ planned = q * p /\ q * (avg - p) = paid - planned
  BY <1>5, <1>6
<1>8. PICK loss \in Nat : loss = Loss(paid - planned) /\ loss >= paid - planned
  <2>1. \A x, y \in Int : Loss(x - y) \in Nat /\ Loss(x - y) >= x - y
    BY DEF Loss
  <2> QED
    BY <2>1
<1>9. cash' = cash - paid /\ slipped' = slipped + loss
  BY <1>4, <1>7, <1>8, Zenon
<1>10. cash' \in Int /\ slipped' \in Nat /\ cash' + slipped' >= cash + slipped - planned
  <2>1. \A a \in Int, b \in Nat, x, y \in Int, z \in Nat : z >= x - y =>
            /\ a - x \in Int /\ b + z \in Nat /\ (a - x) + (b + z) >= a + b - y
    OBVIOUS
  <2>2. loss >= paid - planned
    BY <1>8
  <2> QED
    BY <1>9, <2>1, <2>2
<1> QED
  BY <1>3, <1>4, <1>7, <1>10 DEF Traded

\* A trade moves whole shares and whole money.
LEMMA TradeTyped ==
    ASSUME NEW o \in OrderType, shares \in [Tickers -> Int], cash \in Int,
           price \in PriceTables, slipped \in Nat, before \in Nat, Trade(o)
    PROVE  /\ shares' \in [Tickers -> Int] /\ cash' \in Int
           /\ slipped' \in Nat /\ before' \in Nat
<1>1. o.ticker \in Tickers /\ Signed(o) \in Int
  BY OrderSigned
<1> QED
  BY <1>1, TradeIs DEF Traded

\* In every state the variables have their types, and a call that is in an order's
\* midst has that order at the head of the plan.
LEMMA PilotInvariance == PilotSpec => [](PilotTypeOK /\ InHand)
<1> DEFINE Inv == PilotTypeOK /\ InHand
<1>1. PilotInit => Inv
  BY DEF PilotInit, PilotStart, PilotTypeOK, InHand
<1>2. Inv /\ [PilotNext]_pilotVars => Inv'
  <2> SUFFICES ASSUME Inv, [PilotNext]_pilotVars PROVE Inv'
    OBVIOUS
  <2> USE DEF record, account, slippage, process, history, InHand
  <2>1. CASE InitializePilot \/ StartPilot \/ CompletePilot \/ HaltPilot
    <3>1. pilot' \in [status : {"none", "AWAITING_START", "ACTIVE", "COMPLETED", "HALTED"},
                      capital : Nat, reason : BOOLEAN]
      <4>1. CASE InitializePilot
        BY <4>1 DEF InitializePilot, SetPilot
      <4>2. CASE StartPilot \/ CompletePilot \/ HaltPilot
        <5>1. \/ pilot' = [pilot EXCEPT !.status = "ACTIVE"]
              \/ pilot' = [pilot EXCEPT !.status = "COMPLETED"]
              \/ pilot' = [pilot EXCEPT !.status = "HALTED", !.reason = TRUE]
          BY <4>2 DEF StartPilot, CompletePilot, HaltPilot, SetPilot
        <5> QED
          BY <5>1 DEF PilotTypeOK
      <4> QED
        BY <2>1, <4>1, <4>2
    <3>2. UNCHANGED <<positions, fills, account, process, price, clock>>
      BY <2>1 DEF InitializePilot, StartPilot, CompletePilot, HaltPilot, SetPilot
    <3> QED
      BY <3>1, <3>2 DEF PilotTypeOK
  <2>2. CASE PlanRebalance
    <3>1. PICK p \in PriceTables, target \in kSubset(HoldTopN, Tickers) :
              price' = p /\ plan' = PlanOrders(p, target)
      BY <2>2 DEF PlanRebalance
    <3>2. plan' \in Seq(OrderType)
      <4>1. /\ positions \in [Tickers -> Int] /\ shares \in [Tickers -> Int] /\ cash \in Int
        BY DEF PilotTypeOK
      <4>2. AccountValue(p) \in Int
        BY <4>1, ValueTyped
      <4> QED
        BY <3>1, <4>1, <4>2, PlanOrdersLead
    <3> QED
      BY <2>2, <3>1, <3>2 DEF PlanRebalance, PilotTypeOK
  <2>3. CASE PlaceOrder
    <3>1. /\ UNCHANGED <<record, shares, cash, slippage, seq, plan, price, clock, rebalances,
                         crashes, history>>
          /\ pc' \in {"await", "unfilled"} /\ current' \in {"none", "working"}
      BY <2>3 DEF PlaceOrder
    <3>2. left' \in Seq(OrderType)
      <4>1. left \in Seq(OrderType) /\ plan \in Seq(OrderType)
        BY DEF PilotTypeOK
      <4>2. plan # <<>> /\ (left' = left \/ left' = Append(left, Head(plan)))
        BY <2>3 DEF PlaceOrder
      <4>3. Append(left, Head(plan)) \in Seq(OrderType)
        BY <4>1, <4>2, HeadOf, Zenon
      <4> QED
        BY <4>1, <4>2, <4>3, Zenon
    <3> QED
      BY <2>3, <3>1, <3>2 DEF PlaceOrder, PilotTypeOK
  <2>4. CASE Execute
    <3>1. Head(plan) \in OrderType
      BY <2>4, HeadOf DEF Execute, PilotTypeOK
    <3>2. shares' \in [Tickers -> Int] /\ cash' \in Int /\ slipped' \in Nat /\ before' \in Nat
      BY <2>4, <3>1, TradeTyped DEF Execute, PilotTypeOK
    <3> QED
      BY <2>4, <3>2 DEF Execute, PilotTypeOK
  <2>5. CASE Reject
    BY <2>5 DEF Reject, PilotTypeOK
  <2>6. CASE AwaitFill
    BY <2>6 DEF AwaitFill, PilotTypeOK
  <2>7. CASE GiveUp
    <3>1. plan # <<>> /\ pc' = "unfilled" /\ current' = "none"
      BY <2>7 DEF GiveUp
    <3>2. left' = left \/ left' = Append(left, Head(plan))
      BY <2>7 DEF GiveUp
    <3>3. left' \in Seq(OrderType)
      <4>1. left \in Seq(OrderType) /\ plan \in Seq(OrderType) /\ plan # <<>>
        BY <3>1 DEF PilotTypeOK
      <4>2. Append(left, Head(plan)) \in Seq(OrderType)
        BY <4>1, HeadOf
      <4> QED
        BY <3>2, <4>1, <4>2
    <3> QED
      BY <2>7, <3>1, <3>3 DEF GiveUp, PilotTypeOK
  <2>8. CASE ReportUnfilled
    BY <2>8, HeadOf DEF ReportUnfilled, PilotTypeOK
  <2>9. ASSUME NEW k \in DOMAIN left, ExecuteLeft(k) PROVE Inv'
    <3>1. left[k] \in OrderType /\ RemoveAt(left, k) \in Seq(OrderType)
      BY DEF PilotTypeOK, RemoveAt
    <3>2. shares' \in [Tickers -> Int] /\ cash' \in Int /\ slipped' \in Nat /\ before' \in Nat
      BY <2>9, <3>1, TradeTyped DEF ExecuteLeft, PilotTypeOK
    <3> QED
      BY <2>9, <3>1, <3>2 DEF ExecuteLeft, PilotTypeOK
  <2>10. CASE RecordFill
    <3>1. PICK ts \in clock..MaxClock : clock' = ts /\ fills' = fills \cup {<<ts, seq>>}
      BY <2>10 DEF RecordFill, FillKey
    <3> QED
      BY <2>10, <3>1 DEF RecordFill, PilotTypeOK
  <2>11. CASE UpsertPosition
    <3>1. Head(plan) \in OrderType /\ Tail(plan) \in Seq(OrderType)
      BY <2>11, HeadOf DEF UpsertPosition, PilotTypeOK
    <3>2. positions' \in [Tickers -> Int]
      BY <2>11, <3>1, OrderSigned DEF UpsertPosition, Booked, PilotTypeOK
    <3> QED
      BY <2>11, <3>1, <3>2 DEF UpsertPosition, PilotTypeOK
  <2>12. CASE PlanDone
    BY <2>12 DEF PlanDone, PilotTypeOK
  <2>13. CASE Crash
    BY <2>13, HeadOf DEF Crash, PilotTypeOK
  <2>14. CASE UNCHANGED pilotVars
    BY <2>14 DEF pilotVars, PilotTypeOK
  <2> QED
    BY <2>1, <2>2, <2>3, <2>4, <2>5, <2>6, <2>7, <2>8, <2>9, <2>10, <2>11, <2>12,
       <2>13, <2>14 DEF PilotNext
<1> QED
  BY <1>1, <1>2, PTL DEF PilotSpec

\* The variables of the pilot have their types: its orders are of whole positive numbers
\* of shares of tickers of the universe.
THEOREM PilotIsTyped == PilotSpec => []PilotTypeOK
BY PilotInvariance, PTL

-------------------------------------------------------------------------
(* As long as every order fills, the money and the shares suffice but for  *)
(* what slippage costs.                                                    *)

\* The orders still to execute lead to holdings that the account can pay for.
Affords(rest, held, money, p) ==
    \E goal \in [Tickers -> Nat] :
        /\ Worth(goal, p) <= money + Worth(held, p)
        /\ \A k \in DOMAIN rest :
              held[rest[k].ticker] + Signed(rest[k]) = goal[rest[k].ticker]
        /\ \A i, j \in DOMAIN rest : i < j =>
              /\ rest[i].ticker # rest[j].ticker
              /\ IsSell(rest[j]) => IsSell(rest[i])
        /\ \A t \in Tickers : held[t] # goal[t] =>
              \E k \in DOMAIN rest : rest[k].ticker = t

\* The debt is within the credit, and no ticker is sold short.
Solvent(held, money, credit) == money + credit >= 0 /\ \A t \in Tickers : held[t] >= 0

\* More money pays for the same orders.
LEMMA MoreAffords ==
    ASSUME NEW rest, NEW held \in [Tickers -> Int], NEW p \in PriceTables,
           NEW money \in Int, NEW more \in Int, money <= more, NEW credit \in Nat
    PROVE  /\ Affords(rest, held, money, p) => Affords(rest, held, more, p)
           /\ Solvent(held, money, credit) => Solvent(held, more, credit)
<1>1. Worth(held, p) \in Int
  BY WorthAre
<1>2. \A goal \in [Tickers -> Nat] : Worth(goal, p) \in Int
  <2>1. \A goal \in [Tickers -> Nat] : goal \in [Tickers -> Int]
    OBVIOUS
  <2> QED
    BY <2>1, WorthAre
<1>3. \A goal \in [Tickers -> Nat] :
          Worth(goal, p) <= money + Worth(held, p) => Worth(goal, p) <= more + Worth(held, p)
  <2>1. \A a, b \in Int : a <= money + b => a <= more + b
    OBVIOUS
  <2> QED
    BY <1>1, <1>2, <2>1
<1>4. Affords(rest, held, money, p) => Affords(rest, held, more, p)
  BY <1>3 DEF Affords
<1>5. Solvent(held, money, credit) => Solvent(held, more, credit)
  BY DEF Solvent
<1> QED
  BY <1>4, <1>5

\* The first of such orders leaves the debt within the credit and no holding below zero,
\* and the rest are still such orders.
LEMMA FirstAfforded ==
    ASSUME NEW rest \in Seq(OrderType), rest # <<>>, NEW p \in PriceTables,
           NEW held \in [Tickers -> Int], NEW money \in Int, NEW credit \in Nat,
           Solvent(held, money, credit), Affords(rest, held, money, p),
           NEW o, o = Head(rest), NEW after, NEW remains,
           after = [held EXCEPT ![o.ticker] = @ + Signed(o)],
           remains = money - Signed(o) * p[o.ticker]
    PROVE  Solvent(after, remains, credit) /\ Affords(Tail(rest), after, remains, p)
<1>0. money + credit >= 0 /\ \A t \in Tickers : held[t] >= 0
  BY DEF Solvent
<1>1. PICK goal \in [Tickers -> Nat] :
          /\ Worth(goal, p) <= money + Worth(held, p)
          /\ \A k \in DOMAIN rest :
                held[rest[k].ticker] + Signed(rest[k]) = goal[rest[k].ticker]
          /\ \A i, j \in DOMAIN rest : i < j =>
                /\ rest[i].ticker # rest[j].ticker
                /\ IsSell(rest[j]) => IsSell(rest[i])
          /\ \A t \in Tickers : held[t] # goal[t] =>
                \E k \in DOMAIN rest : rest[k].ticker = t
  BY DEF Affords
<1> DEFINE t0 == o.ticker
           q == Signed(o)
<1>2. /\ o \in OrderType /\ 1 \in DOMAIN rest /\ o = rest[1]
      /\ \A k \in DOMAIN rest : k # 1 => 1 < k
  OBVIOUS
<1>3. t0 \in Tickers /\ q \in Int /\ (IsSell(o) => q < 0) /\ (~IsSell(o) => q > 0)
  BY <1>2, OrderSigned
<1>4. p[t0] \in Nat \ {0} /\ held[t0] \in Int
  BY <1>3
<1>5. after \in [Tickers -> Int] /\ after[t0] = goal[t0]
      /\ \A t \in Tickers : t # t0 => after[t] = held[t]
  BY <1>1, <1>2, <1>3
<1>6. Worth(after, p) = Worth(held, p) + q * p[t0]
  BY <1>3, WorthAre
<1>7. /\ Worth(held, p) \in Int /\ Worth(goal, p) \in Int /\ Worth(after, p) \in Int
      /\ q * p[t0] \in Int /\ remains \in Int
  <2>1. goal \in [Tickers -> Int] /\ after \in [Tickers -> Int]
    BY <1>5
  <2>2. Worth(held, p) \in Int /\ Worth(goal, p) \in Int /\ Worth(after, p) \in Int
    BY <2>1, WorthAre
  <2>3. \A x, y, z \in Int : x * y \in Int /\ z - x * y \in Int
    OBVIOUS
  <2> QED
    BY <1>3, <1>4, <2>2, <2>3
<1> HIDE DEF t0, q
<1>8. remains + Worth(after, p) = money + Worth(held, p)
  BY <1>6, <1>7 DEF t0, q
<1>9. \A t \in Tickers : after[t] >= 0
  BY <1>0, <1>5
<1>10. remains + credit >= 0
  <2>1. CASE IsSell(o)
    <3>1. \A x \in Int, y \in Nat : x < 0 => x * y <= 0
      OBVIOUS
    <3>2. q * p[t0] <= 0
      BY <1>3, <1>4, <2>1, <3>1
    <3> QED
      BY <1>0, <1>7, <3>2 DEF t0, q
  <2>2. CASE ~IsSell(o)
    <3>1. \A k \in DOMAIN rest : ~IsSell(rest[k])
      BY <1>1, <1>2, <2>2
    <3>2. \A t \in Tickers : after[t] <= goal[t]
      <4> SUFFICES ASSUME NEW t \in Tickers, t # t0, held[t] # goal[t]
                   PROVE  held[t] <= goal[t]
        BY <1>5
      <4>1. PICK k \in DOMAIN rest : rest[k].ticker = t
        BY <1>1
      <4>2. rest[k] \in OrderType /\ ~IsSell(rest[k])
        BY <3>1
      <4>3. Signed(rest[k]) \in Int /\ Signed(rest[k]) > 0
        BY <4>2, OrderSigned
      <4>4. held[t] + Signed(rest[k]) = goal[t] /\ held[t] \in Int
        BY <1>1, <4>1
      <4> QED
        BY <4>3, <4>4
    <3>3. Worth(after, p) <= Worth(goal, p)
      <4>1. goal \in [Tickers -> Int] /\ after \in [Tickers -> Int]
        BY <1>5
      <4>2. \A more \in [Tickers -> Int] :
                (\A t \in Tickers : after[t] <= more[t]) => Worth(after, p) <= Worth(more, p)
        BY <4>1, WorthAre
      <4> QED
        BY <3>2, <4>1, <4>2
    <3> QED
      BY <1>1, <1>7, <1>8, <3>3
  <2> QED
    BY <2>1, <2>2
<1>11. Affords(Tail(rest), after, remains, p)
  <2>1. /\ \A k \in DOMAIN Tail(rest) : /\ k + 1 \in DOMAIN rest /\ k + 1 # 1
                                        /\ Tail(rest)[k] = rest[k + 1] /\ k \in Int
        /\ \A k \in DOMAIN rest : k # 1 => /\ k - 1 \in DOMAIN Tail(rest)
                                           /\ Tail(rest)[k - 1] = rest[k]
    OBVIOUS
  <2>2. Worth(goal, p) <= remains + Worth(after, p)
    BY <1>1, <1>8
  <2>3. ASSUME NEW k \in DOMAIN Tail(rest)
        PROVE  after[Tail(rest)[k].ticker] + Signed(Tail(rest)[k]) = goal[Tail(rest)[k].ticker]
    <3>1. k + 1 \in DOMAIN rest /\ 1 < k + 1 /\ Tail(rest)[k] = rest[k + 1]
      BY <1>2, <2>1
    <3>2. rest[k + 1].ticker # t0 /\ rest[k + 1].ticker \in Tickers
      <4>1. rest[k + 1] \in OrderType
        BY <3>1
      <4> QED
        BY <1>1, <1>2, <3>1, <4>1, OrderSigned DEF t0
    <3> QED
      BY <1>1, <1>5, <3>1, <3>2
  <2>4. ASSUME NEW i \in DOMAIN Tail(rest), NEW j \in DOMAIN Tail(rest), i < j
        PROVE  /\ Tail(rest)[i].ticker # Tail(rest)[j].ticker
               /\ IsSell(Tail(rest)[j]) => IsSell(Tail(rest)[i])
    <3>1. i + 1 < j + 1
      BY <2>1, <2>4
    <3> QED
      BY <1>1, <2>1, <3>1
  <2>5. ASSUME NEW t \in Tickers, after[t] # goal[t]
        PROVE  \E k \in DOMAIN Tail(rest) : Tail(rest)[k].ticker = t
    <3>1. t # t0 /\ held[t] # goal[t]
      BY <1>5, <2>5
    <3>2. PICK k \in DOMAIN rest : rest[k].ticker = t
      BY <1>1, <3>1
    <3>3. k # 1
      BY <1>2, <3>1, <3>2 DEF t0
    <3> QED
      BY <2>1, <3>2, <3>3
  <2> QED
    BY <2>2, <2>3, <2>4, <2>5 DEF Affords
<1> QED
  BY <1>9, <1>10, <1>11 DEF Solvent

\* The orders of a plan, made for an account that is worth something, are such orders.
LEMMA PlanAfforded ==
    ASSUME NEW p \in PriceTables, NEW target \in kSubset(HoldTopN, Tickers),
           shares \in [Tickers -> Int], cash \in Int, positions = shares,
           AccountValue(p) >= 0, \A t \in Tickers : shares[t] >= 0
    PROVE  Affords(PlanOrders(p, target), shares, cash, p)
<1> DEFINE value == AccountValue(p)
           goal == Goal(value, p, target)
<1>1. value \in Int /\ value = cash + Worth(shares, p) /\ Worth(shares, p) \in Int
  BY ValueTyped, WorthAre
<1>3. value \in Nat
  BY <1>1
<1>4. goal \in [Tickers -> Nat] /\ Worth(goal, p) <= value
  BY <1>3, GoalAfforded
<1>5. PlanLeads(PlanOrders(p, target), positions, goal, target)
  BY <1>1, PlanOrdersLead
<1> HIDE DEF value, goal
<1> QED
  BY <1>1, <1>4, <1>5 DEF PlanLeads, Affords

\* The orders that nobody has executed yet.
Rest == IF current = "filled" THEN Tail(plan) ELSE plan

\* While every order filled, what is left of the plan is affordable at the plan's prices
\* with the money and what slippage took of it, and so is an order that a call has just
\* given up; between two plans nothing is owed but the slippage of the last.
CashKept ==
    clean =>
        /\ Solvent(shares, cash + slipped, before)
        /\ pc = "idle" => cash + slipped >= 0
        /\ pc # "unfilled" => left = <<>> /\ stray = {}
        /\ pc = "unfilled" =>
              \/ left = <<>>
              \/ left = <<Head(plan)>> /\ Affords(plan, shares, cash + slipped, price)
        /\ pc \in {"submit", "await", "book", "position"} =>
              Affords(Rest, shares, cash + slipped, price)

\* Whoever executes the head of an affordable plan can pay for it.
LEMMA TradeAfforded ==
    ASSUME plan \in Seq(OrderType), plan # <<>>, price \in PriceTables,
           shares \in [Tickers -> Int], cash \in Int, slipped \in Nat, before \in Nat,
           Solvent(shares, cash + slipped, before),
           Affords(plan, shares, cash + slipped, price), Trade(Head(plan))
    PROVE  /\ Solvent(shares', cash' + slipped', before')
           /\ Affords(Tail(plan), shares', cash' + slipped', price)
<1>1. PICK o : o = Head(plan)
  OBVIOUS
<1>2. o \in OrderType /\ o.ticker \in Tickers /\ Signed(o) \in Int
  <2>1. Head(plan) \in OrderType
    BY HeadOf
  <2> QED
    BY <1>1, <2>1, OrderSigned
<1>3. Traded(o, shares', cash', slipped') /\ before' = before
  BY <1>1, <1>2, TradeIs
<1>4. PICK money, left_over : money = cash + slipped /\ left_over = cash' + slipped'
  OBVIOUS
<1>5. PICK after, remains : after = shares' /\ remains = money - Signed(o) * price[o.ticker]
  OBVIOUS
<1>6. price[o.ticker] \in Int /\ money \in Int
  BY <1>2, <1>4
<1>7. after = [shares EXCEPT ![o.ticker] = @ + Signed(o)] /\ after \in [Tickers -> Int]
  <2>1. after = [shares EXCEPT ![o.ticker] = @ + Signed(o)]
    BY <1>3, <1>5, Zenon DEF Traded
  <2> QED
    BY <1>2, <2>1
<1>8. /\ left_over \in Int /\ remains \in Int /\ remains <= left_over
      /\ remains = money - Signed(o) * price[o.ticker]
  <2>1. \A x, y \in Int : x * y \in Int
    OBVIOUS
  <2>2. PICK planned \in Int : planned = Signed(o) * price[o.ticker]
    BY <1>2, <1>6, <2>1
  <2>3. remains = money - planned
    BY <1>5, <2>2, Zenon
  <2>4. cash' \in Int /\ slipped' \in Nat /\ cash' + slipped' >= cash + slipped - planned
    BY <1>3, <2>2, Zenon DEF Traded
  <2>5. left_over \in Int /\ left_over >= money - planned
    <3>1. \A a, c, x \in Int, b, d \in Nat : a + b >= c + d - x =>
              a + b \in Int /\ a + b >= (c + d) - x
      OBVIOUS
    <3>2. cash' + slipped' \in Int /\ cash' + slipped' >= (cash + slipped) - planned
      BY <2>4, <3>1, Zenon
    <3> QED
      BY <1>4, <3>2, Zenon
  <2> QED
    BY <1>6, <2>2, <2>3, <2>5
<1>9. Solvent(after, remains, before) /\ Affords(Tail(plan), after, remains, price)
  BY <1>1, <1>4, <1>6, <1>7, <1>8, FirstAfforded
<1>10. Solvent(after, left_over, before) /\ Affords(Tail(plan), after, left_over, price)
  BY <1>7, <1>8, <1>9, MoreAffords
<1> QED
  BY <1>3, <1>4, <1>5, <1>10, Zenon

\* A plan that has no order left leaves a debt of slippage only.
LEMMA PaidOff ==
    ASSUME price \in PriceTables, shares \in [Tickers -> Int], NEW money \in Int,
           Affords(<<>>, shares, money, price)
    PROVE  money >= 0
<1>1. PICK goal \in [Tickers -> Nat] :
          /\ Worth(goal, price) <= money + Worth(shares, price)
          /\ \A t \in Tickers : shares[t] # goal[t] => \E k \in DOMAIN <<>> : <<>>[k].ticker = t
  BY DEF Affords
<1>2. \A t \in Tickers : shares[t] = goal[t]
  BY <1>1
<1>3. shares = goal
  BY <1>2
<1>4. Worth(shares, price) \in Int
  BY WorthAre
<1> QED
  BY <1>1, <1>3, <1>4

\* In every state the money of the account is as CashKept says.
LEMMA CashInvariance == PilotSpec => []CashKept
<1> DEFINE Facts == PilotTypeOK /\ InHand /\ CallKept /\ BooksKept
<1>1. PilotInit => CashKept
  BY DEF PilotInit, PilotStart, CashKept, Solvent
<1>2. CashKept /\ Facts /\ [PilotNext]_pilotVars => CashKept'
  <2> SUFFICES ASSUME CashKept, Facts, [PilotNext]_pilotVars PROVE CashKept'
    OBVIOUS
  <2> USE DEF record, account, slippage, process, history, InHand
  <2>0. /\ plan \in Seq(OrderType) /\ left \in Seq(OrderType) /\ price \in PriceTables
        /\ shares \in [Tickers -> Int] /\ positions \in [Tickers -> Int] /\ cash \in Int
        /\ slipped \in Nat /\ before \in Nat
    BY DEF PilotTypeOK
  <2>1. CASE InitializePilot \/ StartPilot \/ CompletePilot \/ HaltPilot
    BY <2>1 DEF InitializePilot, StartPilot, CompletePilot, HaltPilot, SetPilot, CashKept, Rest
  <2>2. CASE PlanRebalance
    <3> SUFFICES ASSUME clean' PROVE CashKept'
      BY DEF CashKept
    <3>1. PICK p \in PriceTables, target \in kSubset(HoldTopN, Tickers) :
              /\ price' = p /\ plan' = PlanOrders(p, target)
              /\ clean' = (clean /\ AccountValue(p) >= 0)
      BY <2>2 DEF PlanRebalance
    <3>2. /\ pc = "idle" /\ pc' = "submit" /\ current # "filled"
          /\ slipped' = 0 /\ before' = slipped
          /\ UNCHANGED <<shares, cash, left, current, stray>>
      BY <2>2 DEF PlanRebalance, CallKept
    <3>3. clean /\ AccountValue(p) >= 0
      BY <3>1
    <3>4. stray = {} /\ left = <<>> /\ cash + slipped >= 0 /\ \A t \in Tickers : shares[t] >= 0
      BY <3>2, <3>3 DEF CashKept, Solvent
    <3>5. positions = shares
      BY <2>0, <3>2, <3>4 DEF BooksKept, Owed
    <3>6. Affords(PlanOrders(p, target), shares, cash, p)
      BY <2>0, <3>3, <3>4, <3>5, PlanAfforded
    <3>7. cash' + slipped' = cash /\ (cash' + slipped') + before' >= 0
      BY <2>0, <3>2, <3>4
    <3>8. Solvent(shares', cash' + slipped', before')
      BY <3>2, <3>4, <3>7 DEF Solvent
    <3> QED
      BY <3>1, <3>2, <3>4, <3>6, <3>7, <3>8 DEF CashKept, Rest
  <2>3. CASE PlaceOrder
    BY <2>0, <2>3 DEF PlaceOrder, CashKept, Rest
  <2>4. CASE Execute
    <3> SUFFICES ASSUME clean PROVE CashKept'
      BY <2>4 DEF Execute, CashKept
    <3>1. /\ pc = "await" /\ current = "working" /\ current' = "filled"
          /\ Trade(Head(plan)) /\ UNCHANGED <<pc, left, stray, price, plan>>
      BY <2>4 DEF Execute
    <3>2. /\ plan # <<>> /\ left = <<>> /\ stray = {}
          /\ Affords(plan, shares, cash + slipped, price) /\ Solvent(shares, cash + slipped, before)
      BY <3>1 DEF CashKept, Rest
    <3>3. /\ Solvent(shares', cash' + slipped', before')
          /\ Affords(Tail(plan), shares', cash' + slipped', price)
      BY <2>0, <3>1, <3>2, TradeAfforded
    <3> QED
      BY <3>1, <3>2, <3>3 DEF CashKept, Rest
  <2>5. CASE Reject
    BY <2>5 DEF Reject, CashKept, Rest
  <2>6. CASE AwaitFill
    BY <2>6 DEF AwaitFill, CashKept, Rest
  <2>7. CASE GiveUp
    <3>1. CASE current = "filled"
      BY <2>7, <3>1 DEF GiveUp, CashKept, Rest
    <3>2. CASE current # "filled"
      <4>1. left' = left \/ left' = Append(left, Head(plan))
        BY <2>7 DEF GiveUp
      <4>2. left = <<>> => Append(left, Head(plan)) = <<Head(plan)>>
        OBVIOUS
      <4> QED
        BY <2>7, <3>2, <4>1, <4>2 DEF GiveUp, CashKept, Rest
    <3> QED
      BY <3>1, <3>2
  <2>8. CASE ReportUnfilled
    BY <2>8 DEF ReportUnfilled, CashKept
  <2>9. ASSUME NEW k \in DOMAIN left, ExecuteLeft(k) PROVE CashKept'
    <3> SUFFICES ASSUME clean PROVE CashKept'
      BY <2>9 DEF ExecuteLeft, CashKept
    <3>1. /\ pc = "unfilled" /\ left = <<Head(plan)>> /\ plan # <<>>
          /\ Affords(plan, shares, cash + slipped, price)
          /\ Solvent(shares, cash + slipped, before)
      BY DEF CashKept
    <3>2. k = 1 /\ left[k] = Head(plan) /\ RemoveAt(left, k) = <<>>
      BY <3>1 DEF RemoveAt
    <3>3. /\ Trade(Head(plan)) /\ left' = <<>> /\ pc' = pc
      BY <2>9, <3>2 DEF ExecuteLeft
    <3>4. Solvent(shares', cash' + slipped', before')
      BY <2>0, <3>1, <3>3, TradeAfforded
    <3> QED
      BY <3>1, <3>3, <3>4 DEF CashKept
  <2>10. CASE RecordFill
    BY <2>10 DEF RecordFill, CashKept, Rest
  <2>11. CASE UpsertPosition
    <3>1. current = "filled" /\ current' = "none"
      BY <2>11 DEF UpsertPosition, CallKept
    <3> QED
      BY <2>11, <3>1 DEF UpsertPosition, CashKept, Rest
  <2>12. CASE PlanDone
    <3> SUFFICES ASSUME clean PROVE CashKept'
      BY <2>12 DEF PlanDone, CashKept
    <3>1. /\ pc = "submit" /\ plan = <<>> /\ pc' = "idle" /\ before' = 0
          /\ UNCHANGED <<shares, cash, left, slipped, stray>>
      BY <2>12 DEF PlanDone
    <3>2. Affords(<<>>, shares, cash + slipped, price) /\ left = <<>> /\ stray = {}
      BY <3>1 DEF CashKept, Rest, CallKept
    <3>3. cash + slipped >= 0
      BY <2>0, <3>2, PaidOff
    <3> QED
      BY <2>0, <3>1, <3>2, <3>3 DEF CashKept, Solvent
  <2>13. CASE Crash
    BY <2>13 DEF Crash, CashKept
  <2>14. CASE UNCHANGED pilotVars
    BY <2>14 DEF pilotVars, CashKept, Rest
  <2> QED
    BY <2>1, <2>2, <2>3, <2>4, <2>5, <2>6, <2>7, <2>8, <2>9, <2>10, <2>11, <2>12,
       <2>13, <2>14 DEF PilotNext
<1>3. PilotSpec => []Facts
  BY PilotInvariance, BooksInvariance, PTL
<1> QED
  BY <1>1, <1>2, <1>3, PTL DEF PilotSpec

\* As long as every order fills, no sale is of shares that the account does not hold, and
\* a debt is never more than what the fills cost beyond the prices of the plan in hand, or
\* of the one before while that is not done: wherever the fills lie within the slippage,
\* whatever the prices do between two rebalances, in any universe.
THEOREM BuysAreCovered == PilotSpec => []CashCoversBuys
<1>1. CashKept => CashCoversBuys
  BY DEF CashKept, Solvent, CashCoversBuys
<1> QED
  BY <1>1, CashInvariance, PTL
=======================================================================
