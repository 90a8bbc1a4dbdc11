------------------------ MODULE Studies_proofs ------------------------
(***************************************************************************)
(* What the research studies report, for any data and any parameters: the  *)
(* ledger of the volatility carry simulation, the studies of an edge in    *)
(* the index, the months and the picks of the sector momentum, and the     *)
(* promotion of a ledger by its slices.                                    *)
(***************************************************************************)
EXTENDS EdgeStudy, Momentum, SplitGates, VolCarry, Figures_proofs

-------------------------------------------------------------------------
(* The volatility carry, for any calendar, any returns that are bounded    *)
(* below and any monthly limit.                                            *)

CarryRow == [ratio : {"contango", "gray", "backwardation"}, target : BOOLEAN, flip : BOOLEAN,
             earns : BOOLEAN, held : BOOLEAN, trigger : BOOLEAN, dd : Int]
Seen == Len(carryRows)
CarryBound == -(MonthlyMaxLoss + 1) + (IF WorstDay < 0 THEN WorstDay ELSE 0)

CarryTypeOK ==
    /\ carryRows \in Seq(CarryRow) /\ carryDay = Seen + 1 /\ Seen <= Len(CarryMonth)
    /\ inPosition \in BOOLEAN /\ suspended \in BOOLEAN /\ suspendedUntil \in Nat
    /\ monthStart \in Int /\ strategyNav \in Int

\* Whether the month of day d was suspended before day d, by the rows up to the day before.
SuspendedBefore(d) == \E j \in 1..d - 1 : carryRows[j].trigger /\ CarryMonth[j] = CarryMonth[d]

\* Each row, in terms of the rows before it.
RowRight(i) ==
    LET row == carryRows[i] IN
    /\ row.target <=> i > 1 /\ carryRows[i - 1].ratio = "contango" /\ ~SuspendedBefore(i)
    /\ row.earns <=> i > 1 /\ carryRows[i - 1].held
    /\ row.held <=> row.target /\ ~row.trigger
    /\ row.flip <=> row.target # row.earns
    /\ row.dd >= CarryBound

\* The variables of the loop, in terms of the last row.
LoopRight ==
    /\ priorRatio = IF Seen = 0 THEN "unknown" ELSE carryRows[Seen].ratio
    /\ inPosition <=> Seen > 0 /\ carryRows[Seen].held
    /\ suspended <=>
          /\ Seen > 0
          /\ \E j \in 1..Seen : carryRows[j].trigger /\ CarryMonth[j] = CarryMonth[Seen]
    /\ suspended => suspendedUntil = CarryMonth[Seen] /\ ~inPosition
    /\ strategyNav - monthStart >= CarryBound
    /\ ~suspended => strategyNav - monthStart > -MonthlyMaxLoss

CarryInv == CarryTypeOK /\ LoopRight /\ \A i \in 1..Seen : RowRight(i)

\* The moves of a day are bounded below: the data is finite.
BoundedBelow == \E w \in CarryMoves : \A move \in CarryMoves : w <= move

\* The worst day is one of the moves, and no move is worse.
LEMMA WorstMove ==
    ASSUME BoundedBelow
    PROVE  WorstDay \in Int /\ \A move \in CarryMoves : WorstDay <= move
BY VolCarryAssumption DEF BoundedBelow, WorstDay

\* The months never go back.
LEMMA MonthsRise ==
    /\ Len(CarryMonth) \in Nat /\ DOMAIN CarryMonth = 1..Len(CarryMonth)
    /\ \A i \in DOMAIN CarryMonth : CarryMonth[i] \in Nat \ {0}
    /\ \A i, j \in DOMAIN CarryMonth : i <= j => CarryMonth[i] <= CarryMonth[j]
<1>1. /\ Len(CarryMonth) \in Nat /\ DOMAIN CarryMonth = 1..Len(CarryMonth)
      /\ \A i \in DOMAIN CarryMonth : CarryMonth[i] \in Nat \ {0}
  BY VolCarryAssumption, LenProperties, ElementOfSeq
<1> QED
  BY <1>1, VolCarryAssumption

\* A suspension is still on exactly when a row of the month triggered it.
LEMMA Suspension ==
    ASSUME CarryInv, carryDay \in DOMAIN CarryMonth
    PROVE  /\ StillSuspended <=> SuspendedBefore(carryDay)
           /\ StillSuspended => suspended /\ ~NewMonth
           /\ suspended /\ ~StillSuspended => NewMonth
<1>1. Seen \in Nat /\ carryDay = Seen + 1
  BY LenProperties DEF CarryInv, CarryTypeOK, Seen
<1>2. CASE Seen = 0
  BY <1>1, <1>2 DEF CarryInv, LoopRight, StillSuspended, SuspendedBefore
<1>3. CASE Seen > 0
  <2>1. Seen \in DOMAIN CarryMonth /\ Seen + 1 \in DOMAIN CarryMonth
    BY <1>1, <1>3, MonthsRise
  <2>2. /\ CarryMonth[Seen] \in Nat \ {0} /\ CarryMonth[Seen + 1] \in Nat \ {0}
        /\ CarryMonth[Seen] <= CarryMonth[Seen + 1]
    BY <2>1, MonthsRise
  <2>3. NewMonth <=> CarryMonth[Seen + 1] # CarryMonth[Seen]
    BY <1>1, <1>3 DEF NewMonth
  <2>4. suspended => suspendedUntil = CarryMonth[Seen]
    BY DEF CarryInv, LoopRight
  <2>5. StillSuspended <=> suspended /\ CarryMonth[Seen + 1] = CarryMonth[Seen]
    BY <1>1, <2>2, <2>3, <2>4 DEF StillSuspended
  <2>6. suspended <=> \E j \in 1..Seen : carryRows[j].trigger /\ CarryMonth[j] = CarryMonth[Seen]
    BY <1>3 DEF CarryInv, LoopRight
  <2>7. \A j \in 1..Seen : CarryMonth[j] = CarryMonth[Seen + 1] =>
            CarryMonth[Seen] = CarryMonth[Seen + 1]
    <3> SUFFICES ASSUME NEW j \in 1..Seen, CarryMonth[j] = CarryMonth[Seen + 1]
                 PROVE  CarryMonth[Seen] = CarryMonth[Seen + 1]
      OBVIOUS
    <3>1. j \in DOMAIN CarryMonth /\ j <= Seen
      BY <1>1, <2>1, MonthsRise
    <3>2. CarryMonth[j] <= CarryMonth[Seen]
      BY <2>1, <3>1, MonthsRise
    <3> QED
      BY <2>2, <3>2
  <2>8. SuspendedBefore(carryDay) <=>
            \E j \in 1..Seen : carryRows[j].trigger /\ CarryMonth[j] = CarryMonth[Seen + 1]
    BY <1>1 DEF SuspendedBefore
  <2> QED
    BY <2>3, <2>5, <2>6, <2>7, <2>8
<1> QED
  BY <1>1, <1>2, <1>3

\* A day appends the row that its variables say, and leaves the earlier rows alone.
LEMMA DayStep ==
    ASSUME BoundedBelow, CarryInv,
           NEW ratio \in {"contango", "gray", "backwardation"}, NEW move \in CarryMoves,
           SimulateDay(ratio, move)
    PROVE  CarryInv'
<1> DEFINE held == StillSuspended
           anchor == IF NewMonth THEN strategyNav ELSE monthStart
           target == Target(priorRatio = "contango", held)
           flip == target # inPosition
           nav == strategyNav + (IF inPosition THEN move ELSE 0) - (IF flip THEN 1 ELSE 0)
           trigger == nav - anchor <= -MonthlyMaxLoss /\ ~held
           row == [ratio |-> ratio, target |-> target, flip |-> flip, earns |-> inPosition,
                   held |-> target /\ ~trigger, trigger |-> trigger, dd |-> nav - anchor]
<1>1. /\ carryDay \in DOMAIN CarryMonth
      /\ monthStart' = anchor /\ strategyNav' = nav
      /\ suspended' = (held \/ trigger)
      /\ suspendedUntil' = IF trigger THEN CarryMonth[carryDay] ELSE
                           IF held THEN suspendedUntil ELSE 0
      /\ inPosition' = (target /\ ~trigger)
      /\ priorRatio' = ratio /\ carryDay' = carryDay + 1
      /\ carryRows' = Append(carryRows, row)
  BY DEF SimulateDay
<1>2. Seen \in Nat /\ carryDay = Seen + 1
  BY LenProperties DEF CarryInv, CarryTypeOK, Seen
<1>3. move \in Int /\ WorstDay \in Int /\ WorstDay <= move /\ MonthlyMaxLoss \in Nat \ {0}
  BY WorstMove, VolCarryAssumption
<1>4. /\ inPosition \in BOOLEAN /\ suspended \in BOOLEAN
      /\ monthStart \in Int /\ strategyNav \in Int /\ suspendedUntil \in Nat
  BY DEF CarryInv, CarryTypeOK
<1>5. anchor \in Int /\ nav \in Int
  BY <1>3, <1>4
<1>6. /\ target \in BOOLEAN /\ flip \in BOOLEAN /\ trigger \in BOOLEAN /\ held \in BOOLEAN
  BY DEF Target, StillSuspended
<1>7. row \in CarryRow
  BY <1>4, <1>5, <1>6 DEF CarryRow
<1>8. /\ carryRows' \in Seq(CarryRow) /\ Seen' = Seen + 1
      /\ \A i \in 1..Seen : carryRows'[i] = carryRows[i]
      /\ carryRows'[Seen + 1] = row
  BY <1>1, <1>7, AppendProperties DEF CarryInv, CarryTypeOK, Seen
<1>9. /\ held <=> SuspendedBefore(carryDay)
      /\ held => suspended /\ ~NewMonth
      /\ suspended /\ ~held => NewMonth
  BY <1>1, Suspension
<1>10. CarryTypeOK'
  <2>1. Seen' <= Len(CarryMonth)
    BY <1>1, <1>2, <1>8, MonthsRise
  <2>2. CarryMonth[carryDay] \in Nat
    BY <1>1, MonthsRise
  <2>3. suspendedUntil' \in Nat
    BY <1>1, <1>4, <2>2
  <2> QED
    BY <1>1, <1>2, <1>4, <1>5, <1>6, <1>8, <2>1, <2>3 DEF CarryTypeOK
<1>11. nav - anchor >= CarryBound /\ (~held /\ ~trigger => nav - anchor > -MonthlyMaxLoss)
  <2>1. ~suspended => strategyNav - monthStart > -MonthlyMaxLoss
    BY DEF CarryInv, LoopRight
  <2>2. suspended => ~inPosition
    BY DEF CarryInv, LoopRight
  <2>3. strategyNav - monthStart >= CarryBound
    BY DEF CarryInv, LoopRight
  <2>4. CASE held
    <3>1. anchor = monthStart /\ nav = strategyNav
      BY <1>4, <1>9, <2>2, <2>4 DEF Target
    <3> QED
      BY <2>3, <2>4, <3>1
  <2>5. CASE ~held
    <3>1. strategyNav - anchor > -MonthlyMaxLoss
      BY <1>3, <1>4, <1>9, <2>1, <2>5
    <3> QED
      BY <1>3, <1>4, <1>5, <2>5, <3>1 DEF CarryBound
  <2> QED
    BY <2>4, <2>5
<1>12. \A i \in 1..Seen : SuspendedBefore(i)' <=> SuspendedBefore(i)
  BY <1>2, <1>8 DEF SuspendedBefore
<1>13. SuspendedBefore(carryDay) <=>
           \E j \in 1..Seen : carryRows'[j].trigger /\ CarryMonth[j] = CarryMonth[Seen + 1]
  BY <1>2, <1>8 DEF SuspendedBefore
<1>14. LoopRight'
  <2>1. priorRatio' = carryRows'[Seen + 1].ratio
    <3>1. row.ratio = ratio
      OBVIOUS
    <3> HIDE DEF row
    <3> QED
      BY <1>1, <1>8, <3>1
  <2>2. inPosition' <=> carryRows'[Seen + 1].held
    <3>1. row.held = (target /\ ~trigger)
      OBVIOUS
    <3> HIDE DEF row, target, trigger
    <3> QED
      BY <1>1, <1>8, <3>1
  <2>3. suspended' <=>
            \E j \in 1..Seen + 1 : carryRows'[j].trigger /\ CarryMonth[j] = CarryMonth[Seen + 1]
    <3>1. carryRows'[Seen + 1].trigger = trigger
      BY <1>8
    <3>2. 1..Seen + 1 = 1..Seen \cup {Seen + 1}
      BY <1>2
    <3> HIDE DEF held, trigger
    <3> QED
      BY <1>1, <1>9, <1>13, <3>1, <3>2
  <2>4. suspended' => suspendedUntil' = CarryMonth[Seen + 1] /\ ~inPosition'
    <3>1. CASE trigger
      BY <1>1, <1>2, <3>1
    <3>2. CASE held
      <4>1. Seen > 0
        BY <1>2, <1>9, <3>2 DEF CarryInv, LoopRight
      <4>2. CarryMonth[Seen + 1] = CarryMonth[Seen]
        BY <1>2, <1>9, <3>2, <4>1 DEF NewMonth
      <4>3. suspendedUntil = CarryMonth[Seen]
        BY <1>9, <3>2 DEF CarryInv, LoopRight
      <4> QED
        BY <1>1, <3>2, <4>2, <4>3 DEF Target
    <3> QED
      BY <1>1, <3>1, <3>2
  <2>5. /\ strategyNav' - monthStart' >= CarryBound
        /\ ~suspended' => strategyNav' - monthStart' > -MonthlyMaxLoss
    BY <1>1, <1>11
  <2> QED
    BY <1>2, <1>8, <2>1, <2>2, <2>3, <2>4, <2>5 DEF LoopRight
<1>15. ASSUME NEW i \in 1..Seen PROVE RowRight(i)'
  <2>1. RowRight(i)
    BY DEF CarryInv
  <2>2. i > 1 => i - 1 \in 1..Seen
    BY <1>2
  <2> QED
    BY <1>8, <1>12, <2>1, <2>2 DEF RowRight, CarryBound
<1>16. /\ row.target <=> /\ Seen > 0 /\ carryRows'[Seen].ratio = "contango"
                         /\ ~SuspendedBefore(carryDay)
       /\ row.earns <=> Seen > 0 /\ carryRows'[Seen].held
       /\ row.held <=> row.target /\ ~row.trigger
       /\ row.flip <=> row.target # row.earns
       /\ row.dd >= CarryBound
  <2>1. priorRatio = "contango" <=> Seen > 0 /\ carryRows'[Seen].ratio = "contango"
    BY <1>2, <1>8 DEF CarryInv, LoopRight
  <2>2. inPosition <=> Seen > 0 /\ carryRows'[Seen].held
    BY <1>2, <1>8 DEF CarryInv, LoopRight
  <2>3. row.target <=> priorRatio = "contango" /\ ~held
    BY DEF Target
  <2>4. /\ row.earns = inPosition /\ row.dd = nav - anchor
        /\ row.held <=> row.target /\ ~row.trigger
        /\ row.flip <=> row.target # row.earns
    OBVIOUS
  <2> HIDE DEF row, held, nav, anchor
  <2> QED
    BY <1>9, <1>11, <2>1, <2>2, <2>3, <2>4
<1>17. \A i \in 1..Seen + 1 : RowRight(i)'
  <2>1. SuspendedBefore(carryDay) <=>
            \E j \in 1..Seen + 1 - 1 :
                carryRows'[j].trigger /\ CarryMonth[j] = CarryMonth[Seen + 1]
    BY <1>2, <1>13
  <2>2. ASSUME NEW i \in 1..Seen + 1, i = Seen + 1 PROVE RowRight(i)'
    <3> HIDE DEF row
    <3>1. carryRows'[i] = row /\ i - 1 = Seen /\ (i > 1 <=> Seen > 0)
      BY <1>2, <1>8, <2>2
    <3>2. SuspendedBefore(i)' <=> SuspendedBefore(carryDay)
      BY <1>2, <2>1, <2>2 DEF SuspendedBefore
    <3> QED
      BY <1>16, <3>1, <3>2 DEF RowRight, CarryBound
  <2> QED
    BY <1>2, <1>15, <2>2
<1> QED
  BY <1>8, <1>10, <1>14, <1>17 DEF CarryInv

\* Of every calendar: a month loses no more than the limit, a day and a flip; a day earns
\* only on the ratio of two days before; flips are paid for as CarryAccounted says.
THEOREM CarryIsAccounted ==
    ASSUME BoundedBelow
    PROVE  CarryInit /\ [][CarryNext]_volCarry => []CarryAccounted
<1>1. CarryInit => CarryInv
  <2> SUFFICES ASSUME CarryInit PROVE CarryInv
    OBVIOUS
  <2>1. Seen = 0 /\ carryRows \in Seq(CarryRow)
    BY DEF CarryInit, CarryStart, Seen
  <2>2. CarryBound \in Int /\ CarryBound <= 0 /\ MonthlyMaxLoss \in Nat \ {0}
    BY WorstMove, VolCarryAssumption DEF CarryBound
  <2>3. CarryTypeOK
    <3>1. carryDay = 1 /\ suspendedUntil = 0 /\ monthStart = 0 /\ strategyNav = 0
      BY DEF CarryInit, CarryStart
    <3>2. inPosition \in BOOLEAN /\ suspended \in BOOLEAN
      BY DEF CarryInit, CarryStart
    <3>3. Seen <= Len(CarryMonth)
      BY <2>1, MonthsRise
    <3> QED
      BY <2>1, <3>1, <3>2, <3>3 DEF CarryTypeOK
  <2>4. LoopRight
    <3>1. priorRatio = "unknown" /\ monthStart = 0 /\ strategyNav = 0
      BY DEF CarryInit, CarryStart
    <3>2. ~inPosition /\ ~suspended
      BY DEF CarryInit, CarryStart
    <3>3. strategyNav - monthStart >= CarryBound /\ strategyNav - monthStart > -MonthlyMaxLoss
      BY <2>2, <3>1
    <3> QED
      BY <2>1, <3>1, <3>2, <3>3 DEF LoopRight
  <2> QED
    BY <2>1, <2>3, <2>4 DEF CarryInv
<1>2. CarryInv /\ [CarryNext]_volCarry => CarryInv'
  <2> SUFFICES ASSUME CarryInv, [CarryNext]_volCarry PROVE CarryInv'
    OBVIOUS
  <2>1. CASE CarryNext
    BY <2>1, DayStep DEF CarryNext
  <2>2. CASE UNCHANGED volCarry
    BY <2>2 DEF volCarry, CarryInv, CarryTypeOK, LoopRight, RowRight, SuspendedBefore, Seen,
                CarryBound
  <2> QED
    BY <2>1, <2>2
<1>3. CarryInv => CarryAccounted
  <2> SUFFICES ASSUME CarryInv, NEW i \in DOMAIN carryRows
        PROVE  LET row == carryRows[i] IN
               /\ row.dd >= CarryBound
               /\ row.earns <=>
                     i > 2 /\ carryRows[i - 2].ratio = "contango" /\ ~carryRows[i - 1].trigger
                           /\ ~\E j \in 1..i - 2 : carryRows[j].trigger
                                                   /\ CarryMonth[j] = CarryMonth[i - 1]
               /\ (row.flip # (row.held # row.earns)) <=> row.trigger /\ row.target
    BY DEF CarryAccounted, CarryBound
  <2>1. Seen \in Nat /\ i \in 1..Seen
    BY LenProperties DEF CarryInv, CarryTypeOK, Seen
  <2>2. RowRight(i) /\ (i > 1 => RowRight(i - 1))
    BY <2>1 DEF CarryInv
  <2>3. carryRows[i] \in CarryRow
    BY <2>1, ElementOfSeq DEF CarryInv, CarryTypeOK, Seen
  <2>4. i > 2 => (i - 1) - 1 = i - 2
    BY <2>1
  <2>5. carryRows[i].earns <=>
            i > 2 /\ carryRows[i - 2].ratio = "contango" /\ ~carryRows[i - 1].trigger
                  /\ ~\E j \in 1..i - 2 : carryRows[j].trigger
                                          /\ CarryMonth[j] = CarryMonth[i - 1]
    BY <2>1, <2>2, <2>4 DEF RowRight, SuspendedBefore
  <2>6. (carryRows[i].flip # (carryRows[i].held # carryRows[i].earns))
            <=> carryRows[i].trigger /\ carryRows[i].target
    BY <2>2, <2>3 DEF RowRight, CarryRow
  <2> QED
    BY <2>2, <2>5, <2>6 DEF RowRight
<1> QED
  BY <1>1, <1>2, <1>3, PTL

-------------------------------------------------------------------------
(* The studies of an edge.                                                 *)

\* What a day holds.
DayKind == [priced : BOOLEAN, event : BOOLEAN, open : Nat \ {0}, signal : Nat \ {0},
            eow : Nat \ {0}, vix : Nat, bond : Nat]

\* The days of a study are those of the data, and its spec is one of the frozen specs.
StudyTyped == days \in [Dates -> DayKinds] /\ (study = "spec" => spec \in Specs)

\* The dates are finitely many numbers, and a date has the closes of its row.
LEMMA DatesAre ==
    ASSUME StudyTyped
    PROVE  /\ Len(EdgeMonth) \in Nat /\ Dates = 1..Len(EdgeMonth) /\ IsFiniteSet(Dates)
           /\ Dates \in SUBSET Int
           /\ \A d \in Dates : /\ days[d] \in DayKind
                               /\ days[d].vix \in Nat /\ days[d].bond \in Nat
<1>1. Len(EdgeMonth) \in Nat /\ Dates = 1..Len(EdgeMonth)
  BY EdgeAssumption DEF Dates, EdgeAssumption
<1>2. \A d \in Dates : days[d] \in DayKind
  BY EdgeAssumption DEF EdgeAssumption, StudyTyped, DayKind
<1>3. \A d \in Dates : days[d].vix \in Nat /\ days[d].bond \in Nat
  BY <1>2 DEF DayKind
<1>4. IsFiniteSet(Dates) /\ Dates \in SUBSET Int
  BY <1>1, FS_Interval
<1> QED
  BY <1>1, <1>2, <1>3, <1>4

\* What another day could have brought: the rows are the same, and those before the date
\* have the same closes.
LEMMA LaterRows ==
    ASSUME StudyTyped, NEW d \in Dates, NEW close \in Nat \ {0}
    PROVE  LET data == Later(d, close)
           IN  /\ \A e \in Dates : e < d => data[e] = days[e]
               /\ \A e \in Dates : data[e].vix # 0 <=> days[e].vix # 0
               /\ \A e \in Dates : data[e].bond # 0 <=> days[e].bond # 0
               /\ \A e \in Dates : data[e].event = days[e].event
<1> DEFINE data == Later(d, close)
<1>1. \A e \in Dates : days[e] \in DayKind
  BY DatesAre
<1>2. ASSUME NEW e \in Dates
      PROVE  /\ e < d => data[e] = days[e]
             /\ data[e].vix # 0 <=> days[e].vix # 0
             /\ data[e].bond # 0 <=> days[e].bond # 0
             /\ data[e].event = days[e].event
  <2>1. data[e] = IF e < d THEN days[e]
                  ELSE [days[e] EXCEPT !.vix = IF @ = 0 THEN 0 ELSE close,
                                       !.bond = IF @ = 0 THEN 0 ELSE close]
    BY DEF Later
  <2>2. days[e] \in DayKind
    BY <1>1
  <2> HIDE DEF data
  <2> QED
    BY <2>1, <2>2 DEF DayKind
<1> HIDE DEF data
<1>3. /\ \A e \in Dates : e < d => data[e] = days[e]
      /\ \A e \in Dates : data[e].vix # 0 <=> days[e].vix # 0
      /\ \A e \in Dates : data[e].bond # 0 <=> days[e].bond # 0
      /\ \A e \in Dates : data[e].event = days[e].event
  BY <1>2
<1> QED
  BY <1>3 DEF data

\* The filters of a date see the same in both.
LEMMA FiltersBlind ==
    ASSUME StudyTyped, NEW d \in Dates, NEW close \in Nat \ {0}
    PROVE  LET data == Later(d, close)
           IN  /\ HasPriorVix(data, d) <=> HasPriorVix(days, d)
               /\ HasPriorVix(days, d) => PriorVix(data, d) = PriorVix(days, d)
               /\ BondMove(data, d) = BondMove(days, d)
<1> DEFINE data == Later(d, close)
<1>1. /\ \A e \in Dates : e < d => data[e] = days[e]
      /\ \A e \in Dates : data[e].vix # 0 <=> days[e].vix # 0
      /\ \A e \in Dates : data[e].bond # 0 <=> days[e].bond # 0
  BY LaterRows
<1> HIDE DEF data
<1>2. RowsBefore(data, d) = RowsBefore(days, d)
  BY <1>1 DEF RowsBefore
<1>3. HasPriorVix(data, d) <=> HasPriorVix(days, d)
  BY <1>1, <1>2 DEF HasPriorVix
<1>4. ASSUME HasPriorVix(days, d) PROVE PriorVix(data, d) = PriorVix(days, d)
  <2> DEFINE R == RowsBefore(days, d)
  <2>1. R \in SUBSET Int /\ R # {} /\ d \in Int /\ \A e \in R : e <= d
    BY <1>4, DatesAre DEF HasPriorVix, RowsBefore
  <2>2. Max(R) \in R
    BY <2>1, MaxIn
  <2>3. Max(R) \in Dates /\ Max(R) < d
    BY <2>2 DEF RowsBefore
  <2> QED
    BY <1>1, <1>2, <2>3 DEF PriorVix
<1>5. BondMove(data, d) = BondMove(days, d)
  <2> DEFINE R == {e \in Dates : e < d /\ days[e].bond # 0}
             rows == Ascending(R)
             n == Len(rows)
  <2>1. R = {e \in Dates : e < d /\ data[e].bond # 0}
    BY <1>1
  <2>2. BondRows(data, d) = rows /\ BondRows(days, d) = rows
    BY <2>1 DEF BondRows
  <2>3. R \in SUBSET Int /\ IsFiniteSet(R)
    BY DatesAre, FS_Subset
  <2> HIDE DEF R
  <2>4. n \in Nat /\ \A i \in 1..n : rows[i] \in R
    BY <2>3, AscendingLists
  <2>5. \A i \in 1..n : data[rows[i]] = days[rows[i]]
    BY <1>1, <2>4 DEF R
  <2> HIDE DEF rows, n
  <2>6. /\ BondMove(data, d) = IF data[d].bond = 0 \/ n < 2 THEN 0
                               ELSE data[rows[n]].bond - data[rows[n - 1]].bond
        /\ BondMove(days, d) = IF days[d].bond = 0 \/ n < 2 THEN 0
                               ELSE days[rows[n]].bond - days[rows[n - 1]].bond
    BY <2>2 DEF BondMove, n
  <2>7. data[d].bond = 0 <=> days[d].bond = 0
    BY <1>1
  <2>8. CASE n < 2
    BY <2>6, <2>8
  <2>9. CASE ~(n < 2)
    <3>1. n \in 1..n /\ n - 1 \in 1..n
      BY <2>4, <2>9
    <3>2. data[rows[n]] = days[rows[n]] /\ data[rows[n - 1]] = days[rows[n - 1]]
      BY <2>5, <3>1
    <3> QED
      BY <2>6, <2>7, <3>2
  <2> QED
    BY <2>8, <2>9
<1> QED
  BY <1>3, <1>4, <1>5 DEF data

\* A date passes the filters or not whatever the closes of that date and of later ones.
LEMMA FilteredBlind ==
    ASSUME StudyTyped, NEW d \in Dates, NEW close \in Nat \ {0}, NEW cal, NEW s, NEW median
    PROVE  d \in Filtered(days, cal, s, median)
              <=> d \in Filtered(Later(d, close), cal, s, median)
<1>1. Later(d, close)[d].event = days[d].event
  BY LaterRows
<1>2. /\ HasPriorVix(Later(d, close), d) <=> HasPriorVix(days, d)
      /\ HasPriorVix(days, d) => PriorVix(Later(d, close), d) = PriorVix(days, d)
      /\ BondMove(Later(d, close), d) = BondMove(days, d)
  BY FiltersBlind
<1>3. InVixBand(Later(d, close), s.band, median, d) <=> InVixBand(days, s.band, median, d)
  BY <1>2 DEF InVixBand
<1>4. /\ InBondDirection(Later(d, close), s.bonds, d) <=> InBondDirection(days, s.bonds, d)
  BY <1>2 DEF InBondDirection
<1> QED
  BY <1>1, <1>3, <1>4 DEF Filtered

\* Whatever the study, the data stays and the spec is a frozen one.
LEMMA StudyTypedStep ==
    ASSUME StudyTyped, [EdgeNext]_edgeStudy
    PROVE  StudyTyped'
<1>1. ASSUME NEW s \in Specs, RunSpec(s) PROVE StudyTyped'
  BY <1>1 DEF StudyTyped, RunSpec, Report
<1>2. ASSUME NEW s \in Specs, Sweep(s) PROVE StudyTyped'
  BY <1>2 DEF StudyTyped, Sweep, Report
<1>3. ASSUME NEW s \in Specs, SweepGaps(s) PROVE StudyTyped'
  BY <1>3 DEF StudyTyped, SweepGaps, Report
<1>4. CASE RealizedVsImplied
  BY <1>4 DEF StudyTyped, RealizedVsImplied, Report
<1>5. CASE ComputeMetrics
  BY <1>5 DEF StudyTyped, ComputeMetrics
<1>6. CASE UNCHANGED edgeStudy
  BY <1>6 DEF StudyTyped, edgeStudy
<1> QED
  BY <1>1, <1>2, <1>3, <1>4, <1>5, <1>6 DEF EdgeNext

\* And at every step.
LEMMA StudyTypedKept == EdgeInit /\ [][EdgeNext]_edgeStudy => []StudyTyped
<1>1. EdgeInit => StudyTyped
  BY DEF EdgeInit, EdgeStart, StudyTyped
<1>2. StudyTyped /\ [EdgeNext]_edgeStudy => StudyTyped'
  BY StudyTypedStep
<1> QED
  BY <1>1, <1>2, PTL

\* Of any data and any frozen spec, no date is traded for what was known only on that date
\* or later: whatever the closes of the VIX and of the bonds would then have been, the
\* filters give the same answer.
THEOREM NoFilterLooksAhead == EdgeInit /\ [][EdgeNext]_edgeStudy => []NoLookAhead
<1>1. StudyTyped => NoLookAhead
  <2> SUFFICES ASSUME StudyTyped, study = "spec", NEW d \in spec.window,
                      NEW close \in {1, 2 * VixThreshold}
               PROVE  d \in Filtered(days, spec.window, spec, 2 * VixThreshold)
                          <=> d \in Filtered(Later(d, close), spec.window, spec,
                                             2 * VixThreshold)
    BY DEF NoLookAhead
  <2>1. d \in Dates
    BY EdgeAssumption DEF EdgeAssumption, StudyTyped, Dates
  <2>2. close \in Nat \ {0}
    BY EdgeAssumption DEF EdgeAssumption
  <2> QED
    BY <2>1, <2>2, FilteredBlind
<1> QED
  BY <1>1, StudyTypedKept, PTL

\* The figures of the verdicts are numbers.
LEMMA FiguresTyped ==
    ASSUME NEW s \in Seq(Int)
    PROVE  Len(s) \in Nat /\ SumSeq(s) \in Int /\ Spread(s) \in Int
<1>1. [i \in DOMAIN s |-> s[i] * s[i]] \in Seq(Int)
  <2>1. Len(s) \in Nat /\ DOMAIN s = 1..Len(s) /\ \A i \in DOMAIN s : s[i] * s[i] \in Int
    OBVIOUS
  <2>2. [i \in DOMAIN s |-> s[i] * s[i]] \in [1..Len(s) -> Int]
    BY <2>1
  <2> QED
    BY <2>1, <2>2, FunctionIsSeq
<1>2. Len(s) \in Nat /\ SumSeq(s) \in Int
  BY SumType
<1>3. SumSeq([i \in DOMAIN s |-> s[i] * s[i]]) \in Int
  BY <1>1, SumType
<1> QED
  BY <1>2, <1>3 DEF Spread

\* Trading the other way turns the sum around and leaves the spread.
LEMMA NegatedFigures ==
    ASSUME NEW s \in Seq(Int)
    PROVE  /\ Negated(s) \in Seq(Int) /\ Len(Negated(s)) = Len(s)
           /\ SumSeq(Negated(s)) = -SumSeq(s) /\ Spread(Negated(s)) = Spread(s)
<1> DEFINE t == Negated(s)
<1>1. Len(s) \in Nat /\ DOMAIN s = 1..Len(s) /\ \A i \in DOMAIN s : s[i] \in Int
  OBVIOUS
<1>2. t \in [1..Len(s) -> Int] /\ \A i \in 1..Len(s) : t[i] = -s[i]
  BY <1>1 DEF Negated
<1> HIDE DEF t
<1>3. t \in Seq(Int) /\ Len(t) = Len(s)
  BY <1>1, <1>2, FunctionIsSeq
<1>4. SumSeq(t) = -SumSeq(s)
  BY <1>2, <1>3, SumNegated
<1>5. [i \in DOMAIN t |-> t[i] * t[i]] = [i \in DOMAIN s |-> s[i] * s[i]]
  <2>1. DOMAIN t = DOMAIN s
    BY <1>1, <1>2
  <2>2. \A x \in Int : (-x) * (-x) = x * x
    OBVIOUS
  <2>3. \A i \in DOMAIN s : t[i] * t[i] = s[i] * s[i]
    BY <1>1, <1>2, <2>2
  <2> QED
    BY <2>1, <2>3
<1>6. SumSeq(t) * SumSeq(t) = SumSeq(s) * SumSeq(s)
  <2>1. \A x, y \in Int : y = -x => y * y = x * x
    OBVIOUS
  <2> QED
    BY <1>3, <1>4, <2>1, SumType
<1>7. Spread(t) = Spread(s)
  BY <1>3, <1>5, <1>6, Zenon DEF Spread
<1> QED
  BY <1>3, <1>4, <1>7 DEF t

\* The report of a spec and the sweep judge the same trades alike.
LEMMA SpecJudgesAlike ==
    ASSUME NEW s \in Seq(Int), NEW direction \in {"long", "fade"}
    PROVE  LET forward == IF direction = "fade" THEN Negated(s) ELSE s
           IN  SpecVerdict(s) = "EDGE_PRESENT_AND_SIGNIFICANT" <=>
                  IF HasT(s) THEN SweepVerdict(forward, "long", "fade") = direction
                  ELSE SumSeq(s) > 0
<1> DEFINE f == Negated(s)
<1>1. Len(s) \in Nat /\ SumSeq(s) \in Int /\ Spread(s) \in Int
  BY FiguresTyped
<1>2. /\ f \in Seq(Int) /\ Len(f) = Len(s)
      /\ SumSeq(f) = -SumSeq(s) /\ Spread(f) = Spread(s)
  BY NegatedFigures
<1> HIDE DEF f
<1>3. HasT(f) <=> HasT(s)
  BY <1>2 DEF HasT
<1>4. TwoOrMore(f) <=> TwoOrMore(s)
  <2>1. \A x, y \in Int : y = -x => y * y = x * x
    OBVIOUS
  <2>2. SumSeq(f) * SumSeq(f) = SumSeq(s) * SumSeq(s)
    BY <1>1, <1>2, <2>1
  <2> QED
    BY <1>2, <2>2, Zenon DEF TwoOrMore
<1>5. HasT(s) /\ SumSeq(s) = 0 => ~TwoOrMore(s)
  <2> SUFFICES ASSUME HasT(s), SumSeq(s) = 0 PROVE ~TwoOrMore(s)
    OBVIOUS
  <2>1. SumSeq(s) * SumSeq(s) * (Len(s) - 1) = 0
    BY <1>1
  <2>2. Spread(s) > 0
    BY DEF HasT
  <2> QED
    BY <1>1, <2>1, <2>2 DEF TwoOrMore
<1>6. SpecVerdict(s) = "EDGE_PRESENT_AND_SIGNIFICANT" <=>
          SumSeq(s) > 0 /\ ~(HasT(s) /\ ~TwoOrMore(s))
  BY DEF SpecVerdict, SimpleVerdict, WeakT
<1>7. CASE ~HasT(s)
  BY <1>6, <1>7
<1>8. CASE HasT(s) /\ direction = "long"
  <2>1. SweepVerdict(s, "long", "fade") = "long" <=> TwoOrMore(s) /\ SumSeq(s) > 0
    BY <1>8 DEF SweepVerdict, StrongT, SimpleVerdict
  <2> QED
    BY <1>6, <1>8, <2>1
<1>9. CASE HasT(s) /\ direction = "fade"
  <2>1. SweepVerdict(f, "long", "fade") = "fade" <=> TwoOrMore(f) /\ ~(SumSeq(f) > 0)
    BY <1>3, <1>9 DEF SweepVerdict, StrongT, SimpleVerdict
  <2>2. SweepVerdict(f, "long", "fade") = "fade" <=> TwoOrMore(s) /\ SumSeq(s) > 0
    BY <1>1, <1>2, <1>4, <1>5, <1>9, <2>1
  <2> QED
    BY <1>6, <1>9, <2>2 DEF f
<1> QED
  BY <1>7, <1>8, <1>9

\* The sweep calls a candidate an edge when its mean is positive and its t-statistic is
\* two or more.
LEMMA SweepCalls ==
    ASSUME NEW s
    PROVE  SweepVerdict(s, "EDGE_PRESENT_CONTINUATION", "EDGE_PRESENT_MEAN_REVERSION")
              = "EDGE_PRESENT_CONTINUATION" <=> Significant(s)
<1>1. CASE StrongT(s)
  <2>1. SweepVerdict(s, "EDGE_PRESENT_CONTINUATION", "EDGE_PRESENT_MEAN_REVERSION")
            = IF SumSeq(s) > 0 THEN "EDGE_PRESENT_CONTINUATION"
              ELSE "EDGE_PRESENT_MEAN_REVERSION"
    BY <1>1 DEF SweepVerdict
  <2>2. Significant(s) <=> SumSeq(s) > 0
    BY <1>1 DEF Significant, StrongT, HasT
  <2> QED
    BY <2>1, <2>2
<1>2. CASE ~StrongT(s)
  <2>1. SweepVerdict(s, "EDGE_PRESENT_CONTINUATION", "EDGE_PRESENT_MEAN_REVERSION")
            \in {"EDGE_INCONCLUSIVE", "NO_EDGE"}
    BY <1>2 DEF SweepVerdict
  <2>2. ~Significant(s)
    BY <1>2 DEF Significant, StrongT, HasT
  <2> QED
    BY <2>1, <2>2
<1> QED
  BY <1>1, <1>2

\* The ranking leaves out the candidates that entered less than twice, and changes none.
LEMMA RankedRows ==
    ASSUME NEW R, NEW rows \in Seq(R), NEW ranking \in Rankings(Twice(rows))
    PROVE  \A i \in DOMAIN ranking : ranking[i] \in R
<1> DEFINE kept == Twice(rows)
<1>1. kept \in Seq(R)
  <2>1. {i \in DOMAIN rows : Len(rows[i].returns) >= 2} \in SUBSET (1..Len(rows))
    OBVIOUS
  <2> QED
    BY <2>1, AtIs DEF Twice
<1> HIDE DEF kept
<1>2. PICK order \in Bijection(DOMAIN kept, DOMAIN kept) :
          ranking = [i \in DOMAIN kept |-> kept[order[i]]]
  BY DEF Rankings, kept
<1>3. \A i \in DOMAIN kept : order[i] \in DOMAIN kept
  BY DEF Bijection, Injection
<1>4. \A i \in DOMAIN kept : kept[i] \in R
  BY <1>1, MembersOf
<1> QED
  BY <1>2, <1>3, <1>4

\* A return is a number.
LEMMA ReturnTyped ==
    ASSUME NEW a \in Int, NEW b \in Nat \ {0}
    PROVE  Return(a, b) \in Int
BY DEF Return

\* The dates of a calendar that have prices, in their order.
LEMMA PricedDates ==
    ASSUME StudyTyped, NEW cal \in SUBSET Dates
    PROVE  ExtractPrices(days, cal) \in Seq(Dates)
<1> DEFINE K == {d \in cal : days[d].priced}
<1>1. K \in SUBSET Int /\ K \in SUBSET Dates /\ IsFiniteSet(K)
  BY DatesAre, FS_Subset
<1> HIDE DEF K
<1>2. Ascending(K) \in Seq(K)
  BY <1>1, AscendingLists
<1>3. Ascending(K) \in Seq(Dates)
  BY <1>1, <1>2, LargerSeq
<1> QED
  BY <1>3 DEF ExtractPrices, K

\* The returns of the days that entered are numbers.
LEMMA LedgerTyped ==
    ASSUME StudyTyped, NEW rows \in Seq(Dates), NEW threshold
    PROVE  /\ Entered(days, rows, threshold) \in Seq(Dates)
           /\ ForwardReturns(days, Entered(days, rows, threshold)) \in Seq(Int)
           /\ Len(ForwardReturns(days, Entered(days, rows, threshold)))
                  = Len(Entered(days, rows, threshold))
<1> DEFINE entered == Entered(days, rows, threshold)
<1>1. entered \in Seq(Dates)
  <2>1. {i \in DOMAIN rows : Return(days[rows[i]].signal, days[rows[i]].open) >= threshold}
            \in SUBSET (1..Len(rows))
    OBVIOUS
  <2> QED
    BY <2>1, AtIs DEF Entered
<1> HIDE DEF entered
<1>2. Len(entered) \in Nat /\ DOMAIN entered = 1..Len(entered)
  BY <1>1
<1>3. ASSUME NEW i \in 1..Len(entered)
      PROVE  Return(days[entered[i]].eow, days[entered[i]].signal) \in Int
  <2>1. days[entered[i]] \in DayKind
    BY <1>1, <1>2, DatesAre, MembersOf
  <2>2. days[entered[i]].eow \in Int /\ days[entered[i]].signal \in Nat \ {0}
    BY <2>1 DEF DayKind
  <2> QED
    BY <2>2, ReturnTyped
<1>4. ForwardReturns(days, entered) \in [1..Len(entered) -> Int]
  BY <1>2, <1>3 DEF ForwardReturns
<1>5. /\ ForwardReturns(days, entered) \in Seq(Int)
      /\ Len(ForwardReturns(days, entered)) = Len(entered)
  BY <1>2, <1>4, FunctionIsSeq
<1> QED
  BY <1>1, <1>5 DEF entered

\* What a report says.
LEMMA ErrorPart ==
    ASSUME NEW e, NEW r, r = [error |-> e]
    PROVE  r.error = e
OBVIOUS

\* What a report of a spec that traded says.
LEMMA ReportParts ==
    ASSUME NEW v, NEW e, NEW k, NEW r,
           r = [error |-> "", verdict |-> v, entered |-> e, skipped |-> k]
    PROVE  r.verdict = v
OBVIOUS

\* The report of a spec.
LEMMA SpecAgrees ==
    ASSUME StudyTyped, NEW s \in Specs, RunSpec(s)
    PROVE  VerdictsAgree'
<1> DEFINE rows == ExtractPrices(days, Filtered(days, s.window, s, 2 * VixThreshold))
           entered == Entered(days, rows, s.threshold)
           raw == ForwardReturns(days, entered)
           earned == IF s.direction = "fade" THEN Negated(raw) ELSE raw
           failed == IF rows = <<>> THEN "no_days"
                     ELSE IF s.direction \notin {"long", "fade"} THEN "unknown_direction"
                     ELSE IF entered = <<>> THEN "no_signals" ELSE ""
           ledger == [i \in DOMAIN entered |-> [date |-> entered[i], ret |-> earned[i]]]
<1>1. rows \in Seq(Dates)
  <2>1. s.window \in SUBSET Dates
    BY EdgeAssumption DEF EdgeAssumption, Dates
  <2>2. Filtered(days, s.window, s, 2 * VixThreshold) \in SUBSET Dates
    BY <2>1 DEF Filtered
  <2> QED
    BY <2>2, PricedDates
<1>2. entered \in Seq(Dates) /\ raw \in Seq(Int) /\ Len(raw) = Len(entered)
  <2> HIDE DEF rows
  <2> QED
    BY <1>1, LedgerTyped
<1>3. earned \in Seq(Int) /\ Len(earned) = Len(entered)
  <2> HIDE DEF raw, entered
  <2> QED
    BY <1>2, NegatedFigures
<1>4. /\ spec' = s /\ study' = "spec"
      /\ failed # "" => report'.error # ""
      /\ failed = "" => /\ report'.verdict = SpecVerdict(earned)
                        /\ trades' = ledger
  <2> HIDE DEF rows, entered, raw, earned, failed, ledger
  <2>1. spec' = s /\ study' = "spec"
    BY DEF RunSpec, Report, rows, entered, raw, earned, failed
  <2>2. failed # "" => report' = [error |-> failed]
    BY DEF RunSpec, Report, rows, entered, raw, earned, failed
  <2>3. failed = "" => /\ report' = [error |-> "", verdict |-> SpecVerdict(earned),
                                     entered |-> Len(entered),
                                     skipped |-> Len(rows) - Len(entered)]
                       /\ trades' = ledger
    BY DEF RunSpec, Report, rows, entered, raw, earned, failed, ledger
  <2>4. failed # "" => report'.error = failed
    BY <2>2, ErrorPart
  <2>5. failed = "" => report'.verdict = SpecVerdict(earned) /\ trades' = ledger
    BY <2>3, ReportParts
  <2> QED
    BY <2>1, <2>4, <2>5, Zenon
<1>5. failed = "" => s.direction \in {"long", "fade"}
  <2> HIDE DEF rows, entered
  <2> QED
    OBVIOUS
<1> HIDE DEF rows, entered, raw, earned, failed
<1>6. ReturnsOf(ledger) = earned
  BY <1>2, <1>3 DEF ReturnsOf
<1>7. CASE failed # ""
  BY <1>4, <1>7 DEF VerdictsAgree
<1>8. CASE failed = ""
  <2>1. ReturnsOf(trades)' = earned
    BY <1>4, <1>6, <1>8 DEF ReturnsOf
  <2>2. LET forward == IF s.direction = "fade" THEN Negated(earned) ELSE earned
        IN  SpecVerdict(earned) = "EDGE_PRESENT_AND_SIGNIFICANT" <=>
               IF HasT(earned) THEN SweepVerdict(forward, "long", "fade") = s.direction
               ELSE SumSeq(earned) > 0
    BY <1>3, <1>5, <1>8, SpecJudgesAlike
  <2> QED
    BY <1>4, <1>8, <2>1, <2>2 DEF VerdictsAgree
<1> QED
  BY <1>7, <1>8

\* The parts of the row of a candidate, and of a gap.
LEMMA SweepRowParts ==
    ASSUME NEW cal, NEW candidate, NEW median, NEW r, r = SweepRow(cal, candidate, median)
    PROVE  r.verdict = SweepVerdict(r.returns, "EDGE_PRESENT_CONTINUATION",
                                    "EDGE_PRESENT_MEAN_REVERSION")
BY DEF SweepRow

\* The candidates of a sweep are a sequence.
LEMMA CandidatesAre ==
    ASSUME NEW s
    PROVE  \E n \in Nat : DOMAIN SweepCandidates(s) = 1..n
<1> DEFINE bands == IF s.band = "none" THEN <<"none">> ELSE <<"low", "high">>
           moves == IF s.bonds = "none" THEN <<"none">> ELSE <<"up", "down">>
           n == Len(Thresholds) * (Len(moves) * Len(bands))
<1>1. Len(bands) \in Nat
  <2>1. Len(<<"none">>) = 1 /\ Len(<<"low", "high">>) = 2
    OBVIOUS
  <2> QED
    BY <2>1
<1>2. Len(moves) \in Nat
  <2>1. Len(<<"none">>) = 1 /\ Len(<<"up", "down">>) = 2
    OBVIOUS
  <2> QED
    BY <2>1
<1>3. Len(Thresholds) \in Nat
  BY EdgeAssumption DEF EdgeAssumption
<1>4. n \in Nat
  <2> HIDE DEF bands, moves
  <2>1. \A x, y, z \in Nat : x * (y * z) \in Nat
    OBVIOUS
  <2> QED
    BY <1>1, <1>2, <1>3, <2>1
<1>5. DOMAIN SweepCandidates(s) = 1..n
  BY DEF SweepCandidates
<1> HIDE DEF n
<1> QED
  BY <1>4, <1>5

\* The report of a sweep.
LEMMA SweepAgrees ==
    ASSUME NEW s \in Specs, Sweep(s)
    PROVE  VerdictsAgree'
<1> DEFINE candidates == SweepCandidates(s)
           median == TwiceMedianPriorVix(days, s.window)
           rows == [i \in DOMAIN candidates |-> SweepRow(s.window, candidates[i], median)]
           R == {SweepRow(s.window, candidates[i], median) : i \in DOMAIN candidates}
<1>1. PICK n \in Nat : DOMAIN candidates = 1..n
  BY CandidatesAre
<1> HIDE DEF candidates, median
<1>2. rows \in Seq(R)
  <2>1. rows \in [1..n -> R]
    BY <1>1
  <2> HIDE DEF rows, R
  <2> QED
    BY <1>1, <2>1, FunctionIsSeq
<1>3. PICK ranking \in Rankings(Twice(rows)) : Report("sweep", ranking, <<>>)
  BY DEF Sweep, candidates, median
<1>4. study' = "sweep" /\ report' = ranking
  BY <1>3 DEF Report
<1>5. ASSUME NEW r \in R
      PROVE  (r.verdict = "EDGE_PRESENT_CONTINUATION") = Significant(r.returns)
  <2>1. PICK i \in DOMAIN candidates : r = SweepRow(s.window, candidates[i], median)
    OBVIOUS
  <2>2. r.verdict = SweepVerdict(r.returns, "EDGE_PRESENT_CONTINUATION",
                                 "EDGE_PRESENT_MEAN_REVERSION")
    BY <2>1, SweepRowParts
  <2>3. r.verdict = "EDGE_PRESENT_CONTINUATION" <=> Significant(r.returns)
    BY <2>2, SweepCalls
  <2>4. Significant(r.returns) \in BOOLEAN
    BY DEF Significant
  <2> QED
    BY <2>3, <2>4
<1> HIDE DEF rows, R
<1>6. \A i \in DOMAIN ranking : ranking[i] \in R
  BY <1>2, <1>3, RankedRows
<1>7. \A i \in DOMAIN ranking :
          (ranking[i].verdict = "EDGE_PRESENT_CONTINUATION") = Significant(ranking[i].returns)
  BY <1>5, <1>6
<1> QED
  BY <1>4, <1>7 DEF VerdictsAgree, Significant

\* Every gap that fires is up or down, because no threshold is zero.
LEMMA GapsAreSided ==
    ASSUME NEW R, \A g \in R : g.gap \in Int, NEW rows \in Seq(R),
           NEW threshold \in Nat \ {0}, NEW r, r = GapRow(rows, threshold)
    PROVE  r.up + r.down = Len(r.returns)
<1> DEFINE K == {i \in DOMAIN rows : rows[i].gap >= threshold \/ rows[i].gap <= -threshold}
           fired == At(rows, K)
           n == Len(fired)
           U == {i \in DOMAIN fired : fired[i].gap > 0}
           D == {i \in DOMAIN fired : fired[i].gap < 0}
           pnl == [i \in DOMAIN fired |-> FadePnl(fired[i])]
<1>1. r.up = Cardinality(U) /\ r.down = Cardinality(D) /\ r.returns = pnl
  BY DEF GapRow
<1>2. K \in SUBSET (1..Len(rows))
  OBVIOUS
<1>3. \A k \in K : /\ rows[k].gap \in Int
                   /\ rows[k].gap >= threshold \/ rows[k].gap <= -threshold
  BY MembersOf
<1> HIDE DEF K
<1>4. /\ fired \in Seq(R) /\ n = Cardinality(K) /\ n \in Nat
      /\ \A i \in 1..Cardinality(K) : /\ Ascending(K)[i] \in K
                                      /\ fired[i] = rows[Ascending(K)[i]]
  <2>1. Cardinality(K) \in Nat /\ fired \in Seq(R) /\ n = Cardinality(K)
    BY <1>2, AtIs
  <2>2. \A i \in 1..Cardinality(K) : /\ Ascending(K)[i] \in K
                                    /\ fired[i] = rows[Ascending(K)[i]]
    BY <1>2, AtIs
  <2> QED
    BY <2>1, <2>2
<1>5. DOMAIN fired = 1..n
  BY <1>4
<1> HIDE DEF fired, n
<1>6. \A i \in 1..n : fired[i].gap \in Int /\ (fired[i].gap > 0 <=> ~(fired[i].gap < 0))
  BY <1>3, <1>4
<1>7. U \cup D = 1..n /\ U \cap D = {} /\ U \in SUBSET (1..n) /\ D \in SUBSET (1..n)
  BY <1>5, <1>6
<1>8. IsFiniteSet(1..n) /\ Cardinality(1..n) = n
  BY <1>4, FS_Interval
<1> HIDE DEF U, D
<1>9. /\ IsFiniteSet(U) /\ IsFiniteSet(D)
      /\ Cardinality(U) \in Nat /\ Cardinality(D) \in Nat
  BY <1>7, <1>8, FS_Subset, FS_CardinalityType
<1>10. Cardinality(U \cup D) = Cardinality(U) + Cardinality(D) - Cardinality(U \cap D)
  BY <1>9, FS_Union
<1>11. Cardinality(U) + Cardinality(D) = n
  <2>1. Cardinality(U \cup D) = n
    BY <1>7, <1>8
  <2>2. Cardinality(U \cap D) = 0
    BY <1>7, FS_EmptySet
  <2> QED
    BY <1>4, <1>9, <1>10, <2>1, <2>2
<1>12. Len(pnl) = n
  <2>1. pnl \in [1..n -> {FadePnl(fired[i]) : i \in 1..n}]
    BY <1>5
  <2> HIDE DEF pnl
  <2> QED
    BY <1>4, <2>1, FunctionIsSeq
<1> QED
  BY <1>1, <1>11, <1>12

\* A gap is a number.
LEMMA GapsTyped ==
    ASSUME StudyTyped
    PROVE  \E R : GapRows \in Seq(R) /\ \A g \in R : g.gap \in Int
<1> DEFINE rows == ExtractPrices(days, Dates)
           gap(i) == Return(days[rows[i + 1]].open, days[rows[i]].eow)
           row(i) == [date |-> rows[i + 1], gap |-> gap(i),
                      forward |-> Return(days[rows[i + 1]].eow, days[rows[i + 1]].open)]
           n == IF Len(rows) = 0 THEN 0 ELSE Len(rows) - 1
           R == {row(i) : i \in 1..n}
<1>1. rows \in Seq(Dates)
  BY PricedDates
<1>2. GapRows = [i \in 1..Len(rows) - 1 |-> row(i)]
  BY DEF GapRows
<1> HIDE DEF rows
<1>3. Len(rows) \in Nat
  BY <1>1
<1>4. 1..Len(rows) - 1 = 1..n /\ n \in Nat
  BY <1>3
<1>5. ASSUME NEW i \in 1..n PROVE row(i).gap \in Int
  <2>1. i \in DOMAIN rows /\ i + 1 \in DOMAIN rows
    BY <1>1, <1>3
  <2>2. days[rows[i]] \in DayKind /\ days[rows[i + 1]] \in DayKind
    BY <1>1, <2>1, DatesAre, MembersOf
  <2>3. days[rows[i]].eow \in Nat \ {0} /\ days[rows[i + 1]].open \in Int
    BY <2>2 DEF DayKind
  <2>4. gap(i) \in Int
    BY <2>3, ReturnTyped
  <2> HIDE DEF gap
  <2> QED
    BY <2>4
<1> HIDE DEF row, n
<1>6. \A g \in R : g.gap \in Int
  BY <1>5
<1>7. GapRows \in [1..n -> R]
  BY <1>2, <1>4
<1> HIDE DEF R
<1>8. GapRows \in Seq(R)
  BY <1>4, <1>7, FunctionIsSeq
<1> QED
  BY <1>6, <1>8

\* The report of a sweep of gaps.
LEMMA GapsAgree ==
    ASSUME StudyTyped, NEW s \in Specs, SweepGaps(s)
    PROVE  VerdictsAgree'
<1> DEFINE dates == Filtered(days, s.window, [s EXCEPT !.band = "none", !.bonds = "none"], 0)
           K == {i \in DOMAIN GapRows : GapRows[i].date \in dates}
           data == At(GapRows, K)
           rows == [i \in DOMAIN Thresholds |-> GapRow(data, Thresholds[i])]
           R == {GapRow(data, Thresholds[i]) : i \in DOMAIN Thresholds}
<1>1. PICK G : GapRows \in Seq(G) /\ \A g \in G : g.gap \in Int
  BY GapsTyped
<1>2. K \in SUBSET (1..Len(GapRows))
  BY <1>1
<1> HIDE DEF K
<1>3. data \in Seq(G)
  BY <1>1, <1>2, AtIs
<1>4. PICK ranking \in Rankings(Twice(rows)) : Report("gaps", ranking, <<>>)
  BY DEF SweepGaps, K
<1> HIDE DEF data
<1>5. /\ Len(Thresholds) \in Nat /\ DOMAIN Thresholds = 1..Len(Thresholds)
      /\ \A i \in DOMAIN Thresholds : Thresholds[i] \in Nat \ {0}
  <2>1. Thresholds \in Seq(Nat \ {0})
    BY EdgeAssumption DEF EdgeAssumption
  <2> QED
    BY <2>1, MembersOf
<1>6. rows \in Seq(R)
  <2>1. rows \in [1..Len(Thresholds) -> R]
    BY <1>5
  <2> HIDE DEF rows, R
  <2> QED
    BY <1>5, <2>1, FunctionIsSeq
<1>7. \A r \in R : r.up + r.down = Len(r.returns)
  <2> SUFFICES ASSUME NEW r \in R PROVE r.up + r.down = Len(r.returns)
    OBVIOUS
  <2>1. PICK i \in DOMAIN Thresholds : r = GapRow(data, Thresholds[i])
    OBVIOUS
  <2> QED
    BY <1>1, <1>3, <1>5, <2>1, GapsAreSided
<1> HIDE DEF rows, R
<1>8. \A i \in DOMAIN ranking : ranking[i] \in R
  BY <1>4, <1>6, RankedRows
<1>9. study' = "gaps" /\ report' = ranking
  BY <1>4 DEF Report
<1>10. \A i \in DOMAIN ranking : ranking[i].up + ranking[i].down = Len(ranking[i].returns)
  BY <1>7, <1>8
<1> QED
  BY <1>9, <1>10 DEF VerdictsAgree

\* Of any data and any frozen spec: the report of a spec and the sweep judge the same
\* trades alike, in the direction that the spec trades; a sweep calls an edge exactly the
\* candidates with a positive mean and a t-statistic of two or more; every gap counted is
\* up or down.
THEOREM VerdictsDoAgree == EdgeInit /\ [][EdgeNext]_edgeStudy => []VerdictsAgree
<1>1. EdgeInit => VerdictsAgree
  BY DEF EdgeInit, EdgeStart, VerdictsAgree
<1>2. StudyTyped /\ VerdictsAgree /\ [EdgeNext]_edgeStudy => VerdictsAgree'
  <2> SUFFICES ASSUME StudyTyped, VerdictsAgree, [EdgeNext]_edgeStudy PROVE VerdictsAgree'
    OBVIOUS
  <2>1. ASSUME NEW s \in Specs, RunSpec(s) PROVE VerdictsAgree'
    BY <2>1, SpecAgrees
  <2>2. ASSUME NEW s \in Specs, Sweep(s) PROVE VerdictsAgree'
    BY <2>2, SweepAgrees
  <2>3. ASSUME NEW s \in Specs, SweepGaps(s) PROVE VerdictsAgree'
    BY <2>3, GapsAgree
  <2>4. CASE RealizedVsImplied
    BY <2>4 DEF RealizedVsImplied, Report, VerdictsAgree
  <2>5. CASE UNCHANGED <<study, spec, report, trades>>
    BY <2>5 DEF VerdictsAgree, ReturnsOf
  <2>6. CASE ComputeMetrics
    BY <2>5, <2>6 DEF ComputeMetrics
  <2>7. CASE UNCHANGED edgeStudy
    BY <2>5, <2>7 DEF edgeStudy
  <2> QED
    BY <2>1, <2>2, <2>3, <2>4, <2>6, <2>7 DEF EdgeNext
<1> QED
  BY <1>1, <1>2, StudyTypedKept, PTL

-------------------------------------------------------------------------
(* The risk figures of a ledger.                                           *)

\* A total is the sum over the arguments.
LEMMA TotalIs ==
    ASSUME NEW f
    PROVE  Total(f) = SetSums(f)[DOMAIN f]
BY DEF Total, FoldFunction, FoldFunctionOnSet, MapThenFoldSet, SetSums, Picked

\* The overlay of a month, and the fold that computes it over every set of positions.
Overlay == [sum : Int, skipped : Nat, hit : BOOLEAN]
NoOverlay == [sum |-> 0, skipped |-> 0, hit |-> FALSE]
Overlays(s) ==
    CHOOSE f : f = [S \in SUBSET DOMAIN s |->
                       IF S = {} THEN NoOverlay ELSE OverlayStep(f[S \ {Max(S)}], s[Max(S)])]

\* One trade more is counted, or skipped once the cap is hit.
LEMMA OverlayCounts ==
    ASSUME NEW acc \in Overlay, NEW ret \in Int
    PROVE  /\ OverlayStep(acc, ret) \in Overlay
           /\ acc.hit => /\ OverlayStep(acc, ret).sum = acc.sum
                         /\ OverlayStep(acc, ret).skipped = acc.skipped + 1
                         /\ OverlayStep(acc, ret).hit
           /\ ~acc.hit => /\ OverlayStep(acc, ret).sum = acc.sum + ret
                          /\ OverlayStep(acc, ret).skipped = acc.skipped
                          /\ OverlayStep(acc, ret).hit <=> acc.sum + ret <= CapThreshold
<1>1. acc.sum \in Int /\ acc.skipped \in Nat /\ acc.hit \in BOOLEAN
  BY DEF Overlay
<1>2. acc = [sum |-> acc.sum, skipped |-> acc.skipped, hit |-> acc.hit]
  BY DEF Overlay
<1>3. CASE acc.hit
  <2>1. OverlayStep(acc, ret) = [sum |-> acc.sum, skipped |-> acc.skipped + 1, hit |-> acc.hit]
    BY <1>2, <1>3 DEF OverlayStep
  <2> QED
    BY <1>1, <1>3, <2>1 DEF Overlay
<1>4. CASE ~acc.hit
  <2> DEFINE now == acc.sum + ret <= CapThreshold
  <2>1. OverlayStep(acc, ret) = [sum |-> acc.sum + ret, skipped |-> acc.skipped, hit |-> now]
    BY <1>2, <1>4 DEF OverlayStep, CapReached
  <2>2. now \in BOOLEAN
    OBVIOUS
  <2>3. OverlayStep(acc, ret) \in Overlay
    <3> HIDE DEF now
    <3> QED
      BY <1>1, <2>1, <2>2 DEF Overlay
  <2>4. /\ OverlayStep(acc, ret).sum = acc.sum + ret
        /\ OverlayStep(acc, ret).skipped = acc.skipped
    BY <2>1
  <2>5. OverlayStep(acc, ret).hit = now
    <3> HIDE DEF now
    <3> QED
      BY <2>1
  <2> QED
    BY <1>4, <2>3, <2>4, <2>5, Zenon
<1> QED
  BY <1>3, <1>4

\* The fold over the trades of a month, one trade at a time.
LEMMA OverlaysAre ==
    ASSUME NEW s \in Seq(Int)
    PROVE  /\ FoldLeft(OverlayStep, NoOverlay, s) = Overlays(s)[1..Len(s)]
           /\ Overlays(s)[1..0] = NoOverlay
           /\ \A k \in 0..Len(s) : Overlays(s)[1..k] \in Overlay
           /\ \A k \in 1..Len(s) :
                 Overlays(s)[1..k] = OverlayStep(Overlays(s)[1..k - 1], s[k])
<1> DEFINE n == Len(s)
           step == [p \in Overlay \X Int |-> OverlayStep(p[1], p[2])]
<1>1. s \in [1..n -> Int] /\ DOMAIN s = 1..n /\ n \in Nat
  BY Positions
<1>2. NoOverlay \in Overlay
  BY DEF NoOverlay, Overlay
<1>3. step \in [Overlay \X Int -> Overlay]
  BY OverlayCounts
<1>4. FoldLeft(OverlayStep, NoOverlay, s) = Overlays(s)[1..n]
  BY <1>1 DEF FoldLeft, MapThenFoldSet, Overlays, NoOverlay
<1> HIDE DEF n
<1>5. PICK f \in [SUBSET (1..n) -> Overlay] :
          \A S \in SUBSET (1..n) :
             f[S] = IF S = {} THEN NoOverlay ELSE step[<<f[S \ {Max(S)}], s[Max(S)]>>]
  <2> HIDE DEF step
  <2>1. FoldsOf(Overlay, n, s, NoOverlay, step) # {}
    BY <1>1, <1>2, <1>3, FoldExists
  <2>2. PICK f : f \in FoldsOf(Overlay, n, s, NoOverlay, step)
    BY <2>1
  <2> QED
    BY <2>2, Zenon DEF FoldsOf
<1>6. ASSUME NEW S \in SUBSET (1..n)
      PROVE  f[S] = IF S = {} THEN NoOverlay ELSE OverlayStep(f[S \ {Max(S)}], s[Max(S)])
  <2>1. CASE S = {}
    BY <1>5, <2>1
  <2>2. CASE S # {}
    <3>1. Max(S) \in 1..n /\ S \ {Max(S)} \in SUBSET (1..n)
      BY <1>1, <2>2, MaxOfFirst
    <3>2. PICK a \in Overlay, u \in Int : a = f[S \ {Max(S)}] /\ u = s[Max(S)]
      BY <1>1, <3>1
    <3>3. f[S] = step[<<a, u>>]
      BY <1>5, <2>2, <3>2
    <3>4. step[<<a, u>>] = OverlayStep(a, u)
      OBVIOUS
    <3> QED
      BY <2>2, <3>2, <3>3, <3>4, Zenon
  <2> QED
    BY <2>1, <2>2
<1>7. f = [S \in SUBSET DOMAIN s |->
              IF S = {} THEN NoOverlay ELSE OverlayStep(f[S \ {Max(S)}], s[Max(S)])]
  <2>1. f = [S \in SUBSET (1..n) |-> f[S]]
    OBVIOUS
  <2> QED
    BY <1>1, <1>6, <2>1, Zenon
<1>8. Overlays(s) = [S \in SUBSET (1..n) |->
              IF S = {} THEN NoOverlay
              ELSE OverlayStep(Overlays(s)[S \ {Max(S)}], s[Max(S)])]
  BY <1>1, <1>7, Zenon DEF Overlays
<1>9. \A k \in 1..n : Overlays(s)[1..k] = OverlayStep(Overlays(s)[1..k - 1], s[k])
  <2> SUFFICES ASSUME NEW k \in 1..n
               PROVE  Overlays(s)[1..k] = OverlayStep(Overlays(s)[1..k - 1], s[k])
    OBVIOUS
  <2>1. Max(1..k) = k /\ 1..k # {} /\ 1..k \in SUBSET (1..n) /\ (1..k) \ {k} = 1..k - 1
    BY <1>1, MaxOfFirst
  <2> DEFINE T == 1..k
  <2>2. Overlays(s)[T] = OverlayStep(Overlays(s)[T \ {Max(T)}], s[Max(T)])
    <3> HIDE DEF T
    <3>1. T # {} /\ T \in SUBSET (1..n)
      BY <2>1 DEF T
    <3> QED
      BY <1>8, <3>1, Zenon
  <2> QED
    BY <2>1, <2>2, Zenon
<1>10. Overlays(s)[1..0] = NoOverlay
  <2>1. 1..0 = {} /\ {} \in SUBSET (1..n)
    OBVIOUS
  <2> QED
    BY <1>8, <2>1, Zenon
<1> DEFINE Typed == {k \in 0..n : Overlays(s)[1..k] \in Overlay}
<1>11. 0 \in Typed
  BY <1>1, <1>2, <1>10
<1>12. ASSUME NEW k \in 1..n, k - 1 \in Typed PROVE k \in Typed
  <2>1. Overlays(s)[1..k - 1] \in Overlay /\ s[k] \in Int /\ k \in 0..n
    BY <1>1, <1>12
  <2> QED
    BY <1>9, <2>1, OverlayCounts
<1>13. \A k \in 0..n : k \in Typed
  <2> HIDE DEF Typed
  <2>1. \A k \in 1..n : k - 1 \in Typed => k \in Typed
    BY <1>12
  <2> QED
    BY <1>1, <1>11, <2>1, EveryPrefix
<1> QED
  BY <1>4, <1>9, <1>10, <1>13 DEF n

\* The first running sum that is at the cap, or the last.
CapsAt(s, c, hit) ==
    /\ c \in 0..Len(s) /\ \A i \in 1..Len(s) : i < c => ~(UpTo(s, i) <= CapThreshold)
    /\ hit => c \in 1..Len(s) /\ UpTo(s, c) <= CapThreshold
    /\ ~hit => c = Len(s) /\ (c > 0 => ~(UpTo(s, c) <= CapThreshold))

\* The overlay of a month counts its trades up to the cap.
LEMMA OverlayIs ==
    ASSUME NEW s \in Seq(Int), NEW acc, acc = FoldLeft(OverlayStep, NoOverlay, s)
    PROVE  /\ acc \in Overlay
           /\ \E c \in 0..Len(s) : /\ acc.sum = UpTo(s, c) /\ acc.skipped = Len(s) - c
                                   /\ CapsAt(s, c, acc.hit)
<1> DEFINE n == Len(s)
           A(k) == Overlays(s)[1..k]
           Fit(k, c) ==
               /\ A(k).sum = UpTo(s, c) /\ A(k).skipped = k - c
               /\ \A i \in 1..n : i < c => ~(UpTo(s, i) <= CapThreshold)
               /\ A(k).hit => c \in 1..k /\ UpTo(s, c) <= CapThreshold
               /\ ~A(k).hit => c = k /\ (c > 0 => ~(UpTo(s, c) <= CapThreshold))
           Fits == {k \in 0..n : \E c \in 0..k : Fit(k, c)}
<1>1. n \in Nat
  OBVIOUS
<1>2. /\ acc = A(n) /\ A(0) = NoOverlay
      /\ \A k \in 0..n : A(k) \in Overlay
      /\ \A k \in 1..n : A(k) = OverlayStep(A(k - 1), s[k])
  BY OverlaysAre
<1>3. /\ UpTo(s, 0) = 0 /\ \A i \in 0..n : UpTo(s, i) \in Int
      /\ \A i \in 1..n : s[i] \in Int /\ UpTo(s, i) = UpTo(s, i - 1) + s[i]
  BY UpToAre
<1>4. CapThreshold \in Int
  BY EdgeAssumption DEF EdgeAssumption
<1> HIDE DEF n, A
<1>5. \A k \in 0..n : A(k).sum \in Int /\ A(k).skipped \in Nat /\ A(k).hit \in BOOLEAN
  BY <1>2 DEF Overlay
<1>6. 0 \in Fits
  <2>1. A(0).sum = 0 /\ A(0).skipped = 0 /\ A(0).hit = FALSE
    BY <1>2 DEF NoOverlay
  <2>2. Fit(0, 0)
    BY <1>1, <1>3, <2>1
  <2> HIDE DEF Fit
  <2> QED
    BY <1>1, <2>2
<1>7. ASSUME NEW k \in 1..n, k - 1 \in Fits PROVE k \in Fits
  <2>1. k - 1 \in 0..n /\ k \in 0..n /\ k \in Nat
    BY <1>1
  <2>2. PICK c \in 0..k - 1 : Fit(k - 1, c)
    BY <1>7
  <2>3. A(k - 1) \in Overlay /\ s[k] \in Int /\ A(k) = OverlayStep(A(k - 1), s[k])
    BY <1>2, <1>3, <2>1
  <2>4. c \in 0..k /\ k \in 0..k
    BY <2>1
  <2>5. CASE A(k - 1).hit
    <3>1. A(k).sum = A(k - 1).sum /\ A(k).skipped = A(k - 1).skipped + 1 /\ A(k).hit
      BY <2>3, <2>5, OverlayCounts
    <3>2. Fit(k, c)
      BY <1>1, <1>5, <2>1, <2>2, <2>5, <3>1
    <3> HIDE DEF Fit
    <3> QED
      BY <2>1, <2>4, <3>2
  <2>6. CASE ~A(k - 1).hit
    <3>1. /\ A(k).sum = A(k - 1).sum + s[k] /\ A(k).skipped = A(k - 1).skipped
          /\ A(k).hit <=> A(k - 1).sum + s[k] <= CapThreshold
      BY <2>3, <2>6, OverlayCounts
    <3>2. c = k - 1 /\ A(k).sum = UpTo(s, k)
      BY <1>3, <2>2, <2>6, <3>1
    <3>3. A(k).skipped = k - k
      BY <2>1, <2>2, <3>1, <3>2
    <3>4. A(k).hit <=> UpTo(s, k) <= CapThreshold
      BY <3>1, <3>2
    <3>5. \A i \in 1..n : i < k => ~(UpTo(s, i) <= CapThreshold)
      <4> SUFFICES ASSUME NEW i \in 1..n, i < k PROVE ~(UpTo(s, i) <= CapThreshold)
        OBVIOUS
      <4>1. CASE i < k - 1
        BY <2>2, <3>2, <4>1
      <4>2. CASE i = k - 1
        BY <2>2, <2>6, <3>2, <4>2
      <4> QED
        BY <2>1, <4>1, <4>2
    <3>6. Fit(k, k)
      BY <2>1, <3>2, <3>3, <3>4, <3>5
    <3> HIDE DEF Fit
    <3> QED
      BY <2>1, <2>4, <3>6
  <2> QED
    BY <2>5, <2>6
<1>8. \A k \in 0..n : k \in Fits
  <2> HIDE DEF Fits
  <2>1. \A k \in 1..n : k - 1 \in Fits => k \in Fits
    BY <1>7
  <2> QED
    BY <1>1, <1>6, <2>1, EveryPrefix
<1>9. PICK c \in 0..n : Fit(n, c)
  <2>1. n \in 0..n
    BY <1>1
  <2> HIDE DEF Fit
  <2> QED
    BY <1>8, <2>1
<1>10. acc \in Overlay /\ acc = A(n)
  BY <1>1, <1>2
<1>11. CapsAt(s, c, acc.hit)
  BY <1>9, <1>10 DEF CapsAt, n
<1> QED
  BY <1>9, <1>10, <1>11 DEF n

\* The same of the loop over the drawdowns, and the longest stretch it has seen.
Stretch == [run : Nat, longest : Nat]
NoStretch == [run |-> 0, longest |-> 0]
Best(acc) == Max({acc.longest, acc.run})
Stretches(s) ==
    CHOOSE f : f = [S \in SUBSET DOMAIN s |->
                       IF S = {} THEN NoStretch ELSE DdStep(f[S \ {Max(S)}], s[Max(S)])]

\* The longer of two.
LEMMA BestIs ==
    ASSUME NEW acc \in Stretch
    PROVE  /\ Best(acc) \in Nat /\ Best(acc) >= acc.longest /\ Best(acc) >= acc.run
           /\ Best(acc) = acc.longest \/ Best(acc) = acc.run
<1> DEFINE M == {acc.longest, acc.run}
<1>1. acc.longest \in Nat /\ acc.run \in Nat
  BY DEF Stretch
<1>2. Max(M) \in M /\ \A x \in M : x <= Max(M)
  <2>1. M \in SUBSET Int /\ M # {} /\ acc.longest + acc.run \in Int
        /\ \A x \in M : x <= acc.longest + acc.run
    BY <1>1
  <2> HIDE DEF M
  <2> QED
    BY <2>1, MaxIn
<1>3. Best(acc) = Max(M)
  BY DEF Best
<1> QED
  BY <1>1, <1>2, <1>3

\* One drawdown more makes the stretch longer or closes it, and the best is never lower.
LEMMA StretchGrows ==
    ASSUME NEW acc \in Stretch, NEW dd \in Int
    PROVE  /\ DdStep(acc, dd) \in Stretch
           /\ dd < 0 => /\ DdStep(acc, dd).run = acc.run + 1
                        /\ DdStep(acc, dd).longest = acc.longest
           /\ ~(dd < 0) => DdStep(acc, dd).run = 0 /\ DdStep(acc, dd).longest = Best(acc)
           /\ Best(DdStep(acc, dd)) >= Best(acc)
<1>1. acc.run \in Nat /\ acc.longest \in Nat
  BY DEF Stretch
<1>2. acc = [run |-> acc.run, longest |-> acc.longest]
  BY DEF Stretch
<1>3. Best(acc) \in Nat /\ (Best(acc) = acc.longest \/ Best(acc) = acc.run)
  BY BestIs
<1>4. CASE dd < 0
  <2>1. DdStep(acc, dd) = [run |-> acc.run + 1, longest |-> acc.longest]
    BY <1>2, <1>4 DEF DdStep
  <2>2. PICK b : b = DdStep(acc, dd)
    OBVIOUS
  <2>3. b \in Stretch /\ b.run = acc.run + 1 /\ b.longest = acc.longest
    BY <1>1, <2>1, <2>2 DEF Stretch
  <2>4. Best(b) \in Nat /\ Best(b) >= b.longest /\ Best(b) >= b.run
    BY <2>3, BestIs
  <2>5. Best(b) >= Best(acc)
    BY <1>1, <1>3, <2>3, <2>4
  <2> QED
    BY <1>4, <2>2, <2>3, <2>5
<1>5. CASE ~(dd < 0)
  <2>1. DdStep(acc, dd) = [run |-> 0, longest |-> Best(acc)]
    BY <1>5 DEF DdStep, Best
  <2>2. PICK b : b = DdStep(acc, dd)
    OBVIOUS
  <2>3. b \in Stretch /\ b.run = 0 /\ b.longest = Best(acc)
    BY <1>3, <2>1, <2>2 DEF Stretch
  <2>4. Best(b) \in Nat /\ Best(b) >= b.longest
    BY <2>3, BestIs
  <2>5. Best(b) >= Best(acc)
    BY <2>3, <2>4
  <2> QED
    BY <1>5, <2>2, <2>3, <2>5
<1> QED
  BY <1>4, <1>5

\* The loop over the drawdowns, one at a time.
LEMMA StretchesAre ==
    ASSUME NEW s \in Seq(Int)
    PROVE  /\ FoldLeft(DdStep, NoStretch, s) = Stretches(s)[1..Len(s)]
           /\ Stretches(s)[1..0] = NoStretch
           /\ \A k \in 0..Len(s) : Stretches(s)[1..k] \in Stretch
           /\ \A k \in 1..Len(s) :
                 Stretches(s)[1..k] = DdStep(Stretches(s)[1..k - 1], s[k])
<1> DEFINE n == Len(s)
           step == [p \in Stretch \X Int |-> DdStep(p[1], p[2])]
<1>1. s \in [1..n -> Int] /\ DOMAIN s = 1..n /\ n \in Nat
  BY Positions
<1>2. NoStretch \in Stretch
  BY DEF NoStretch, Stretch
<1>3. step \in [Stretch \X Int -> Stretch]
  BY StretchGrows
<1>4. FoldLeft(DdStep, NoStretch, s) = Stretches(s)[1..n]
  BY <1>1 DEF FoldLeft, MapThenFoldSet, Stretches, NoStretch
<1> HIDE DEF n
<1>5. PICK f \in [SUBSET (1..n) -> Stretch] :
          \A S \in SUBSET (1..n) :
             f[S] = IF S = {} THEN NoStretch ELSE step[<<f[S \ {Max(S)}], s[Max(S)]>>]
  <2> HIDE DEF step
  <2>1. FoldsOf(Stretch, n, s, NoStretch, step) # {}
    BY <1>1, <1>2, <1>3, FoldExists
  <2>2. PICK f : f \in FoldsOf(Stretch, n, s, NoStretch, step)
    BY <2>1
  <2> QED
    BY <2>2, Zenon DEF FoldsOf
<1>6. ASSUME NEW S \in SUBSET (1..n)
      PROVE  f[S] = IF S = {} THEN NoStretch ELSE DdStep(f[S \ {Max(S)}], s[Max(S)])
  <2>1. CASE S = {}
    BY <1>5, <2>1
  <2>2. CASE S # {}
    <3>1. Max(S) \in 1..n /\ S \ {Max(S)} \in SUBSET (1..n)
      BY <1>1, <2>2, MaxOfFirst
    <3>2. PICK a \in Stretch, u \in Int : a = f[S \ {Max(S)}] /\ u = s[Max(S)]
      BY <1>1, <3>1
    <3>3. f[S] = step[<<a, u>>]
      BY <1>5, <2>2, <3>2
    <3>4. step[<<a, u>>] = DdStep(a, u)
      OBVIOUS
    <3> QED
      BY <2>2, <3>2, <3>3, <3>4, Zenon
  <2> QED
    BY <2>1, <2>2
<1>7. f = [S \in SUBSET DOMAIN s |->
              IF S = {} THEN NoStretch ELSE DdStep(f[S \ {Max(S)}], s[Max(S)])]
  <2>1. f = [S \in SUBSET (1..n) |-> f[S]]
    OBVIOUS
  <2> QED
    BY <1>1, <1>6, <2>1, Zenon
<1>8. Stretches(s) = [S \in SUBSET (1..n) |->
              IF S = {} THEN NoStretch
              ELSE DdStep(Stretches(s)[S \ {Max(S)}], s[Max(S)])]
  BY <1>1, <1>7, Zenon DEF Stretches
<1>9. \A k \in 1..n : Stretches(s)[1..k] = DdStep(Stretches(s)[1..k - 1], s[k])
  <2> SUFFICES ASSUME NEW k \in 1..n
               PROVE  Stretches(s)[1..k] = DdStep(Stretches(s)[1..k - 1], s[k])
    OBVIOUS
  <2>1. Max(1..k) = k /\ 1..k # {} /\ 1..k \in SUBSET (1..n) /\ (1..k) \ {k} = 1..k - 1
    BY <1>1, MaxOfFirst
  <2> DEFINE T == 1..k
  <2>2. Stretches(s)[T] = DdStep(Stretches(s)[T \ {Max(T)}], s[Max(T)])
    <3> HIDE DEF T
    <3>1. T # {} /\ T \in SUBSET (1..n)
      BY <2>1 DEF T
    <3> QED
      BY <1>8, <3>1, Zenon
  <2> QED
    BY <2>1, <2>2, Zenon
<1>10. Stretches(s)[1..0] = NoStretch
  <2>1. 1..0 = {} /\ {} \in SUBSET (1..n)
    OBVIOUS
  <2> QED
    BY <1>8, <2>1, Zenon
<1> DEFINE Typed == {k \in 0..n : Stretches(s)[1..k] \in Stretch}
<1>11. 0 \in Typed
  BY <1>1, <1>2, <1>10
<1>12. ASSUME NEW k \in 1..n, k - 1 \in Typed PROVE k \in Typed
  <2>1. Stretches(s)[1..k - 1] \in Stretch /\ s[k] \in Int /\ k \in 0..n
    BY <1>1, <1>12
  <2> QED
    BY <1>9, <2>1, StretchGrows
<1>13. \A k \in 0..n : k \in Typed
  <2> HIDE DEF Typed
  <2>1. \A k \in 1..n : k - 1 \in Typed => k \in Typed
    BY <1>12
  <2> QED
    BY <1>1, <1>11, <2>1, EveryPrefix
<1> QED
  BY <1>4, <1>9, <1>10, <1>13 DEF n

\* The duration is the length of some stretch below the peak, and no stretch is longer.
LEMMA LongestStretch ==
    ASSUME NEW s \in Seq(Int), NEW d, d = Best(FoldLeft(DdStep, NoStretch, s))
    PROVE  /\ d \in Nat
           /\ \A i \in 1..Len(s) : \A j \in i..Len(s) :
                 (\A k \in i..j : s[k] < 0) => j - i + 1 <= d
           /\ d # 0 => \E i, j \in 1..Len(s) : (\A k \in i..j : s[k] < 0) /\ j - i + 1 = d
<1> DEFINE n == Len(s)
           A(k) == Stretches(s)[1..k]
           Open(k) == A(k).run <= k /\ \A m \in 1..n : k - A(k).run < m /\ m <= k => s[m] < 0
           Length(k, d1) ==
               d1 # 0 => \E i, j \in 1..n : (\A m \in i..j : s[m] < 0) /\ j - i + 1 = d1
           Found == {k \in 0..n : Open(k) /\ Length(k, A(k).longest)}
<1>1. n \in Nat
  OBVIOUS
<1>2. d = Best(A(n)) /\ A(0) = NoStretch
  BY StretchesAre
<1>3. \A k \in 0..n : A(k) \in Stretch
  BY StretchesAre
<1>4. \A k \in 1..n : A(k) = DdStep(A(k - 1), s[k])
  BY StretchesAre
<1>5. \A k \in 1..n : s[k] \in Int
  OBVIOUS
<1> HIDE DEF n, A
<1>6. \A k \in 0..n : A(k).run \in Nat /\ A(k).longest \in Nat
  BY <1>3 DEF Stretch
<1>7. \A k \in 0..n : /\ Best(A(k)) \in Nat /\ Best(A(k)) >= A(k).longest
                      /\ Best(A(k)) >= A(k).run
                      /\ Best(A(k)) = A(k).longest \/ Best(A(k)) = A(k).run
  BY <1>3, BestIs
<1>8. ASSUME NEW k \in 1..n
      PROVE  /\ k - 1 \in 0..n /\ k \in 0..n
             /\ s[k] < 0 => A(k).run = A(k - 1).run + 1 /\ A(k).longest = A(k - 1).longest
             /\ ~(s[k] < 0) => A(k).run = 0 /\ A(k).longest = Best(A(k - 1))
             /\ Best(A(k)) >= Best(A(k - 1))
  <2>1. k - 1 \in 0..n /\ k \in 0..n
    BY <1>1
  <2>2. PICK a \in Stretch, u \in Int : a = A(k - 1) /\ u = s[k] /\ A(k) = DdStep(a, u)
    BY <1>3, <1>4, <1>5, <2>1
  <2>3. /\ u < 0 => DdStep(a, u).run = a.run + 1 /\ DdStep(a, u).longest = a.longest
        /\ ~(u < 0) => DdStep(a, u).run = 0 /\ DdStep(a, u).longest = Best(a)
        /\ Best(DdStep(a, u)) >= Best(a)
    BY StretchGrows
  <2> QED
    BY <2>1, <2>2, <2>3, Zenon
<1>9. ASSUME NEW i \in 1..n, NEW j \in i..n, \A k \in i..j : s[k] < 0
      PROVE  j - i + 1 <= d
  <2> DEFINE Runs == {k \in 0..n : k >= i /\ k <= j => A(k).run >= k - i + 1}
             Kept == {k \in 0..n : k >= j => Best(A(k)) >= j - i + 1}
  <2>1. i \in Nat /\ j \in Nat /\ i >= 1 /\ i <= j /\ j <= n
    BY <1>1
  <2>2. \A k \in 0..n : k \in Runs
    <3>1. 0 \in Runs
      BY <1>1, <2>1
    <3>2. ASSUME NEW k \in 1..n, k - 1 \in Runs PROVE k \in Runs
      <4> SUFFICES ASSUME k >= i, k <= j PROVE A(k).run >= k - i + 1
        BY <1>8
      <4>1. A(k).run = A(k - 1).run + 1
        BY <1>8, <1>9, <2>1
      <4>2. A(k - 1).run \in Nat
        BY <1>6, <1>8
      <4>3. CASE k = i
        BY <2>1, <4>1, <4>2, <4>3
      <4>4. CASE k # i
        BY <2>1, <3>2, <4>1, <4>2, <4>4
      <4> QED
        BY <4>3, <4>4
    <3>3. \A k \in 1..n : k - 1 \in Runs => k \in Runs
      BY <3>2
    <3> HIDE DEF Runs
    <3> QED
      BY <1>1, <3>1, <3>3, EveryPrefix
  <2>3. \A k \in 0..n : k \in Kept
    <3>1. 0 \in Kept
      BY <1>1, <2>1
    <3>2. ASSUME NEW k \in 1..n, k - 1 \in Kept PROVE k \in Kept
      <4> SUFFICES ASSUME k >= j PROVE Best(A(k)) >= j - i + 1
        BY <1>8
      <4>1. CASE k = j
        <5>1. A(k).run >= j - i + 1
          BY <1>8, <2>1, <2>2, <4>1
        <5> QED
          BY <1>6, <1>7, <1>8, <2>1, <5>1
      <4>2. CASE k # j
        BY <1>7, <1>8, <2>1, <3>2, <4>2
      <4> QED
        BY <4>1, <4>2
    <3>3. \A k \in 1..n : k - 1 \in Kept => k \in Kept
      BY <3>2
    <3> HIDE DEF Kept
    <3> QED
      BY <1>1, <3>1, <3>3, EveryPrefix
  <2>4. n \in 0..n /\ n >= j
    BY <1>1, <2>1
  <2> QED
    BY <1>2, <2>3, <2>4
<1>10. ASSUME NEW k \in 0..n, Open(k) PROVE Length(k, A(k).run)
  <2> SUFFICES ASSUME A(k).run # 0
               PROVE  \E i, j \in 1..n : (\A m \in i..j : s[m] < 0) /\ j - i + 1 = A(k).run
    OBVIOUS
  <2>1. PICK r \in Nat : r = A(k).run
    BY <1>6
  <2>2. k \in 1..n /\ k - r + 1 \in 1..n /\ r # 0
    BY <1>1, <1>10, <2>1
  <2>3. \A m \in k - r + 1..k : s[m] < 0
    BY <1>1, <1>10, <2>1, <2>2
  <2>4. k - (k - r + 1) + 1 = r
    BY <1>1
  <2>5. PICK i \in 1..n : i = k - r + 1
    BY <2>2
  <2>6. (\A m \in i..k : s[m] < 0) /\ k - i + 1 = A(k).run
    BY <2>1, <2>3, <2>4, <2>5
  <2> QED
    BY <2>2, <2>6
<1>11. \A k \in 0..n : k \in Found
  <2>1. 0 \in Found
    BY <1>1, <1>2 DEF NoStretch
  <2>2. ASSUME NEW k \in 1..n, k - 1 \in Found PROVE k \in Found
    <3>1. Open(k - 1) /\ Length(k - 1, A(k - 1).longest)
      BY <2>2
    <3>2. k - 1 \in 0..n /\ k \in 0..n /\ k \in Nat
      BY <1>1
    <3>3. CASE s[k] < 0
      <4>1. A(k).run = A(k - 1).run + 1 /\ A(k).longest = A(k - 1).longest
        BY <1>8, <3>3
      <4>2. Open(k)
        BY <1>1, <1>6, <3>1, <3>2, <3>3, <4>1
      <4>3. Length(k, A(k).longest)
        BY <3>1, <4>1
      <4> HIDE DEF Open, Length
      <4> QED
        BY <3>2, <4>2, <4>3
    <3>4. CASE ~(s[k] < 0)
      <4>1. A(k).run = 0 /\ A(k).longest = Best(A(k - 1))
        BY <1>8, <3>4
      <4>2. Open(k)
        BY <1>1, <3>2, <4>1
      <4>3. Length(k - 1, A(k - 1).run)
        BY <1>10, <3>1, <3>2
      <4>4. A(k).longest = A(k - 1).longest \/ A(k).longest = A(k - 1).run
        BY <1>7, <3>2, <4>1
      <4>5. Length(k, A(k).longest)
        BY <3>1, <4>3, <4>4
      <4> HIDE DEF Open, Length
      <4> QED
        BY <3>2, <4>2, <4>5
    <3> QED
      BY <3>3, <3>4
  <2>3. \A k \in 1..n : k - 1 \in Found => k \in Found
    BY <2>2
  <2> HIDE DEF Found
  <2> QED
    BY <1>1, <2>1, <2>3, EveryPrefix
<1>12. n \in 0..n /\ Open(n) /\ Length(n, A(n).longest)
  BY <1>1, <1>11
<1>13. Length(n, A(n).run)
  BY <1>10, <1>12
<1>14. Length(n, d) /\ d \in Nat
  BY <1>2, <1>7, <1>12, <1>13
<1>15. \A i \in 1..n : \A j \in i..n : (\A k \in i..j : s[k] < 0) => j - i + 1 <= d
  BY <1>9
<1>16. n = Len(s)
  BY DEF n
<1> QED
  BY <1>14, <1>15, <1>16

\* A trade of the ledger.
Trade == [date : Dates, ret : Int]
MonthOf(i) == EdgeMonth[trades[i].date]

\* The returns of trades are numbers.
LEMMA ReturnsTyped ==
    ASSUME NEW rows \in Seq(Trade)
    PROVE  ReturnsOf(rows) \in Seq(Int) /\ Len(ReturnsOf(rows)) = Len(rows)
<1>1. Len(rows) \in Nat /\ DOMAIN rows = 1..Len(rows)
  OBVIOUS
<1>2. \A i \in 1..Len(rows) : rows[i] \in Trade
  BY <1>1, MembersOf
<1>3. ReturnsOf(rows) \in [1..Len(rows) -> Int]
  BY <1>1, <1>2 DEF ReturnsOf, Trade
<1> QED
  BY <1>1, <1>3, FunctionIsSeq

\* The ledger by months.
LEMMA MonthsAre ==
    ASSUME trades \in Seq(Trade)
    PROVE  /\ Len(trades) \in Nat /\ IsFiniteSet(MonthsTraded)
           /\ \A i \in 1..Len(trades) : MonthOf(i) \in MonthsTraded
           /\ \A mo \in MonthsTraded :
                 /\ InMonth(mo) \in Seq(Trade)
                 /\ Len(InMonth(mo)) = Cardinality({i \in 1..Len(trades) : MonthOf(i) = mo})
<1> DEFINE n == Len(trades)
           label == [i \in 1..n |-> MonthOf(i)]
<1>1. n \in Nat /\ DOMAIN trades = 1..n
  OBVIOUS
<1>2. MonthsTraded = {MonthOf(i) : i \in 1..n}
  BY <1>1 DEF MonthsTraded, ToSet, MonthOf
<1>3. IsFiniteSet(MonthsTraded)
  <2>1. IsFiniteSet(1..n)
    BY <1>1, FS_Interval
  <2>2. label \in Surjection(1..n, MonthsTraded)
    BY <1>2 DEF Surjection
  <2> HIDE DEF label
  <2> QED
    BY <2>1, <2>2, FS_Surjection
<1>4. ASSUME NEW mo \in MonthsTraded
      PROVE  /\ InMonth(mo) \in Seq(Trade)
             /\ Len(InMonth(mo)) = Cardinality({i \in 1..n : MonthOf(i) = mo})
  <2> DEFINE K == {i \in 1..n : MonthOf(i) = mo}
  <2>1. K \in SUBSET (1..Len(trades))
    OBVIOUS
  <2>2. InMonth(mo) = At(trades, K)
    BY <1>1 DEF InMonth, MonthOf
  <2> HIDE DEF K
  <2>3. At(trades, K) \in Seq(Trade) /\ Len(At(trades, K)) = Cardinality(K)
    BY <2>1, AtIs
  <2> QED
    BY <2>2, <2>3 DEF K
<1> QED
  BY <1>1, <1>2, <1>3, <1>4

\* The running sums at the cap, and the first of them.
Capped(s) == {i \in 1..Len(s) : UpTo(s, i) <= CapThreshold}
StopsAt(s) == IF Capped(s) = {} THEN Len(s) ELSE Min(Capped(s))

\* Where a month stops is the first running sum at the cap, or its end.
LEMMA CountedIs ==
    ASSUME NEW s \in Seq(Int), NEW c, NEW hit \in BOOLEAN, CapsAt(s, c, hit)
    PROVE  (hit <=> Capped(s) # {}) /\ c = StopsAt(s)
<1> DEFINE K == Capped(s)
<1>0. PICK n \in Nat : n = Len(s) /\ K \in SUBSET (1..n) /\ c \in 0..n
                      /\ (\A i \in 1..n : i < c => i \notin K)
                      /\ (hit => c \in K) /\ (~hit => c = n /\ (c > 0 => c \notin K))
  <2>1. Len(s) \in Nat
    OBVIOUS
  <2> QED
    BY <2>1 DEF CapsAt, Capped
<1> HIDE DEF K
<1> SUFFICES (hit <=> K # {}) /\ c = IF K = {} THEN n ELSE Min(K)
  BY <1>0 DEF K, StopsAt
<1>1. CASE hit
  <2>1. K \in SUBSET Int /\ K # {} /\ \A x \in K : 0 <= x
    BY <1>0, <1>1
  <2>2. Min(K) \in K /\ \A x \in K : Min(K) <= x
    <3>1. PICK b \in Int : \A x \in K : b <= x
      BY <2>1
    <3> QED
      BY <2>1, <3>1, MinIn
  <2>3. PICK m \in 1..n : m = Min(K)
    BY <1>0, <2>2
  <2>4. m <= c /\ ~(m < c)
    BY <1>0, <1>1, <2>2, <2>3
  <2>5. m = c
    BY <1>0, <2>4
  <2> QED
    BY <1>1, <2>1, <2>3, <2>5
<1>2. CASE ~hit
  <2>1. \A x \in K : FALSE
    BY <1>0, <1>2
  <2> QED
    BY <1>0, <1>2, <2>1
<1> QED
  BY <1>1, <1>2

\* The overlay of a month of the ledger.
LEMMA OverlayMonthIs ==
    ASSUME trades \in Seq(Trade), NEW mo \in MonthsTraded
    PROVE  /\ OverlayMonth(mo) \in Overlay
           /\ Counted(mo) \in 0..Len(InMonth(mo)) /\ Len(InMonth(mo)) \in Nat
           /\ OverlayMonth(mo).sum = UpTo(ReturnsOf(InMonth(mo)), Counted(mo))
           /\ OverlayMonth(mo).skipped = Len(InMonth(mo)) - Counted(mo)
           /\ OverlayMonth(mo).hit <=> CappedAt(mo) # {}
<1> DEFINE s == ReturnsOf(InMonth(mo))
           K == CappedAt(mo)
<1>1. s \in Seq(Int) /\ Len(s) = Len(InMonth(mo)) /\ Len(s) \in Nat
      /\ DOMAIN InMonth(mo) = 1..Len(s)
  <2>1. InMonth(mo) \in Seq(Trade)
    BY MonthsAre
  <2> QED
    BY <2>1, ReturnsTyped
<1>2. OverlayMonth(mo) = FoldLeft(OverlayStep, NoOverlay, s)
  BY DEF OverlayMonth, NoOverlay
<1>3. K = {i \in 1..Len(s) : UpTo(s, i) <= CapThreshold}
  BY <1>1 DEF CappedAt
<1>4. Counted(mo) = IF K = {} THEN Len(s) ELSE Min(K)
  BY <1>1 DEF Counted
<1> HIDE DEF s, K
<1>5. PICK acc : acc = OverlayMonth(mo)
  OBVIOUS
<1>6. acc \in Overlay
  BY <1>1, <1>2, <1>5, OverlayIs
<1>7. PICK c \in 0..Len(s) : /\ acc.sum = UpTo(s, c) /\ acc.skipped = Len(s) - c
                             /\ CapsAt(s, c, acc.hit)
  BY <1>1, <1>2, <1>5, OverlayIs
<1>8. acc.hit \in BOOLEAN
  BY <1>6 DEF Overlay
<1>9. (acc.hit <=> K # {}) /\ c = IF K = {} THEN Len(s) ELSE Min(K)
  <2>1. PICK hit \in BOOLEAN : hit = acc.hit /\ CapsAt(s, c, hit)
    BY <1>7, <1>8
  <2>2. (hit <=> Capped(s) # {}) /\ c = StopsAt(s)
    BY <1>1, <2>1, CountedIs
  <2>3. K = Capped(s)
    BY <1>3 DEF Capped
  <2> QED
    BY <2>1, <2>2, <2>3 DEF StopsAt
<1>10. c = Counted(mo)
  BY <1>4, <1>9
<1> QED
  BY <1>1, <1>5, <1>6, <1>7, <1>9, <1>10 DEF s, K

\* The overlay of all the months together.
LEMMA OverlaySums ==
    ASSUME trades \in Seq(Trade)
    PROVE  /\ Total([mo \in MonthsTraded |-> OverlayMonth(mo).sum])
                  = Total([mo \in MonthsTraded |->
                             UpTo(ReturnsOf(InMonth(mo)), Counted(mo))])
           /\ Len(trades) - Total([mo \in MonthsTraded |-> OverlayMonth(mo).skipped])
                  = Total([mo \in MonthsTraded |-> Counted(mo)])
           /\ {mo \in MonthsTraded : OverlayMonth(mo).hit}
                  = {mo \in MonthsTraded : CappedAt(mo) # {}}
<1> DEFINE n == Len(trades)
           M == MonthsTraded
           skipped == [mo \in M |-> OverlayMonth(mo).skipped]
           counted == [mo \in M |-> Counted(mo)]
           label == [i \in 1..n |-> MonthOf(i)]
           all == LabelCounts(label, n, M)
<1>1. n \in Nat /\ IsFiniteSet(M) /\ label \in [1..n -> M]
  BY MonthsAre
<1>2. ASSUME NEW mo \in M
      PROVE  /\ OverlayMonth(mo).sum = UpTo(ReturnsOf(InMonth(mo)), Counted(mo))
             /\ OverlayMonth(mo).hit <=> CappedAt(mo) # {}
  BY OverlayMonthIs
<1>3. ASSUME NEW mo \in M
      PROVE  skipped[mo] \in Int /\ counted[mo] \in Int /\ all[mo] = skipped[mo] + counted[mo]
  <2>1. /\ Counted(mo) \in 0..Len(InMonth(mo)) /\ Len(InMonth(mo)) \in Nat
        /\ OverlayMonth(mo).skipped = Len(InMonth(mo)) - Counted(mo)
    BY OverlayMonthIs
  <2>2. Len(InMonth(mo)) = Cardinality({i \in 1..n : MonthOf(i) = mo})
    BY MonthsAre
  <2>3. {i \in 1..n : MonthOf(i) = mo} = {i \in 1..n : label[i] = mo}
    OBVIOUS
  <2>4. all[mo] = Len(InMonth(mo))
    BY <2>2, <2>3 DEF LabelCounts
  <2>5. skipped[mo] = OverlayMonth(mo).skipped /\ counted[mo] = Counted(mo)
    OBVIOUS
  <2> HIDE DEF all, skipped, counted
  <2> QED
    BY <2>1, <2>4, <2>5
<1>4. skipped \in [M -> Int] /\ counted \in [M -> Int]
  <2>1. DOMAIN skipped = M /\ DOMAIN counted = M
    OBVIOUS
  <2>2. skipped = [mo \in M |-> skipped[mo]] /\ counted = [mo \in M |-> counted[mo]]
    OBVIOUS
  <2> HIDE DEF skipped, counted
  <2> QED
    BY <1>3, <2>2
<1>5. all \in [M -> Int] /\ SetSums(all)[M] = n
  <2> HIDE DEF label, M, n
  <2> QED
    BY <1>1, CountedByLabel
<1>6. TakenApart(all, skipped, counted, M)
  <2>1. \A mo \in M : all[mo] = skipped[mo] + counted[mo]
    BY <1>3
  <2> QED
    BY <2>1, Zenon DEF TakenApart
<1>7. DOMAIN skipped = M /\ DOMAIN counted = M
  OBVIOUS
<1>8. Total(skipped) = SetSums(skipped)[M] /\ Total(counted) = SetSums(counted)[M]
  <2> HIDE DEF skipped, counted
  <2> QED
    BY <1>7, TotalIs
<1>9. n - Total(skipped) = Total(counted)
  <2> HIDE DEF skipped, counted, all, n, M
  <2>1. M \in SUBSET M
    OBVIOUS
  <2>2. \A S \in SUBSET M : /\ SetSums(all)[S] = SetSums(skipped)[S] + SetSums(counted)[S]
                            /\ SetSums(skipped)[S] \in Int /\ SetSums(counted)[S] \in Int
    BY <1>1, <1>4, <1>5, <1>6, SetSumsPlus, Zenon
  <2> QED
    BY <1>1, <1>5, <1>8, <2>1, <2>2
<1>10. [mo \in M |-> OverlayMonth(mo).sum]
           = [mo \in M |-> UpTo(ReturnsOf(InMonth(mo)), Counted(mo))]
  BY <1>2, Zenon
<1>11. {mo \in M : OverlayMonth(mo).hit} = {mo \in M : CappedAt(mo) # {}}
  BY <1>2, Zenon
<1> QED
  BY <1>9, <1>10, <1>11, Zenon

\* The duration of the drawdowns of a ledger.
LEMMA DurationIs ==
    ASSUME NEW s \in Seq(Int)
    PROVE  /\ DrawdownDuration(s) \in Nat
           /\ \A i, j \in DOMAIN s : i <= j /\ Underwater(s, i, j)
                                        => j - i + 1 <= DrawdownDuration(s)
           /\ DrawdownDuration(s) # 0 =>
                 \E i, j \in DOMAIN s :
                    Underwater(s, i, j) /\ j - i + 1 = DrawdownDuration(s)
<1> DEFINE t == Drawdowns(s)
           d == DrawdownDuration(s)
<1>1. t \in Seq(Int) /\ Len(t) = Len(s) /\ DOMAIN s = 1..Len(s) /\ Len(s) \in Nat
  BY DrawdownsAre
<1>2. d = Best(FoldLeft(DdStep, NoStretch, t))
  BY DEF DrawdownDuration, Best, NoStretch
<1> HIDE DEF t, d
<1>3. d \in Nat
  BY <1>1, <1>2, LongestStretch
<1>4. \A i \in 1..Len(t) : \A j \in i..Len(t) : (\A k \in i..j : t[k] < 0) => j - i + 1 <= d
  BY <1>1, <1>2, LongestStretch
<1>5. d # 0 => \E i, j \in 1..Len(t) : (\A k \in i..j : t[k] < 0) /\ j - i + 1 = d
  BY <1>1, <1>2, LongestStretch
<1>6. \A i, j : Underwater(s, i, j) <=> \A k \in i..j : t[k] < 0
  BY DEF Underwater, t
<1>7. ASSUME NEW i \in DOMAIN s, NEW j \in DOMAIN s, i <= j, Underwater(s, i, j)
      PROVE  j - i + 1 <= d
  <2>1. i \in 1..Len(t) /\ j \in i..Len(t)
    BY <1>1, <1>7
  <2> QED
    BY <1>4, <1>6, <1>7, <2>1
<1>8. d # 0 => \E i, j \in DOMAIN s : Underwater(s, i, j) /\ j - i + 1 = d
  BY <1>1, <1>5, <1>6
<1> QED
  BY <1>3, <1>7, <1>8 DEF d

\* The figures are computed once, of the ledger that a spec left.
OverlayInv ==
    /\ StudyTyped
    /\ trades \in Seq(Trade)
    /\ study = "calendar" => risk = NoRisk
    /\ OverlayRight

\* The figures of a ledger are those of the overlay that is right.
LEMMA MetricsAreRight ==
    ASSUME trades \in Seq(Trade), ComputeMetrics
    PROVE  OverlayRight'
<1> DEFINE s == ReturnsOf(trades)
<1>1. s \in Seq(Int)
  BY ReturnsTyped
<1>2. PICK r : r = risk'
  OBVIOUS
<1>3. trades' = trades /\ r.n = Len(trades) /\ r.duration = DrawdownDuration(s)
  BY <1>2 DEF ComputeMetrics
<1>4. r.capped = Total([mo \in MonthsTraded |-> OverlayMonth(mo).sum])
  <2>1. r.capped = LET over == [mo \in MonthsTraded |-> OverlayMonth(mo)]
                   IN  Total([mo \in MonthsTraded |-> over[mo].sum])
    BY <1>2 DEF ComputeMetrics
  <2>2. [mo \in MonthsTraded |-> [m \in MonthsTraded |-> OverlayMonth(m)][mo].sum]
            = [mo \in MonthsTraded |-> OverlayMonth(mo).sum]
    OBVIOUS
  <2> QED
    BY <2>1, <2>2
<1>5. r.skipped = Total([mo \in MonthsTraded |-> OverlayMonth(mo).skipped])
  <2>1. r.skipped = LET over == [mo \in MonthsTraded |-> OverlayMonth(mo)]
                    IN  Total([mo \in MonthsTraded |-> over[mo].skipped])
    BY <1>2 DEF ComputeMetrics
  <2>2. [mo \in MonthsTraded |-> [m \in MonthsTraded |-> OverlayMonth(m)][mo].skipped]
            = [mo \in MonthsTraded |-> OverlayMonth(mo).skipped]
    OBVIOUS
  <2> QED
    BY <2>1, <2>2
<1>6. r.hit = Cardinality({mo \in MonthsTraded : OverlayMonth(mo).hit})
  <2>1. r.hit = LET over == [mo \in MonthsTraded |-> OverlayMonth(mo)]
                IN  Cardinality({mo \in MonthsTraded : over[mo].hit})
    BY <1>2 DEF ComputeMetrics
  <2>2. {mo \in MonthsTraded : [m \in MonthsTraded |-> OverlayMonth(m)][mo].hit}
            = {mo \in MonthsTraded : OverlayMonth(mo).hit}
    OBVIOUS
  <2> QED
    BY <2>1, <2>2
<1>7. /\ r.capped = Total([mo \in MonthsTraded |-> UpTo(ReturnsOf(InMonth(mo)), Counted(mo))])
      /\ r.n - r.skipped = Total([mo \in MonthsTraded |-> Counted(mo)])
      /\ r.hit = Cardinality({mo \in MonthsTraded : CappedAt(mo) # {}})
  BY <1>3, <1>4, <1>5, <1>6, OverlaySums, Zenon
<1>8. /\ \A i, j \in DOMAIN s : i <= j /\ Underwater(s, i, j) => j - i + 1 <= r.duration
      /\ r.duration # 0 => \E i, j \in DOMAIN s : Underwater(s, i, j) /\ j - i + 1 = r.duration
  BY <1>1, <1>3, DurationIs
<1> QED
  BY <1>2, <1>3, <1>7, <1>8, Zenon
     DEF OverlayRight, MonthsTraded, InMonth, Counted, CappedAt

\* The ledger of a spec.
LEMMA SpecTrades ==
    ASSUME StudyTyped, NEW s \in Specs, RunSpec(s)
    PROVE  trades' \in Seq(Trade)
<1> DEFINE rows == ExtractPrices(days, Filtered(days, s.window, s, 2 * VixThreshold))
           entered == Entered(days, rows, s.threshold)
           raw == ForwardReturns(days, entered)
           earned == IF s.direction = "fade" THEN Negated(raw) ELSE raw
           ledger == [i \in DOMAIN entered |-> [date |-> entered[i], ret |-> earned[i]]]
<1>1. rows \in Seq(Dates)
  <2>1. s.window \in SUBSET Dates
    BY EdgeAssumption DEF EdgeAssumption, Dates
  <2>2. Filtered(days, s.window, s, 2 * VixThreshold) \in SUBSET Dates
    BY <2>1 DEF Filtered
  <2> QED
    BY <2>2, PricedDates
<1>2. entered \in Seq(Dates) /\ raw \in Seq(Int) /\ Len(raw) = Len(entered)
  <2> HIDE DEF rows
  <2> QED
    BY <1>1, LedgerTyped
<1>3. earned \in Seq(Int) /\ Len(earned) = Len(entered)
  <2> HIDE DEF raw, entered
  <2> QED
    BY <1>2, NegatedFigures
<1>4. trades' = <<>> \/ trades' = ledger
  <2> HIDE DEF ledger
  <2> QED
    BY DEF RunSpec, Report, rows, entered, raw, earned, ledger
<1>5. ledger \in Seq(Trade)
  <2> HIDE DEF entered, earned
  <2>1. Len(entered) \in Nat /\ DOMAIN entered = 1..Len(entered)
        /\ \A i \in 1..Len(entered) : entered[i] \in Dates /\ earned[i] \in Int
    BY <1>2, <1>3
  <2>2. ledger \in [1..Len(entered) -> Trade]
    BY <2>1 DEF Trade
  <2> QED
    BY <2>1, <2>2, FunctionIsSeq
<1>6. <<>> \in Seq(Trade)
  OBVIOUS
<1> HIDE DEF ledger
<1> QED
  BY <1>4, <1>5, <1>6

\* Of any ledger that a spec leaves and any cap below zero, the overlay counts of each
\* month the shortest run of trades that reaches the cap, and the duration is that of the
\* longest unbroken stretch below the peak.
THEOREM OverlayIsRight == EdgeInit /\ [][EdgeNext]_edgeStudy => []OverlayRight
<1>1. EdgeInit => OverlayInv
  <2> SUFFICES ASSUME EdgeInit PROVE OverlayInv
    OBVIOUS
  <2>1. trades = <<>> /\ risk = NoRisk /\ study = "calendar" /\ StudyTyped
    BY DEF EdgeInit, EdgeStart, StudyTyped
  <2>2. risk.n = 0
    BY <2>1 DEF NoRisk
  <2> QED
    BY <2>1, <2>2 DEF OverlayInv, OverlayRight
<1>2. OverlayInv /\ [EdgeNext]_edgeStudy => OverlayInv'
  <2> SUFFICES ASSUME OverlayInv, [EdgeNext]_edgeStudy PROVE OverlayInv'
    OBVIOUS
  <2>1. StudyTyped /\ trades \in Seq(Trade) /\ (study = "calendar" => risk = NoRisk)
    BY DEF OverlayInv
  <2>2. StudyTyped'
    <3>1. EdgeNext \/ UNCHANGED edgeStudy
      OBVIOUS
    <3> QED
      BY <2>1, <3>1, StudyTypedStep
  <2>3. ASSUME study = "calendar", NEW name, name # "calendar", study' = name, risk' = risk,
               trades' \in Seq(Trade)
        PROVE  OverlayInv'
    <3>1. risk'.n = 0
      BY <2>1, <2>3 DEF NoRisk
    <3> QED
      BY <2>2, <2>3, <3>1 DEF OverlayInv, OverlayRight, Trade, Dates
  <2>4. <<>> \in Seq(Trade)
    OBVIOUS
  <2>5. ASSUME study = "calendar", NEW s \in Specs, RunSpec(s) PROVE OverlayInv'
    <3>1. trades' \in Seq(Trade)
      BY <2>1, <2>5, SpecTrades
    <3>2. study' = "spec" /\ risk' = risk
      BY <2>5 DEF RunSpec, Report
    <3> QED
      BY <2>3, <2>5, <3>1, <3>2
  <2>6. ASSUME study = "calendar", NEW s \in Specs, Sweep(s) PROVE OverlayInv'
    BY <2>3, <2>4, <2>6 DEF Sweep, Report
  <2>7. ASSUME study = "calendar", NEW s \in Specs, SweepGaps(s) PROVE OverlayInv'
    BY <2>3, <2>4, <2>7 DEF SweepGaps, Report
  <2>8. ASSUME study = "calendar", RealizedVsImplied PROVE OverlayInv'
    <3>1. study' = "ratios" /\ trades' = <<>> /\ risk' = risk
      BY <2>8 DEF RealizedVsImplied, Report
    <3> QED
      BY <2>3, <2>4, <2>8, <3>1
  <2>9. CASE ComputeMetrics
    <3>1. OverlayRight'
      BY <2>1, <2>9, MetricsAreRight
    <3>2. study' = "spec" /\ trades' = trades
      BY <2>9 DEF ComputeMetrics
    <3> QED
      BY <2>1, <2>2, <3>1, <3>2 DEF OverlayInv, Trade, Dates
  <2>10. CASE UNCHANGED edgeStudy
    BY <2>2, <2>10 DEF OverlayInv, OverlayRight, edgeStudy, Trade, Dates, MonthsTraded, InMonth,
                       Counted, CappedAt
  <2> QED
    BY <2>5, <2>6, <2>7, <2>8, <2>9, <2>10 DEF EdgeNext
<1>3. OverlayInv => OverlayRight
  BY DEF OverlayInv
<1> QED
  BY <1>1, <1>2, <1>3, PTL

-------------------------------------------------------------------------
(* The sector momentum, for any universe, any closes and any parameters.   *)

\* A strict order of a finite set, given by what comes before each member, has as many
\* members with less than k before them as k.
LEMMA FirstOfOrder ==
    ASSUME NEW U, IsFiniteSet(U), NEW B \in [U -> SUBSET U],
           \A t \in U : t \notin B[t],
           \A t, u \in U : u \in B[t] => B[u] \subseteq B[t],
           \A t, u \in U : t = u \/ u \in B[t] \/ t \in B[u],
           NEW k \in Nat, k <= Cardinality(U)
    PROVE  /\ IsFiniteSet({t \in U : Cardinality(B[t]) < k})
           /\ Cardinality({t \in U : Cardinality(B[t]) < k}) = k
           /\ \A t, u \in U : u \in B[t] => Cardinality(B[u]) < Cardinality(B[t])
<1> DEFINE n == Cardinality(U)
           rank == [t \in U |-> Cardinality(B[t])]
           T == {t \in U : Cardinality(B[t]) < k}
<1>1. n \in Nat
  BY FS_CardinalityType
<1>2. ASSUME NEW t \in U
      PROVE  IsFiniteSet(B[t]) /\ Cardinality(B[t]) \in Nat /\ Cardinality(B[t]) < n
  <2>1. B[t] \in SUBSET U /\ B[t] # U
    OBVIOUS
  <2>2. IsFiniteSet(B[t]) /\ Cardinality(B[t]) <= n /\ Cardinality(B[t]) # n
    BY <2>1, FS_Subset
  <2> QED
    BY <1>1, <2>2, FS_CardinalityType
<1>3. ASSUME NEW t \in U, NEW u \in U, u \in B[t]
      PROVE  Cardinality(B[u]) < Cardinality(B[t])
  <2>1. B[u] \in SUBSET B[t] /\ B[u] # B[t]
    BY <1>3
  <2>2. Cardinality(B[u]) <= Cardinality(B[t]) /\ Cardinality(B[u]) # Cardinality(B[t])
    BY <1>2, <2>1, FS_Subset
  <2> QED
    BY <1>2, <2>2
<1>4. rank \in [U -> 0..n - 1] /\ \A t \in U : rank[t] = Cardinality(B[t])
  <2> HIDE DEF n
  <2> QED
    BY <1>1, <1>2
<1>5. \A t, u \in U : rank[t] = rank[u] => t = u
  <2> HIDE DEF rank
  <2> QED
    BY <1>2, <1>3, <1>4
<1> HIDE DEF rank
<1>6. rank \in Injection(U, 0..n - 1)
  BY <1>4, <1>5 DEF Injection, IsInjective
<1>7. \A i \in 0..n - 1 : \E t \in U : rank[t] = i
  <2>1. IsFiniteSet(0..n - 1) /\ Cardinality(0..n - 1) = n
    <3> HIDE DEF n
    <3> QED
      BY <1>1, FS_Interval
  <2>2. rank \in Surjection(U, 0..n - 1)
    BY <1>6, <2>1, FS_Injection
  <2> QED
    BY <2>2 DEF Surjection
<1> DEFINE top == [t \in T |-> rank[t]]
<1> HIDE DEF n
<1>8. \A t \in T : t \in U /\ rank[t] \in 0..k - 1 /\ top[t] = rank[t]
  BY <1>2, <1>4
<1>9. top \in Injection(T, 0..k - 1)
  <2>1. top \in [T -> 0..k - 1] /\ DOMAIN top = T
    BY <1>8
  <2>2. \A t, u \in T : top[t] = top[u] => t = u
    BY <1>5, <1>8
  <2> HIDE DEF top, T
  <2> QED
    BY <2>1, <2>2 DEF Injection, IsInjective
<1>10. top \in Surjection(T, 0..k - 1)
  <2>1. top \in [T -> 0..k - 1]
    BY <1>8
  <2>2. ASSUME NEW i \in 0..k - 1 PROVE \E t \in T : top[t] = i
    <3>1. i \in 0..n - 1 /\ i < k
      BY <1>1 DEF n
    <3>2. PICK t \in U : rank[t] = i
      BY <1>7, <3>1
    <3>3. t \in T
      BY <1>4, <3>1, <3>2
    <3> QED
      BY <1>8, <3>2, <3>3
  <2> HIDE DEF top, T
  <2> QED
    BY <2>1, <2>2 DEF Surjection
<1>11. IsFiniteSet(0..k - 1) /\ Cardinality(0..k - 1) = k
  BY FS_Interval
<1> HIDE DEF top, T
<1>12. IsFiniteSet(T) /\ Cardinality(T) = k
  BY <1>9, <1>10, <1>11, FS_Injection
<1> QED
  BY <1>3, <1>12 DEF T

\* Fractions, compared by their cross products.
LEMMA CrossProducts ==
    ASSUME NEW a \in Nat, NEW b \in Nat \ {0}, NEW c \in Nat, NEW d \in Nat \ {0},
           NEW e \in Nat, NEW f \in Nat \ {0}, a * d >= c * b, c * f >= e * d
    PROVE  a * f >= e * b
<1>1. \A x, y, z \in Nat : x >= y => x * z >= y * z
  OBVIOUS
<1>2. \A x, y \in Nat : x * y \in Nat
  OBVIOUS
<1>3. (a * d) * f >= (c * b) * f /\ (c * f) * b >= (e * d) * b
  BY <1>1, <1>2
<1>4. (c * b) * f = (c * f) * b
  OBVIOUS
<1>5. (a * d) * f = (a * f) * d /\ (e * d) * b = (e * b) * d
  OBVIOUS
<1>6. (a * f) * d >= (e * b) * d
  <2>1. /\ (a * d) * f \in Nat /\ (c * b) * f \in Nat /\ (c * f) * b \in Nat
        /\ (e * d) * b \in Nat
    BY <1>2
  <2> QED
    BY <1>3, <1>4, <1>5, <2>1
<1>7. \A x, y \in Nat : x * d >= y * d => x >= y
  OBVIOUS
<1> QED
  BY <1>2, <1>6, <1>7

\* Every ticker has a close at both ends of the lookback, the first one not zero.
Measured(data, m) ==
    \A t \in Universe : data[t][LastClose(m)] \in Nat /\ data[t][FirstClose(m)] \in Nat \ {0}

\* The strength is a total preorder of the universe.
LEMMA StrengthOrders ==
    ASSUME NEW data, NEW m, Measured(data, m)
    PROVE  /\ \A t, u \in Universe : ~(Stronger(data, m, t, u) /\ Stronger(data, m, u, t))
           /\ \A t, u, v \in Universe :
                 ~Stronger(data, m, u, t) /\ ~Stronger(data, m, v, u) => ~Stronger(data, m, v, t)
<1>1. ASSUME NEW t \in Universe, NEW u \in Universe
      PROVE  /\ ~(Stronger(data, m, t, u) /\ Stronger(data, m, u, t))
             /\ ~Stronger(data, m, u, t) <=>
                   data[t][LastClose(m)] * data[u][FirstClose(m)]
                       >= data[u][LastClose(m)] * data[t][FirstClose(m)]
  <2>1. /\ data[t][LastClose(m)] \in Nat /\ data[t][FirstClose(m)] \in Nat
        /\ data[u][LastClose(m)] \in Nat /\ data[u][FirstClose(m)] \in Nat
    BY DEF Measured
  <2>2. PICK x \in Nat : x = data[t][LastClose(m)] * data[u][FirstClose(m)]
    BY <2>1
  <2>3. PICK y \in Nat : y = data[u][LastClose(m)] * data[t][FirstClose(m)]
    BY <2>1
  <2>4. (Stronger(data, m, t, u) <=> x > y) /\ (Stronger(data, m, u, t) <=> y > x)
    BY <2>2, <2>3, Zenon DEF Stronger
  <2>5. ~(x > y /\ y > x) /\ (~(y > x) <=> x >= y)
    BY <2>2, <2>3
  <2> QED
    BY <2>2, <2>3, <2>4, <2>5, Zenon
<1>2. ASSUME NEW t \in Universe, NEW u \in Universe, NEW v \in Universe,
             ~Stronger(data, m, u, t), ~Stronger(data, m, v, u)
      PROVE  ~Stronger(data, m, v, t)
  <2>1. PICK a \in Nat, b \in Nat \ {0} :
            a = data[t][LastClose(m)] /\ b = data[t][FirstClose(m)]
    BY DEF Measured
  <2>2. PICK c \in Nat, d \in Nat \ {0} :
            c = data[u][LastClose(m)] /\ d = data[u][FirstClose(m)]
    BY DEF Measured
  <2>3. PICK e \in Nat, f \in Nat \ {0} :
            e = data[v][LastClose(m)] /\ f = data[v][FirstClose(m)]
    BY DEF Measured
  <2>4. a * d >= c * b /\ c * f >= e * d
    BY <1>1, <1>2, <2>1, <2>2, <2>3, Zenon
  <2>5. a * f >= e * b
    BY <2>4, CrossProducts
  <2> QED
    BY <1>1, <2>1, <2>3, <2>5, Zenon
<1> QED
  BY <1>1, <1>2, Zenon

\* The universe is finite, and has a ticker for each column.
LEMMA UniverseIs ==
    /\ IsFiniteSet(Universe) /\ Cardinality(Universe) = Len(Column)
    /\ Len(Column) \in Nat /\ Universe \in SUBSET Nat
<1>1. /\ Column \in Seq(Nat) /\ \A a, b \in DOMAIN Column : Column[a] = Column[b] => a = b
  BY MomentumAssumption DEF MomentumAssumption, IsInjective
<1>2. Len(Column) \in Nat /\ DOMAIN Column = 1..Len(Column)
  BY <1>1
<1>3. Universe = {Column[i] : i \in 1..Len(Column)}
  BY <1>2, Zenon DEF Universe, ToSet
<1>4. Universe \in SUBSET Nat
  BY <1>1, <1>2, <1>3
<1> DEFINE f == [i \in 1..Len(Column) |-> Column[i]]
<1>5. f \in Bijection(1..Len(Column), Universe)
  <2>1. f \in [1..Len(Column) -> Universe] /\ \A i \in 1..Len(Column) : f[i] = Column[i]
    BY <1>3
  <2>2. \A a, b \in 1..Len(Column) : f[a] = f[b] => a = b
    BY <1>1, <1>2, <2>1
  <2>3. \A t \in Universe : \E i \in 1..Len(Column) : f[i] = t
    BY <1>3, <2>1
  <2> HIDE DEF f
  <2> QED
    BY <2>1, <2>2, <2>3 DEF Bijection, Injection, Surjection, IsInjective
<1>6. IsFiniteSet(1..Len(Column)) /\ Cardinality(1..Len(Column)) = Len(Column)
  <2>1. PICK n \in Nat : n = Len(Column)
    BY <1>2
  <2>2. IsFiniteSet(1..n) /\ Cardinality(1..n) = n
    BY FS_Interval
  <2> QED
    BY <2>1, <2>2
<1> HIDE DEF f
<1>7. ExistsBijection(1..Len(Column), Universe)
  BY <1>5 DEF ExistsBijection
<1> QED
  BY <1>2, <1>4, <1>6, <1>7, FS_Bijection

\* A rank that sets a ticker apart from every other.
Ranks(rank) ==
    /\ \A t \in Universe : rank[t] \in Int
    /\ \A t, u \in Universe : rank[t] = rank[u] => t = u

\* The strongest are TopN, and a ticker that is stronger than one of them is one of them.
LEMMA StrongestAre ==
    ASSUME NEW data, NEW m, Measured(data, m), NEW rank, Ranks(rank)
    PROVE  /\ IsFiniteSet(Strongest(data, m, rank)) /\ Strongest(data, m, rank) \in SUBSET Universe
           /\ Cardinality(Strongest(data, m, rank)) = TopN
           /\ \A t, u \in Universe : t \in Strongest(data, m, rank) /\ Stronger(data, m, u, t) =>
                                         u \in Strongest(data, m, rank)
<1> DEFINE beats(u, t) == \/ Stronger(data, m, u, t)
                          \/ Tied(data, m, u, t) /\ rank[u] < rank[t]
           B == [t \in Universe |-> {u \in Universe : beats(u, t)}]
<1>1. /\ \A t, u \in Universe : ~(Stronger(data, m, t, u) /\ Stronger(data, m, u, t))
      /\ \A t, u, v \in Universe :
            ~Stronger(data, m, u, t) /\ ~Stronger(data, m, v, u) => ~Stronger(data, m, v, t)
  BY StrengthOrders
<1>2. \A t, u, v \in Universe : Stronger(data, m, v, t) /\ ~Stronger(data, m, v, u) =>
                                    Stronger(data, m, u, t)
  BY <1>1, Zenon
<1>3. \A t, u \in Universe : u \in B[t] <=> beats(u, t)
  OBVIOUS
<1>4. \A t, u \in Universe : /\ ~(rank[t] < rank[t])
                             /\ t = u \/ rank[t] < rank[u] \/ rank[u] < rank[t]
  BY DEF Ranks
<1>5. \A t, u, v \in Universe : rank[v] < rank[u] /\ rank[u] < rank[t] => rank[v] < rank[t]
  BY DEF Ranks
<1>6. B \in [Universe -> SUBSET Universe]
  OBVIOUS
<1> HIDE DEF B
<1>7. \A t \in Universe : t \notin B[t]
  BY <1>1, <1>3, <1>4, Zenon DEF Tied
<1>8. ASSUME NEW t \in Universe, NEW u \in Universe, u \in B[t] PROVE B[u] \subseteq B[t]
  <2> SUFFICES ASSUME NEW v \in Universe, beats(v, u) PROVE beats(v, t)
    BY <1>3, <1>6
  <2>1. beats(u, t)
    BY <1>3, <1>8
  <2>2. CASE Stronger(data, m, u, t)
    <3>1. ~Stronger(data, m, u, v)
      BY <1>1 DEF Tied
    <3> QED
      BY <1>2, <2>2, <3>1, Zenon
  <2>3. CASE Tied(data, m, u, t) /\ rank[u] < rank[t]
    <3>1. CASE Stronger(data, m, v, u)
      <4>1. ~Stronger(data, m, t, u)
        BY <2>3 DEF Tied
      <4>2. Stronger(data, m, v, t)
        BY <1>1, <3>1, <4>1, Zenon
      <4> QED
        BY <4>2
    <3>2. CASE Tied(data, m, v, u) /\ rank[v] < rank[u]
      <4>1. ~Stronger(data, m, v, t) /\ ~Stronger(data, m, t, v)
        BY <1>1, <2>3, <3>2, Zenon DEF Tied
      <4> QED
        BY <1>5, <2>3, <3>2, <4>1, Zenon DEF Tied
    <3> QED
      BY <3>1, <3>2
  <2> QED
    BY <2>1, <2>2, <2>3
<1>9. \A t, u \in Universe : t = u \/ u \in B[t] \/ t \in B[u]
  BY <1>3, <1>4, Zenon DEF Tied
<1>10. TopN \in Nat /\ TopN <= Cardinality(Universe) /\ IsFiniteSet(Universe)
  BY UniverseIs, MomentumAssumption DEF MomentumAssumption
<1>11. /\ IsFiniteSet({t \in Universe : Cardinality(B[t]) < TopN})
       /\ Cardinality({t \in Universe : Cardinality(B[t]) < TopN}) = TopN
       /\ \A t, u \in Universe : u \in B[t] => Cardinality(B[u]) < Cardinality(B[t])
  BY <1>6, <1>7, <1>8, <1>9, <1>10, FirstOfOrder
<1>12. Strongest(data, m, rank) = {t \in Universe : Cardinality(B[t]) < TopN}
  BY Zenon DEF Strongest, B
<1>13. \A t \in Universe : Cardinality(B[t]) \in Nat
  <2> SUFFICES ASSUME NEW t \in Universe PROVE Cardinality(B[t]) \in Nat
    OBVIOUS
  <2>1. B[t] \in SUBSET Universe
    BY <1>6
  <2> QED
    BY <1>10, <2>1, FS_Subset, FS_CardinalityType
<1>14. ASSUME NEW t \in Universe, NEW u \in Universe, t \in Strongest(data, m, rank),
              Stronger(data, m, u, t)
       PROVE  u \in Strongest(data, m, rank)
  <2>1. Cardinality(B[t]) < TopN /\ Cardinality(B[u]) < Cardinality(B[t])
    BY <1>3, <1>11, <1>12, <1>14
  <2>2. Cardinality(B[u]) < TopN
    BY <1>10, <1>13, <2>1
  <2> QED
    BY <1>12, <2>2
<1> QED
  BY <1>11, <1>12, <1>14

\* Two ranks differ only on tickers that tie with one on the other side of the cut.
LEMMA TopsDiffer ==
    ASSUME NEW data, NEW m, Measured(data, m), NEW rank, Ranks(rank), NEW order, Ranks(order),
           NEW t \in SymDiff(Strongest(data, m, rank), Strongest(data, m, order))
    PROVE  \E u \in Universe : /\ u # t /\ Tied(data, m, t, u)
                               /\ (u \in Strongest(data, m, order)) #
                                  (t \in Strongest(data, m, order))
<1> DEFINE live == Strongest(data, m, rank)
           held == Strongest(data, m, order)
<1>1. /\ IsFiniteSet(live) /\ live \in SUBSET Universe /\ Cardinality(live) = TopN
      /\ IsFiniteSet(held) /\ held \in SUBSET Universe /\ Cardinality(held) = TopN
      /\ \A v, u \in Universe : v \in held /\ Stronger(data, m, u, v) => u \in held
  BY StrongestAre
<1>2. TopN \in Nat /\ IsFiniteSet(Universe)
  BY UniverseIs, MomentumAssumption DEF MomentumAssumption
<1>3. t \in Universe /\ ((t \in held /\ t \notin live) \/ (t \in live /\ t \notin held))
  BY <1>1 DEF SymDiff
<1> DEFINE Before == {u \in Universe : \/ Stronger(data, m, u, t)
                                       \/ Tied(data, m, u, t) /\ rank[u] < rank[t]}
<1>4. t \in live <=> Cardinality(Before) < TopN
  BY <1>3, Zenon DEF Strongest
<1>5. t \notin Before
  <2>1. ~Stronger(data, m, t, t)
    BY <1>3, StrengthOrders
  <2>2. ~(rank[t] < rank[t])
    BY <1>3 DEF Ranks
  <2> QED
    BY <2>1, <2>2, Zenon
<1>6. \A u \in Before : u \in Universe /\ (Stronger(data, m, u, t) \/ Tied(data, m, t, u))
  BY Zenon DEF Tied
<1>7. \A u \in Universe : Stronger(data, m, u, t) => u \in Before
  OBVIOUS
<1>8. IsFiniteSet(Before) /\ Cardinality(Before) \in Nat
  <2>1. Before \in SUBSET Universe
    OBVIOUS
  <2> HIDE DEF Before
  <2> QED
    BY <1>2, <2>1, FS_Subset, FS_CardinalityType
<1> HIDE DEF live, held, Before
<1>9. SUFFICES ASSUME \A u \in Universe : u # t /\ Tied(data, m, t, u) =>
                          (u \in held <=> t \in held)
               PROVE  FALSE
  BY Zenon DEF held
<1>10. CASE t \in held /\ t \notin live
  <2>1. Before \in SUBSET held /\ Before # held
    BY <1>1, <1>3, <1>5, <1>6, <1>9, <1>10
  <2>2. Cardinality(Before) <= TopN /\ Cardinality(Before) # TopN
    BY <1>1, <2>1, FS_Subset
  <2> QED
    BY <1>2, <1>4, <1>8, <1>10, <2>2
<1>11. CASE t \in live /\ t \notin held
  <2>1. Cardinality(Before) < TopN
    BY <1>4, <1>11
  <2>2. PICK h \in held : h \notin Before
    <3>1. ASSUME held \in SUBSET Before PROVE FALSE
      <4>1. Cardinality(held) <= Cardinality(Before)
        BY <1>8, <3>1, FS_Subset
      <4> QED
        BY <1>1, <1>2, <1>8, <2>1, <4>1
    <3> QED
      BY <3>1
  <2>3. h \in Universe /\ h # t /\ ~Stronger(data, m, h, t)
    BY <1>1, <1>7, <1>11, <2>2
  <2>4. ~Tied(data, m, t, h)
    BY <1>9, <1>11, <2>2, <2>3
  <2>5. Stronger(data, m, t, h)
    BY <2>3, <2>4 DEF Tied
  <2> QED
    BY <1>1, <1>3, <1>11, <2>2, <2>3, <2>5
<1> QED
  BY <1>3, <1>10, <1>11

\* The two tie-breaks are ranks.
LEMMA TieBreaks == Ranks(Alphabetical) /\ Ranks(InColumnOrder)
<1>1. Ranks(Alphabetical)
  <2>1. \A t \in Universe : Alphabetical[t] = t /\ t \in Int
    BY UniverseIs DEF Alphabetical
  <2> QED
    BY <2>1 DEF Ranks
<1>2. ASSUME NEW t \in Universe
      PROVE  InColumnOrder[t] \in DOMAIN Column /\ Column[InColumnOrder[t]] = t
  <2>1. \E i \in DOMAIN Column : Column[i] = t
    BY DEF Universe, ToSet
  <2>2. InColumnOrder[t] = CHOOSE i \in DOMAIN Column : Column[i] = t
    BY DEF InColumnOrder
  <2> QED
    BY <2>1, <2>2
<1>3. DOMAIN Column \in SUBSET Int
  BY MomentumAssumption DEF MomentumAssumption
<1>4. Ranks(InColumnOrder)
  BY <1>2, <1>3 DEF Ranks
<1> QED
  BY <1>1, <1>4

-------------------------------------------------------------------------
(* The months of the data.                                                 *)

\* The months with a return run from some month to the last one.
LEMMA ReturnMonths ==
    ASSUME NEW data \in [Universe -> ClosePaths]
    PROVE  /\ MonthlyReturns(data) \in SUBSET (2..Months) /\ Months \in Nat
           /\ IsFiniteSet(MonthlyReturns(data)) /\ MonthlyReturns(data) \in SUBSET Int
           /\ \A t \in Universe : \A i \in 1..Months : data[t][i] \in Nat
           /\ \A i, k \in 1..Months : i < k /\ Listed(data, i) => Listed(data, k)
           /\ \A m \in MonthlyReturns(data) : \A k \in m..Months : k \in MonthlyReturns(data)
<1>1. /\ Months \in Nat /\ \A path \in ClosePaths : path \in [1..Months -> Nat]
      /\ \A path \in ClosePaths : \A i, k \in 1..Months : i < k /\ path[i] > 0 => path[k] > 0
  BY MomentumAssumption DEF MomentumAssumption
<1>2. \A t \in Universe : data[t] \in ClosePaths
  OBVIOUS
<1>3. \A t \in Universe : \A i \in 1..Months : data[t][i] \in Nat
  BY <1>1, <1>2
<1>4. \A i, k \in 1..Months : i < k /\ Listed(data, i) => Listed(data, k)
  BY <1>1, <1>2 DEF Listed
<1>5. MonthlyReturns(data) \in SUBSET (2..Months) /\ MonthlyReturns(data) \in SUBSET Int
  BY DEF MonthlyReturns
<1>6. IsFiniteSet(2..Months)
  BY <1>1, FS_Interval
<1>7. IsFiniteSet(MonthlyReturns(data))
  BY <1>5, <1>6, FS_Subset
<1>8. ASSUME NEW m \in MonthlyReturns(data), NEW k \in m..Months PROVE k \in MonthlyReturns(data)
  <2>1. /\ m \in 2..Months /\ m - 1 \in 1..Months /\ m \in 1..Months
        /\ Listed(data, m - 1) /\ Listed(data, m)
    BY <1>1 DEF MonthlyReturns
  <2>2. /\ k \in 2..Months /\ k \in 1..Months /\ k - 1 \in 1..Months
        /\ k = m \/ (m < k /\ m - 1 < k - 1)
    BY <1>1, <2>1
  <2>3. Listed(data, k) /\ Listed(data, k - 1)
    BY <1>4, <2>1, <2>2
  <2> QED
    BY <2>2, <2>3 DEF MonthlyReturns
<1> QED
  BY <1>1, <1>3, <1>4, <1>5, <1>7, <1>8

\* With Lookback returns before month m, every ticker was listed at the start of them,
\* and both closes that are compared lie before the recent months.
LEMMA LookbackListed ==
    ASSUME NEW data \in [Universe -> ClosePaths], NEW rows \in SUBSET MonthlyReturns(data),
           NEW m \in 1..Months, Compounds(rows, m)
    PROVE  /\ FirstClose(m) \in 1..Months /\ LastClose(m) \in 1..Months
           /\ Measured(data, m)
           /\ FirstClose(m) < m - Skip /\ LastClose(m) < m - Skip
<1>1. /\ Months \in Nat /\ MonthlyReturns(data) \in SUBSET (2..Months)
      /\ MonthlyReturns(data) \in SUBSET Int
      /\ \A t \in Universe : \A i \in 1..Months : data[t][i] \in Nat
      /\ \A i, k \in 1..Months : i < k /\ Listed(data, i) => Listed(data, k)
      /\ \A r \in MonthlyReturns(data) : \A k \in r..Months : k \in MonthlyReturns(data)
  BY ReturnMonths
<1>2. Lookback \in Nat /\ Skip \in 0..Lookback - 1
  BY MomentumAssumption DEF MomentumAssumption
<1>3. m - Lookback \in MonthlyReturns(data)
  <2> SUFFICES ASSUME m - Lookback \notin MonthlyReturns(data) PROVE FALSE
    OBVIOUS
  <2> DEFINE R == {r \in rows : r < m}
             a == m - Lookback + 1
             b == m - 1
  <2>1. \A r \in rows : r \in MonthlyReturns(data) /\ r \in Int /\ r <= Months
    BY <1>1
  <2>2. R \in SUBSET (a..b)
    <3> SUFFICES ASSUME NEW r \in rows, r < m PROVE r \in a..b
      OBVIOUS
    <3>1. ~(r <= m - Lookback)
      <4> SUFFICES ASSUME r <= m - Lookback PROVE FALSE
        OBVIOUS
      <4>1. m - Lookback \in r..Months
        BY <1>1, <1>2, <2>1
      <4> QED
        BY <1>1, <2>1, <4>1
    <3> QED
      BY <1>2, <2>1, <3>1
  <2>3. a \in Int /\ b \in Int /\ (a > b \/ b - a + 1 = Lookback - 1) /\ Lookback > 0
    BY <1>2
  <2>4. Cardinality(R) >= Lookback
    BY DEF Compounds
  <2> HIDE DEF R, a, b
  <2>5. IsFiniteSet(a..b) /\ Cardinality(a..b) = IF a > b THEN 0 ELSE b - a + 1
    BY <2>3, FS_Interval
  <2>6. IsFiniteSet(R) /\ Cardinality(R) <= Cardinality(a..b)
    BY <2>2, <2>5, FS_Subset
  <2>7. Cardinality(R) \in Nat
    BY <2>6, FS_CardinalityType
  <2> QED
    BY <1>2, <2>3, <2>4, <2>5, <2>6, <2>7
<1>4. m - Lookback \in 2..Months /\ Listed(data, m - Lookback - 1)
  <2>1. m - Lookback \in 2..Months /\ Listed(data, (m - Lookback) - 1)
    BY <1>3 DEF MonthlyReturns
  <2> QED
    BY <1>2, <2>1
<1>5. /\ FirstClose(m) = m - Lookback - 1 /\ LastClose(m) = m - Skip - 1
  BY DEF FirstClose, LastClose
<1>6. /\ FirstClose(m) \in 1..Months /\ LastClose(m) \in 1..Months
      /\ FirstClose(m) < m - Skip /\ LastClose(m) < m - Skip
  BY <1>1, <1>2, <1>4, <1>5
<1>7. Measured(data, m)
  <2>1. \A t \in Universe : data[t][FirstClose(m)] > 0
    BY <1>4, <1>5 DEF Listed
  <2> QED
    BY <1>1, <1>6, <2>1 DEF Measured
<1> QED
  BY <1>6, <1>7

\* The row of the month after a decision is the next month.
LEMMA NextRow ==
    ASSUME NEW data \in [Universe -> ClosePaths], NEW rows, rows = SimReturns(data)
    PROVE  /\ rows \in SUBSET MonthlyReturns(data) /\ Cardinality(rows) \in Nat
           /\ \A i \in 1..Cardinality(rows) : /\ RowOf(rows, i) \in rows
                                              /\ RowOf(rows, i) \in 1..Months
           /\ \A i \in 1..Cardinality(rows) : i + 1 \in 1..Cardinality(rows) =>
                  RowOf(rows, i + 1) = RowOf(rows, i) + 1
<1>1. /\ Months \in Nat /\ MonthlyReturns(data) \in SUBSET (2..Months)
      /\ IsFiniteSet(MonthlyReturns(data)) /\ MonthlyReturns(data) \in SUBSET Int
      /\ \A r \in MonthlyReturns(data) : \A k \in r..Months : k \in MonthlyReturns(data)
  BY ReturnMonths
<1>2. Benchmark \in Int
  BY MomentumAssumption DEF MomentumAssumption
<1>3. /\ rows \in SUBSET MonthlyReturns(data) /\ rows \in SUBSET Int
      /\ \A r \in rows : r \in 2..Months
      /\ \A r \in rows : \A k \in r..Months : k \in rows
  BY <1>1, <1>2 DEF SimReturns
<1>4. IsFiniteSet(rows)
  BY <1>1, <1>3, FS_Subset
<1>5. /\ Cardinality(rows) \in Nat
      /\ \A i \in 1..Cardinality(rows) : Ascending(rows)[i] \in rows
      /\ \A i, j \in 1..Cardinality(rows) : i < j => Ascending(rows)[i] < Ascending(rows)[j]
      /\ \A x \in rows : \E i \in 1..Cardinality(rows) : Ascending(rows)[i] = x
  BY <1>3, <1>4, AscendingLists
<1>6. ASSUME NEW i \in 1..Cardinality(rows), i + 1 \in 1..Cardinality(rows)
      PROVE  RowOf(rows, i + 1) = RowOf(rows, i) + 1
  <2>1. PICK m \in rows : m = Ascending(rows)[i] /\ m \in 2..Months
    BY <1>3, <1>5
  <2>2. PICK k \in rows : k = Ascending(rows)[i + 1] /\ k \in 2..Months
    BY <1>3, <1>5, <1>6
  <2>3. m < k
    BY <1>5, <1>6, <2>1, <2>2
  <2>4. m + 1 \in rows
    BY <1>1, <1>3, <2>1, <2>2, <2>3
  <2>5. PICK j \in 1..Cardinality(rows) : Ascending(rows)[j] = m + 1
    BY <1>5, <2>4
  <2>6. ~(j < i) /\ j # i
    BY <1>5, <2>1, <2>5
  <2>7. ~(i + 1 < j)
    BY <1>5, <1>6, <2>2, <2>3, <2>5
  <2>8. j = i + 1
    BY <1>5, <2>6, <2>7
  <2> QED
    BY <2>1, <2>5, <2>8 DEF RowOf
<1> QED
  BY <1>1, <1>3, <1>5, <1>6 DEF RowOf

-------------------------------------------------------------------------
(* What is picked at a month-end.                                          *)

\* The rows up to a month end with it, and compound what all the rows compound.
LEMMA RowsUpTo ==
    ASSUME NEW rows \in SUBSET Int, NEW m \in rows, NEW R, R = {r \in rows : r <= m}
    PROVE  R # {} /\ Max(R) = m /\ (Compounds(R, m) <=> Compounds(rows, m))
<1>0. m \in Int /\ m <= m
  OBVIOUS
<1>1. m \in R /\ R \in SUBSET Int /\ m \in Int /\ \A r \in R : r <= m
  BY <1>0, Zenon
<1>2. Max(R) \in R /\ \A r \in R : r <= Max(R)
  <2>1. R # {}
    BY <1>1
  <2> QED
    BY <1>1, <2>1, MaxIn
<1>3. Max(R) \in Int /\ Max(R) <= m /\ m <= Max(R)
  BY <1>1, <1>2
<1>4. \A r \in rows : r < m => r <= m
  <2>1. \A r \in Int : r < m => r <= m
    BY <1>0
  <2> QED
    BY <2>1
<1>5. {r \in R : r < m} = {r \in rows : r < m}
  BY <1>4, Zenon
<1>6. R # {} /\ Max(R) = m
  BY <1>1, <1>3
<1> QED
  BY <1>5, <1>6, Zenon DEF Compounds

\* The three forms look at the returns up to month m, and compound those before it.
LEMMA LiveIs ==
    ASSUME NEW data \in [Universe -> ClosePaths], NEW m \in MonthlyReturns(data)
    PROVE  LET live == IF Compounds(MonthlyReturns(data), m)
                       THEN Strongest(data, m, Alphabetical) ELSE {}
           IN  /\ ComputeTargetPortfolio(data, m) = live
               /\ ResearchTopN(data, m) = live
<1> DEFINE R == {r \in MonthlyReturns(data) : r <= m}
<1>1. MonthlyReturns(data) \in SUBSET Int
  BY ReturnMonths
<1>2. R # {} /\ Max(R) = m /\ (Compounds(R, m) <=> Compounds(MonthlyReturns(data), m))
  BY <1>1, RowsUpTo
<1>3. ComputeTargetPortfolio(data, m) =
          IF R = {} THEN {}
          ELSE IF Compounds(R, Max(R)) THEN Strongest(data, Max(R), Alphabetical) ELSE {}
  BY DEF ComputeTargetPortfolio
<1>4. ResearchTopN(data, m) =
          IF R = {} \/ ~Compounds(MonthlyReturns(data), Max(R)) THEN {}
          ELSE Strongest(data, Max(R), Alphabetical)
  BY DEF ResearchTopN
<1> HIDE DEF R
<1>5. ComputeTargetPortfolio(data, m) =
          IF Compounds(MonthlyReturns(data), m) THEN Strongest(data, m, Alphabetical) ELSE {}
  BY <1>2, <1>3, Zenon
<1>6. ResearchTopN(data, m) =
          IF Compounds(MonthlyReturns(data), m) THEN Strongest(data, m, Alphabetical) ELSE {}
  BY <1>2, <1>4, Zenon
<1> QED
  BY <1>5, <1>6, Zenon

\* What happens from the recent months on leaves the picks alone.
LEMMA RecentForgotten ==
    ASSUME NEW m \in MonthlyReturns(closes), closes \in [Universe -> ClosePaths]
    PROVE  ComputeTargetPortfolio(closes, m) = ComputeTargetPortfolio(Forgotten(m), m)
<1>1. /\ Months \in Nat /\ m \in 2..Months
      /\ \A t \in Universe : \A i \in 1..Months : closes[t][i] \in Nat
  BY ReturnMonths
<1> DEFINE past == Forgotten(m)
<1>2. Skip \in Int
  BY MomentumAssumption DEF MomentumAssumption
<1>3. ASSUME NEW t \in Universe, NEW k \in 1..Months
      PROVE  /\ past[t][k] > 0 <=> closes[t][k] > 0
             /\ k < m - Skip => past[t][k] = closes[t][k]
  <2>1. past[t][k] = IF k < m - Skip THEN closes[t][k] ELSE IF closes[t][k] = 0 THEN 0 ELSE 1
    BY DEF Forgotten
  <2> QED
    BY <1>1, <2>1
<1> HIDE DEF past
<1>4. \A k \in 1..Months : Listed(past, k) <=> Listed(closes, k)
  BY <1>3 DEF Listed
<1>5. MonthlyReturns(past) = MonthlyReturns(closes)
  <2>1. \A k \in 2..Months : k \in 1..Months /\ k - 1 \in 1..Months
    BY <1>1
  <2> QED
    BY <1>4, <2>1, Zenon DEF MonthlyReturns
<1>6. ASSUME Compounds(MonthlyReturns(closes), m)
      PROVE  Strongest(past, m, Alphabetical) = Strongest(closes, m, Alphabetical)
  <2>1. /\ FirstClose(m) \in 1..Months /\ LastClose(m) \in 1..Months
        /\ FirstClose(m) < m - Skip /\ LastClose(m) < m - Skip
    <3>1. m \in 1..Months
      BY <1>1
    <3> QED
      BY <1>6, <3>1, LookbackListed
  <2>2. \A t \in Universe : /\ past[t][FirstClose(m)] = closes[t][FirstClose(m)]
                            /\ past[t][LastClose(m)] = closes[t][LastClose(m)]
    BY <1>3, <2>1
  <2>3. \A t, u \in Universe : Stronger(past, m, t, u) <=> Stronger(closes, m, t, u)
    BY <2>2, Zenon DEF Stronger
  <2>4. \A t, u \in Universe : Tied(past, m, t, u) <=> Tied(closes, m, t, u)
    BY <2>3, Zenon DEF Tied
  <2>5. ASSUME NEW t \in Universe
        PROVE  {u \in Universe : \/ Stronger(past, m, u, t)
                                 \/ Tied(past, m, u, t) /\ Alphabetical[u] < Alphabetical[t]}
             = {u \in Universe : \/ Stronger(closes, m, u, t)
                                 \/ Tied(closes, m, u, t) /\ Alphabetical[u] < Alphabetical[t]}
    BY <2>3, <2>4, Zenon
  <2> QED
    BY <2>5, Zenon DEF Strongest
<1> DEFINE R == {r \in MonthlyReturns(closes) : r <= m}
<1>7. ComputeTargetPortfolio(past, m) =
          IF R = {} THEN {}
          ELSE IF Compounds(R, Max(R)) THEN Strongest(past, Max(R), Alphabetical) ELSE {}
  BY <1>5, Zenon DEF ComputeTargetPortfolio
<1>8. ComputeTargetPortfolio(closes, m) =
          IF R = {} THEN {}
          ELSE IF Compounds(R, Max(R)) THEN Strongest(closes, Max(R), Alphabetical) ELSE {}
  BY Zenon DEF ComputeTargetPortfolio
<1>9. Max(R) = m /\ (Compounds(R, m) => Compounds(MonthlyReturns(closes), m))
  <2>1. MonthlyReturns(closes) \in SUBSET Int
    BY ReturnMonths
  <2> QED
    BY <2>1, RowsUpTo
<1> HIDE DEF R
<1> QED
  BY <1>6, <1>7, <1>8, <1>9, Zenon DEF past

-------------------------------------------------------------------------
(* The loop of the simulation.                                             *)

\* A row earns the month after its decision.
Earns(row) == row.skip = ""

\* The parts of a row.
LEMMA MonthParts ==
    ASSUME NEW d, NEW mo, NEW reason, NEW h, NEW s, NEW row,
           row = [decided |-> d, month |-> mo, skip |-> reason, held |-> h, slippage |-> s]
    PROVE  row.decided = d /\ row.month = mo /\ row.held = h /\ row.slippage = s
OBVIOUS

\* What a row says of the k-th month with a return.
RowFits(k, row) ==
    LET rows == SimReturns(closes)
        m == RowOf(rows, k)
    IN  /\ k \in 1..Cardinality(rows) /\ row.decided = m
        /\ row.held # {} => Compounds(rows, m) /\ row.held = Strongest(closes, m, InColumnOrder)
        /\ Earns(row) => k + 1 \in 1..Cardinality(rows) /\ row.month = RowOf(rows, k + 1)

\* The ledger has a row for each month that the loop has passed; the holdings before are
\* those of the last row that earned, and slippage is paid for what has changed since.
Slips(row, before) == row.slippage = (row.held # before)
MonthsInv ==
    /\ closes # <<>> => closes \in [Universe -> ClosePaths]
    /\ (\E S : months \in Seq(S)) /\ index = Len(months) + 1
    /\ \A k \in 1..Len(months) : RowFits(k, months[k])
    /\ months # <<>> => closes # <<>>
    /\ \A k \in 1..Len(months) : k = Len(months) /\ Earns(months[k]) => prior = months[k].held
    /\ \A j, k \in 1..Len(months) : k = j + 1 /\ Earns(months[j]) /\ Earns(months[k]) =>
                                        Slips(months[k], months[j].held)

\* The row that a month writes.
LEMMA RowOfMonth ==
    ASSUME SimulateMonth, closes \in [Universe -> ClosePaths]
    PROVE  \E row : /\ months' = Append(months, row) /\ RowFits(index, row)
                    /\ Earns(row) => prior' = row.held /\ Slips(row, prior)
<1> DEFINE rows == SimReturns(closes)
           m == RowOf(rows, index)
           top == Strongest(closes, m, InColumnOrder)
           row(mo, reason, h, s) ==
               [decided |-> m, month |-> mo, skip |-> reason, held |-> h, slippage |-> s]
<1>1. /\ index \in 1..Cardinality(rows)
      /\ \/ /\ ~Compounds(rows, m)
            /\ months' = Append(months, row(m, "insufficient_lookback", {}, FALSE))
         \/ /\ Compounds(rows, m) /\ index = Cardinality(rows)
            /\ months' = Append(months, row(m, "no_forward_return", top, FALSE))
         \/ /\ Compounds(rows, m) /\ index # Cardinality(rows)
            /\ months' = Append(months, row(RowOf(rows, index + 1), "", top, HoldingsChanged(top)))
            /\ prior' = top
  BY Zenon DEF SimulateMonth
<1>2. ASSUME NEW e, e = row(m, "insufficient_lookback", {}, FALSE)
      PROVE  RowFits(index, e) /\ ~Earns(e)
  <2>1. e.decided = m /\ e.held = {}
    BY <1>2, MonthParts, Zenon
  <2>2. ~Earns(e)
    BY <1>2 DEF Earns
  <2> QED
    BY <1>1, <2>1, <2>2, Zenon DEF RowFits
<1>3. ASSUME NEW e, e = row(m, "no_forward_return", top, FALSE), Compounds(rows, m)
      PROVE  RowFits(index, e) /\ ~Earns(e)
  <2>1. e.decided = m /\ e.held = top
    BY <1>3, MonthParts, Zenon
  <2>2. ~Earns(e)
    BY <1>3 DEF Earns
  <2> QED
    BY <1>1, <1>3, <2>1, <2>2, Zenon DEF RowFits
<1>4. ASSUME NEW e, e = row(RowOf(rows, index + 1), "", top, HoldingsChanged(top)),
             Compounds(rows, m), index # Cardinality(rows)
      PROVE  RowFits(index, e) /\ e.held = top /\ Slips(e, prior)
  <2>1. /\ e.decided = m /\ e.held = top /\ e.month = RowOf(rows, index + 1)
        /\ e.slippage = HoldingsChanged(top)
    BY <1>4, MonthParts, Zenon
  <2>2. index + 1 \in 1..Cardinality(rows)
    <3>1. PICK n \in Nat : n = Cardinality(rows)
      BY NextRow
    <3>2. index \in 1..n /\ index # n
      BY <1>1, <1>4, <3>1
    <3> QED
      BY <3>1, <3>2
  <2> QED
    BY <1>1, <1>4, <2>1, <2>2, Zenon DEF RowFits, Slips, HoldingsChanged
<1> QED
  BY <1>1, <1>2, <1>3, <1>4, Zenon

\* Every month keeps the invariant of the ledger.
LEMMA MonthsKept == MonthsInv /\ [MomentumNext]_momentum => MonthsInv'
<1> SUFFICES ASSUME MonthsInv, [MomentumNext]_momentum PROVE MonthsInv'
  OBVIOUS
<1>1. CASE UNCHANGED momentum
  BY <1>1, Zenon DEF momentum, MonthsInv, RowFits
<1>2. CASE MomentumNext
  <2>1. closes # <<>> /\ SimulateMonth /\ closes' = closes /\ index' = index + 1
    BY <1>2 DEF MomentumNext, SimulateMonth
  <2>2. closes \in [Universe -> ClosePaths]
    BY <2>1 DEF MonthsInv
  <2>3. PICK row : /\ months' = Append(months, row) /\ RowFits(index, row)
                   /\ Earns(row) => prior' = row.held /\ Slips(row, prior)
    BY <2>1, <2>2, RowOfMonth
  <2>4. PICK S : months \in Seq(S)
    BY DEF MonthsInv
  <2>5. PICK n \in Nat : n = Len(months)
    BY <2>4
  <2>6. /\ months' \in Seq(S \cup {row}) /\ Len(months') = n + 1 /\ months'[n + 1] = row
        /\ \A k \in 1..n : months'[k] = months[k]
        /\ months' # <<>>
    BY <2>3, <2>4, <2>5
  <2>7. index = n + 1 /\ index' = Len(months') + 1
    BY <2>1, <2>5, <2>6 DEF MonthsInv
  <2>8. \A k \in 1..n + 1 : k = n + 1 \/ k \in 1..n
    OBVIOUS
  <2>9. \A k, e : RowFits(k, e)' <=> RowFits(k, e)
    BY <2>1, Zenon DEF RowFits
  <2>10. ASSUME NEW k \in 1..n + 1 PROVE RowFits(k, months[k])'
    <3>1. PICK e : e = months'[k]
      OBVIOUS
    <3>2. RowFits(k, e)
      <4>1. CASE k = n + 1
        BY <2>3, <2>6, <2>7, <3>1, <4>1
      <4>2. CASE k \in 1..n
        <5>1. e = months[k] /\ RowFits(k, months[k])
          BY <2>5, <2>6, <3>1, <4>2 DEF MonthsInv
        <5> QED
          BY <5>1, Zenon
      <4> QED
        BY <2>8, <4>1, <4>2
    <3>3. RowFits(k, e)'
      BY <2>9, <3>2
    <3> QED
      BY <3>1, <3>3, Zenon DEF RowFits
  <2>11. \A k \in 1..n + 1 : k = n + 1 /\ Earns(months'[k]) => prior' = months'[k].held
    BY <2>3, <2>6, Zenon
  <2>12. ASSUME NEW j \in 1..n + 1, NEW k \in 1..n + 1, k = j + 1, Earns(months'[j]),
                Earns(months'[k])
         PROVE  Slips(months'[k], months'[j].held)
    <3>1. j \in 1..n /\ months'[j] = months[j]
      BY <2>6, <2>12
    <3>2. CASE k \in 1..n
      <4>1. months'[k] = months[k]
        BY <2>6, <3>2
      <4>2. Slips(months[k], months[j].held)
        BY <2>5, <2>12, <3>1, <3>2, <4>1, Zenon DEF MonthsInv
      <4> QED
        BY <3>1, <4>1, <4>2, Zenon
    <3>3. CASE k = n + 1
      <4>1. j = n
        BY <2>12, <3>3
      <4>2. prior = months[j].held
        BY <2>5, <2>12, <3>1, <4>1, Zenon DEF MonthsInv
      <4>3. months'[k] = row
        BY <2>6, <3>3
      <4> QED
        BY <2>3, <2>12, <3>1, <4>2, <4>3, Zenon
    <3> QED
      BY <2>8, <3>2, <3>3
  <2>13. Len(months') = n + 1
    BY <2>6
  <2>14. /\ \A k \in 1..Len(months') : RowFits(k, months[k])'
         /\ \A k \in 1..Len(months') : k = Len(months') /\ Earns(months'[k]) =>
                                           prior' = months'[k].held
         /\ \A j, k \in 1..Len(months') : k = j + 1 /\ Earns(months'[j]) /\ Earns(months'[k]) =>
                                           Slips(months'[k], months'[j].held)
    BY <2>10, <2>11, <2>12, <2>13, Zenon
  <2> QED
    BY <2>1, <2>2, <2>6, <2>7, <2>14, Zenon DEF MonthsInv
<1> QED
  BY <1>1, <1>2

\* What the last row and what is picked at its month-end have in common.
LEMMA RowsAgree ==
    ASSUME MonthsInv, NEW n \in 1..Len(months), NEW row, row = months[n], NEW m, m = row.decided
    PROVE  LET live == ComputeTargetPortfolio(closes, m) IN
           /\ live = ResearchTopN(closes, m)
           /\ live = ComputeTargetPortfolio(Forgotten(m), m)
           /\ row.held # {} => /\ \A t \in SymDiff(live, row.held) : TiedAtTheCut(m, t)
                               /\ Cardinality(live) = TopN
           /\ Earns(row) => row.month = m + 1
<1> DEFINE rows == SimReturns(closes)
           live == ComputeTargetPortfolio(closes, m)
<1>1. closes \in [Universe -> ClosePaths]
  <2>1. months # <<>>
    <3>1. PICK S : months \in Seq(S)
      BY DEF MonthsInv
    <3> QED
      BY <3>1
  <2> QED
    BY <2>1 DEF MonthsInv
<1>2. /\ n \in 1..Cardinality(rows) /\ m = RowOf(rows, n)
      /\ row.held # {} => Compounds(rows, m) /\ row.held = Strongest(closes, m, InColumnOrder)
      /\ Earns(row) => n + 1 \in 1..Cardinality(rows) /\ row.month = RowOf(rows, n + 1)
  <2>1. RowFits(n, row)
    BY DEF MonthsInv
  <2> QED
    BY <2>1, Zenon DEF RowFits
<1> HIDE DEF rows
<1>3. /\ rows \in SUBSET MonthlyReturns(closes) /\ m \in rows /\ m \in 1..Months
      /\ n + 1 \in 1..Cardinality(rows) => RowOf(rows, n + 1) = m + 1
  BY <1>1, <1>2, NextRow DEF rows
<1>4. m \in MonthlyReturns(closes)
  BY <1>3
<1>5. /\ live = IF Compounds(MonthlyReturns(closes), m)
                THEN Strongest(closes, m, Alphabetical) ELSE {}
      /\ ResearchTopN(closes, m) = live
  BY <1>1, <1>4, LiveIs, Zenon
<1>6. live = ComputeTargetPortfolio(Forgotten(m), m)
  BY <1>1, <1>4, RecentForgotten
<1>7. ASSUME row.held # {}
      PROVE  /\ \A t \in SymDiff(live, row.held) : TiedAtTheCut(m, t)
             /\ Cardinality(live) = TopN
  <2>1. Compounds(rows, m) /\ row.held = Strongest(closes, m, InColumnOrder)
    BY <1>2, <1>7
  <2>2. Measured(closes, m)
    BY <1>1, <1>3, <2>1, LookbackListed
  <2>3. Compounds(MonthlyReturns(closes), m)
    <3>1. IsFiniteSet(MonthlyReturns(closes))
      BY <1>1, ReturnMonths
    <3> DEFINE some == {r \in rows : r < m}
               all == {r \in MonthlyReturns(closes) : r < m}
    <3>2. some \in SUBSET all /\ all \in SUBSET MonthlyReturns(closes)
      BY <1>3
    <3>3. Cardinality(some) >= Lookback /\ Lookback \in Nat
      BY <2>1, MomentumAssumption DEF Compounds, MomentumAssumption
    <3> HIDE DEF some, all
    <3>4. IsFiniteSet(all) /\ Cardinality(all) \in Nat
      BY <3>1, <3>2, FS_Subset, FS_CardinalityType
    <3>5. Cardinality(some) <= Cardinality(all) /\ Cardinality(some) \in Nat
      BY <3>2, <3>4, FS_Subset, FS_CardinalityType
    <3>6. Cardinality(all) >= Lookback
      BY <3>3, <3>4, <3>5
    <3> QED
      BY <3>6 DEF Compounds, all
  <2>4. live = Strongest(closes, m, Alphabetical)
    BY <1>5, <2>3
  <2>5. Cardinality(live) = TopN
    BY <2>2, <2>4, TieBreaks, StrongestAre
  <2>6. ASSUME NEW t \in SymDiff(live, row.held) PROVE TiedAtTheCut(m, t)
    <3>1. \E u \in Universe : /\ u # t /\ Tied(closes, m, t, u)
                              /\ (u \in Strongest(closes, m, InColumnOrder)) #
                                 (t \in Strongest(closes, m, InColumnOrder))
      <4>1. t \in SymDiff(Strongest(closes, m, Alphabetical), Strongest(closes, m, InColumnOrder))
        BY <2>1, <2>4, Zenon
      <4> QED
        BY <2>2, <4>1, TieBreaks, TopsDiffer
    <3> QED
      BY <3>1, Zenon DEF TiedAtTheCut
  <2> QED
    BY <2>5, <2>6
<1>8. Earns(row) => row.month = m + 1
  BY <1>2, <1>3
<1> QED
  BY <1>5, <1>6, <1>7, <1>8, Zenon

\* Whatever the closes of the universe: at each month of the simulation the production
\* signal and its shadow pick alike, look at nothing from the recent months on, and hold
\* what the simulation holds but for tickers that tie at the cut; the simulation earns
\* the next month, each month once, and pays for what has changed.
THEOREM PicksDoAgree == MomentumInit /\ [][MomentumNext]_momentum => []PicksAgree
<1>1. MomentumInit => MonthsInv
  <2> SUFFICES ASSUME MomentumInit PROVE MonthsInv
    OBVIOUS
  <2>1. closes \in [Universe -> ClosePaths] /\ months = <<>> /\ index = 1
    BY DEF MomentumInit, MomentumStart
  <2>2. months \in Seq({}) /\ Len(months) = 0 /\ index = Len(months) + 1 /\ 1..Len(months) = {}
    BY <2>1
  <2> QED
    BY <2>1, <2>2 DEF MonthsInv
<1>2. MonthsInv => PicksAgree
  <2> SUFFICES ASSUME MonthsInv, months # <<>> PROVE PicksAgree
    BY DEF PicksAgree
  <2>1. PICK S : months \in Seq(S)
    BY DEF MonthsInv
  <2>2. PICK n \in Nat : n = Len(months) /\ n \in 1..Len(months) /\ Last(months) = months[n]
    BY <2>1 DEF Last
  <2>3. PICK row : row = months[n]
    OBVIOUS
  <2>4. PICK m : m = row.decided
    OBVIOUS
  <2> DEFINE live == ComputeTargetPortfolio(closes, m)
  <2>5. /\ live = ResearchTopN(closes, m)
        /\ live = ComputeTargetPortfolio(Forgotten(m), m)
        /\ row.held # {} => /\ \A t \in SymDiff(live, row.held) : TiedAtTheCut(m, t)
                            /\ Cardinality(live) = TopN
        /\ Earns(row) => row.month = m + 1
    BY <2>2, <2>3, <2>4, RowsAgree, Zenon
  <2>6. ASSUME n > 1, Earns(row), Earns(months[n - 1])
        PROVE  /\ row.month = months[n - 1].month + 1
               /\ Slips(row, months[n - 1].held)
    <3>1. n - 1 \in 1..Len(months) /\ n = (n - 1) + 1
      BY <2>2, <2>6
    <3>2. /\ RowFits(n, row) /\ RowFits(n - 1, months[n - 1])
          /\ Slips(row, months[n - 1].held)
      BY <2>2, <2>3, <2>6, <3>1, Zenon DEF MonthsInv
    <3>3. /\ row.month = m + 1 /\ m = RowOf(SimReturns(closes), n)
      BY <2>4, <2>5, <2>6, <3>2, Zenon DEF RowFits
    <3>4. months[n - 1].month = RowOf(SimReturns(closes), (n - 1) + 1)
      BY <2>6, <3>2, Zenon DEF RowFits
    <3> QED
      BY <3>1, <3>2, <3>3, <3>4, Zenon
  <2> HIDE DEF live
  <2> QED
    BY <2>2, <2>3, <2>4, <2>5, <2>6, Zenon DEF PicksAgree, live, Earns, Slips
<1> QED
  BY <1>1, <1>2, MonthsKept, PTL

-------------------------------------------------------------------------
(* The promotion over the slices of a ledger.                              *)

Streak == [streak : Nat, best : Nat]
NoStreak == [streak |-> 0, best |-> 0]
Streaks(s) ==
    CHOOSE f : f = [S \in SUBSET DOMAIN s |->
                       IF S = {} THEN NoStreak ELSE StreakStep(f[S \ {Max(S)}], s[Max(S)])]

\* One month more makes the streak longer or ends it, and never lowers the best.
LEMMA StreakGrows ==
    ASSUME NEW acc \in Streak, NEW u \in Int
    PROVE  /\ StreakStep(acc, u) \in Streak
           /\ StreakStep(acc, u).streak = IF u < 0 THEN acc.streak + 1 ELSE 0
           /\ StreakStep(acc, u).best >= acc.best
           /\ StreakStep(acc, u).best >= StreakStep(acc, u).streak
<1> DEFINE n == IF u < 0 THEN acc.streak + 1 ELSE 0
           M == {acc.best, n}
<1>1. acc.streak \in Nat /\ acc.best \in Nat /\ n \in Nat
  BY DEF Streak
<1>2. Max(M) \in M /\ \A x \in M : x <= Max(M)
  <2>1. M \in SUBSET Int /\ M # {} /\ acc.best + n \in Int /\ \A x \in M : x <= acc.best + n
    BY <1>1
  <2> HIDE DEF M
  <2> QED
    BY <2>1, MaxIn
<1>3. Max(M) \in Nat /\ Max(M) >= acc.best /\ Max(M) >= n
  BY <1>1, <1>2
<1>4. StreakStep(acc, u) = [streak |-> n, best |-> Max(M)]
  BY DEF StreakStep
<1> HIDE DEF M
<1> QED
  BY <1>1, <1>3, <1>4 DEF Streak

\* The fold over the months, one month at a time.
LEMMA StreaksAre ==
    ASSUME NEW s \in Seq(Int)
    PROVE  /\ MaxConsecutiveLosing(s) = Streaks(s)[1..Len(s)].best
           /\ \A k \in 0..Len(s) : Streaks(s)[1..k] \in Streak
           /\ \A k \in 1..Len(s) :
                 Streaks(s)[1..k] = StreakStep(Streaks(s)[1..k - 1], s[k])
<1> DEFINE n == Len(s)
           step == [p \in Streak \X Int |-> StreakStep(p[1], p[2])]
<1>1. s \in [1..n -> Int] /\ DOMAIN s = 1..n /\ n \in Nat
  BY Positions
<1>2. NoStreak \in Streak
  BY DEF NoStreak, Streak
<1>3. step \in [Streak \X Int -> Streak]
  BY StreakGrows
<1>4. MaxConsecutiveLosing(s) = Streaks(s)[1..n].best
  BY <1>1 DEF MaxConsecutiveLosing, FoldLeft, MapThenFoldSet, Streaks, NoStreak
<1> HIDE DEF n
<1>5. PICK f \in [SUBSET (1..n) -> Streak] :
          \A S \in SUBSET (1..n) :
             f[S] = IF S = {} THEN NoStreak ELSE step[<<f[S \ {Max(S)}], s[Max(S)]>>]
  <2> HIDE DEF step
  <2>1. FoldsOf(Streak, n, s, NoStreak, step) # {}
    BY <1>1, <1>2, <1>3, FoldExists
  <2>2. PICK f : f \in FoldsOf(Streak, n, s, NoStreak, step)
    BY <2>1
  <2> QED
    BY <2>2, Zenon DEF FoldsOf
<1>6. ASSUME NEW S \in SUBSET (1..n)
      PROVE  f[S] = IF S = {} THEN NoStreak ELSE StreakStep(f[S \ {Max(S)}], s[Max(S)])
  <2>1. CASE S = {}
    BY <1>5, <2>1
  <2>2. CASE S # {}
    <3>1. Max(S) \in 1..n /\ S \ {Max(S)} \in SUBSET (1..n)
      BY <1>1, <2>2, MaxOfFirst
    <3>2. PICK a \in Streak, u \in Int : a = f[S \ {Max(S)}] /\ u = s[Max(S)]
      BY <1>1, <3>1
    <3>3. f[S] = step[<<a, u>>]
      BY <1>5, <2>2, <3>2
    <3>4. step[<<a, u>>] = StreakStep(a, u)
      OBVIOUS
    <3> QED
      BY <2>2, <3>2, <3>3, <3>4, Zenon
  <2> QED
    BY <2>1, <2>2
<1>7. f = [S \in SUBSET DOMAIN s |->
              IF S = {} THEN NoStreak ELSE StreakStep(f[S \ {Max(S)}], s[Max(S)])]
  <2>1. f = [S \in SUBSET (1..n) |-> f[S]]
    OBVIOUS
  <2> QED
    BY <1>1, <1>6, <2>1, Zenon
<1>8. Streaks(s) = [S \in SUBSET (1..n) |->
              IF S = {} THEN NoStreak
              ELSE StreakStep(Streaks(s)[S \ {Max(S)}], s[Max(S)])]
  BY <1>1, <1>7, Zenon DEF Streaks
<1>9. \A k \in 1..n : Streaks(s)[1..k] = StreakStep(Streaks(s)[1..k - 1], s[k])
  <2> SUFFICES ASSUME NEW k \in 1..n
               PROVE  Streaks(s)[1..k] = StreakStep(Streaks(s)[1..k - 1], s[k])
    OBVIOUS
  <2>1. Max(1..k) = k /\ 1..k # {} /\ 1..k \in SUBSET (1..n) /\ (1..k) \ {k} = 1..k - 1
    BY <1>1, MaxOfFirst
  <2> DEFINE T == 1..k
  <2>2. Streaks(s)[T] = StreakStep(Streaks(s)[T \ {Max(T)}], s[Max(T)])
    <3> HIDE DEF T
    <3>1. T # {} /\ T \in SUBSET (1..n)
      BY <2>1 DEF T
    <3> QED
      BY <1>8, <3>1, Zenon
  <2> QED
    BY <2>1, <2>2, Zenon
<1>10. Streaks(s)[1..0] = NoStreak
  <2>1. 1..0 = {} /\ {} \in SUBSET (1..n)
    OBVIOUS
  <2> QED
    BY <1>8, <2>1, Zenon
<1> DEFINE Typed == {k \in 0..n : Streaks(s)[1..k] \in Streak}
<1>11. 0 \in Typed
  BY <1>1, <1>2, <1>10
<1>12. ASSUME NEW k \in 1..n, k - 1 \in Typed PROVE k \in Typed
  <2>1. Streaks(s)[1..k - 1] \in Streak /\ s[k] \in Int /\ k \in 0..n
    BY <1>1, <1>12
  <2> QED
    BY <1>9, <2>1, StreakGrows
<1>13. \A k \in 0..n : k \in Typed
  <2> HIDE DEF Typed
  <2>1. \A k \in 1..n : k - 1 \in Typed => k \in Typed
    BY <1>12
  <2> QED
    BY <1>1, <1>11, <2>1, EveryPrefix
<1> QED
  BY <1>4, <1>9, <1>13 DEF n

\* No run of losses within a slice is longer than the longest.
LEMMA LongestRun ==
    ASSUME NEW s \in Seq(Int), NEW i \in 1..Len(s), NEW j \in i..Len(s),
           \A k \in i..j : s[k] < 0
    PROVE  MaxConsecutiveLosing(s) \in Nat /\ j - i + 1 <= MaxConsecutiveLosing(s)
<1> DEFINE n == Len(s)
           A(k) == Streaks(s)[1..k]
           Runs == {k \in 0..n : k >= i /\ k <= j => A(k).streak >= k - i + 1}
           Kept == {k \in 0..n : k >= j => A(k).best >= j - i + 1}
<1>1. n \in Nat /\ i \in Nat /\ j \in Nat /\ i >= 1 /\ i <= j /\ j <= n
  BY Positions
<1>2. /\ MaxConsecutiveLosing(s) = A(n).best
      /\ \A k \in 0..n : A(k) \in Streak
      /\ \A k \in 1..n : A(k) = StreakStep(A(k - 1), s[k])
  BY StreaksAre
<1>3. \A k \in 1..n : s[k] \in Int
  OBVIOUS
<1> HIDE DEF n, A
<1>4. \A k \in 0..n : A(k).streak \in Nat /\ A(k).best \in Nat
  BY <1>2 DEF Streak
<1>5. ASSUME NEW k \in 1..n
      PROVE  /\ k - 1 \in 0..n /\ k \in 0..n
             /\ A(k).streak = IF s[k] < 0 THEN A(k - 1).streak + 1 ELSE 0
             /\ A(k).best >= A(k - 1).best /\ A(k).best >= A(k).streak
  <2>1. k - 1 \in 0..n /\ k \in 0..n
    BY <1>1
  <2>2. A(k - 1) \in Streak /\ s[k] \in Int /\ A(k) = StreakStep(A(k - 1), s[k])
    BY <1>2, <1>3, <2>1
  <2> QED
    BY <2>1, <2>2, StreakGrows
<1>6. \A k \in 0..n : k \in Runs
  <2>1. 0 \in Runs
    BY <1>1
  <2>2. ASSUME NEW k \in 1..n, k - 1 \in Runs PROVE k \in Runs
    <3> SUFFICES ASSUME k >= i, k <= j PROVE A(k).streak >= k - i + 1
      BY <1>5
    <3>1. s[k] < 0 /\ A(k).streak = A(k - 1).streak + 1
      BY <1>1, <1>5
    <3>2. CASE k = i
      BY <1>1, <1>4, <1>5, <3>1, <3>2
    <3>3. CASE k # i
      <4>1. A(k - 1).streak >= (k - 1) - i + 1
        BY <1>1, <2>2, <3>3
      <4> QED
        BY <1>1, <1>4, <1>5, <3>1, <4>1
    <3> QED
      BY <3>2, <3>3
  <2>3. \A k \in 1..n : k - 1 \in Runs => k \in Runs
    BY <2>2
  <2> HIDE DEF Runs
  <2> QED
    BY <1>1, <2>1, <2>3, EveryPrefix
<1>7. j \in 1..n /\ j \in 0..n
  BY <1>1
<1>8. A(j).streak >= j - i + 1
  BY <1>1, <1>6, <1>7
<1>9. A(j).best >= j - i + 1
  BY <1>1, <1>4, <1>5, <1>7, <1>8
<1>10. \A k \in 0..n : k \in Kept
  <2>1. 0 \in Kept
    BY <1>1
  <2>2. ASSUME NEW k \in 1..n, k - 1 \in Kept PROVE k \in Kept
    <3> SUFFICES ASSUME k >= j PROVE A(k).best >= j - i + 1
      BY <1>5
    <3>1. CASE k = j
      BY <1>9, <3>1
    <3>2. CASE k # j
      <4>1. A(k - 1).best >= j - i + 1
        BY <1>1, <2>2, <3>2
      <4> QED
        BY <1>1, <1>4, <1>5, <4>1
    <3> QED
      BY <3>1, <3>2
  <2>3. \A k \in 1..n : k - 1 \in Kept => k \in Kept
    BY <2>2
  <2> HIDE DEF Kept
  <2> QED
    BY <1>1, <2>1, <2>3, EveryPrefix
<1>11. n \in 0..n /\ n >= j
  BY <1>1
<1>12. A(n).best \in Nat /\ A(n).best >= j - i + 1
  BY <1>4, <1>10, <1>11
<1> QED
  BY <1>1, <1>2, <1>12

\* The slices lie one after the other and have no other rows.
LEMMA SlicesAre ==
    /\ TrainEnd \in Nat /\ ValEnd \in Nat /\ Rows \in Nat /\ TrainEnd <= ValEnd /\ ValEnd <= Rows
    /\ RowsOfSlice(1) = TrainEnd /\ RowsOfSlice(2) = ValEnd - TrainEnd
    /\ RowsOfSlice(3) = Rows - ValEnd /\ \A i \in 1..3 : RowsOfSlice(i) \in Nat
<1>1. Rows \in Nat
  BY SplitAssumption DEF SplitAssumption
<1>2. TrainEnd \in Nat /\ ValEnd \in Nat /\ TrainEnd <= ValEnd /\ ValEnd <= Rows
  BY <1>1 DEF TrainEnd, ValEnd
<1>3. /\ RowsOfSlice(1) = TrainEnd /\ RowsOfSlice(2) = ValEnd - TrainEnd
      /\ RowsOfSlice(3) = Rows - ValEnd
  BY DEF RowsOfSlice
<1> QED
  BY <1>1, <1>2, <1>3

\* What is known of a slice that the evaluation has gone past.
Kept(s) == IF evaluated = "v8" THEN ~(WorstRow(s) <= -3) ELSE ~(MaxConsecutiveLosing(s) > MaxStreak)
SliceTyped(i) == returns[i] \in Seq(-3..4) /\ Len(returns[i]) = RowsOfSlice(i)
SlicePassed(i) ==
    /\ Kept(returns[i])
    /\ i = 1 => SumSeq(returns[i]) >= 0
    /\ i \in 2..3 => SumSeq(returns[i]) > 0
    /\ i = 1 /\ evaluated = "v9" => TotalReturn(returns[i]) > gates[i].benchmark
    /\ i = 3 => TotalReturn(returns[i]) >= gates[i].benchmark - FivePoints

SplitInv ==
    /\ evaluated \in {"none", "v8", "v9"} /\ slice \in 1..4
    /\ verdict \in {"", "KILL", "PROMOTE"}
    /\ verdict = "" => slice # 4
    /\ verdict = "PROMOTE" => slice = 4 /\ StepsDown(Ledger) < 5
    /\ returns \in Seq(Seq(-3..4)) /\ Len(returns) = slice - 1
    /\ Len(gates) = slice - 1 /\ \E S : gates \in Seq(S)
    /\ \A i \in 1..slice - 1 : SliceTyped(i)
    /\ verdict # "KILL" => \A i \in 1..slice - 1 : SlicePassed(i)

\* A slice whose gates passed made or lost what the gates say.
LEMMA PassedGates ==
    ASSUME NEW i \in 1..3, NEW s \in Seq(-3..4), NEW b \in Int,
           ~AlwaysKill(s, FlattenSeq(returns) \o s), GatePassed(i, s, b)
    PROVE  /\ Kept(s) /\ ~(StepsDown(FlattenSeq(returns) \o s) >= 5)
           /\ i = 1 => SumSeq(s) >= 0
           /\ i \in 2..3 => SumSeq(s) > 0
           /\ i = 1 /\ evaluated = "v9" => TotalReturn(s) > b
           /\ i = 3 => TotalReturn(s) >= b - FivePoints
<1>1. SumSeq(s) \in Int
  BY LargerSeq, SumType
<1>2. Kept(s) /\ ~(StepsDown(FlattenSeq(returns) \o s) >= 5)
  BY Zenon DEF AlwaysKill, EquityCurve, Kept
<1>3. i = 1 => ~TrainKill(s) /\ TrainContinue(s, b)
  BY DEF GatePassed
<1>4. i = 2 => ValidationContinue(s)
  BY DEF GatePassed
<1>5. i = 3 => HoldoutContinue(s, b)
  BY DEF GatePassed
<1>6. ~TrainKill(s) => ~(SumSeq(s) < 0)
  BY Zenon DEF TrainKill
<1>7. ValidationContinue(s) => SumSeq(s) > 0
  BY Zenon DEF ValidationContinue
<1>8. HoldoutContinue(s, b) => SumSeq(s) > 0 /\ TotalReturn(s) >= b - FivePoints
  BY Zenon DEF HoldoutContinue
<1>11. TrainContinue(s, b) /\ evaluated = "v9" => TotalReturn(s) > b
  <2>1. evaluated = "v9" => evaluated # "v8"
    OBVIOUS
  <2> QED
    BY <2>1, Zenon DEF TrainContinue
<1>9. i \in 2..3 => i = 2 \/ i = 3
  OBVIOUS
<1>10. ~(SumSeq(s) < 0) => SumSeq(s) >= 0
  BY <1>1
<1> QED
  BY <1>2, <1>3, <1>4, <1>5, <1>6, <1>7, <1>8, <1>9, <1>10, <1>11, Zenon

\* The invariant of the evaluation, at the start.
LEMMA SplitStarts ==
    ASSUME evaluated \in {"none", "v8", "v9"}, SplitStart
    PROVE  SplitInv
<1>1. slice = 1 /\ returns = <<>> /\ gates = <<>>
  BY Zenon DEF SplitStart
<1>2. /\ Len(returns) = slice - 1 /\ Len(gates) = slice - 1
      /\ returns \in Seq(Seq(-3..4)) /\ gates \in Seq({})
  BY <1>1
<1>3. \A i \in 1..slice - 1 : FALSE
  BY <1>1
<1>4. slice \in 1..4 /\ slice # 4
  BY <1>1
<1>5. verdict = ""
  BY Zenon DEF SplitStart
<1>6. verdict \in {"", "KILL", "PROMOTE"} /\ verdict # "PROMOTE"
  BY <1>5
<1> QED
  BY <1>2, <1>3, <1>4, <1>6, Zenon DEF SplitInv

\* The gates of a slice keep it.
LEMMA SplitKept ==
    ASSUME SplitInv, SplitNext
    PROVE  SplitInv'
<1>1. PICK s \in [1..RowsOfSlice(slice) -> Steps], b \in SeenBenchmarks : EvaluateSlice(s, b)
  BY Zenon DEF SplitNext
<1>2. /\ evaluated \in {"v8", "v9"} /\ verdict = "" /\ slice \in 1..3
      /\ returns \in Seq(Seq(-3..4)) /\ Len(returns) = slice - 1 /\ Len(gates) = slice - 1
      /\ \A i \in 1..slice - 1 : SliceTyped(i) /\ SlicePassed(i)
  <2>1. /\ evaluated \in {"none", "v8", "v9"} /\ slice \in 1..4
        /\ verdict = "" => slice # 4
        /\ returns \in Seq(Seq(-3..4)) /\ Len(returns) = slice - 1 /\ Len(gates) = slice - 1
        /\ \A i \in 1..slice - 1 : SliceTyped(i)
        /\ verdict # "KILL" => \A i \in 1..slice - 1 : SlicePassed(i)
    BY Zenon DEF SplitInv
  <2>2. evaluated # "none" /\ verdict = ""
    BY Zenon DEF SplitNext
  <2>3. evaluated \in {"v8", "v9"} /\ verdict # "KILL" /\ slice # 4
    BY <2>1, <2>2
  <2>4. slice \in 1..3
    <3>1. \A n \in 1..4 : n # 4 => n \in 1..3
      OBVIOUS
    <3> QED
      BY <2>1, <2>3, <3>1, Zenon
  <2> QED
    BY <2>1, <2>2, <2>3, <2>4, Zenon
<1>3. PICK S : gates \in Seq(S)
  BY Zenon DEF SplitInv
<1>4. /\ s \in Seq(-3..4) /\ Len(s) = RowsOfSlice(slice) /\ b \in Int
  <2>1. Steps \subseteq -3..4 /\ SeenBenchmarks \subseteq Int
    <3>1. /\ DailySteps \subseteq -3..4 /\ MonthlySteps \subseteq -3..4
          /\ Benchmarks \subseteq Int /\ {0} \subseteq Int
      BY SplitAssumption DEF SplitAssumption
    <3> QED
      BY <3>1, Zenon DEF Steps, SeenBenchmarks
  <2>2. PICK n \in Nat : n = RowsOfSlice(slice)
    BY <1>2, SlicesAre
  <2>3. s \in [1..n -> -3..4]
    BY <2>1, <2>2
  <2> QED
    BY <2>1, <2>2, <2>3, FunctionIsSeq
<1> DEFINE so_far == FlattenSeq(returns) \o s
           ok == ~AlwaysKill(s, so_far) /\ GatePassed(slice, s, b)
<1>5. PICK g : g.benchmark = b /\ gates' = Append(gates, g)
  <2>1. \A x, y, z : [slice |-> x, gate |-> y, passed |-> z, benchmark |-> b].benchmark = b
    OBVIOUS
  <2> QED
    BY <1>1, <2>1, Zenon DEF EvaluateSlice
<1>6. /\ returns' = Append(returns, s) /\ slice' = slice + 1 /\ evaluated' = evaluated
      /\ verdict' = IF ~ok THEN "KILL" ELSE IF slice = 3 THEN "PROMOTE" ELSE ""
  BY <1>1, Zenon DEF EvaluateSlice
<1>7. PICK n \in 1..3 : n = slice
  BY <1>2
<1>8. /\ returns' \in Seq(Seq(-3..4)) /\ Len(returns') = n /\ returns'[n] = s
      /\ \A i \in 1..n - 1 : returns'[i] = returns[i]
  <2>1. returns \in Seq(Seq(-3..4)) /\ Len(returns) = n - 1
    BY <1>2, <1>7, Zenon
  <2>2. returns' = Append(returns, s) /\ s \in Seq(-3..4)
    BY <1>4, <1>6, Zenon
  <2>3. /\ Append(returns, s) \in Seq(Seq(-3..4)) /\ Len(Append(returns, s)) = n
        /\ Append(returns, s)[n] = s
        /\ \A i \in 1..n - 1 : Append(returns, s)[i] = returns[i]
    BY <2>1, <2>2
  <2> QED
    BY <2>2, <2>3, Zenon
<1>9. /\ gates' \in Seq(S \cup {g}) /\ Len(gates') = n /\ gates'[n] = g
      /\ \A i \in 1..n - 1 : gates'[i] = gates[i]
  <2>1. gates \in Seq(S \cup {g}) /\ g \in S \cup {g}
    BY <1>3
  <2>2. Len(gates) = n - 1 /\ gates' = Append(gates, g)
    BY <1>2, <1>5, <1>7, Zenon
  <2>3. PICK R : R = S \cup {g}
    OBVIOUS
  <2>4. gates \in Seq(R) /\ g \in R
    BY <2>1, <2>3, Zenon
  <2>5. /\ Append(gates, g) \in Seq(R) /\ Len(Append(gates, g)) = n
        /\ Append(gates, g)[n] = g /\ \A i \in 1..n - 1 : Append(gates, g)[i] = gates[i]
    BY <2>2, <2>4
  <2> QED
    BY <2>2, <2>3, <2>5, Zenon
<1>10. slice' = n + 1 /\ slice' - 1 = n /\ slice' \in 1..4
  <2>1. slice' = n + 1
    BY <1>6, <1>7, Zenon
  <2> QED
    BY <2>1
<1> HIDE DEF ok
<1>11. /\ verdict' \in {"", "KILL", "PROMOTE"}
       /\ verdict' # "KILL" => ok
       /\ verdict' = "PROMOTE" => n = 3 /\ ok
       /\ verdict' = "" => n # 3
  <2>1. verdict' = IF ~ok THEN "KILL" ELSE IF n = 3 THEN "PROMOTE" ELSE ""
    BY <1>6, <1>7, Zenon
  <2> QED
    BY <2>1
<1>12. \A i \in 1..n : i = n \/ i \in 1..n - 1
  OBVIOUS
<1>13. \A i \in 1..n : SliceTyped(i)'
  <2>1. \A i \in 1..n - 1 : returns[i] \in Seq(-3..4) /\ Len(returns[i]) = RowsOfSlice(i)
    BY <1>2, <1>7, Zenon DEF SliceTyped
  <2>2. \A i \in 1..n : returns'[i] \in Seq(-3..4) /\ Len(returns'[i]) = RowsOfSlice(i)
    BY <1>4, <1>7, <1>8, <1>12, <2>1, Zenon
  <2> QED
    BY <2>2 DEF SliceTyped, RowsOfSlice
<1>14. ok => /\ Kept(s) /\ ~(StepsDown(so_far) >= 5)
             /\ n = 1 => SumSeq(s) >= 0
             /\ n \in 2..3 => SumSeq(s) > 0
             /\ n = 1 /\ evaluated = "v9" => TotalReturn(s) > b
             /\ n = 3 => TotalReturn(s) >= b - FivePoints
  BY <1>4, <1>7, PassedGates DEF ok
<1>15. \A i \in 1..n : ok => SlicePassed(i)'
  <2>1. \A i \in 1..n - 1 :
            /\ Kept(returns[i])
            /\ i = 1 => SumSeq(returns[i]) >= 0
            /\ i \in 2..3 => SumSeq(returns[i]) > 0
            /\ i = 1 /\ evaluated = "v9" => TotalReturn(returns[i]) > gates[i].benchmark
            /\ i = 3 => TotalReturn(returns[i]) >= gates[i].benchmark - FivePoints
    BY <1>2, <1>7, Zenon DEF SlicePassed
  <2>2. \A i \in 1..n : ok =>
            /\ Kept(returns'[i])
            /\ i = 1 => SumSeq(returns'[i]) >= 0
            /\ i \in 2..3 => SumSeq(returns'[i]) > 0
            /\ i = 1 /\ evaluated = "v9" => TotalReturn(returns'[i]) > gates'[i].benchmark
            /\ i = 3 => TotalReturn(returns'[i]) >= gates'[i].benchmark - FivePoints
    BY <1>5, <1>8, <1>9, <1>12, <1>14, <2>1, Zenon
  <2>3. \A t : Kept(t)' <=> Kept(t)
    BY <1>6, Zenon DEF Kept, WorstRow, MaxConsecutiveLosing
  <2>4. \A i \in 1..n : ok => Kept(returns[i])'
    BY <1>6, <2>2, Zenon DEF Kept, WorstRow, MaxConsecutiveLosing
  <2> QED
    BY <1>6, <2>2, <2>4, Zenon DEF SlicePassed
<1>16. verdict' = "PROMOTE" => StepsDown(Ledger)' < 5
  <2> SUFFICES ASSUME verdict' = "PROMOTE" PROVE StepsDown(Ledger)' < 5
    OBVIOUS
  <2>1. n = 3 /\ ok
    BY <1>11
  <2>2. Len(returns) = 2 /\ Len(returns') = 3
    <3>1. Len(returns) = n - 1 /\ Len(returns') = n
      BY <1>2, <1>7, <1>8, Zenon
    <3> QED
      BY <2>1, <3>1
  <2>3. FlattenSeq(returns') = so_far
    <3>1. returns'[1] = returns[1] /\ returns'[2] = returns[2] /\ returns'[3] = s
      <4>1. 1 \in 1..n - 1 /\ 2 \in 1..n - 1
        BY <2>1
      <4> QED
        BY <1>8, <2>1, <4>1, Zenon
    <3>2. FlattenSeq(returns) = returns[1] \o returns[2]
      BY <2>2, FlattenIs
    <3>3. FlattenSeq(returns') = (returns'[1] \o returns'[2]) \o returns'[3]
      BY <2>2, FlattenIs
    <3> QED
      BY <3>1, <3>2, <3>3, Zenon
  <2>4. so_far \in Seq(Int)
    <3>1. returns[1] \in Seq(-3..4) /\ returns[2] \in Seq(-3..4)
      <4>1. returns \in Seq(Seq(-3..4))
        BY <1>2
      <4>2. 1 \in DOMAIN returns /\ 2 \in DOMAIN returns
        BY <2>2, <4>1
      <4> QED
        BY <4>1, <4>2, MembersOf
    <3>2. FlattenSeq(returns) = returns[1] \o returns[2]
      BY <2>2, FlattenIs
    <3>3. so_far \in Seq(-3..4)
      <4>1. \A x, y, z \in Seq(-3..4) : (x \o y) \o z \in Seq(-3..4)
        OBVIOUS
      <4> QED
        BY <1>4, <3>1, <3>2, <4>1, Zenon
    <3> QED
      BY <3>3, LargerSeq
  <2>5. DeepestDrawdown(so_far) \in Int
    BY <2>4, DeepestIs
  <2>6. StepsDown(so_far) < 5
    BY <1>14, <2>1, <2>5 DEF StepsDown
  <2> QED
    BY <2>3, <2>6, Zenon DEF Ledger, StepsDown
<1> QED
  <2>1. verdict' = "" => slice' # 4
    <3>1. n # 3 => n + 1 # 4
      OBVIOUS
    <3> QED
      BY <1>10, <1>11, <3>1, Zenon
  <2>2. verdict' = "PROMOTE" => slice' = 4
    <3>1. n = 3 => n + 1 = 4
      OBVIOUS
    <3> QED
      BY <1>10, <1>11, <3>1, Zenon
  <2>3. evaluated' \in {"none", "v8", "v9"}
    BY <1>2, <1>6
  <2>4. /\ slice' - 1 = n /\ slice' \in 1..4
        /\ returns' \in Seq(Seq(-3..4)) /\ Len(returns') = n /\ Len(gates') = n
    BY <1>8, <1>9, <1>10, Zenon
  <2>7. verdict' \in {"", "KILL", "PROMOTE"} /\ (verdict' # "KILL" => ok)
    BY <1>11, Zenon
  <2>6. \E Q : gates' \in Seq(Q)
    BY <1>9, Zenon
  <2>5. /\ Len(returns') = slice' - 1 /\ Len(gates') = slice' - 1
        /\ \A i \in 1..slice' - 1 : SliceTyped(i)'
        /\ verdict' # "KILL" => \A i \in 1..slice' - 1 : SlicePassed(i)'
    BY <1>13, <1>15, <2>4, <2>7, Zenon
  <2> QED
    BY <1>16, <2>1, <2>2, <2>3, <2>4, <2>5, <2>6, <2>7, Zenon DEF SplitInv

\* Steps of return are numbers.
LEMMA StepsAreNumbers ==
    ASSUME NEW s \in Seq(-3..4)
    PROVE  s \in Seq(Int)
<1>1. -3..4 \subseteq Int
  OBVIOUS
<1> QED
  BY <1>1, LargerSeq

\* Every row of a slice that was kept is above the worst one that the rules allow.
LEMMA NoWorseDay ==
    ASSUME NEW s \in Seq(-3..4), Kept(s), evaluated = "v8"
    PROVE  \A i \in 1..Len(s) : s[i] > -3
<1> SUFFICES ASSUME NEW i \in 1..Len(s) PROVE s[i] > -3
  OBVIOUS
<1>1. ~(WorstRow(s) <= -3)
  BY Zenon DEF Kept
<1> DEFINE S == ToSet(s)
<1>2. \A k \in 1..Len(s) : s[k] \in Int /\ -3 <= s[k] /\ s[k] \in S
  BY DEF ToSet
<1>3. S \in SUBSET Int /\ S # {} /\ -3 \in Int /\ \A x \in S : -3 <= x
  <2>1. \A x \in S : \E k \in 1..Len(s) : x = s[k]
    BY DEF ToSet
  <2> HIDE DEF S
  <2> QED
    BY <1>2, <2>1
<1>4. WorstRow(s) = Min(S)
  BY DEF WorstRow
<1> HIDE DEF S
<1>5. Min(S) \in S /\ \A x \in S : Min(S) <= x
  BY <1>3, MinIn
<1>6. Min(S) \in Int /\ Min(S) <= s[i]
  BY <1>2, <1>3, <1>5
<1> QED
  BY <1>1, <1>2, <1>4, <1>6

\* No run of losses of a slice that was kept is longer than the limit.
LEMMA NoLongRun ==
    ASSUME NEW s \in Seq(-3..4), Kept(s), evaluated = "v9",
           NEW i \in 1..Len(s), NEW j \in i..Len(s), \A k \in i..j : s[k] < 0
    PROVE  ~(j - i + 1 > MaxStreak)
<1>1. ~(MaxConsecutiveLosing(s) > MaxStreak)
  <2>1. evaluated # "v8"
    OBVIOUS
  <2> QED
    BY <2>1, Zenon DEF Kept
<1>2. s \in Seq(Int)
  BY LargerSeq
<1>3. MaxConsecutiveLosing(s) \in Nat /\ j - i + 1 <= MaxConsecutiveLosing(s)
  BY <1>2, LongestRun
<1>4. MaxStreak \in Nat
  BY SplitAssumption DEF SplitAssumption
<1> QED
  BY <1>1, <1>3, <1>4

\* The ledger u is the slices r, s and t, one after the other.
LaidOut(u, r, s, t) ==
    /\ u \in Seq(-3..4) /\ DOMAIN u = 1..Rows /\ Len(u) = Rows
    /\ \A k \in 1..TrainEnd : u[k] = r[k]
    /\ \A k \in TrainEnd + 1..ValEnd : u[k] = s[k - TrainEnd]
    /\ \A k \in ValEnd + 1..Rows : u[k] = t[k - ValEnd]
    /\ SumSeq(u) = (SumSeq(r) + SumSeq(s)) + SumSeq(t)

\* The rows of the ledger are those of its slices.
LEMMA LedgerIs ==
    ASSUME NEW r, NEW s, NEW t, r \in Seq(-3..4), s \in Seq(-3..4), t \in Seq(-3..4),
           Len(r) = TrainEnd, Len(s) = ValEnd - TrainEnd, Len(t) = Rows - ValEnd,
           NEW u, u = (r \o s) \o t
    PROVE  LaidOut(u, r, s, t)
<1>1. TrainEnd \in Nat /\ ValEnd \in Nat /\ Rows \in Nat /\ TrainEnd <= ValEnd /\ ValEnd <= Rows
  BY SlicesAre
<1>2. PICK v : v = r \o s
  OBVIOUS
<1>3. PICK n, m, q \in Nat : n = Len(r) /\ m = Len(s) /\ q = Len(t)
  OBVIOUS
<1>4. /\ v \in Seq(-3..4) /\ Len(v) = n + m
      /\ \A i \in 1..n : v[i] = r[i]
      /\ \A i \in 1..m : v[n + i] = s[i]
  <2>1. Joined(-3..4, n, m, v, r, s)
    BY <1>2, <1>3, ConcatIs
  <2> QED
    BY <2>1, Zenon DEF Joined
<1>5. n + m \in Nat /\ n = TrainEnd /\ n + m = ValEnd /\ (n + m) + q = Rows
  BY <1>1, <1>3
<1>6. /\ u \in Seq(-3..4) /\ DOMAIN u = 1..(n + m) + q /\ Len(u) = (n + m) + q
      /\ \A i \in 1..n + m : u[i] = v[i]
      /\ \A i \in 1..q : u[(n + m) + i] = t[i]
  <2>1. u = v \o t
    BY <1>2
  <2>2. PICK w \in Nat : w = n + m
    BY <1>5
  <2>3. v \in Seq(-3..4) /\ w = Len(v) /\ q = Len(t)
    BY <1>3, <1>4, <2>2
  <2>4. Joined(-3..4, w, q, u, v, t)
    BY <2>1, <2>3, ConcatIs
  <2> QED
    BY <2>2, <2>4, Zenon DEF Joined
<1>7. \A k \in 1..TrainEnd : u[k] = r[k]
  BY <1>4, <1>5, <1>6
<1>8. \A k \in TrainEnd + 1..ValEnd : u[k] = s[k - TrainEnd]
  <2> SUFFICES ASSUME NEW k \in TrainEnd + 1..ValEnd PROVE u[k] = s[k - TrainEnd]
    OBVIOUS
  <2>1. k - n \in 1..m /\ n + (k - n) = k /\ k \in 1..n + m
    BY <1>1, <1>5
  <2> QED
    BY <1>4, <1>5, <1>6, <2>1
<1>9. \A k \in ValEnd + 1..Rows : u[k] = t[k - ValEnd]
  <2> SUFFICES ASSUME NEW k \in ValEnd + 1..Rows PROVE u[k] = t[k - ValEnd]
    OBVIOUS
  <2>1. k - (n + m) \in 1..q /\ (n + m) + (k - (n + m)) = k
    BY <1>1, <1>5
  <2> QED
    BY <1>5, <1>6, <2>1
<1>10. SumSeq(u) = (SumSeq(r) + SumSeq(s)) + SumSeq(t)
  <2>1. r \in Seq(Int) /\ s \in Seq(Int) /\ t \in Seq(Int) /\ v \in Seq(Int)
    BY <1>4, StepsAreNumbers, Zenon
  <2>2. SumSeq(v) = SumSeq(r) + SumSeq(s)
    BY <1>2, <2>1, SumConcat
  <2>3. SumSeq(v \o t) = SumSeq(v) + SumSeq(t)
    BY <2>1, SumConcat
  <2> QED
    BY <1>2, <2>2, <2>3, Zenon
<1>11. u \in Seq(-3..4) /\ DOMAIN u = 1..Rows /\ Len(u) = Rows
  BY <1>5, <1>6, Zenon
<1> QED
  BY <1>7, <1>8, <1>9, <1>10, <1>11, Zenon DEF LaidOut

\* The losing run from i to j, in a slice of the ledger that starts after row a.
LEMMA RunOfSlice ==
    ASSUME NEW u \in Seq(-3..4), NEW s \in Seq(-3..4), Kept(s), evaluated = "v9",
           NEW a \in Nat, NEW e \in Nat, Len(s) = e - a,
           \A k \in a + 1..e : u[k] = s[k - a],
           NEW i \in Nat, NEW j \in Nat, a + 1 <= i, i <= j, j <= e,
           \A k \in i..j : u[k] < 0
    PROVE  ~(j - i + 1 > MaxStreak)
<1> DEFINE p == i - a
           q == j - a
<1>1. p \in 1..Len(s) /\ q \in p..Len(s) /\ q - p + 1 = j - i + 1
  OBVIOUS
<1>2. ASSUME NEW k \in p..q PROVE s[k] < 0
  <2>1. k + a \in i..j /\ k + a \in a + 1..e /\ (k + a) - a = k
    OBVIOUS
  <2> QED
    BY <2>1
<1> HIDE DEF p, q
<1>3. \A k \in p..q : s[k] < 0
  BY <1>2
<1>4. ~(q - p + 1 > MaxStreak)
  BY <1>1, <1>3, NoLongRun
<1> QED
  BY <1>1, <1>4, Zenon

\* What the invariant says of a promoted strategy.
LEMMA PromotedIsRight ==
    ASSUME SplitInv, verdict = "PROMOTE"
    PROVE  PromotionRight
<1>1. /\ slice = 4 /\ StepsDown(Ledger) < 5
      /\ returns \in Seq(Seq(-3..4)) /\ Len(returns) = slice - 1
      /\ \A i \in 1..slice - 1 : SliceTyped(i)
      /\ \A i \in 1..slice - 1 : SlicePassed(i)
  <2>1. verdict # "KILL"
    OBVIOUS
  <2> QED
    BY <2>1, Zenon DEF SplitInv
<1>2. Len(returns) = 3 /\ 1 \in 1..slice - 1 /\ 2 \in 1..slice - 1 /\ 3 \in 1..slice - 1
  BY <1>1
<1>3. PICK r, s, t, u : /\ r = returns[1] /\ s = returns[2] /\ t = returns[3]
                        /\ u = (r \o s) \o t
  OBVIOUS
<1>4. Ledger = u
  BY <1>2, <1>3, FlattenIs DEF Ledger
<1>5. /\ r \in Seq(-3..4) /\ s \in Seq(-3..4) /\ t \in Seq(-3..4)
      /\ Len(r) = RowsOfSlice(1) /\ Len(s) = RowsOfSlice(2) /\ Len(t) = RowsOfSlice(3)
  BY <1>1, <1>2, <1>3, Zenon DEF SliceTyped
<1>6. /\ TrainEnd \in Nat /\ ValEnd \in Nat /\ Rows \in Nat /\ TrainEnd <= ValEnd /\ ValEnd <= Rows
      /\ Len(r) = TrainEnd /\ Len(s) = ValEnd - TrainEnd /\ Len(t) = Rows - ValEnd
  BY <1>5, SlicesAre, Zenon
<1>7. /\ u \in Seq(-3..4) /\ DOMAIN u = 1..Rows /\ Len(u) = Rows
      /\ \A k \in 1..TrainEnd : u[k] = r[k]
      /\ \A k \in TrainEnd + 1..ValEnd : u[k] = s[k - TrainEnd]
      /\ \A k \in ValEnd + 1..Rows : u[k] = t[k - ValEnd]
      /\ SumSeq(u) = (SumSeq(r) + SumSeq(s)) + SumSeq(t)
  <2>1. LaidOut(u, r, s, t)
    BY <1>3, <1>5, <1>6, LedgerIs
  <2> QED
    BY <2>1, Zenon DEF LaidOut
<1>8. Kept(r) /\ Kept(s) /\ Kept(t)
  BY <1>1, <1>2, <1>3, Zenon DEF SlicePassed
<1>9. /\ SumSeq(r) >= 0 /\ SumSeq(s) > 0 /\ SumSeq(t) > 0
      /\ evaluated = "v9" => TotalReturn(r) > gates[1].benchmark
      /\ TotalReturn(t) >= gates[3].benchmark - FivePoints
  <2>1. 2 \in 2..3 /\ 3 \in 2..3
    OBVIOUS
  <2> QED
    BY <1>1, <1>2, <1>3, <2>1, Zenon DEF SlicePassed
<1>10. SumSeq(u) > 0
  <2>1. SumSeq(r) \in Int /\ SumSeq(s) \in Int /\ SumSeq(t) \in Int
    BY <1>5, StepsAreNumbers, SumType
  <2> QED
    BY <1>7, <1>9, <2>1
<1>11. \A i, j \in DOMAIN u : i < j => SumSeq(SubSeq(u, i + 1, j)) > -5
  <2> SUFFICES ASSUME NEW i \in 1..Len(u), NEW j \in 1..Len(u), i < j
               PROVE  SumSeq(SubSeq(u, i + 1, j)) > -5
    BY <1>7
  <2>1. u \in Seq(Int)
    BY <1>7, StepsAreNumbers
  <2>2. /\ DeepestDrawdown(u) \in Int /\ SumSeq(SubSeq(u, i + 1, j)) \in Int
        /\ DeepestDrawdown(u) <= SumSeq(SubSeq(u, i + 1, j))
    BY <2>1, FallsNoDeeper
  <2>3. -DeepestDrawdown(u) < 5
    BY <1>1, <1>4, Zenon DEF StepsDown
  <2> QED
    BY <2>2, <2>3
<1>12. ASSUME evaluated = "v8" PROVE \A i \in DOMAIN u : u[i] > -3
  <2>1. /\ \A i \in 1..Len(r) : r[i] > -3
        /\ \A i \in 1..Len(s) : s[i] > -3
        /\ \A i \in 1..Len(t) : t[i] > -3
    BY <1>5, <1>8, <1>12, NoWorseDay
  <2>2. ASSUME NEW i \in 1..Rows PROVE u[i] > -3
    <3>1. CASE i \in 1..TrainEnd
      BY <1>6, <1>7, <2>1, <3>1
    <3>2. CASE i \in TrainEnd + 1..ValEnd
      <4>1. i - TrainEnd \in 1..Len(s)
        BY <1>6, <3>2
      <4> QED
        BY <1>7, <2>1, <3>2, <4>1
    <3>3. CASE i \in ValEnd + 1..Rows
      <4>1. i - ValEnd \in 1..Len(t)
        BY <1>6, <3>3
      <4> QED
        BY <1>7, <2>1, <3>3, <4>1
    <3> QED
      BY <1>6, <3>1, <3>2, <3>3
  <2> QED
    BY <1>7, <2>2
<1>13. ASSUME evaluated = "v9", NEW i \in DOMAIN u, NEW j \in DOMAIN u, i <= j,
              \A k \in i..j : u[k] < 0, Within(i, j)
       PROVE  ~(j - i + 1 > MaxStreak)
  <2>1. i \in Nat /\ j \in Nat /\ 1 <= i /\ j <= Rows
    BY <1>6, <1>7
  <2>2. \/ 1 <= i /\ j <= TrainEnd
        \/ TrainEnd + 1 <= i /\ j <= ValEnd
        \/ ValEnd + 1 <= i /\ j <= Rows
    BY <1>13 DEF Within
  <2>3. CASE 1 <= i /\ j <= TrainEnd
    <3>1. \A k \in 0 + 1..TrainEnd : u[k] = r[k - 0]
      BY <1>6, <1>7
    <3>2. 0 + 1 <= i /\ 0 \in Nat /\ Len(r) = TrainEnd - 0
      BY <1>6, <2>3
    <3> QED
      BY <1>5, <1>6, <1>7, <1>8, <1>13, <2>1, <2>3, <3>1, <3>2, RunOfSlice
  <2>4. CASE TrainEnd + 1 <= i /\ j <= ValEnd
    BY <1>5, <1>6, <1>7, <1>8, <1>13, <2>1, <2>4, RunOfSlice
  <2>5. CASE ValEnd + 1 <= i /\ j <= Rows
    BY <1>5, <1>6, <1>7, <1>8, <1>13, <2>1, <2>5, RunOfSlice
  <2> QED
    BY <2>2, <2>3, <2>4, <2>5
<1>14. evaluated = "v9" => \A i, j \in DOMAIN u :
            i <= j /\ (\A k \in i..j : u[k] < 0) /\ j - i + 1 > MaxStreak => ~Within(i, j)
  BY <1>13, Zenon
<1>15. /\ SumSeq(Ledger) > 0
       /\ TotalReturn(returns[3]) >= gates[3].benchmark - FivePoints
       /\ evaluated = "v9" => TotalReturn(returns[1]) > gates[1].benchmark
  BY <1>3, <1>4, <1>9, <1>10, Zenon
<1>16. \A i, j \in DOMAIN Ledger : i < j => SumSeq(SubSeq(Ledger, i + 1, j)) > -5
  BY <1>4, <1>11, Zenon
<1>17. evaluated = "v8" => \A i \in DOMAIN Ledger : Ledger[i] > -3
  BY <1>4, <1>12, Zenon
<1>18. evaluated = "v9" => \A i, j \in DOMAIN Ledger :
            i <= j /\ LosingRun(i, j) /\ j - i + 1 > MaxStreak => ~Within(i, j)
  <2>1. \A i, j : LosingRun(i, j) <=> \A k \in i..j : u[k] < 0
    BY <1>4, Zenon DEF LosingRun
  <2> QED
    BY <1>4, <1>14, <2>1, Zenon
<1> QED
  BY <1>15, <1>16, <1>17, <1>18, Zenon DEF PromotionRight

\* PromotionRight, of the evaluations of both strategies, for every length of the ledger,
\* all returns and benchmarks, and every limit to a losing streak: the gates, which look at
\* one slice or at the ledger so far, say together what a promoted ledger is like.  Its
\* holdout may be behind the benchmark, by five points of return and no more.
THEOREM PromotionIsRight == SplitSpec => []PromotionRight
<1>1. SplitInit => SplitInv
  <2>1. SplitInit => evaluated \in {"none", "v8", "v9"} /\ SplitStart
    BY DEF SplitInit
  <2> QED
    BY <2>1, SplitStarts
<1>2. SplitInv /\ [SplitNext]_splitGates => SplitInv'
  <2>1. SplitInv /\ SplitNext => SplitInv'
    BY SplitKept
  <2>2. SplitInv /\ UNCHANGED splitGates => SplitInv'
    BY Zenon DEF SplitInv, splitGates, SliceTyped, SlicePassed, Kept, Ledger, StepsDown,
       WorstRow, MaxConsecutiveLosing, RowsOfSlice
  <2> QED
    BY <2>1, <2>2
<1>3. SplitInv => PromotionRight
  <2>1. verdict # "PROMOTE" => PromotionRight
    BY DEF PromotionRight
  <2> QED
    BY <2>1, PromotedIsRight
<1> QED
  BY <1>1, <1>2, <1>3, PTL DEF SplitSpec
=======================================================================
