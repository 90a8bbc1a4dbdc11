---------------------------- MODULE VolCarry ----------------------------
(***************************************************************************)
(* The daily volatility carry simulation (sim_vol_carry): in the position  *)
(* while the term structure was in contango the day before, suspended for  *)
(* the month once it has lost too much.  Net asset values are logarithms,  *)
(* so that returns add up; the cost of a flip is one unit.                 *)
(***************************************************************************)
EXTENDS Integers, FiniteSets, SequencesExt

CONSTANTS
    CarryMonth,     \* the month of each day
    CarryMoves,     \* what a day may return
    MonthlyMaxLoss  \* monthly_max_loss_pct, as a positive number

ASSUME VolCarryAssumption ==
    /\ CarryMonth \in Seq(Nat \ {0})
    /\ \A i, j \in DOMAIN CarryMonth : i < j => CarryMonth[i] <= CarryMonth[j]
    /\ CarryMoves \subseteq Int /\ MonthlyMaxLoss \in Nat \ {0}

VARIABLES
    carryDay,   \* i
    priorRatio, \* the class of the ratio of the day before; "unknown" on the first
    inPosition, suspended, suspendedUntil,
    monthStart, strategyNav,
    carryRows   \* the ledger

volCarry == <<carryDay, priorRatio, inPosition, suspended, suspendedUntil,
              monthStart, strategyNav, carryRows>>

CarryStart(d) ==
    /\ carryDay = d /\ priorRatio = "unknown" /\ inPosition = FALSE
    /\ suspended = FALSE /\ suspendedUntil = 0 /\ monthStart = 0 /\ strategyNav = 0
    /\ carryRows = <<>>
CarryIdle == CarryStart(Len(CarryMonth) + 1)
CarryInit == CarryStart(1)

NewMonth == carryDay = 1 \/ CarryMonth[carryDay] # CarryMonth[carryDay - 1]
StillSuspended ==
    suspended /\ ~(NewMonth /\ suspendedUntil # 0 /\ CarryMonth[carryDay] > suspendedUntil)
IgnoresSuspension(contango, held) == contango   \* variant: a suspension is not looked at
Target(contango, held) == contango /\ ~held

\* One day: the ratio it closes at counts for the day after; its return is earned by
\* the position of the day before, and a flip is paid for.
SimulateDay(ratio, move) ==
    LET held == StillSuspended
        anchor == IF NewMonth THEN strategyNav ELSE monthStart
        target == Target(priorRatio = "contango", held)
        flip == target # inPosition
        nav == strategyNav + (IF inPosition THEN move ELSE 0) - (IF flip THEN 1 ELSE 0)
        trigger == nav - anchor <= -MonthlyMaxLoss /\ ~held
    IN  /\ carryDay \in DOMAIN CarryMonth
        /\ monthStart' = anchor /\ strategyNav' = nav
        /\ suspended' = (held \/ trigger)
        /\ suspendedUntil' = IF trigger THEN CarryMonth[carryDay] ELSE
                             IF held THEN suspendedUntil ELSE 0
        /\ inPosition' = (target /\ ~trigger)
        /\ priorRatio' = ratio /\ carryDay' = carryDay + 1
        /\ carryRows' = Append(carryRows,
               [ratio |-> ratio, target |-> target, flip |-> flip, earns |-> inPosition,
                held |-> target /\ ~trigger, trigger |-> trigger, dd |-> nav - anchor])

CarryNext ==
    \E ratio \in {"contango", "gray", "backwardation"}, move \in CarryMoves :
        SimulateDay(ratio, move)

-------------------------------------------------------------------------
\* A month loses no more than the limit, a day and a flip: nothing is earned or paid
\* while suspended.  A day earns only if the ratio was in contango two days before, and
\* no suspension came between.  A flip is paid for exactly when the position changes, but
\* on the day of a suspension that had a target: leaving the position is then free, and
\* an entry undone is not.
WorstDay == CHOOSE w \in CarryMoves : \A move \in CarryMoves : w <= move
CarryAccounted ==
    \A i \in DOMAIN carryRows :
        LET row == carryRows[i] IN
        /\ row.dd >= -(MonthlyMaxLoss + 1) + (IF WorstDay < 0 THEN WorstDay ELSE 0)
        /\ row.earns <=>
              i > 2 /\ carryRows[i - 2].ratio = "contango" /\ ~carryRows[i - 1].trigger
                    /\ ~\E j \in 1..i - 2 : carryRows[j].trigger
                                            /\ CarryMonth[j] = CarryMonth[i - 1]
        /\ (row.flip # (row.held # row.earns)) <=> row.trigger /\ row.target
=======================================================================
