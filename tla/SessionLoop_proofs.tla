----------------------- MODULE SessionLoop_proofs -----------------------
(***************************************************************************)
(* Machine-checked facts about SessionLoop, for every calendar, every      *)
(* breaker limit and any number of faults.                                 *)
(***************************************************************************)
EXTENDS SessionLoop, WellFoundedInduction, TLAPS

USE CalendarAssumption, SettingsAssumption DEF CalendarAssumption, SettingsAssumption

(***************************************************************************)
(* The inductive invariant                                                 *)
(***************************************************************************)

\* A session, and the back-off after it, belong to the current date.
SessionIsToday ==
    pc \in InSession \cup {"backoff"} =>
        target = day /\ target \in TradingDays /\ target \in attended

\* The process waits for the first session that is not over, and until it is
\* told to stop it does not wait through it.
WaitsInTime ==
    pc = "wait" =>
        /\ \A d \in TradingDays : ~Over(d) => target <= d
        /\ ~stop => ~Over(target)

\* What the current month had realised when the gate was read.
SumAtGate == SumOf(EndedIn(MonthOf[day]) \ repaired)

\* After the gate was read and found open, that is not negative.
GateWasRead == pc = "enter" /\ MonthlyStop /\ ~gate => ~(SumAtGate < 0)

\* The count is that of the errors at the end of the remembered outcomes.
ErrorsCounted ==
    /\ Len(outcomes) <= MaxConsecutive
    /\ errors <= Len(outcomes)
    /\ \A i \in 0 .. errors - 1 : outcomes[Len(outcomes) - i] = "error"
    /\ errors < Len(outcomes) => outcomes[Len(outcomes) - errors] = "ok"
    /\ pc = "gaveup" => errors = MaxConsecutive

\* What the operator settled had been reported, and stays settled.
RepairedRowsEnded ==
    /\ repaired \subseteq reported
    /\ \A d \in repaired : rows[d].status = "SETTLED"

IInv ==
    /\ TypeOK
    /\ SessionIsToday
    /\ WaitsInTime
    /\ GateWasRead
    /\ ErrorsCounted
    /\ RepairedRowsEnded
    /\ scanned <= day
    /\ StaleRowsReported

(***************************************************************************)
(* The operators                                                           *)
(***************************************************************************)

\* A set of natural numbers has a least element.
LEMMA LeastNatural ==
    ASSUME NEW S, S \subseteq Nat, S # {}
    PROVE  \E x \in S : \A y \in S : x <= y
<1> DEFINE less == {ss \in Nat \X Nat : ss[1] < ss[2]}
<1>1. IsWellFoundedOn(less, Nat)
  BY NatLessThanWellFounded, Zenon DEF OpToRel
<1>2. PICK x \in S : \A y \in S : <<y, x>> \notin less
  <2> HIDE DEF less
  <2> QED BY <1>1, WFMin
<1>3. \A y \in S : x <= y
  <2> SUFFICES ASSUME NEW y \in S PROVE x <= y
    OBVIOUS
  <2>1. x \in Nat /\ y \in Nat
    OBVIOUS
  <2>2. ~(y < x)
    BY <1>2, <2>1
  <2> QED BY <2>1, <2>2
<1> QED BY <1>3

\* The next entry day is the first day of the calendar that is not over, or
\* the day after the calendar.
LEMMA NextEntryDayIsFirst ==
    ASSUME TypeOK
    PROVE  /\ NextEntryDay \in TradingDays \cup {NoDay}
           /\ \A d \in TradingDays : ~Over(d) => NextEntryDay <= d
           /\ ~Over(NextEntryDay)
<1> DEFINE ds == {d \in TradingDays : ~Over(d)}
<1>1. CASE ds = {}
  BY <1>1 DEF NextEntryDay, First, NoDay, TypeOK, Over, Days
<1>2. CASE ds # {}
  <2>1. ds \subseteq Nat
    <3>1. Days \subseteq Nat
      BY DEF Days
    <3> QED BY <3>1, Zenon
  <2>2. PICK d \in ds : \A e \in ds : d <= e
    BY <1>2, <2>1, LeastNatural
  <2>3. First(ds) \in ds /\ \A e \in ds : First(ds) <= e
    BY <1>2, <2>2 DEF First
  <2> QED BY <2>3 DEF NextEntryDay
<1> QED BY <1>1, <1>2

\* The history keeps the last outcome, and of the others at most
\* MaxConsecutive - 1, in their order.
LEMMA Remembered ==
    ASSUME NEW o \in {"ok", "error"}, outcomes \in Seq({"ok", "error"}),
           Len(outcomes) <= MaxConsecutive, Remember(o)
    PROVE  /\ outcomes' \in Seq({"ok", "error"})
           /\ Len(outcomes') = IF Len(outcomes) < MaxConsecutive
                               THEN Len(outcomes) + 1 ELSE MaxConsecutive
           /\ outcomes'[Len(outcomes')] = o
           /\ \A i \in 0 .. Len(outcomes') - 2 :
                 outcomes'[Len(outcomes') - 1 - i] = outcomes[Len(outcomes) - i]
<1> DEFINE all == Append(outcomes, o)
<1>1. /\ all \in Seq({"ok", "error"})
      /\ Len(all) = Len(outcomes) + 1 /\ all[Len(all)] = o
      /\ \A i \in 1 .. Len(outcomes) : all[i] = outcomes[i]
  OBVIOUS
<1>2. outcomes' = IF Len(all) > MaxConsecutive THEN Tail(all) ELSE all
  BY DEF Remember
<1>3. CASE Len(all) > MaxConsecutive
  <2>1. outcomes' = Tail(all) /\ Len(outcomes) = MaxConsecutive
    BY <1>1, <1>2, <1>3
  <2>2. /\ outcomes' \in Seq({"ok", "error"}) /\ Len(outcomes') = MaxConsecutive
        /\ \A i \in 1 .. MaxConsecutive : outcomes'[i] = all[i + 1]
    BY <1>1, <2>1
  <2>3. ASSUME NEW i \in 0 .. MaxConsecutive - 2
        PROVE  outcomes'[MaxConsecutive - 1 - i] = outcomes[MaxConsecutive - i]
    <3>1. /\ MaxConsecutive - 1 - i \in 1 .. MaxConsecutive
          /\ MaxConsecutive - i \in 1 .. Len(outcomes)
      BY <2>1
    <3>2. outcomes'[MaxConsecutive - 1 - i] = all[MaxConsecutive - i]
      BY <3>1, <2>2
    <3> QED BY <3>1, <3>2, <1>1
  <2>4. outcomes'[MaxConsecutive] = o
    BY <1>1, <2>1, <2>2
  <2>5. Len(outcomes') = MaxConsecutive /\ outcomes' \in Seq({"ok", "error"})
    BY <2>2
  <2> HIDE DEF all
  <2> QED BY <2>3, <2>4, <2>5, <2>1
<1>4. CASE ~(Len(all) > MaxConsecutive)
  BY <1>1, <1>2, <1>4
<1> QED BY <1>3, <1>4

(***************************************************************************)
(* Types                                                                   *)
(***************************************************************************)

\* The values a row takes, and what an update of one row is.
LEMMA RowTypes ==
    /\ NoRow \in Rows /\ OpenRow \in Rows
    /\ \A p \in Pnls : /\ [status |-> "STOPPED", pnl |-> p] \in Rows
                       /\ [status |-> "SETTLED", pnl |-> p] \in Rows
    /\ \A f \in [Days -> Rows], d \in Days, r \in Rows : [f EXCEPT ![d] = r] \in [Days -> Rows]
BY DEF Rows

\* The initial states satisfy the invariant.
LEMMA InitInvariant == Init => IInv
<1> SUFFICES ASSUME Init PROVE IInv
  OBVIOUS
<1>1. TypeOK
  <2>1. rows \in [Days -> Rows]
    BY RowTypes DEF Init
  <2>2. outcomes \in Seq({"ok", "error"})
    BY DEF Init
  <2>3. /\ day \in Days /\ scanned \in 0 .. Horizon
        /\ errors \in 0 .. MaxConsecutive /\ errors # MaxConsecutive
    BY DEF Init, Days
  <2>4. /\ part \in {"early", "session", "closed"} /\ pc = "connect"
        /\ target = NoDay /\ gate = FALSE /\ stop = FALSE /\ held = FALSE
        /\ reported = {} /\ attended = {} /\ repaired = {} /\ faults \in 0 .. MaxFaults
    BY DEF Init
  <2> HIDE DEF CalendarAssumption, SettingsAssumption
  <2> QED BY <2>1, <2>2, <2>3, <2>4, Zenon DEF TypeOK
<1>2. SessionIsToday /\ WaitsInTime /\ GateWasRead /\ ErrorsCounted
  BY DEF Init, SessionIsToday, WaitsInTime, GateWasRead, ErrorsCounted, InSession
<1>3. scanned <= day /\ StaleRowsReported /\ RepairedRowsEnded
  BY DEF Init, StaleRowsReported, RepairedRowsEnded, NoRow
<1> QED BY <1>1, <1>2, <1>3 DEF IInv

\* Every step keeps the types; the limit of the count is BreakerOpens.
LEMMA TypeStep ==
    ASSUME TypeOK, SessionIsToday, WaitsInTime, ErrorsCounted, [Next]_vars
    PROVE  TypeOK'
<1> USE DEF TypeOK, Days, NoDay, InSession, Dead, clock, store, history
<1>1. CASE Connect
  BY <1>1 DEF Connect
<1>2. CASE ConnectStopped
  BY <1>2 DEF ConnectStopped
<1>3. CASE Leave
  BY <1>3 DEF Leave
<1>4. CASE Backoff
  BY <1>4 DEF Backoff
<1>5. CASE TopOfLoop
  BY <1>5, NextEntryDayIsFirst DEF TopOfLoop
<1>6. CASE EntryTimeReached
  BY <1>6 DEF EntryTimeReached, Due
<1>7. CASE EntrySleepStopped
  BY <1>7, Remembered DEF EntrySleepStopped, SessionReturns, ErrorsCounted, Rows
<1>8. CASE Reconcile
  <2>1. rows' \in [Days -> Rows]
    BY <1>8, RowTypes DEF Reconcile, SessionIsToday
  <2> QED BY <1>8, <2>1 DEF Reconcile
<1>9. CASE EmitStaleOpenSpreads
  <2>1. scanned' \in 0 .. Horizon
    BY <1>9 DEF EmitStaleOpenSpreads, SessionIsToday
  <2>2. StaleOpenSpreads(target) \subseteq Days
    BY DEF StaleOpenSpreads
  <2>3. reported' \subseteq Days
    BY <1>9, <2>2 DEF EmitStaleOpenSpreads
  <2> QED BY <1>9, <2>1, <2>3 DEF EmitStaleOpenSpreads
<1>10. CASE MonthlyGateActive
  BY <1>10 DEF MonthlyGateActive
<1>11. CASE NoEntry
  BY <1>11 DEF NoEntry
<1>12. CASE EntryFills
  BY <1>12 DEF EntryFills
<1>13. CASE RecordOpen
  <2>1. rows' \in [Days -> Rows]
    BY <1>13, RowTypes DEF RecordOpen, SessionIsToday
  <2> QED BY <1>13, <2>1 DEF RecordOpen
<1>14. CASE StopCloses
  <2>1. rows' \in [Days -> Rows]
    <3>1. PICK p \in Pnls : rows' = [rows EXCEPT ![target] = [status |-> "STOPPED", pnl |-> p]]
      BY <1>14 DEF StopCloses
    <3>2. target \in Days
      BY <1>14 DEF StopCloses, SessionIsToday
    <3> QED BY <3>1, <3>2, RowTypes
  <2> QED BY <1>14, <2>1 DEF StopCloses
<1>15. CASE MonitorEnds
  BY <1>15 DEF MonitorEnds
<1>16. CASE CloseReached
  BY <1>16 DEF CloseReached
<1>17. CASE CloseSleepStopped
  BY <1>17, Remembered DEF CloseSleepStopped, SessionReturns, ErrorsCounted, Rows
<1>18. CASE RecordSettlements
  <2>1. rows' \in [Days -> Rows]
    <3>1. PICK ds \in SUBSET ToSettle, p \in Pnls :
             rows' = [d \in Days |-> IF d \in ds THEN [status |-> "SETTLED", pnl |-> p] ELSE rows[d]]
      BY <1>18 DEF RecordSettlements
    <3>2. \A d \in Days : (IF d \in ds THEN [status |-> "SETTLED", pnl |-> p] ELSE rows[d]) \in Rows
      BY RowTypes
    <3> QED BY <3>1, <3>2
  <2>2. outcomes' \in Seq({"ok", "error"}) /\ errors' = 0 /\ pc' = "loop"
    BY <1>18, Remembered DEF RecordSettlements, SessionReturns, ErrorsCounted
  <2> QED BY <1>18, <2>1, <2>2 DEF RecordSettlements
<1>19. CASE ConnectFails
  BY <1>19 DEF ConnectFails
<1>20. CASE SessionRaises
  <2>1. outcomes' \in Seq({"ok", "error"})
    BY <1>20, Remembered DEF SessionRaises, ErrorsCounted
  <2>2. /\ errors' = errors + 1 /\ errors < MaxConsecutive
        /\ pc' = IF errors' >= MaxConsecutive THEN "gaveup" ELSE "backoff"
    BY <1>20 DEF SessionRaises, BreakerOpens
  <2> QED BY <1>20, <2>1, <2>2 DEF SessionRaises
<1>21. CASE ScanFails
  BY <1>21 DEF ScanFails
<1>22. CASE Sigterm
  BY <1>22 DEF Sigterm
<1>23. CASE Crash
  BY <1>23 DEF Crash
<1>24. CASE Restart
  <2>1. outcomes' \in Seq({"ok", "error"})
    BY <1>24 DEF Restart
  <2>2. errors' \in 0 .. MaxConsecutive /\ errors' # MaxConsecutive
    BY <1>24 DEF Restart
  <2>3. /\ UNCHANGED <<day, part, rows, held, reported, attended, scanned, repaired, faults>>
        /\ pc' = "connect" /\ target' = NoDay /\ gate' = FALSE /\ stop' = FALSE
    BY <1>24 DEF Restart
  <2> HIDE DEF CalendarAssumption, SettingsAssumption, Days, NoDay
  <2> QED BY <2>1, <2>2, <2>3, Zenon
<1>25. CASE SettleByHand
  <2>1. PICK d \in reported, p \in Pnls :
           /\ rows' = [rows EXCEPT ![d] = [status |-> "SETTLED", pnl |-> p]]
           /\ repaired' = repaired \cup {d}
    BY <1>25 DEF SettleByHand
  <2>2. rows' \in [Days -> Rows] /\ repaired' \subseteq Days
    BY <2>1, RowTypes
  <2> QED BY <1>25, <2>2 DEF SettleByHand
<1>26. CASE EntryTime
  BY <1>26 DEF EntryTime
<1>27. CASE MarketCloses
  BY <1>27 DEF MarketCloses
<1>28. CASE Midnight
  BY <1>28 DEF Midnight
<1>29. CASE CalendarOver \/ UNCHANGED vars
  BY <1>29 DEF CalendarOver, vars
<1> QED
  BY <1>1, <1>2, <1>3, <1>4, <1>5, <1>6, <1>7, <1>8, <1>9, <1>10,
     <1>11, <1>12, <1>13, <1>14, <1>15, <1>16, <1>17, <1>18, <1>19, <1>20,
     <1>21, <1>22, <1>23, <1>24, <1>25, <1>26, <1>27, <1>28, <1>29 DEF Next, Process, Environment

(***************************************************************************)
(* What a step does to the other parts of the invariant                    *)
(***************************************************************************)

\* A session ends before its date does.
LEMMA TodayStep ==
    ASSUME TypeOK, SessionIsToday, WaitsInTime, [Next]_vars
    PROVE  SessionIsToday'
<1> USE DEF SessionIsToday, InSession, Dead, clock, store, history
<1>1. CASE Connect
  BY <1>1 DEF Connect
<1>2. CASE ConnectStopped
  BY <1>2 DEF ConnectStopped
<1>3. CASE Leave
  BY <1>3 DEF Leave
<1>4. CASE Backoff
  BY <1>4 DEF Backoff
<1>5. CASE TopOfLoop
  BY <1>5 DEF TopOfLoop
<1>6. CASE EntryTimeReached
  BY <1>6 DEF EntryTimeReached, TypeOK, WaitsInTime, Due, Over, NoDay, Days
<1>7. CASE EntrySleepStopped
  BY <1>7 DEF EntrySleepStopped, SessionReturns
<1>8. CASE Reconcile
  BY <1>8 DEF Reconcile
<1>9. CASE EmitStaleOpenSpreads
  BY <1>9 DEF EmitStaleOpenSpreads
<1>10. CASE MonthlyGateActive
  BY <1>10 DEF MonthlyGateActive
<1>11. CASE NoEntry
  BY <1>11 DEF NoEntry
<1>12. CASE EntryFills
  BY <1>12 DEF EntryFills
<1>13. CASE RecordOpen
  BY <1>13 DEF RecordOpen
<1>14. CASE StopCloses
  BY <1>14 DEF StopCloses
<1>15. CASE MonitorEnds
  BY <1>15 DEF MonitorEnds
<1>16. CASE CloseReached
  BY <1>16 DEF CloseReached
<1>17. CASE CloseSleepStopped
  BY <1>17 DEF CloseSleepStopped, SessionReturns
<1>18. CASE RecordSettlements
  BY <1>18 DEF RecordSettlements, SessionReturns
<1>19. CASE ConnectFails
  BY <1>19 DEF ConnectFails
<1>20. CASE SessionRaises
  BY <1>20 DEF SessionRaises, TypeOK
<1>21. CASE ScanFails
  BY <1>21 DEF ScanFails
<1>22. CASE Sigterm
  BY <1>22 DEF Sigterm
<1>23. CASE Crash
  BY <1>23 DEF Crash
<1>24. CASE Restart
  BY <1>24 DEF Restart
<1>25. CASE SettleByHand
  BY <1>25 DEF SettleByHand
<1>26. CASE EntryTime
  BY <1>26 DEF EntryTime
<1>27. CASE MarketCloses
  BY <1>27 DEF MarketCloses
<1>28. CASE Midnight
  BY <1>28 DEF Midnight
<1>29. CASE CalendarOver \/ UNCHANGED vars
  BY <1>29 DEF CalendarOver, vars
<1> QED
  BY <1>1, <1>2, <1>3, <1>4, <1>5, <1>6, <1>7, <1>8, <1>9, <1>10,
     <1>11, <1>12, <1>13, <1>14, <1>15, <1>16, <1>17, <1>18, <1>19, <1>20,
     <1>21, <1>22, <1>23, <1>24, <1>25, <1>26, <1>27, <1>28, <1>29 DEF Next, Process, Environment

\* The wait is for the first session that is not over; no clock runs past it.
LEMMA WaitStep ==
    ASSUME TypeOK, SessionIsToday, WaitsInTime, [Next]_vars
    PROVE  WaitsInTime'
<1> USE DEF WaitsInTime, clock, store, history, Over
<1>1. CASE Connect
  BY <1>1 DEF Connect
<1>2. CASE ConnectStopped
  BY <1>2 DEF ConnectStopped
<1>3. CASE Leave
  BY <1>3 DEF Leave
<1>4. CASE Backoff
  BY <1>4 DEF Backoff
<1>5. CASE TopOfLoop
  BY <1>5, NextEntryDayIsFirst DEF TopOfLoop
<1>6. CASE EntryTimeReached
  BY <1>6 DEF EntryTimeReached
<1>7. CASE EntrySleepStopped
  BY <1>7 DEF EntrySleepStopped, SessionReturns
<1>8. CASE Reconcile
  BY <1>8 DEF Reconcile
<1>9. CASE EmitStaleOpenSpreads
  BY <1>9 DEF EmitStaleOpenSpreads
<1>10. CASE MonthlyGateActive
  BY <1>10 DEF MonthlyGateActive
<1>11. CASE NoEntry
  BY <1>11 DEF NoEntry
<1>12. CASE EntryFills
  BY <1>12 DEF EntryFills
<1>13. CASE RecordOpen
  BY <1>13 DEF RecordOpen
<1>14. CASE StopCloses
  BY <1>14 DEF StopCloses
<1>15. CASE MonitorEnds
  BY <1>15 DEF MonitorEnds
<1>16. CASE CloseReached
  BY <1>16 DEF CloseReached
<1>17. CASE CloseSleepStopped
  BY <1>17 DEF CloseSleepStopped, SessionReturns
<1>18. CASE RecordSettlements
  BY <1>18 DEF RecordSettlements, SessionReturns
<1>19. CASE ConnectFails
  BY <1>19 DEF ConnectFails
<1>20. CASE SessionRaises
  BY <1>20 DEF SessionRaises, TypeOK
<1>21. CASE ScanFails
  BY <1>21 DEF ScanFails
<1>22. CASE Sigterm
  BY <1>22 DEF Sigterm
<1>23. CASE Crash
  BY <1>23 DEF Crash
<1>24. CASE Restart
  BY <1>24 DEF Restart
<1>25. CASE SettleByHand
  BY <1>25 DEF SettleByHand
<1>26. CASE EntryTime
  BY <1>26 DEF EntryTime, Awake, Due, TypeOK, Days, NoDay
<1>27. CASE MarketCloses
  BY <1>27 DEF MarketCloses, Awake, Due, TypeOK, Days, NoDay
<1>28. CASE Midnight
  BY <1>28 DEF Midnight, Awake, Due, TypeOK, Days, NoDay
<1>29. CASE CalendarOver \/ UNCHANGED vars
  BY <1>29 DEF CalendarOver, vars
<1> QED
  BY <1>1, <1>2, <1>3, <1>4, <1>5, <1>6, <1>7, <1>8, <1>9, <1>10,
     <1>11, <1>12, <1>13, <1>14, <1>15, <1>16, <1>17, <1>18, <1>19, <1>20,
     <1>21, <1>22, <1>23, <1>24, <1>25, <1>26, <1>27, <1>28, <1>29 DEF Next, Process, Environment

\* Only the date of a session can become OPEN, and a scan misses no earlier date.
LEMMA StaleStep ==
    ASSUME TypeOK, SessionIsToday, WaitsInTime, scanned <= day, StaleRowsReported, [Next]_vars
    PROVE  scanned' <= day' /\ StaleRowsReported'
<1> USE DEF StaleRowsReported, SessionIsToday, TypeOK, InSession, clock, store, history, Days
<1>1. CASE Connect
  BY <1>1 DEF Connect
<1>2. CASE ConnectStopped
  BY <1>2 DEF ConnectStopped
<1>3. CASE Leave
  BY <1>3 DEF Leave
<1>4. CASE Backoff
  BY <1>4 DEF Backoff
<1>5. CASE TopOfLoop
  BY <1>5 DEF TopOfLoop
<1>6. CASE EntryTimeReached
  BY <1>6 DEF EntryTimeReached
<1>7. CASE EntrySleepStopped
  BY <1>7 DEF EntrySleepStopped, SessionReturns
<1>8. CASE Reconcile
  BY <1>8 DEF Reconcile, OpenRow
<1>9. CASE EmitStaleOpenSpreads
  BY <1>9 DEF EmitStaleOpenSpreads, StaleOpenSpreads
<1>10. CASE MonthlyGateActive
  BY <1>10 DEF MonthlyGateActive
<1>11. CASE NoEntry
  BY <1>11 DEF NoEntry
<1>12. CASE EntryFills
  BY <1>12 DEF EntryFills
<1>13. CASE RecordOpen
  BY <1>13 DEF RecordOpen
<1>14. CASE StopCloses
  BY <1>14 DEF StopCloses
<1>15. CASE MonitorEnds
  BY <1>15 DEF MonitorEnds
<1>16. CASE CloseReached
  BY <1>16 DEF CloseReached
<1>17. CASE CloseSleepStopped
  BY <1>17 DEF CloseSleepStopped, SessionReturns
<1>18. CASE RecordSettlements
  BY <1>18 DEF RecordSettlements, SessionReturns, ToSettle
<1>19. CASE ConnectFails
  BY <1>19 DEF ConnectFails
<1>20. CASE SessionRaises
  BY <1>20 DEF SessionRaises
<1>21. CASE ScanFails
  BY <1>21 DEF ScanFails
<1>22. CASE Sigterm
  BY <1>22 DEF Sigterm
<1>23. CASE Crash
  BY <1>23 DEF Crash
<1>24. CASE Restart
  BY <1>24 DEF Restart
<1>25. CASE SettleByHand
  BY <1>25 DEF SettleByHand
<1>26. CASE EntryTime
  BY <1>26 DEF EntryTime
<1>27. CASE MarketCloses
  BY <1>27 DEF MarketCloses
<1>28. CASE Midnight
  BY <1>28 DEF Midnight
<1>29. CASE CalendarOver \/ UNCHANGED vars
  BY <1>29 DEF CalendarOver, vars
<1> QED
  BY <1>1, <1>2, <1>3, <1>4, <1>5, <1>6, <1>7, <1>8, <1>9, <1>10,
     <1>11, <1>12, <1>13, <1>14, <1>15, <1>16, <1>17, <1>18, <1>19, <1>20,
     <1>21, <1>22, <1>23, <1>24, <1>25, <1>26, <1>27, <1>28, <1>29 DEF Next, Process, Environment

\* The count is that of the trailing errors: a return ends them, a raise adds one.
LEMMA ErrorsStep ==
    ASSUME TypeOK, ErrorsCounted, [Next]_vars
    PROVE  ErrorsCounted'
<1> USE DEF ErrorsCounted, TypeOK, clock, store, history
<1>1. CASE Connect
  BY <1>1 DEF Connect
<1>2. CASE ConnectStopped
  BY <1>2 DEF ConnectStopped
<1>3. CASE Leave
  BY <1>3 DEF Leave
<1>4. CASE Backoff
  BY <1>4 DEF Backoff
<1>5. CASE TopOfLoop
  BY <1>5 DEF TopOfLoop
<1>6. CASE EntryTimeReached
  BY <1>6 DEF EntryTimeReached
<1>7. CASE EntrySleepStopped
  <2>1. /\ errors' = 0 /\ pc' = "loop"
        /\ Len(outcomes') <= MaxConsecutive /\ Len(outcomes') > 0
        /\ outcomes'[Len(outcomes')] = "ok"
    BY <1>7, Remembered DEF EntrySleepStopped, SessionReturns
  <2> QED BY <2>1
<1>8. CASE Reconcile
  BY <1>8 DEF Reconcile
<1>9. CASE EmitStaleOpenSpreads
  BY <1>9 DEF EmitStaleOpenSpreads
<1>10. CASE MonthlyGateActive
  BY <1>10 DEF MonthlyGateActive
<1>11. CASE NoEntry
  BY <1>11 DEF NoEntry
<1>12. CASE EntryFills
  BY <1>12 DEF EntryFills
<1>13. CASE RecordOpen
  BY <1>13 DEF RecordOpen
<1>14. CASE StopCloses
  BY <1>14 DEF StopCloses
<1>15. CASE MonitorEnds
  BY <1>15 DEF MonitorEnds
<1>16. CASE CloseReached
  BY <1>16 DEF CloseReached
<1>17. CASE CloseSleepStopped
  <2>1. /\ errors' = 0 /\ pc' = "loop"
        /\ Len(outcomes') <= MaxConsecutive /\ Len(outcomes') > 0
        /\ outcomes'[Len(outcomes')] = "ok"
    BY <1>17, Remembered DEF CloseSleepStopped, SessionReturns
  <2> QED BY <2>1
<1>18. CASE RecordSettlements
  <2>1. /\ errors' = 0 /\ pc' = "loop"
        /\ Len(outcomes') <= MaxConsecutive /\ Len(outcomes') > 0
        /\ outcomes'[Len(outcomes')] = "ok"
    BY <1>18, Remembered DEF RecordSettlements, SessionReturns
  <2> QED BY <2>1
<1>19. CASE ConnectFails
  BY <1>19 DEF ConnectFails
<1>20. CASE SessionRaises
  <2> DEFINE n == Len(outcomes)
              m == Len(outcomes')
  <2>1. /\ errors' = errors + 1 /\ errors < MaxConsecutive
        /\ pc' = IF errors' >= MaxConsecutive THEN "gaveup" ELSE "backoff"
    BY <1>20 DEF SessionRaises, BreakerOpens
  <2>2. /\ n \in Nat /\ m = (IF n < MaxConsecutive THEN n + 1 ELSE MaxConsecutive)
        /\ outcomes'[m] = "error"
        /\ \A i \in 0 .. m - 2 : outcomes'[m - 1 - i] = outcomes[n - i]
    BY <1>20, Remembered DEF SessionRaises
  <2>3. errors' <= m /\ m <= MaxConsecutive
    BY <2>1, <2>2
  <2>4. ASSUME NEW i \in 0 .. errors' - 1
        PROVE  outcomes'[m - i] = "error"
    <3>1. CASE i = 0
      BY <2>2, <3>1
    <3>2. CASE i > 0
      <4>1. i - 1 \in 0 .. m - 2 /\ i - 1 \in 0 .. errors - 1 /\ m - 1 - (i - 1) = m - i
        BY <2>1, <2>2, <2>3, <3>2
      <4>2. outcomes'[m - 1 - (i - 1)] = outcomes[n - (i - 1)]
        BY <4>1, <2>2
      <4> QED BY <4>1, <4>2
    <3> QED BY <3>1, <3>2
  <2>5. errors' < m => outcomes'[m - errors'] = "ok"
    <3> SUFFICES ASSUME errors' < m PROVE outcomes'[m - errors'] = "ok"
      OBVIOUS
    <3>1. errors \in 0 .. m - 2 /\ errors < n /\ m - 1 - errors = m - errors'
      BY <2>1, <2>2
    <3>2. outcomes'[m - 1 - errors] = outcomes[n - errors]
      BY <3>1, <2>2
    <3> QED BY <3>1, <3>2
  <2>6. pc' = "gaveup" => errors' = MaxConsecutive
    BY <2>1
  <2> QED BY <2>3, <2>4, <2>5, <2>6
<1>21. CASE ScanFails
  BY <1>21 DEF ScanFails
<1>22. CASE Sigterm
  BY <1>22 DEF Sigterm
<1>23. CASE Crash
  BY <1>23 DEF Crash
<1>24. CASE Restart
  BY <1>24 DEF Restart
<1>25. CASE SettleByHand
  BY <1>25 DEF SettleByHand
<1>26. CASE EntryTime
  BY <1>26 DEF EntryTime
<1>27. CASE MarketCloses
  BY <1>27 DEF MarketCloses
<1>28. CASE Midnight
  BY <1>28 DEF Midnight
<1>29. CASE CalendarOver \/ UNCHANGED vars
  BY <1>29 DEF CalendarOver, vars
<1> QED
  BY <1>1, <1>2, <1>3, <1>4, <1>5, <1>6, <1>7, <1>8, <1>9, <1>10,
     <1>11, <1>12, <1>13, <1>14, <1>15, <1>16, <1>17, <1>18, <1>19, <1>20,
     <1>21, <1>22, <1>23, <1>24, <1>25, <1>26, <1>27, <1>28, <1>29 DEF Next, Process, Environment

\* A row settled by hand stays so.
LEMMA RepairStep ==
    ASSUME TypeOK, SessionIsToday, StaleRowsReported, RepairedRowsEnded, [Next]_vars
    PROVE  RepairedRowsEnded'
<1> USE DEF RepairedRowsEnded, StaleRowsReported, TypeOK, SessionIsToday, InSession, Days,
            clock, store, history
<1>1. CASE Connect
  BY <1>1 DEF Connect
<1>2. CASE ConnectStopped
  BY <1>2 DEF ConnectStopped
<1>3. CASE Leave
  BY <1>3 DEF Leave
<1>4. CASE Backoff
  BY <1>4 DEF Backoff
<1>5. CASE TopOfLoop
  BY <1>5 DEF TopOfLoop
<1>6. CASE EntryTimeReached
  BY <1>6 DEF EntryTimeReached
<1>7. CASE EntrySleepStopped
  BY <1>7 DEF EntrySleepStopped, SessionReturns, ToSettle
<1>8. CASE Reconcile
  BY <1>8 DEF Reconcile
<1>9. CASE EmitStaleOpenSpreads
  BY <1>9 DEF EmitStaleOpenSpreads
<1>10. CASE MonthlyGateActive
  BY <1>10 DEF MonthlyGateActive
<1>11. CASE NoEntry
  BY <1>11 DEF NoEntry
<1>12. CASE EntryFills
  BY <1>12 DEF EntryFills
<1>13. CASE RecordOpen
  BY <1>13 DEF RecordOpen
<1>14. CASE StopCloses
  BY <1>14 DEF StopCloses
<1>15. CASE MonitorEnds
  BY <1>15 DEF MonitorEnds
<1>16. CASE CloseReached
  BY <1>16 DEF CloseReached
<1>17. CASE CloseSleepStopped
  BY <1>17 DEF CloseSleepStopped, SessionReturns, ToSettle
<1>18. CASE RecordSettlements
  BY <1>18 DEF RecordSettlements, SessionReturns, ToSettle
<1>19. CASE ConnectFails
  BY <1>19 DEF ConnectFails
<1>20. CASE SessionRaises
  BY <1>20 DEF SessionRaises
<1>21. CASE ScanFails
  BY <1>21 DEF ScanFails
<1>22. CASE Sigterm
  BY <1>22 DEF Sigterm
<1>23. CASE Crash
  BY <1>23 DEF Crash
<1>24. CASE Restart
  BY <1>24 DEF Restart
<1>25. CASE SettleByHand
  BY <1>25 DEF SettleByHand
<1>26. CASE EntryTime
  BY <1>26 DEF EntryTime
<1>27. CASE MarketCloses
  BY <1>27 DEF MarketCloses
<1>28. CASE Midnight
  BY <1>28 DEF Midnight
<1>29. CASE CalendarOver \/ UNCHANGED vars
  BY <1>29 DEF CalendarOver, vars
<1> QED
  BY <1>1, <1>2, <1>3, <1>4, <1>5, <1>6, <1>7, <1>8, <1>9, <1>10,
     <1>11, <1>12, <1>13, <1>14, <1>15, <1>16, <1>17, <1>18, <1>19, <1>20,
     <1>21, <1>22, <1>23, <1>24, <1>25, <1>26, <1>27, <1>28, <1>29 DEF Next, Process, Environment

\* A step that changes no row, date or repair does not change the sum.
LEMMA SumKept == UNCHANGED <<day, rows, repaired>> => SumAtGate' = SumAtGate
BY DEF SumAtGate, SumOf, EndedIn

\* Nor does a repair: the row it ends is one the gate did not count.
LEMMA RepairKeepsSum == TypeOK /\ SettleByHand => SumAtGate' = SumAtGate
<1> SUFFICES ASSUME TypeOK, SettleByHand PROVE SumAtGate' = SumAtGate
  OBVIOUS
<1> DEFINE ds == EndedIn(MonthOf[day]) \ repaired
<1>1. PICK d \in reported, p \in Pnls :
         /\ rows[d].status = "OPEN"
         /\ rows' = [rows EXCEPT ![d] = [status |-> "SETTLED", pnl |-> p]]
         /\ repaired' = repaired \cup {d}
         /\ UNCHANGED day
  BY DEF SettleByHand, clock
<1>2. rows \in [Days -> Rows] /\ d \in Days
  BY DEF TypeOK
<1>3. rows[d] = OpenRow
  BY <1>1, <1>2 DEF Rows, NoRow, OpenRow
<1>4. d \notin ds
  BY <1>3 DEF EndedIn
<1>5. \A e \in Days : e # d => rows'[e] = rows[e]
  BY <1>1, <1>2
<1>6. ds' = ds
  BY <1>1, <1>4, <1>5 DEF EndedIn
<1>7. [e \in ds |-> rows[e].pnl]' = [e \in ds |-> rows[e].pnl]
  <2>1. ds \subseteq Days
    BY DEF EndedIn
  <2>2. \A e \in ds : rows'[e].pnl = rows[e].pnl
    BY <1>4, <1>5, <2>1
  <2> HIDE DEF ds
  <2> QED BY <1>6, <2>2
<1> HIDE DEF ds
<1>8. SumFunction([e \in ds |-> rows[e].pnl])' = SumFunction([e \in ds |-> rows[e].pnl])
  BY <1>7
<1> QED BY <1>8 DEF SumAtGate, SumOf, ds

\* What MonthlyGateActive sums is everything that came to an end.
LEMMA RealisedIsEnded == TypeOK => \A month : Realised(month) = EndedIn(month)
<1> SUFFICES ASSUME TypeOK, NEW month PROVE Realised(month) = EndedIn(month)
  OBVIOUS
<1>1. \A d \in Days : rows[d].status \in {"STOPPED", "SETTLED"} <=> rows[d] \notin {NoRow, OpenRow}
  <2> SUFFICES ASSUME NEW d \in Days
               PROVE  rows[d].status \in {"STOPPED", "SETTLED"} <=> rows[d] \notin {NoRow, OpenRow}
    OBVIOUS
  <2>1. rows[d] \in Rows
    BY DEF TypeOK
  <2> QED BY <2>1 DEF Rows, NoRow, OpenRow
<1> QED BY <1>1 DEF Realised, EndedIn

\* While a session may enter, only the operator can change the sum.
LEMMA GateStep ==
    ASSUME TypeOK, SessionIsToday, GateWasRead, [Next]_vars
    PROVE  GateWasRead'
<1> USE DEF GateWasRead, InSession, Dead, clock, store, history
<1>1. CASE Connect
  BY <1>1 DEF Connect
<1>2. CASE ConnectStopped
  BY <1>2 DEF ConnectStopped
<1>3. CASE Leave
  BY <1>3 DEF Leave
<1>4. CASE Backoff
  BY <1>4 DEF Backoff
<1>5. CASE TopOfLoop
  BY <1>5 DEF TopOfLoop
<1>6. CASE EntryTimeReached
  BY <1>6 DEF EntryTimeReached
<1>7. CASE EntrySleepStopped
  BY <1>7 DEF EntrySleepStopped, SessionReturns
<1>8. CASE Reconcile
  BY <1>8 DEF Reconcile
<1>9. CASE EmitStaleOpenSpreads
  BY <1>9 DEF EmitStaleOpenSpreads
<1>10. CASE MonthlyGateActive
  <2>1. target = day /\ repaired' = {} /\ UNCHANGED <<day, rows>>
    BY <1>10 DEF MonthlyGateActive, SessionIsToday
  <2>2. SumAtGate' = SumOf(Realised(MonthOf[target]))
    <3>1. EndedIn(MonthOf[day])' = EndedIn(MonthOf[day])
      BY <2>1 DEF EndedIn
    <3>2. EndedIn(MonthOf[day])' \ {} = Realised(MonthOf[target])
      BY <3>1, <2>1, RealisedIsEnded
    <3> QED BY <3>2, <2>1 DEF SumAtGate, SumOf
  <2>3. gate' = (MonthlyStop /\ SumAtGate' < 0)
    BY <1>10, <2>2 DEF MonthlyGateActive, MonthlyPnlTotal
  <2> QED BY <2>3
<1>11. CASE NoEntry
  BY <1>11 DEF NoEntry
<1>12. CASE EntryFills
  BY <1>12 DEF EntryFills
<1>13. CASE RecordOpen
  BY <1>13 DEF RecordOpen
<1>14. CASE StopCloses
  BY <1>14 DEF StopCloses
<1>15. CASE MonitorEnds
  BY <1>15 DEF MonitorEnds
<1>16. CASE CloseReached
  BY <1>16 DEF CloseReached
<1>17. CASE CloseSleepStopped
  BY <1>17 DEF CloseSleepStopped, SessionReturns
<1>18. CASE RecordSettlements
  BY <1>18 DEF RecordSettlements, SessionReturns
<1>19. CASE ConnectFails
  BY <1>19 DEF ConnectFails
<1>20. CASE SessionRaises
  BY <1>20 DEF SessionRaises
<1>21. CASE ScanFails
  BY <1>21 DEF ScanFails
<1>22. CASE Sigterm
  BY <1>22, SumKept DEF Sigterm
<1>23. CASE Crash
  BY <1>23 DEF Crash
<1>24. CASE Restart
  BY <1>24 DEF Restart
<1>25. CASE SettleByHand
  <2>1. UNCHANGED <<pc, gate>>
    BY <1>25 DEF SettleByHand
  <2>2. SumAtGate' = SumAtGate
    BY <1>25, RepairKeepsSum
  <2> QED BY <2>1, <2>2
<1>26. CASE EntryTime
  BY <1>26, SumKept DEF EntryTime
<1>27. CASE MarketCloses
  BY <1>27, SumKept DEF MarketCloses
<1>28. CASE Midnight
  BY <1>28 DEF Midnight
<1>29. CASE CalendarOver \/ UNCHANGED vars
  BY <1>29, SumKept DEF CalendarOver, vars
<1> QED
  BY <1>1, <1>2, <1>3, <1>4, <1>5, <1>6, <1>7, <1>8, <1>9, <1>10,
     <1>11, <1>12, <1>13, <1>14, <1>15, <1>16, <1>17, <1>18, <1>19, <1>20,
     <1>21, <1>22, <1>23, <1>24, <1>25, <1>26, <1>27, <1>28, <1>29 DEF Next, Process, Environment

(***************************************************************************)
(* The theorems                                                            *)
(***************************************************************************)

\* The invariant holds in every reachable state.
THEOREM Invariance == Spec => []IInv
<1>1. Init => IInv
  BY InitInvariant
<1>2. IInv /\ [Next]_vars => IInv'
  BY TypeStep, TodayStep, WaitStep, GateStep, RepairStep, ErrorsStep, StaleStep DEF IInv
<1> QED BY <1>1, <1>2, PTL DEF Spec

\* The types; a process at the limit of errors has given up.
THEOREM TypeCorrect == Spec => []TypeOK
<1>1. IInv => TypeOK
  BY DEF IInv
<1> QED BY <1>1, Invariance, PTL

\* No OPEN row of an earlier day escapes a completed scan.
THEOREM StaleRowsAreReported == Spec => []StaleRowsReported
<1>1. IInv => StaleRowsReported
  BY DEF IInv
<1> QED BY <1>1, Invariance, PTL

\* The breaker opens after MaxConsecutive errors in a row, and only then.
THEOREM BreakerIsRight == Spec => []BreakerRight
<1>1. IInv => BreakerRight
  <2> SUFFICES ASSUME IInv PROVE BreakerRight
    OBVIOUS
  <2> DEFINE n == Len(outcomes)
  <2>1. /\ n \in Nat /\ n <= MaxConsecutive /\ errors \in Nat /\ errors <= n
        /\ \A i \in 0 .. errors - 1 : outcomes[n - i] = "error"
        /\ errors < n => outcomes[n - errors] = "ok"
        /\ pc = "gaveup" <=> errors = MaxConsecutive
    BY DEF IInv, TypeOK, ErrorsCounted
  <2>2. ASSUME pc = "gaveup", NEW i \in 1 .. MaxConsecutive PROVE outcomes[i] = "error"
    <3>1. n = MaxConsecutive /\ n - i \in 0 .. errors - 1 /\ n - (n - i) = i
      BY <2>1, <2>2
    <3> QED BY <3>1, <2>1
  <2>3. ASSUME n = MaxConsecutive, \A i \in 1 .. MaxConsecutive : outcomes[i] = "error"
        PROVE  errors = MaxConsecutive
    <3> SUFFICES ASSUME errors < n PROVE FALSE
      BY <2>1, <2>3
    <3>1. n - errors \in 1 .. MaxConsecutive
      BY <2>1, <2>3
    <3> QED BY <3>1, <2>1, <2>3
  <2> QED BY <2>1, <2>2, <2>3 DEF BreakerRight
<1> QED BY <1>1, Invariance, PTL

\* Only the operator changes the row of another date.
THEOREM OnlyOwnDate == Spec => OwnDateOnly
<1> DEFINE Step == \A d \in Days : rows'[d] # rows[d] => d = day \/ d \in repaired' \ repaired
<1>1. IInv /\ [Next]_vars => [Step]_vars
  <2> SUFFICES ASSUME IInv, [Next]_vars PROVE Step
    OBVIOUS
  <2>1. CASE UNCHANGED rows
    BY <2>1
  <2>2. CASE Reconcile \/ RecordOpen \/ StopCloses
    <3>1. target = day /\ rows \in [Days -> Rows]
      BY <2>2 DEF IInv, TypeOK, SessionIsToday, InSession, Reconcile, RecordOpen, StopCloses
    <3>2. \A d \in Days : d # target => rows'[d] = rows[d]
      BY <2>2, <3>1 DEF Reconcile, RecordOpen, StopCloses
    <3> QED BY <3>1, <3>2
  <2>3. CASE RecordSettlements
    <3>1. target = day
      BY <2>3 DEF IInv, SessionIsToday, InSession, RecordSettlements
    <3>2. \A d \in Days : d # target => rows'[d] = rows[d]
      BY <2>3 DEF RecordSettlements, ToSettle
    <3> QED BY <3>1, <3>2
  <2>4. CASE SettleByHand
    <3>1. PICK d \in reported, p \in Pnls :
             /\ rows[d].status = "OPEN"
             /\ rows' = [rows EXCEPT ![d] = [status |-> "SETTLED", pnl |-> p]]
             /\ repaired' = repaired \cup {d}
      BY <2>4 DEF SettleByHand
    <3>2. rows \in [Days -> Rows]
      BY DEF IInv, TypeOK
    <3>3. d \notin repaired
      BY <3>1 DEF IInv, RepairedRowsEnded
    <3> QED BY <3>1, <3>2, <3>3
  <2> QED
    BY <2>1, <2>2, <2>3, <2>4 DEF Next, Process, Environment, vars, store, CalendarOver,
       Connect, ConnectStopped, Leave, Backoff, TopOfLoop, EntryTimeReached, EntrySleepStopped,
       EmitStaleOpenSpreads, MonthlyGateActive, NoEntry, EntryFills, MonitorEnds, CloseReached,
       CloseSleepStopped, ConnectFails, SessionRaises, ScanFails, Sigterm, Crash, Restart,
       EntryTime, MarketCloses, Midnight
<1> QED BY <1>1, Invariance, PTL DEF Spec, OwnDateOnly

\* The monthly gate is kept, whatever happened since it was read.
THEOREM GateIsKept == Spec => GateKept
<1> DEFINE Step == (MonthlyStop /\ held' /\ ~held) => ~(SumOf(EndedIn(MonthOf[day]) \ repaired) < 0)
<1>1. IInv /\ [Next]_vars => [Step]_vars
  <2> SUFFICES ASSUME IInv, [Next]_vars, MonthlyStop, held', ~held PROVE ~(SumAtGate < 0)
    BY DEF SumAtGate
  <2>1. EntryFills
    BY DEF IInv, Next, Process, Environment, vars, store, CalendarOver,
       Connect, ConnectStopped, Leave, Backoff, TopOfLoop, EntryTimeReached, EntrySleepStopped,
       Reconcile, EmitStaleOpenSpreads, MonthlyGateActive, NoEntry, RecordOpen, StopCloses,
       MonitorEnds, CloseReached, CloseSleepStopped, RecordSettlements, ConnectFails,
       SessionRaises, ScanFails, Sigterm, Crash, Restart, SettleByHand, EntryTime, MarketCloses, Midnight
  <2> QED BY <2>1 DEF EntryFills, SkipNewEntries, IInv, GateWasRead
<1> QED BY <1>1, Invariance, PTL DEF Spec, GateKept

\* No trading day closes unattended while a process is in its loop.
THEOREM NoneForfeited == Spec => NoSessionForfeited
<1>1. IInv /\ [Next]_vars => [NoneMissed]_vars
  <2> SUFFICES ASSUME IInv, [Next]_vars, NEW d \in SessionsOver' \ SessionsOver,
                      ~stop, pc \notin Dead \cup {"connect"}
               PROVE  d \in attended
    BY DEF NoneMissed
  <2>1. MarketCloses \/ Midnight
    BY DEF SessionsOver, Over, Next, Process, Environment, vars, clock, CalendarOver,
       Connect, ConnectStopped, Leave, Backoff, TopOfLoop, EntryTimeReached, EntrySleepStopped,
       Reconcile, EmitStaleOpenSpreads, MonthlyGateActive, NoEntry, EntryFills, RecordOpen, StopCloses,
       MonitorEnds, CloseReached, CloseSleepStopped, RecordSettlements, ConnectFails,
       SessionRaises, ScanFails, Sigterm, Crash, Restart, SettleByHand, EntryTime
  <2>2. day \in Nat /\ d \in Nat
    BY DEF IInv, TypeOK, Days, SessionsOver
  <2>3. MarketCloses /\ d = day
    BY <2>1, <2>2 DEF SessionsOver, Over, MarketCloses, Midnight
  <2>4. pc \in InSession \cup {"backoff"}
    <3>1. pc # "loop"
      BY <2>3 DEF MarketCloses, Awake
    <3>2. pc # "wait"
      <4> SUFFICES ASSUME pc = "wait" PROVE FALSE
        OBVIOUS
      <4>1. target <= d /\ target \in Nat
        BY <2>2 DEF SessionsOver, IInv, WaitsInTime, TypeOK, Days, NoDay
      <4>2. Due(target)
        BY <4>1, <2>2, <2>3 DEF Due, MarketCloses
      <4> QED BY <4>2, <2>3 DEF MarketCloses, Awake
    <3> QED BY <3>1, <3>2 DEF IInv, TypeOK
  <2> QED BY <2>3, <2>4 DEF IInv, SessionIsToday
<1> QED BY <1>1, Invariance, PTL DEF Spec, NoSessionForfeited

=========================================================================
