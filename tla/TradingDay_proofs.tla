----------------------- MODULE TradingDay_proofs -----------------------
(***************************************************************************)
(* Machine-checked facts about TradingDay, for every set of spreads, every *)
(* set of faults and every bound: the inductive invariant IInv, the safety *)
(* properties that follow from it, and that the stored row implements      *)
(* SpreadLifecycle.                                                        *)
(***************************************************************************)
EXTENDS TradingDay, FiniteSetTheorems, SequenceTheorems, TLAPS

-------------------------------------------------------------------------
(* The order book.  Whatever a step does to it, it remains a sequence of   *)
(* orders in which no order disappears, changes its kind or un-executes.   *)

OrdersKept ==
    /\ orders' \in Seq(Order)
    /\ \A i \in Ids : /\ i \in Ids'
                      /\ orders'[i].kind = orders[i].kind
                      /\ orders[i].st = "filled" => orders'[i].st = "filled"

\* Leaving the orders alone keeps them.
LEMMA UnchangedKeeps ==
    ASSUME orders \in Seq(Order), UNCHANGED orders
    PROVE  OrdersKept
BY DEF OrdersKept, Ids

\* The orders place_order is given are orders.
LEMMA NewOrderType ==
    ASSUME NEW kind \in OrderKinds, NEW s \in Spreads, NEW delta \in [Legs -> Int]
    PROVE  /\ NewOrder(kind, s, delta, clock < Closed) \in Order
           /\ NewOrder(kind, s, delta, clock < Closed).kind = kind
BY DEF NewOrder, Order, OrderStates, Legs

\* So are the changes of position they stand for.
LEMMA DeltaType ==
    /\ BuyCombo \in [Legs -> Int]
    /\ SellCombo \in [Legs -> Int]
    /\ \A leg \in Legs, q \in Int : OneLeg(leg, q) \in [Legs -> Int]
<1>1. BuyCombo \in [Legs -> Int]
  BY DEF BuyCombo, Legs
<1>2. SellCombo \in [Legs -> Int]
  BY DEF SellCombo, Legs
<1>3. \A leg \in Legs, q \in Int : OneLeg(leg, q) \in [Legs -> Int]
  BY DEF OneLeg, Legs
<1>4. QED BY <1>1, <1>2, <1>3

\* Accepting an order keeps those before it.
LEMMA AppendKeeps ==
    ASSUME orders \in Seq(Order), NEW o \in Order, orders' = Append(orders, o)
    PROVE  /\ OrdersKept
           /\ Len(orders) + 1 \in Ids'
           /\ orders'[Len(orders) + 1] = o
           /\ Len(orders') = Len(orders) + 1
<1>1. /\ Append(orders, o) \in Seq(Order)
      /\ Len(Append(orders, o)) = Len(orders) + 1
      /\ \A i \in 1..Len(orders) : Append(orders, o)[i] = orders[i]
      /\ Append(orders, o)[Len(orders) + 1] = o
  BY AppendProperties
<1>2. Ids = 1..Len(orders) /\ Ids' = 1..Len(orders') /\ Len(orders) \in Nat
  BY <1>1, LenProperties DEF Ids
<1>3. QED BY <1>1, <1>2 DEF OrdersKept

\* Rewriting the fields of orders in place, none of them the kind, and no filled
\* order's state, keeps them.
LEMMA RewriteKeeps ==
    ASSUME orders \in Seq(Order),
           DOMAIN orders' = Ids,
           orders' = [i \in Ids |-> orders'[i]],
           \A i \in Ids : /\ orders'[i] \in Order
                          /\ orders'[i].kind = orders[i].kind
                          /\ orders[i].st = "filled" => orders'[i].st = "filled"
    PROVE  OrdersKept
<1>1. Ids = 1..Len(orders) /\ Len(orders) \in Nat
  BY LenProperties DEF Ids
<1>2. orders' \in Seq(Order)
  BY <1>1, IsASeq
<1>3. QED BY <1>2 DEF OrdersKept, Ids

\* Cancelling working orders keeps them.
LEMMA CancelKeeps ==
    ASSUME orders \in Seq(Order), NEW S, \A i \in S \cap Ids : Working(i),
           orders' = Cancelled(S)
    PROVE  OrdersKept
<1>1. DOMAIN orders' = Ids /\ orders' = [i \in Ids |-> orders'[i]]
  BY DEF Cancelled
<1>2. \A i \in Ids : orders[i] \in Order
  BY ElementOfSeq, LenProperties DEF Ids
<1>3. ASSUME NEW i \in Ids
      PROVE  /\ orders'[i] \in Order
             /\ orders'[i].kind = orders[i].kind
             /\ orders[i].st = "filled" => orders'[i].st = "filled"
  BY <1>2 DEF Cancelled, Working, Order, OrderStates
<1>4. QED BY <1>1, <1>3, RewriteKeeps

\* An execution, a late leg and a rejection keep them, and the report stays a report.
LEMMA ExecuteKeeps ==
    ASSUME orders \in Seq(Order), pos \in [Spreads -> [Legs -> Int]],
           NEW i \in Ids, NEW at \in SUBSET Legs, Execute(i, at)
    PROVE  OrdersKept /\ pos' \in [Spreads -> [Legs -> Int]]
<1>1. \A j \in Ids : orders[j] \in Order
  BY ElementOfSeq, LenProperties DEF Ids
<1>2. DOMAIN orders' = Ids /\ orders' = [j \in Ids |-> orders'[j]]
  BY DEF Execute, Ids
<1>3. ASSUME NEW j \in Ids
      PROVE  /\ orders'[j] \in Order
             /\ orders'[j].kind = orders[j].kind
             /\ orders[j].st = "filled" => orders'[j].st = "filled"
  BY <1>1 DEF Execute, Ids, Order, OrderStates
<1>4. pos' \in [Spreads -> [Legs -> Int]]
  BY <1>1 DEF Execute, Reported, Order
<1>5. QED BY <1>2, <1>3, <1>4, RewriteKeeps

\* A reported leg keeps the types of the orders and the positions.
LEMMA PostLegKeeps ==
    ASSUME orders \in Seq(Order), pos \in [Spreads -> [Legs -> Int]],
           NEW i \in Ids, NEW leg \in Legs, PostLeg(i, leg)
    PROVE  OrdersKept /\ pos' \in [Spreads -> [Legs -> Int]]
<1>1. \A j \in Ids : orders[j] \in Order
  BY ElementOfSeq, LenProperties DEF Ids
<1>2. DOMAIN orders' = Ids /\ orders' = [j \in Ids |-> orders'[j]]
  BY DEF PostLeg, Ids
<1>3. ASSUME NEW j \in Ids
      PROVE  /\ orders'[j] \in Order
             /\ orders'[j].kind = orders[j].kind
             /\ orders[j].st = "filled" => orders'[j].st = "filled"
  BY <1>1 DEF PostLeg, Ids, Order, OrderStates
<1>4. pos' \in [Spreads -> [Legs -> Int]]
  BY <1>1 DEF PostLeg, Reported, Order
<1>5. QED BY <1>2, <1>3, <1>4, RewriteKeeps

-------------------------------------------------------------------------
(* The row.  What record_open, record_close and record_settlement write is *)
(* a row, and the states of a row exclude each other.                      *)

\* The absent row is the only one with the status ABSENT.
LEMMA AbsentRow ==
    /\ Lifecycle!Absent \in Lifecycle!Rows
    /\ Lifecycle!Absent.status = "ABSENT"
    /\ \A r \in Lifecycle!Rows : r.status = "ABSENT" => r = Lifecycle!Absent
BY DEF Lifecycle!Absent, Lifecycle!Rows

\* record_open and the adoption write an OPEN row.
LEMMA OpenedRow ==
    ASSUME NEW s \in Spreads, NEW adopted \in BOOLEAN
    PROVE  /\ Lifecycle!Opened(s, adopted) \in Lifecycle!Rows
           /\ Lifecycle!Opened(s, adopted).status = "OPEN"
BY DEF Lifecycle!Opened, Lifecycle!Rows

\* Every OPEN row is one that record_open or the adoption wrote.
LEMMA OpenRow ==
    ASSUME NEW r \in Lifecycle!Rows, r.status = "OPEN"
    PROVE  \E s \in Spreads, adopted \in BOOLEAN : r = Lifecycle!Opened(s, adopted)
<1>1. r # Lifecycle!Absent
  BY AbsentRow
<1>2. r \in [status : {"OPEN"}, sp : Spreads, adopted : BOOLEAN, exit : {"NONE"}]
  BY <1>1 DEF Lifecycle!Rows
<1>3. r.sp \in Spreads /\ r.adopted \in BOOLEAN
  BY <1>2
<1>4. r = Lifecycle!Opened(r.sp, r.adopted)
  BY <1>2 DEF Lifecycle!Opened
<1>5. QED BY <1>3, <1>4

\* record_close and record_settlement turn an OPEN row into a STOPPED or SETTLED one.
LEMMA EndedRow ==
    ASSUME row \in Lifecycle!Rows, row.status = "OPEN"
    PROVE  /\ \A kind \in {"STOP", "OUTAGE_FLATTEN"} :
                /\ ClosedAs(kind) \in Lifecycle!Rows
                /\ ClosedAs(kind).status = "STOPPED"
           /\ Lifecycle!Ended("SETTLED", "SETTLE") \in Lifecycle!Rows
           /\ Lifecycle!Ended("SETTLED", "SETTLE").status = "SETTLED"
<1>1. PICK s \in Spreads, adopted \in BOOLEAN : row = Lifecycle!Opened(s, adopted)
  BY OpenRow
<1>2. row.sp \in Spreads /\ row.adopted \in BOOLEAN
  BY <1>1 DEF Lifecycle!Opened
<1>3. QED BY <1>2 DEF ClosedAs, Lifecycle!Ended, Lifecycle!Rows

-------------------------------------------------------------------------
(* The inductive invariant.                                                *)

\* An executed close stays executed, and the awaited close stays a close.
LEMMA CloseKept ==
    ASSUME OrdersKept
    PROVE  /\ FilledOf("close") # {} => FilledOf("close")' # {}
           /\ \A i \in Ids : orders[i].kind = "close" => i \in Ids' /\ orders'[i].kind = "close"
BY DEF OrdersKept, FilledOf, Filled, Ids

\* The initial states satisfy the invariant.
LEMMA InitInvariant == Init => IInv
<1> SUFFICES ASSUME Init PROVE IInv
  OBVIOUS
<1>1. <<>> \in Seq(Order) /\ Ids = {}
  BY EmptySeq DEF Init, Ids
<1>2. pos \in [Spreads -> [Legs -> Int]]
  BY DEF Init
<1>3. budget \in 0..MaxFaults
  BY TradingDayAssumption DEF Init
<1>4. clock \in PreEntry..Closed /\ pc \in PCs /\ exitKind \in ExitKinds
  BY DEF Init, PreEntry, Closed, PCs, ExitKinds
<1>5. cur \in Nat /\ legQty \in Int /\ row \in Lifecycle!Rows /\ orders \in Seq(Order)
  BY <1>1, AbsentRow DEF Init
<1>6. TypeOK
  <2>1. /\ noEntry \in BOOLEAN /\ stop \in BOOLEAN /\ armed \in BOOLEAN
        /\ journal \subseteq JournalEvents
        /\ sel \in Spreads \cup {NoSpread}
    BY DEF Init
  <2>2. QED BY <1>2, <1>3, <1>4, <1>5, <2>1, Zenon DEF TypeOK
<1>7. QED
  BY <1>6, <1>1, AbsentRow
     DEF Init, IInv, EntryUnopened, StrikesChosen, MonitoredOpen, ClosingForReason,
         SettleAfterClose, AwaitsTheClose, RecordsAFill, StoppedMeansClosed, EntryPcs,
         MonitorPcs

-------------------------------------------------------------------------
(* What a call leaves alone, however it ends.                              *)

\* The clock and the gates stand still; a fault spends some of the budget.
DayKept == clock' = clock /\ noEntry' = noEntry /\ budget' \in 0..MaxFaults

\* A step without a fault keeps the clock, the gate and the budget of faults.
LEMMA NoFaultKeepsDay == TypeOK /\ NoFault => DayKept
BY DEF TypeOK, NoFault, day, DayKept

\* A fault keeps the clock and the gate, and is taken from the budget.
LEMMA FaultKeepsDay ==
    ASSUME TypeOK, NEW kind, Fault(kind)
    PROVE  DayKept
<1>1. budget \in 0..MaxFaults /\ budget > 0 /\ budget' = budget - 1
  BY DEF TypeOK, Fault
<1>2. budget' \in 0..MaxFaults
  BY <1>1, TradingDayAssumption
<1>3. QED BY <1>2 DEF DayKept, Fault

\* A call returns to its caller or raises out of the session.
LEMMA ReturnsKeepsDay ==
    ASSUME TypeOK, NEW label, ReturnsTo(label)
    PROVE  DayKept /\ UNCHANGED stop /\ pc' \in {label, "backoff"}
BY NoFaultKeepsDay, FaultKeepsDay DEF ReturnsTo, Goto

\* What every step does to the account and the day: time never runs back, and
\* what executed stays so.
Frame ==
    /\ OrdersKept
    /\ pos' \in [Spreads -> [Legs -> Int]]
    /\ clock' \in PreEntry..Closed /\ clock' >= clock
    /\ noEntry' = noEntry
    /\ budget' \in 0..MaxFaults

\* What a step of the account may change.
LEMMA BookFrame ==
    ASSUME TypeOK, OrdersKept, pos' \in [Spreads -> [Legs -> Int]], DayKept
    PROVE  Frame
<1>1. clock \in PreEntry..Closed
  BY DEF TypeOK
<1>2. clock' \in PreEntry..Closed /\ clock' >= clock
  BY <1>1 DEF DayKept, PreEntry, Closed
<1>3. QED BY <1>2 DEF Frame, DayKept

\* A closed session stays closed.
LEMMA ClosedStays == Frame /\ clock = Closed => clock' = Closed
BY DEF Frame, PreEntry, Closed

\* A step that leaves the account alone changes nothing of the frame.
LEMMA QuietFrame ==
    ASSUME TypeOK, UNCHANGED account, DayKept
    PROVE  Frame
BY UnchangedKeeps, BookFrame DEF TypeOK, account

\* place_order: the order is accepted, and cur names it or nothing.
LEMMA SentOrder ==
    ASSUME TypeOK, NEW o \in Order, NEW label, Send(o, label)
    PROVE  /\ OrdersKept /\ UNCHANGED pos /\ DayKept /\ UNCHANGED stop
           /\ pc' \in {label, "backoff"}
           /\ UNCHANGED <<store, sel, legQty, armed, exitKind>>
           /\ orders' = Append(orders, o)
           /\ cur' = 0 \/ (cur' \in Nat /\ cur' \in Ids' /\ orders'[cur'] = o)
<1>1. OrdersKept /\ Len(orders) + 1 \in Ids' /\ orders'[Len(orders) + 1] = o
  BY AppendKeeps DEF Send, TypeOK
<1>2. Len(orders) \in Nat
  BY LenProperties DEF TypeOK
<1>3. DayKept /\ UNCHANGED stop /\ pc' \in {label, "backoff"}
  BY ReturnsKeepsDay, FaultKeepsDay DEF Send, Goto
<1>4. QED BY <1>1, <1>2, <1>3 DEF Send

\* The market order for a leg is an order like the others.
LEMMA FlattenKeeps ==
    ASSUME TypeOK, sel \in Spreads, NEW q \in Int, SendFlatten(q)
    PROVE  OrdersKept
<1> DEFINE delta == Unmatched(legQty, q)
<1>1. legQty \in Int /\ orders \in Seq(Order)
  BY DEF TypeOK
<1>2. delta = <<>> \/ \E d \in [Legs -> Int] : delta = <<d>>
  <2>1. OneLeg("long", -legQty) \in [Legs -> Int] /\ OneLeg("short", -q) \in [Legs -> Int]
    <3>1. -legQty \in Int /\ -q \in Int
      BY <1>1
    <3>2. "long" \in Legs /\ "short" \in Legs
      BY DEF Legs
    <3>3. QED BY <3>1, <3>2, DeltaType
  <2>2. QED BY <2>1 DEF Unmatched
<1>3. CASE delta = <<>>
  BY <1>1, <1>3, UnchangedKeeps DEF SendFlatten
<1>4. CASE delta # <<>>
  <2>1. NewOrder("flatten", sel, delta[1], clock < Closed) \in Order
    BY <1>2, <1>4, NewOrderType DEF OrderKinds
  <2>2. QED BY <1>1, <1>4, <2>1, AppendKeeps DEF SendFlatten
<1>5. QED BY <1>3, <1>4

\* The strikes of an OPEN row are strikes.
LEMMA OpenedFields ==
    ASSUME NEW r \in Lifecycle!Rows, r.status = "OPEN"
    PROVE  r.sp \in Spreads
BY OpenRow DEF Lifecycle!Opened

\* Wake-up, reconcile, orphans, the entry decision.
LEMMA SessionInvariant == IInv /\ Session => IInv'
<1> SUFFICES ASSUME IInv, Session PROVE IInv'
  OBVIOUS
<1> USE DEF IInv, EntryUnopened, StrikesChosen, MonitoredOpen, ClosingForReason,
        SettleAfterClose, AwaitsTheClose, RecordsAFill, StoppedMeansClosed,
        Frame, PCs, EntryPcs, MonitorPcs, store, volatile
<1>1. CASE WakeForSession
  <2>1. Frame
    BY <1>1, NoFaultKeepsDay, QuietFrame DEF WakeForSession
  <2>2. pc' \in {"down", "tomorrow", "reconcile"} /\ UNCHANGED <<stop, store, volatile>>
    BY <1>1 DEF WakeForSession, Goto
  <2>3. TypeOK'
    BY <2>1, <2>2 DEF TypeOK, OrdersKept
  <2>4. QED
    BY <2>1, <2>2, <2>3, CloseKept
<1>2. CASE Reconcile
  <2>1. Frame
    BY <1>2, ReturnsKeepsDay, FaultKeepsDay, QuietFrame DEF Reconcile
  <2>2. pc' \in {"orphans", "backoff"} /\ UNCHANGED <<stop, journal, volatile>>
    BY <1>2, ReturnsKeepsDay DEF Reconcile, Goto
  <2>3. \/ row' = row
        \/ row = Lifecycle!Absent /\ \E s \in Spreads : row' = Lifecycle!Opened(s, TRUE)
    BY <1>2 DEF Reconcile, AdoptInto, Detected
  <2>4. row' \in Lifecycle!Rows /\ (row'.status = "STOPPED" => row.status = "STOPPED")
    BY <2>3, OpenedRow DEF TypeOK
  <2>5. TypeOK'
    BY <2>1, <2>2, <2>4 DEF TypeOK, OrdersKept
  <2>6. QED
    BY <2>1, <2>2, <2>4, <2>5, CloseKept
<1>3. CASE CancelOrphans
  <2>1. DayKept /\ UNCHANGED pos
    BY <1>3, NoFaultKeepsDay, FaultKeepsDay DEF CancelOrphans
  <2>2. \A i \in OrphanCombos : i \in Ids /\ Working(i)
    BY DEF OrphanCombos, WorkingOf
  <2>3. \E S \in SUBSET OrphanCombos : orders' = Cancelled(S) \/ UNCHANGED orders
    BY <1>3 DEF CancelOrphans
  <2>4. OrdersKept
    BY <2>2, <2>3, CancelKeeps, UnchangedKeeps DEF TypeOK
  <2>5. Frame
    BY <2>1, <2>4, BookFrame DEF TypeOK
  <2>6. pc' = "decide" /\ UNCHANGED <<stop, store, volatile>>
    BY <1>3 DEF CancelOrphans, Goto
  <2>7. TypeOK'
    BY <2>5, <2>6 DEF TypeOK, OrdersKept
  <2>8. QED
    BY <2>5, <2>6, <2>7, CloseKept
<1>4. CASE DecideEntry
  <2>1. Frame
    BY <1>4, NoFaultKeepsDay, QuietFrame DEF DecideEntry
  <2>2. /\ pc' \in {"loop", "monitor"} /\ UNCHANGED <<stop, store, volatile>>
        /\ pc' = "loop" => row = Lifecycle!Absent /\ ~noEntry
    BY <1>4 DEF DecideEntry, Goto, TodayAlreadyOpened
  <2>3. TypeOK'
    BY <2>1, <2>2 DEF TypeOK, OrdersKept
  <2>4. QED
    BY <2>1, <2>2, <2>3, CloseKept
<1>5. QED BY <1>1, <1>2, <1>3, <1>4 DEF Session

\* The entry loop, the fill and the flatten of an orphaned leg.
LEMMA EntryInvariant == IInv /\ EntryLoop => IInv'
<1> SUFFICES ASSUME IInv, EntryLoop PROVE IInv'
  OBVIOUS
<1> USE DEF IInv, EntryUnopened, StrikesChosen, MonitoredOpen, ClosingForReason,
        SettleAfterClose, AwaitsTheClose, RecordsAFill, StoppedMeansClosed,
        Frame, PCs, EntryPcs, MonitorPcs, store, volatile
<1>1. CASE LoopHead
  <2>1. Frame
    BY <1>1, NoFaultKeepsDay, QuietFrame DEF LoopHead
  <2>2. /\ pc' \in {"monitor", "soft_wait", "place"}
        /\ UNCHANGED <<stop, store, cur, legQty, armed, exitKind>>
        /\ sel' \in Spreads \cup {NoSpread}
        /\ pc' = "place" => sel' \in Spreads
        /\ pc = "loop"
    BY <1>1 DEF LoopHead, Goto, TypeOK
  <2>3. TypeOK'
    BY <2>1, <2>2 DEF TypeOK, OrdersKept
  <2>4. QED
    BY <2>1, <2>2, <2>3, CloseKept
<1>2. CASE SoftRetry
  <2>1. Frame
    BY <1>2, NoFaultKeepsDay, QuietFrame DEF SoftRetry
  <2>2. /\ pc' \in {"monitor", "loop"} /\ UNCHANGED <<stop, store, volatile>>
        /\ pc = "soft_wait"
    BY <1>2 DEF SoftRetry, Goto
  <2>3. TypeOK'
    BY <2>1, <2>2 DEF TypeOK, OrdersKept
  <2>4. QED
    BY <2>1, <2>2, <2>3, CloseKept
<1>3. CASE PlaceEntry
  <2>1. NewOrder("entry", sel, BuyCombo, clock < Closed) \in Order
    BY <1>3, NewOrderType, DeltaType DEF PlaceEntry, OrderKinds
  <2>2. /\ OrdersKept /\ UNCHANGED pos /\ DayKept /\ UNCHANGED stop
        /\ pc' \in {"await1", "backoff"}
        /\ UNCHANGED <<store, sel, legQty, armed, exitKind>>
        /\ cur' = 0 \/ (cur' \in Nat /\ cur' \in Ids' /\ orders'[cur'].kind = "entry")
    BY <1>3, <2>1, SentOrder DEF PlaceEntry, NewOrder
  <2>3. Frame
    BY <2>2, BookFrame DEF TypeOK
  <2>4. TypeOK'
    BY <2>2, <2>3 DEF TypeOK, OrdersKept
  <2>5. QED
    BY <1>3, <2>2, <2>3, <2>4, CloseKept DEF PlaceEntry
<1>4. CASE AwaitEntry
  <2>1. Frame
    BY <1>4, NoFaultKeepsDay, FaultKeepsDay, QuietFrame DEF AwaitEntry, AwaitFilled, AwaitNone
  <2>2. /\ pc' \in {"verify", "reprice", "cancel"} /\ UNCHANGED <<stop, store, volatile>>
        /\ pc \in EntryPcs
    BY <1>4 DEF AwaitEntry, Goto
  <2>3. TypeOK'
    BY <2>1, <2>2 DEF TypeOK, OrdersKept
  <2>4. QED
    BY <2>1, <2>2, <2>3, CloseKept
<1>5. CASE Reprice
  <2>1. Frame
    BY <1>5, NoFaultKeepsDay, ReturnsKeepsDay, QuietFrame DEF Reprice
  <2>2. /\ pc' \in {"cancel", "await2", "backoff"} /\ UNCHANGED <<stop, store, volatile>>
        /\ pc = "reprice"
    BY <1>5, ReturnsKeepsDay DEF Reprice, Goto
  <2>3. TypeOK'
    BY <2>1, <2>2 DEF TypeOK, OrdersKept
  <2>4. QED
    BY <2>1, <2>2, <2>3, CloseKept
<1>6. CASE CancelEntry
  <2>1. DayKept /\ UNCHANGED pos
    BY <1>6, NoFaultKeepsDay, FaultKeepsDay DEF CancelEntry
  <2>2. \A i \in ToCancel : i \in Ids /\ Working(i)
    BY DEF ToCancel
  <2>3. OrdersKept
    BY <1>6, <2>2, CancelKeeps, UnchangedKeeps DEF TypeOK, CancelEntry
  <2>4. Frame
    BY <2>1, <2>3, BookFrame DEF TypeOK
  <2>5. pc = "cancel" /\ pc' = "loop" /\ UNCHANGED <<stop, store, volatile>>
    BY <1>6 DEF CancelEntry, Goto
  <2>6. TypeOK'
    BY <2>4, <2>5 DEF TypeOK, OrdersKept
  <2>7. QED
    BY <2>4, <2>5, <2>6, CloseKept
<1>7. CASE VerifyLegs
  <2>1. Frame
    BY <1>7, NoFaultKeepsDay, FaultKeepsDay, QuietFrame DEF VerifyLegs
  <2>2. /\ pc' \in {"record", "flatten1"} /\ UNCHANGED <<stop, store, volatile>>
        /\ pc = "verify"
    BY <1>7 DEF VerifyLegs, Goto
  <2>3. TypeOK'
    BY <2>1, <2>2 DEF TypeOK, OrdersKept
  <2>4. QED
    BY <2>1, <2>2, <2>3, CloseKept
<1>8. CASE ReadLongLeg
  <2>1. Frame
    BY <1>8, NoFaultKeepsDay, FaultKeepsDay, QuietFrame DEF ReadLongLeg
  <2>2. /\ pc' \in {"flatten2"} /\ UNCHANGED <<stop, store, sel, cur, armed, exitKind>>
        /\ pc = "flatten1"
    BY <1>8 DEF ReadLongLeg, Goto
  <2>3. legQty' \in Int
    BY <1>8 DEF ReadLongLeg, Qty, TypeOK, Legs, EntryUnopened
  <2>4. TypeOK'
    BY <2>1, <2>2, <2>3 DEF TypeOK, OrdersKept
  <2>5. QED
    BY <2>1, <2>2, <2>3, <2>4, CloseKept
<1>9. CASE FlattenUnmatchedLeg
  <2>1. DayKept /\ UNCHANGED pos
    BY <1>9, NoFaultKeepsDay, FaultKeepsDay DEF FlattenUnmatchedLeg
  <2>2. sel \in Spreads /\ Qty(sel, "short") \in Int
    BY <1>9 DEF FlattenUnmatchedLeg, TypeOK, Qty, Legs
  <2>3. OrdersKept
    BY <1>9, <2>2, FlattenKeeps DEF FlattenUnmatchedLeg, TypeOK
  <2>4. Frame
    BY <2>1, <2>3, BookFrame DEF TypeOK
  <2>5. pc' \in {"monitor", "backoff"} /\ UNCHANGED <<stop, store, volatile>>
    BY <1>9 DEF FlattenUnmatchedLeg, Goto
  <2>6. TypeOK'
    BY <2>4, <2>5 DEF TypeOK, OrdersKept
  <2>7. QED
    BY <2>4, <2>5, <2>6, CloseKept
<1>10. CASE RecordOpen
  <2>1. Frame
    BY <1>10, NoFaultKeepsDay, ReturnsKeepsDay, QuietFrame DEF RecordOpen
  <2>2. pc' \in {"monitor", "backoff"} /\ UNCHANGED <<stop, journal, volatile>>
    BY <1>10, ReturnsKeepsDay DEF RecordOpen, Goto
  <2>3. row' \in Lifecycle!Rows /\ (row'.status = "STOPPED" => row.status = "STOPPED")
    BY <1>10, OpenedRow DEF RecordOpen, TypeOK
  <2>4. TypeOK'
    BY <2>1, <2>2, <2>3 DEF TypeOK, OrdersKept
  <2>5. QED
    BY <2>1, <2>2, <2>3, <2>4, CloseKept
<1>11. QED BY <1>1, <1>2, <1>3, <1>4, <1>5, <1>6, <1>7, <1>8, <1>9, <1>10 DEF EntryLoop

\* The monitor and the close.
LEMMA MonitorInvariant == IInv /\ Monitor => IInv'
<1> SUFFICES ASSUME IInv, Monitor PROVE IInv'
  OBVIOUS
<1> USE DEF IInv, EntryUnopened, StrikesChosen, MonitoredOpen, ClosingForReason,
        SettleAfterClose, AwaitsTheClose, RecordsAFill, StoppedMeansClosed,
        Frame, PCs, EntryPcs, MonitorPcs, store, volatile
<1>1. CASE StartMonitor
  <2>1. Frame
    BY <1>1, NoFaultKeepsDay, FaultKeepsDay, QuietFrame DEF StartMonitor
  <2>2. /\ pc' \in {"watch", "post"} /\ UNCHANGED <<stop, store, sel, cur, legQty, exitKind>>
        /\ armed' \in BOOLEAN
        /\ pc' = "watch" => row.status = "OPEN"
    BY <1>1 DEF StartMonitor, Goto, OpenToday, ResumedArmed, TypeOK
  <2>3. TypeOK'
    BY <2>1, <2>2 DEF TypeOK, OrdersKept
  <2>4. QED
    BY <2>1, <2>2, <2>3, CloseKept
<1>2. CASE WatchEnds
  <2>1. Frame
    BY <1>2, NoFaultKeepsDay, QuietFrame DEF WatchEnds
  <2>2. pc' \in {"post"} /\ UNCHANGED <<stop, store, volatile>>
    BY <1>2 DEF WatchEnds, Goto
  <2>3. TypeOK'
    BY <2>1, <2>2 DEF TypeOK, OrdersKept
  <2>4. QED
    BY <2>1, <2>2, <2>3, CloseKept
<1>3. CASE Arm
  <2>1. Frame
    BY <1>3, ReturnsKeepsDay, QuietFrame DEF Arm
  <2>2. /\ pc' \in {"watch", "backoff"} /\ UNCHANGED <<stop, row, sel, cur, legQty, exitKind>>
        /\ armed' = TRUE
        /\ journal' = journal \cup {"armed"}
        /\ pc = "watch"
    BY <1>3, ReturnsKeepsDay DEF Arm
  <2>3. journal' \subseteq JournalEvents
    BY <2>2 DEF TypeOK, JournalEvents
  <2>4. TypeOK'
    BY <2>1, <2>2, <2>3 DEF TypeOK, OrdersKept
  <2>5. QED
    BY <2>1, <2>2, <2>3, <2>4, CloseKept
<1>4. CASE Suppress
  <2>1. Frame
    BY <1>4, ReturnsKeepsDay, QuietFrame DEF Suppress
  <2>2. /\ pc' \in {"post", "backoff"} /\ UNCHANGED <<stop, row, volatile>>
        /\ journal' = journal \cup {"suppressed"}
    BY <1>4, ReturnsKeepsDay DEF Suppress
  <2>3. journal' \subseteq JournalEvents
    BY <2>2 DEF TypeOK, JournalEvents
  <2>4. TypeOK'
    BY <2>1, <2>2, <2>3 DEF TypeOK, OrdersKept
  <2>5. QED
    BY <2>1, <2>2, <2>3, <2>4, CloseKept
<1>5. CASE Uneconomic
  <2>1. Frame
    BY <1>5, ReturnsKeepsDay, QuietFrame DEF Uneconomic
  <2>2. /\ pc' \in {"post", "backoff"} /\ UNCHANGED <<stop, row, volatile>>
        /\ journal' = journal \cup {"uneconomic"}
    BY <1>5, ReturnsKeepsDay DEF Uneconomic
  <2>3. journal' \subseteq JournalEvents
    BY <2>2 DEF TypeOK, JournalEvents
  <2>4. TypeOK'
    BY <2>1, <2>2, <2>3 DEF TypeOK, OrdersKept
  <2>5. QED
    BY <2>1, <2>2, <2>3, <2>4, CloseKept
<1>6. CASE Fire
  <2>1. Frame
    BY <1>6, ReturnsKeepsDay, QuietFrame DEF Fire
  <2>2. /\ pc' \in {"close_place", "backoff"} /\ UNCHANGED <<stop, row, sel, cur, legQty, armed>>
        /\ journal' = journal \cup {"fired"}
        /\ exitKind' = "STOP"
        /\ pc = "watch"
    BY <1>6, ReturnsKeepsDay DEF Fire
  <2>3. journal' \subseteq JournalEvents /\ exitKind' \in ExitKinds
    BY <2>2 DEF TypeOK, JournalEvents, ExitKinds
  <2>4. TypeOK'
    BY <2>1, <2>2, <2>3 DEF TypeOK, OrdersKept
  <2>5. QED
    BY <2>1, <2>2, <2>3, <2>4, CloseKept
<1>7. CASE EmergencyFlatten
  <2>1. Frame
    BY <1>7, NoFaultKeepsDay, QuietFrame DEF EmergencyFlatten
  <2>2. /\ pc' \in {"close_place"} /\ UNCHANGED <<stop, store, sel, cur, legQty, armed>>
        /\ exitKind' = "OUTAGE_FLATTEN"
        /\ pc = "watch"
    BY <1>7 DEF EmergencyFlatten, Goto
  <2>3. exitKind' \in ExitKinds
    BY <2>2 DEF ExitKinds
  <2>4. TypeOK'
    BY <2>1, <2>2, <2>3 DEF TypeOK, OrdersKept
  <2>5. QED
    BY <2>1, <2>2, <2>3, <2>4, CloseKept
<1>8. CASE PlaceClose
  <2>1. NewOrder("close", row.sp, SellCombo, clock < Closed) \in Order
    BY <1>8, NewOrderType, DeltaType, OpenedFields DEF PlaceClose, OrderKinds, TypeOK
  <2>2. /\ OrdersKept /\ UNCHANGED pos /\ DayKept /\ UNCHANGED stop
        /\ pc' \in {"close_await", "backoff"}
        /\ UNCHANGED <<store, sel, legQty, armed, exitKind>>
        /\ cur' = 0 \/ (cur' \in Nat /\ cur' \in Ids' /\ orders'[cur'].kind = "close")
    BY <1>8, <2>1, SentOrder DEF PlaceClose, NewOrder
  <2>3. Frame
    BY <2>2, BookFrame DEF TypeOK
  <2>4. TypeOK'
    BY <2>2, <2>3 DEF TypeOK, OrdersKept
  <2>5. QED
    BY <1>8, <2>2, <2>3, <2>4, CloseKept DEF PlaceClose
<1>9. CASE AwaitClose
  <2>1. Frame
    BY <1>9, NoFaultKeepsDay, FaultKeepsDay, QuietFrame DEF AwaitClose, AwaitFilled, AwaitNone
  <2>2. /\ pc' \in {"close_record", "post"} /\ UNCHANGED <<stop, store, volatile>>
        /\ pc = "close_await"
        /\ pc' = "close_record" => cur # 0 /\ Filled(cur)
    BY <1>9 DEF AwaitClose, Goto, AwaitFilled, AwaitNone
  <2>3. pc' = "close_record" => FilledOf("close") # {}
    BY <2>2 DEF FilledOf
  <2>4. TypeOK'
    BY <2>1, <2>2, <2>3 DEF TypeOK, OrdersKept
  <2>5. QED
    BY <2>1, <2>2, <2>3, <2>4, CloseKept
<1>10. CASE RecordClose
  <2>1. Frame
    BY <1>10, ReturnsKeepsDay, QuietFrame DEF RecordClose
  <2>2. /\ pc = "close_record" /\ pc' \in {"post", "backoff"}
        /\ UNCHANGED <<stop, journal, volatile>>
    BY <1>10, ReturnsKeepsDay DEF RecordClose
  <2>3. row' \in Lifecycle!Rows
    BY <1>10, EndedRow DEF RecordClose, TypeOK
  <2>4. TypeOK'
    BY <2>1, <2>2, <2>3 DEF TypeOK, OrdersKept
  <2>5. QED
    BY <2>1, <2>2, <2>4, CloseKept
<1>11. QED BY <1>1, <1>2, <1>3, <1>4, <1>5, <1>6, <1>7, <1>8, <1>9, <1>10 DEF Monitor

\* The settlement and the back-off.
LEMMA EndInvariant == IInv /\ SessionEnd => IInv'
<1> SUFFICES ASSUME IInv, SessionEnd PROVE IInv'
  OBVIOUS
<1> USE DEF IInv, EntryUnopened, StrikesChosen, MonitoredOpen, ClosingForReason,
        SettleAfterClose, AwaitsTheClose, RecordsAFill, StoppedMeansClosed,
        Frame, PCs, EntryPcs, MonitorPcs, store, volatile
<1>1. CASE PostClose
  <2>1. Frame
    BY <1>1, NoFaultKeepsDay, QuietFrame DEF PostClose
  <2>2. /\ pc' \in {"down", "settle"} /\ UNCHANGED <<stop, store, volatile>>
        /\ pc' = "settle" => clock = Closed
    BY <1>1 DEF PostClose, Goto
  <2>3. TypeOK'
    BY <2>1, <2>2 DEF TypeOK, OrdersKept
  <2>4. QED
    BY <2>1, <2>2, <2>3, CloseKept, ClosedStays
<1>2. CASE RecordSettlement
  <2>1. Frame
    BY <1>2, ReturnsKeepsDay, NoFaultKeepsDay, FaultKeepsDay, QuietFrame DEF RecordSettlement
  <2>2. pc' \in {"tomorrow", "backoff"} /\ UNCHANGED <<stop, journal, volatile>>
    BY <1>2, ReturnsKeepsDay DEF RecordSettlement, Goto
  <2>3. row' \in Lifecycle!Rows /\ (row'.status = "STOPPED" => row.status = "STOPPED")
    BY <1>2, EndedRow DEF RecordSettlement, OpenToday, TypeOK
  <2>4. TypeOK'
    BY <2>1, <2>2, <2>3 DEF TypeOK, OrdersKept
  <2>5. QED
    BY <2>1, <2>2, <2>3, <2>4, CloseKept
<1>3. CASE Backoff
  <2>1. Frame
    BY <1>3, NoFaultKeepsDay, QuietFrame DEF Backoff
  <2>2. pc' \in {"down", "start"} /\ UNCHANGED <<stop, store, volatile>>
    BY <1>3 DEF Backoff, Goto
  <2>3. TypeOK'
    BY <2>1, <2>2 DEF TypeOK, OrdersKept
  <2>4. QED
    BY <2>1, <2>2, <2>3, CloseKept
<1>4. QED BY <1>1, <1>2, <1>3 DEF SessionEnd

\* A raise, a shutdown request and a crash.
LEMMA FailureInvariant == IInv /\ Failure => IInv'
<1> SUFFICES ASSUME IInv, Failure PROVE IInv'
  OBVIOUS
<1> USE DEF IInv, EntryUnopened, StrikesChosen, MonitoredOpen, ClosingForReason,
        SettleAfterClose, AwaitsTheClose, RecordsAFill, StoppedMeansClosed,
        Frame, PCs, EntryPcs, MonitorPcs, store, volatile
<1>1. CASE SessionRaises
  <2>1. Frame
    BY <1>1, FaultKeepsDay, QuietFrame DEF SessionRaises
  <2>2. pc' \in {"backoff"} /\ UNCHANGED <<stop, store, volatile>>
    BY <1>1 DEF SessionRaises, Goto
  <2>3. TypeOK'
    BY <2>1, <2>2 DEF TypeOK, OrdersKept
  <2>4. QED
    BY <2>1, <2>2, <2>3, CloseKept
<1>2. CASE Sigterm
  <2>1. Frame
    BY <1>2, FaultKeepsDay, QuietFrame DEF Sigterm
  <2>2. stop' = TRUE /\ UNCHANGED <<pc, store, volatile>>
    BY <1>2 DEF Sigterm
  <2>3. TypeOK'
    BY <2>1, <2>2 DEF TypeOK, OrdersKept
  <2>4. QED
    BY <2>1, <2>2, <2>3, CloseKept, ClosedStays
<1>3. CASE Crash
  <2>1. Frame
    BY <1>3, FaultKeepsDay, QuietFrame DEF Crash
  <2>2. pc' \in {"down"} /\ UNCHANGED <<stop, store, volatile>>
    BY <1>3 DEF Crash, Goto
  <2>3. TypeOK'
    BY <2>1, <2>2 DEF TypeOK, OrdersKept
  <2>4. QED
    BY <2>1, <2>2, <2>3, CloseKept
<1>4. QED BY <1>1, <1>2, <1>3 DEF Failure

\* Executions, late legs and rejections at IBKR.
LEMMA AccountInvariant == IInv /\ Account => IInv'
<1> SUFFICES ASSUME IInv, Account PROVE IInv'
  OBVIOUS
<1> USE DEF IInv, EntryUnopened, StrikesChosen, MonitoredOpen, ClosingForReason,
        SettleAfterClose, AwaitsTheClose, RecordsAFill, StoppedMeansClosed,
        Frame, PCs, EntryPcs, MonitorPcs, store, volatile
<1>1. CASE OrderFills
  <2>1. \E i \in Ids, at \in SUBSET Legs : Execute(i, at)
    BY <1>1 DEF OrderFills
  <2>2. OrdersKept /\ pos' \in [Spreads -> [Legs -> Int]]
    BY <2>1, ExecuteKeeps DEF TypeOK
  <2>3. DayKept /\ UNCHANGED <<store, pc, stop, volatile>>
    BY <1>1, NoFaultKeepsDay, FaultKeepsDay DEF OrderFills
  <2>4. Frame
    BY <2>2, <2>3, BookFrame
  <2>5. TypeOK'
    BY <2>3, <2>4 DEF TypeOK, OrdersKept
  <2>6. QED
    BY <2>3, <2>4, <2>5, CloseKept, ClosedStays
<1>2. CASE LegPosts
  <2>1. \E i \in Ids, leg \in Legs : PostLeg(i, leg)
    BY <1>2 DEF LegPosts
  <2>2. OrdersKept /\ pos' \in [Spreads -> [Legs -> Int]]
    BY <2>1, PostLegKeeps DEF TypeOK
  <2>3. DayKept /\ UNCHANGED <<store, pc, stop, volatile>>
    BY <1>2 DEF LegPosts, DayKept, day, TypeOK
  <2>4. Frame
    BY <2>2, <2>3, BookFrame
  <2>5. TypeOK'
    BY <2>3, <2>4 DEF TypeOK, OrdersKept
  <2>6. QED
    BY <2>3, <2>4, <2>5, CloseKept, ClosedStays
<1>3. CASE OrderRejected
  <2>1. \E i \in Ids : Working(i) /\ orders' = Cancelled({i}) /\ UNCHANGED pos
    BY <1>3 DEF OrderRejected, Reject
  <2>2. OrdersKept /\ pos' \in [Spreads -> [Legs -> Int]]
    BY <2>1, CancelKeeps DEF TypeOK
  <2>3. DayKept /\ UNCHANGED <<store, pc, stop, volatile>>
    BY <1>3, FaultKeepsDay DEF OrderRejected
  <2>4. Frame
    BY <2>2, <2>3, BookFrame
  <2>5. TypeOK'
    BY <2>3, <2>4 DEF TypeOK, OrdersKept
  <2>6. QED
    BY <2>3, <2>4, <2>5, CloseKept, ClosedStays
<1>4. QED BY <1>1, <1>2, <1>3 DEF Account

\* A new process knows nothing, and the clock ends the session and its orders.
LEMMA RestartInvariant == IInv /\ Restart => IInv'
<1> SUFFICES ASSUME IInv, Restart PROVE IInv'
  OBVIOUS
<1> USE DEF IInv, EntryUnopened, StrikesChosen, MonitoredOpen, ClosingForReason,
        SettleAfterClose, AwaitsTheClose, RecordsAFill, StoppedMeansClosed,
        Frame, PCs, EntryPcs, MonitorPcs, store, volatile
<1>1. Frame
  BY NoFaultKeepsDay, QuietFrame DEF Restart
<1>2. /\ pc' = "start" /\ stop' = FALSE /\ UNCHANGED store
      /\ sel' = NoSpread /\ cur' = 0 /\ legQty' = 0 /\ armed' = FALSE /\ exitKind' = "NONE"
  BY DEF Restart
<1>3. /\ sel' \in Spreads \cup {NoSpread} /\ cur' \in Nat /\ legQty' \in Int
      /\ exitKind' \in ExitKinds
  BY <1>2 DEF ExitKinds
<1>4. stop' \in BOOLEAN /\ armed' \in BOOLEAN /\ pc' \in PCs
  BY <1>2
<1>5. TypeOK'
  BY <1>1, <1>2, <1>3, <1>4 DEF TypeOK, OrdersKept
<1>6. QED BY <1>1, <1>2, <1>5, CloseKept

\* The clock keeps the invariant; it ends TIF=DAY orders only.
LEMMA TickInvariant == IInv /\ Tick => IInv'
<1> SUFFICES ASSUME IInv, Tick PROVE IInv'
  OBVIOUS
<1> USE DEF IInv, EntryUnopened, StrikesChosen, MonitoredOpen, ClosingForReason,
        SettleAfterClose, AwaitsTheClose, RecordsAFill, StoppedMeansClosed,
        Frame, PCs, EntryPcs, MonitorPcs, store, volatile
<1>1. OrdersKept
  BY CancelKeeps, UnchangedKeeps DEF Tick, TypeOK
<1>2. clock \in PreEntry..Closed /\ clock < Closed /\ clock' = clock + 1
  BY DEF Tick, TypeOK
<1>3. clock' \in PreEntry..Closed /\ clock' >= clock
  BY <1>2 DEF PreEntry, Closed
<1>4. Frame
  BY <1>1, <1>3 DEF Tick, TypeOK
<1>5. UNCHANGED <<pc, stop, store, volatile>>
  BY DEF Tick
<1>6. TypeOK'
  BY <1>4, <1>5 DEF TypeOK, OrdersKept
<1>7. QED BY <1>4, <1>5, <1>6, CloseKept, ClosedStays

\* A step that changes nothing keeps the invariant.
LEMMA StutterInvariant == IInv /\ UNCHANGED vars => IInv'
BY DEF IInv, vars, account, day, store, volatile, TypeOK, EntryUnopened, StrikesChosen,
       MonitoredOpen, ClosingForReason, SettleAfterClose, AwaitsTheClose, RecordsAFill,
       StoppedMeansClosed, FilledOf, Filled, Ids

\* Every step keeps the invariant.
LEMMA StepInvariant == IInv /\ [Next]_vars => IInv'
BY SessionInvariant, EntryInvariant, MonitorInvariant, EndInvariant, FailureInvariant,
   AccountInvariant, RestartInvariant, TickInvariant, StutterInvariant
   DEF Next, Process, DayOver

\* The inductive invariant holds in every reachable state: what each point of
\* scheduler.py and strategy.py may rely on about the row, the chosen strikes
\* and the order it waits for, whatever faults occur.
THEOREM Invariance == Spec => []IInv
<1>1. Init => IInv
  BY InitInvariant
<1>2. IInv /\ [Next]_vars => IInv'
  BY StepInvariant
<1>3. QED BY <1>1, <1>2, PTL DEF Spec

\* Every variable keeps its type.
THEOREM TypeCorrect == Spec => []TypeOK
<1>1. IInv => TypeOK
  BY DEF IInv
<1>2. QED BY <1>1, Invariance, PTL

\* record_close is only ever written for a close order that executed: a row is
\* STOPPED only if the spread really was sold.
THEOREM StoppedRowsWereClosed == Spec => []StoppedMeansClosed
<1>1. IInv => StoppedMeansClosed
  BY DEF IInv
<1>2. QED BY <1>1, Invariance, PTL

-------------------------------------------------------------------------
(* Who sends orders.                                                       *)

\* Rewriting orders in place adds none.
LEMMA CancelSendsNone ==
    ASSUME orders \in Seq(Order), NEW S, orders' = Cancelled(S)
    PROVE  Len(orders') = Len(orders)
<1>1. DOMAIN orders' = 1..Len(orders) /\ Len(orders) \in Nat
  BY LenProperties DEF Cancelled, Ids
<1>2. orders' = [i \in 1..Len(orders) |-> orders'[i]]
  BY <1>1 DEF Cancelled, Ids
<1>3. QED BY <1>1, <1>2

\* An execution sends no order.
LEMMA FillSendsNone ==
    ASSUME orders \in Seq(Order), NEW i \in Ids, NEW st, NEW posted,
           orders' = [orders EXCEPT ![i].st = st, ![i].posted = posted]
    PROVE  Len(orders') = Len(orders)
BY LenProperties DEF Ids

\* A position report sends no order.
LEMMA PostSendsNone ==
    ASSUME orders \in Seq(Order), NEW i \in Ids, NEW posted,
           orders' = [orders EXCEPT ![i].posted = posted]
    PROVE  Len(orders') = Len(orders)
BY LenProperties DEF Ids

\* An order is only ever added by the entry, the close and the flatten.
LEMMA WhoSends ==
    ASSUME TypeOK, [Next]_vars, Len(orders') > Len(orders)
    PROVE  PlaceEntry \/ PlaceClose \/ FlattenUnmatchedLeg
<1>1. orders \in Seq(Order) /\ Len(orders) \in Nat
  BY LenProperties DEF TypeOK
<1>2. UNCHANGED orders => FALSE
  BY <1>1
<1>3. \A S : orders' = Cancelled(S) => FALSE
  BY <1>1, CancelSendsNone
<1>4. ~Session
  BY <1>2, <1>3 DEF Session, WakeForSession, Reconcile, CancelOrphans, DecideEntry, account
<1>5. EntryLoop => PlaceEntry \/ FlattenUnmatchedLeg
  BY <1>2, <1>3 DEF EntryLoop, LoopHead, SoftRetry, AwaitEntry, Reprice, CancelEntry,
       VerifyLegs, ReadLongLeg, RecordOpen, account
<1>6. Monitor => PlaceClose
  BY <1>2 DEF Monitor, StartMonitor, WatchEnds, Arm, Suppress, Uneconomic, Fire,
       EmergencyFlatten, AwaitClose, RecordClose, account
<1>7. ~SessionEnd /\ ~Failure /\ ~Restart /\ ~DayOver /\ ~UNCHANGED vars
  BY <1>2 DEF SessionEnd, PostClose, RecordSettlement, Backoff, Failure, SessionRaises,
       Sigterm, Crash, Restart, DayOver, vars, account
<1>8. ~Tick
  BY <1>2, <1>3 DEF Tick
<1>9. ~Account
  <2>1. ~OrderFills
    <3>1. ASSUME NEW i \in Ids, NEW at, Execute(i, at)
          PROVE  FALSE
      BY <1>1, <3>1, FillSendsNone DEF Execute
    <3>2. QED BY <3>1 DEF OrderFills
  <2>2. ~LegPosts
    <3>1. ASSUME NEW i \in Ids, NEW leg, PostLeg(i, leg)
          PROVE  FALSE
      BY <1>1, <3>1, PostSendsNone DEF PostLeg
    <3>2. QED BY <3>1 DEF LegPosts
  <2>3. ~OrderRejected
    BY <1>3 DEF OrderRejected, Reject
  <2>4. QED BY <2>1, <2>2, <2>3 DEF Account
<1>10. QED BY <1>4, <1>5, <1>6, <1>7, <1>8, <1>9 DEF Next, Process

\* What the three of them send.
LEMMA WhatIsSent ==
    ASSUME IInv, [Next]_vars, Len(orders') > Len(orders)
    PROVE  LET o == orders'[Len(orders')]
           IN  \/ PlaceEntry /\ o.kind = "entry"
               \/ PlaceClose /\ o.kind = "close" /\ o.sp = row.sp
               \/ FlattenUnmatchedLeg /\ o.kind = "flatten"
<1> DEFINE o == orders'[Len(orders')]
<1>1. orders \in Seq(Order) /\ Len(orders) \in Nat
  BY LenProperties DEF IInv, TypeOK
<1>2. ASSUME NEW x, orders' = Append(orders, x)
      PROVE  o = x
  BY <1>1, <1>2
<1>3. CASE PlaceEntry
  BY <1>2, <1>3 DEF PlaceEntry, Send, NewOrder
<1>4. CASE PlaceClose
  BY <1>2, <1>4 DEF PlaceClose, Send, NewOrder
<1>5. CASE FlattenUnmatchedLeg
  <2>1. PICK q : SendFlatten(q)
    BY <1>5 DEF FlattenUnmatchedLeg
  <2>2. orders' = orders => FALSE
    BY <1>1
  <2>3. PICK d : orders' = Append(orders, NewOrder("flatten", sel, d, clock < Closed))
    BY <2>1, <2>2 DEF SendFlatten
  <2>4. QED BY <1>2, <1>5, <2>3 DEF NewOrder
<1>6. QED BY <1>3, <1>4, <1>5, WhoSends DEF IInv

\* No entry follows a recorded spread (I7), for every number of restarts, retries
\* and faults: attempt_until_filled only runs behind today_already_opened.
THEOREM NoReentryEver == Spec => NoReentry
<1>1. IInv /\ [Next]_vars => [Sent("entry") => row.status = "ABSENT" /\ ~noEntry]_vars
  <2> SUFFICES ASSUME IInv, [Next]_vars, Sent("entry")
               PROVE  row.status = "ABSENT" /\ ~noEntry
    OBVIOUS
  <2>1. PlaceEntry
    BY WhatIsSent DEF Sent
  <2>2. QED BY <2>1, AbsentRow DEF IInv, EntryUnopened, PlaceEntry, EntryPcs
<1>2. QED BY <1>1, Invariance, PTL DEF Spec, NoReentry

\* submit_close_market only ever sells the spread of a row that is OPEN.
THEOREM ClosesOnlyOpenRows == Spec => CloseOnlyOpenRow
<1>1. IInv /\ [Next]_vars
        => [Sent("close") =>
              row.status = "OPEN" /\ orders'[Len(orders')].sp = row.sp]_vars
  <2> SUFFICES ASSUME IInv, [Next]_vars, Sent("close")
               PROVE  row.status = "OPEN" /\ orders'[Len(orders')].sp = row.sp
    OBVIOUS
  <2>1. PlaceClose /\ orders'[Len(orders')].sp = row.sp
    BY WhatIsSent DEF Sent
  <2>2. QED BY <2>1 DEF IInv, MonitoredOpen, PlaceClose, MonitorPcs
<1>2. QED BY <1>1, Invariance, PTL DEF Spec, CloseOnlyOpenRow

-------------------------------------------------------------------------
(* The stored row implements SpreadLifecycle.                              *)

\* All but five actions leave the row and the clock alone.
LEMMA RowStands ==
    ASSUME [Next]_vars
    PROVE  \/ Reconcile \/ RecordOpen \/ RecordClose \/ RecordSettlement \/ Tick
           \/ UNCHANGED <<row, clock>>
<1>1. Session => Reconcile \/ UNCHANGED <<row, clock>>
  BY DEF Session, WakeForSession, CancelOrphans, DecideEntry, NoFault, Fault, day, store
<1>2. EntryLoop => RecordOpen \/ UNCHANGED <<row, clock>>
  BY DEF EntryLoop, LoopHead, SoftRetry, PlaceEntry, AwaitEntry, Reprice, CancelEntry,
       VerifyLegs, ReadLongLeg, FlattenUnmatchedLeg, Send, AwaitFilled, AwaitNone,
       ReturnsTo, NoFault, Fault, day, store
<1>3. Monitor => RecordClose \/ UNCHANGED <<row, clock>>
  BY DEF Monitor, StartMonitor, WatchEnds, Arm, Suppress, Uneconomic, Fire,
       EmergencyFlatten, PlaceClose, AwaitClose, Send, AwaitFilled, AwaitNone,
       ReturnsTo, NoFault, Fault, day, store
<1>4. SessionEnd => RecordSettlement \/ UNCHANGED <<row, clock>>
  BY DEF SessionEnd, PostClose, Backoff, NoFault, day, store
<1>5. Failure \/ Restart \/ Account => UNCHANGED <<row, clock>>
  BY DEF Failure, SessionRaises, Sigterm, Crash, Restart, Account, OrderFills, LegPosts,
       OrderRejected, NoFault, Fault, day, store
<1>6. DayOver \/ UNCHANGED vars => UNCHANGED <<row, clock>>
  BY DEF DayOver, vars, day, store
<1>7. QED BY <1>1, <1>2, <1>3, <1>4, <1>5, <1>6 DEF Next, Process

\* The row of the trading day, whatever crashes, retries and faults write it,
\* is opened once, keeps its strikes and its origin, leaves OPEN at most once
\* and is settled only after the close: record_close and record_settlement
\* (state.py) are unconditional, but their callers keep the contract.
THEOREM LifecycleImplemented == Spec => LifecycleKept
<1>1. Init => Lifecycle!Init
  BY DEF Init, Lifecycle!Init, PreEntry, Closed
<1>2. IInv /\ [Next]_vars => [Lifecycle!Next]_Lifecycle!vars
  <2> SUFFICES ASSUME IInv, [Next]_vars
               PROVE  Lifecycle!Next \/ UNCHANGED Lifecycle!vars
    OBVIOUS
  <2> USE DEF IInv, NoFault, Fault, day
  <2>1. CASE UNCHANGED <<row, clock>>
    BY <2>1 DEF Lifecycle!vars
  <2>2. CASE Reconcile
    <3>1. UNCHANGED clock
      BY <2>2 DEF Reconcile, ReturnsTo
    <3>2. \/ UNCHANGED row
          \/ row = Lifecycle!Absent /\ \E s \in Spreads : row' = Lifecycle!Opened(s, TRUE)
      BY <2>2 DEF Reconcile, AdoptInto, Detected
    <3>3. QED BY <3>1, <3>2 DEF Lifecycle!Next, Lifecycle!Open, Lifecycle!vars
  <2>3. CASE RecordOpen
    <3>1. UNCHANGED clock /\ sel \in Spreads
      BY <2>3 DEF RecordOpen, ReturnsTo, StrikesChosen, EntryPcs
    <3>2. UNCHANGED row \/ (row = Lifecycle!Absent /\ row' = Lifecycle!Opened(sel, FALSE))
      BY <2>3 DEF RecordOpen
    <3>3. QED BY <3>1, <3>2 DEF Lifecycle!Next, Lifecycle!Open, Lifecycle!vars
  <2>4. CASE RecordClose
    <3>1. UNCHANGED clock /\ row.status = "OPEN" /\ exitKind \in {"STOP", "OUTAGE_FLATTEN"}
      BY <2>4 DEF RecordClose, ReturnsTo, MonitoredOpen, ClosingForReason, MonitorPcs
    <3>2. QED BY <2>4, <3>1 DEF RecordClose, ClosedAs, Lifecycle!Next, Lifecycle!Stop
  <2>5. CASE RecordSettlement
    <3>1. UNCHANGED clock /\ clock = Closed
      BY <2>5 DEF RecordSettlement, ReturnsTo, SettleAfterClose
    <3>2. QED BY <2>5, <3>1
             DEF RecordSettlement, OpenToday, Lifecycle!Next, Lifecycle!Settle, Lifecycle!vars
  <2>6. CASE Tick
    <3>1. clock # Closed /\ UNCHANGED row
      BY <2>6 DEF Tick, store, Closed
    <3>2. CASE clock' = Closed
      BY <3>1, <3>2 DEF Lifecycle!Next, Lifecycle!MarketCloses
    <3>3. CASE clock' # Closed
      BY <3>1, <3>3 DEF Lifecycle!vars
    <3>4. QED BY <3>2, <3>3
  <2>7. QED BY <2>1, <2>2, <2>3, <2>4, <2>5, <2>6, RowStands
<1>3. QED BY <1>1, <1>2, Invariance, PTL DEF Spec, Lifecycle!Spec, LifecycleKept

-------------------------------------------------------------------------
(* The stop never disarms.                                                 *)

\* The monitor is armed exactly when the journal, or an adoption, says so.
ArmedAsJournalled == pc = "watch" => (armed <=> ResumedArmed)

\* The journal only grows, and an adopted row stays adopted.
LEMMA ResumedForGood == IInv /\ ResumedArmed /\ [Next]_vars => ResumedArmed'
<1> SUFFICES ASSUME IInv, ResumedArmed, [Next]_vars PROVE ResumedArmed'
  OBVIOUS
<1>1. journal \subseteq journal'
  BY DEF Next, vars, Process, Session, WakeForSession, Reconcile, CancelOrphans, DecideEntry,
       EntryLoop, LoopHead, SoftRetry, PlaceEntry, AwaitEntry, Reprice, CancelEntry,
       VerifyLegs, ReadLongLeg, FlattenUnmatchedLeg, RecordOpen, Send,
       Monitor, StartMonitor, WatchEnds, Arm, Suppress, Uneconomic, Fire,
       EmergencyFlatten, PlaceClose, AwaitClose, RecordClose,
       SessionEnd, PostClose, RecordSettlement, Backoff,
       Failure, SessionRaises, Sigterm, Crash, Restart, Tick, Account, OrderFills,
       LegPosts, OrderRejected, DayOver, store
<1>2. row.adopted => row'.adopted
  <2>1. row # Lifecycle!Absent \/ ~row.adopted
    BY DEF Lifecycle!Absent
  <2>2. CASE UNCHANGED row
    BY <2>2
  <2>3. CASE Reconcile \/ RecordOpen
    BY <2>1, <2>3 DEF Reconcile, RecordOpen, AdoptInto
  <2>4. CASE RecordClose \/ RecordSettlement
    BY <2>4 DEF RecordClose, RecordSettlement, ClosedAs, Lifecycle!Ended
  <2>5. CASE Tick
    BY <2>5 DEF Tick, store
  <2>6. QED BY <2>2, <2>3, <2>4, <2>5, RowStands
<1>3. QED BY <1>1, <1>2 DEF ResumedArmed

\* The process enters the watch armed as journalled, and arms by journalling it.
LEMMA ArmedStep == IInv /\ ArmedAsJournalled /\ [Next]_vars => ArmedAsJournalled'
<1> SUFFICES ASSUME IInv, ArmedAsJournalled, [Next]_vars, pc' = "watch"
             PROVE  armed' <=> ResumedArmed'
  BY DEF ArmedAsJournalled
<1>1. CASE StartMonitor
  BY <1>1 DEF StartMonitor, ResumedArmed, Goto, store
<1>2. CASE Arm
  BY <1>2 DEF Arm, ResumedArmed
<1>3. CASE Tick \/ Account \/ Sigterm \/ DayOver \/ UNCHANGED vars
  BY <1>3 DEF ArmedAsJournalled, Tick, Account, OrderFills, LegPosts, OrderRejected,
       Sigterm, DayOver, vars, store, volatile, ResumedArmed
<1>4. ~Session /\ ~EntryLoop
  BY DEF Session, WakeForSession, Reconcile, CancelOrphans, DecideEntry, EntryLoop, LoopHead,
       SoftRetry, PlaceEntry, AwaitEntry, Reprice, CancelEntry, VerifyLegs, ReadLongLeg,
       FlattenUnmatchedLeg, RecordOpen, Send, ReturnsTo, Goto
<1>5. Monitor => StartMonitor \/ Arm
  BY DEF Monitor, WatchEnds, Suppress, Uneconomic, Fire, EmergencyFlatten, PlaceClose,
       AwaitClose, RecordClose, Send, ReturnsTo, Goto
<1>6. ~SessionEnd /\ ~SessionRaises /\ ~Crash /\ ~Restart
  BY DEF SessionEnd, PostClose, RecordSettlement, Backoff, SessionRaises, Crash, Restart,
       ReturnsTo, Goto
<1>7. QED BY <1>1, <1>2, <1>3, <1>4, <1>5, <1>6 DEF Next, Process, Failure

\* A stop that armed stays armed for every later monitor of the spread, over any
\* number of crashes and restarts: the arming is journalled in the step that
\* arms, state_from_journal_events reads it back, and nothing erases it.
THEOREM StopNeverDisarms == Spec => ArmedForGood
<1>1. Init => ArmedAsJournalled
  BY DEF Init, ArmedAsJournalled
<1>2. IInv /\ ArmedAsJournalled /\ [Next]_vars => ArmedAsJournalled'
  BY ArmedStep
<1>3. Spec => []ArmedAsJournalled
  BY <1>1, <1>2, Invariance, PTL DEF Spec
<1>4. IInv /\ ResumedArmed /\ [Next]_vars => ResumedArmed'
  BY ResumedForGood
<1>5. ArmedAsJournalled /\ pc = "watch" /\ armed => ResumedArmed
  BY DEF ArmedAsJournalled
<1>6. ArmedAsJournalled /\ ResumedArmed => (pc = "watch" => armed)
  BY DEF ArmedAsJournalled
<1>7. QED BY <1>3, <1>4, <1>5, <1>6, Invariance, PTL DEF Spec, ArmedForGood

-------------------------------------------------------------------------
(* Why the recovery of a session suffices: crashes, shutdowns, exceptions  *)
(* before and after an effect, rejections and missing quotes lead to no    *)
(* second filled entry, to no two combos working at once, to no position   *)
(* without a row and to no entry left unattended.  The faults that break   *)
(* these properties are excluded by the assumption of each theorem.        *)

\* The faults from which the recovery does not suffice.
Unrecovered == {"no_id", "query", "cancel", "late_fill", "leg"}
Recoverable == Faults \cap Unrecovered = {}

-------------------------------------------------------------------------
(* The book of a live process and of a dead one.                           *)

\* An entry that works or executed; a combo that works.
Live(i) == orders[i].kind = "entry" /\ orders[i].st # "cancelled"
Combo(i) == orders[i].kind \in {"entry", "close"} /\ Working(i)

\* At most one entry ever lives, at most one combo works, whole combos only.
BookShape ==
    /\ \A i \in Ids : /\ orders[i].kind \in {"entry", "close"}
                      /\ orders[i].kind = "entry" => orders[i].delta = BuyCombo
                      /\ Filled(i) => orders[i].posted = Legs
    /\ \A i, j \in Ids : Live(i) /\ Live(j) => i = j
    /\ \A i, j \in Ids : Combo(i) /\ Combo(j) => i = j

\* As long as no row is written, the report shows the entry that executed, if any:
\* what a restarted process detects is what was bought.
Bought(s) == \E i \in Ids : Filled(i) /\ orders[i].sp = s
BookMatches ==
    row = Lifecycle!Absent =>
        /\ \A i \in Ids : orders[i].kind = "entry"
        /\ \A s \in Spreads : /\ Qty(s, "long") = IF Bought(s) THEN 1 ELSE 0
                              /\ Qty(s, "short") = IF Bought(s) THEN -1 ELSE 0

\* The entry attempt knows its order, and that no other one lives.
AwaitPcs == {"await1", "reprice", "await2", "cancel"}
FilledPcs == {"verify", "flatten1", "flatten2", "record"}
OrderInHand ==
    /\ pc \in AwaitPcs \cup FilledPcs =>
          /\ cur \in Ids /\ orders[cur].kind = "entry" /\ orders[cur].sp = sel
    /\ pc \in AwaitPcs => \A i \in Ids : Live(i) => i = cur
    /\ pc \in {"reprice", "cancel"} /\ ~stop => ~Filled(cur)
    /\ pc \in FilledPcs => Filled(cur)
    /\ pc \in {"flatten1", "flatten2"} => stop
    /\ pc = "flatten2" => legQty = 1

\* Where a new order may be sent, none works; a process that is not told to stop
\* leaves no entry behind, working or without a row.
QuietPcs == {"decide", "loop", "soft_wait", "place", "monitor", "watch", "close_place"}
NothingLeft ==
    /\ pc \in QuietPcs \cup FilledPcs => \A i \in Ids : ~Combo(i)
    /\ pc = "place" => \A i \in Ids : ~Live(i)
    /\ pc \in PastEntryPcs => \A i \in Ids : ~(orders[i].kind = "entry" /\ Working(i))
    /\ pc \in {"orphans", "decide", "loop", "soft_wait"} \cup PastEntryPcs /\ ~stop =>
          row # Lifecycle!Absent \/ \A i \in Ids : ~(orders[i].kind = "entry" /\ Filled(i))

RInv == BookShape /\ BookMatches /\ OrderInHand /\ NothingLeft

-------------------------------------------------------------------------
(* How the book moves.                                                     *)

\* A step that leaves the account alone, and takes no row away, keeps the book.
LEMMA StillBook ==
    ASSUME BookShape, BookMatches, UNCHANGED account,
           row' = Lifecycle!Absent => row = Lifecycle!Absent
    PROVE  BookShape' /\ BookMatches'
BY DEF account, BookShape, BookMatches, Bought, Live, Combo, Ids, Working, Filled, Qty

\* An order of the book is an order.
LEMMA Entries == TypeOK => \A i \in Ids : i \in 1..Len(orders) /\ orders[i] \in Order
BY ElementOfSeq, LenProperties DEF Ids, TypeOK

\* A combo is accepted while none works, an entry while none lives.
LEMMA AcceptedCombo ==
    ASSUME TypeOK, BookShape, BookMatches,
           NEW kind \in {"entry", "close"}, NEW s \in Spreads,
           orders' = Append(orders,
               NewOrder(kind, s, IF kind = "entry" THEN BuyCombo ELSE SellCombo, clock < Closed)),
           UNCHANGED <<pos, row>>,
           \A i \in Ids : ~Combo(i),
           kind = "entry" => \A i \in Ids : ~Live(i),
           kind = "close" => row # Lifecycle!Absent
    PROVE  /\ BookShape' /\ BookMatches'
           /\ Len(orders) + 1 \in Ids'
           /\ orders'[Len(orders) + 1].kind = kind /\ orders'[Len(orders) + 1].sp = s
           /\ orders'[Len(orders) + 1].st # "filled"
           /\ \A i \in Ids' : \/ i = Len(orders) + 1
                              \/ i \in Ids /\ orders'[i] = orders[i]
<1> DEFINE delta == IF kind = "entry" THEN BuyCombo ELSE SellCombo
           o == NewOrder(kind, s, delta, clock < Closed)
           n == Len(orders) + 1
<1>1. o \in Order /\ o.kind = kind /\ o.sp = s /\ o.delta = delta /\ o.st # "filled"
  BY DeltaType, NewOrderType DEF NewOrder, OrderKinds
<1>2. OrdersKept /\ n \in Ids' /\ orders'[n] = o /\ Len(orders') = n
  BY <1>1, AppendKeeps DEF TypeOK
<1>3. /\ Len(orders) \in Nat /\ Ids = 1..Len(orders) /\ Ids' = 1..n
      /\ \A i \in Ids : orders'[i] = orders[i]
  BY <1>1, <1>2, LenProperties, AppendProperties DEF TypeOK, Ids, OrdersKept
<1>4. \A i \in Ids' : i = n \/ (i \in Ids /\ orders'[i] = orders[i])
  BY <1>3
<1>5. BookShape'
  <2>1. \A i \in Ids' : i # n => (Live(i)' <=> Live(i)) /\ ~Combo(i)'
    BY <1>4 DEF Live, Combo, Working
  <2>2. \A i \in Ids' : i = n /\ kind = "close" => ~Live(i)'
    BY <1>1, <1>2 DEF Live
  <2>3. \A i \in Ids' : /\ orders'[i].kind \in {"entry", "close"}
                        /\ orders'[i].kind = "entry" => orders'[i].delta = BuyCombo
                        /\ Filled(i)' => orders'[i].posted = Legs
    BY <1>1, <1>2, <1>4 DEF BookShape, Filled
  <2>4. \A i, j \in Ids' : Live(i)' /\ Live(j)' => i = j
    BY <1>4, <2>1, <2>2, SMT DEF BookShape
  <2>5. \A i, j \in Ids' : Combo(i)' /\ Combo(j)' => i = j
    BY <2>1
  <2> QED
    BY <2>3, <2>4, <2>5 DEF BookShape
<1>6. BookMatches'
  <2> SUFFICES ASSUME row' = Lifecycle!Absent PROVE BookMatches'
    BY DEF BookMatches
  <2>1. kind = "entry"
    OBVIOUS
  <2>2. \A i \in Ids' : orders'[i].kind = "entry"
    BY <1>1, <1>2, <1>4, <2>1 DEF BookMatches
  <2>3. ASSUME NEW t \in Spreads PROVE Bought(t)' <=> Bought(t)
    BY <1>1, <1>2, <1>3, <1>4 DEF Bought, Filled
  <2> QED
    BY <2>2, <2>3 DEF BookMatches, Qty
<1> QED
  BY <1>1, <1>2, <1>4, <1>5, <1>6

\* Cancelling working orders keeps the book, and leaves those alone that executed.
LEMMA CancelledBook ==
    ASSUME TypeOK, BookShape, BookMatches, NEW S, orders' = Cancelled(S),
           \A i \in S \cap Ids : Working(i), UNCHANGED <<pos, row>>
    PROVE  /\ BookShape' /\ BookMatches' /\ Ids' = Ids
           /\ \A i \in Ids : /\ orders'[i].kind = orders[i].kind
                             /\ orders'[i].sp = orders[i].sp
                             /\ Filled(i)' <=> Filled(i)
                             /\ Working(i)' <=> Working(i) /\ i \notin S
                             /\ Live(i)' => Live(i)
<1>1. Ids' = Ids
  BY DEF Cancelled, Ids
<1>2. ASSUME NEW i \in Ids
      PROVE  /\ orders'[i].kind = orders[i].kind /\ orders'[i].sp = orders[i].sp
             /\ orders'[i].delta = orders[i].delta /\ orders'[i].posted = orders[i].posted
             /\ orders'[i].st = IF i \in S THEN "cancelled" ELSE orders[i].st
  BY Entries DEF Cancelled, Order
<1>3. \A i \in Ids : /\ Filled(i)' <=> Filled(i)
                     /\ Working(i)' <=> Working(i) /\ i \notin S
                     /\ Live(i)' => Live(i)
                     /\ Combo(i)' => Combo(i)
  BY <1>2 DEF Filled, Working, Live, Combo
<1>4. BookShape'
  BY <1>1, <1>2, <1>3 DEF BookShape
<1>5. BookMatches'
  <2>1. \A s \in Spreads : Bought(s)' <=> Bought(s)
    BY <1>1, <1>2, <1>3 DEF Bought
  <2> QED
    BY <1>1, <1>2, <2>1 DEF BookMatches, Qty
<1> QED
  BY <1>1, <1>2, <1>3, <1>4, <1>5

\* So does an execution: the report shows both legs of the spread.
LEMMA ExecutedBook ==
    ASSUME TypeOK, BookShape, BookMatches, NEW k \in Ids, Execute(k, Legs), UNCHANGED row
    PROVE  /\ BookShape' /\ BookMatches' /\ Ids' = Ids
           /\ \A i \in Ids : /\ orders'[i].kind = orders[i].kind
                             /\ orders'[i].sp = orders[i].sp
                             /\ Filled(i)' <=> Filled(i) \/ i = k
                             /\ Working(i)' <=> Working(i) /\ i # k
                             /\ Live(i)' => Live(i)
<1>1. Ids' = Ids
  BY DEF Execute, Ids
<1>2. ASSUME NEW i \in Ids
      PROVE  /\ orders'[i].kind = orders[i].kind /\ orders'[i].sp = orders[i].sp
             /\ orders'[i].delta = orders[i].delta
             /\ orders'[i].posted = IF i = k THEN Legs ELSE orders[i].posted
             /\ orders'[i].st = IF i = k THEN "filled" ELSE orders[i].st
  BY Entries DEF Execute, Order, Ids
<1>3. \A i \in Ids : /\ Filled(i)' <=> Filled(i) \/ i = k
                     /\ Working(i)' <=> Working(i) /\ i # k
                     /\ Live(i)' => Live(i)
                     /\ Combo(i)' => Combo(i)
  <2>1. orders[k].st = "working"
    BY DEF Execute, Working
  <2>2. \A i \in Ids : i # k => orders'[i].st = orders[i].st
    BY <1>2
  <2>3. orders'[k].st = "filled"
    BY <1>2
  <2> QED
    BY <1>2, <2>1, <2>2, <2>3 DEF Filled, Working, Live, Combo
<1>4. BookShape'
  BY <1>1, <1>2, <1>3 DEF BookShape
<1>5. BookMatches'
  <2> SUFFICES ASSUME row = Lifecycle!Absent PROVE BookMatches'
    BY DEF BookMatches
  <2>1. \A i \in Ids : orders[i].kind = "entry" /\ (Filled(i) => i = k)
    BY DEF BookShape, BookMatches, Live, Filled, Execute, Working
  <2>2. \A s \in Spreads : ~Bought(s)
    BY <2>1 DEF Bought, Execute, Working, Filled
  <2>3. orders[k].delta = BuyCombo /\ orders[k].sp \in Spreads
    BY <2>1, Entries DEF BookShape, Order
  <2>4. \A s \in Spreads : Bought(s)' <=> s = orders[k].sp
    BY <1>1, <1>2, <1>3, <2>2 DEF Bought
  <2>5. \A s \in Spreads : /\ Qty(s, "long")' = IF s = orders[k].sp THEN 1 ELSE 0
                           /\ Qty(s, "short")' = IF s = orders[k].sp THEN -1 ELSE 0
    <3>1. \A s \in Spreads : Qty(s, "long") = 0 /\ Qty(s, "short") = 0
      BY <2>2 DEF BookMatches
    <3>2. pos' = [pos EXCEPT ![orders[k].sp] = [l \in Legs |-> @[l] + BuyCombo[l]]]
      BY <2>3 DEF Execute, Reported
    <3>3. BuyCombo.long = 1 /\ BuyCombo.short = -1
      BY DEF BuyCombo
    <3> QED
      BY <2>3, <3>1, <3>2, <3>3 DEF Qty, Legs, TypeOK
  <2> QED
    BY <1>1, <1>2, <2>1, <2>4, <2>5 DEF BookMatches
<1> QED
  BY <1>1, <1>2, <1>3, <1>4, <1>5

-------------------------------------------------------------------------
(* The steps.                                                              *)

\* A fault that occurs is one of those from which the day recovers.
LEMMA RecoverableFault ==
    ASSUME Recoverable, NEW kind, Fault(kind)
    PROVE  kind \notin Unrecovered
BY DEF Recoverable, Fault

\* What the rows of an executed entry are worth to the process that awaits it.
LEMMA BoughtStrikes ==
    ASSUME IInv, RInv, pc \in FilledPcs
    PROVE  /\ row = Lifecycle!Absent /\ sel \in Spreads
           /\ Qty(sel, "long") = 1 /\ Qty(sel, "short") = -1
<1>1. row = Lifecycle!Absent /\ sel \in Spreads
  BY DEF IInv, EntryUnopened, StrikesChosen, EntryPcs, FilledPcs
<1>2. Bought(sel)
  BY DEF RInv, OrderInHand, FilledPcs, Bought
<1> QED
  BY <1>1, <1>2 DEF RInv, BookMatches

\* Wake-up, reconcile, orphans, the entry decision.
LEMMA SessionRecovers ==
    ASSUME Recoverable, IInv, RInv, Session
    PROVE  RInv'
<1> USE DEF RInv, OrderInHand, NothingLeft, AwaitPcs, FilledPcs, QuietPcs, PastEntryPcs,
        MonitorPcs, volatile
<1>1. CASE WakeForSession
  <2>1. BookShape' /\ BookMatches'
    BY <1>1, StillBook DEF WakeForSession, store
  <2> QED
    BY <1>1, <2>1 DEF WakeForSession, Goto
<1>2. CASE Reconcile
  <2>1. AdoptInto(Detected) /\ ReturnsTo("orphans") /\ UNCHANGED <<account, volatile>>
    BY <1>2, RecoverableFault DEF Reconcile, Unrecovered
  <2>2. row' = Lifecycle!Absent => row = Lifecycle!Absent /\ Detected = {}
    BY <2>1, OpenedRow, AbsentRow DEF AdoptInto, Detected
  <2>3. BookShape' /\ BookMatches'
    BY <2>1, <2>2, StillBook
  <2>4. ASSUME row' = Lifecycle!Absent, NEW k \in Ids, Filled(k) PROVE FALSE
    <3>1. orders[k].sp \in Spreads
      BY Entries DEF IInv, Order
    <3>2. \A i \in Ids : Filled(i) => i = k
      BY <2>2, <2>4 DEF BookMatches, BookShape, Live, Filled
    <3>3. \A s \in Spreads : Bought(s) <=> s = orders[k].sp
      BY <2>4, <3>2 DEF Bought
    <3>4. /\ LongLegs = {<<orders[k].sp, "long">>}
          /\ ShortLegs = {<<orders[k].sp, "short">>}
      <4>1. \A s \in Spreads : /\ Qty(s, "long") = IF s = orders[k].sp THEN 1 ELSE 0
                               /\ Qty(s, "short") = IF s = orders[k].sp THEN -1 ELSE 0
        BY <2>2, <2>4, <3>3 DEF BookMatches
      <4>2. \A s \in Spreads, leg \in Legs :
               /\ Qty(s, leg) > 0 <=> s = orders[k].sp /\ leg = "long"
               /\ Qty(s, leg) < 0 <=> s = orders[k].sp /\ leg = "short"
        BY <4>1 DEF Legs
      <4> QED
        BY <3>1, <4>2 DEF LongLegs, ShortLegs, Legs
    <3> QED
      BY <2>2, <2>4, <3>1, <3>4 DEF Detected
  <2>5. UNCHANGED <<orders, stop>> /\ pc' \in {"orphans", "backoff"}
    BY <2>1 DEF ReturnsTo, Goto, account
  <2> QED
    BY <2>3, <2>4, <2>5 DEF Ids, Filled, Working
<1>3. CASE CancelOrphans
  <2>1. /\ orders' = Cancelled(OrphanCombos) /\ pc = "orphans" /\ pc' = "decide"
        /\ UNCHANGED <<pos, stop, row>>
    BY <1>3, RecoverableFault DEF CancelOrphans, Unrecovered, Goto, store
  <2>2. /\ BookShape' /\ BookMatches' /\ Ids' = Ids
        /\ \A i \in Ids : /\ orders'[i].kind = orders[i].kind
                          /\ Filled(i)' <=> Filled(i)
                          /\ Working(i)' <=> Working(i) /\ i \notin OrphanCombos
    BY <2>1, CancelledBook DEF OrphanCombos, WorkingOf, IInv
  <2>3. \A i \in Ids' : ~Combo(i)'
    BY <2>2 DEF Combo, OrphanCombos, WorkingOf
  <2> QED
    BY <2>1, <2>2, <2>3
<1>4. CASE DecideEntry
  <2>1. BookShape' /\ BookMatches'
    BY <1>4, StillBook DEF DecideEntry, store
  <2>2. /\ UNCHANGED <<orders, stop, row>>
        /\ pc = "decide" /\ pc' \in {"loop", "monitor"}
    BY <1>4 DEF DecideEntry, Goto, account, store
  <2> QED
    BY <2>1, <2>2 DEF Ids, Filled, Working, Combo
<1> QED
  BY <1>1, <1>2, <1>3, <1>4 DEF Session

\* The entry loop, the fill and the read of its legs.
LEMMA EntryRecovers ==
    ASSUME Recoverable, IInv, RInv, EntryLoop
    PROVE  RInv'
<1> USE DEF RInv, OrderInHand, NothingLeft, AwaitPcs, FilledPcs, QuietPcs, PastEntryPcs,
        MonitorPcs
<1>1. CASE LoopHead
  <2>1. BookShape' /\ BookMatches' /\ UNCHANGED <<orders, row>>
    BY <1>1, StillBook DEF LoopHead, store, account
  <2>2. /\ pc = "loop" /\ UNCHANGED stop
        /\ pc' \in {"monitor", "soft_wait"} \/ (pc' = "place" /\ ~stop)
    BY <1>1 DEF LoopHead, Goto
  <2>3. row = Lifecycle!Absent
    BY <2>2 DEF IInv, EntryUnopened
  <2>4. pc' = "place" => \A i \in Ids : ~Live(i)
    BY <2>2, <2>3, Entries DEF Live, Combo, Filled, Working, IInv, Order, OrderStates
  <2> QED
    BY <2>1, <2>2, <2>4 DEF Ids, Filled, Working, Combo, Live
<1>2. CASE SoftRetry
  <2>1. BookShape' /\ BookMatches' /\ UNCHANGED <<orders, row>>
    BY <1>2, StillBook DEF SoftRetry, store, account
  <2>2. pc = "soft_wait" /\ UNCHANGED stop /\ pc' \in {"monitor", "loop"}
    BY <1>2 DEF SoftRetry, Goto
  <2> QED
    BY <2>1, <2>2 DEF Ids, Filled, Working, Combo, Live
<1>3. CASE PlaceEntry
  <2> DEFINE n == Len(orders) + 1
  <2>1. /\ orders' = Append(orders, NewOrder("entry", sel, BuyCombo, clock < Closed))
        /\ UNCHANGED <<pos, row, sel>> /\ pc = "place"
        /\ cur' = n /\ pc' \in {"await1", "backoff"}
    BY <1>3, RecoverableFault DEF PlaceEntry, Send, Unrecovered, ReturnsTo, Goto, store
  <2>2. sel \in Spreads
    BY <2>1 DEF IInv, StrikesChosen, EntryPcs
  <2>3. /\ BookShape' /\ BookMatches'
        /\ n \in Ids' /\ orders'[n].kind = "entry" /\ orders'[n].sp = sel
        /\ \A i \in Ids' : i = n \/ (i \in Ids /\ orders'[i] = orders[i])
    BY <2>1, <2>2, AcceptedCombo DEF IInv
  <2>4. \A i \in Ids' : Live(i)' => i = n
    BY <2>1, <2>3 DEF Live
  <2> QED
    BY <2>1, <2>3, <2>4
<1>4. CASE AwaitEntry
  <2>1. BookShape' /\ BookMatches' /\ UNCHANGED <<orders, row, cur, sel, stop>>
    BY <1>4, StillBook DEF AwaitEntry, store, volatile, account, Goto
  <2>2. \/ Filled(cur) /\ pc \in {"await1", "await2"} /\ pc' = "verify"
        \/ (stop \/ ~Filled(cur)) /\ pc = "await1" /\ pc' = "reprice"
        \/ (stop \/ ~Filled(cur)) /\ pc = "await2" /\ pc' = "cancel"
    <3>1. pc \in AwaitPcs
      BY <1>4 DEF AwaitEntry
    <3>2. cur \in 1..Len(orders)
      BY <3>1, Entries DEF IInv
    <3> QED
      BY <1>4, <3>2, RecoverableFault
         DEF AwaitEntry, AwaitFilled, AwaitNone, Goto, Unrecovered
  <2>3. Filled(cur) => \A i \in Ids : ~Combo(i)
    BY <2>2, Entries DEF IInv, BookMatches, EntryUnopened, EntryPcs, Combo, Live, Filled, Working
  <2> QED
    BY <2>1, <2>2, <2>3 DEF Ids, Filled, Working, Combo, Live
<1>5. CASE Reprice
  <2>1. BookShape' /\ BookMatches' /\ UNCHANGED <<orders, row, cur, sel, stop>>
    BY <1>5, StillBook DEF Reprice, store, volatile, account, Goto, ReturnsTo
  <2>2. pc = "reprice" /\ pc' \in {"cancel", "await2", "backoff"}
    BY <1>5 DEF Reprice, Goto, ReturnsTo
  <2> QED
    BY <2>1, <2>2 DEF Ids, Filled, Working, Combo, Live
<1>6. CASE CancelEntry
  <2>1. /\ orders' = Cancelled(ToCancel) /\ pc = "cancel" /\ pc' = "loop"
        /\ UNCHANGED <<pos, stop, row>>
    BY <1>6, RecoverableFault DEF CancelEntry, Unrecovered, Goto, store
  <2>2. /\ BookShape' /\ BookMatches' /\ Ids' = Ids
        /\ \A i \in Ids : /\ orders'[i].kind = orders[i].kind
                          /\ Filled(i)' <=> Filled(i)
                          /\ Working(i)' <=> Working(i) /\ i \notin ToCancel
    BY <2>1, CancelledBook DEF ToCancel, IInv
  <2>3. row = Lifecycle!Absent
    BY <2>1 DEF IInv, EntryUnopened, EntryPcs
  <2>4. \A i \in Ids : ~Combo(i)'
    BY <2>1, <2>2, <2>3 DEF BookMatches, Combo, Live, Working, ToCancel
  <2>5. ~stop => \A i \in Ids : ~Filled(i)
    BY <2>1, <2>3 DEF BookMatches, Live, Filled
  <2> QED
    BY <2>1, <2>2, <2>4, <2>5
<1>7. CASE VerifyLegs
  <2>1. BookShape' /\ BookMatches' /\ UNCHANGED <<orders, row, cur, sel, stop>>
    BY <1>7, StillBook DEF VerifyLegs, store, volatile, account, Goto
  <2>2. pc = "verify" /\ (pc' = "record" \/ (pc' = "flatten1" /\ stop))
    <3>1. pc = "verify"
      BY <1>7 DEF VerifyLegs
    <3>2. LegsBalanced(sel)
      BY <3>1, BoughtStrikes DEF LegsBalanced
    <3>3. ~Fault("query")
      BY RecoverableFault DEF Unrecovered
    <3>4. Goto("record") \/ (Goto("flatten1") /\ stop)
      BY <1>7, <3>2, <3>3, Zenon DEF VerifyLegs
    <3> QED
      BY <3>1, <3>4 DEF Goto
  <2> QED
    BY <2>1, <2>2 DEF Ids, Filled, Working, Combo, Live
<1>8. CASE ReadLongLeg
  <2>1. BookShape' /\ BookMatches' /\ UNCHANGED <<orders, row, cur, sel, stop>>
    BY <1>8, StillBook DEF ReadLongLeg, store, account, Goto
  <2>2. pc = "flatten1" /\ pc' = "flatten2" /\ legQty' = 1
    BY <1>8, BoughtStrikes, RecoverableFault DEF ReadLongLeg, Goto, Unrecovered
  <2> QED
    BY <2>1, <2>2 DEF Ids, Filled, Working, Combo, Live
<1>9. CASE FlattenUnmatchedLeg
  <2>1. /\ pc = "flatten2" /\ SendFlatten(Qty(sel, "short")) /\ UNCHANGED <<pos, store, volatile>>
        /\ pc' = "monitor" \/ orders' # orders
    BY <1>9, RecoverableFault DEF FlattenUnmatchedLeg, Goto, Unrecovered
  <2>2. UNCHANGED orders
    BY <2>1, BoughtStrikes DEF SendFlatten, Unmatched
  <2>3. BookShape' /\ BookMatches' /\ UNCHANGED <<orders, row>>
    BY <2>1, <2>2, StillBook DEF store, account
  <2>4. stop' /\ pc' = "monitor"
    BY <1>9, <2>1, <2>2 DEF FlattenUnmatchedLeg, Goto
  <2> QED
    BY <2>1, <2>3, <2>4 DEF Ids, Filled, Working, Combo, Live
<1>10. CASE RecordOpen
  <2>1. /\ pc = "record" /\ pc' \in {"monitor", "backoff"}
        /\ row' = Lifecycle!Opened(sel, FALSE)
        /\ UNCHANGED <<orders, stop>> /\ UNCHANGED account
    BY <1>10, BoughtStrikes DEF RecordOpen, Goto, ReturnsTo, account
  <2>2. row' # Lifecycle!Absent
    BY <2>1, BoughtStrikes, OpenedRow, AbsentRow
  <2>3. BookShape' /\ BookMatches'
    BY <2>1, <2>2, StillBook
  <2> QED
    BY <2>1, <2>2, <2>3 DEF Ids, Filled, Working, Combo, Live
<1> QED
  BY <1>1, <1>2, <1>3, <1>4, <1>5, <1>6, <1>7, <1>8, <1>9, <1>10 DEF EntryLoop

\* The monitor, and the close it may send.
LEMMA MonitorRecovers ==
    ASSUME Recoverable, IInv, RInv, Monitor
    PROVE  RInv'
<1> USE DEF RInv, OrderInHand, NothingLeft, AwaitPcs, FilledPcs, QuietPcs, PastEntryPcs,
        MonitorPcs
<1>1. CASE StartMonitor
  <2>1. BookShape' /\ BookMatches' /\ UNCHANGED <<orders, row>>
    BY <1>1, StillBook DEF StartMonitor, store, account
  <2>2. pc = "monitor" /\ pc' \in {"watch", "post"} /\ UNCHANGED stop
    BY <1>1 DEF StartMonitor, Goto
  <2> QED
    BY <2>1, <2>2 DEF Ids, Filled, Working, Combo, Live
<1>2. CASE WatchEnds \/ Arm \/ Suppress \/ Uneconomic \/ Fire \/ EmergencyFlatten
  <2>1. BookShape' /\ BookMatches' /\ UNCHANGED <<orders, row>>
    BY <1>2, StillBook DEF WatchEnds, Arm, Suppress, Uneconomic, Fire, EmergencyFlatten,
         store, account
  <2>2. pc = "watch" /\ pc' \in {"watch", "close_place", "post", "backoff"} /\ UNCHANGED stop
    BY <1>2 DEF WatchEnds, Arm, Suppress, Uneconomic, Fire, EmergencyFlatten, ReturnsTo, Goto
  <2> QED
    BY <2>1, <2>2 DEF Ids, Filled, Working, Combo, Live
<1>3. CASE PlaceClose
  <2> DEFINE n == Len(orders) + 1
  <2>1. /\ orders' = Append(orders, NewOrder("close", row.sp, SellCombo, clock < Closed))
        /\ UNCHANGED <<pos, row, stop>> /\ pc = "close_place"
        /\ pc' \in {"close_await", "backoff"}
    BY <1>3, RecoverableFault DEF PlaceClose, Send, Unrecovered, ReturnsTo, Goto, store
  <2>2. row.sp \in Spreads /\ row # Lifecycle!Absent
    BY <2>1, OpenedFields, AbsentRow DEF IInv, MonitoredOpen, TypeOK
  <2>3. /\ BookShape' /\ BookMatches'
        /\ n \in Ids' /\ orders'[n].kind = "close"
        /\ \A i \in Ids' : i = n \/ (i \in Ids /\ orders'[i] = orders[i])
    BY <2>1, <2>2, AcceptedCombo DEF IInv
  <2> QED
    BY <2>1, <2>2, <2>3 DEF Filled, Working
<1>4. CASE AwaitClose
  <2>1. BookShape' /\ BookMatches' /\ UNCHANGED <<orders, row>>
    BY <1>4, StillBook DEF AwaitClose, store, account
  <2>2. pc = "close_await" /\ pc' \in {"close_record", "post"} /\ UNCHANGED stop
    BY <1>4 DEF AwaitClose, Goto
  <2> QED
    BY <2>1, <2>2 DEF Ids, Filled, Working, Combo, Live
<1>5. CASE RecordClose
  <2>1. /\ pc = "close_record" /\ pc' \in {"post", "backoff"} /\ UNCHANGED <<orders, stop>>
        /\ row' = ClosedAs(exitKind) /\ UNCHANGED account
    BY <1>5 DEF RecordClose, ReturnsTo, Goto, account
  <2>2. row' # Lifecycle!Absent
    BY <2>1 DEF ClosedAs, Lifecycle!Ended, Lifecycle!Absent
  <2>3. BookShape' /\ BookMatches'
    BY <2>1, <2>2, StillBook
  <2> QED
    BY <2>1, <2>2, <2>3 DEF Ids, Filled, Working, Combo, Live
<1> QED
  BY <1>1, <1>2, <1>3, <1>4, <1>5 DEF Monitor

\* The end of a session, the failures of the process and its restart.
LEMMA ProcessRecovers ==
    ASSUME Recoverable, IInv, RInv, SessionEnd \/ Failure \/ Restart
    PROVE  RInv'
<1> USE DEF RInv, OrderInHand, NothingLeft, AwaitPcs, FilledPcs, QuietPcs, PastEntryPcs,
        MonitorPcs
<1>1. CASE PostClose
  <2>1. BookShape' /\ BookMatches' /\ UNCHANGED <<orders, row>>
    BY <1>1, StillBook DEF PostClose, store, account
  <2>2. pc = "post" /\ pc' \in {"down", "settle"} /\ UNCHANGED stop
    BY <1>1 DEF PostClose, Goto
  <2> QED
    BY <2>1, <2>2 DEF Ids, Filled, Working, Combo, Live
<1>2. CASE RecordSettlement
  <2>1. /\ pc' \in {"tomorrow", "backoff"} /\ UNCHANGED account
        /\ row' = row \/ row' = Lifecycle!Ended("SETTLED", "SETTLE")
    BY <1>2 DEF RecordSettlement, ReturnsTo, Goto
  <2>2. row' = Lifecycle!Absent => row = Lifecycle!Absent
    BY <2>1 DEF Lifecycle!Ended, Lifecycle!Absent
  <2>3. BookShape' /\ BookMatches'
    BY <2>1, <2>2, StillBook
  <2> QED
    BY <2>1, <2>3
<1>3. CASE Backoff \/ SessionRaises \/ Crash \/ Restart
  <2>1. BookShape' /\ BookMatches'
    BY <1>3, StillBook DEF Backoff, SessionRaises, Crash, Restart, store
  <2>2. pc' \in {"start", "down", "backoff"}
    BY <1>3 DEF Backoff, SessionRaises, Crash, Restart, Goto
  <2> QED
    BY <2>1, <2>2
<1>4. CASE Sigterm
  <2>1. BookShape' /\ BookMatches' /\ UNCHANGED <<orders, row, pc, volatile>> /\ stop'
    BY <1>4, StillBook DEF Sigterm, store, account
  <2> QED
    BY <2>1 DEF Ids, Filled, Working, Combo, Live, volatile
<1> QED
  BY <1>1, <1>2, <1>3, <1>4 DEF SessionEnd, Failure

\* What the account does on its own, and the close of the session.
LEMMA AccountRecovers ==
    ASSUME Recoverable, IInv, RInv, Account \/ Tick
    PROVE  RInv'
<1> USE DEF RInv, OrderInHand, NothingLeft, AwaitPcs, FilledPcs, QuietPcs, PastEntryPcs,
        MonitorPcs
<1>1. UNCHANGED <<row, pc, stop, sel, cur, legQty>>
  BY DEF Account, OrderFills, LegPosts, OrderRejected, Tick, store, volatile
<1>2. CASE OrderFills
  <2>1. PICK k \in Ids : Execute(k, Legs) /\ ~CheckedThenActed(k)
    BY <1>2, RecoverableFault DEF OrderFills, Unrecovered
  <2>2. /\ BookShape' /\ BookMatches' /\ Ids' = Ids
        /\ \A i \in Ids : /\ orders'[i].kind = orders[i].kind
                          /\ orders'[i].sp = orders[i].sp
                          /\ Filled(i)' <=> Filled(i) \/ i = k
                          /\ Working(i)' <=> Working(i) /\ i # k
                          /\ Live(i)' => Live(i)
    BY <1>1, <2>1, ExecutedBook DEF IInv
  <2>3. Working(k) /\ Combo(k)
    BY <2>1 DEF Execute, BookShape, Combo
  <2>4. pc \notin QuietPcs \cup FilledPcs
    BY <2>3
  <2>5. pc # "orphans"
    BY <2>1 DEF CheckedThenActed
  <2>6. pc \in AwaitPcs => k = cur /\ pc \notin {"reprice", "cancel"}
    <3>1. pc \in AwaitPcs => row = Lifecycle!Absent
      BY DEF IInv, EntryUnopened, EntryPcs
    <3>2. pc \in AwaitPcs => Live(k)
      BY <2>3, <3>1 DEF BookMatches, Live, Working
    <3> QED
      BY <2>1, <3>2 DEF CheckedThenActed
  <2>7. pc \in PastEntryPcs => orders[k].kind # "entry"
    BY <2>3
  <2>8. pc \in AwaitPcs => \A i \in Ids : Live(i)' => i = cur
    BY <2>2
  <2> QED
    BY <1>1, <2>2, <2>4, <2>5, <2>6, <2>7, <2>8
<1>3. CASE LegPosts
  BY <1>3 DEF LegPosts, PostLeg, BookShape
<1>4. CASE OrderRejected \/ Tick
  <2>1. PICK S \in SUBSET Ids : /\ \A i \in S : Working(i)
                                /\ orders' = Cancelled(S) \/ UNCHANGED orders
                                /\ UNCHANGED pos
    <3>1. CASE OrderRejected
      <4>1. PICK k \in Ids : Reject(k)
        BY <3>1 DEF OrderRejected
      <4> QED
        BY <4>1 DEF Reject
    <3>2. CASE Tick
      BY <3>2 DEF Tick
    <3> QED
      BY <1>4, <3>1, <3>2
  <2>2. CASE UNCHANGED orders
    <3>1. BookShape' /\ BookMatches'
      BY <1>1, <2>1, <2>2, StillBook DEF account
    <3> QED
      BY <1>1, <2>2, <3>1 DEF Ids, Filled, Working, Combo, Live
  <2>3. CASE orders' = Cancelled(S)
    <3>1. /\ BookShape' /\ BookMatches' /\ Ids' = Ids
          /\ \A i \in Ids : /\ orders'[i].kind = orders[i].kind
                            /\ orders'[i].sp = orders[i].sp
                            /\ Filled(i)' <=> Filled(i)
                            /\ Working(i)' <=> Working(i) /\ i \notin S
                            /\ Live(i)' => Live(i)
      BY <1>1, <2>1, <2>3, CancelledBook DEF IInv
    <3>2. \A i \in Ids : Combo(i)' => Combo(i)
      BY <3>1 DEF Combo
    <3> QED
      BY <1>1, <3>1, <3>2
  <2> QED
    BY <2>1, <2>2, <2>3
<1> QED
  BY <1>2, <1>3, <1>4 DEF Account

\* Every step keeps the book and what the process knows of it.
LEMMA StepRecovers ==
    ASSUME Recoverable, IInv, RInv, [Next]_vars
    PROVE  RInv'
<1>1. CASE DayOver \/ UNCHANGED vars
  <2>1. UNCHANGED <<account, row, pc, stop, sel, cur, legQty>>
    BY <1>1 DEF DayOver, vars, store, volatile
  <2>2. BookShape' /\ BookMatches'
    BY <2>1, StillBook DEF RInv
  <2> QED
    BY <2>1, <2>2 DEF RInv, OrderInHand, NothingLeft, Ids, Filled, Working, Combo, Live, account
<1> QED
  BY <1>1, SessionRecovers, EntryRecovers, MonitorRecovers, ProcessRecovers, AccountRecovers
     DEF Next, Process

\* RInv holds on every day whose faults are recoverable.
THEOREM Recovery ==
    ASSUME Recoverable
    PROVE  Spec => []RInv
<1>1. Init => RInv
  <2> SUFFICES ASSUME Init PROVE RInv
    OBVIOUS
  <2>1. Ids = {} /\ pc = "start"
    BY DEF Init, Ids
  <2>2. \A s \in Spreads : Qty(s, "long") = 0 /\ Qty(s, "short") = 0
    BY DEF Init, Qty, Legs
  <2> QED
    BY <2>1, <2>2 DEF RInv, BookShape, BookMatches, OrderInHand, NothingLeft, Bought, AwaitPcs,
         FilledPcs, QuietPcs, PastEntryPcs, MonitorPcs
<1>2. IInv /\ RInv /\ [Next]_vars => RInv'
  BY StepRecovers
<1> QED
  BY <1>1, <1>2, Invariance, PTL DEF Spec

\* A set without two different members has at most one.
LEMMA AtMostOne ==
    ASSUME NEW S, \A x, y \in S : x = y
    PROVE  Cardinality(S) <= 1
<1>1. CASE S = {}
  BY <1>1, FS_EmptySet
<1>2. CASE S # {}
  <2>1. PICK x \in S : S = {x}
    BY <1>2
  <2> QED
    BY <2>1, FS_Singleton
<1> QED
  BY <1>1, <1>2

\* I1 of docs/strategy-review.md: over any number of crashes, shutdowns, session errors and
\* lost replies, at most one entry of a date executes.
THEOREM OneFilledEntry ==
    ASSUME Recoverable
    PROVE  Spec => []AtMostOneFilledEntry
<1>1. RInv => AtMostOneFilledEntry
  BY AtMostOne DEF RInv, BookShape, AtMostOneFilledEntry, FilledOf, Live, Filled
<1> QED
  BY <1>1, Recovery, PTL

\* Whenever an order is sent, none of an earlier attempt, session or process still works.
THEOREM OneCombo ==
    ASSUME Recoverable
    PROVE  Spec => []OneWorkingCombo
<1>1. RInv => OneWorkingCombo
  BY AtMostOne DEF RInv, BookShape, OneWorkingCombo, WorkingOf, Combo
<1> QED
  BY <1>1, Recovery, PTL

\* A process that got past the entry loop, and is not told to stop, has a row for what was
\* bought, by itself or by one that died.
THEOREM PositionsHaveRows ==
    ASSUME Recoverable
    PROVE  Spec => []PositionHasRow
<1>1. IInv /\ RInv => PositionHasRow
  <2> SUFFICES ASSUME IInv, RInv, pc \in PastEntryPcs, ~stop, FilledOf("entry") # {}
               PROVE  row.status # "ABSENT"
    BY DEF PositionHasRow
  <2>1. row # Lifecycle!Absent
    BY DEF RInv, NothingLeft, FilledOf
  <2> QED
    BY <2>1, AbsentRow DEF IInv, TypeOK
<1> QED
  BY <1>1, Recovery, Invariance, PTL

\* ... and leaves no entry order working behind it.
THEOREM NoEntryLeftBehind ==
    ASSUME Recoverable
    PROVE  Spec => []NoUnattendedEntry
<1>1. RInv => NoUnattendedEntry
  BY DEF RInv, NothingLeft, NoUnattendedEntry, WorkingOf
<1> QED
  BY <1>1, Recovery, PTL
=======================================================================
