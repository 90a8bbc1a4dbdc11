-------------------------- MODULE TradingDay --------------------------
(***************************************************************************)
(* One symbol on one trading date: the scheduler process (scheduler.py,    *)
(* strategy.py, cpapi/execution.py, cpapi/reconcile.py), the spread row    *)
(* and the stop journal in DynamoDB (state.py), and the IBKR account       *)
(* (Broker).  The process may be killed, told to stop, or thrown out of a  *)
(* session by an exception between any two calls; systemd and the ASG      *)
(* start it again.  Every gateway or store call is one step, because       *)
(* orders fill and the clock advances while it is in flight.               *)
(*                                                                         *)
(* The monitor's clock, outage and arming arithmetic is in StopMonitor;    *)
(* here the market only tells it to arm, suppress, fire or flatten.        *)
(***************************************************************************)
EXTENDS Broker

CONSTANTS
    NoSpread,    \* no strikes chosen
    Faults,      \* the kinds of fault the environment may inject
    MaxFaults    \* bound: faults injected over the day

FaultKinds == {
    "crash",        \* SIGKILL or loss of the host
    "sigterm",      \* the operator or the ASG asks for a shutdown
    "raise",        \* a call that nothing guards raises before it has an effect
    "lost_reply",   \* ... raises after it has taken effect
    "no_id",        \* place_order answers without an order id
    "query",        \* a guarded read fails and its default is used
    "cancel",       \* cancel_order fails; the exception is swallowed
    "late_fill",    \* an order executes between a check and the act it allows
    "leg",          \* the legs of a combo are not reported together
    "reject",       \* IBKR rejects a working order
    "no_quote"}     \* the chain or the settlement spot is unavailable

ASSUME TradingDayAssumption ==
    /\ NoSpread \notin Spreads
    /\ Faults \subseteq FaultKinds
    /\ MaxFaults \in Nat

VARIABLES
    clock,     \* the part of the day it is
    budget,    \* faults the environment may still inject
    noEntry,   \* the monthly gate is active or the half day is skipped
    row,       \* the spread row of this (date, symbol)
    journal,   \* the stop events recorded for it
    pc,        \* where the process is; "down" when there is none
    stop,      \* _stop_event
    sel,       \* the strikes of the entry attempt
    cur,       \* the order the process waits for; 0 when it has no id
    legQty,    \* flatten_unmatched_leg's first read
    armed,     \* the monitor's StopState.armed
    exitKind   \* why the monitor is closing the spread

day == <<clock, budget, noEntry>>
store == <<row, journal>>
volatile == <<sel, cur, legQty, armed, exitKind>>
account == <<orders, pos>>
vars == <<account, day, store, pc, stop, volatile>>

PreEntry == 0
EntryWindow == 1    \* from entry_time_et to entry_deadline_et
Holding == 2        \* past the entry deadline
LateWindow == 3     \* within stop_latest_sec of the close
Closed == 4         \* past the session close

Lifecycle == INSTANCE SpreadLifecycle WITH closed <- clock = Closed

EntryPcs == {"place", "await1", "reprice", "await2", "cancel",
             "verify", "flatten1", "flatten2", "record"}
MonitorPcs == {"watch", "close_place", "close_await", "close_record"}
PCs == {"down", "start", "reconcile", "orphans", "decide", "loop", "soft_wait",
        "monitor", "post", "settle", "backoff", "tomorrow"}
       \cup EntryPcs \cup MonitorPcs
JournalEvents == {"armed", "suppressed", "uneconomic", "fired"}
ExitKinds == {"NONE", "STOP", "OUTAGE_FLATTEN"}

\* The type of every variable.
TypeOK ==
    /\ orders \in Seq(Order)
    /\ pos \in [Spreads -> [Legs -> Int]]
    /\ clock \in PreEntry..Closed
    /\ budget \in 0..MaxFaults
    /\ noEntry \in BOOLEAN
    /\ row \in Lifecycle!Rows
    /\ journal \subseteq JournalEvents
    /\ pc \in PCs
    /\ stop \in BOOLEAN
    /\ sel \in Spreads \cup {NoSpread}
    /\ cur \in Nat
    /\ legQty \in Int
    /\ armed \in BOOLEAN
    /\ exitKind \in ExitKinds

Init ==
    /\ orders = <<>>
    /\ pos = [s \in Spreads |-> [l \in Legs |-> 0]]
    /\ clock = PreEntry
    /\ budget = MaxFaults
    /\ noEntry \in BOOLEAN
    /\ row = Lifecycle!Absent
    /\ journal = {}
    /\ pc = "start"
    /\ stop = FALSE
    /\ sel = NoSpread
    /\ cur = 0
    /\ legQty = 0
    /\ armed = FALSE
    /\ exitKind = "NONE"

-------------------------------------------------------------------------
\* How a call ends.

Fault(kind) ==
    /\ kind \in Faults
    /\ budget > 0
    /\ budget' = budget - 1
    /\ UNCHANGED <<clock, noEntry>>
NoFault == UNCHANGED day

Goto(label) == pc' = label /\ UNCHANGED stop

\* The call returns and the process goes on, or it raises after its effect.
ReturnsTo(label) ==
    \/ Goto(label) /\ NoFault
    \/ Goto("backoff") /\ Fault("lost_reply")

\* place_order: the order is working, whatever the caller learns of it.
Send(order, label) ==
    /\ orders' = Append(orders, order)
    /\ \/ cur' = Len(orders) + 1 /\ ReturnsTo(label)
       \/ cur' = 0 /\ Goto(label) /\ Fault("no_id")
    /\ UNCHANGED <<pos, store, sel, legQty, armed, exitKind>>

\* _await_fill reports the fill of cur, or None: the order is terminal, the
\* budget of the phase is spent, the id is unknown or a shutdown is requested.
AwaitUnchecked == cur # 0 /\ NoFault   \* variant: the status is not looked at
AwaitFilled == cur # 0 /\ Filled(cur) /\ NoFault
AwaitNone ==
    \/ cur = 0 /\ NoFault
    \/ cur # 0 /\ (stop \/ ~Filled(cur)) /\ NoFault
    \/ cur # 0 /\ Filled(cur) /\ Fault("query")

-------------------------------------------------------------------------
\* The session up to the entry loop: Scheduler._run_one_session.

\* _next_entry_time and _sleep_until: a process started between the entry time
\* and the close resumes today's session; after the close it waits for the next
\* trading day.
WakeForSession ==
    /\ pc = "start"
    /\ \/ stop /\ Goto("down")
       \/ ~stop /\ clock = Closed /\ Goto("tomorrow")
       \/ ~stop /\ clock \in EntryWindow..LateWindow /\ Goto("reconcile")
    /\ NoFault
    /\ UNCHANGED <<account, store, volatile>>

\* detect_existing_spreads: exactly one long and one short leg, of one spread.
DetectedNothing == {}   \* variant: the positions are filtered away
Detected == {s \in Spreads : LongLegs = {<<s, "long">>} /\ ShortLegs = {<<s, "short">>}}

\* The positions are read, and a detected spread without a row of any status is adopted.
AdoptInto(seen) ==
    IF seen # {} /\ row = Lifecycle!Absent
    THEN \E s \in seen : row' = Lifecycle!Opened(s, TRUE)
    ELSE UNCHANGED row

Reconcile ==
    /\ pc = "reconcile"
    /\ \/ AdoptInto(Detected) /\ ReturnsTo("orphans")
       \/ AdoptInto({}) /\ Goto("orphans") /\ Fault("query")
    /\ UNCHANGED <<account, journal, volatile>>

\* _is_orphan_combo: every working combo, BUY or SELL.
OrphanEntries == WorkingOf({"entry"})   \* variant: only BUY combos
OrphanCombos == WorkingOf({"entry", "close"})

\* cancel_orphaned_combo_orders: a failed query or a failed cancel is swallowed.
CancelOrphans ==
    /\ pc = "orphans"
    /\ \/ orders' = Cancelled(OrphanCombos) /\ NoFault
       \/ UNCHANGED orders /\ Fault("query")
       \/ \E i \in OrphanCombos :
             orders' = Cancelled(OrphanCombos \ {i}) /\ Fault("cancel")
    /\ Goto("decide")
    /\ UNCHANGED <<pos, store, volatile>>

\* today_already_opened (a row of any status), the monthly gate, the half-day skip.
OpenedAndNotClosed == row.status = "OPEN"   \* variant: a closed row is overlooked
TodayAlreadyOpened == row # Lifecycle!Absent

DecideEntry ==
    /\ pc = "decide"
    /\ Goto(IF TodayAlreadyOpened \/ noEntry THEN "monitor" ELSE "loop")
    /\ NoFault
    /\ UNCHANGED <<account, store, volatile>>

-------------------------------------------------------------------------
\* The entry loop: strategy.attempt_until_filled and submit_entry_lmt.

DeadlineReached == clock = Holding   \* variant: == for >=
PastDeadline == clock >= Holding

\* The head of the loop: shutdown, deadline, chain, strikes.
LoopHead ==
    /\ pc = "loop"
    /\ IF stop \/ PastDeadline
       THEN Goto("monitor") /\ UNCHANGED sel
       ELSE \/ Goto("soft_wait") /\ UNCHANGED sel
            \/ /\ Len(orders) < MaxOrders
               /\ sel' \in Spreads
               /\ Goto("place")
    /\ NoFault
    /\ UNCHANGED <<account, store, cur, legQty, armed, exitKind>>

\* A soft retry: no chain or no viable spread.
SoftRetry ==
    /\ pc = "soft_wait"
    /\ Goto(IF stop THEN "monitor" ELSE "loop")
    /\ NoFault
    /\ UNCHANGED <<account, store, volatile>>

PlaceEntry ==
    /\ pc = "place"
    /\ Send(NewOrder("entry", sel, BuyCombo, clock < Closed), "await1")

\* The fill is awaited at the first limit, and again after the reprice.
AwaitEntry ==
    /\ \/ AwaitFilled /\ pc \in {"await1", "await2"} /\ Goto("verify")
       \/ AwaitNone /\ pc = "await1" /\ Goto("reprice")
       \/ AwaitNone /\ pc = "await2" /\ Goto("cancel")
    /\ UNCHANGED <<account, store, volatile>>

\* One reprice, unless a shutdown is requested, the order has no id, or its
\* limit already is at the ceiling.
Reprice ==
    /\ pc = "reprice"
    /\ \/ Goto("cancel") /\ NoFault
       \/ ~stop /\ cur # 0 /\ ReturnsTo("await2")
    /\ UNCHANGED <<account, store, volatile>>

NothingToCancel == {}   \* variant: the cancel is left out
ToCancel == {i \in {cur} \cap Ids : Working(i)}

\* The order is cancelled and reported unfilled, whatever became of it; the
\* loop tries again at once.
CancelEntry ==
    /\ pc = "cancel"
    /\ \/ orders' = Cancelled(ToCancel) /\ NoFault
       \/ cur # 0 /\ UNCHANGED orders /\ Fault("cancel")
    /\ Goto("loop")
    /\ UNCHANGED <<pos, store, volatile>>

\* verify_legs_balanced: exactly +1 and -1 within leg_fill_timeout_sec.
LegsSameSign(s) == Qty(s, "long") = 1 /\ Qty(s, "short") = 1   \* variant: wrong sign
LegsBalanced(s) == Qty(s, "long") = 1 /\ Qty(s, "short") = -1

VerifyLegs ==
    /\ pc = "verify"
    /\ \/ LegsBalanced(sel) /\ Goto("record") /\ NoFault
       \/ (stop \/ ~LegsBalanced(sel)) /\ Goto("flatten1") /\ NoFault
       \/ LegsBalanced(sel) /\ Goto("flatten1") /\ Fault("query")
    /\ UNCHANGED <<account, store, volatile>>

\* flatten_unmatched_leg reads the long leg, then the short leg; a failed read is 0.
ReadLongLeg ==
    /\ pc = "flatten1"
    /\ \/ legQty' = Qty(sel, "long") /\ NoFault
       \/ legQty' = 0 /\ Fault("query")
    /\ Goto("flatten2")
    /\ UNCHANGED <<account, store, sel, cur, armed, exitKind>>

\* The market order for a single leg, the other one being flat.
Unmatched(longQty, shortQty) ==
    IF longQty # 0 /\ shortQty = 0 THEN <<OneLeg("long", -longQty)>>
    ELSE IF shortQty # 0 /\ longQty = 0 THEN <<OneLeg("short", -shortQty)>>
    ELSE <<>>

SendFlatten(shortQty) ==
    LET delta == Unmatched(legQty, shortQty)
    IN  orders' = IF delta = <<>> THEN orders
                  ELSE Append(orders, NewOrder("flatten", sel, delta[1], clock < Closed))

\* No row is written: the entry loop returns None.
FlattenUnmatchedLeg ==
    /\ pc = "flatten2"
    /\ \/ SendFlatten(Qty(sel, "short")) /\ Goto("monitor") /\ NoFault
       \/ SendFlatten(Qty(sel, "short")) /\ orders' # orders
             /\ Goto("backoff") /\ Fault("lost_reply")
       \/ SendFlatten(0) /\ Goto("monitor") /\ Fault("query")
    /\ UNCHANGED <<pos, store, volatile>>

\* record_open: a conditional put, which raises on a duplicate.
RecordOpen ==
    /\ pc = "record"
    /\ IF row = Lifecycle!Absent
       THEN row' = Lifecycle!Opened(sel, FALSE) /\ ReturnsTo("monitor")
       ELSE UNCHANGED row /\ Goto("backoff") /\ NoFault
    /\ UNCHANGED <<account, journal, volatile>>

-------------------------------------------------------------------------
\* The open position: Scheduler._monitor_open_spreads and strategy.monitor_stop.

\* load_open_spreads_for_today.
AnyRowToday == row # Lifecycle!Absent   \* variant: the status filter is missing
OpenToday == row.status = "OPEN"

\* state_from_journal_events: any event at all, or an adopted position.
ResumedIfAdopted == row.adopted   \* variant: the journal is not read
ResumedArmed == journal # {} \/ row.adopted

\* An OPEN row is monitored if the chain still lists its strikes.
StartMonitor ==
    /\ pc = "monitor"
    /\ \/ /\ OpenToday /\ ~stop
          /\ armed' = ResumedArmed
          /\ Goto("watch")
          /\ NoFault
       \/ /\ ~OpenToday \/ stop
          /\ UNCHANGED armed
          /\ Goto("post")
          /\ NoFault
       \/ /\ OpenToday
          /\ UNCHANGED armed
          /\ Goto("post")
          /\ Fault("no_quote")
    /\ UNCHANGED <<account, store, sel, cur, legQty, exitKind>>

\* The stream ends at the close, or the shutdown is seen: StopOutcome.NEVER.
WatchEnds ==
    /\ pc = "watch"
    /\ stop \/ clock = Closed
    /\ Goto("post")
    /\ NoFault
    /\ UNCHANGED <<account, store, volatile>>

\* stop.advance on a tick: ARM at or above breakeven before the late window.
Arm ==
    /\ pc = "watch" /\ ~armed /\ clock < LateWindow
    /\ journal' = journal \cup {"armed"}
    /\ armed' = TRUE
    /\ ReturnsTo("watch")
    /\ UNCHANGED <<account, row, sel, cur, legQty, exitKind>>

\* SUPPRESS, in the late window: the position is held to settlement.
Suppress ==
    /\ pc = "watch" /\ armed /\ clock = LateWindow
    /\ journal' = journal \cup {"suppressed"}
    /\ ReturnsTo("post")
    /\ UNCHANGED <<account, row, volatile>>

\* FIRE, with no credit to be had.
Uneconomic ==
    /\ pc = "watch" /\ armed /\ clock < LateWindow
    /\ journal' = journal \cup {"uneconomic"}
    /\ ReturnsTo("post")
    /\ UNCHANGED <<account, row, volatile>>

\* FIRE: journalled before the close is sent.
Fire ==
    /\ pc = "watch" /\ armed /\ clock < LateWindow
    /\ Len(orders) < MaxOrders
    /\ journal' = journal \cup {"fired"}
    /\ exitKind' = "STOP"
    /\ ReturnsTo("close_place")
    /\ UNCHANGED <<account, row, sel, cur, legQty, armed>>

\* The feed was silent for max_blind_sec: flatten, whatever the stop's state.
EmergencyFlatten ==
    /\ pc = "watch" /\ clock < Closed
    /\ Len(orders) < MaxOrders
    /\ exitKind' = "OUTAGE_FLATTEN"
    /\ Goto("close_place")
    /\ NoFault
    /\ UNCHANGED <<account, store, sel, cur, legQty, armed>>

\* submit_close_market: a SELL combo at market on the strikes of the row.
PlaceClose ==
    /\ pc = "close_place"
    /\ Send(NewOrder("close", row.sp, SellCombo, clock < Closed), "close_await")

\* A close that does not fill in time is left working, and the row OPEN.
AwaitClose ==
    /\ pc = "close_await"
    /\ \/ AwaitFilled /\ Goto("close_record")
       \/ AwaitNone /\ Goto("post")
    /\ UNCHANGED <<account, store, volatile>>

\* Store.record_close: unconditional; every exit kind but SETTLE maps to STOPPED.
KindOnly(kind) == Lifecycle!Ended(row.status, kind)   \* variant: the status is not set
ClosedAs(kind) == Lifecycle!Ended("STOPPED", kind)

RecordClose ==
    /\ pc = "close_record"
    /\ row' = ClosedAs(exitKind)
    /\ ReturnsTo("post")
    /\ UNCHANGED <<account, journal, volatile>>

-------------------------------------------------------------------------
\* The end of the session, and of the process.

\* The sleep until a minute past the close; a shutdown forgoes the settlement.
PostClose ==
    /\ pc = "post"
    /\ \/ stop /\ Goto("down")
       \/ ~stop /\ clock = Closed /\ Goto("settle")
    /\ NoFault
    /\ UNCHANGED <<account, store, volatile>>

\* _record_settlements: a row still OPEN is settled at the spot, unless there is
\* none or it lies outside the sanity band.
RecordSettlement ==
    /\ pc = "settle"
    /\ \/ /\ OpenToday
          /\ row' = Lifecycle!Ended("SETTLED", "SETTLE")
          /\ ReturnsTo("tomorrow")
       \/ ~OpenToday /\ UNCHANGED row /\ Goto("tomorrow") /\ NoFault
       \/ UNCHANGED row /\ Goto("tomorrow") /\ Fault("no_quote")
    /\ UNCHANGED <<account, journal, volatile>>

\* An unguarded call raises before it had an effect; run_forever catches it.
RaisingPcs == {"reconcile", "decide", "loop", "place", "reprice", "flatten2", "record",
               "monitor", "watch", "close_place", "close_record", "settle"}

SessionRaises ==
    /\ pc \in RaisingPcs
    /\ Goto("backoff")
    /\ Fault("raise")
    /\ UNCHANGED <<account, store, volatile>>

\* After the back-off the session runs again, or the circuit breaker is open
\* (or the shutdown seen) and the process ends.
Backoff ==
    /\ pc = "backoff"
    /\ Goto("down") \/ (~stop /\ Goto("start"))
    /\ NoFault
    /\ UNCHANGED <<account, store, volatile>>

Sigterm ==
    /\ pc \notin {"down", "tomorrow"} /\ ~stop
    /\ stop' = TRUE
    /\ UNCHANGED pc
    /\ Fault("sigterm")
    /\ UNCHANGED <<account, store, volatile>>

Crash ==
    /\ pc \notin {"down", "tomorrow"}
    /\ Goto("down")
    /\ Fault("crash")
    /\ UNCHANGED <<account, store, volatile>>

\* systemd (Restart=always) or the ASG starts a process with nothing in memory.
Restart ==
    /\ pc = "down"
    /\ pc' = "start"
    /\ stop' = FALSE
    /\ sel' = NoSpread /\ cur' = 0 /\ legQty' = 0
    /\ armed' = FALSE /\ exitKind' = "NONE"
    /\ NoFault
    /\ UNCHANGED <<account, store>>

-------------------------------------------------------------------------
\* The environment: the clock and the orders at IBKR.

\* TIF=DAY orders end with the session.
Tick ==
    /\ clock < Closed
    /\ clock' = clock + 1
    /\ orders' = IF clock' = Closed THEN Cancelled({i \in Ids : Working(i)}) ELSE orders
    /\ UNCHANGED <<pos, budget, noEntry, store, pc, stop, volatile>>

\* The windows between a check and the act it allows: the entry order's last
\* poll and its cancel; the read of the positions and the cancel of the orphans.
CheckedThenActed(i) == (pc \in {"reprice", "cancel"} /\ i = cur) \/ pc = "orphans"

OrderFills ==
    \E i \in Ids :
        /\ clock < Closed
        /\ \/ ~CheckedThenActed(i) /\ Execute(i, Legs) /\ NoFault
           \/ CheckedThenActed(i) /\ Execute(i, Legs) /\ Fault("late_fill")
           \/ \E at \in (SUBSET Legs) \ {Legs} : Execute(i, at) /\ Fault("leg")
        /\ UNCHANGED <<store, pc, stop, volatile>>

LegPosts ==
    /\ \E i \in Ids, leg \in Legs : orders[i].delta[leg] # 0 /\ PostLeg(i, leg)
    /\ UNCHANGED <<day, store, pc, stop, volatile>>

OrderRejected ==
    /\ \E i \in Ids : Reject(i)
    /\ Fault("reject")
    /\ UNCHANGED <<store, pc, stop, volatile>>

-------------------------------------------------------------------------
Session == WakeForSession \/ Reconcile \/ CancelOrphans \/ DecideEntry
EntryLoop == \/ LoopHead \/ SoftRetry \/ PlaceEntry \/ AwaitEntry \/ Reprice \/ CancelEntry
             \/ VerifyLegs \/ ReadLongLeg \/ FlattenUnmatchedLeg \/ RecordOpen
Monitor == \/ StartMonitor \/ WatchEnds \/ Arm \/ Suppress \/ Uneconomic \/ Fire
           \/ EmergencyFlatten \/ PlaceClose \/ AwaitClose \/ RecordClose
SessionEnd == PostClose \/ RecordSettlement \/ Backoff

Process == Session \/ EntryLoop \/ Monitor \/ SessionEnd
Failure == SessionRaises \/ Sigterm \/ Crash
Account == OrderFills \/ LegPosts \/ OrderRejected

\* The date is over for this process: nothing of it is touched again.
DayOver == pc = "tomorrow" /\ clock = Closed /\ UNCHANGED vars

Next == Process \/ Failure \/ Restart \/ Tick \/ Account \/ DayOver

\* Every call has a time limit, wall-clock time passes, and a process that ended
\* is started again.
Fairness == WF_vars(Process) /\ WF_vars(Restart) /\ WF_vars(Tick)

Spec == Init /\ [][Next]_vars
FairSpec == Spec /\ Fairness

-------------------------------------------------------------------------
\* Properties that hold whatever fails.

\* The stored row keeps the contract of SpreadLifecycle: opened once, strikes and
\* origin fixed, out of OPEN at most once, settled only by a finished session.
\* record_close and record_settlement (state.py) write without a condition.
LifecycleKept == Lifecycle!Spec

Sent(kind) ==
    Len(orders') > Len(orders) /\ orders'[Len(orders')].kind = kind

\* I7 of docs/strategy-review.md: once this date has a row, open or closed, no
\* restart, retry or adoption leads to another entry order; nor does a session
\* under the monthly gate or on a skipped half day.
NoReentry == [][Sent("entry") => row.status = "ABSENT" /\ ~noEntry]_vars

\* A SELL combo is only ever sent for a spread whose row is OPEN, at its strikes:
\* a stop that already closed the spread is not fired again by a later session.
CloseOnlyOpenRow ==
    [][Sent("close") => row.status = "OPEN" /\ orders'[Len(orders')].sp = row.sp]_vars

\* A row is STOPPED only if a close order really executed: a close that timed
\* out, was rejected or was interrupted leaves the row OPEN.
StoppedMeansClosed == row.status = "STOPPED" => FilledOf("close") # {}

\* The stop never disarms: once a process watched the position armed, every
\* later process that watches it does so armed, whatever happened in between.
ArmedForGood == []((pc = "watch" /\ armed) => [](pc = "watch" => armed))

-------------------------------------------------------------------------
\* Why they hold: what is known at each point of the process.  The conjuncts
\* together are inductive.

\* No row is written, and no gate is active, while the entry loop runs.
EntryUnopened ==
    pc \in EntryPcs \cup {"loop", "soft_wait"} => row = Lifecycle!Absent /\ ~noEntry
StrikesChosen == pc \in EntryPcs => sel \in Spreads

\* Nobody but the monitor and the settlement takes a row out of OPEN.
MonitoredOpen == pc \in MonitorPcs => row.status = "OPEN"
ClosingForReason ==
    pc \in {"close_place", "close_await", "close_record"} =>
        exitKind \in {"STOP", "OUTAGE_FLATTEN"}
SettleAfterClose == pc = "settle" => clock = Closed

\* The order waited for is the close, and it has executed when that is recorded.
AwaitsTheClose ==
    pc = "close_await" /\ cur # 0 => cur \in Ids /\ orders[cur].kind = "close"
RecordsAFill == pc = "close_record" => FilledOf("close") # {}

IInv ==
    /\ TypeOK
    /\ EntryUnopened
    /\ StrikesChosen
    /\ MonitoredOpen
    /\ ClosingForReason
    /\ SettleAfterClose
    /\ AwaitsTheClose
    /\ RecordsAFill
    /\ StoppedMeansClosed

-------------------------------------------------------------------------
\* Properties that hold when no fill lands between a check and the act it
\* allows, guarded reads and cancels succeed, order ids are returned and the
\* legs of a combo are reported together.

\* I1 of docs/strategy-review.md: at most one filled spread per (date, symbol),
\* across crashes, shutdowns, session errors and lost replies.
AtMostOneFilledEntry == Cardinality(FilledOf("entry")) <= 1

\* No two combo orders of the bot work at IBKR at the same time.
OneWorkingCombo == Cardinality(WorkingOf({"entry", "close"})) <= 1

\* A process that got past the entry loop knows its position: a filled entry has
\* a row, so it is monitored and settled.
PastEntryPcs == MonitorPcs \cup {"monitor", "post", "settle"}
PositionHasRow ==
    pc \in PastEntryPcs /\ ~stop /\ FilledOf("entry") # {} => row.status # "ABSENT"

\* No entry order is left working behind a process that got past the entry loop.
NoUnattendedEntry == pc \in PastEntryPcs /\ ~stop => WorkingOf({"entry"}) = {}

\* The day comes to an end: no wait, retry or restart goes on for ever.
DayEnds == <>(pc = "tomorrow")

-------------------------------------------------------------------------
\* What the comments and the documents promise and the code does not keep.

\* A row SETTLED at the hold-to-expiry P&L was held to expiry.
SettledMeansHeld == row.status = "SETTLED" => FilledOf("close") = {}

\* The spread is sold at most as often as it was bought.
NeverOverClosed == \A s \in Spreads : Qty(s, "long") >= 0

\* I5 of docs/strategy-review.md: no entry attempt follows a leg-out flatten.
NoEntryAfterLegOut ==
    \A i, j \in Ids : i < j /\ orders[i].kind = "flatten" => orders[j].kind # "entry"

=======================================================================
