-------------------------- MODULE SessionLoop --------------------------
(* Scheduler.run_forever over several days: one process after another, each *)
(* a loop of sessions with a count of consecutive errors, a circuit breaker  *)
(* and an interruptible back-off; what the sessions leave to each other is   *)
(* one row per date. A session is seen from outside here: whether it enters, *)
(* how the position ends and what it earns is open (TradingDay has the       *)
(* calls). A day has three parts: before the entry time, from it to the      *)
(* close, after the close. load_settings admits a single symbol.             *)
EXTENDS Integers, Sequences, Functions

CONSTANTS
    Horizon,           \* the days are 1 .. Horizon
    TradingDays,       \* the days with a session (calendar.py)
    HalfDays,          \* those that close early
    MonthOf,           \* the month of each day, as in year_month
    Pnls,              \* what a spread may earn or lose
    MonthlyStop,       \* monthly_stop_on_negative_pnl
    SkipHalfDays,      \* skip_half_days
    MaxConsecutive,    \* session_error_max_consecutive
    MaxFaults          \* bound: raises, crashes, signals, failed connects

Days == 1 .. Horizon

ASSUME CalendarAssumption ==
    /\ Horizon \in Nat \ {0}
    /\ TradingDays \subseteq Days
    /\ HalfDays \subseteq TradingDays
    /\ DOMAIN MonthOf = Days

ASSUME SettingsAssumption ==
    /\ Pnls \subseteq Int
    /\ MonthlyStop \in BOOLEAN
    /\ SkipHalfDays \in BOOLEAN
    /\ MaxConsecutive \in Nat \ {0}
    /\ MaxFaults \in Nat

VARIABLES
    day, part,    \* the clock in New York
    pc,           \* where the process is
    target,       \* entry_utc: the day of the session
    errors,       \* consecutive_errors
    gate,         \* gate_active
    stop,         \* _stop_event
    rows,         \* the spread row of each date in DynamoDB
    held,         \* the account holds a spread that expires today
    reported,     \* the dates of the stale_open_spread events
    attended,     \* history: the days a session began
    outcomes,     \* history: how the last sessions of this process ended
    scanned,      \* history: the day of the last completed stale scan
    repaired,     \* history: rows settled by hand since the gate was read
    faults        \* counts what MaxFaults bounds

clock == <<day, part>>
store == <<rows, held>>
history == <<attended, outcomes, scanned, repaired>>
vars == <<clock, pc, target, errors, gate, stop, store, reported, history, faults>>

NoDay == Horizon + 1
NoRow == [status |-> "NONE", pnl |-> 0]
OpenRow == [status |-> "OPEN", pnl |-> 0]

InSession == {"reconcile", "scan", "gate", "enter", "record", "monitor", "hold", "settle"}
Dead == {"down", "gaveup"}

Init ==
    /\ day = 1
    /\ part = "early"
    /\ pc = "connect"
    /\ target = NoDay
    /\ errors = 0
    /\ gate = FALSE
    /\ stop = FALSE
    /\ rows = [d \in Days |-> NoRow]
    /\ held = FALSE
    /\ reported = {}
    /\ attended = {}
    /\ outcomes = <<>>
    /\ scanned = 0
    /\ repaired = {}
    /\ faults = 0

(***************************************************************************)
(* The start and the end of a process                                      *)
(***************************************************************************)

\* connect() and select_account_id() succeed, the heartbeat starts.
Connect ==
    /\ pc = "connect"
    /\ ~stop
    /\ pc' = "loop"
    /\ UNCHANGED <<clock, target, errors, gate, stop, store, reported, history, faults>>

\* ShutdownRequested out of connect().
ConnectStopped ==
    /\ pc = "connect"
    /\ stop
    /\ pc' = "down"
    /\ UNCHANGED <<clock, target, errors, gate, stop, store, reported, history, faults>>

\* The gateway is not ready in time, or shows no account: RuntimeError ends
\* the process, which is not yet in the loop that would count it.
ConnectFails ==
    /\ pc = "connect"
    /\ faults < MaxFaults
    /\ faults' = faults + 1
    /\ pc' = "down"
    /\ UNCHANGED <<clock, target, errors, gate, stop, store, reported, history>>

\* The end of the loop and its finally block.
Leave ==
    /\ pc = "loop"
    /\ stop
    /\ pc' = "down"
    /\ UNCHANGED <<clock, target, errors, gate, stop, store, reported, history, faults>>

(***************************************************************************)
(* How a session ends                                                      *)
(***************************************************************************)

\* The history keeps as many outcomes as the breaker counts.
Remember(outcome) ==
    LET all == Append(outcomes, outcome)
    IN  outcomes' = IF Len(all) > MaxConsecutive THEN Tail(all) ELSE all

\* variant: a completed session does not reset the count
SessionReturnsUncounted ==
    /\ pc' = "loop"
    /\ UNCHANGED errors
    /\ Remember("ok")

\* _run_one_session returns, whether it ran to its end or was told to stop.
SessionReturns ==
    /\ pc' = "loop"
    /\ errors' = 0
    /\ Remember("ok")

\* variant: one error too many
BreakerOpensLate == errors' > MaxConsecutive

BreakerOpens == errors' >= MaxConsecutive

\* An exception out of a call that nothing in the session guards.
SessionRaises ==
    /\ pc \in {"reconcile", "gate", "enter", "record", "monitor", "settle"}
    /\ faults < MaxFaults
    /\ faults' = faults + 1
    /\ errors' = errors + 1
    /\ pc' = IF BreakerOpens THEN "gaveup" ELSE "backoff"
    /\ Remember("error")
    /\ UNCHANGED <<clock, target, gate, stop, store, reported, attended, scanned, repaired>>

\* _stop_event.wait(backoff_s) ends by the timeout or by the event.
Backoff ==
    /\ pc = "backoff"
    /\ pc' = "loop"
    /\ UNCHANGED <<clock, target, errors, gate, stop, store, reported, history, faults>>

(***************************************************************************)
(* One session                                                             *)
(***************************************************************************)

Over(d) == d < day \/ (d = day /\ part = "closed")
Due(d) == d < day \/ (d = day /\ part # "early")

\* The first of a set of days, or NoDay where the calendar ends.
First(ds) == IF ds = {} THEN NoDay ELSE CHOOSE d \in ds : \A e \in ds : d <= e

\* variant: only an entry time that is still to come
NextFutureEntryDay == First({d \in TradingDays : ~Due(d)})

\* Today's entry time up to today's close, also if it has passed; then the
\* next trading day's.
NextEntryDay == First({d \in TradingDays : ~Over(d)})

TopOfLoop ==
    /\ pc = "loop"
    /\ ~stop
    /\ target' = NextEntryDay
    /\ pc' = "wait"
    /\ UNCHANGED <<clock, errors, gate, stop, store, reported, history, faults>>

\* _sleep_until(entry_utc), both ways out.
EntryTimeReached ==
    /\ pc = "wait"
    /\ ~stop
    /\ Due(target)
    /\ attended' = attended \cup {target}
    /\ pc' = "reconcile"
    /\ UNCHANGED <<clock, target, errors, gate, stop, store, reported, outcomes, scanned, repaired, faults>>

EntrySleepStopped ==
    /\ pc = "wait"
    /\ stop
    /\ SessionReturns
    /\ UNCHANGED <<clock, target, gate, stop, store, reported, attended, scanned, repaired, faults>>

\* A spread the account holds and the store does not know is adopted.
Reconcile ==
    /\ pc = "reconcile"
    /\ rows' = IF held /\ rows[target] = NoRow
               THEN [rows EXCEPT ![target] = OpenRow] ELSE rows
    /\ pc' = "scan"
    /\ UNCHANGED <<clock, target, errors, gate, stop, held, reported, history, faults>>

\* variant: only the rows of the current month are scanned
StaleThisMonth(today) ==
    {d \in Days : MonthOf[d] = MonthOf[today] /\ d < today /\ rows[d].status = "OPEN"}

StaleOpenSpreads(today) == {d \in Days : d < today /\ rows[d].status = "OPEN"}

EmitStaleOpenSpreads ==
    /\ pc = "scan"
    /\ reported' = reported \cup StaleOpenSpreads(target)
    /\ scanned' = target
    /\ pc' = "gate"
    /\ UNCHANGED <<clock, target, errors, gate, stop, store, attended, outcomes, repaired, faults>>

\* The scan of the table raises; the session goes on without it.
ScanFails ==
    /\ pc = "scan"
    /\ faults < MaxFaults
    /\ faults' = faults + 1
    /\ pc' = "gate"
    /\ UNCHANGED <<clock, target, errors, gate, stop, store, reported, history>>

\* variant: the sum leaves the stopped spreads out
RealisedBySettlement(month) ==
    {d \in Days : MonthOf[d] = month /\ rows[d].status = "SETTLED"}

\* The rows with a realised result of one month.
Realised(month) ==
    {d \in Days : MonthOf[d] = month /\ rows[d].status \in {"STOPPED", "SETTLED"}}

SumOf(ds) == SumFunction([d \in ds |-> rows[d].pnl])

MonthlyPnlTotal(month) == SumOf(Realised(month))

MonthlyGateActive ==
    /\ pc = "gate"
    /\ gate' = (MonthlyStop /\ MonthlyPnlTotal(MonthOf[target]) < 0)
    /\ repaired' = {}
    /\ pc' = "enter"
    /\ UNCHANGED <<clock, target, errors, stop, store, reported, attended, outcomes, scanned, faults>>

\* The symbol is skipped, or the retries end without a fill.
NoEntry ==
    /\ pc = "enter"
    /\ pc' = "monitor"
    /\ UNCHANGED <<clock, target, errors, gate, stop, store, reported, history, faults>>

SkipNewEntries == gate \/ (SkipHalfDays /\ target \in HalfDays)

EntryFills ==
    /\ pc = "enter"
    /\ rows[target] = NoRow
    /\ ~SkipNewEntries
    /\ part = "session"
    /\ ~stop
    /\ held' = TRUE
    /\ pc' = "record"
    /\ UNCHANGED <<clock, target, errors, gate, stop, rows, reported, history, faults>>

RecordOpen ==
    /\ pc = "record"
    /\ rows' = [rows EXCEPT ![target] = OpenRow]
    /\ pc' = "monitor"
    /\ UNCHANGED <<clock, target, errors, gate, stop, held, reported, history, faults>>

\* The stop, or the flatten of an outage, and record_close.
StopCloses ==
    /\ pc = "monitor"
    /\ rows[target].status = "OPEN"
    /\ part = "session"
    /\ \E pnl \in Pnls : rows' = [rows EXCEPT ![target] = [status |-> "STOPPED", pnl |-> pnl]]
    /\ held' = FALSE
    /\ pc' = "hold"
    /\ UNCHANGED <<clock, target, errors, gate, stop, reported, history, faults>>

\* The close comes, the process is told to stop, there is nothing to watch
\* or no chain to watch it with.
MonitorEnds ==
    /\ pc = "monitor"
    /\ pc' = "hold"
    /\ UNCHANGED <<clock, target, errors, gate, stop, store, reported, history, faults>>

\* variant: the process sleeps until the close before it looks at the event
CloseSleptThrough ==
    /\ pc = "hold"
    /\ stop
    /\ Over(target)
    /\ SessionReturns
    /\ UNCHANGED <<clock, target, gate, stop, store, reported, attended, scanned, repaired, faults>>

\* _sleep_until(close_utc + 1 min), both ways out.
CloseReached ==
    /\ pc = "hold"
    /\ ~stop
    /\ Over(target)
    /\ pc' = "settle"
    /\ UNCHANGED <<clock, target, errors, gate, stop, store, reported, history, faults>>

CloseSleepStopped ==
    /\ pc = "hold"
    /\ stop
    /\ SessionReturns
    /\ UNCHANGED <<clock, target, gate, stop, store, reported, attended, scanned, repaired, faults>>

\* variant: every row that is OPEN
EveryOpenRow == {d \in Days : rows[d].status = "OPEN"}

\* The rows _record_settlements loads: those of the session's own date.
ToSettle == {d \in Days : d = target /\ rows[d].status = "OPEN"}

\* A row is left OPEN if the price is missing or outside the sanity band.
RecordSettlements ==
    /\ pc = "settle"
    /\ \E settled \in SUBSET ToSettle, pnl \in Pnls :
          rows' = [d \in Days |-> IF d \in settled
                                  THEN [status |-> "SETTLED", pnl |-> pnl]
                                  ELSE rows[d]]
    /\ SessionReturns
    /\ UNCHANGED <<clock, target, gate, stop, held, reported, attended, scanned, repaired, faults>>

(***************************************************************************)
(* The environment                                                         *)
(***************************************************************************)

Sigterm ==
    /\ pc \notin Dead
    /\ ~stop
    /\ faults < MaxFaults
    /\ faults' = faults + 1
    /\ stop' = TRUE
    /\ UNCHANGED <<clock, pc, target, errors, gate, store, reported, history>>

Crash ==
    /\ pc \notin Dead
    /\ faults < MaxFaults
    /\ faults' = faults + 1
    /\ pc' = "down"
    /\ UNCHANGED <<clock, target, errors, gate, stop, store, reported, history>>

\* systemd or the ASG starts another process.
Restart ==
    /\ pc \in Dead
    /\ pc' = "connect"
    /\ target' = NoDay
    /\ errors' = 0
    /\ gate' = FALSE
    /\ stop' = FALSE
    /\ outcomes' = <<>>
    /\ UNCHANGED <<clock, store, reported, attended, scanned, repaired, faults>>

\* The operator follows the runbook for a reported row.
SettleByHand ==
    \E d \in reported, pnl \in Pnls :
        /\ rows[d].status = "OPEN"
        /\ rows' = [rows EXCEPT ![d] = [status |-> "SETTLED", pnl |-> pnl]]
        /\ repaired' = repaired \cup {d}
        /\ UNCHANGED <<clock, pc, target, errors, gate, stop, held, reported, attended, outcomes, scanned, faults>>

\* The entry time and the close find a process that sleeps less than a minute
\* at a time: it does not sleep through them.
Awake == pc = "loop" \/ (pc = "wait" /\ Due(target) /\ ~stop)

EntryTime ==
    /\ part = "early"
    /\ ~Awake
    /\ part' = "session"
    /\ UNCHANGED <<day, pc, target, errors, gate, stop, store, reported, history, faults>>

\* 0DTE positions are settled in cash.
MarketCloses ==
    /\ part = "session"
    /\ ~Awake
    /\ part' = "closed"
    /\ held' = FALSE
    /\ UNCHANGED <<day, pc, target, errors, gate, stop, rows, reported, history, faults>>

\* Settling and backing off take minutes, not the night.
Midnight ==
    /\ part = "closed"
    /\ day < Horizon
    /\ pc \in {"connect", "wait"} \cup Dead
    /\ ~Awake
    /\ day' = day + 1
    /\ part' = "early"
    /\ UNCHANGED <<pc, target, errors, gate, stop, store, reported, history, faults>>

\* The modelled calendar is over and the process waits.
CalendarOver ==
    /\ pc = "wait"
    /\ target = NoDay
    /\ UNCHANGED vars

Process ==
    \/ Connect \/ ConnectStopped \/ Leave \/ Backoff
    \/ TopOfLoop \/ EntryTimeReached \/ EntrySleepStopped
    \/ Reconcile \/ EmitStaleOpenSpreads \/ MonthlyGateActive
    \/ NoEntry \/ EntryFills \/ RecordOpen
    \/ StopCloses \/ MonitorEnds
    \/ CloseReached \/ CloseSleepStopped \/ RecordSettlements

Environment ==
    \/ ConnectFails \/ SessionRaises \/ ScanFails \/ Sigterm \/ Crash \/ Restart
    \/ SettleByHand \/ EntryTime \/ MarketCloses \/ Midnight

Next == Process \/ Environment \/ CalendarOver

Spec == Init /\ [][Next]_vars

\* Every call of the process has a timeout.
FairSpec == Spec /\ WF_vars(Process)

(***************************************************************************)
(* Properties                                                              *)
(***************************************************************************)

Rows == {NoRow, OpenRow} \cup [status : {"STOPPED", "SETTLED"}, pnl : Pnls]

\* The types; a process whose count of errors is at the limit has given up.
TypeOK ==
    /\ day \in Days
    /\ part \in {"early", "session", "closed"}
    /\ pc \in {"connect", "loop", "wait", "backoff"} \cup InSession \cup Dead
    /\ target \in TradingDays \cup {NoDay}
    /\ errors \in 0 .. MaxConsecutive
    /\ errors = MaxConsecutive => pc = "gaveup"
    /\ gate \in BOOLEAN
    /\ stop \in BOOLEAN
    /\ rows \in [Days -> Rows]
    /\ held \in BOOLEAN
    /\ reported \subseteq Days
    /\ attended \subseteq TradingDays
    /\ outcomes \in Seq({"ok", "error"})
    /\ scanned \in 0 .. Horizon
    /\ repaired \subseteq Days
    /\ faults \in 0 .. MaxFaults

\* The days of a month whose spread has come to an end, by stop or settlement.
EndedIn(month) == {d \in Days : MonthOf[d] = month /\ rows[d] \notin {NoRow, OpenRow}}

\* The monthly capital gate (R9): no spread is bought in a month whose
\* realised results are negative, whichever process realised them and however
\* many sessions, errors and restarts lie between. A row that the operator
\* settles while a session trades counts from the next session on.
GateKept ==
    [][ (MonthlyStop /\ held' /\ ~held)
        => ~(SumOf(EndedIn(MonthOf[day]) \ repaired) < 0) ]_vars

SessionsOver == {d \in TradingDays : Over(d)}

\* The sessions that end with this step were attended, or nobody could.
NoneMissed ==
    \A d \in SessionsOver' \ SessionsOver :
        \/ d \in attended
        \/ stop
        \/ pc \in Dead \cup {"connect"}

\* No trading day is forfeited: if one closes without a session, then no
\* process was in its loop at the close, or it had been told to stop. A start
\* in the middle of the day, or an error, does not postpone to the next day.
NoSessionForfeited == [][NoneMissed]_vars

\* A session changes the row of its own date only. A row that an earlier day
\* left OPEN is never settled at the price of another day; only the operator
\* may end it.
OwnDateOnly ==
    [][ \A d \in Days :
            rows'[d] # rows[d] => d = day \/ d \in repaired' \ repaired ]_vars

\* Every row an earlier day left OPEN is reported by each session whose scan
\* completed, also across the end of a month, and no row of today ever is.
StaleRowsReported ==
    /\ \A d \in Days : rows[d].status = "OPEN" /\ d < scanned => d \in reported
    /\ \A d \in reported : d < day

\* The process gives up exactly when the last MaxConsecutive sessions it ran
\* all raised: neither after scattered errors nor ever later.
BreakerRight ==
    pc = "gaveup" <=>
        /\ Len(outcomes) = MaxConsecutive
        /\ \A i \in 1 .. MaxConsecutive : outcomes[i] = "error"

\* A shutdown request ends the process from wherever it is, without waiting
\* for the entry time, the close or another session.
ShutdownEnds == stop ~> pc \in Dead

========================================================================
