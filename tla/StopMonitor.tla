-------------------------- MODULE StopMonitor --------------------------
(***************************************************************************)
(* The monitor of one open spread, in seconds: strategy.monitor_stop, the  *)
(* pure stop machine stop.advance, the journal replay, and the poller      *)
(* cpapi/spot.stream_ticks that feeds them.  One step is one round of the  *)
(* poller and whatever the monitor does with what the round yields.  A     *)
(* price matters only by its side of the breakeven.                        *)
(*                                                                         *)
(* The process may die or be thrown out of the session at any round; a     *)
(* later process resumes from the journal, with its timers lost.           *)
(***************************************************************************)
EXTENDS Integers, FiniteSets

CONSTANTS
    CloseTime,      \* close_utc, in seconds from the start of the watch
    LatestSec,      \* stop_latest_sec
    Grace,          \* monitoring_quote_grace_sec
    MaxBlind,       \* monitoring_quote_max_blind_sec
    MaxReconnects,  \* monitoring_reconnect_max_attempts
    EmitEvery,      \* silence_emit_interval_s of the poller
    ReconnectSec,   \* the longest a reconnect attempt blocks
    MaxRestarts     \* bound: how often a process dies while it watches

\* What load_settings accepts (config.py), and the poller's default.
ASSUME StopMonitorAssumption ==
    /\ CloseTime \in Nat /\ LatestSec \in Nat
    /\ Grace \in Nat /\ MaxBlind \in Nat /\ Grace <= MaxBlind
    /\ MaxReconnects \in Nat
    /\ EmitEvery \in Nat \ {0}
    /\ ReconnectSec \in Nat
    /\ MaxRestarts \in Nat

VARIABLES
    now,          \* the wall clock
    lastYield,    \* stream_ticks: when it last yielded
    lastFresh,    \* monitor_stop: last_fresh_now
    reconnects,   \* monitor_stop: reconnects_done
    armed,        \* StopState.armed
    outcome,      \* "running", a StopOutcome, "died" or "missed"
    journal,      \* the stop events recorded for the spread
    adopted,      \* the spread was adopted from IBKR
    stopEnabled,  \* the stop_enabled setting
    restarts,     \* processes that died so far
    lastInfo,     \* history: when this process last saw a price, or began to watch
    reached       \* history: a price at or above breakeven was acted upon

poller == <<lastYield, lastFresh, reconnects>>
given == <<adopted, stopEnabled>>
history == <<lastInfo, reached>>
vars == <<now, poller, armed, outcome, journal, given, restarts, history>>

Larger(a, b) == IF a >= b THEN a ELSE b

Never == -1   \* None
StopOutcomes == {"NEVER", "FIRED", "SUPPRESSED", "UNECONOMIC", "OUTAGE_FLATTEN"}
JournalEvents == {"armed", "suppressed", "uneconomic", "fired"}
Sides == {"above", "below"}   \* spot >= breakeven, spot < breakeven

\* The type of every variable.
TypeOK ==
    /\ now \in Nat
    /\ lastYield \in Nat \cup {Never}
    /\ lastFresh \in Nat \cup {Never}
    /\ reconnects \in 0..MaxReconnects
    /\ armed \in BOOLEAN
    /\ outcome \in StopOutcomes \cup {"running", "died", "missed"}
    /\ journal \subseteq JournalEvents
    /\ adopted \in BOOLEAN
    /\ stopEnabled \in BOOLEAN
    /\ restarts \in 0..MaxRestarts
    /\ lastInfo \in Nat
    /\ reached \in BOOLEAN

Init ==
    /\ now = 0
    /\ lastYield = Never /\ lastFresh = Never /\ reconnects = 0
    /\ adopted \in BOOLEAN
    /\ stopEnabled \in BOOLEAN
    /\ armed = (stopEnabled /\ adopted)
    /\ outcome = "running"
    /\ journal = {}
    /\ restarts = 0
    /\ lastInfo = 0
    /\ reached = FALSE

-------------------------------------------------------------------------
\* state_from_journal_events
AlwaysArmed == TRUE   \* variant: a restart arms the stop
AdoptedOnly == adopted   \* variant: the journal is not read
ArmedFromJournal == journal # {} \/ adopted

\* stop.advance
InSuppression(t) == CloseTime - t <= LatestSec
Advance(side, t) ==
    IF ~armed
    THEN IF side = "above" /\ ~InSuppression(t) THEN "ARM" ELSE "NONE"
    ELSE IF side = "above" THEN "NONE"
         ELSE IF InSuppression(t) THEN "SUPPRESS" ELSE "FIRE"

OverAfterYield(t) == t >= CloseTime /\ lastYield = now   \* variant: only looked at after a yield
SessionOver(t) == t >= CloseTime

\* One poll takes a second; at the close the stream ends.
StreamEnds ==
    /\ outcome = "running"
    /\ SessionOver(now + 1)
    /\ now' = now + 1
    /\ outcome' = "NEVER"
    /\ UNCHANGED <<poller, armed, journal, given, restarts, history>>

\* A shutdown is noticed at the next tick.
ShutdownSeen ==
    /\ outcome = "running"
    /\ outcome' = "NEVER"
    /\ UNCHANGED <<now, poller, armed, journal, given, restarts, history>>

\* The stream goes on and the monitor looks at what it yields.
Polling(t) == stopEnabled /\ outcome = "running" /\ t < CloseTime

\* With the stop disabled the stream is drained, outages and all, until the close.
Drain ==
    /\ ~stopEnabled /\ outcome = "running"
    /\ now + 1 < CloseTime
    /\ now' = now + 1
    /\ UNCHANGED <<poller, armed, outcome, journal, given, restarts, history>>

\* What a fresh tick resets.
FreshKept(t) == lastFresh' = lastFresh /\ reconnects' = reconnects   \* variant: nothing
FreshSeen(t) == lastFresh' = t /\ reconnects' = 0

Exit(event, result) ==
    /\ journal' = journal \cup {event}
    /\ outcome' = result
    /\ UNCHANGED <<armed, reached>>

\* A price arrives: the outage tracking starts over and the stop machine advances.
FreshTick(side) ==
    LET t == now + 1
        action == Advance(side, t)
    IN  /\ Polling(t)
        /\ now' = t
        /\ lastYield' = t
        /\ FreshSeen(t)
        /\ lastInfo' = t
        /\ \/ action = "NONE" /\ UNCHANGED <<armed, outcome, journal, reached>>
           \/ /\ action = "ARM"
              /\ journal' = journal \cup {"armed"}
              /\ armed' = TRUE /\ reached' = TRUE
              /\ UNCHANGED outcome
           \/ action = "SUPPRESS" /\ Exit("suppressed", "SUPPRESSED")
           \/ action = "FIRE" /\ Exit("uneconomic", "UNECONOMIC")
           \/ action = "FIRE" /\ Exit("fired", "FIRED")
        /\ UNCHANGED <<given, restarts>>

\* Nothing usable arrives and the last yield is too recent for a sentinel.
NoYield ==
    /\ Polling(now + 1)
    /\ lastYield # Never /\ now + 1 - lastYield < EmitEvery
    /\ now' = now + 1
    /\ UNCHANGED <<poller, armed, outcome, journal, given, restarts, history>>

SentinelDue(t) ==
    /\ Polling(t)
    /\ lastYield = Never \/ t - lastYield >= EmitEvery

\* The first sentinel of a stream that has not seen a price starts the outage clock.
FirstSilence ==
    /\ SentinelDue(now + 1)
    /\ lastFresh = Never
    /\ now' = now + 1
    /\ lastYield' = now + 1
    /\ lastFresh' = now + 1
    /\ UNCHANGED <<reconnects, armed, outcome, journal, given, restarts, history>>

\* How long the monitor has been blind, as it reckons it.
BlindSinceYield(t) == t - lastYield   \* variant: measured from the last sentinel
BlindSec(t) == t - lastFresh

OverdueAgain(t) == BlindSec(t) >= Grace * (reconnects + 1)   \* variant: no limit
ReconnectDue(t) ==
    /\ BlindSec(t) >= Grace * (reconnects + 1)
    /\ reconnects < MaxReconnects

\* _emergency_flatten: checked before the reconnects, whatever the credit.
BlindTooLong ==
    /\ SentinelDue(now + 1)
    /\ lastFresh # Never
    /\ BlindSec(now + 1) >= MaxBlind
    /\ now' = now + 1
    /\ lastYield' = now + 1
    /\ outcome' = "OUTAGE_FLATTEN"
    /\ UNCHANGED <<lastFresh, reconnects, armed, journal, given, restarts, history>>

\* A reconnect blocks for a while, and counts whether or not it succeeds.
Reconnect ==
    /\ SentinelDue(now + 1)
    /\ lastFresh # Never
    /\ BlindSec(now + 1) < MaxBlind
    /\ ReconnectDue(now + 1)
    /\ \E blocked \in 0..ReconnectSec : now' = now + 1 + blocked
    /\ lastYield' = now + 1
    /\ reconnects' = reconnects + 1
    /\ UNCHANGED <<lastFresh, armed, outcome, journal, given, restarts, history>>

SilenceTolerated ==
    /\ SentinelDue(now + 1)
    /\ lastFresh # Never
    /\ BlindSec(now + 1) < MaxBlind
    /\ ~ReconnectDue(now + 1)
    /\ now' = now + 1
    /\ lastYield' = now + 1
    /\ UNCHANGED <<lastFresh, reconnects, armed, outcome, journal, given, restarts, history>>

\* The process is killed, or a call of the monitor raises out of the session.
Die ==
    /\ outcome = "running"
    /\ restarts < MaxRestarts
    /\ outcome' = "died"
    /\ restarts' = restarts + 1
    /\ UNCHANGED <<now, poller, armed, journal, given, history>>

\* A later process, or session, opens a new stream on the same OPEN row.
Resume ==
    /\ outcome = "died"
    /\ \E t \in now..CloseTime - 1 : now' = t /\ lastInfo' = t
    /\ lastYield' = Never /\ lastFresh' = Never /\ reconnects' = 0
    /\ armed' = (stopEnabled /\ ArmedFromJournal)
    /\ outcome' = "running"
    /\ UNCHANGED <<journal, given, restarts, reached>>

\* It comes back after the close: the session has rolled to the next day and the
\* row stays OPEN.
ResumeTooLate ==
    /\ outcome = "died"
    /\ outcome' = "missed"
    /\ now' = Larger(now, CloseTime)
    /\ UNCHANGED <<poller, armed, journal, given, restarts, history>>

Ended == StopOutcomes \cup {"missed"}
Done == outcome \in Ended /\ UNCHANGED vars

Silence == NoYield \/ FirstSilence \/ BlindTooLong \/ Reconnect \/ SilenceTolerated
Round == StreamEnds \/ Drain \/ Silence \/ \E side \in Sides : FreshTick(side)
Next == Round \/ ShutdownSeen \/ Die \/ Resume \/ ResumeTooLate \/ Done

Spec == Init /\ [][Next]_vars

\* A poll times out after a second, and a process that died is started again.
FairSpec == Spec /\ WF_vars(Round) /\ WF_vars(Resume \/ ResumeTooLate)

-------------------------------------------------------------------------
\* The longest the monitor goes without a yield to look at.
Longest == Larger(EmitEvery - 1, ReconnectSec)

\* R23a: the monitor never sits on the position without a price for longer than
\* the blind window and one sentinel interval, or one blocked reconnect.
BlindnessBounded ==
    stopEnabled /\ outcome = "running" =>
        now - lastInfo <= Larger(MaxBlind, 1) + Longest

\* I9: the outage flatten is loud only after a real outage.
FlattenOnlyWhenBlind == outcome = "OUTAGE_FLATTEN" => now - lastInfo >= MaxBlind

\* The downside-only stop: no process closes a spread at the stop unless some
\* process saw the price at or above breakeven first, or the spread was adopted.
FiredOnlyAfterBreakeven == outcome \in {"FIRED", "UNECONOMIC", "SUPPRESSED"} => reached \/ adopted

\* The stop survives restarts: once a price above breakeven was acted upon, every
\* monitor of the spread runs armed.
ArmedSurvives == stopEnabled /\ reached /\ outcome = "running" => armed

\* Why they hold: how the timers of a running monitor relate.
Watching == stopEnabled /\ outcome = "running"

\* Before the first yield the process has just begun to watch.
FreshStart ==
    Watching => /\ lastYield = Never <=> lastFresh = Never
                /\ lastYield = Never => now = lastInfo

\* The outage clock starts at the last price, or at the first sentinel.
OutageClock == Watching /\ lastFresh # Never => lastInfo <= lastFresh /\ lastFresh <= lastInfo + 1

\* The last yield was a price, the first sentinel, or one before the blind limit.
YieldInTime ==
    Watching /\ lastYield # Never =>
        /\ lastYield <= now /\ now - lastYield <= Longest
        /\ \/ lastYield = lastFresh
           \/ lastFresh <= lastYield /\ lastYield - lastFresh < MaxBlind

\* What a process knows of the stop is in the journal.
ArmedJournalled ==
    /\ reached => journal # {}
    /\ journal # {} => reached \/ adopted
    /\ Watching => (armed <=> ArmedFromJournal)
    /\ outcome \in {"FIRED", "UNECONOMIC", "SUPPRESSED"} => journal # {}

IInv ==
    /\ TypeOK
    /\ FreshStart
    /\ OutageClock
    /\ YieldInTime
    /\ ArmedJournalled
    /\ FlattenOnlyWhenBlind

\* The monitor gives the session back by the close.
MonitorReturns == <>(outcome \in Ended)

\* R23a as load_settings states it (config.py): a flatten never comes before the
\* first reconnect attempt.
ReconnectFirst == outcome = "OUTAGE_FLATTEN" => reconnects > 0
=======================================================================
