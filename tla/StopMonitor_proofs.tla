----------------------- MODULE StopMonitor_proofs -----------------------
(***************************************************************************)
(* Machine-checked facts about StopMonitor, for every setting load_settings *)
(* accepts: how long the monitor can be blind, and when the stop is armed. *)
(***************************************************************************)
EXTENDS StopMonitor, TLAPS

\* The longest silence is a natural number, no shorter than its causes.
LEMMA LongestType == Longest \in Nat /\ Longest >= EmitEvery - 1 /\ Longest >= ReconnectSec
BY StopMonitorAssumption DEF Longest, Larger

\* The initial states satisfy the invariant.
LEMMA InitInvariant == Init => IInv
<1> SUFFICES ASSUME Init PROVE IInv
  OBVIOUS
<1>1. /\ now = 0 /\ lastYield = Never /\ lastFresh = Never /\ lastInfo = 0 /\ journal = {}
      /\ outcome = "running" /\ reached = FALSE
  BY DEF Init
<1>2. reconnects \in 0..MaxReconnects /\ restarts \in 0..MaxRestarts
  BY StopMonitorAssumption DEF Init
<1>3. armed \in BOOLEAN /\ adopted \in BOOLEAN /\ stopEnabled \in BOOLEAN
  BY DEF Init
<1>4. TypeOK
  BY <1>1, <1>2, <1>3, Zenon DEF TypeOK
<1>5. FreshStart /\ OutageClock /\ YieldInTime /\ FlattenOnlyWhenBlind
  BY <1>1 DEF FreshStart, OutageClock, YieldInTime, FlattenOnlyWhenBlind
<1>6. ArmedJournalled
  BY <1>1 DEF Init, ArmedJournalled, Watching, ArmedFromJournal
<1>7. QED BY <1>4, <1>5, <1>6 DEF IInv

-------------------------------------------------------------------------
(* The timers.                                                             *)

Timers == TypeOK /\ FreshStart /\ OutageClock /\ YieldInTime /\ FlattenOnlyWhenBlind

\* Every step keeps the relations between the outage timers.
LEMMA TimersStep == Timers /\ [Next]_vars => Timers'
<1> SUFFICES ASSUME Timers, [Next]_vars PROVE Timers'
  OBVIOUS
<1> USE StopMonitorAssumption, LongestType
    DEF Timers, TypeOK, FreshStart, OutageClock, YieldInTime, FlattenOnlyWhenBlind, Watching,
        Never, StopOutcomes, poller, given, history
<1>1. CASE StreamEnds
  BY <1>1 DEF StreamEnds
<1>2. CASE Drain
  BY <1>2 DEF Drain
<1>3. CASE \E side \in Sides : FreshTick(side)
  <2>1. /\ stopEnabled /\ now' = now + 1 /\ lastYield' = now + 1 /\ lastFresh' = now + 1
        /\ reconnects' = 0 /\ lastInfo' = now + 1 /\ UNCHANGED <<given, restarts>>
    BY <1>3 DEF FreshTick, Polling, FreshSeen
  <2>2. /\ armed' \in BOOLEAN /\ reached' \in BOOLEAN /\ journal' \subseteq JournalEvents
        /\ outcome' \in {"running", "SUPPRESSED", "UNECONOMIC", "FIRED"}
    BY <1>3 DEF FreshTick, Exit, JournalEvents, Polling
  <2>3. TypeOK'
    BY <2>1, <2>2
  <2>4. QED BY <2>1, <2>2, <2>3
<1>4. CASE NoYield
  BY <1>4 DEF NoYield, Polling
<1>5. CASE FirstSilence
  BY <1>5 DEF FirstSilence, SentinelDue, Polling
<1>6. CASE BlindTooLong
  BY <1>6 DEF BlindTooLong, SentinelDue, Polling, BlindSec
<1>7. CASE Reconnect
  BY <1>7 DEF Reconnect, SentinelDue, Polling, BlindSec, ReconnectDue
<1>8. CASE SilenceTolerated
  BY <1>8 DEF SilenceTolerated, SentinelDue, Polling, BlindSec
<1>9. CASE ShutdownSeen \/ Die
  BY <1>9 DEF ShutdownSeen, Die
<1>10. CASE Resume
  BY <1>10 DEF Resume, ArmedFromJournal
<1>11. CASE ResumeTooLate
  BY <1>11 DEF ResumeTooLate, Larger
<1>12. CASE Done \/ UNCHANGED vars
  BY <1>12 DEF Done, vars
<1>13. QED
  BY <1>1, <1>2, <1>3, <1>4, <1>5, <1>6, <1>7, <1>8, <1>9, <1>10, <1>11, <1>12
     DEF Next, Round, Silence

-------------------------------------------------------------------------
(* The arming.                                                             *)

\* Every step keeps the arming in agreement with the journal.
LEMMA ArmingStep == TypeOK /\ ArmedJournalled /\ [Next]_vars => ArmedJournalled'
<1> SUFFICES ASSUME TypeOK, ArmedJournalled, [Next]_vars PROVE ArmedJournalled'
  OBVIOUS
<1> USE DEF ArmedJournalled, Watching, ArmedFromJournal, StopOutcomes, poller, given, history
<1>1. CASE StreamEnds \/ Drain
  BY <1>1 DEF StreamEnds, Drain
<1>2. CASE \E side \in Sides : FreshTick(side)
  <2>1. PICK side \in Sides : FreshTick(side)
    BY <1>2
  <2>2. outcome = "running" /\ stopEnabled /\ UNCHANGED given
    BY <2>1 DEF FreshTick, Polling
  <2>3. CASE Advance(side, now + 1) = "NONE"
    BY <2>1, <2>2, <2>3 DEF FreshTick
  <2>4. CASE Advance(side, now + 1) = "ARM"
    BY <2>1, <2>2, <2>4 DEF FreshTick
  <2>5. CASE Advance(side, now + 1) \in {"SUPPRESS", "FIRE"}
    <3>1. armed
      BY <2>5 DEF Advance
    <3>2. \E e : Exit(e, outcome') /\ outcome' # "running"
      BY <2>1, <2>5 DEF FreshTick, Exit
    <3>3. QED BY <2>2, <3>1, <3>2 DEF Exit
  <2>6. QED BY <2>3, <2>4, <2>5 DEF Advance
<1>3. CASE Silence
  BY <1>3 DEF Silence, NoYield, FirstSilence, BlindTooLong, Reconnect, SilenceTolerated
<1>4. CASE ShutdownSeen \/ Die \/ ResumeTooLate
  BY <1>4 DEF ShutdownSeen, Die, ResumeTooLate
<1>5. CASE Resume
  BY <1>5 DEF Resume
<1>6. CASE Done \/ UNCHANGED vars
  BY <1>6 DEF Done, vars
<1>7. QED BY <1>1, <1>2, <1>3, <1>4, <1>5, <1>6 DEF Next, Round

-------------------------------------------------------------------------

\* The relations between timers, journal and arming hold in every reachable state.
THEOREM Invariance == Spec => []IInv
<1>1. IInv /\ [Next]_vars => IInv'
  BY TimersStep, ArmingStep DEF IInv, Timers
<1>2. QED BY <1>1, InitInvariant, PTL DEF Spec

\* Every variable keeps its type; in particular no outage uses more reconnects
\* than monitoring_reconnect_max_attempts.
THEOREM TypeCorrect == Spec => []TypeOK
<1>1. IInv => TypeOK
  BY DEF IInv
<1>2. QED BY <1>1, Invariance, PTL

\* R23a for every setting: the time monitor_stop holds a position without a price
\* is bounded by the blind window, one sentinel interval and one blocked reconnect.
THEOREM BlindnessIsBounded == Spec => []BlindnessBounded
<1>1. IInv => BlindnessBounded
  <2> SUFFICES ASSUME IInv, stopEnabled, outcome = "running"
               PROVE  now - lastInfo <= Larger(MaxBlind, 1) + Longest
    BY DEF BlindnessBounded
  <2> USE StopMonitorAssumption, LongestType DEF IInv, TypeOK, Watching, Larger
  <2>1. CASE lastYield = Never
    BY <2>1 DEF FreshStart
  <2>2. CASE lastYield # Never /\ lastYield = lastFresh
    BY <2>2 DEF YieldInTime, OutageClock
  <2>3. CASE lastYield # Never /\ lastYield # lastFresh
    BY <2>3 DEF YieldInTime, OutageClock, FreshStart
  <2>4. QED BY <2>1, <2>2, <2>3
<1>2. QED BY <1>1, Invariance, PTL

\* The outage flatten of _emergency_flatten (I9) only follows a real outage of
\* monitoring_quote_max_blind_sec.
THEOREM FlattensOnlyWhenBlind == Spec => []FlattenOnlyWhenBlind
<1>1. IInv => FlattenOnlyWhenBlind
  BY DEF IInv
<1>2. QED BY <1>1, Invariance, PTL

\* stop.advance never acts on a spread that was not above breakeven first: not in
\* this process, and not in one that resumes from another's journal.
THEOREM FiresOnlyAfterBreakeven == Spec => []FiredOnlyAfterBreakeven
<1>1. IInv => FiredOnlyAfterBreakeven
  BY DEF IInv, ArmedJournalled, FiredOnlyAfterBreakeven
<1>2. QED BY <1>1, Invariance, PTL

\* The arming outlives the process that saw the price: state_from_journal_events
\* restores it in every later monitor.
THEOREM ArmingSurvives == Spec => []ArmedSurvives
<1>1. IInv => ArmedSurvives
  BY DEF IInv, ArmedJournalled, ArmedSurvives, Watching, ArmedFromJournal
<1>2. QED BY <1>1, Invariance, PTL
=======================================================================
