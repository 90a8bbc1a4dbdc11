------------------------ MODULE SpreadLifecycle ------------------------
(***************************************************************************)
(* What the DynamoDB row of one (date, symbol) promises to its readers:    *)
(* the monitor, the settlement, the monthly gate and the operator.  The    *)
(* row is written once as OPEN, its strikes and its origin never change,   *)
(* it leaves OPEN at most once, and only a finished session settles it.    *)
(* Store.record_close and Store.record_settlement (state.py) update        *)
(* unconditionally, so this contract is kept by their callers alone.       *)
(***************************************************************************)
CONSTANTS Spreads,   \* the (long strike, short strike) pairs
          NoSpread   \* the strikes of a row that does not exist

VARIABLES row,     \* the spread row
          closed   \* whether the session has passed its close

Absent == [status |-> "ABSENT", sp |-> NoSpread, adopted |-> FALSE, exit |-> "NONE"]

Rows ==
    {Absent}
    \cup [status : {"OPEN"}, sp : Spreads, adopted : BOOLEAN, exit : {"NONE"}]
    \cup [status : {"STOPPED"}, sp : Spreads, adopted : BOOLEAN,
          exit : {"STOP", "OUTAGE_FLATTEN"}]
    \cup [status : {"SETTLED"}, sp : Spreads, adopted : BOOLEAN, exit : {"SETTLE"}]

Opened(s, adopted) ==
    [status |-> "OPEN", sp |-> s, adopted |-> adopted, exit |-> "NONE"]

\* The row once it has left OPEN: the strikes and the origin stay.
Ended(status, exit) ==
    [status |-> status, sp |-> row.sp, adopted |-> row.adopted, exit |-> exit]

Init == row = Absent /\ closed = FALSE

Open ==
    /\ row = Absent
    /\ \E s \in Spreads, adopted \in BOOLEAN : row' = Opened(s, adopted)
    /\ UNCHANGED closed

Stop ==
    /\ row.status = "OPEN"
    /\ \E kind \in {"STOP", "OUTAGE_FLATTEN"} : row' = Ended("STOPPED", kind)
    /\ UNCHANGED closed

Settle ==
    /\ row.status = "OPEN"
    /\ closed
    /\ row' = Ended("SETTLED", "SETTLE")
    /\ UNCHANGED closed

MarketCloses == ~closed /\ closed' = TRUE /\ UNCHANGED row

Next == Open \/ Stop \/ Settle \/ MarketCloses

vars == <<row, closed>>
Spec == Init /\ [][Next]_vars
=======================================================================
