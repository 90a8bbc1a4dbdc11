------------------------- MODULE MCTradingDay -------------------------
(* Sets of faults for the configurations of TradingDay. *)
EXTENDS TradingDay

\* Everything that may go wrong.
AllFaults == FaultKinds

\* The faults after which the session's own recovery suffices.
RecoverableFaults ==
    {"crash", "sigterm", "raise", "lost_reply", "reject", "no_quote"}
=======================================================================
