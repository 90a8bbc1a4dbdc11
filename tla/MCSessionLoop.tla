------------------------- MODULE MCSessionLoop -------------------------
(* A calendar for SessionLoop: two months, a half day, a day without trading. *)
EXTENDS SessionLoop

\* The first month ends with day 3.
TwoMonths == <<"April", "April", "April", "May", "May">>
Trading == {1, 2, 3, 5}
Half == {2}
WinOrLose == {-1, 1}
========================================================================
