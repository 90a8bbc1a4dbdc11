---------------------------- MODULE Broker ----------------------------
(***************************************************************************)
(* The IBKR account as the bot sees it through the gateway (external code, *)
(* modelled from the calls in cpapi/execution.py and cpapi/reconcile.py).  *)
(*                                                                         *)
(* An order is a BAG combo (entry or close) or a single-leg market order   *)
(* that flattens an orphaned leg.  Orders fill, are rejected or cancelled  *)
(* on their own time.  The legs of a filled order show up in the position  *)
(* report, possibly one after the other.  Distinct spreads are taken to    *)
(* have distinct legs.                                                     *)
(***************************************************************************)
EXTENDS Integers, Sequences, FiniteSets

CONSTANTS
    Spreads,    \* the (long strike, short strike) pairs the selector may pick
    MaxOrders   \* bound: combo orders sent on this date

ASSUME BrokerAssumption ==
    /\ Spreads # {}
    /\ MaxOrders \in Nat \ {0}

VARIABLES
    orders,  \* every order sent on this date, in the order it was accepted
    pos      \* the position report: the signed quantity of each leg of each spread

Legs == {"long", "short"}
OrderKinds == {"entry", "close", "flatten"}
OrderStates == {"working", "filled", "cancelled"}

\* The change of position a filled order makes: BUY combo, SELL combo, one leg.
BuyCombo == [long |-> 1, short |-> -1]
SellCombo == [long |-> -1, short |-> 1]
OneLeg(leg, qty) == [l \in Legs |-> IF l = leg THEN qty ELSE 0]

Order == [kind : OrderKinds, sp : Spreads, delta : [Legs -> Int],
          st : OrderStates, posted : SUBSET Legs]

NewOrder(kind, s, delta, open) ==
    [kind |-> kind, sp |-> s, delta |-> delta,
     st |-> IF open THEN "working" ELSE "cancelled", posted |-> {}]

Ids == DOMAIN orders
Working(i) == orders[i].st = "working"
Filled(i) == orders[i].st = "filled"
FilledOf(kind) == {i \in Ids : orders[i].kind = kind /\ Filled(i)}
WorkingOf(kinds) == {i \in Ids : orders[i].kind \in kinds /\ Working(i)}

\* positions_by_conid: the signed quantity reported for one leg of a spread.
Qty(s, leg) == pos[s][leg]

\* positions(): the legs held, as the reconcile groups them.
LongLegs == {p \in Spreads \X Legs : Qty(p[1], p[2]) > 0}
ShortLegs == {p \in Spreads \X Legs : Qty(p[1], p[2]) < 0}

-------------------------------------------------------------------------
\* Orders whose st is set to cancelled: a cancel, the close of the session.
Cancelled(S) == [i \in Ids |-> IF i \in S THEN [orders[i] EXCEPT !.st = "cancelled"]
                                          ELSE orders[i]]

\* The position report takes in some legs of an order.
Reported(o, at) ==
    [pos EXCEPT ![o.sp] = [l \in Legs |-> IF l \in at THEN @[l] + o.delta[l] ELSE @[l]]]

\* A working order executes.  The legs in "at" are reported at once, the others later.
Execute(i, at) ==
    /\ Working(i)
    /\ orders' = [orders EXCEPT ![i].st = "filled", ![i].posted = at]
    /\ pos' = Reported(orders[i], at)

\* The position report catches up with one leg of a filled order.
PostLeg(i, leg) ==
    /\ Filled(i)
    /\ leg \notin orders[i].posted
    /\ orders' = [orders EXCEPT ![i].posted = @ \cup {leg}]
    /\ pos' = Reported(orders[i], {leg})

\* IBKR rejects or inactivates a working order.
Reject(i) ==
    /\ Working(i)
    /\ orders' = Cancelled({i})
    /\ UNCHANGED pos
=======================================================================
