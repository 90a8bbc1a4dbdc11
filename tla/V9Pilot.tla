---------------------------- MODULE V9Pilot ----------------------------
(***************************************************************************)
(* The paper-trading pilot of the sector momentum strategy (bull_call.v9): *)
(* the pilot's record, the rebalance plan, the market orders that carry it *)
(* out and the rows that book them.  The package is a library: the job     *)
(* that calls it, the account and the clock are outside of src/, and are   *)
(* modelled by the order in which the operations must be called.           *)
(***************************************************************************)
EXTENDS Figures, FiniteSets

CONSTANTS
    Tickers,        \* the universe, in alphabetical order: 1..n
    HoldTopN,       \* hold_top_n: how many tickers the target holds
    PriceTables,    \* the prices a rebalance may meet
    Capital,        \* initial_capital, all of it cash at first
    Slippage,       \* how far from the price of the plan a share may be bought or sold
    MaxRebalances, MaxCrashes, MaxClock   \* bounds of the checked instance

ASSUME V9PilotAssumption ==
    /\ Tickers = 1..Cardinality(Tickers) /\ IsFiniteSet(Tickers)
    /\ HoldTopN \in 1..Cardinality(Tickers)
    /\ PriceTables \subseteq [Tickers -> Nat \ {0}]
    /\ Capital \in Nat \ {0} /\ Slippage \in Nat
    /\ MaxRebalances \in Nat /\ MaxCrashes \in Nat /\ MaxClock \in Nat

VARIABLES
    pilot,      \* the V9#META row; status "none" when there is no row
    positions,  \* the V9#POSITION rows: shares of each ticker; 0 is no row
    fills,      \* the V9#FILL rows: their keys, a timestamp and a number
    shares,     \* what the account holds
    cash,
    left,       \* orders still working at the gateway that no call waits for
    price,      \* the last-known prices
    clock,      \* the timestamp the caller wrote last
    seq,        \* _fill_seq of this process
    plan,       \* the orders of the plan still to submit, the current one first
    pc,         \* the call the caller is in
    current,    \* the state of the order of the call
    rebalances, crashes,
    \* History, which no action reads.
    clean,      \* every order of every plan was reported filled, no process crashed, and
                \* no plan was made for an account worth less than nothing
    slipped,    \* what the fills of the last plan cost more than its prices
    before,     \* and those of the plan before, until the orders of the last are done
    recorded,   \* calls of record_fill
    stray,      \* tickers of executed orders that nobody will book
    restarts    \* timestamps at which a process was started again

record == <<pilot, positions, fills>>
slippage == <<slipped, before>>
account == <<shares, cash, left, slippage>>
process == <<seq, plan, pc, current>>
history == <<clean, recorded, stray, restarts>>
pilotVars == <<record, account, process, price, clock, rebalances, crashes, history>>

PilotStart(at) ==
    /\ pilot = [status |-> "none", capital |-> 0, reason |-> FALSE]
    /\ positions = [t \in Tickers |-> 0] /\ fills = {}
    /\ shares = [t \in Tickers |-> 0] /\ cash = Capital /\ left = <<>>
    /\ slipped = 0 /\ before = 0 /\ clock = 0
    /\ seq = 1 /\ plan = <<>> /\ pc = at /\ current = "none"
    /\ rebalances = 0 /\ crashes = 0
    /\ clean = TRUE /\ recorded = 0 /\ stray = {} /\ restarts = {}

PilotInit == PilotStart("idle") /\ price \in PriceTables
\* There is no pilot: another of the programs runs.
PilotIdle == PilotStart("off") /\ price = CHOOSE p \in PriceTables : TRUE

-------------------------------------------------------------------------
\* The record of the pilot.

SetPilot(row) == pilot' = row /\ UNCHANGED <<positions, fills, account, process,
                                             price, clock, rebalances, crashes, history>>

PilotRowMissing == pilot.status = "none"

\* A second call fails the condition of the put, and writes nothing.
InitializePilot ==
    /\ pc = "idle" /\ PilotRowMissing
    /\ SetPilot([status |-> "AWAITING_START", capital |-> Capital, reason |-> FALSE])

\* The three updates carry no condition; on a missing row they create one that has
\* no capital (0), which get_pilot_metadata cannot read.
StartPilot == pc = "idle" /\ SetPilot([pilot EXCEPT !.status = "ACTIVE"])
CompletePilot == pc = "idle" /\ SetPilot([pilot EXCEPT !.status = "COMPLETED"])
HaltPilot == pc = "idle" /\ SetPilot([pilot EXCEPT !.status = "HALTED", !.reason = TRUE])

-------------------------------------------------------------------------
\* plan_rebalance.

\* account_value, as the caller has to pass it: cash and the value of the holdings at
\* the prices p.
AccountValue(p) == cash + SumSeq([t \in Tickers |-> shares[t] * p[t]])

RoundedUp(p, target, t) ==   \* variant: rounded up
    IF t \in target THEN (AccountValue(p) - 1) \div (HoldTopN * p[t]) + 1 ELSE 0

\* Whole shares of an equal weight.
TargetShares(p, target, t) ==
    IF t \in target THEN AccountValue(p) \div (HoldTopN * p[t]) ELSE 0

Order(t, action, quantity) == [ticker |-> t, action |-> action, quantity |-> quantity]

Sells(p, target) ==
    LET excess(t) == positions[t] - TargetShares(p, target, t)
        reduced == Ascending({t \in Tickers : excess(t) > 0})
    IN  [k \in DOMAIN reduced |-> Order(reduced[k], "SELL", excess(reduced[k]))]
BuysOfNothing(p, target) ==   \* variant: an order also when nothing is missing
    LET missing(t) == TargetShares(p, target, t) - positions[t]
        raised == Ascending({t \in target : missing(t) >= 0})
    IN  [k \in DOMAIN raised |-> Order(raised[k], "BUY", missing(raised[k]))]
Buys(p, target) ==
    LET missing(t) == TargetShares(p, target, t) - positions[t]
        raised == Ascending({t \in target : missing(t) > 0})
    IN  [k \in DOMAIN raised |-> Order(raised[k], "BUY", missing(raised[k]))]

PlanOrders(p, target) == Sells(p, target) \o Buys(p, target)

\* A target is any choice of the signal.
PlanRebalance ==
    /\ pc = "idle" /\ pilot.status = "ACTIVE" /\ rebalances < MaxRebalances
    /\ \E p \in PriceTables, target \in kSubset(HoldTopN, Tickers) :
          /\ price' = p /\ plan' = PlanOrders(p, target)
          /\ clean' = (clean /\ AccountValue(p) >= 0)
    /\ pc' = "submit" /\ rebalances' = rebalances + 1
    /\ slipped' = 0 /\ before' = slipped
    /\ UNCHANGED <<record, shares, cash, left, seq, current, clock, crashes,
                   recorded, stray, restarts>>

-------------------------------------------------------------------------
\* submit_stock_market_order, once for every order of the plan.

\* place_order: the answer may lack the id, and then nobody waits for the order.
PlaceOrder ==
    /\ pc = "submit" /\ plan # <<>>
    /\ \/ pc' = "await" /\ current' = "working" /\ UNCHANGED left
       \/ pc' = "unfilled" /\ current' = "none" /\ left' = Append(left, Head(plan))
    /\ UNCHANGED <<record, shares, cash, slippage, seq, plan, price, clock, rebalances,
                   crashes, history>>

\* The gateway executes a market order at the price it meets, not at the plan's.
Signed(o) == IF o.action = "BUY" THEN o.quantity ELSE -o.quantity
AvgPrices(o) ==
    LET p == price[o.ticker] IN {avg \in 1..(p + Slippage) : p - Slippage <= avg}
Loss(amount) == IF amount > 0 THEN amount ELSE 0
Trade(o) ==
    \E avg \in AvgPrices(o) :
        /\ shares' = [shares EXCEPT ![o.ticker] = @ + Signed(o)]
        /\ cash' = cash - Signed(o) * avg
        /\ slipped' = slipped + Loss(Signed(o) * (avg - price[o.ticker]))
        /\ UNCHANGED before

Execute ==
    /\ pc = "await" /\ current = "working" /\ current' = "filled"
    /\ Trade(Head(plan))
    /\ UNCHANGED <<record, left, seq, plan, pc, price, clock, rebalances, crashes, history>>

ExecuteLeft(k) ==
    /\ Trade(left[k]) /\ left' = RemoveAt(left, k)
    /\ stray' = stray \cup {left[k].ticker}
    /\ UNCHANGED <<record, process, price, clock, rebalances, crashes, clean, recorded, restarts>>

Reject ==
    /\ pc = "await" /\ current = "working" /\ current' = "rejected"
    /\ UNCHANGED <<record, account, seq, plan, pc, price, clock, rebalances, crashes, history>>

\* _await_fill sees the status Filled.
AwaitFill ==
    /\ pc = "await" /\ current = "filled"
    /\ pc' = "book"
    /\ UNCHANGED <<record, account, seq, plan, current, price, clock, rebalances, crashes, history>>

\* _await_fill returns None: the timeout, a shutdown or a terminal status.  The
\* cancel may fail, which is swallowed; an order that has just executed stays so.
GiveUp ==
    /\ pc = "await" /\ pc' = "unfilled"
    /\ left' \in IF current = "working" THEN {left, Append(left, Head(plan))} ELSE {left}
    /\ stray' = IF current = "filled" THEN stray \cup {Head(plan).ticker} ELSE stray
    /\ current' = "none"
    /\ UNCHANGED <<record, shares, cash, slippage, seq, plan, price, clock, rebalances,
                   crashes, clean, recorded, restarts>>

\* The report says filled = False, and the caller goes on to the next order.
ReportUnfilled ==
    /\ pc = "unfilled"
    /\ plan' = Tail(plan) /\ pc' = "submit" /\ clean' = FALSE
    /\ UNCHANGED <<record, account, seq, current, price, clock, rebalances, crashes,
                   recorded, stray, restarts>>

-------------------------------------------------------------------------
\* The rows that book a fill.

UnnumberedKey(ts) == <<ts, 1>>   \* variant: the key is the timestamp alone
FillKey(ts) == <<ts, seq>>

\* record_fill: a put, under a key that a restarted process may use again.
RecordFill ==
    /\ pc = "book"
    /\ \E ts \in clock..MaxClock :
          clock' = ts /\ fills' = fills \cup {FillKey(ts)}
    /\ seq' = seq + 1 /\ recorded' = recorded + 1
    /\ pc' = "position"
    /\ UNCHANGED <<pilot, positions, account, plan, current, price, rebalances, crashes,
                   clean, stray, restarts>>

\* upsert_position, or delete_position when no share is left.
Ordered(o) == o.quantity   \* variant: the row is the quantity of the order
Booked(o) == positions[o.ticker] + Signed(o)
UpsertPosition ==
    /\ pc = "position"
    /\ LET o == Head(plan) IN positions' = [positions EXCEPT ![o.ticker] = Booked(o)]
    /\ plan' = Tail(plan) /\ pc' = "submit" /\ current' = "none"
    /\ UNCHANGED <<pilot, fills, account, seq, price, clock, rebalances, crashes, history>>

PlanDone ==
    /\ pc = "submit" /\ plan = <<>>
    /\ pc' = "idle" /\ before' = 0
    /\ UNCHANGED <<record, shares, cash, left, slipped, seq, plan, current, price, clock,
                   rebalances, crashes, history>>

-------------------------------------------------------------------------
\* The process dies and another one is started: what it held in memory is gone, and
\* an order that was working stays so.
Crash ==
    /\ crashes < MaxCrashes /\ pc \notin {"off", "idle"}
    /\ seq' = 1 /\ plan' = <<>> /\ pc' = "idle" /\ current' = "none"
    /\ left' = IF current = "working" THEN Append(left, Head(plan)) ELSE left
    /\ stray' = IF current = "filled" THEN stray \cup {Head(plan).ticker} ELSE stray
    /\ crashes' = crashes + 1
    /\ clean' = FALSE /\ restarts' = restarts \cup {clock}
    /\ UNCHANGED <<record, shares, cash, slippage, price, clock, rebalances, recorded>>

PilotNext ==
    \/ InitializePilot \/ StartPilot \/ CompletePilot \/ HaltPilot
    \/ PlanRebalance \/ PlaceOrder \/ Execute \/ Reject
    \/ AwaitFill \/ GiveUp \/ ReportUnfilled
    \/ \E k \in DOMAIN left : ExecuteLeft(k)
    \/ RecordFill \/ UpsertPosition \/ PlanDone \/ Crash
PilotSpec == PilotInit /\ [][PilotNext]_pilotVars

-------------------------------------------------------------------------
OrderType == [ticker : Tickers, action : {"BUY", "SELL"}, quantity : Nat \ {0}]

\* The type of every variable.
PilotTypeOK ==
    /\ pilot \in [status : {"none", "AWAITING_START", "ACTIVE", "COMPLETED", "HALTED"},
                  capital : Nat, reason : BOOLEAN]
    /\ positions \in [Tickers -> Int] /\ fills \subseteq Nat \X Nat
    /\ shares \in [Tickers -> Int] /\ cash \in Int
    /\ left \in Seq(OrderType) /\ slipped \in Nat /\ before \in Nat
    /\ price \in PriceTables /\ clock \in 0..MaxClock
    /\ seq \in Nat /\ plan \in Seq(OrderType)
    /\ pc \in {"off", "idle", "submit", "await", "unfilled", "book", "position"}
    /\ current \in {"none", "working", "filled", "rejected"}

\* Sells come first and targets are rounded down: as long as every order fills, no sell
\* is of shares that the account does not have, and a debt is never more than what the
\* fills of the plan cost beyond its prices.  A plan that is done has paid the debt of
\* the one before, so that debts do not add up.
CashCoversBuys ==
    clean => cash + slipped + before >= 0 /\ \A t \in Tickers : shares[t] >= 0

\* The rows differ from the account only in the ticker of the order being booked, or
\* in one whose order executed when nobody was left to book it.
BooksExplained ==
    \A t \in Tickers \ stray :
        positions[t] # shares[t] =>
            current = "filled" /\ Head(plan).ticker = t

\* Every fill has a row of its own, unless a process was started again within the
\* timestamp of an earlier fill and numbered from 1 again.
FillsKept ==
    Cardinality(fills) # recorded => \E key \in fills : key[1] \in restarts
=======================================================================
