---------------------------- MODULE Research ----------------------------
(***************************************************************************)
(* The programs beside the bot: the v9 pilot, and the research scripts     *)
(* that the decisions of the project rest on.  They share helpers and      *)
(* files and no state, so that a behaviour is a run of one of them, on     *)
(* data chosen at the start or read row by row.                            *)
(***************************************************************************)
EXTENDS V9Pilot, Backtest, EdgeStudy, Momentum, VolCarry, SplitGates

vars == <<pilotVars, backtest, edgeStudy, momentum, volCarry, splitGates>>

Init ==
    \/ PilotInit /\ BacktestIdle /\ EdgeIdle /\ MomentumIdle /\ CarryIdle /\ SplitIdle
    \/ PilotIdle /\ BacktestInit /\ EdgeIdle /\ MomentumIdle /\ CarryIdle /\ SplitIdle
    \/ PilotIdle /\ BacktestIdle /\ EdgeInit /\ MomentumIdle /\ CarryIdle /\ SplitIdle
    \/ PilotIdle /\ BacktestIdle /\ EdgeIdle /\ MomentumInit /\ CarryIdle /\ SplitIdle
    \/ PilotIdle /\ BacktestIdle /\ EdgeIdle /\ MomentumIdle /\ CarryInit /\ SplitIdle
    \/ PilotIdle /\ BacktestIdle /\ EdgeIdle /\ MomentumIdle /\ CarryIdle /\ SplitInit

Next ==
    \/ PilotNext /\ UNCHANGED <<backtest, edgeStudy, momentum, volCarry, splitGates>>
    \/ BacktestNext /\ UNCHANGED <<pilotVars, edgeStudy, momentum, volCarry, splitGates>>
    \/ EdgeNext /\ UNCHANGED <<pilotVars, backtest, momentum, volCarry, splitGates>>
    \/ MomentumNext /\ UNCHANGED <<pilotVars, backtest, edgeStudy, volCarry, splitGates>>
    \/ CarryNext /\ UNCHANGED <<pilotVars, backtest, edgeStudy, momentum, splitGates>>
    \/ SplitNext /\ UNCHANGED <<pilotVars, backtest, edgeStudy, momentum, volCarry>>

Spec == Init /\ [][Next]_vars
=======================================================================
