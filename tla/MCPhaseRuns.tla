---------------------------- MODULE MCPhaseRuns ----------------------------
(***************************************************************************)
(* Instances of PhaseRuns for TLC: the phases are 1, notify, and 2, scan,   *)
(* in the order of the cadence.                                            *)
(***************************************************************************)
EXTENDS PhaseRuns, TLC

EveryBeat == [p \in Phases |-> 1]
TwoPhases == 1 :> {} @@ 2 :> {1}

OneTenant  == 1 :> "t"

OneHost == {{"h"}}
=============================================================================
