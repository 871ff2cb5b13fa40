-------------------------- MODULE MCGoneDetection --------------------------
(***************************************************************************)
(* Instances of GoneDetection for TLC.                                     *)
(***************************************************************************)
EXTENDS GoneDetection, TLC

CONSTANTS a, b

\* a is found by both phases, as an endpoint by crawl and by content discovery.
Overlapping == a :> {1, 2} @@ b :> {1}
OnePhase == a :> {1} @@ b :> {1}

Symmetry == Permutations(Runs)
=============================================================================
