------------------------------ MODULE MCOnDemand ------------------------------
(***************************************************************************)
(* Instances of OnDemand for TLC.                                          *)
(***************************************************************************)
EXTENDS OnDemand, TLC

CONSTANTS c1, b1, b2, typed, found, kept, e1, e2

\* A Target (1), pipelines (2, 4) and a merge or a filter (3): wired in a chain, with a
\* branch of its own, in a diamond, and in a cycle
Canvas(t, wires) == [tier |-> <<"source", "pipeline", t, "pipeline">>, edges |-> wires]
Drawn ==
  {Canvas("merge", {<<1, 3>>, <<3, 4>>}), Canvas("merge", {<<1, 3>>, <<2, 3>>, <<3, 4>>}),
   Canvas("merge", {<<1, 4>>, <<2, 3>>}), Canvas("filter", {<<1, 4>>, <<4, 3>>, <<3, 2>>}),
   Canvas("filter", {<<2, 3>>, <<3, 4>>}), Canvas("merge", {<<1, 3>>, <<4, 2>>, <<2, 3>>, <<3, 4>>})}
On == e1 :> found @@ e2 :> kept
=============================================================================
