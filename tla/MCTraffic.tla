------------------------------ MODULE MCTraffic ------------------------------
(***************************************************************************)
(* Instances of Traffic for TLC.                                           *)
(***************************************************************************)
EXTENDS Traffic, TLC

CONSTANTS w1, w2, f1, f2, t1, t2

On == f1 :> w1 @@ f2 :> w2 @@ t1 :> w1 @@ t2 :> w1
=============================================================================
