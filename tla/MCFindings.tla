------------------------------ MODULE MCFindings ------------------------------
(***************************************************************************)
(* Instances of Findings for TLC.                                          *)
(***************************************************************************)
EXTENDS Findings, TLC

CONSTANTS r1, r2, p1, p2, l1, l2, l3, gone, kept, d1, d2, extra

Names == <<"debug", "role">>
Outbound == <<l1, l2, l3>>
PageOf == l1 :> p1 @@ l2 :> p1 @@ l3 :> p2
Destination == l1 :> gone @@ l2 :> gone @@ l3 :> kept
=============================================================================
