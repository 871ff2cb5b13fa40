------------------------------ MODULE MCConsole ------------------------------
(***************************************************************************)
(* Instances of Console for TLC.                                           *)
(***************************************************************************)
EXTENDS Console

CONSTANTS s1, s2, m1, g1, viewer, k1, p1, p2
=============================================================================
