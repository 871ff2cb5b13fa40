-------------------------------- MODULE MCIntel --------------------------------
(***************************************************************************)
(* Instances of Intel for TLC.                                             *)
(***************************************************************************)
EXTENDS Intel, TLC

CONSTANTS r1, r2, p1, p2, s1, s2, s3, n1, n2, h1, h2, t1, t2, g1, g2, spf, dmarc

Where == s1 :> p1 @@ s2 :> p1 @@ s3 :> p2
Shown == s1 :> {1} @@ s2 :> {2} @@ s3 :> {1, 2}
=============================================================================
