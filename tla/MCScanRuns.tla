----------------------------- MODULE MCScanRuns -----------------------------
(* ScanRuns on small instances: model values for scan ids and slots.       *)
EXTENDS ScanRunsInv, TLC

Symmetry == Permutations(Scans) \cup Permutations(Slots)
=============================================================================
