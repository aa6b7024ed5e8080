----------------------------- MODULE MCJobStore -----------------------------
(* Instances of JobStore for TLC: which job has which capability.           *)
EXTENDS JobStore

CONSTANTS j1, j2, j3, cap, other

OneOfTwo == [j \in Jobs |-> IF j = j2 THEN other ELSE cap]

=============================================================================
