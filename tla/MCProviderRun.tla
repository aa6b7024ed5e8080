---------------------------- MODULE MCProviderRun ----------------------------
(* Instances of ProviderRun for TLC: which call is about which job.         *)
EXTENDS ProviderRun, TLC

CONSTANTS j1, j2, j3, j4, c1, c2, c3, c4

(* Two calls race for an image's job, a third cancels its rival for the     *)
(* slot, a fourth asks for an id nobody issued.                             *)
Calls == [c \in Callers |-> CASE c = c3 -> j2 [] c = c4 -> j4 [] OTHER -> j1]

(* The two that race are alike.                                             *)
Rivals == Permutations({c1, c2})
=============================================================================
