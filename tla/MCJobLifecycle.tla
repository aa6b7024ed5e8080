--------------------------- MODULE MCJobLifecycle ---------------------------
(***************************************************************************)
(* Instances of JobLifecycle for TLC: which cancel() call is about which   *)
(* job.                                                                    *)
(***************************************************************************)
EXTENDS JobLifecycle

CONSTANTS j1, j2, j3, c1, c2, c3

(* All calls cancel one job; the others compete with it for slots.          *)
AllAboutOne == [c \in Callers |-> j1]

(* Two calls race for one job, a third cancels another.                     *)
TwoAndOne == [c \in Callers |-> IF c = c3 THEN j2 ELSE j1]

=============================================================================
