--------------------------- MODULE MCCommandLine ---------------------------
(* Bounds for CommandLine: the submitter waits, as often as it likes after  *)
(* the command, beside one who cancels.                                     *)
EXTENDS CommandLine

CONSTANTS w1, c1

OneWaiter == {w1}
OneCanceller == {c1}
=============================================================================
