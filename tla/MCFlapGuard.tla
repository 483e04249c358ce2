----------------------------- MODULE MCFlapGuard -----------------------------
(* An instance of FlapGuard for TLC: floor, threshold and ceiling of the    *)
(* guard as 3 : 9 : 36, and of the ramp as 2 : 4 beside them.  Jitter is     *)
(* widened until it shows in whole units.                                   *)
EXTENDS FlapGuard

TheRamp == [min |-> 2, max |-> 4, factor |-> 2, jitter |-> 50]
TheGuard == [min |-> 3, max |-> 36, factor |-> 2, jitter |-> 50]
=============================================================================
