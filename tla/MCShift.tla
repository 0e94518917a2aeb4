-------------------------------- MODULE MCShift --------------------------------
(* Small instances of Shift for TLC. *)
EXTENDS Shift, TLC

CONSTANTS c1, c2, r1, r2
===============================================================================
