-------------------------------- MODULE MCDesk --------------------------------
(* Small instances of Desk for TLC. *)
EXTENDS Desk, TLC

CONSTANTS r1, r2
===============================================================================
