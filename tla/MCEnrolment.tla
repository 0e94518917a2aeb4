------------------------------ MODULE MCEnrolment -----------------------------
(* Small instances of Enrolment for TLC. *)
EXTENDS Enrolment, TLC

CONSTANTS r1, r2, v1, v2, u1, u2

\* Slots, vehicles and UPI ids are interchangeable.
Symmetry == Permutations(Requests) \cup Permutations(Vehicles) \cup Permutations(Upis)
===============================================================================
