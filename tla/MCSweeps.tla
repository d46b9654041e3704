------------------------------ MODULE MCSweeps ------------------------------
(* Small instances of Sweeps for TLC. *)
EXTENDS Sweeps

CONSTANTS p1, p2, p3
=============================================================================
