------------------------------ MODULE MCSystem ------------------------------
(* Small instances of System for TLC. *)
EXTENDS System

CONSTANTS p1, n1, n2, n3
=============================================================================
