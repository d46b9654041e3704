------------------------------ MODULE MCNaming ------------------------------
(* A small instance of Naming for TLC: one rune of each kind.              *)
EXTENDS Naming

AllRunes == {"a", "A", "underscore", "hyphen", "blank", "eacute"}
=============================================================================
