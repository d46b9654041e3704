---------------------------- MODULE MCSafeWrite -----------------------------
(* SafeWrite for TLC: numbers are all that it needs.                       *)
EXTENDS SafeWrite
=============================================================================
