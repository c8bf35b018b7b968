----------------------------- MODULE MCPointerTask -----------------------------
(* Instances of PointerTask for TLC. *)
EXTENDS PointerTask

CONSTANTS p1, u1, heap, data
===============================================================================
