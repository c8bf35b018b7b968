----------------------------- MODULE MCSearchTask -----------------------------
(* Instances of SearchTask for TLC. *)
EXTENDS SearchTask

CONSTANTS p1, u1
===============================================================================
