---------------------------- MODULE MCFreezeWorker ----------------------------
(* Instances of FreezeWorker for TLC. *)
EXTENDS FreezeWorker

CONSTANTS p1, p2, a1, v1, v2, c1
===============================================================================
