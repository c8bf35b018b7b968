-------------------------- MODULE MCBreakpointMonitor --------------------------
(* Instances of BreakpointMonitor for TLC. *)
EXTENDS BreakpointMonitor

CONSTANT p1
===============================================================================
