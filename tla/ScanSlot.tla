------------------------------- MODULE ScanSlot -------------------------------
(***************************************************************************)
(* What a caller of the memory tool may rely on, whichever of its scans it *)
(* starts: one slot that runs at most one scan at a time, and one held     *)
(* session that only a completed scan replaces.  A scan draws its results  *)
(* from a base fixed when it started: everything, for a scan from scratch, *)
(* and what the session held, for a scan that refines it.                  *)
(***************************************************************************)
EXTENDS Naturals

CONSTANT Units   \* what a scan can find

VARIABLES
  status,  \* what the slot shows
  held,    \* {} without a session, {S} when the session holds S
  base     \* what the running scan may find; {} when none runs

slotVars == <<status, held, base>>

Init ==
  /\ status = "idle"
  /\ held = {}
  /\ base = {}

Start ==
  /\ status # "running"
  /\ status' = "running"
  /\ \/ base' = Units /\ held' \in {held, {}}
     \/ held # {} /\ base' = UNION held /\ UNCHANGED held

Complete ==
  /\ status = "running"
  /\ status' = "completed"
  /\ held' \in {{S} : S \in SUBSET base}
  /\ base' = {}

Fail ==
  /\ status = "running"
  /\ status' = "failed"
  /\ base' = {}
  /\ UNCHANGED held

Cancel ==
  /\ status = "running"
  /\ status' = "cancelled"
  /\ base' = {}
  /\ UNCHANGED held

Reset ==
  /\ status' = "idle"
  /\ held' = {}
  /\ base' = {}

(* The session is lost with its process, or to a scan that is refused.     *)
Lose ==
  /\ held' = {}
  /\ UNCHANGED <<status, base>>

Next == Start \/ Complete \/ Fail \/ Cancel \/ Reset \/ Lose

Safe == Init /\ [][Next]_slotVars

(* A running scan ends by itself. *)
Contract == Safe /\ WF_slotVars(Complete \/ Fail)
===============================================================================
