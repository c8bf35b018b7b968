-------------------------- MODULE FreezeWorkerProofs --------------------------
(***************************************************************************)
(* Proofs about FreezeWorker, for every set of processes, addresses,       *)
(* values and callers.                                                     *)
(***************************************************************************)
EXTENDS FreezeWorker, TLAPS

(* What a round has found inactive belongs to processes that have exited;  *)
(* processes do not come back.                                             *)
InactiveAreDead == \A q \in inactive : q[1] \notin alive

IndInv == TypeOK /\ OneEntryPerPlace /\ InactiveAreDead

LEMMA PlaceType ==
  ASSUME NEW e \in Entries
  PROVE  Place(e) \in Pids \X Addrs /\ Place(e)[1] = e.pid
BY DEF Entries, Place

LEMMA WrittenType ==
  ASSUME TypeOK, NEW e \in Entries
  PROVE  Written(e) \in [Pids \X Addrs -> Values]
<1>1. e.value \in Values
  BY DEF Entries
<1> QED
  BY <1>1, PlaceType DEF Written, TypeOK

LEMMA InitIndInv == Init => IndInv
  BY DEF Init, IndInv, TypeOK, OneEntryPerPlace, InactiveAreDead

LEMMA TargetType ==
  ASSUME TypeOK, TargetAlive
  PROVE  Target \in Pids
BY DEF TargetAlive, TypeOK

(* Replacing the entry of a place leaves one entry in every place. *)
LEMMA ReplaceKeepsOne ==
  ASSUME OneEntryPerPlace, NEW e,
         frozen' = {f \in frozen : Place(f) # Place(e)} \union {e}
  PROVE  OneEntryPerPlace'
BY DEF OneEntryPerPlace, Place

LEMMA SmallerKeepsOne ==
  ASSUME OneEntryPerPlace, frozen' \subseteq frozen
  PROVE  OneEntryPerPlace'
BY DEF OneEntryPerPlace, Place

LEMMA CallIndInv ==
  ASSUME IndInv, NEW c \in Callers, NEW a \in Addrs, NEW v \in Values,
         \/ EnableFreeze(c, a, v)
         \/ DisableFreeze(c, a)
         \/ WriteMemoryValue(c, a, v)
         \/ DirectWrite(c)
  PROVE  IndInv'
<1> DEFINE e == [pid |-> Target, addr |-> a, value |-> v]
<1>1. TypeOK /\ OneEntryPerPlace /\ InactiveAreDead
  BY DEF IndInv
<1>2. TargetAlive => e \in Entries
  BY <1>1, TargetType DEF Entries
<1>3. CASE EnableFreeze(c, a, v)
  <2>1. TypeOK'
    BY <1>1, <1>2, <1>3 DEF EnableFreeze, TypeOK, sessionVars
  <2>2. OneEntryPerPlace'
    BY <1>1, <1>3, ReplaceKeepsOne DEF EnableFreeze
  <2>3. InactiveAreDead'
    BY <1>1, <1>3 DEF EnableFreeze, InactiveAreDead
  <2> QED
    BY <2>1, <2>2, <2>3 DEF IndInv
<1>4. CASE DisableFreeze(c, a)
  <2>1. TypeOK' /\ InactiveAreDead'
    BY <1>1, <1>4 DEF DisableFreeze, TypeOK, InactiveAreDead, sessionVars, workerVars
  <2>2. OneEntryPerPlace'
    BY <1>1, <1>4, SmallerKeepsOne DEF DisableFreeze
  <2> QED
    BY <2>1, <2>2 DEF IndInv
<1>5. CASE WriteMemoryValue(c, a, v)
  <2>1. caller' = [caller EXCEPT ![c] = {e}] /\ e \in Entries
    BY <1>2, <1>5 DEF WriteMemoryValue
  <2>2. TypeOK' /\ InactiveAreDead'
    BY <1>1, <1>5, <2>1 DEF WriteMemoryValue, TypeOK, InactiveAreDead, sessionVars, workerVars
  <2>3. OneEntryPerPlace'
    BY <1>1, <1>5, SmallerKeepsOne DEF WriteMemoryValue
  <2> QED
    BY <2>2, <2>3 DEF IndInv
<1>6. CASE DirectWrite(c)
  <2>1. caller[c] \subseteq Entries
    BY <1>1 DEF TypeOK
  <2>2. mem' \in [Pids \X Addrs -> Values]
    BY <1>1, <1>6, <2>1, WrittenType DEF DirectWrite
  <2>3. TypeOK' /\ InactiveAreDead'
    BY <1>1, <1>6, <2>2 DEF DirectWrite, TypeOK, InactiveAreDead, sessionVars, workerVars
  <2>4. OneEntryPerPlace'
    BY <1>1, <1>6, SmallerKeepsOne DEF DirectWrite
  <2> QED
    BY <2>3, <2>4 DEF IndInv
<1> QED
  BY <1>3, <1>4, <1>5, <1>6

LEMMA LoopIndInv ==
  ASSUME IndInv, FreezeWorkerLoop
  PROVE  IndInv'
<1>1. TypeOK /\ OneEntryPerPlace /\ InactiveAreDead
  BY DEF IndInv
<1>2. CASE TakeSnapshot
  <2>1. TypeOK' /\ InactiveAreDead'
    BY <1>1, <1>2 DEF TakeSnapshot, TypeOK, InactiveAreDead, sessionVars
  <2>2. OneEntryPerPlace'
    BY <1>1, <1>2, SmallerKeepsOne DEF TakeSnapshot
  <2> QED
    BY <2>1, <2>2 DEF IndInv
<1>3. ASSUME NEW e \in Entries, WriteEntry(e) PROVE IndInv'
  <2>1. mem' \in [Pids \X Addrs -> Values]
    BY <1>1, <1>3, WrittenType DEF WriteEntry
  <2>2. Place(e) \in Pids \X Addrs /\ Place(e)[1] = e.pid
    BY PlaceType
  <2>3. TypeOK'
    BY <1>1, <1>3, <2>1, <2>2 DEF WriteEntry, TypeOK, sessionVars
  <2>4. InactiveAreDead'
    BY <1>1, <1>3, <2>2 DEF WriteEntry, InactiveAreDead
  <2>5. OneEntryPerPlace'
    BY <1>1, <1>3, SmallerKeepsOne DEF WriteEntry
  <2> QED
    BY <2>3, <2>4, <2>5 DEF IndInv
<1>4. CASE EndRound
  <2>1. TypeOK' /\ InactiveAreDead'
    BY <1>1, <1>4 DEF EndRound, TypeOK, InactiveAreDead, sessionVars
  <2>2. OneEntryPerPlace'
    BY <1>1, <1>4, SmallerKeepsOne DEF EndRound
  <2> QED
    BY <2>1, <2>2 DEF IndInv
<1>5. CASE PruneInactive
  <2>1. TypeOK' /\ InactiveAreDead'
    BY <1>1, <1>5 DEF PruneInactive, TypeOK, InactiveAreDead, sessionVars
  <2>2. OneEntryPerPlace'
    BY <1>1, <1>5, SmallerKeepsOne DEF PruneInactive
  <2> QED
    BY <2>1, <2>2 DEF IndInv
<1>6. CASE Wake
  <2>1. TypeOK' /\ InactiveAreDead'
    BY <1>1, <1>6 DEF Wake, TypeOK, InactiveAreDead, sessionVars
  <2>2. OneEntryPerPlace'
    BY <1>1, <1>6, SmallerKeepsOne DEF Wake
  <2> QED
    BY <2>1, <2>2 DEF IndInv
<1> QED
  BY <1>2, <1>3, <1>4, <1>5, <1>6 DEF FreezeWorkerLoop

(* The sessions and the targets: the frozen list is not theirs to change.  *)
LEMMA OthersIndInv ==
  ASSUME IndInv,
         \/ TargetGone
         \/ \E p \in Pids \union {NoPid} :
              SearchSessionBecomes(p) \/ PointerSessionBecomes(p)
         \/ \E p \in Pids, a \in Addrs, v \in Values : TargetWrites(p, a, v)
         \/ \E p \in Pids : ProcessExits(p)
         \/ UNCHANGED vars
  PROVE  IndInv'
<1>1. TypeOK /\ OneEntryPerPlace /\ InactiveAreDead
  BY DEF IndInv
<1>2. frozen' = frozen /\ inactive' = inactive /\ alive' \subseteq alive
  BY DEF TargetGone, SearchSessionBecomes, PointerSessionBecomes, TargetWrites,
         ProcessExits, vars, workerVars
<1>3. OneEntryPerPlace' /\ InactiveAreDead'
  BY <1>1, <1>2, SmallerKeepsOne DEF InactiveAreDead
<1>4. TypeOK'
  BY <1>1 DEF TargetGone, SearchSessionBecomes, PointerSessionBecomes, TargetWrites,
              ProcessExits, vars, workerVars, sessionVars, TypeOK
<1> QED
  BY <1>3, <1>4 DEF IndInv

LEMMA NextIndInv == IndInv /\ [Next]_vars => IndInv'
<1> SUFFICES ASSUME IndInv, [Next]_vars PROVE IndInv'
  OBVIOUS
<1>1. ASSUME NEW c \in Callers, DirectWrite(c) PROVE IndInv'
  <2>1. PICK e \in caller[c] : mem' = Written(e)
    BY <1>1 DEF DirectWrite
  <2>2. e \in Entries
    BY DEF IndInv, TypeOK
  <2>3. e.addr \in Addrs /\ e.value \in Values
    BY <2>2 DEF Entries
  <2> QED
    BY <1>1, <2>3, CallIndInv
<1>2. CASE GetFrozenMemoryValues
  <2>1. TypeOK' /\ InactiveAreDead'
    BY <1>2 DEF IndInv, GetFrozenMemoryValues, TypeOK, InactiveAreDead, sessionVars, workerVars
  <2>2. OneEntryPerPlace'
    BY <1>2, SmallerKeepsOne DEF IndInv, GetFrozenMemoryValues
  <2> QED
    BY <2>1, <2>2 DEF IndInv
<1>3. ASSUME NEW c \in Callers, NEW a \in Addrs, DisableFreeze(c, a) PROVE IndInv'
  BY <1>3, FreezeConstants, CallIndInv
<1>4. ASSUME NEW c \in Callers, NEW a \in Addrs, NEW v \in Values,
             EnableFreeze(c, a, v) \/ WriteMemoryValue(c, a, v)
      PROVE  IndInv'
  BY <1>4, CallIndInv
<1>5. CASE FreezeWorkerLoop
  BY <1>5, LoopIndInv
<1> QED
  BY <1>1, <1>2, <1>3, <1>4, <1>5, OthersIndInv DEF Next

LEMMA Invariance == Spec => []IndInv
  BY InitIndInv, NextIndInv, PTL DEF Spec

(* The state of the freeze worker and its callers is well typed. *)
THEOREM TypeCorrect == Spec => []TypeOK
  BY Invariance, PTL DEF IndInv

(* No two frozen entries fight over a place. *)
THEOREM PlacesAreFrozenOnce == Spec => []OneEntryPerPlace
  BY Invariance, PTL DEF IndInv

(* What the thread prunes belongs to a process that has exited, whatever   *)
(* happened to the list since its snapshot.                                *)
THEOREM PruningSparesTheLiving == Spec => OnlyDeadArePruned
<1> DEFINE A == pc = "prune" /\ pc' # pc
                => \A e \in frozen \ frozen' : e.pid \notin alive
<1>1. IndInv /\ [Next]_vars => A
  <2> SUFFICES ASSUME IndInv, [Next]_vars, pc = "prune", pc' # pc,
                      NEW e \in frozen \ frozen'
               PROVE  e.pid \notin alive
    OBVIOUS
  <2>1. PruneInactive
    BY DEF Next, vars, EnableFreeze, DisableFreeze, WriteMemoryValue, TargetGone,
           DirectWrite, GetFrozenMemoryValues, SearchSessionBecomes,
           PointerSessionBecomes, FreezeWorkerLoop, TakeSnapshot, WriteEntry,
           EndRound, Wake, TargetWrites, ProcessExits, workerVars
  <2>2. Place(e) \in inactive /\ e \in Entries
    BY <2>1 DEF PruneInactive, IndInv, TypeOK
  <2> QED
    BY <2>2, PlaceType DEF IndInv, InactiveAreDead
<1> HIDE DEF A
<1>2. Spec => [][A]_vars
  BY <1>1, Invariance, PTL DEF Spec
<1> QED
  BY <1>2 DEF OnlyDeadArePruned, A
===============================================================================
