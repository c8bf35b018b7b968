----------------------------- MODULE FreezeWorker -----------------------------
(***************************************************************************)
(* Frozen values of MemoryToolEngine (memory_tool_engine.cpp): the list    *)
(* frozen_entries_, the thread that rewrites it every 16 ms, and the calls *)
(* that change the list or write to the target beside that thread.         *)
(*                                                                         *)
(* Of the two sessions only their pid matters here: a freeze or a write is *)
(* for the process of the search session, or else of the pointer session.  *)
(* The target writes its own memory at any time.  A write to a process     *)
(* that is alive succeeds; the rounds of the thread take the entries in    *)
(* any order.  A call that throws changes nothing, unless it finds its     *)
(* target gone.                                                            *)
(***************************************************************************)
EXTENDS Naturals

CONSTANTS
  Pids,    \* target processes
  NoPid,   \* the pid of a cleared session (0 in the code)
  Addrs,   \* addresses, which may coincide between processes
  Values,  \* values that are frozen or written
  Callers  \* threads of the daemon that serve calls

ASSUME FreezeConstants == NoPid \notin Pids /\ Values # {}

VARIABLES
  alive,       \* the target processes that have not exited
  searchPid,   \* session_.pid, NoPid without an active session
  pointerPid,  \* pointer_session_.pid, likewise
  frozen,      \* frozen_entries_
  caller,      \* the write each caller has still to make, {} when idle
  pc,          \* where the freeze thread stands
  todo,        \* what is left of the snapshot of this round
  inactive,    \* inactive_entries of this round
  mem          \* the memory of the targets

vars == <<alive, searchPid, pointerPid, frozen, caller, pc, todo, inactive, mem>>

Entries == [pid: Pids, addr: Addrs, value: Values]

Place(e) == <<e.pid, e.addr>>

TypeOK ==
  /\ alive \subseteq Pids
  /\ searchPid \in Pids \union {NoPid}
  /\ pointerPid \in Pids \union {NoPid}
  /\ frozen \subseteq Entries
  /\ caller \in [Callers -> {{}} \union {{e} : e \in Entries}]
  /\ pc \in {"off", "wait", "write", "prune", "sleep"}
  /\ todo \subseteq Entries
  /\ inactive \subseteq Pids \X Addrs
  /\ mem \in [Pids \X Addrs -> Values]

Init ==
  /\ alive = Pids
  /\ searchPid = NoPid
  /\ pointerPid = NoPid
  /\ frozen = {}
  /\ caller = [c \in Callers |-> {}]
  /\ pc = "off"
  /\ todo = {}
  /\ inactive = {}
  /\ mem \in [Pids \X Addrs -> Values]

sessionVars == <<searchPid, pointerPid>>
workerVars == <<pc, todo, inactive>>

-------------------------------------------------------------------------------
(* Calls. *)

Target == IF searchPid # NoPid THEN searchPid ELSE pointerPid

TargetAlive == Target # NoPid /\ Target \in alive

(* Mutants: the new entry is appended beside the old one; the thread is    *)
(* not started.                                                            *)
EnableAppends(c, a, v) ==
  LET e == [pid |-> Target, addr |-> a, value |-> v]
  IN /\ caller[c] = {}
     /\ TargetAlive
     /\ frozen' = frozen \union {e}
     /\ caller' = [caller EXCEPT ![c] = {e}]
     /\ pc' = IF pc = "off" THEN "wait" ELSE pc
     /\ UNCHANGED <<alive, sessionVars, todo, inactive, mem>>

EnableStartsNothing(c, a, v) ==
  LET e == [pid |-> Target, addr |-> a, value |-> v]
  IN /\ caller[c] = {}
     /\ TargetAlive
     /\ frozen' = {f \in frozen : Place(f) # Place(e)} \union {e}
     /\ caller' = [caller EXCEPT ![c] = {e}]
     /\ UNCHANGED <<alive, sessionVars, workerVars, mem>>

(* Enabling replaces the entry of the place, starts the thread if need be, *)
(* and leaves a write to be made after the lock is released.               *)
EnableFreeze(c, a, v) ==
  LET e == [pid |-> Target, addr |-> a, value |-> v]
  IN /\ caller[c] = {}
     /\ TargetAlive
     /\ frozen' = {f \in frozen : Place(f) # Place(e)} \union {e}
     /\ caller' = [caller EXCEPT ![c] = {e}]
     /\ pc' = IF pc = "off" THEN "wait" ELSE pc
     /\ UNCHANGED <<alive, sessionVars, todo, inactive, mem>>

DisableFreeze(c, a) ==
  /\ caller[c] = {}
  /\ TargetAlive
  /\ frozen' = {f \in frozen : Place(f) # <<Target, a>>}
  /\ UNCHANGED <<alive, sessionVars, caller, workerVars, mem>>

(* Mutant: the address of the write is taken for the pid. *)
WriteToAddress(c, a, v) ==
  /\ caller[c] = {}
  /\ TargetAlive
  /\ caller' = [caller EXCEPT ![c] = {[pid |-> a, addr |-> a, value |-> v]}]
  /\ UNCHANGED <<alive, sessionVars, frozen, workerVars, mem>>

WriteMemoryValue(c, a, v) ==
  /\ caller[c] = {}
  /\ TargetAlive
  /\ caller' = [caller EXCEPT ![c] = {[pid |-> Target, addr |-> a, value |-> v]}]
  /\ UNCHANGED <<alive, sessionVars, frozen, workerVars, mem>>

(* Both calls drop the session whose process they find gone.               *)
TargetGone ==
  /\ Target # NoPid
  /\ Target \notin alive
  /\ IF searchPid # NoPid
     THEN searchPid' = NoPid /\ UNCHANGED pointerPid
     ELSE pointerPid' = NoPid /\ UNCHANGED searchPid
  /\ UNCHANGED <<alive, frozen, caller, workerVars, mem>>

(* Writes go to the kernel outside the lock; one to a dead process fails.  *)
Written(e) == IF e.pid \in alive THEN [mem EXCEPT ![Place(e)] = e.value] ELSE mem

DirectWrite(c) ==
  /\ \E e \in caller[c] : mem' = Written(e)
  /\ caller' = [caller EXCEPT ![c] = {}]
  /\ UNCHANGED <<alive, sessionVars, frozen, workerVars>>

GetFrozenMemoryValues ==
  /\ frozen' = {f \in frozen : f.pid \in alive}
  /\ UNCHANGED <<alive, sessionVars, caller, workerVars, mem>>

(* A scan of p publishes its session; a reset or a new scan clears it.     *)
SearchSessionBecomes(p) ==
  /\ searchPid' = p
  /\ UNCHANGED <<alive, pointerPid, frozen, caller, workerVars, mem>>

PointerSessionBecomes(p) ==
  /\ pointerPid' = p
  /\ UNCHANGED <<alive, searchPid, frozen, caller, workerVars, mem>>

-------------------------------------------------------------------------------
(* The freeze thread. *)

TakeSnapshot ==
  /\ pc = "wait"
  /\ frozen # {}
  /\ todo' = frozen
  /\ inactive' = {}
  /\ pc' = "write"
  /\ UNCHANGED <<alive, sessionVars, frozen, caller, mem>>

(* Mutant: a write that fails is tried again. *)
WriteRetries(e) ==
  /\ pc = "write"
  /\ e \in todo
  /\ todo' = IF e.pid \in alive THEN todo \ {e} ELSE todo
  /\ mem' = Written(e)
  /\ UNCHANGED <<alive, sessionVars, frozen, caller, pc, inactive>>

WriteEntry(e) ==
  /\ pc = "write"
  /\ e \in todo
  /\ todo' = todo \ {e}
  /\ mem' = Written(e)
  /\ inactive' = IF e.pid \in alive THEN inactive ELSE inactive \union {Place(e)}
  /\ UNCHANGED <<alive, sessionVars, frozen, caller, pc>>

EndRound ==
  /\ pc = "write"
  /\ todo = {}
  /\ pc' = IF inactive = {} THEN "sleep" ELSE "prune"
  /\ UNCHANGED <<alive, sessionVars, frozen, caller, todo, inactive, mem>>

(* Mutant: entries are matched by their address alone. *)
PruneByAddress ==
  /\ pc = "prune"
  /\ frozen' = {f \in frozen : \A p \in Pids : <<p, f.addr>> \notin inactive}
  /\ pc' = "wait"
  /\ UNCHANGED <<alive, sessionVars, caller, todo, inactive, mem>>

PruneInactive ==
  /\ pc = "prune"
  /\ frozen' = {f \in frozen : Place(f) \notin inactive}
  /\ pc' = "wait"
  /\ UNCHANGED <<alive, sessionVars, caller, todo, inactive, mem>>

(* The interval is over, or a call notified the thread.                    *)
Wake ==
  /\ pc = "sleep"
  /\ pc' = "wait"
  /\ UNCHANGED <<alive, sessionVars, frozen, caller, todo, inactive, mem>>

FreezeWorkerLoop ==
  \/ TakeSnapshot
  \/ \E e \in Entries : WriteEntry(e)
  \/ EndRound
  \/ PruneInactive
  \/ Wake

-------------------------------------------------------------------------------
(* The target processes. *)

TargetWrites(p, a, v) ==
  /\ p \in alive
  /\ mem' = [mem EXCEPT ![<<p, a>>] = v]
  /\ UNCHANGED <<alive, sessionVars, frozen, caller, workerVars>>

ProcessExits(p) ==
  /\ p \in alive
  /\ alive' = alive \ {p}
  /\ UNCHANGED <<sessionVars, frozen, caller, workerVars, mem>>

Next ==
  \/ \E c \in Callers, a \in Addrs, v \in Values : EnableFreeze(c, a, v)
  \/ \E c \in Callers, a \in Addrs : DisableFreeze(c, a)
  \/ \E c \in Callers, a \in Addrs, v \in Values : WriteMemoryValue(c, a, v)
  \/ TargetGone
  \/ \E c \in Callers : DirectWrite(c)
  \/ GetFrozenMemoryValues
  \/ \E p \in Pids \union {NoPid} : SearchSessionBecomes(p)
  \/ \E p \in Pids \union {NoPid} : PointerSessionBecomes(p)
  \/ FreezeWorkerLoop
  \/ \E p \in Pids, a \in Addrs, v \in Values : TargetWrites(p, a, v)
  \/ \E p \in Pids : ProcessExits(p)

Spec == Init /\ [][Next]_vars

(* The freeze thread is scheduled, and its waits have a timeout.           *)
FairSpec == Spec /\ WF_vars(FreezeWorkerLoop)

-------------------------------------------------------------------------------
(* Properties. *)

(* No two entries fight over a place: enabling a frozen address replaces   *)
(* its value.                                                              *)
OneEntryPerPlace ==
  \A e, f \in frozen : Place(e) = Place(f) => e = f

(* The thread prunes by place, after it looked at a snapshot: what it      *)
(* removes is dead even if the list has changed meanwhile.                 *)
OnlyDeadArePruned ==
  [][pc = "prune" /\ pc' # pc
       => \A e \in frozen \ frozen' : e.pid \notin alive]_vars

(* Whatever the target and other writers do, the memory of a place that    *)
(* stays frozen in a process that lives shows the frozen value over and    *)
(* over again.                                                             *)
FrozenIsRewritten ==
  \A e \in Entries :
    <>[](e \in frozen /\ e.pid \in alive) => []<>(mem[Place(e)] = e.value)

(* Once a place is no longer frozen, the thread stops writing to it.       *)
UnfreezeTakesEffect ==
  \A e \in Entries :
    <>[](\A f \in frozen : Place(f) # Place(e))
      => <>[](\A f \in todo : Place(f) # Place(e))

(* "已对地址 ... 关闭冻结。": a caller can switch off what is frozen, since the *)
(* call that does looks under the process that is the target.              *)
FrozenIsReachable ==
  \A e \in frozen : e.pid \in alive => Target = e.pid
===============================================================================
