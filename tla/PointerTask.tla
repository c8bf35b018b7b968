------------------------------ MODULE PointerTask ------------------------------
(***************************************************************************)
(* The pointer half of MemoryToolEngine (memory_tool_engine.cpp): the slot *)
(* pointer_task_ that plain pointer scans and auto chases share, the       *)
(* session a plain scan publishes, the auto chase with its layers, and the *)
(* detached threads behind them.                                           *)
(*                                                                         *)
(* Every critical section of mutex_ is one action.  A start takes one      *)
(* cancel flag and one thread, so its number k stands for the generations, *)
(* the flag and the thread of that start, and 0 for none; the increments   *)
(* of the counters in the resets only skip numbers.  A chase's number is   *)
(* the generation of both slots and both hold its flag.  Regions are       *)
(* Units, pointers and targets are Addrs; the progress numbers are left    *)
(* out.  A call that throws changes nothing and is a stuttering step.      *)
(***************************************************************************)
EXTENDS Naturals, Sequences

CONSTANTS
  Pids,       \* target processes
  NoPid,      \* the pid of a cleared session (0 in the code)
  Units,      \* the regions a scan visits one by one
  Addrs,      \* pointer and target addresses
  Static,     \* the addresses in static regions (cData, cBss)
  MaxDepth,   \* max_depth of an auto chase
  MaxStarts   \* bound on the starts of scans and chases

ASSUME PointerConstants ==
  /\ NoPid \notin Pids
  /\ Static \subseteq Addrs
  /\ MaxDepth \in Nat \ {0}
  /\ MaxStarts \in Nat

VARIABLES
  alive,    \* the target processes that have not exited
  started,  \* the starts so far
  raised,   \* the starts whose cancel flag is set
  ptr,      \* pointer_task_: generation and status
  session,  \* pointer_session_
  chase,    \* pointer_auto_chase_task_ and pointer_auto_chase_session_
  workers,  \* the thread of each start
  chased    \* whether a call of the auto chase was ever made (a history)

vars == <<alive, started, raised, ptr, session, chase, workers, chased>>

Starts == 1..MaxStarts

Statuses == {"idle", "running", "completed", "cancelled", "failed"}

NoPtr == [gen |-> 0, status |-> "idle"]

(* "missed" is a history field: the regions behind it that nobody visited. *)
Sessions ==
  [active: BOOLEAN, pid: Pids \union {NoPid}, results: SUBSET Addrs,
   missed: SUBSET Units]

Cleared == [active |-> FALSE, pid |-> NoPid, results |-> {}, missed |-> {}]

StopReasons == {"", "noMorePointers", "staticReached", "maxDepth"}

(* "selected" is {} or holds the pointer the next layer starts from.       *)
Layers ==
  [target: Addrs, selected: SUBSET Addrs, stop: StopReasons,
   missed: SUBSET Units]

NoChase == [gen |-> 0, running |-> FALSE, depth |-> 0, layers |-> <<>>]

Phases ==
  {"none", "begin", "layer", "progress", "depth", "scan", "joined", "result",
   "stop", "cancelled", "fail", "done"}

Workers ==
  [kind: {"none", "scan", "chase"}, pid: Pids \union {NoPid}, pc: Phases,
   target: SUBSET Addrs, layer: 0..MaxDepth,
   todo: SUBSET Units, found: SUBSET Addrs]

NoWorker ==
  [kind |-> "none", pid |-> NoPid, pc |-> "none", target |-> {}, layer |-> 0,
   todo |-> {}, found |-> {}]

TypeOK ==
  /\ alive \subseteq Pids
  /\ started \in 0..MaxStarts
  /\ raised \subseteq Starts
  /\ ptr \in [gen: 0..MaxStarts, status: Statuses]
  /\ session \in Sessions
  /\ chase.gen \in 0..MaxStarts
  /\ chase.running \in BOOLEAN
  /\ chase.depth \in 0..MaxDepth
  /\ Len(chase.layers) <= MaxDepth
  /\ \A i \in DOMAIN chase.layers : chase.layers[i] \in Layers
  /\ workers \in [Starts -> Workers]
  /\ chased \in BOOLEAN

Init ==
  /\ alive = Pids
  /\ started = 0
  /\ raised = {}
  /\ ptr = NoPtr
  /\ session = Cleared
  /\ chase = NoChase
  /\ workers = [k \in Starts |-> NoWorker]
  /\ chased = FALSE

-------------------------------------------------------------------------------
(* Calls of the engine's interface. *)

Running == ptr.status = "running"

(* The cancel flags of slots; a slot that was reset (0) has none.          *)
Flags(gens) == gens \ {0}

StartWorker(kind, p, t, pc) ==
  /\ started < MaxStarts
  /\ started' = started + 1
  /\ workers' = [workers EXCEPT ![started + 1] =
                   [NoWorker EXCEPT !.kind = kind, !.pid = p, !.pc = pc,
                                    !.target = {t}]]

(* Mutant: the flag of the task that had the slot is not raised. *)
StartWithoutFlag(p, t) ==
  /\ ~Running
  /\ StartWorker("scan", p, t, "begin")
  /\ ptr' = [gen |-> started + 1, status |-> "running"]
  /\ UNCHANGED <<alive, raised, session, chase>>

(* Both starts look for the process before they take the lock, so it may   *)
(* have gone by now; a plain scan is refused while the slot shows running. *)
StartPointerScan(p, t) ==
  /\ ~Running
  /\ StartWorker("scan", p, t, "begin")
  /\ raised' = raised \union Flags({ptr.gen})
  /\ ptr' = [gen |-> started + 1, status |-> "running"]
  /\ UNCHANGED <<alive, session, chase>>

StartPointerAutoChase(p, t) ==
  /\ StartWorker("chase", p, t, "layer")
  /\ raised' = raised \union Flags({ptr.gen, chase.gen})
  /\ ptr' = [gen |-> started + 1, status |-> "running"]
  /\ chase' = [gen |-> started + 1, running |-> TRUE, depth |-> 0,
               layers |-> <<>>]
  /\ UNCHANGED <<alive, session>>

CancelPointerScan ==
  /\ Running
  /\ raised' = raised \union Flags({ptr.gen})
  /\ ptr' = [ptr EXCEPT !.status = "cancelled"]
  /\ UNCHANGED <<alive, started, session, chase, workers>>

(* Mutant: the depth shown is zeroed with the view. *)
CancelZeroesDepth ==
  /\ raised' = raised \union Flags({chase.gen})
  /\ chase' = [chase EXCEPT !.running = FALSE, !.depth = 0]
  /\ ptr' = [ptr EXCEPT !.status = "idle"]
  /\ UNCHANGED <<alive, started, session, workers>>

(* The view of the shared slot is emptied, whoever it shows.               *)
CancelPointerAutoChase ==
  /\ raised' = raised \union Flags({chase.gen})
  /\ chase' = [chase EXCEPT !.running = FALSE, !.depth = Len(chase.layers)]
  /\ ptr' = [ptr EXCEPT !.status = "idle"]
  /\ UNCHANGED <<alive, started, session, workers>>

(* Mutant: the session survives the reset of its task. *)
ResetForgetsTaskOnly ==
  /\ raised' = raised \union Flags({ptr.gen})
  /\ ptr' = NoPtr
  /\ UNCHANGED <<alive, started, session, chase, workers>>

ResetPointerScanSession ==
  /\ raised' = raised \union Flags({ptr.gen})
  /\ ptr' = NoPtr
  /\ session' = Cleared
  /\ UNCHANGED <<alive, started, chase, workers>>

(* The slot it shares with the plain scans stays as it is.                 *)
ResetPointerAutoChase ==
  /\ raised' = raised \union Flags({chase.gen})
  /\ chase' = NoChase
  /\ UNCHANGED <<alive, started, ptr, session, workers>>

(* Reading results, freezing, writing, patching and disassembling drop the *)
(* session of a process they find gone.                                    *)
DropDeadSession(p) ==
  /\ p \notin alive
  /\ session.pid = p
  /\ session' = Cleared
  /\ UNCHANGED <<alive, started, raised, ptr, chase, workers>>

ProcessExits(p) ==
  /\ p \in alive
  /\ alive' = alive \ {p}
  /\ UNCHANGED <<started, raised, ptr, session, chase, workers>>

-------------------------------------------------------------------------------
(* Steps of the thread of start k. *)

Moves(k, pc) == workers' = [workers EXCEPT ![k].pc = pc]

Finished == [NoWorker EXCEPT !.pc = "done"]

Ends(k) == workers' = [workers EXCEPT ![k] = Finished]

(* The test of UpdatePointerTaskProgress and FinishPointerTaskSuccess.     *)
Current(k) ==
  /\ ptr.gen = k
  /\ Running
  /\ k \notin raised

EntersScan(k) ==
  workers' = [workers EXCEPT ![k].pc = "scan", ![k].todo = Units,
                             ![k].found = {}]

BeginScan(k) ==
  /\ workers[k].pc = "begin"
  /\ IF Current(k) THEN EntersScan(k) ELSE Ends(k)
  /\ UNCHANGED <<alive, started, raised, ptr, session, chase>>

(* The head of the loop over the layers.                                   *)
BeginLayer(k) ==
  /\ workers[k].pc = "layer"
  /\ Moves(k, IF k \in raised THEN "cancelled"
              ELSE IF workers[k].pid \notin alive THEN "fail"
              ELSE "progress")
  /\ UNCHANGED <<alive, started, raised, ptr, session, chase>>

(* The slot turned the progress report down: the thread just returns.      *)
LayerProgress(k) ==
  /\ workers[k].pc = "progress"
  /\ IF Current(k) THEN Moves(k, "depth") ELSE Ends(k)
  /\ UNCHANGED <<alive, started, raised, ptr, session, chase>>

LayerDepth(k) ==
  /\ workers[k].pc = "depth"
  /\ IF chase.gen = k
     THEN chase' = [chase EXCEPT !.depth = workers[k].layer] /\ EntersScan(k)
     ELSE Ends(k) /\ UNCHANGED chase
  /\ UNCHANGED <<alive, started, raised, ptr, session>>

(* One region is read; a process that is gone reads as nothing.            *)
ScanUnit(k) ==
  /\ workers[k].pc = "scan"
  /\ \E u \in workers[k].todo,
        hits \in SUBSET (IF workers[k].pid \in alive THEN Addrs ELSE {}) :
       workers' = [workers EXCEPT ![k].todo = @ \ {u}, ![k].found = @ \union hits]
  /\ UNCHANGED <<alive, started, raised, ptr, session, chase>>

(* The regions are used up, or a progress report or the flag stops the     *)
(* threads that share them; what they found so far is kept either way.     *)
JoinScan(k) ==
  /\ workers[k].pc = "scan"
  /\ workers[k].todo = {} \/ ~Current(k)
  /\ Moves(k, "joined")
  /\ UNCHANGED <<alive, started, raised, ptr, session, chase>>

(* Mutant: the flag is not tested after the threads were joined.           *)
JoinedIsComplete(k) ==
  /\ workers[k].pc = "joined"
  /\ Moves(k, "result")
  /\ UNCHANGED <<alive, started, raised, ptr, session, chase>>

(* RunPointerScanSync throws if the flag is set, else returns what it has. *)
TestFlag(k) ==
  /\ workers[k].pc = "joined"
  /\ IF k \notin raised THEN Moves(k, "result")
     ELSE IF workers[k].kind = "chase" THEN Moves(k, "cancelled")
     ELSE Ends(k)
  /\ UNCHANGED <<alive, started, raised, ptr, session, chase>>

(* The maps cannot be opened, no region is left, or an allocation fails.   *)
ScanThrows(k) ==
  /\ workers[k].pc \in {"begin", "progress", "scan"}
  /\ Moves(k, "fail")
  /\ UNCHANGED <<alive, started, raised, ptr, session, chase>>

FinishPointerTaskSuccess(k) ==
  /\ workers[k].pc = "result"
  /\ workers[k].kind = "scan"
  /\ IF Current(k)
     THEN /\ session' = [active |-> TRUE, pid |-> workers[k].pid,
                         results |-> workers[k].found,
                         missed |-> workers[k].todo]
          /\ ptr' = [ptr EXCEPT !.status = "completed"]
     ELSE UNCHANGED <<session, ptr>>
  /\ Ends(k)
  /\ UNCHANGED <<alive, started, raised, chase>>

FinishPointerTaskFailure(k) ==
  /\ workers[k].pc = "fail"
  /\ workers[k].kind = "scan"
  /\ ptr' = IF ptr.gen = k /\ Running THEN [ptr EXCEPT !.status = "failed"]
            ELSE ptr
  /\ Ends(k)
  /\ UNCHANGED <<alive, started, raised, session, chase>>

(* SelectBestPointerResult prefers static regions.                         *)
BestResults(found) ==
  IF found \intersect Static # {} THEN found \intersect Static ELSE found

(* Mutant: the bound on the depth comes one layer late. *)
StopReasonLate(selected, layer) ==
  IF selected = {} THEN "noMorePointers"
  ELSE IF selected \subseteq Static THEN "staticReached"
  ELSE IF layer >= MaxDepth THEN "maxDepth"
  ELSE ""

StopReason(selected, layer) ==
  IF selected = {} THEN "noMorePointers"
  ELSE IF selected \subseteq Static THEN "staticReached"
  ELSE IF layer + 1 >= MaxDepth THEN "maxDepth"
  ELSE ""

Selections(found) ==
  IF found = {} THEN {{}} ELSE {{a} : a \in BestResults(found)}

(* Mutant: the generation is not tested before the layer is appended. *)
PushUnchecked(k) ==
  /\ workers[k].pc = "result"
  /\ workers[k].kind = "chase"
  /\ Len(chase.layers) < MaxDepth
  /\ \E selected \in Selections(workers[k].found), target \in workers[k].target :
       LET reason == StopReason(selected, workers[k].layer)
       IN /\ chase' = [chase EXCEPT !.layers =
                         Append(@, [target |-> target, selected |-> selected,
                                    stop |-> reason, missed |-> workers[k].todo])]
          /\ workers' = [workers EXCEPT
                           ![k].pc = IF reason = "" THEN "layer" ELSE "stop",
                           ![k].layer = @ + 1, ![k].target = selected]
  /\ UNCHANGED <<alive, started, raised, ptr, session>>

(* A layer is appended and the next one starts from its best pointer.      *)
PushLayer(k) ==
  /\ workers[k].pc = "result"
  /\ workers[k].kind = "chase"
  /\ IF chase.gen # k
     THEN Ends(k) /\ UNCHANGED chase
     ELSE \E selected \in Selections(workers[k].found), target \in workers[k].target :
            LET reason == StopReason(selected, workers[k].layer)
            IN /\ chase' =
                    [chase EXCEPT
                       !.layers = Append(@, [target |-> target,
                                             selected |-> selected,
                                             stop |-> reason,
                                             missed |-> workers[k].todo]),
                       !.depth = Len(chase.layers) + 1]
               /\ workers' =
                    [workers EXCEPT
                       ![k].pc = IF reason = "" THEN "layer" ELSE "stop",
                       ![k].layer = @ + 1,
                       ![k].target = selected,
                       ![k].todo = {}, ![k].found = {}]
  /\ UNCHANGED <<alive, started, raised, ptr, session>>

(* The three ends of a chase that is still the current one: a stop reason, *)
(* an exception, and the cancel flag, which leaves is_running alone.       *)
EndChase(k) ==
  /\ workers[k].kind = "chase"
  /\ workers[k].pc \in {"stop", "fail", "cancelled"}
  /\ IF chase.gen = k
     THEN /\ ptr' = [ptr EXCEPT !.status = "idle"]
          /\ chase' = [chase EXCEPT !.running = @ /\ workers[k].pc = "cancelled"]
     ELSE UNCHANGED <<ptr, chase>>
  /\ Ends(k)
  /\ UNCHANGED <<alive, started, raised, session>>

-------------------------------------------------------------------------------

ScanCall ==
  /\ UNCHANGED chased
  /\ \/ \E p \in Pids, t \in Addrs : StartPointerScan(p, t)
     \/ CancelPointerScan
     \/ ResetPointerScanSession
     \/ \E p \in Pids : DropDeadSession(p)

ChaseCall ==
  /\ chased' = TRUE
  /\ \/ \E p \in Pids, t \in Addrs : StartPointerAutoChase(p, t)
     \/ CancelPointerAutoChase
     \/ ResetPointerAutoChase

ScanStep(k) ==
  \/ BeginScan(k)
  \/ ScanUnit(k)
  \/ JoinScan(k)
  \/ TestFlag(k)
  \/ ScanThrows(k)
  \/ FinishPointerTaskSuccess(k)
  \/ FinishPointerTaskFailure(k)

ChaseStep(k) ==
  \/ BeginLayer(k)
  \/ LayerProgress(k)
  \/ LayerDepth(k)
  \/ PushLayer(k)
  \/ EndChase(k)

WorkerStep(k) == (ScanStep(k) \/ ChaseStep(k)) /\ UNCHANGED chased

Next ==
  \/ ScanCall
  \/ ChaseCall
  \/ \E p \in Pids : ProcessExits(p) /\ UNCHANGED chased
  \/ \E k \in Starts : WorkerStep(k)

Spec == Init /\ [][Next]_vars

(* The operating system schedules every thread; callers owe nothing.       *)
FairSpec == Spec /\ \A k \in Starts : WF_vars(WorkerStep(k))

-------------------------------------------------------------------------------
(* Properties. *)

Live(k) == workers[k].pc \notin {"none", "done"}

(* A stopped scan returns what it has found so far as if it were all; it   *)
(* never becomes the session nor a layer of the chase.                     *)
OnlyCompleteResults ==
  /\ session.missed = {}
  /\ \A i \in DOMAIN chase.layers : chase.layers[i].missed = {}

(* The layers are one chain, whichever threads of which chases appended:   *)
(* every layer starts from the pointer its predecessor selected, only the  *)
(* last one may carry a stop reason, and the depth shown counts them.      *)
LayersFormChain ==
  /\ chase.depth = Len(chase.layers)
  /\ \A i \in 1..(Len(chase.layers) - 1) :
       /\ chase.layers[i].selected = {chase.layers[i + 1].target}
       /\ chase.layers[i].stop = ""

(* At most one thread scans the process without having been told to stop:  *)
(* every start raises the flag of whatever it takes the slot from.         *)
OneUnstoppedThread ==
  \A j, k \in Starts :
    Live(j) /\ Live(k) /\ j \notin raised /\ k \notin raised => j = k

(* Until somebody uses the auto chase, the pointer scan keeps the contract *)
(* of a scan slot; then it is as if the slot had been reset for good.      *)
Slot ==
  INSTANCE ScanSlot WITH
    Units <- Addrs,
    status <- IF chased THEN "idle" ELSE ptr.status,
    held <- IF session.active /\ ~chased THEN {session.results} ELSE {},
    base <- IF Running /\ ~chased THEN Addrs ELSE {}

ImplementsScanSlot == Slot!Contract

(* "是否仍在运行" is what the chase says of itself, "A pointer scan task is  *)
(* already running." what the slot says: each says so only while it has a  *)
(* thread that chases or scans.                                            *)
RunningHasThread ==
  /\ chase.running => Live(chase.gen)
  /\ Running => Live(ptr.gen)
===============================================================================
