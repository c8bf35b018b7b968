------------------------------ MODULE SearchTask ------------------------------
(***************************************************************************)
(* The search half of MemoryToolEngine (memory_tool_engine.cpp): the one   *)
(* task slot task_, the one search session session_, and the detached scan *)
(* threads that report to the slot and replace the session.                *)
(*                                                                         *)
(* Every critical section of mutex_ is one action.  A scan thread is known *)
(* by the generation it was started with; threads of cancelled and reset   *)
(* tasks go on running beside the current one.  Addresses are abstracted   *)
(* to Units (a region for a first scan, a candidate for a next scan); the  *)
(* progress counters and the messages of the views are left out.  A call   *)
(* that throws before it changes anything is a stuttering step.            *)
(***************************************************************************)
EXTENDS Naturals

CONSTANTS
  Pids,     \* target processes
  NoPid,    \* the pid of a cleared session (0 in the code)
  Units,    \* what a scan visits one by one
  Modes,    \* the runtime modes requests may have
  MaxGen    \* bound on task_generation_counter_

AllModes == {"standard", "xor", "auto", "fuzzy", "group"}

ASSUME SearchConstants ==
  /\ NoPid \notin Pids
  /\ Modes \subseteq AllModes
  /\ MaxGen \in Nat

VARIABLES
  alive,     \* the target processes that have not exited
  counter,   \* task_generation_counter_
  task,      \* task_: generation, status, pid, cancel flag
  session,   \* session_
  workers    \* the scan thread of each generation

vars == <<alive, counter, task, session, workers>>

Generations == 1..MaxGen

Statuses == {"idle", "running", "completed", "cancelled", "failed"}

(* A shared_ptr is {} when it is null and {v} when it points to v. *)
Pointers == {{}} \union {{s} : s \in SUBSET Units}

(* "missed" is a history field: what the publishing scan had not visited. *)
Sessions ==
  [active: BOOLEAN, pid: Pids \union {NoPid}, mode: AllModes,
   results: SUBSET Units, initial: Pointers, candidates: Pointers,
   missed: SUBSET Units]

Cleared ==
  [active |-> FALSE, pid |-> NoPid, mode |-> "standard", results |-> {},
   initial |-> {}, candidates |-> {}, missed |-> {}]

Tasks ==
  [gen: 0..MaxGen, status: Statuses, pid: Pids \union {NoPid}, flag: BOOLEAN]

NoTask == [gen |-> 0, status |-> "idle", pid |-> NoPid, flag |-> FALSE]

Phases == {"none", "begin", "scan", "finish", "fail", "done"}

Workers ==
  [pc: Phases, first: BOOLEAN, pid: Pids \union {NoPid}, mode: AllModes,
   from: Sessions, todo: SUBSET Units, found: SUBSET Units]

NoWorker ==
  [pc |-> "none", first |-> FALSE, pid |-> NoPid, mode |-> "standard",
   from |-> Cleared, todo |-> {}, found |-> {}]

Finished == [NoWorker EXCEPT !.pc = "done"]

TypeOK ==
  /\ alive \subseteq Pids
  /\ counter \in 0..MaxGen
  /\ task \in Tasks
  /\ session \in Sessions
  /\ workers \in [Generations -> Workers]

Init ==
  /\ alive = Pids
  /\ counter = 0
  /\ task = NoTask
  /\ session = Cleared
  /\ workers = [g \in Generations |-> NoWorker]

-------------------------------------------------------------------------------
(* What a session holds: ResolveSessionResultCount counts Hits, and        *)
(* CollectFuzzyResultEntries lists Entries.                                *)

Hits(s) ==
  IF s.mode # "fuzzy" THEN s.results
  ELSE IF s.candidates # {} THEN UNION s.candidates
  ELSE UNION s.initial

Entries(s) ==
  IF s.mode # "fuzzy" THEN s.results
  ELSE IF UNION s.candidates = {} THEN UNION s.initial
  ELSE UNION s.candidates

CanContinueWithRequestMode(held, request) ==
  \/ held = request
  \/ <<held, request>> \in { <<"standard", "fuzzy">>,
                             <<"fuzzy", "standard">>,
                             <<"auto", "standard">> }

(* The session a first scan publishes. *)
FirstSession(w) ==
  [active |-> TRUE, pid |-> w.pid, mode |-> w.mode,
   results |-> IF w.mode = "fuzzy" THEN {} ELSE w.found,
   initial |-> IF w.mode = "fuzzy" THEN {w.found} ELSE {},
   candidates |-> {},
   missed |-> w.todo]

(* The fuzzy candidates after a next scan: seeded from the results of a    *)
(* session that was not fuzzy, unless it has none; narrowed from whichever *)
(* fuzzy store the session had; still null when it had neither.            *)
NextCandidates(w) ==
  IF \/ w.from.mode # "fuzzy" /\ w.from.results = {}
     \/ w.from.mode = "fuzzy" /\ w.from.candidates = {} /\ w.from.initial = {}
  THEN {}
  ELSE {w.found}

(* Mutant: the initial regions are not released with the first narrowing.  *)
NextSessionKeepsInitial(w) ==
  [active |-> w.from.active, pid |-> w.from.pid,
   mode |-> IF w.from.mode = "fuzzy" THEN "fuzzy" ELSE w.mode,
   results |-> IF "fuzzy" \in {w.from.mode, w.mode} THEN {} ELSE w.found,
   initial |-> w.from.initial,
   candidates |-> IF "fuzzy" \in {w.from.mode, w.mode} THEN NextCandidates(w) ELSE {},
   missed |-> w.todo]

(* The session a next scan publishes: its snapshot with the new results.   *)
NextSession(w) ==
  LET fuzzy == "fuzzy" \in {w.from.mode, w.mode}
  IN [active |-> w.from.active, pid |-> w.from.pid,
      mode |-> IF fuzzy THEN "fuzzy" ELSE w.mode,
      results |-> IF fuzzy THEN {} ELSE w.found,
      initial |-> {},
      candidates |-> IF fuzzy THEN NextCandidates(w) ELSE {},
      missed |-> w.todo]

Published(w) == IF w.first THEN FirstSession(w) ELSE NextSession(w)

-------------------------------------------------------------------------------
(* Calls of the engine's interface. *)

Running == task.status = "running"

(* StartTaskLocked, when no task runs: a new generation and its thread.    *)
StartTask(w) ==
  /\ ~Running
  /\ counter < MaxGen
  /\ counter' = counter + 1
  /\ task' = [gen |-> counter + 1, status |-> "running",
              pid |-> w.pid, flag |-> FALSE]
  /\ workers' = [workers EXCEPT ![counter + 1] = w]

(* FirstScan clears the session before it asks whether a task is running.  *)
FirstScan(p, m) ==
  /\ session' = Cleared
  /\ StartTask([pc |-> "begin", first |-> TRUE, pid |-> p, mode |-> m,
                from |-> Cleared, todo |-> Units, found |-> {}])
  /\ UNCHANGED alive

FirstScanRejected ==
  /\ Running
  /\ session' = Cleared
  /\ UNCHANGED <<alive, counter, task, workers>>

(* NextScan snapshots the session under the same lock that starts the task. *)
NextScan(m) ==
  /\ session.active
  /\ session.pid \in alive
  /\ CanContinueWithRequestMode(session.mode, m)
  /\ StartTask([pc |-> "scan", first |-> FALSE, pid |-> session.pid, mode |-> m,
                from |-> session, todo |-> Hits(session), found |-> {}])
  /\ UNCHANGED <<alive, session>>

NextScanTargetGone ==
  /\ ~Running
  /\ session.active
  /\ session.pid \notin alive
  /\ session' = Cleared
  /\ UNCHANGED <<alive, counter, task, workers>>

(* Mutant: the flag is raised and the status left for the thread to set.   *)
CancelByFlagOnly ==
  /\ Running
  /\ task' = [task EXCEPT !.flag = TRUE]
  /\ UNCHANGED <<alive, counter, session, workers>>

CancelSearch ==
  /\ Running
  /\ task' = [task EXCEPT !.status = "cancelled", !.flag = TRUE]
  /\ UNCHANGED <<alive, counter, session, workers>>

(* Mutant: the counter is counted up twice. *)
ResetCountsTwice ==
  /\ counter < MaxGen
  /\ counter' = counter + 2
  /\ task' = NoTask
  /\ session' = Cleared
  /\ UNCHANGED <<alive, workers>>

ResetSearchSession ==
  /\ counter < MaxGen
  /\ counter' = counter + 1
  /\ task' = NoTask
  /\ session' = Cleared
  /\ UNCHANGED <<alive, workers>>

(* Reading, writing, freezing, patching and disassembling drop the session *)
(* of a process they find gone, whatever the task is doing.                *)
DropDeadSession(p) ==
  /\ p \notin alive
  /\ session.pid = p
  /\ session' = Cleared
  /\ UNCHANGED <<alive, counter, task, workers>>

ProcessExits(p) ==
  /\ p \in alive
  /\ alive' = alive \ {p}
  /\ UNCHANGED <<counter, task, session, workers>>

-------------------------------------------------------------------------------
(* Steps of the scan thread of generation g. *)

(* The test of UpdateTaskProgress and FinishTaskSuccess. *)
Current(g) ==
  /\ task.gen = g
  /\ task.status = "running"
  /\ ~task.flag

(* A first scan looks for its target and reads its regions.                *)
BeginFirstScan(g) ==
  /\ workers[g].pc = "begin"
  /\ workers' = [workers EXCEPT ![g].pc =
                   IF workers[g].pid \in alive THEN "scan" ELSE "fail"]
  /\ UNCHANGED <<alive, counter, task, session>>

(* One unit is read; a process that is gone reads as nothing.              *)
ScanUnit(g) ==
  /\ workers[g].pc = "scan"
  /\ \E u \in workers[g].todo :
       \E hit \in SUBSET ({u} \intersect
                          (IF workers[g].pid \in alive THEN Units ELSE {})) :
         workers' = [workers EXCEPT ![g].todo = @ \ {u}, ![g].found = @ \union hit]
  /\ UNCHANGED <<alive, counter, task, session>>

(* What a next scan holds when it is stopped: the partial seed of a fuzzy  *)
(* session, the unchanged candidates of one, or no results.                *)
StoppedResults(w) ==
  IF w.from.mode = "fuzzy" THEN UNION w.from.candidates
  ELSE IF w.mode = "fuzzy" THEN w.found
  ELSE {}

(* UpdateTaskProgress answers false: a first scan ends there, a next scan  *)
(* goes on to FinishTaskSuccess with what it holds.                        *)
StopOnStaleProgress(g) ==
  /\ workers[g].pc = "scan"
  /\ ~Current(g)
  /\ workers' = [workers EXCEPT ![g] =
                   IF @.first THEN Finished
                   ELSE [@ EXCEPT !.pc = "finish",
                                  !.found = StoppedResults(workers[g])]]
  /\ UNCHANGED <<alive, counter, task, session>>

ScanComplete(g) ==
  /\ workers[g].pc = "scan"
  /\ workers[g].todo = {}
  /\ workers' = [workers EXCEPT ![g].pc = "finish"]
  /\ UNCHANGED <<alive, counter, task, session>>

(* Mutant: the handler swallows the exception. *)
ThrowIsSwallowed(g) ==
  /\ workers[g].pc \in {"begin", "scan"}
  /\ workers' = [workers EXCEPT ![g] = Finished]
  /\ UNCHANGED <<alive, counter, task, session>>

(* An exception in the thread, which its handlers turn into a failure:     *)
(* the maps of the process cannot be opened, or an allocation fails.       *)
ScanThrows(g) ==
  /\ workers[g].pc \in {"begin", "scan"}
  /\ workers' = [workers EXCEPT ![g].pc = "fail"]
  /\ UNCHANGED <<alive, counter, task, session>>

(* Mutants: a thread publishes whenever the generation is its own; or it   *)
(* stores its session before it asks whether it is current.                *)
FinishByGeneration(g) ==
  /\ workers[g].pc = "finish"
  /\ IF task.gen = g
     THEN /\ session' = Published(workers[g])
          /\ task' = [task EXCEPT !.status = "completed"]
     ELSE UNCHANGED <<session, task>>
  /\ workers' = [workers EXCEPT ![g] = Finished]
  /\ UNCHANGED <<alive, counter>>

FinishStoresFirst(g) ==
  /\ workers[g].pc = "finish"
  /\ session' = Published(workers[g])
  /\ task' = IF Current(g) THEN [task EXCEPT !.status = "completed"] ELSE task
  /\ workers' = [workers EXCEPT ![g] = Finished]
  /\ UNCHANGED <<alive, counter>>

FinishTaskSuccess(g) ==
  /\ workers[g].pc = "finish"
  /\ IF Current(g)
     THEN /\ session' = Published(workers[g])
          /\ task' = [task EXCEPT !.status = "completed"]
     ELSE UNCHANGED <<session, task>>
  /\ workers' = [workers EXCEPT ![g] = Finished]
  /\ UNCHANGED <<alive, counter>>

FinishTaskFailure(g) ==
  /\ workers[g].pc = "fail"
  /\ task' = IF task.gen = g /\ task.status = "running"
             THEN [task EXCEPT !.status = "failed"]
             ELSE task
  /\ workers' = [workers EXCEPT ![g] = Finished]
  /\ UNCHANGED <<alive, counter, session>>

-------------------------------------------------------------------------------

Call ==
  \/ \E p \in Pids, m \in Modes : FirstScan(p, m)
  \/ FirstScanRejected
  \/ \E m \in Modes : NextScan(m)
  \/ NextScanTargetGone
  \/ CancelSearch
  \/ ResetSearchSession
  \/ \E p \in Pids : DropDeadSession(p)

WorkerStep(g) ==
  \/ BeginFirstScan(g)
  \/ ScanUnit(g)
  \/ StopOnStaleProgress(g)
  \/ ScanComplete(g)
  \/ ScanThrows(g)
  \/ FinishTaskSuccess(g)
  \/ FinishTaskFailure(g)

Next ==
  \/ Call
  \/ \E p \in Pids : ProcessExits(p)
  \/ \E g \in Generations : WorkerStep(g)

Spec == Init /\ [][Next]_vars

(* The operating system schedules every scan thread; callers owe nothing.  *)
FairSpec == Spec /\ \A g \in Generations : WF_vars(WorkerStep(g))

-------------------------------------------------------------------------------
(* Properties. *)

(* Only a scan that visited every region or candidate becomes the session: *)
(* stopped, superseded and failed scans end in the middle of their work,   *)
(* and a stopped next scan even calls FinishTaskSuccess with what it has.  *)
NoPartialPublish == session.missed = {}

(* The result count of the session and the entries it lists agree: a fuzzy *)
(* session never keeps both stores, of which the counting code trusts the  *)
(* candidates and the listing code the initial regions if the candidates   *)
(* are empty.                                                              *)
CountMatchesEntries == Hits(session) = Entries(session)

(* While a next scan may still publish, the session is the one it took its *)
(* snapshot of, or was cleared meanwhile: no publication is ever undone by *)
(* an older snapshot.                                                      *)
SnapshotNotOvertaken ==
  \A g \in Generations :
    /\ Current(g)
    /\ ~workers[g].first
    => session \in {workers[g].from, Cleared}

(* A task shown as running has a thread that will finish or fail it.       *)
RunningHasWorker ==
  Running => workers[task.gen].pc \in {"begin", "scan", "finish", "fail"}

(* Threads of tasks that were cancelled, reset or replaced install no      *)
(* session: one appears only in the step that completes the running task.  *)
NoLatePublish ==
  [][session'.active /\ session' # session
       => /\ Running
          /\ task'.gen = task.gen
          /\ task'.status = "completed"]_vars

(* A task that was cancelled, completed or failed keeps that status until  *)
(* a new task or a reset replaces it, whatever its thread still reports.   *)
VerdictIsFinal ==
  [][task.status \in {"cancelled", "completed", "failed"}
       => task' = task \/ task'.gen # task.gen]_vars

(* The search task keeps the contract of a scan slot, liveness included.   *)
Slot ==
  INSTANCE ScanSlot WITH
    status <- task.status,
    held <- IF session.active THEN {Hits(session)} ELSE {},
    base <- IF ~Running THEN {}
            ELSE IF workers[task.gen].first THEN Units
            ELSE Hits(workers[task.gen].from)

ImplementsScanSlot == Slot!Contract
===============================================================================
