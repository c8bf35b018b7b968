--------------------------- MODULE SearchTaskProofs ---------------------------
(***************************************************************************)
(* Proofs about SearchTask, for every set of processes, units and modes    *)
(* and every bound on the generations.                                     *)
(***************************************************************************)
EXTENDS SearchTask, TLAPS

(* A cleared session, and the session that a scan publishes, are sessions. *)
LEMMA ClearedType == Cleared \in Sessions
  BY DEF Cleared, Sessions, AllModes, Pointers

LEMMA PublishedType ==
  ASSUME NEW w \in Workers
  PROVE  Published(w) \in Sessions
<1>1. /\ w.pid \in Pids \union {NoPid} /\ w.mode \in AllModes
      /\ w.todo \subseteq Units /\ w.found \subseteq Units
      /\ w.from.active \in BOOLEAN /\ w.from.pid \in Pids \union {NoPid}
      /\ w.from.mode \in AllModes
  BY DEF Workers, Sessions
<1>2. {w.found} \in Pointers /\ {} \in Pointers
  BY <1>1 DEF Pointers
<1>3. NextCandidates(w) \in Pointers
  BY <1>2 DEF NextCandidates
<1>4. FirstSession(w) \in Sessions
  BY <1>1, <1>2 DEF FirstSession, Sessions
<1>5. NextSession(w) \in Sessions
  <2> DEFINE fuzzy == "fuzzy" \in {w.from.mode, w.mode}
  <2>1. (IF w.from.mode = "fuzzy" THEN "fuzzy" ELSE w.mode) \in AllModes
    BY <1>1
  <2>2. (IF fuzzy THEN {} ELSE w.found) \in SUBSET Units
    BY <1>1
  <2>3. (IF fuzzy THEN NextCandidates(w) ELSE {}) \in Pointers
    BY <1>2, <1>3
  <2>4. (IF fuzzy THEN "fuzzy" ELSE w.mode) \in AllModes
    BY <1>1 DEF AllModes
  <2> QED
    BY <1>1, <1>2, <2>1, <2>2, <2>3, <2>4 DEF NextSession, Sessions
<1> QED
  BY <1>4, <1>5 DEF Published

LEMMA FinishedType == NoWorker \in Workers /\ Finished \in Workers
  BY ClearedType DEF NoWorker, Finished, Workers, Phases, AllModes

-------------------------------------------------------------------------------
(* Types. *)

LEMMA InitTypeOK == Init => TypeOK
  BY ClearedType, FinishedType, SearchConstants
     DEF Init, TypeOK, NoTask, Tasks, Statuses

LEMMA CallTypeOK == TypeOK /\ Call => TypeOK'
<1> SUFFICES ASSUME TypeOK, Call PROVE TypeOK'
  OBVIOUS
<1> USE SearchConstants, ClearedType DEF TypeOK
<1>1. ASSUME NEW w \in Workers, StartTask(w)
      PROVE  counter' \in 0..MaxGen /\ task' \in Tasks
             /\ workers' \in [Generations -> Workers]
  <2>1. counter + 1 \in 0..MaxGen
    BY <1>1 DEF StartTask
  <2>2. w.pid \in Pids \union {NoPid}
    BY DEF Workers
  <2> QED
    BY <1>1, <2>1, <2>2 DEF StartTask, Tasks, Statuses
<1>2. ASSUME NEW p \in Pids, NEW m \in Modes, FirstScan(p, m) PROVE TypeOK'
  <2> DEFINE w == [pc |-> "begin", first |-> TRUE, pid |-> p, mode |-> m,
                   from |-> Cleared, todo |-> Units, found |-> {}]
  <2>1. w \in Workers
    BY DEF Workers, Phases
  <2>2. StartTask(w) /\ session' = Cleared /\ alive' = alive
    BY <1>2 DEF FirstScan
  <2> HIDE DEF w
  <2> QED
    BY <1>1, <2>1, <2>2
<1>3. ASSUME NEW m \in Modes, NextScan(m) PROVE TypeOK'
  <2> DEFINE w == [pc |-> "scan", first |-> FALSE, pid |-> session.pid, mode |-> m,
                   from |-> session, todo |-> Hits(session), found |-> {}]
  <2>1. /\ session.pid \in Pids \union {NoPid} /\ session.results \subseteq Units
        /\ session.initial \in Pointers /\ session.candidates \in Pointers
    BY DEF Sessions
  <2>2. Hits(session) \subseteq Units
    BY <2>1 DEF Hits, Pointers
  <2>3. w \in Workers
    BY <2>1, <2>2 DEF Workers, Phases
  <2>4. StartTask(w) /\ session' = session /\ alive' = alive
    BY <1>3 DEF NextScan
  <2> HIDE DEF w
  <2> QED
    BY <1>1, <2>3, <2>4
<1>4. CASE FirstScanRejected
  BY <1>4 DEF FirstScanRejected
<1>5. CASE NextScanTargetGone
  BY <1>5 DEF NextScanTargetGone
<1>6. CASE CancelSearch
  BY <1>6 DEF CancelSearch, Tasks, Statuses
<1>7. CASE ResetSearchSession
  BY <1>7 DEF ResetSearchSession, NoTask, Tasks, Statuses
<1>8. ASSUME NEW p \in Pids, DropDeadSession(p) PROVE TypeOK'
  BY <1>8 DEF DropDeadSession
<1> QED
  BY <1>2, <1>3, <1>4, <1>5, <1>6, <1>7, <1>8 DEF Call

LEMMA WorkerTypeOK ==
  ASSUME TypeOK, NEW g \in Generations, WorkerStep(g)
  PROVE  TypeOK'
<1> USE DEF TypeOK
<1>1. workers[g] \in Workers
  OBVIOUS
<1>2. CASE BeginFirstScan(g)
  BY <1>1, <1>2 DEF BeginFirstScan, Workers, Phases
<1>3. CASE ScanUnit(g)
  <2>1. PICK u \in workers[g].todo, hit \in SUBSET Units :
          workers' = [workers EXCEPT ![g].todo = @ \ {u}, ![g].found = @ \union hit]
    BY <1>3 DEF ScanUnit
  <2>2. [workers[g] EXCEPT !.todo = @ \ {u}, !.found = @ \union hit] \in Workers
    BY <1>1 DEF Workers
  <2> QED
    BY <1>3, <2>1, <2>2 DEF ScanUnit
<1>4. CASE StopOnStaleProgress(g)
  <2>1. StoppedResults(workers[g]) \subseteq Units
    BY <1>1 DEF StoppedResults, Workers, Sessions, Pointers
  <2>2. [workers[g] EXCEPT !.pc = "finish", !.found = StoppedResults(workers[g])]
          \in Workers
    BY <1>1, <2>1 DEF Workers, Phases
  <2> QED
    BY <1>4, <2>2, FinishedType DEF StopOnStaleProgress
<1>5. CASE ScanComplete(g)
  BY <1>1, <1>5 DEF ScanComplete, Workers, Phases
<1>6. CASE ScanThrows(g)
  BY <1>1, <1>6 DEF ScanThrows, Workers, Phases
<1>7. CASE FinishTaskSuccess(g)
  BY <1>1, <1>7, PublishedType, FinishedType DEF FinishTaskSuccess, Tasks, Statuses
<1>8. CASE FinishTaskFailure(g)
  BY <1>8, FinishedType DEF FinishTaskFailure, Tasks, Statuses
<1> QED
  BY <1>2, <1>3, <1>4, <1>5, <1>6, <1>7, <1>8 DEF WorkerStep

(* The state of the search half of the engine is well typed: the slot      *)
(* holds a task, and every thread works for a generation that was issued.  *)
THEOREM TypeCorrect == Spec => []TypeOK
<1>1. TypeOK /\ [Next]_vars => TypeOK'
  <2> SUFFICES ASSUME TypeOK, [Next]_vars PROVE TypeOK'
    OBVIOUS
  <2>1. CASE Call
    BY <2>1, CallTypeOK
  <2>2. ASSUME NEW p \in Pids, ProcessExits(p) PROVE TypeOK'
    BY <2>2 DEF ProcessExits, TypeOK
  <2>3. ASSUME NEW g \in Generations, WorkerStep(g) PROVE TypeOK'
    BY <2>3, WorkerTypeOK
  <2>4. CASE UNCHANGED vars
    BY <2>4 DEF vars, TypeOK
  <2> QED
    BY <2>1, <2>2, <2>3, <2>4 DEF Next
<1> QED
  BY <1>1, InitTypeOK, PTL DEF Spec

-------------------------------------------------------------------------------
(* The inductive invariant.                                                *)

(* The slot never gets ahead of the counter, and an idle slot is the one   *)
(* without a generation: a new task or a reset changes the generation.     *)
GenerationsInOrder ==
  /\ task.gen <= counter
  /\ task.status # "idle" => task.gen # 0

(* Cancelling sets the flag and the status together. *)
RunningIsNotFlagged == Running => ~task.flag

(* A current thread that is about to finish has visited everything. *)
FinishIsComplete ==
  \A g \in Generations :
    Current(g) /\ workers[g].pc = "finish" => workers[g].todo = {}

(* A session that was narrowed has released its initial regions. *)
OneStore == session.candidates # {} => session.initial = {}

(* What a scan draws its results from. *)
Base(w) == IF w.first THEN Units ELSE Hits(w.from)

(* What a current thread has found, or has yet to visit, is in its base;   *)
(* the snapshot a next scan works from is one of an active session.        *)
FoundInBase ==
  \A g \in Generations :
    Current(g) => /\ workers[g].found \subseteq Base(workers[g])
                  /\ workers[g].todo \subseteq Base(workers[g])
                  /\ workers[g].first \/ workers[g].from.active

IndInv ==
  /\ TypeOK
  /\ GenerationsInOrder
  /\ RunningIsNotFlagged
  /\ RunningHasWorker
  /\ FinishIsComplete
  /\ NoPartialPublish
  /\ OneStore
  /\ SnapshotNotOvertaken
  /\ FoundInBase

LEMMA InitIndInv == Init => IndInv
<1> SUFFICES ASSUME Init PROVE IndInv
  OBVIOUS
<1>1. TypeOK
  BY InitTypeOK
<1>2. task.gen = 0 /\ counter = 0 /\ task.status = "idle" /\ session = Cleared
  BY DEF Init, NoTask
<1>3. ~Running /\ \A g \in Generations : ~Current(g)
  BY <1>2 DEF Running, Current
<1> QED
  BY <1>1, <1>2, <1>3
     DEF IndInv, GenerationsInOrder, RunningIsNotFlagged, RunningHasWorker,
         FinishIsComplete, NoPartialPublish, OneStore, SnapshotNotOvertaken,
         FoundInBase, Cleared

(* The step that starts a task makes its thread the only current one, so   *)
(* that what the invariant says of threads is to be shown of that thread.  *)
LEMMA StartIndInv ==
  ASSUME IndInv, TypeOK', NEW w \in Workers, StartTask(w),
         w.pc \in {"begin", "scan"}, w.found = {}, w.todo \subseteq Base(w),
         w.first \/ w.from.active,
         session' = Cleared \/ (session' = session /\ w.from = session)
  PROVE  IndInv'
<1> DEFINE n == counter + 1
<1>1. n \in Generations /\ n # 0
  BY DEF StartTask, IndInv, TypeOK, Generations
<1>2. /\ counter' = n
      /\ task'.gen = n /\ task'.status = "running" /\ task'.flag = FALSE
      /\ workers'[n] = w
  BY <1>1 DEF StartTask, IndInv, TypeOK
<1>3. \A g \in Generations : Current(g)' => g = n
  BY <1>2 DEF Current
<1>4. GenerationsInOrder' /\ RunningIsNotFlagged'
  BY <1>1, <1>2 DEF GenerationsInOrder, RunningIsNotFlagged, Generations
<1>5. RunningHasWorker'
  BY <1>2 DEF RunningHasWorker
<1>6. FinishIsComplete'
  BY <1>2, <1>3 DEF FinishIsComplete
<1>7. NoPartialPublish' /\ OneStore'
  BY DEF IndInv, NoPartialPublish, OneStore, Cleared
<1>8. SnapshotNotOvertaken'
  BY <1>2, <1>3 DEF SnapshotNotOvertaken
<1>9. FoundInBase'
  BY <1>2, <1>3 DEF FoundInBase
<1> QED
  BY <1>4, <1>5, <1>6, <1>7, <1>8, <1>9 DEF IndInv

(* A step that leaves no task running only has to keep the session whole.  *)
LEMMA StoppedIndInv ==
  ASSUME TypeOK', task'.status # "running", GenerationsInOrder',
         NoPartialPublish', OneStore'
  PROVE  IndInv'
BY DEF IndInv, Running, Current, RunningIsNotFlagged, RunningHasWorker,
       FinishIsComplete, SnapshotNotOvertaken, FoundInBase

(* Clearing the session beside a task disturbs nothing.                    *)
LEMMA ClearIndInv ==
  ASSUME IndInv, TypeOK', session' = Cleared, UNCHANGED <<counter, task, workers>>
  PROVE  IndInv'
<1>1. GenerationsInOrder' /\ RunningIsNotFlagged' /\ RunningHasWorker'
  BY DEF IndInv, GenerationsInOrder, RunningIsNotFlagged, RunningHasWorker, Running
<1>2. FinishIsComplete' /\ FoundInBase'
  BY DEF IndInv, FinishIsComplete, FoundInBase, Current
<1>3. NoPartialPublish' /\ OneStore' /\ SnapshotNotOvertaken'
  BY DEF NoPartialPublish, OneStore, SnapshotNotOvertaken, Cleared
<1> QED
  BY <1>1, <1>2, <1>3 DEF IndInv

LEMMA CallIndInv ==
  ASSUME IndInv, Call
  PROVE  IndInv'
<1>0. TypeOK /\ TypeOK'
  BY CallTypeOK DEF IndInv
<1>1. ASSUME NEW p \in Pids, NEW m \in Modes, FirstScan(p, m) PROVE IndInv'
  <2> DEFINE w == [pc |-> "begin", first |-> TRUE, pid |-> p, mode |-> m,
                   from |-> Cleared, todo |-> Units, found |-> {}]
  <2>1. w \in Workers
    BY ClearedType, SearchConstants DEF Workers, Phases
  <2>2. StartTask(w) /\ session' = Cleared
    BY <1>1 DEF FirstScan
  <2>3. w.pc \in {"begin", "scan"} /\ w.found = {} /\ w.todo \subseteq Base(w) /\ w.first
    BY DEF Base
  <2> HIDE DEF w
  <2> QED
    BY <1>0, <2>1, <2>2, <2>3, StartIndInv
<1>2. ASSUME NEW m \in Modes, NextScan(m) PROVE IndInv'
  <2> DEFINE w == [pc |-> "scan", first |-> FALSE, pid |-> session.pid, mode |-> m,
                   from |-> session, todo |-> Hits(session), found |-> {}]
  <2>1. Hits(session) \subseteq Units /\ session.pid \in Pids \union {NoPid}
    BY <1>0 DEF TypeOK, Sessions, Hits, Pointers
  <2>2. w \in Workers
    BY <1>0, <2>1, SearchConstants DEF Workers, Phases, TypeOK
  <2>3. StartTask(w) /\ session' = session /\ w.from = session
    BY <1>2 DEF NextScan
  <2>4. /\ w.pc \in {"begin", "scan"} /\ w.found = {}
        /\ w.todo \subseteq Base(w) /\ w.from.active
    BY <1>2 DEF Base, NextScan
  <2> HIDE DEF w
  <2> QED
    BY <1>0, <2>2, <2>3, <2>4, StartIndInv
<1>3. CASE FirstScanRejected
  BY <1>0, <1>3, ClearIndInv DEF FirstScanRejected
<1>4. CASE NextScanTargetGone
  BY <1>0, <1>4, ClearIndInv DEF NextScanTargetGone
<1>5. CASE CancelSearch
  <2>1. task'.status = "cancelled" /\ task'.gen = task.gen
        /\ counter' = counter /\ session' = session
    BY <1>0, <1>5 DEF CancelSearch, TypeOK, Tasks
  <2>2. GenerationsInOrder' /\ NoPartialPublish' /\ OneStore'
    BY <1>5, <2>1 DEF IndInv, CancelSearch, Running, GenerationsInOrder,
                      NoPartialPublish, OneStore
  <2> QED
    BY <1>0, <2>1, <2>2, StoppedIndInv
<1>6. CASE ResetSearchSession
  <2>1. task'.status = "idle" /\ GenerationsInOrder' /\ NoPartialPublish' /\ OneStore'
    BY <1>0, <1>6 DEF ResetSearchSession, NoTask, Cleared, TypeOK,
                      GenerationsInOrder, NoPartialPublish, OneStore
  <2> QED
    BY <1>0, <2>1, StoppedIndInv
<1>7. ASSUME NEW p \in Pids, DropDeadSession(p) PROVE IndInv'
  BY <1>0, <1>7, ClearIndInv DEF DropDeadSession
<1> QED
  BY <1>1, <1>2, <1>3, <1>4, <1>5, <1>6, <1>7 DEF Call

(* A thread that only moves on itself: nothing is asked of it unless it is *)
(* current, and then that it keeps its base and does not leave early.      *)
LEMMA MoveIndInv ==
  ASSUME IndInv, TypeOK', NEW g \in Generations, NEW w,
         workers' = [workers EXCEPT ![g] = w],
         UNCHANGED <<counter, task, session>>,
         Current(g) => /\ w.pc \in {"begin", "scan", "finish", "fail"}
                       /\ w.pc = "finish" => w.todo = {}
                       /\ w.first = workers[g].first
                       /\ w.from = workers[g].from
                       /\ w.found \subseteq Base(workers[g])
                       /\ w.todo \subseteq Base(workers[g])
  PROVE  IndInv'
<1>1. /\ workers'[g] = w
      /\ \A h \in Generations \ {g} : workers'[h] = workers[h]
  BY DEF IndInv, TypeOK
<1>2. \A h \in Generations : Current(h)' <=> Current(h)
  BY DEF Current
<1>3. GenerationsInOrder' /\ RunningIsNotFlagged' /\ NoPartialPublish' /\ OneStore'
  BY DEF IndInv, GenerationsInOrder, RunningIsNotFlagged, Running,
         NoPartialPublish, OneStore
<1>4. RunningHasWorker'
  <2> SUFFICES ASSUME Running PROVE workers'[task.gen].pc \in {"begin", "scan", "finish", "fail"}
    BY DEF RunningHasWorker, Running
  <2>1. CASE task.gen = g
    BY <1>1, <2>1 DEF IndInv, RunningIsNotFlagged, Running, Current
  <2>2. CASE task.gen # g
    <3>1. task.gen \in Generations
      BY DEF IndInv, TypeOK, Tasks, GenerationsInOrder, Running, Generations
    <3> QED
      BY <1>1, <2>2, <3>1 DEF IndInv, RunningHasWorker
  <2> QED
    BY <2>1, <2>2
<1>5. FinishIsComplete'
  BY <1>1, <1>2 DEF IndInv, FinishIsComplete
<1>6. SnapshotNotOvertaken'
  BY <1>1, <1>2 DEF IndInv, SnapshotNotOvertaken
<1>7. FoundInBase'
  <2> SUFFICES ASSUME NEW h \in Generations, Current(h)
               PROVE  /\ workers'[h].found \subseteq Base(workers'[h])
                      /\ workers'[h].todo \subseteq Base(workers'[h])
                      /\ workers'[h].first \/ workers'[h].from.active
    BY <1>2 DEF FoundInBase, Base, Hits
  <2>1. /\ Base(workers'[h]) = Base(workers[h])
        /\ workers'[h].first \/ workers'[h].from.active
    BY <1>1 DEF IndInv, FoundInBase, Base
  <2> QED
    BY <1>1, <2>1 DEF IndInv, FoundInBase
<1> QED
  BY <1>3, <1>4, <1>5, <1>6, <1>7 DEF IndInv

LEMMA WorkerIndInv ==
  ASSUME IndInv, NEW g \in Generations, WorkerStep(g)
  PROVE  IndInv'
<1>0. TypeOK /\ TypeOK'
  BY WorkerTypeOK DEF IndInv
<1> DEFINE v == workers[g]
<1>1. v \in Workers
  BY <1>0 DEF TypeOK
<1>2. Current(g) => v.found \subseteq Base(v) /\ v.todo \subseteq Base(v)
  BY DEF IndInv, FoundInBase
<1>3. CASE BeginFirstScan(g)
  <2> DEFINE w == [v EXCEPT !.pc = IF v.pid \in alive THEN "scan" ELSE "fail"]
  <2>1. workers' = [workers EXCEPT ![g] = w] /\ UNCHANGED <<counter, task, session>>
    BY <1>3 DEF BeginFirstScan
  <2>2. /\ w.pc \in {"scan", "fail"} /\ w.first = v.first /\ w.from = v.from
        /\ w.found = v.found /\ w.todo = v.todo
    BY <1>1 DEF Workers
  <2> HIDE DEF w
  <2> QED
    BY <1>0, <1>2, <2>1, <2>2, MoveIndInv
<1>4. CASE ScanUnit(g)
  <2>1. PICK u, hit :
          /\ u \in v.todo /\ hit \subseteq {u}
          /\ workers' = [workers EXCEPT
                           ![g] = [v EXCEPT !.todo = @ \ {u}, !.found = @ \union hit]]
    BY <1>0, <1>4 DEF ScanUnit, TypeOK
  <2> DEFINE w == [v EXCEPT !.todo = @ \ {u}, !.found = @ \union hit]
  <2>2. /\ w.pc = "scan" /\ w.first = v.first /\ w.from = v.from
        /\ w.found \subseteq v.found \union v.todo /\ w.todo \subseteq v.todo
    BY <1>1, <1>4, <2>1 DEF Workers, ScanUnit
  <2>3. UNCHANGED <<counter, task, session>>
    BY <1>4 DEF ScanUnit
  <2>4. workers' = [workers EXCEPT ![g] = w]
    BY <2>1
  <2> HIDE DEF w
  <2> QED
    BY <1>0, <1>2, <2>2, <2>3, <2>4, MoveIndInv
<1>5. CASE StopOnStaleProgress(g)
  <2>1. PICK w : workers' = [workers EXCEPT ![g] = w]
    BY <1>5 DEF StopOnStaleProgress
  <2>2. ~Current(g) /\ UNCHANGED <<counter, task, session>>
    BY <1>5 DEF StopOnStaleProgress
  <2> QED
    BY <1>0, <2>1, <2>2, MoveIndInv
<1>6. CASE ScanComplete(g)
  <2> DEFINE w == [v EXCEPT !.pc = "finish"]
  <2>1. workers' = [workers EXCEPT ![g] = w] /\ UNCHANGED <<counter, task, session>>
    BY <1>6 DEF ScanComplete
  <2>2. /\ w.pc = "finish" /\ w.first = v.first /\ w.from = v.from
        /\ w.found = v.found /\ w.todo = v.todo /\ w.todo = {}
    BY <1>1, <1>6 DEF Workers, ScanComplete
  <2> HIDE DEF w
  <2> QED
    BY <1>0, <1>2, <2>1, <2>2, MoveIndInv
<1>7. CASE ScanThrows(g)
  <2> DEFINE w == [v EXCEPT !.pc = "fail"]
  <2>1. workers' = [workers EXCEPT ![g] = w] /\ UNCHANGED <<counter, task, session>>
    BY <1>7 DEF ScanThrows
  <2>2. /\ w.pc = "fail" /\ w.first = v.first /\ w.from = v.from
        /\ w.found = v.found /\ w.todo = v.todo
    BY <1>1 DEF Workers
  <2> HIDE DEF w
  <2> QED
    BY <1>0, <1>2, <2>1, <2>2, MoveIndInv
<1>8. CASE FinishTaskSuccess(g)
  <2>1. CASE Current(g)
    <3>1. /\ task'.status = "completed" /\ task'.gen = task.gen
          /\ counter' = counter /\ session' = Published(v)
      BY <1>0, <1>8, <2>1 DEF FinishTaskSuccess, TypeOK, Tasks
    <3>2. v.todo = {}
      BY <1>8, <2>1 DEF FinishTaskSuccess, IndInv, FinishIsComplete
    <3>3. NoPartialPublish' /\ OneStore'
      BY <3>1, <3>2 DEF Published, FirstSession, NextSession, NoPartialPublish, OneStore
    <3>4. GenerationsInOrder'
      BY <2>1, <3>1 DEF IndInv, GenerationsInOrder, Current
    <3> QED
      BY <1>0, <3>1, <3>3, <3>4, StoppedIndInv
  <2>2. CASE ~Current(g)
    BY <1>0, <1>8, <2>2, MoveIndInv DEF FinishTaskSuccess
  <2> QED
    BY <2>1, <2>2
<1>9. CASE FinishTaskFailure(g)
  <2>1. CASE task.gen = g /\ task.status = "running"
    <3>1. /\ task'.status = "failed" /\ task'.gen = task.gen
          /\ counter' = counter /\ session' = session
      BY <1>0, <1>9, <2>1 DEF FinishTaskFailure, TypeOK, Tasks
    <3>2. GenerationsInOrder' /\ NoPartialPublish' /\ OneStore'
      BY <2>1, <3>1 DEF IndInv, GenerationsInOrder, NoPartialPublish, OneStore
    <3> QED
      BY <1>0, <3>1, <3>2, StoppedIndInv
  <2>2. CASE ~(task.gen = g /\ task.status = "running")
    <3>1. ~Current(g)
      BY <2>2 DEF Current
    <3> QED
      BY <1>0, <1>9, <2>2, <3>1, MoveIndInv DEF FinishTaskFailure
  <2> QED
    BY <2>1, <2>2
<1> QED
  BY <1>3, <1>4, <1>5, <1>6, <1>7, <1>8, <1>9 DEF WorkerStep

LEMMA NextIndInv == IndInv /\ [Next]_vars => IndInv'
<1> SUFFICES ASSUME IndInv, [Next]_vars PROVE IndInv'
  OBVIOUS
<1>1. CASE Call
  BY <1>1, CallIndInv
<1>2. ASSUME NEW p \in Pids, ProcessExits(p) PROVE IndInv'
  <2>1. TypeOK'
    BY <1>2 DEF ProcessExits, IndInv, TypeOK
  <2>2. UNCHANGED <<counter, task, session, workers>>
    BY <1>2 DEF ProcessExits
  <2> QED
    BY <2>1, <2>2
       DEF IndInv, GenerationsInOrder, RunningIsNotFlagged, RunningHasWorker,
           FinishIsComplete, NoPartialPublish, OneStore, SnapshotNotOvertaken,
           FoundInBase, Running, Current
<1>3. ASSUME NEW g \in Generations, WorkerStep(g) PROVE IndInv'
  BY <1>3, WorkerIndInv
<1>4. CASE UNCHANGED vars
  BY <1>4
     DEF vars, IndInv, TypeOK, GenerationsInOrder, RunningIsNotFlagged,
         RunningHasWorker, FinishIsComplete, NoPartialPublish, OneStore,
         SnapshotNotOvertaken, FoundInBase, Running, Current
<1> QED
  BY <1>1, <1>2, <1>3, <1>4 DEF Next

LEMMA Invariance == Spec => []IndInv
  BY InitIndInv, NextIndInv, PTL DEF Spec

-------------------------------------------------------------------------------
(* The safety properties.                                                  *)

(* A stopped, superseded or failed scan never becomes the session.         *)
THEOREM OnlyCompleteScansPublish == Spec => []NoPartialPublish
  BY Invariance, PTL DEF IndInv

(* The result count of the session always agrees with the entries listed.  *)
THEOREM CountAgreesWithEntries == Spec => []CountMatchesEntries
<1>1. IndInv => CountMatchesEntries
  BY DEF IndInv, OneStore, CountMatchesEntries, Hits, Entries
<1> QED
  BY <1>1, Invariance, PTL

(* No publication is undone by an older snapshot of the session.           *)
THEOREM SnapshotsStand == Spec => []SnapshotNotOvertaken
  BY Invariance, PTL DEF IndInv

(* A task shown as running has a thread that will finish or fail it.       *)
THEOREM RunningTaskHasThread == Spec => []RunningHasWorker
  BY Invariance, PTL DEF IndInv

(* A session appears only in the step that completes the running task.     *)
THEOREM ThreadsOfOldTasksPublishNothing == Spec => NoLatePublish
<1> DEFINE A == session'.active /\ session' # session
                => /\ Running
                   /\ task'.gen = task.gen
                   /\ task'.status = "completed"
<1>1. IndInv /\ [Next]_vars => A
  <2> SUFFICES ASSUME IndInv, [Next]_vars, session' # session, session'.active
               PROVE  Running /\ task'.gen = task.gen /\ task'.status = "completed"
    OBVIOUS
  <2>1. ~Cleared.active /\ session' # Cleared
    BY DEF Cleared
  <2>2. PICK g \in Generations : FinishTaskSuccess(g)
    BY <2>1 DEF Next, vars, Call, FirstScan, FirstScanRejected, NextScan,
                NextScanTargetGone, CancelSearch, ResetSearchSession,
                DropDeadSession, ProcessExits, WorkerStep, BeginFirstScan,
                ScanUnit, StopOnStaleProgress, ScanComplete, ScanThrows,
                FinishTaskFailure
  <2>3. Current(g) /\ task' = [task EXCEPT !.status = "completed"]
    BY <2>2 DEF FinishTaskSuccess
  <2> QED
    BY <2>3 DEF IndInv, TypeOK, Tasks, Current, Running
<1> HIDE DEF A
<1>2. Spec => [][A]_vars
  BY <1>1, Invariance, PTL DEF Spec
<1> QED
  BY <1>2 DEF NoLatePublish, A

(* A verdict on a task stands until a new task or a reset replaces it.     *)
THEOREM VerdictStands == Spec => VerdictIsFinal
<1> DEFINE A == task.status \in {"cancelled", "completed", "failed"}
                => task' = task \/ task'.gen # task.gen
<1>1. IndInv /\ [Next]_vars => A
  <2> SUFFICES ASSUME IndInv, [Next]_vars, task' # task,
                      task.status \in {"cancelled", "completed", "failed"}
               PROVE  task'.gen # task.gen
    OBVIOUS
  <2>1. ~Running /\ \A g \in Generations : ~Current(g)
    BY DEF Running, Current
  <2>2. task.gen # 0 /\ task.gen \in Nat /\ counter \in Nat /\ task.gen <= counter
    BY DEF IndInv, GenerationsInOrder, TypeOK, Tasks
  <2>3. \/ \E w : StartTask(w)
        \/ task' = NoTask
    BY <2>1 DEF Next, vars, Call, FirstScan, FirstScanRejected, NextScan,
                NextScanTargetGone, CancelSearch, ResetSearchSession,
                DropDeadSession, ProcessExits, WorkerStep, BeginFirstScan,
                ScanUnit, StopOnStaleProgress, ScanComplete, ScanThrows,
                FinishTaskSuccess, FinishTaskFailure, Running
  <2>4. CASE \E w : StartTask(w)
    BY <2>2, <2>4 DEF StartTask
  <2>5. CASE task' = NoTask
    BY <2>2, <2>5 DEF NoTask
  <2> QED
    BY <2>3, <2>4, <2>5
<1> HIDE DEF A
<1>2. Spec => [][A]_vars
  BY <1>1, Invariance, PTL DEF Spec
<1> QED
  BY <1>2 DEF VerdictIsFinal, A

-------------------------------------------------------------------------------
(* The refinement of ScanSlot.                                             *)

held == IF session.active THEN {Hits(session)} ELSE {}

base == IF Running THEN Base(workers[task.gen]) ELSE {}

LEMMA SlotMapping ==
  /\ Slot!Init <=> task.status = "idle" /\ held = {} /\ base = {}
  /\ Slot!Start <=> /\ ~Running
                    /\ task'.status = "running"
                    /\ \/ base' = Units /\ held' \in {held, {}}
                       \/ held # {} /\ base' = UNION held /\ held' = held
  /\ Slot!Complete <=> /\ Running
                       /\ task'.status = "completed"
                       /\ held' \in {{S} : S \in SUBSET base}
                       /\ base' = {}
  /\ Slot!Fail <=> Running /\ task'.status = "failed" /\ base' = {} /\ held' = held
  /\ Slot!Cancel <=> Running /\ task'.status = "cancelled" /\ base' = {} /\ held' = held
  /\ Slot!Reset <=> task'.status = "idle" /\ held' = {} /\ base' = {}
  /\ Slot!Lose <=> held' = {} /\ task'.status = task.status /\ base' = base
  BY DEF Slot!Init, Slot!Start, Slot!Complete, Slot!Fail, Slot!Cancel,
         Slot!Reset, Slot!Lose, held, base, Running, Base

(* A step that leaves the task and the session alone, and keeps the base   *)
(* of the current thread if it is one of a thread, is a stutter.           *)
LEMMA QuietStep ==
  ASSUME IndInv, UNCHANGED <<task, session>>,
         Running => Base(workers'[task.gen]) = Base(workers[task.gen])
  PROVE  UNCHANGED Slot!slotVars
<1>1. held' = held
  BY DEF held, Hits
<1>2. base' = base
  BY DEF base, Running, Base, Hits
<1> QED
  BY <1>1, <1>2 DEF Slot!slotVars, held, base, Running, Base

(* Clearing the session beside a task is the loss of the held session.     *)
LEMMA ClearingStep ==
  ASSUME session' = Cleared, UNCHANGED <<task, workers>>
  PROVE  Slot!Lose
<1>1. held' = {}
  BY DEF held, Cleared
<1>2. base' = base
  BY DEF base, Running, Base, Hits
<1> QED
  BY <1>1, <1>2, SlotMapping

LEMMA CallStep ==
  ASSUME IndInv, Call
  PROVE  [Slot!Next]_(Slot!slotVars)
<1> USE DEF Slot!Next
<1>0. TypeOK
  BY DEF IndInv
<1>1. ASSUME NEW w, StartTask(w)
      PROVE  ~Running /\ task'.status = "running" /\ base' = Base(w)
  <2>1. /\ counter + 1 \in Generations
        /\ task'.gen = counter + 1 /\ task'.status = "running"
    BY <1>0, <1>1, SearchConstants DEF StartTask, TypeOK, Generations
  <2>2. workers'[counter + 1] = w
    BY <1>0, <1>1, <2>1 DEF StartTask, TypeOK
  <2>3. Base(w)' = Base(w)
    BY DEF Base, Hits
  <2>4. base' = Base(w)
    BY <2>1, <2>2 DEF base, Running, Base, Hits
  <2> QED
    BY <1>1, <2>1, <2>4 DEF StartTask
<1>2. ASSUME NEW p \in Pids, NEW m \in Modes, FirstScan(p, m) PROVE Slot!Start
  <2> DEFINE w == [pc |-> "begin", first |-> TRUE, pid |-> p, mode |-> m,
                   from |-> Cleared, todo |-> Units, found |-> {}]
  <2>1. StartTask(w) /\ Base(w) = Units
    BY <1>2 DEF FirstScan, Base
  <2>2. held' = {}
    BY <1>2 DEF FirstScan, held, Cleared
  <2> HIDE DEF w
  <2> QED
    BY <1>1, <2>1, <2>2, SlotMapping
<1>3. ASSUME NEW m \in Modes, NextScan(m) PROVE Slot!Start
  <2> DEFINE w == [pc |-> "scan", first |-> FALSE, pid |-> session.pid, mode |-> m,
                   from |-> session, todo |-> Hits(session), found |-> {}]
  <2>1. StartTask(w) /\ Base(w) = Hits(session)
    BY <1>3 DEF NextScan, Base
  <2>2. held = {Hits(session)} /\ held' = held
    BY <1>3 DEF NextScan, held, Hits
  <2> HIDE DEF w
  <2>3. base' = UNION held
    BY <1>1, <2>1, <2>2
  <2> QED
    BY <1>1, <2>1, <2>2, <2>3, SlotMapping
<1>4. CASE FirstScanRejected
  BY <1>4, ClearingStep DEF FirstScanRejected
<1>5. CASE NextScanTargetGone
  BY <1>5, ClearingStep DEF NextScanTargetGone
<1>6. CASE CancelSearch
  <2>1. Running /\ task'.status = "cancelled"
    BY <1>0, <1>6 DEF CancelSearch, TypeOK, Tasks
  <2>2. held' = held /\ base' = {}
    BY <1>6, <2>1 DEF CancelSearch, held, base, Running, Hits
  <2> QED
    BY <2>1, <2>2, SlotMapping
<1>7. CASE ResetSearchSession
  <2>1. task'.status = "idle" /\ held' = {} /\ base' = {}
    BY <1>7 DEF ResetSearchSession, NoTask, Cleared, held, base, Running
  <2> QED
    BY <2>1, SlotMapping
<1>8. ASSUME NEW p \in Pids, DropDeadSession(p) PROVE Slot!Lose
  BY <1>8, ClearingStep DEF DropDeadSession
<1> QED
  BY <1>2, <1>3, <1>4, <1>5, <1>6, <1>7, <1>8 DEF Call

LEMMA WorkerSlotStep ==
  ASSUME IndInv, NEW g \in Generations, WorkerStep(g)
  PROVE  [Slot!Next]_(Slot!slotVars)
<1> USE DEF Slot!Next
<1> DEFINE v == workers[g]
<1>0. TypeOK /\ v \in Workers /\ workers \in [Generations -> Workers]
  BY DEF IndInv, TypeOK
<1>1. ASSUME NEW w, workers' = [workers EXCEPT ![g] = w], UNCHANGED <<task, session>>,
             Current(g) => w.first = v.first /\ w.from = v.from
      PROVE  UNCHANGED Slot!slotVars
  <2>1. ASSUME Running PROVE Base(workers'[task.gen]) = Base(workers[task.gen])
    <3>1. CASE task.gen = g
      <4>1. Current(g)
        BY <2>1, <3>1 DEF IndInv, RunningIsNotFlagged, Running, Current
      <4>2. workers'[g] = w
        BY <1>0, <1>1
      <4>3. Base(w) = Base(v)
        BY <1>1, <4>1 DEF Base
      <4> QED
        BY <3>1, <4>2, <4>3
    <3>2. CASE task.gen # g
      <4>1. task.gen \in Generations
        BY <1>0, <2>1 DEF IndInv, TypeOK, Tasks, GenerationsInOrder, Running, Generations
      <4> QED
        BY <1>0, <1>1, <3>2, <4>1
    <3> QED
      BY <3>1, <3>2
  <2> QED
    BY <1>1, <2>1, QuietStep
<1>2. CASE BeginFirstScan(g)
  <2> DEFINE w == [v EXCEPT !.pc = IF v.pid \in alive THEN "scan" ELSE "fail"]
  <2>1. workers' = [workers EXCEPT ![g] = w] /\ UNCHANGED <<task, session>>
    BY <1>2 DEF BeginFirstScan
  <2>2. w.first = v.first /\ w.from = v.from
    BY <1>0 DEF Workers
  <2> HIDE DEF w
  <2> QED
    BY <1>1, <2>1, <2>2
<1>3. CASE ScanUnit(g)
  <2>1. PICK u, hit : workers' = [workers EXCEPT
                         ![g] = [v EXCEPT !.todo = @ \ {u}, !.found = @ \union hit]]
    BY <1>0, <1>3 DEF ScanUnit
  <2> DEFINE w == [v EXCEPT !.todo = @ \ {u}, !.found = @ \union hit]
  <2>2. w.first = v.first /\ w.from = v.from
    BY <1>0 DEF Workers
  <2>3. workers' = [workers EXCEPT ![g] = w] /\ UNCHANGED <<task, session>>
    BY <1>3, <2>1 DEF ScanUnit
  <2> HIDE DEF w
  <2> QED
    BY <1>1, <2>2, <2>3
<1>4. CASE StopOnStaleProgress(g)
  BY <1>1, <1>4 DEF StopOnStaleProgress
<1>5. CASE ScanComplete(g)
  <2> DEFINE w == [v EXCEPT !.pc = "finish"]
  <2>1. workers' = [workers EXCEPT ![g] = w] /\ UNCHANGED <<task, session>>
    BY <1>5 DEF ScanComplete
  <2>2. w.first = v.first /\ w.from = v.from
    BY <1>0 DEF Workers
  <2> HIDE DEF w
  <2> QED
    BY <1>1, <2>1, <2>2
<1>6. CASE ScanThrows(g)
  <2> DEFINE w == [v EXCEPT !.pc = "fail"]
  <2>1. workers' = [workers EXCEPT ![g] = w] /\ UNCHANGED <<task, session>>
    BY <1>6 DEF ScanThrows
  <2>2. w.first = v.first /\ w.from = v.from
    BY <1>0 DEF Workers
  <2> HIDE DEF w
  <2> QED
    BY <1>1, <2>1, <2>2
<1>7. CASE FinishTaskSuccess(g)
  <2>1. CASE ~Current(g)
    BY <1>1, <1>7, <2>1 DEF FinishTaskSuccess
  <2>2. CASE Current(g)
    <3>1. /\ Running /\ base = Base(v)
          /\ v.found \subseteq Base(v)
      BY <2>2 DEF IndInv, FoundInBase, Current, Running, base
    <3>2. v.first \/ v.from.active
      BY <2>2 DEF IndInv, FoundInBase
    <3>3. task'.status = "completed" /\ session' = Published(v) /\ base' = {}
      BY <1>0, <1>7, <2>2 DEF FinishTaskSuccess, TypeOK, Tasks, base, Running
    <3>4. Hits(Published(v)) \in SUBSET base
      <4>1. Hits(FirstSession(v)) \subseteq v.found
        BY DEF Hits, FirstSession
      <4>2. Hits(NextSession(v)) \subseteq v.found
        BY DEF Hits, NextSession, NextCandidates
      <4> QED
        BY <3>1, <4>1, <4>2 DEF Published
    <3>5. held' \in {{S} : S \in SUBSET base}
      <4>1. held' = {} \/ held' = {Hits(Published(v))}
        BY <3>3 DEF held, Hits
      <4>2. Published(v).active
        BY <3>2 DEF Published, FirstSession, NextSession
      <4> QED
        BY <3>3, <3>4, <4>2 DEF held, Hits
    <3> QED
      BY <3>1, <3>3, <3>5, SlotMapping
  <2> QED
    BY <2>1, <2>2
<1>8. CASE FinishTaskFailure(g)
  <2>1. CASE task.gen = g /\ task.status = "running"
    <3>1. Running /\ task'.status = "failed" /\ base' = {} /\ held' = held
      BY <1>0, <1>8, <2>1 DEF FinishTaskFailure, TypeOK, Tasks, base, held, Hits, Running
    <3> QED
      BY <3>1, SlotMapping
  <2>2. CASE ~(task.gen = g /\ task.status = "running")
    <3>1. ~Current(g)
      BY <2>2 DEF Current
    <3> QED
      BY <1>1, <1>8, <2>2, <3>1 DEF FinishTaskFailure
  <2> QED
    BY <2>1, <2>2
<1> QED
  BY <1>2, <1>3, <1>4, <1>5, <1>6, <1>7, <1>8 DEF WorkerStep

(* The search task is a scan slot: one scan at a time, a session that only *)
(* a completed scan replaces, and results drawn from what the scan started *)
(* with.                                                                   *)
THEOREM SearchIsScanSlot == Spec => Slot!Safe
<1>1. Init => Slot!Init
  BY SlotMapping DEF Init, NoTask, Cleared, held, base, Running
<1>2. IndInv /\ [Next]_vars => [Slot!Next]_(Slot!slotVars)
  <2> SUFFICES ASSUME IndInv, [Next]_vars PROVE [Slot!Next]_(Slot!slotVars)
    OBVIOUS
  <2>1. CASE Call
    BY <2>1, CallStep
  <2>2. ASSUME NEW p \in Pids, ProcessExits(p) PROVE UNCHANGED Slot!slotVars
    BY <2>2, QuietStep DEF ProcessExits
  <2>3. ASSUME NEW g \in Generations, WorkerStep(g) PROVE [Slot!Next]_(Slot!slotVars)
    BY <2>3, WorkerSlotStep
  <2>4. CASE UNCHANGED vars
    BY <2>4, QuietStep DEF vars
  <2> QED
    BY <2>1, <2>2, <2>3, <2>4 DEF Next
<1> QED
  BY <1>1, <1>2, Invariance, PTL DEF Spec, Slot!Safe
===============================================================================
