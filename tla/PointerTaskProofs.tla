--------------------------- MODULE PointerTaskProofs ---------------------------
(***************************************************************************)
(* Proofs about PointerTask, for every set of processes, regions and       *)
(* addresses, every depth and every bound on the starts.                   *)
(***************************************************************************)
EXTENDS PointerTask, TLAPS

(* The chase with the type of its layers, which TypeOK states one by one.   *)
Chases == [gen: 0..MaxStarts, running: BOOLEAN, depth: 0..MaxDepth,
           layers: Seq(Layers)]

Typed ==
  /\ alive \subseteq Pids
  /\ started \in 0..MaxStarts
  /\ raised \subseteq Starts
  /\ ptr \in [gen: 0..MaxStarts, status: Statuses]
  /\ session \in Sessions
  /\ chase \in Chases
  /\ workers \in [Starts -> Workers]
  /\ chased \in BOOLEAN

(* No thread, flag or slot is ahead of the starts. *)
StartsInOrder ==
  /\ ptr.gen <= started /\ chase.gen <= started
  /\ \A k \in Starts : k > started => workers[k] = NoWorker /\ k \notin raised

(* Which threads pass through which phases. *)
ThreadsHaveKinds ==
  \A k \in Starts :
    /\ workers[k].kind = "none" <=> ~Live(k)
    /\ workers[k].pc = "begin" => workers[k].kind = "scan"
    /\ workers[k].pc \in {"layer", "progress", "depth", "stop", "cancelled"}
         => workers[k].kind = "chase"

(* Whoever takes the slot, or the chase, from a thread raises its flag. *)
UnstoppedHasSlot ==
  \A k \in Starts :
    Live(k) /\ k \notin raised =>
      /\ ptr.gen = k
      /\ workers[k].kind = "chase" => chase.gen = k /\ Running

(* A thread that has given up some regions is too late to be believed: a   *)
(* plain scan is not current any more, a chase has its flag raised.        *)
PartialIsStale ==
  \A k \in Starts :
    /\ workers[k].kind = "scan" /\ workers[k].pc \in {"joined", "result"} /\ Current(k)
         => workers[k].todo = {}
    /\ workers[k].kind = "chase" /\ workers[k].pc = "joined" /\ k \notin raised
         => workers[k].todo = {}
    /\ workers[k].kind = "chase" /\ workers[k].pc = "result"
         => workers[k].todo = {}

Extending == {"layer", "progress", "depth", "scan", "joined", "result"}

(* The thread of the chase stands at the end of the chain it extends. *)
AtTheEnd ==
  \A k \in Starts :
    workers[k].kind = "chase" /\ workers[k].pc \in Extending /\ chase.gen = k =>
      LET n == Len(chase.layers) IN
      /\ workers[k].layer = n /\ n < MaxDepth
      /\ \E a \in Addrs : workers[k].target = {a}
      /\ n > 0 => /\ chase.layers[n].selected = workers[k].target
                  /\ chase.layers[n].stop = ""

(* Before the first call of an auto chase there is none to end. *)
NoChaseBefore == ~chased => chase.gen = 0

IndInv ==
  /\ Typed /\ StartsInOrder /\ ThreadsHaveKinds /\ UnstoppedHasSlot
  /\ PartialIsStale /\ AtTheEnd /\ OnlyCompleteResults /\ LayersFormChain
  /\ NoChaseBefore

-------------------------------------------------------------------------------
(* Types of the values the steps store. *)

LEMMA ConstantTypes ==
  /\ Cleared \in Sessions
  /\ NoWorker \in Workers /\ Finished \in Workers
  /\ NoChase \in Chases
  /\ NoPtr \in [gen: 0..MaxStarts, status: Statuses]
<1> USE PointerConstants
<1>1. Cleared \in Sessions
  BY DEF Cleared, Sessions
<1>2. NoWorker \in Workers /\ Finished \in Workers
  BY DEF NoWorker, Finished, Workers, Phases
<1>3. <<>> \in Seq(Layers)
  OBVIOUS
<1>4. NoChase \in Chases
  BY <1>3 DEF NoChase, Chases
<1>5. NoPtr \in [gen: 0..MaxStarts, status: Statuses]
  BY DEF NoPtr, Statuses
<1> QED
  BY <1>1, <1>2, <1>4, <1>5

LEMMA NoLayers ==
  <<>> \in Seq(Layers) /\ Len(<<>>) = 0 /\ DOMAIN <<>> = {} /\ 1..(Len(<<>>) - 1) = {}
OBVIOUS

LEMMA InitIndInv == Init => IndInv
<1> SUFFICES ASSUME Init PROVE IndInv
  OBVIOUS
<1> USE PointerConstants, ConstantTypes DEF Init
<1>1. Typed
  <2>1. workers \in [Starts -> Workers] /\ started \in 0..MaxStarts
    OBVIOUS
  <2> QED
    BY <2>1 DEF Typed
<1>2. \A k \in Starts : workers[k] = NoWorker
  OBVIOUS
<1>3. /\ chase.gen = 0 /\ chase.depth = 0 /\ chase.layers = <<>>
      /\ ptr.gen = 0 /\ session.missed = {}
  BY DEF NoChase, NoPtr, Cleared
<1>4. StartsInOrder /\ NoChaseBefore
  BY <1>2, <1>3 DEF StartsInOrder, NoChaseBefore, Starts
<1>5. ThreadsHaveKinds /\ UnstoppedHasSlot /\ PartialIsStale /\ AtTheEnd
  BY <1>2 DEF ThreadsHaveKinds, UnstoppedHasSlot, PartialIsStale, AtTheEnd, Live,
              NoWorker
<1>6. OnlyCompleteResults /\ LayersFormChain
  BY <1>3 DEF OnlyCompleteResults, LayersFormChain
<1> QED
  BY <1>1, <1>4, <1>5, <1>6 DEF IndInv

-------------------------------------------------------------------------------
(* Calls that start no thread, and the exit of a process. *)

LEMMA CallIndInv ==
  ASSUME IndInv, chased => chased', chased' \in BOOLEAN,
         \/ CancelPointerScan
         \/ ResetPointerScanSession
         \/ \E p \in Pids : DropDeadSession(p) \/ ProcessExits(p)
  PROVE  IndInv'
<1> USE PointerConstants, ConstantTypes DEF IndInv, Flags
<1>0. /\ UNCHANGED <<started, chase, workers>> /\ raised \subseteq raised'
      /\ raised' \subseteq raised \union (ptr.gen..ptr.gen) /\ raised' \subseteq Starts
  BY DEF CancelPointerScan, ResetPointerScanSession, DropDeadSession, ProcessExits,
         Typed, Starts
<1>1. Typed'
  BY DEF CancelPointerScan, ResetPointerScanSession, DropDeadSession, ProcessExits,
         Typed, Starts, Statuses
<1>2. StartsInOrder'
  BY <1>0 DEF CancelPointerScan, ResetPointerScanSession, DropDeadSession,
              ProcessExits, Typed, StartsInOrder, NoPtr, Starts
<1>3. ThreadsHaveKinds' /\ NoChaseBefore'
  BY <1>0 DEF ThreadsHaveKinds, Live, NoChaseBefore
<1>4. UnstoppedHasSlot'
  BY <1>0 DEF CancelPointerScan, ResetPointerScanSession, DropDeadSession,
              ProcessExits, Typed, UnstoppedHasSlot, Live, Running, Starts
<1>5. PartialIsStale'
  BY <1>0 DEF CancelPointerScan, ResetPointerScanSession, DropDeadSession,
              ProcessExits, Typed, PartialIsStale, Current, Running, NoPtr, Starts
<1>6. AtTheEnd' /\ LayersFormChain'
  BY <1>0 DEF AtTheEnd, LayersFormChain
<1>7. OnlyCompleteResults'
  BY <1>0 DEF CancelPointerScan, ResetPointerScanSession, DropDeadSession,
              ProcessExits, OnlyCompleteResults, Cleared
<1> QED
  BY <1>1, <1>2, <1>3, <1>4, <1>5, <1>6, <1>7

LEMMA ChaseCallIndInv ==
  ASSUME IndInv, chased' = TRUE,
         CancelPointerAutoChase \/ ResetPointerAutoChase
  PROVE  IndInv'
<1> USE PointerConstants, ConstantTypes DEF IndInv, Flags
<1>0. /\ UNCHANGED <<alive, started, session, workers>> /\ ptr'.gen = ptr.gen
      /\ raised \subseteq raised' /\ raised' \subseteq Starts
      /\ raised' = raised \union ({chase.gen} \ {0})
  BY DEF CancelPointerAutoChase, ResetPointerAutoChase, Typed, Starts, Chases
<1>1. Len(chase.layers) \in 0..MaxDepth /\ chase \in Chases
  BY DEF Typed, LayersFormChain, Chases
<1>2. \/ chase' = NoChase
      \/ chase' = [gen |-> chase.gen, running |-> FALSE,
                   depth |-> Len(chase.layers), layers |-> chase.layers]
  BY <1>1 DEF CancelPointerAutoChase, ResetPointerAutoChase, Chases
<1>3. /\ chase' \in Chases
      /\ chase'.gen \in {0, chase.gen}
      /\ chase'.depth = Len(chase'.layers)
      /\ \/ chase'.layers = <<>>
         \/ chase'.layers = chase.layers /\ chase'.gen = chase.gen
  <2>1. CASE chase' = NoChase
    <3>1. NoChase.gen = 0 /\ NoChase.depth = 0 /\ NoChase.layers = <<>>
      BY DEF NoChase
    <3> QED
      BY <2>1, <3>1, NoLayers
  <2>2. CASE chase' = [gen |-> chase.gen, running |-> FALSE,
                       depth |-> Len(chase.layers), layers |-> chase.layers]
    BY <1>1, <2>2 DEF Chases
  <2> QED
    BY <1>2, <2>1, <2>2
<1>4. (chase'.gen = chase.gen /\ chase'.layers = chase.layers) \/ chase'.gen = 0
  BY <1>2 DEF NoChase
<1>5. Typed'
  BY <1>0, <1>3 DEF CancelPointerAutoChase, ResetPointerAutoChase, Typed, Statuses
<1>6. StartsInOrder'
  BY <1>0, <1>1, <1>3 DEF StartsInOrder, Typed, Starts, Chases
<1>7. ThreadsHaveKinds' /\ NoChaseBefore'
  BY <1>0 DEF ThreadsHaveKinds, Live, NoChaseBefore
<1>8. UnstoppedHasSlot'
  BY <1>0, <1>1 DEF UnstoppedHasSlot, Live, Starts, ThreadsHaveKinds, Chases
<1>9. PartialIsStale'
  BY <1>0 DEF CancelPointerAutoChase, ResetPointerAutoChase, PartialIsStale, Current,
              Running, Typed
<1>10. AtTheEnd'
  <2>1. CASE chase'.gen = chase.gen /\ chase'.layers = chase.layers
    BY <1>0, <2>1 DEF AtTheEnd
  <2>2. CASE chase'.gen = 0
    <3>1. \A k \in Starts : k # 0
      BY DEF Starts
    <3> QED
      BY <2>2, <3>1 DEF AtTheEnd
  <2> QED
    BY <1>4, <2>1, <2>2
<1>11. OnlyCompleteResults' /\ LayersFormChain'
  <2>1. CASE chase'.layers = chase.layers
    BY <1>0, <1>3, <2>1 DEF OnlyCompleteResults, LayersFormChain
  <2>2. CASE chase'.layers = <<>>
    BY <1>0, <1>3, <2>2, NoLayers DEF OnlyCompleteResults, LayersFormChain
  <2> QED
    BY <1>3, <2>1, <2>2
<1> QED
  BY <1>5, <1>6, <1>7, <1>8, <1>9, <1>10, <1>11

(* The slot goes to a new thread, and the flag of every other is up. *)
LEMMA StartIndInv ==
  ASSUME IndInv, chased => chased', chased' \in BOOLEAN,
         NEW p \in Pids, NEW t \in Addrs,
         \/ StartPointerScan(p, t)
         \/ StartPointerAutoChase(p, t) /\ chased'
  PROVE  IndInv'
<1> DEFINE n == started + 1
           w == workers'[n]
<1> USE PointerConstants, ConstantTypes DEF IndInv
<1>1. /\ n \in Starts /\ started' = n /\ UNCHANGED <<alive, session>>
      /\ workers[n] = NoWorker /\ n \notin raised
  BY DEF StartPointerScan, StartPointerAutoChase, StartWorker, Typed, Starts,
         StartsInOrder
<1>2. /\ workers' \in [Starts -> Workers]
      /\ \A k \in Starts \ {n} : workers'[k] = workers[k]
      /\ w.layer = 0 /\ w.target = {t} /\ w.todo = {}
      /\ \/ w.kind = "scan" /\ w.pc = "begin" /\ chase' = chase
         \/ /\ w.kind = "chase" /\ w.pc = "layer" /\ chased'
            /\ chase' = [gen |-> n, running |-> TRUE, depth |-> 0, layers |-> <<>>]
  <2>1. ASSUME NEW kind \in {"scan", "chase"}, NEW pc \in {"begin", "layer"},
               StartWorker(kind, p, t, pc)
        PROVE  /\ workers' \in [Starts -> Workers]
               /\ \A k \in Starts \ {n} : workers'[k] = workers[k]
               /\ w.layer = 0 /\ w.target = {t} /\ w.todo = {}
               /\ w.kind = kind /\ w.pc = pc
    <3> DEFINE v == [NoWorker EXCEPT !.kind = kind, !.pid = p, !.pc = pc,
                                     !.target = {t}]
    <3>1. /\ v \in Workers
          /\ v.kind = kind /\ v.pc = pc /\ v.target = {t} /\ v.layer = 0 /\ v.todo = {}
      <4>1. NoWorker \in Workers /\ NoWorker.layer = 0 /\ NoWorker.todo = {}
        BY DEF NoWorker
      <4>2. pc \in Phases /\ {t} \in SUBSET Addrs /\ p \in Pids \union {NoPid}
            /\ kind \in {"none", "scan", "chase"}
        BY DEF Phases
      <4> QED
        BY <4>1, <4>2 DEF Workers
    <3>3. workers' = [workers EXCEPT ![n] = v]
      BY <2>1 DEF StartWorker
    <3> HIDE DEF v
    <3>4. w = v
      BY <1>1, <3>3 DEF Typed
    <3> QED
      BY <1>1, <3>1, <3>3, <3>4 DEF Typed
  <2> QED
    BY <2>1 DEF StartPointerScan, StartPointerAutoChase
<1>3. /\ ptr' = [gen |-> n, status |-> "running"]
      /\ raised' \subseteq Starts /\ n \notin raised'
      /\ raised \subseteq raised' /\ (ptr.gen # 0 => ptr.gen \in raised')
      /\ ptr.gen < n /\ chase.gen < n /\ ptr.gen \in Nat /\ chase.gen \in Nat
      /\ started \in Nat
  <2>1. /\ ptr.gen \in Nat /\ chase.gen \in Nat /\ started \in Nat
        /\ ptr.gen <= started /\ chase.gen <= started /\ raised \subseteq Starts
        /\ ptr.gen <= MaxStarts /\ chase.gen <= MaxStarts
    BY DEF Typed, StartsInOrder, Chases
  <2>2. ptr' = [gen |-> n, status |-> "running"]
    BY DEF StartPointerScan, StartPointerAutoChase
  <2>3. \/ raised' = raised \union ({ptr.gen} \ {0})
        \/ raised' = raised \union ({ptr.gen, chase.gen} \ {0})
    BY DEF StartPointerScan, StartPointerAutoChase, Flags
  <2>4. n > ptr.gen /\ n > chase.gen /\ n # ptr.gen /\ n # chase.gen
    BY <2>1
  <2>5. \A g \in {ptr.gen, chase.gen} \ {0} : g \in Starts
    BY <2>1 DEF Starts
  <2>6. raised' \subseteq Starts /\ n \notin raised'
    BY <1>1, <2>1, <2>3, <2>4, <2>5
  <2>7. raised \subseteq raised' /\ (ptr.gen # 0 => ptr.gen \in raised')
    BY <2>3
  <2> QED
    BY <2>1, <2>2, <2>4, <2>6, <2>7
<1>4. Typed'
  <2>1. chase' \in Chases
    <3>1. 0 \in 0..MaxDepth /\ n \in 0..MaxStarts
      BY <1>1 DEF Starts
    <3>2. [gen |-> n, running |-> TRUE, depth |-> 0, layers |-> <<>>] \in Chases
      BY <3>1, NoLayers DEF Chases
    <3> QED
      BY <1>2, <3>2 DEF Typed
  <2> QED
    BY <1>1, <1>2, <1>3, <2>1 DEF Typed, Statuses, Starts
<1>5. StartsInOrder'
  <2>1. ptr'.gen = n /\ chase'.gen \in {n, chase.gen} /\ n \in Nat
    BY <1>2, <1>3
  <2>2. ASSUME NEW k \in Starts, k > n PROVE workers'[k] = NoWorker /\ k \notin raised'
    <3>1. k > started /\ k # n /\ k # ptr.gen /\ k # chase.gen
      BY <1>3, <2>2 DEF Starts
    <3>2. workers[k] = NoWorker /\ k \notin raised
      BY <3>1 DEF StartsInOrder
    <3>3. raised' \subseteq raised \union {ptr.gen, chase.gen}
      BY DEF StartPointerScan, StartPointerAutoChase, Flags
    <3> QED
      BY <1>2, <3>1, <3>2, <3>3
  <2> QED
    BY <1>1, <1>3, <2>1, <2>2 DEF StartsInOrder
<1>6. ThreadsHaveKinds' /\ NoChaseBefore'
  BY <1>1, <1>2 DEF ThreadsHaveKinds, Live, NoChaseBefore
<1>7. \A k \in Starts : Live(k)' /\ k \notin raised' => k = n
  BY <1>1, <1>2, <1>3 DEF UnstoppedHasSlot, Live, Starts
<1>8. UnstoppedHasSlot'
  BY <1>2, <1>3, <1>7 DEF UnstoppedHasSlot, Running
<1>9. PartialIsStale'
  BY <1>1, <1>2, <1>3, <1>7 DEF PartialIsStale, Current, Running
<1>10. AtTheEnd'
  <2>1. CASE chase' = chase
    <3>1. chase.gen # n
      BY <1>3
    <3> QED
      BY <1>2, <2>1, <3>1 DEF AtTheEnd
  <2>2. CASE chase' = [gen |-> n, running |-> TRUE, depth |-> 0, layers |-> <<>>]
    <3>1. chase'.gen = n /\ chase'.layers = <<>>
      BY <2>2
    <3>2. n \in Starts /\ w.layer = 0 /\ w.target = {t} /\ 0 < MaxDepth
      BY <1>1, <1>2
    <3>3. ASSUME NEW k \in Starts, chase'.gen = k PROVE k = n
      BY <3>1, <3>3
    <3>4. Len(chase'.layers) = 0 /\ t \in Addrs
      BY <3>1, NoLayers
    <3>5. /\ workers'[n].layer = Len(chase'.layers) /\ Len(chase'.layers) < MaxDepth
          /\ \E a \in Addrs : workers'[n].target = {a}
          /\ ~(Len(chase'.layers) > 0)
      BY <3>2, <3>4
    <3> QED
      BY <3>3, <3>5 DEF AtTheEnd
  <2> QED
    BY <1>2, <2>1, <2>2
<1>11. OnlyCompleteResults' /\ LayersFormChain'
  <2>1. CASE chase' = chase
    BY <1>1, <2>1 DEF OnlyCompleteResults, LayersFormChain
  <2>2. CASE chase' = [gen |-> n, running |-> TRUE, depth |-> 0, layers |-> <<>>]
    <3>1. chase'.depth = 0 /\ chase'.layers = <<>>
      BY <2>2
    <3> QED
      BY <1>1, <3>1, NoLayers DEF OnlyCompleteResults, LayersFormChain
  <2> QED
    BY <1>2, <2>1, <2>2
<1> QED
  BY <1>4, <1>5, <1>6, <1>8, <1>9, <1>10, <1>11

-------------------------------------------------------------------------------
(* Steps of a thread. *)

(* What a step that touches nothing but its own thread owes the invariant. *)
Moved(k, w) ==
  LET v == workers[k] IN
  /\ Live(k)
  /\ w.kind = "none" <=> w.pc \in {"none", "done"}
  /\ w.kind \in {"none", v.kind}
  /\ w.pc = "begin" => w.kind = "scan"
  /\ w.pc \in {"layer", "progress", "depth", "stop", "cancelled"} => w.kind = "chase"
  /\ w.kind = "scan" /\ w.pc \in {"joined", "result"} /\ Current(k) => w.todo = {}
  /\ w.kind = "chase" /\ w.pc = "joined" /\ k \notin raised => w.todo = {}
  /\ w.kind = "chase" /\ w.pc = "result" => w.todo = {}
  /\ w.kind = "chase" /\ w.pc \in Extending =>
       v.pc \in Extending /\ w.layer = v.layer /\ w.target = v.target

LEMMA MoveIndInv ==
  ASSUME IndInv, NEW k \in Starts, NEW w \in Workers, Moved(k, w),
         workers' = [workers EXCEPT ![k] = w],
         UNCHANGED <<alive, started, raised, ptr, session, chase, chased>>
  PROVE  IndInv'
<1> USE DEF IndInv
<1>1. workers' \in [Starts -> Workers] /\ workers'[k] = w
      /\ \A j \in Starts \ {k} : workers'[j] = workers[j]
  BY DEF Typed
<1>2. Typed'
  BY <1>1 DEF Typed
<1>3. StartsInOrder'
  BY <1>1 DEF StartsInOrder, Moved, Live, NoWorker
<1>4. ThreadsHaveKinds' /\ NoChaseBefore'
  BY <1>1 DEF ThreadsHaveKinds, Live, Moved, NoChaseBefore
<1>5. UnstoppedHasSlot'
  BY <1>1 DEF UnstoppedHasSlot, Live, Moved, Running
<1>6. PartialIsStale'
  BY <1>1 DEF PartialIsStale, Moved, Current, Running
<1>7. AtTheEnd'
  <2>1. ASSUME NEW j \in Starts, j # k
        PROVE  workers'[j] = workers[j] /\ chase' = chase
    BY <1>1, <2>1
  <2>2. CASE w.kind = "chase" /\ w.pc \in Extending
    <3>1. /\ workers[k].kind = "chase" /\ workers[k].pc \in Extending
          /\ w.layer = workers[k].layer /\ w.target = workers[k].target
      BY <2>2 DEF Moved
    <3> QED
      BY <1>1, <2>1, <3>1 DEF AtTheEnd
  <2>3. CASE ~(w.kind = "chase" /\ w.pc \in Extending)
    BY <1>1, <2>1, <2>3 DEF AtTheEnd
  <2> QED
    BY <2>2, <2>3
<1>8. OnlyCompleteResults' /\ LayersFormChain'
  BY DEF OnlyCompleteResults, LayersFormChain
<1> QED
  BY <1>2, <1>3, <1>4, <1>5, <1>6, <1>7, <1>8

(* A thread ends, perhaps with a word to the slot or the chase it holds.   *)
LEMMA EndIndInv ==
  ASSUME IndInv, NEW k \in Starts, Live(k), Ends(k),
         UNCHANGED <<alive, started, raised, chased>>,
         ptr' = ptr \/ ptr.gen = k \/ chase.gen = k,
         ptr' \in [gen: 0..MaxStarts, status: Statuses], ptr'.gen = ptr.gen,
         ptr' = ptr \/ ptr'.status # "running",
         chase' \in Chases, chase'.gen = chase.gen, chase'.depth = chase.depth,
         chase'.layers = chase.layers,
         session' \in Sessions, session'.missed = {}
  PROVE  IndInv'
<1> USE ConstantTypes DEF IndInv
<1>1. workers' \in [Starts -> Workers] /\ workers'[k] = Finished
      /\ \A j \in Starts \ {k} : workers'[j] = workers[j]
  BY DEF Typed, Ends
<1>2. Finished.kind = "none" /\ Finished.pc = "done" /\ Finished # NoWorker
  BY DEF Finished, NoWorker
<1>3. Running' => Running
  BY DEF Running
<1>5. Typed'
  BY <1>1, <1>3 DEF Typed
<1>6. StartsInOrder'
  BY <1>1, <1>3 DEF StartsInOrder, Live, NoWorker
<1>7. ThreadsHaveKinds' /\ NoChaseBefore'
  BY <1>1, <1>2 DEF ThreadsHaveKinds, Live, NoChaseBefore
<1>8. UnstoppedHasSlot'
  <2> SUFFICES ASSUME NEW j \in Starts, Live(j)', j \notin raised
               PROVE  /\ ptr'.gen = j
                      /\ workers'[j].kind = "chase" => chase'.gen = j /\ Running'
    BY DEF UnstoppedHasSlot
  <2>1. j # k /\ workers'[j] = workers[j] /\ Live(j)
    BY <1>1, <1>2 DEF Live
  <2>2. ptr.gen = j /\ (workers[j].kind = "chase" => chase.gen = j /\ Running)
    BY <2>1 DEF UnstoppedHasSlot
  <2> QED
    BY <1>3, <2>1, <2>2 DEF Running
<1>9. PartialIsStale'
  BY <1>1, <1>2, <1>3 DEF PartialIsStale, Current
<1>10. AtTheEnd'
  <2>1. ASSUME NEW j \in Starts, workers'[j].kind = "chase" PROVE workers'[j] = workers[j]
    BY <1>1, <1>2, <2>1
  <2>2. ASSUME NEW j \in Starts, workers'[j].kind = "chase",
               workers'[j].pc \in Extending, chase'.gen = j
        PROVE  LET n == Len(chase'.layers) IN
               /\ workers'[j].layer = n /\ n < MaxDepth
               /\ \E a \in Addrs : workers'[j].target = {a}
               /\ n > 0 => /\ chase'.layers[n].selected = workers'[j].target
                           /\ chase'.layers[n].stop = ""
    <3>1. workers'[j] = workers[j]
      BY <2>1, <2>2
    <3> QED
      BY <2>2, <3>1 DEF AtTheEnd
  <2> QED
    BY <2>2 DEF AtTheEnd
<1>11. OnlyCompleteResults' /\ LayersFormChain'
  BY DEF OnlyCompleteResults, LayersFormChain
<1> QED
  BY <1>5, <1>6, <1>7, <1>8, <1>9, <1>10, <1>11

LEMMA ScanStepIndInv ==
  ASSUME IndInv, NEW k \in Starts, UNCHANGED chased, ScanStep(k)
  PROVE  IndInv'
<1> DEFINE v == workers[k]
<1> USE ConstantTypes
<1>0. v \in Workers /\ Typed /\ ThreadsHaveKinds /\ PartialIsStale /\ session.missed = {}
      /\ session \in Sessions /\ Finished.kind = "none" /\ Finished.pc = "done"
  BY DEF IndInv, Typed, OnlyCompleteResults, Finished, NoWorker
<1>1. ASSUME Live(k), Ends(k), UNCHANGED <<alive, started, raised, ptr, session, chase>>
      PROVE  IndInv'
  BY <1>0, <1>1, EndIndInv DEF Typed
<1>2. CASE BeginScan(k)
  <2>1. Live(k) /\ v.kind = "scan"
    BY <1>0, <1>2 DEF BeginScan, Live, ThreadsHaveKinds
  <2>2. CASE EntersScan(k)
    <3> DEFINE w == [v EXCEPT !.pc = "scan", !.todo = Units, !.found = {}]
    <3>1. workers' = [workers EXCEPT ![k] = w]
      BY <2>2 DEF EntersScan
    <3>2. w \in Workers /\ w.pc = "scan" /\ w.kind = "scan"
      BY <1>0, <2>1 DEF Workers, Phases
    <3> HIDE DEF w
    <3>3. Moved(k, w)
      BY <2>1, <3>2 DEF Moved
    <3> QED
      BY <1>2, <3>1, <3>2, <3>3, MoveIndInv DEF BeginScan
  <2> QED
    BY <1>1, <1>2, <2>1, <2>2 DEF BeginScan
<1>3. CASE ScanUnit(k)
  <2>1. PICK u \in v.todo, hits \in SUBSET Addrs :
          workers' = [workers EXCEPT ![k].todo = @ \ {u}, ![k].found = @ \union hits]
    <3>1. SUBSET (IF v.pid \in alive THEN Addrs ELSE {}) \subseteq SUBSET Addrs
      OBVIOUS
    <3> QED
      BY <1>3, <3>1 DEF ScanUnit
  <2> DEFINE w == [v EXCEPT !.todo = @ \ {u}, !.found = @ \union hits]
  <2>2. v.pc = "scan" /\ Live(k) /\ v.kind \in {"scan", "chase"}
    BY <1>0, <1>3 DEF ScanUnit, Live, ThreadsHaveKinds, Workers
  <2>3. /\ w \in Workers /\ w.pc = "scan" /\ w.kind = v.kind
        /\ w.layer = v.layer /\ w.target = v.target
    BY <1>0, <2>2 DEF Workers
  <2>4. workers' = [workers EXCEPT ![k] = w]
    BY <2>1
  <2> HIDE DEF w
  <2>5. Moved(k, w)
    BY <2>2, <2>3 DEF Moved, Extending
  <2> QED
    BY <1>3, <2>3, <2>4, <2>5, MoveIndInv DEF ScanUnit
<1>4. CASE JoinScan(k)
  <2> DEFINE w == [v EXCEPT !.pc = "joined"]
  <2>1. v.pc = "scan" /\ Live(k) /\ v.kind \in {"scan", "chase"}
    BY <1>0, <1>4 DEF JoinScan, Live, ThreadsHaveKinds, Workers
  <2>2. workers' = [workers EXCEPT ![k] = w]
    BY <1>4 DEF JoinScan, Moves
  <2>3. /\ w \in Workers /\ w.pc = "joined" /\ w.kind = v.kind
        /\ w.layer = v.layer /\ w.target = v.target /\ w.todo = v.todo
    BY <1>0 DEF Workers, Phases
  <2>4. v.kind = "chase" /\ k \notin raised => Current(k)
    BY <2>1 DEF IndInv, UnstoppedHasSlot, Current
  <2> HIDE DEF w
  <2>5. Moved(k, w)
    BY <1>4, <2>1, <2>3, <2>4 DEF Moved, Extending, JoinScan
  <2> QED
    BY <1>4, <2>2, <2>3, <2>5, MoveIndInv DEF JoinScan
<1>5. CASE TestFlag(k)
  <2>1. v.pc = "joined" /\ Live(k) /\ v.kind \in {"scan", "chase"}
    BY <1>0, <1>5 DEF TestFlag, Live, ThreadsHaveKinds, Workers
  <2>2. ASSUME NEW pc \in {"result", "cancelled"}, Moves(k, pc),
               pc = "result" => k \notin raised, pc = "cancelled" => v.kind = "chase"
        PROVE  IndInv'
    <3> DEFINE w == [v EXCEPT !.pc = pc]
    <3>1. workers' = [workers EXCEPT ![k] = w]
      BY <2>2 DEF Moves
    <3>2. /\ w \in Workers /\ w.pc = pc /\ w.kind = v.kind
          /\ w.layer = v.layer /\ w.target = v.target /\ w.todo = v.todo
      BY <1>0 DEF Workers, Phases
    <3> HIDE DEF w
    <3>3. Moved(k, w)
      BY <1>0, <2>1, <2>2, <3>2 DEF Moved, Extending, PartialIsStale
    <3> QED
      BY <1>5, <3>1, <3>2, <3>3, MoveIndInv DEF TestFlag
  <2> QED
    BY <1>1, <1>5, <2>1, <2>2 DEF TestFlag
<1>6. CASE ScanThrows(k)
  <2> DEFINE w == [v EXCEPT !.pc = "fail"]
  <2>1. workers' = [workers EXCEPT ![k] = w]
    BY <1>6 DEF ScanThrows, Moves
  <2>2. w \in Workers /\ w.pc = "fail" /\ w.kind = v.kind
    BY <1>0 DEF Workers, Phases
  <2>3. Live(k) /\ v.kind \in {"scan", "chase"}
    BY <1>0, <1>6 DEF ScanThrows, Live, ThreadsHaveKinds, Workers
  <2> HIDE DEF w
  <2>4. Moved(k, w)
    BY <2>2, <2>3 DEF Moved, Extending
  <2> QED
    BY <1>6, <2>1, <2>2, <2>4, MoveIndInv DEF ScanThrows
<1>7. CASE FinishPointerTaskSuccess(k)
  <2>1. v.pc = "result" /\ v.kind = "scan" /\ Live(k) /\ Ends(k)
        /\ UNCHANGED <<alive, started, raised, chase>>
    BY <1>7 DEF FinishPointerTaskSuccess, Live
  <2>2. CASE ~Current(k)
    BY <1>1, <1>7, <2>1, <2>2 DEF FinishPointerTaskSuccess
  <2>3. CASE Current(k)
    <3>1. v.todo = {}
      BY <1>0, <2>1, <2>3 DEF PartialIsStale
    <3>2. session' = [active |-> TRUE, pid |-> v.pid, results |-> v.found, missed |-> {}]
      BY <1>7, <2>3, <3>1 DEF FinishPointerTaskSuccess
    <3>3. session' \in Sessions /\ session'.missed = {}
      BY <1>0, <3>2 DEF Sessions, Workers
    <3>4. ptr.gen = k /\ ptr' = [ptr EXCEPT !.status = "completed"]
      BY <1>7, <2>3 DEF FinishPointerTaskSuccess, Current
    <3>5. /\ ptr' \in [gen: 0..MaxStarts, status: Statuses] /\ ptr'.gen = ptr.gen
          /\ ptr'.status = "completed"
      BY <1>0, <3>4 DEF Typed, Statuses
    <3> QED
      BY <1>0, <2>1, <3>3, <3>4, <3>5, EndIndInv DEF Typed
  <2> QED
    BY <2>2, <2>3
<1>8. CASE FinishPointerTaskFailure(k)
  <2>1. v.pc = "fail" /\ Live(k) /\ Ends(k)
        /\ UNCHANGED <<alive, started, raised, session, chase>>
    BY <1>8 DEF FinishPointerTaskFailure, Live
  <2>2. \/ ptr' = ptr
        \/ ptr.gen = k /\ ptr' = [ptr EXCEPT !.status = "failed"]
    BY <1>8 DEF FinishPointerTaskFailure
  <2>3. /\ ptr' \in [gen: 0..MaxStarts, status: Statuses] /\ ptr'.gen = ptr.gen
        /\ ptr' = ptr \/ ptr'.status # "running"
    BY <1>0, <2>2 DEF Typed, Statuses
  <2> QED
    BY <1>0, <2>1, <2>2, <2>3, EndIndInv DEF Typed
<1> QED
  BY <1>2, <1>3, <1>4, <1>5, <1>6, <1>7, <1>8 DEF ScanStep

(* The next layer starts from the best pointer of this one. *)
LEMMA SelectionTypes ==
  ASSUME NEW found \in SUBSET Addrs, NEW selected \in Selections(found)
  PROVE  selected = {} \/ \E a \in Addrs : selected = {a}
BY PointerConstants DEF Selections, BestResults

(* The thread of the chase appends a layer: it links to the one before it,  *)
(* and if it has no stop reason the thread is at the end of the chain again. *)
LEMMA PushIndInv ==
  ASSUME IndInv, NEW k \in Starts, UNCHANGED chased, PushLayer(k), chase.gen = k
  PROVE  IndInv'
<1> DEFINE v == workers[k]
           n == Len(chase.layers)
<1> USE ConstantTypes, PointerConstants
<1>0. /\ v \in Workers /\ chase \in Chases /\ v.pc = "result" /\ v.kind = "chase"
      /\ UNCHANGED <<alive, started, raised, ptr, session>>
      /\ v.todo = {} /\ v.layer = n /\ n < MaxDepth /\ n \in Nat
  <2>1. /\ v \in Workers /\ chase \in Chases /\ v.pc = "result" /\ v.kind = "chase"
        /\ UNCHANGED <<alive, started, raised, ptr, session>>
    BY DEF IndInv, Typed, PushLayer
  <2>2. v.todo = {}
    BY <2>1 DEF IndInv, PartialIsStale
  <2>3. v.layer = n /\ n < MaxDepth
    BY <2>1 DEF IndInv, AtTheEnd, Extending
  <2>4. n \in Nat
    BY <2>1 DEF Chases
  <2> QED
    BY <2>1, <2>2, <2>3, <2>4
<1>1. PICK selected \in Selections(v.found), target \in v.target :
        LET reason == StopReason(selected, v.layer)
        IN /\ chase' = [chase EXCEPT
                          !.layers = Append(@, [target |-> target, selected |-> selected,
                                                stop |-> reason, missed |-> v.todo]),
                          !.depth = n + 1]
           /\ workers' = [workers EXCEPT
                            ![k].pc = IF reason = "" THEN "layer" ELSE "stop",
                            ![k].layer = @ + 1, ![k].target = selected,
                            ![k].todo = {}, ![k].found = {}]
  BY DEF PushLayer
<1> DEFINE reason == StopReason(selected, n)
           layer == [target |-> target, selected |-> selected, stop |-> reason,
                     missed |-> {}]
           w == [v EXCEPT !.pc = IF reason = "" THEN "layer" ELSE "stop",
                          !.layer = n + 1, !.target = selected, !.todo = {}, !.found = {}]
<1>2. reason \in StopReasons /\ (reason = "" => n + 1 < MaxDepth /\ selected # {})
  BY <1>0 DEF StopReason, StopReasons
<1>3. v.target = {target} /\ target \in Addrs
      /\ (n > 0 => chase.layers[n].selected = {target} /\ chase.layers[n].stop = "")
  <2>1. \E a \in Addrs : v.target = {a}
    BY <1>0 DEF IndInv, AtTheEnd, Extending
  <2> QED
    BY <1>0, <2>1 DEF IndInv, AtTheEnd, Extending
<1>4. selected \subseteq Addrs /\ (selected = {} \/ \E a \in Addrs : selected = {a})
  <2>1. v.found \in SUBSET Addrs
    BY <1>0 DEF Workers
  <2> QED
    BY <2>1, SelectionTypes
<1>5. layer \in Layers
  BY <1>2, <1>3, <1>4 DEF Layers
<1>6. workers' = [workers EXCEPT ![k] = w]
  BY <1>0, <1>1
<1>7. /\ w \in Workers /\ w.kind = "chase" /\ w.pc = (IF reason = "" THEN "layer" ELSE "stop")
      /\ w.layer = n + 1 /\ w.target = selected
  <2>1. n + 1 \in 0..MaxDepth /\ selected \in SUBSET Addrs
    BY <1>0, <1>4
  <2>2. (IF reason = "" THEN "layer" ELSE "stop") \in Phases
    BY DEF Phases
  <2> HIDE DEF reason, n
  <2> QED
    BY <1>0, <2>1, <2>2 DEF Workers
<1>8. chase' = [gen |-> k, running |-> chase.running, depth |-> n + 1,
                layers |-> Append(chase.layers, layer)]
  BY <1>0, <1>1 DEF Chases
<1> HIDE DEF reason, layer, w
<1>9. /\ chase.layers \in Seq(Layers) /\ chase'.layers \in Seq(Layers)
      /\ Len(chase'.layers) = n + 1 /\ chase'.layers[n + 1] = layer
      /\ \A i \in 1..n : chase'.layers[i] = chase.layers[i]
  BY <1>0, <1>5, <1>8 DEF Chases
<1>10. layer.target = target /\ layer.selected = selected /\ layer.stop = reason
       /\ layer.missed = {}
  BY DEF layer
<1>11. /\ workers' \in [Starts -> Workers] /\ workers'[k] = w
       /\ \A j \in Starts \ {k} : workers'[j] = workers[j]
  BY <1>6, <1>7 DEF IndInv, Typed
<1>12. chase'.gen = k /\ chase'.depth = n + 1 /\ chase' \in Chases
  BY <1>0, <1>8, <1>9 DEF Chases
<1>13. Typed'
  BY <1>0, <1>11, <1>12 DEF IndInv, Typed
<1>14. StartsInOrder'
  BY <1>0, <1>11, <1>12 DEF IndInv, StartsInOrder, NoWorker
<1>15. ThreadsHaveKinds' /\ NoChaseBefore'
  BY <1>0, <1>7, <1>11, <1>12 DEF IndInv, ThreadsHaveKinds, Live, NoChaseBefore
<1>16. UnstoppedHasSlot'
  <2> SUFFICES ASSUME NEW j \in Starts, Live(j)', j \notin raised
               PROVE  /\ ptr.gen = j
                      /\ workers'[j].kind = "chase" => k = j /\ Running
    BY <1>0, <1>12 DEF UnstoppedHasSlot, Running
  <2>1. Live(j) /\ workers'[j].kind = workers[j].kind
    BY <1>0, <1>7, <1>11 DEF Live
  <2> QED
    BY <2>1 DEF IndInv, UnstoppedHasSlot
<1>17. PartialIsStale'
  BY <1>0, <1>7, <1>11 DEF IndInv, PartialIsStale, Current, Running
<1>18. AtTheEnd'
  <2> SUFFICES ASSUME NEW j \in Starts, workers'[j].kind = "chase",
                      workers'[j].pc \in Extending, chase'.gen = j
               PROVE  /\ workers'[j].layer = n + 1 /\ n + 1 < MaxDepth
                      /\ \E a \in Addrs : workers'[j].target = {a}
                      /\ layer.selected = workers'[j].target
                      /\ layer.stop = ""
    BY <1>0, <1>9 DEF AtTheEnd
  <2>1. j = k /\ workers'[j] = w
    BY <1>11, <1>12
  <2>2. reason = ""
    BY <1>7, <2>1 DEF Extending
  <2> QED
    BY <1>2, <1>4, <1>7, <1>10, <2>1, <2>2
<1>19. OnlyCompleteResults'
  <2>1. \A i \in 1..n : chase.layers[i].missed = {}
    BY <1>0 DEF IndInv, OnlyCompleteResults, Chases
  <2>2. ASSUME NEW i \in 1..(n + 1) PROVE chase'.layers[i].missed = {}
    <3>1. i \in 1..n \/ i = n + 1
      BY <1>0
    <3> QED
      BY <1>9, <1>10, <2>1, <3>1
  <2>3. DOMAIN chase'.layers = 1..(n + 1)
    BY <1>9
  <2> QED
    BY <1>0, <2>2, <2>3 DEF IndInv, OnlyCompleteResults
<1>20. LayersFormChain'
  <2>1. ASSUME NEW i \in 1..n
        PROVE  /\ chase'.layers[i].selected = {chase'.layers[i + 1].target}
               /\ chase'.layers[i].stop = ""
    <3>1. CASE i = n
      <4>1. n > 0 /\ n \in 1..n /\ i + 1 = n + 1
        BY <1>0, <3>1
      <4>2. chase.layers[n].selected = {target} /\ chase.layers[n].stop = ""
        BY <1>3, <4>1
      <4>3. chase'.layers[i] = chase.layers[n] /\ chase'.layers[i + 1] = layer
        BY <1>9, <3>1, <4>1
      <4> QED
        BY <1>10, <4>2, <4>3
    <3>2. CASE i < n
      <4>1. i \in 1..(n - 1) /\ i + 1 \in 1..n
        BY <1>0, <3>2
      <4> QED
        BY <1>9, <4>1 DEF IndInv, LayersFormChain
    <3>3. i = n \/ i < n
      BY <1>0
    <3> QED
      BY <3>1, <3>2, <3>3
  <2>2. 1..(Len(chase'.layers) - 1) = 1..n
    BY <1>0, <1>9
  <2> QED
    BY <1>9, <1>12, <2>1, <2>2 DEF LayersFormChain
<1> QED
  BY <1>13, <1>14, <1>15, <1>16, <1>17, <1>18, <1>19, <1>20 DEF IndInv

LEMMA ChaseStepIndInv ==
  ASSUME IndInv, NEW k \in Starts, UNCHANGED chased, ChaseStep(k)
  PROVE  IndInv'
<1> DEFINE v == workers[k]
<1> USE ConstantTypes
<1>0. v \in Workers /\ Typed /\ ThreadsHaveKinds /\ PartialIsStale /\ session.missed = {}
      /\ session \in Sessions /\ ptr \in [gen: 0..MaxStarts, status: Statuses]
      /\ chase \in Chases
  BY DEF IndInv, Typed, OnlyCompleteResults
<1>1. ASSUME Live(k), Ends(k), UNCHANGED <<alive, started, raised, ptr, session, chase>>
      PROVE  IndInv'
  BY <1>0, <1>1, EndIndInv
<1>2. ASSUME NEW pc \in {"cancelled", "fail", "progress", "depth"}, Moves(k, pc),
             v.pc \in {"layer", "progress"},
             UNCHANGED <<alive, started, raised, ptr, session, chase>>
      PROVE  IndInv'
  <2> DEFINE w == [v EXCEPT !.pc = pc]
  <2>1. Live(k) /\ v.kind = "chase"
    BY <1>0, <1>2 DEF Live, ThreadsHaveKinds
  <2>2. workers' = [workers EXCEPT ![k] = w]
    BY <1>2 DEF Moves
  <2>3. /\ w \in Workers /\ w.pc = pc /\ w.kind = v.kind
        /\ w.layer = v.layer /\ w.target = v.target
    BY <1>0 DEF Workers, Phases
  <2> HIDE DEF w
  <2>4. Moved(k, w)
    BY <1>2, <2>1, <2>3 DEF Moved, Extending
  <2> QED
    BY <1>2, <2>2, <2>3, <2>4, MoveIndInv
<1>3. CASE BeginLayer(k)
  BY <1>2, <1>3 DEF BeginLayer
<1>4. CASE LayerProgress(k)
  <2>1. Live(k)
    BY <1>4 DEF LayerProgress, Live
  <2> QED
    BY <1>1, <1>2, <1>4, <2>1 DEF LayerProgress
<1>5. CASE LayerDepth(k)
  <2>1. v.pc = "depth" /\ Live(k) /\ v.kind = "chase"
    BY <1>0, <1>5 DEF LayerDepth, Live, ThreadsHaveKinds
  <2>2. CASE chase.gen = k
    <3> DEFINE w == [v EXCEPT !.pc = "scan", !.todo = Units, !.found = {}]
    <3>1. workers' = [workers EXCEPT ![k] = w]
      BY <1>5, <2>2 DEF LayerDepth, EntersScan
    <3>2. /\ w \in Workers /\ w.pc = "scan" /\ w.kind = "chase"
          /\ w.layer = v.layer /\ w.target = v.target
      BY <1>0, <2>1 DEF Workers, Phases
    <3> HIDE DEF w
    <3>3. Moved(k, w)
      BY <2>1, <3>2 DEF Moved, Extending
    <3>4. v.layer = chase.depth
      BY <2>1, <2>2 DEF IndInv, AtTheEnd, LayersFormChain, Extending
    <3>5. chase' = chase
      BY <1>0, <1>5, <2>2, <3>4 DEF LayerDepth, Chases
    <3> QED
      BY <1>5, <3>1, <3>2, <3>3, <3>5, MoveIndInv DEF LayerDepth
  <2> QED
    BY <1>1, <1>5, <2>1, <2>2 DEF LayerDepth
<1>6. CASE PushLayer(k)
  <2>1. v.pc = "result" /\ v.kind = "chase" /\ Live(k)
        /\ UNCHANGED <<alive, started, raised, ptr, session>>
    BY <1>6 DEF PushLayer, Live
  <2>2. CASE chase.gen # k
    BY <1>1, <1>6, <2>1, <2>2 DEF PushLayer
  <2>3. CASE chase.gen = k
    BY <1>6, <2>1, <2>3, PushIndInv
  <2> QED
    BY <2>2, <2>3
<1>7. CASE EndChase(k)
  <2>1. Live(k) /\ Ends(k) /\ UNCHANGED <<alive, started, raised, session>>
    BY <1>7 DEF EndChase, Live
  <2>2. CASE chase.gen # k
    BY <1>1, <1>7, <2>1, <2>2 DEF EndChase
  <2>3. CASE chase.gen = k
    <3>1. /\ ptr' \in [gen: 0..MaxStarts, status: Statuses] /\ ptr'.gen = ptr.gen
          /\ ptr'.status # "running"
      BY <1>0, <1>7, <2>3 DEF EndChase, Statuses
    <3>2. /\ chase' \in Chases /\ chase'.gen = chase.gen
          /\ chase'.depth = chase.depth /\ chase'.layers = chase.layers
      BY <1>0, <1>7, <2>3 DEF EndChase, Chases
    <3> QED
      BY <1>0, <2>1, <2>3, <3>1, <3>2, EndIndInv
  <2> QED
    BY <2>2, <2>3
<1> QED
  BY <1>3, <1>4, <1>5, <1>6, <1>7 DEF ChaseStep

-------------------------------------------------------------------------------
(* The specification. *)

LEMMA NextIndInv == IndInv /\ [Next]_vars => IndInv'
<1> SUFFICES ASSUME IndInv, [Next]_vars PROVE IndInv'
  OBVIOUS
<1>0. chased \in BOOLEAN
  BY DEF IndInv, Typed
<1>1. CASE ScanCall
  BY <1>0, <1>1, CallIndInv, StartIndInv DEF ScanCall
<1>2. CASE ChaseCall
  BY <1>0, <1>2, ChaseCallIndInv, StartIndInv DEF ChaseCall
<1>3. ASSUME NEW p \in Pids, ProcessExits(p), UNCHANGED chased PROVE IndInv'
  BY <1>0, <1>3, CallIndInv
<1>4. ASSUME NEW k \in Starts, WorkerStep(k) PROVE IndInv'
  BY <1>4, ScanStepIndInv, ChaseStepIndInv DEF WorkerStep
<1>5. CASE UNCHANGED vars
  BY <1>5 DEF vars, IndInv, Typed, StartsInOrder, ThreadsHaveKinds, UnstoppedHasSlot,
              PartialIsStale, AtTheEnd, OnlyCompleteResults, LayersFormChain,
              NoChaseBefore, Live, Running, Current
<1> QED
  BY <1>1, <1>2, <1>3, <1>4, <1>5 DEF Next

LEMMA Invariance == Spec => []IndInv
BY InitIndInv, NextIndInv, PTL DEF Spec

(* Every variable keeps its type: with any number of starts the slots, the *)
(* session, the layers and the threads stay what the engine declares.      *)
THEOREM TypeCorrect == Spec => []TypeOK
<1>1. IndInv => TypeOK
  <2> SUFFICES ASSUME IndInv PROVE TypeOK
    OBVIOUS
  <2>1. Typed /\ chase.depth = Len(chase.layers)
    BY DEF IndInv, LayersFormChain
  <2>2. /\ chase.gen \in 0..MaxStarts /\ chase.running \in BOOLEAN
        /\ chase.depth \in 0..MaxDepth /\ chase.layers \in Seq(Layers)
    BY <2>1 DEF Typed, Chases
  <2>3. Len(chase.layers) <= MaxDepth
    BY <2>1, <2>2, PointerConstants
  <2>4. \A i \in DOMAIN chase.layers : chase.layers[i] \in Layers
    BY <2>2
  <2> QED
    BY <2>1, <2>2, <2>3, <2>4 DEF Typed, TypeOK
<1> QED
  BY <1>1, Invariance, PTL

(* A stopped scan's partial result never becomes the session or a layer:   *)
(* whoever stops a scan takes its slot or raises its flag before the       *)
(* thread can offer what it has.                                           *)
THEOREM CompleteResultsOnly == Spec => []OnlyCompleteResults
<1>1. IndInv => OnlyCompleteResults
  BY DEF IndInv
<1> QED
  BY <1>1, Invariance, PTL

(* The layers are one chain, whichever threads of whichever chases append  *)
(* them: only the thread of the current chase does, from where it ends.    *)
THEOREM LayersAreOneChain == Spec => []LayersFormChain
<1>1. IndInv => LayersFormChain
  BY DEF IndInv
<1> QED
  BY <1>1, Invariance, PTL

(* At most one thread scans without having been told to stop: a start      *)
(* raises the flags of the slots it takes.                                 *)
THEOREM OneThreadUnstopped == Spec => []OneUnstoppedThread
<1>1. IndInv => OneUnstoppedThread
  BY DEF IndInv, UnstoppedHasSlot, OneUnstoppedThread
<1> QED
  BY <1>1, Invariance, PTL

-------------------------------------------------------------------------------
(* The scan slot. *)

slotStatus == IF chased THEN "idle" ELSE ptr.status
slotHeld == IF session.active /\ ~chased THEN {session.results} ELSE {}
slotBase == IF Running /\ ~chased THEN Addrs ELSE {}

LEMMA SlotMapping ==
  /\ Slot!Init <=> slotStatus = "idle" /\ slotHeld = {} /\ slotBase = {}
  /\ [Slot!Next]_(Slot!slotVars) <=>
       \/ /\ slotStatus # "running" /\ slotStatus' = "running"
          /\ \/ slotBase' = Addrs /\ slotHeld' \in {slotHeld, {}}
             \/ slotHeld # {} /\ slotBase' = UNION slotHeld /\ UNCHANGED slotHeld
       \/ /\ slotStatus = "running" /\ slotStatus' = "completed"
          /\ slotHeld' \in {{S} : S \in SUBSET slotBase} /\ slotBase' = {}
       \/ /\ slotStatus = "running" /\ slotStatus' \in {"failed", "cancelled"}
          /\ slotBase' = {} /\ UNCHANGED slotHeld
       \/ slotStatus' = "idle" /\ slotHeld' = {} /\ slotBase' = {}
       \/ slotHeld' = {} /\ UNCHANGED <<slotStatus, slotBase>>
       \/ UNCHANGED <<slotStatus, slotHeld, slotBase>>
BY DEF Slot!Init, Slot!Next, Slot!Start, Slot!Complete, Slot!Fail, Slot!Cancel,
       Slot!Reset, Slot!Lose, Slot!slotVars, slotStatus, slotHeld, slotBase

LEMMA SlotStep == IndInv /\ [Next]_vars => [Slot!Next]_(Slot!slotVars)
<1> SUFFICES ASSUME IndInv, [Next]_vars PROVE [Slot!Next]_(Slot!slotVars)
  OBVIOUS
<1> USE DEF slotStatus, slotHeld, slotBase
<1>0. ptr \in [gen: 0..MaxStarts, status: Statuses] /\ workers \in [Starts -> Workers]
      /\ chased \in BOOLEAN
  BY DEF IndInv, Typed
<1>1. CASE chased'
  (* From the first call of a chase on, the slot counts as reset. *)
  BY <1>1, SlotMapping
<1>2. ASSUME UNCHANGED chased, UNCHANGED <<ptr, session>>
      PROVE  [Slot!Next]_(Slot!slotVars)
  BY <1>2, SlotMapping DEF Running
<1>3. CASE ~chased' /\ ScanCall
  <2>0. ~chased
    BY <1>3 DEF ScanCall
  <2>1. ASSUME NEW p \in Pids, NEW t \in Addrs, StartPointerScan(p, t)
        PROVE  [Slot!Next]_(Slot!slotVars)
    <3>1. ~Running /\ ptr'.status = "running" /\ session' = session
      BY <2>1 DEF StartPointerScan
    <3> QED
      BY <1>3, <2>0, <3>1, SlotMapping DEF Running
  <2>2. CASE CancelPointerScan
    <3>1. Running /\ ptr'.status = "cancelled" /\ session' = session
      BY <1>0, <2>2 DEF CancelPointerScan
    <3> QED
      BY <1>3, <2>0, <3>1, SlotMapping DEF Running
  <2>3. CASE ResetPointerScanSession
    <3>1. ptr'.status = "idle" /\ ~session'.active
      BY <2>3 DEF ResetPointerScanSession, NoPtr, Cleared
    <3> QED
      BY <1>3, <2>0, <3>1, SlotMapping DEF Running
  <2>4. ASSUME NEW p \in Pids, DropDeadSession(p) PROVE [Slot!Next]_(Slot!slotVars)
    <3>1. ptr' = ptr /\ ~session'.active
      BY <2>4 DEF DropDeadSession, Cleared
    <3> QED
      BY <1>3, <2>0, <3>1, SlotMapping DEF Running
  <2> QED
    BY <1>3, <2>1, <2>2, <2>3, <2>4 DEF ScanCall
<1>4. ASSUME NEW k \in Starts, WorkerStep(k), ~chased'
      PROVE  [Slot!Next]_(Slot!slotVars)
  <2>0. UNCHANGED chased /\ ~chased /\ chase.gen # k
    <3>1. UNCHANGED chased /\ ~chased /\ k # 0
      BY <1>4 DEF WorkerStep, Starts
    <3> QED
      BY <3>1 DEF IndInv, NoChaseBefore
  <2>1. CASE FinishPointerTaskSuccess(k)
    <3>1. CASE Current(k)
      <4>1. Running /\ ptr'.status = "completed" /\ session'.active
            /\ session'.results = workers[k].found
        BY <1>0, <2>1, <3>1 DEF FinishPointerTaskSuccess, Current
      <4>2. workers[k].found \in SUBSET Addrs
        BY <1>0 DEF Workers
      <4> QED
        BY <2>0, <4>1, <4>2, SlotMapping DEF Running
    <3>2. CASE ~Current(k)
      BY <1>2, <2>0, <2>1, <3>2 DEF FinishPointerTaskSuccess
    <3> QED
      BY <3>1, <3>2
  <2>2. CASE FinishPointerTaskFailure(k)
    <3>1. CASE ptr.gen = k /\ Running
      <4>1. ptr'.status = "failed" /\ session' = session
        BY <1>0, <2>2, <3>1 DEF FinishPointerTaskFailure
      <4> QED
        BY <2>0, <3>1, <4>1, SlotMapping DEF Running
    <3>2. CASE ~(ptr.gen = k /\ Running)
      BY <1>2, <2>0, <2>2, <3>2 DEF FinishPointerTaskFailure
    <3> QED
      BY <3>1, <3>2
  <2>3. CASE ChaseStep(k)
    BY <1>2, <2>0, <2>3 DEF ChaseStep, BeginLayer, LayerProgress, LayerDepth, PushLayer,
                            EndChase
  <2>4. CASE BeginScan(k) \/ ScanUnit(k) \/ JoinScan(k) \/ TestFlag(k) \/ ScanThrows(k)
    BY <1>2, <2>0, <2>4 DEF BeginScan, ScanUnit, JoinScan, TestFlag, ScanThrows
  <2> QED
    BY <1>4, <2>1, <2>2, <2>3, <2>4 DEF WorkerStep, ScanStep
<1>5. ASSUME NEW p \in Pids, ProcessExits(p), UNCHANGED chased
      PROVE  [Slot!Next]_(Slot!slotVars)
  BY <1>2, <1>5 DEF ProcessExits
<1>6. CASE UNCHANGED vars
  BY <1>2, <1>6 DEF vars
<1> QED
  BY <1>1, <1>3, <1>4, <1>5, <1>6 DEF Next, ChaseCall

(* Until an auto chase is used the pointer scan is a scan slot: one scan   *)
(* at a time, and a session that only a completed scan replaces.           *)
THEOREM PointerScanIsScanSlot == Spec => Slot!Safe
<1>1. Init => Slot!Init
  BY SlotMapping DEF Init, NoPtr, Cleared, slotStatus, slotHeld, slotBase, Running
<1> QED
  BY <1>1, SlotStep, Invariance, PTL DEF Spec, Slot!Safe
===============================================================================
