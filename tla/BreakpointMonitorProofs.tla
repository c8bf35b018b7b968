------------------------ MODULE BreakpointMonitorProofs ------------------------
(***************************************************************************)
(* Proofs about BreakpointMonitor, for every set of processes, number of   *)
(* breakpoints, size of the ring buffers and capacity of the hits.         *)
(***************************************************************************)
EXTENDS BreakpointMonitor, WellFoundedInduction, TLAPS

Typed ==
  /\ alive \subseteq Pids
  /\ listed \subseteq Ids
  /\ nextId \in 0..MaxIds
  /\ view \in [Ids -> Views]
  /\ monitor \in [Ids -> Monitors]
  /\ call \in Calls

(* A breakpoint that was not added yet has nothing. *)
Fresh == \A b \in Ids : b > nextId => b \notin listed /\ ~Running(b)

(* What a call is about is listed, and shown as the call will leave it; when *)
(* the thread has been joined there is none.                                *)
CallMeans ==
  call # Idle =>
    /\ call.id \in listed
    /\ call.op = "start" => view[call.id].enabled
    /\ call.op = "stop" => ~view[call.id].enabled
    /\ call.pc \in {"stop", "join", "finish"} /\ call.op # "none"
    /\ call.pc = "finish" => ~Running(call.id)

(* A thread that runs while no call is about its breakpoint is meant to. *)
RunsIfMeant ==
  \A b \in Ids :
    Running(b) =>
      /\ b \in listed
      /\ ~Busy(b) => view[b].enabled /\ ~monitor[b].stop

(* A thread records only events it has consumed. *)
Batched ==
  \A b \in Ids : monitor[b].pc \in {"record", "signal"} => monitor[b].batch # 0

IndInv ==
  /\ Typed /\ Fresh /\ CallMeans /\ RunsIfMeant /\ Batched /\ EnabledIsWatched

LEMMA IdleType == Idle \in Calls /\ Idle.pc = "idle"
BY BreakpointConstants DEF Idle, Calls

LEMMA NoMonitorType ==
  /\ NoMonitor \in Monitors /\ NoMonitor.pc = "none" /\ ~NoMonitor.stop
  /\ [NoMonitor EXCEPT !.pc = "check"] \in Monitors
  /\ [NoMonitor EXCEPT !.pc = "check"].pc = "check"
  /\ ~[NoMonitor EXCEPT !.pc = "check"].stop
<1>1. 0 \in 0..MaxQueue
  BY BreakpointConstants
<1>2. NoMonitor \in Monitors /\ NoMonitor.pc = "none" /\ ~NoMonitor.stop
  BY <1>1 DEF NoMonitor, Monitors
<1> QED
  BY <1>2 DEF Monitors

LEMMA NumberFacts ==
  /\ 0 \in 0..MaxIds
  /\ \A n \in 0..MaxIds : n < MaxIds => n + 1 \in Ids /\ n \in Nat /\ n + 1 > n
BY BreakpointConstants DEF Ids

LEMMA InitIndInv == Init => IndInv
<1> SUFFICES ASSUME Init PROVE IndInv
  OBVIOUS
<1> USE IdleType, NoMonitorType, BreakpointConstants DEF Init
<1>1. PICK p \in Pids :
        view = [b \in Ids |-> [pid |-> p, enabled |-> FALSE, pause |-> FALSE, error |-> ""]]
  OBVIOUS
<1>2. \A b \in Ids : view[b] \in Views /\ ~view[b].enabled
  BY <1>1 DEF Views, Errors
<1>3. view \in [Ids -> Views] /\ monitor \in [Ids -> Monitors]
  BY <1>1, <1>2
<1>4. \A b \in Ids : ~Running(b)
  BY DEF Running
<1>5. Typed
  BY <1>3, NumberFacts DEF Typed
<1>6. Batched
  BY DEF Batched
<1> QED
  BY <1>4, <1>5, <1>6 DEF IndInv, Fresh, CallMeans, RunsIfMeant, EnabledIsWatched

-------------------------------------------------------------------------------
(* Calls. *)

LEMMA CallIndInv ==
  ASSUME IndInv, Call
  PROVE  IndInv'
<1> USE IdleType, NoMonitorType, BreakpointConstants
<1>0. Typed /\ Fresh /\ CallMeans /\ RunsIfMeant /\ Batched /\ EnabledIsWatched
      /\ call = Idle /\ \A b \in Ids : ~Busy(b)
  BY DEF IndInv, Call, AddBreakpoint, EnableBreakpoint, DisableBreakpoint,
         RemoveBreakpoint, ClearHits, ResumeAfterBreakpoint, Busy
<1>1. ASSUME NEW op \in {"start", "stop", "remove"}, NEW b \in Ids, Begin(op, b)
      PROVE  /\ call' \in Calls /\ call'.op = op /\ call'.id = b /\ call'.pc = "stop"
             /\ call' # Idle
             /\ Busy(b)' /\ \A d \in Ids : d # b => ~Busy(d)'
  <2>1. call' = [op |-> op, id |-> b, pc |-> "stop"] /\ b \in 0..MaxIds
    BY <1>1 DEF Begin, Ids
  <2>2. call' \in Calls /\ call'.op = op /\ call'.id = b /\ call'.pc = "stop"
    BY <2>1 DEF Calls
  <2> QED
    BY <2>2 DEF Busy
<1>2. ASSUME NEW p \in Pids, NEW enabled \in BOOLEAN, NEW pause \in BOOLEAN,
             AddBreakpoint(p, enabled, pause)
      PROVE  IndInv'
  <2>0. nextId + 1 \in Ids /\ nextId \in Nat /\ nextId + 1 > nextId
    <3>1. nextId \in 0..MaxIds /\ nextId < MaxIds
      BY <1>0, <1>2 DEF AddBreakpoint, Typed
    <3> QED
      BY <3>1, NumberFacts
  <2> PICK b \in Ids : b = nextId + 1
    BY <2>0
  <2> DEFINE v == [pid |-> p, enabled |-> enabled, pause |-> pause, error |-> ""]
  <2>1. b \in Ids /\ nextId' = b /\ listed' = listed \union {b}
        /\ alive' = alive /\ monitor' = monitor /\ ~Running(b) /\ b \notin listed
        /\ nextId \in Nat
    BY <1>0, <1>2, <2>0 DEF AddBreakpoint, Fresh
  <2>2. view' \in [Ids -> Views] /\ view'[b] = v
        /\ \A d \in Ids \ {b} : view'[d] = view[d]
    <3>1. v \in Views
      BY DEF Views, Errors
    <3>2. view' = [view EXCEPT ![b] = v]
      BY <1>2 DEF AddBreakpoint
    <3> HIDE DEF v
    <3> QED
      BY <1>0, <2>1, <3>1, <3>2 DEF Typed
  <2>3. v.enabled = enabled
    OBVIOUS
  <2>4. \A d \in Ids : Running(d)' <=> Running(d)
    BY <2>1 DEF Running
  <2> HIDE DEF v
  <2>5. CASE enabled
    <3>1. Begin("start", b)
      BY <1>2, <2>5 DEF AddBreakpoint
    <3>2. /\ call' \in Calls /\ call'.op = "start" /\ call'.id = b /\ call'.pc = "stop"
          /\ Busy(b)' /\ \A d \in Ids : d # b => ~Busy(d)'
      <4>1. "start" \in {"start", "stop", "remove"}
        OBVIOUS
      <4> QED
        BY <1>1, <2>1, <3>1, <4>1
    <3>3. Typed' /\ Fresh' /\ Batched'
      BY <1>0, <2>1, <2>2, <2>4, <3>2 DEF Typed, Batched, Fresh, Ids
    <3>4. CallMeans'
      BY <2>1, <2>2, <2>3, <2>5, <3>2 DEF CallMeans
    <3>5. RunsIfMeant'
      BY <1>0, <2>1, <2>2, <2>4, <3>2 DEF RunsIfMeant
    <3>6. EnabledIsWatched'
      BY <1>0, <2>1, <2>2, <2>4, <3>2 DEF EnabledIsWatched, Typed
    <3> QED
      BY <3>3, <3>4, <3>5, <3>6 DEF IndInv
  <2>6. CASE ~enabled
    <3>1. call' = Idle /\ \A d \in Ids : ~Busy(d)'
      BY <1>0, <1>2, <2>6 DEF AddBreakpoint, Busy
    <3>2. Typed' /\ Fresh' /\ CallMeans' /\ Batched'
      BY <1>0, <2>1, <2>2, <2>4, <3>1 DEF Typed, Batched, Fresh, CallMeans, Ids
    <3>3. RunsIfMeant' /\ EnabledIsWatched'
      BY <1>0, <2>1, <2>2, <2>3, <2>4, <2>6, <3>1
         DEF RunsIfMeant, EnabledIsWatched, Typed
    <3> QED
      BY <3>2, <3>3 DEF IndInv
  <2> QED
    BY <2>5, <2>6
<1>3. ASSUME NEW b \in listed, NEW op \in {"start", "stop", "remove"}, Begin(op, b),
             UNCHANGED <<alive, listed, nextId, monitor>>,
             view' \in [Ids -> Views], \A d \in Ids \ {b} : view'[d] = view[d],
             op = "start" => view'[b].enabled, op = "stop" => ~view'[b].enabled
      PROVE  IndInv'
  <2>1. /\ call' \in Calls /\ call'.op = op /\ call'.id = b /\ call'.pc = "stop"
        /\ Busy(b)' /\ \A d \in Ids : d # b => ~Busy(d)'
    BY <1>0, <1>1, <1>3 DEF Typed
  <2>2. \A d \in Ids : Running(d)' <=> Running(d)
    BY <1>3 DEF Running
  <2>3. Typed' /\ Fresh' /\ Batched'
    BY <1>0, <1>3, <2>1, <2>2 DEF Typed, Batched, Fresh
  <2>4. CallMeans'
    BY <1>3, <2>1 DEF CallMeans
  <2>5. RunsIfMeant' /\ EnabledIsWatched'
    BY <1>0, <1>3, <2>1, <2>2 DEF RunsIfMeant, EnabledIsWatched, Typed
  <2> QED
    BY <2>3, <2>4, <2>5 DEF IndInv
<1>4. ASSUME NEW b \in Ids, EnableBreakpoint(b) PROVE IndInv'
  <2>1. view' \in [Ids -> Views] /\ view'[b].enabled
        /\ \A d \in Ids \ {b} : view'[d] = view[d]
    BY <1>0, <1>4 DEF EnableBreakpoint, Typed, Views, Errors
  <2> QED
    BY <1>3, <1>4, <2>1 DEF EnableBreakpoint
<1>5. ASSUME NEW b \in Ids, DisableBreakpoint(b) PROVE IndInv'
  <2>1. view' \in [Ids -> Views] /\ ~view'[b].enabled
        /\ \A d \in Ids \ {b} : view'[d] = view[d]
    BY <1>0, <1>5 DEF DisableBreakpoint, Typed, Views
  <2> QED
    BY <1>3, <1>5, <2>1 DEF DisableBreakpoint
<1>6. ASSUME NEW b \in Ids, RemoveBreakpoint(b) PROVE IndInv'
  BY <1>0, <1>3, <1>6 DEF RemoveBreakpoint, Typed
<1>7. ASSUME NEW p \in Pids, ClearHits(p) \/ ResumeAfterBreakpoint(p) PROVE IndInv'
  BY <1>0, <1>7 DEF ClearHits, ResumeAfterBreakpoint, IndInv, Typed, Batched, Fresh, CallMeans,
                    RunsIfMeant, EnabledIsWatched, Running, Busy
<1> QED
  BY <1>2, <1>4, <1>5, <1>6, <1>7 DEF Call

LEMMA CallStepIndInv ==
  ASSUME IndInv, CallStep
  PROVE  IndInv'
<1> USE IdleType, NoMonitorType, BreakpointConstants
<1>a. call # Idle /\ call.id \in Ids
  BY DEF IndInv, CallStep, RequestStop, JoinMonitor, StartMonitor, DisableReturns,
         FinishRemove, CallMeans, Typed
<1> PICK b \in Ids : b = call.id
  BY <1>a
<1>0. /\ Typed /\ Fresh /\ CallMeans /\ RunsIfMeant /\ Batched /\ EnabledIsWatched
      /\ call # Idle /\ b = call.id /\ b \in listed /\ call \in Calls
      /\ UNCHANGED <<alive, nextId, view>>
      /\ Busy(b) /\ \A d \in Ids : d # b => ~Busy(d)
  BY <1>a DEF IndInv, CallStep, RequestStop, JoinMonitor, StartMonitor, DisableReturns,
              FinishRemove, CallMeans, Busy, Typed
<1>1. CASE RequestStop
  <2>1. /\ call' \in Calls /\ call'.op = call.op /\ call'.id = b /\ call'.pc = "join"
        /\ call' # Idle /\ listed' = listed
        /\ Busy(b)' /\ \A d \in Ids : d # b => ~Busy(d)'
    BY <1>0, <1>1 DEF RequestStop, Calls, Busy
  <2>2. monitor' \in [Ids -> Monitors] /\ monitor'[b].pc = monitor[b].pc
        /\ monitor'[b].batch = monitor[b].batch
        /\ \A d \in Ids \ {b} : monitor'[d] = monitor[d]
    <3>1. monitor' = [monitor EXCEPT ![b].stop = TRUE]
      BY <1>0, <1>1 DEF RequestStop
    <3>2. [monitor[b] EXCEPT !.stop = TRUE] \in Monitors
          /\ [monitor[b] EXCEPT !.stop = TRUE].pc = monitor[b].pc
          /\ [monitor[b] EXCEPT !.stop = TRUE].batch = monitor[b].batch
      BY <1>0 DEF Typed, Monitors
    <3> QED
      BY <1>0, <3>1, <3>2 DEF Typed
  <2>3. \A d \in Ids : Running(d)' <=> Running(d)
    <3>1. Running(b)' <=> Running(b)
      BY <2>2 DEF Running
    <3>2. ASSUME NEW d \in Ids \ {b} PROVE Running(d)' <=> Running(d)
      BY <2>2 DEF Running
    <3> QED
      BY <3>1, <3>2
  <2>4. Typed' /\ Fresh'
    BY <1>0, <2>1, <2>2, <2>3 DEF Typed, Fresh
  <2>6. CallMeans'
    <3>1. call'.pc \in {"stop", "join", "finish"} /\ call'.op # "none"
      BY <1>0, <2>1 DEF CallMeans
    <3>2. /\ call.op = "start" => view[b].enabled
          /\ call.op = "stop" => ~view[b].enabled
      BY <1>0 DEF CallMeans
    <3>3. call'.pc = "finish" => ~Running(b)'
      BY <2>1, <2>2
    <3> QED
      BY <1>0, <2>1, <3>1, <3>2, <3>3 DEF CallMeans
  <2>7. Batched'
    BY <1>0, <2>2 DEF Batched, Running
  <2>5. RunsIfMeant' /\ EnabledIsWatched'
    BY <1>0, <2>1, <2>2, <2>3 DEF RunsIfMeant, EnabledIsWatched, Typed
  <2> QED
    BY <2>4, <2>5, <2>6, <2>7 DEF IndInv
<1>2. CASE JoinMonitor
  <2>1. /\ call' \in Calls /\ call'.op = call.op /\ call'.id = b /\ call'.pc = "finish"
        /\ call' # Idle /\ listed' = listed
        /\ Busy(b)' /\ \A d \in Ids : d # b => ~Busy(d)'
    BY <1>0, <1>2 DEF JoinMonitor, Calls, Busy
  <2>2. monitor' \in [Ids -> Monitors] /\ ~Running(b) /\ ~Running(b)'
        /\ \A d \in Ids \ {b} : monitor'[d] = monitor[d]
    BY <1>0, <1>2 DEF JoinMonitor, Typed, Monitors, Running
  <2>3. \A d \in Ids : Running(d)' <=> Running(d)
    <3>1. Running(b)' <=> Running(b)
      BY <2>2 DEF Running
    <3>2. ASSUME NEW d \in Ids \ {b} PROVE Running(d)' <=> Running(d)
      BY <2>2 DEF Running
    <3> QED
      BY <3>1, <3>2
  <2>4. Typed' /\ Fresh'
    BY <1>0, <2>1, <2>2, <2>3 DEF Typed, Fresh
  <2>6. CallMeans'
    <3>1. call'.pc \in {"stop", "join", "finish"} /\ call'.op # "none"
      BY <1>0, <2>1 DEF CallMeans
    <3>2. /\ call.op = "start" => view[b].enabled
          /\ call.op = "stop" => ~view[b].enabled
      BY <1>0 DEF CallMeans
    <3>3. call'.pc = "finish" => ~Running(b)'
      BY <2>1, <2>2
    <3> QED
      BY <1>0, <2>1, <3>1, <3>2, <3>3 DEF CallMeans
  <2>7. Batched'
    BY <1>0, <2>2 DEF Batched, Running
  <2>5. RunsIfMeant' /\ EnabledIsWatched'
    BY <1>0, <2>1, <2>2, <2>3 DEF RunsIfMeant, EnabledIsWatched, Typed
  <2> QED
    BY <2>4, <2>5, <2>6, <2>7 DEF IndInv
<1>3. CASE StartMonitor
  <2>1. call' = Idle /\ listed' = listed /\ \A d \in Ids : ~Busy(d)'
    BY <1>3 DEF StartMonitor, Busy
  <2>2. view[b].enabled
    BY <1>0, <1>3 DEF StartMonitor, CallMeans
  <2>3. monitor' \in [Ids -> Monitors] /\ monitor'[b].pc = "check" /\ ~monitor'[b].stop
        /\ \A d \in Ids \ {b} : monitor'[d] = monitor[d]
    BY <1>0, <1>3 DEF StartMonitor, Typed
  <2>4. Running(b)' /\ \A d \in Ids \ {b} : Running(d)' <=> Running(d)
    <3>1. Running(b)'
      BY <2>3 DEF Running
    <3>2. ASSUME NEW d \in Ids \ {b} PROVE Running(d)' <=> Running(d)
      BY <2>3 DEF Running
    <3> QED
      BY <3>1, <3>2
  <2>5. Typed' /\ Fresh' /\ CallMeans' /\ Batched'
    BY <1>0, <2>1, <2>3, <2>4 DEF Typed, Batched, Fresh, CallMeans
  <2>6. RunsIfMeant' /\ EnabledIsWatched'
    <3>1. b \in listed' /\ view'[b].enabled /\ ~monitor'[b].stop /\ Running(b)'
      BY <1>0, <2>1, <2>2, <2>3, <2>4
    <3>2. ASSUME NEW d \in Ids, d # b
          PROVE  /\ Running(d)' <=> Running(d)
                 /\ monitor'[d] = monitor[d] /\ view'[d] = view[d] /\ ~Busy(d)
      BY <1>0, <2>3, <2>4, <3>2
    <3>3. listed' = listed /\ listed \subseteq Ids
      BY <1>0, <2>1 DEF Typed
    <3>4. RunsIfMeant'
      BY <1>0, <3>1, <3>2, <3>3 DEF RunsIfMeant
    <3>5. EnabledIsWatched'
      BY <1>0, <3>1, <3>2, <3>3 DEF EnabledIsWatched
    <3> QED
      BY <3>4, <3>5
  <2> QED
    BY <2>5, <2>6 DEF IndInv
<1>4. CASE DisableReturns \/ FinishRemove
  <2>1. /\ call' = Idle /\ monitor' = monitor /\ \A d \in Ids : ~Busy(d)'
        /\ ~Running(b)
        /\ \/ listed' = listed /\ ~view[b].enabled
           \/ listed' = listed \ {b}
    BY <1>0, <1>4 DEF DisableReturns, FinishRemove, Busy, CallMeans
  <2>2. \A d \in Ids : Running(d)' <=> Running(d)
    BY <2>1 DEF Running
  <2>3. Typed' /\ Fresh' /\ CallMeans' /\ Batched'
    BY <1>0, <2>1, <2>2 DEF Typed, Batched, Fresh, CallMeans
  <2>4. RunsIfMeant' /\ EnabledIsWatched'
    BY <1>0, <2>1, <2>2 DEF RunsIfMeant, EnabledIsWatched, Typed
  <2> QED
    BY <2>3, <2>4 DEF IndInv
<1> QED
  BY <1>1, <1>2, <1>3, <1>4 DEF CallStep

-------------------------------------------------------------------------------
(* Threads. *)

(* A thread goes on, or ends because it was told to or after an error.     *)
LEMMA ThreadIndInv ==
  ASSUME IndInv, NEW b \in Ids, NEW m \in Monitors, NEW v \in Views,
         monitor' = [monitor EXCEPT ![b] = m], view' = [view EXCEPT ![b] = v],
         UNCHANGED <<alive, listed, nextId, call>>,
         m.stop = monitor[b].stop, v.enabled = view[b].enabled,
         \/ m.pc \notin {"none", "exited"} /\ Running(b)
         \/ m.pc = "exited"
            /\ (monitor[b].stop \/ ~view[b].enabled \/ v.error # "") /\ Running(b)
         \/ m.pc = monitor[b].pc /\ v.error = view[b].error,
         m.pc \in {"record", "signal"} => m.batch # 0
  PROVE  IndInv'
<1>0. /\ Typed /\ Fresh /\ CallMeans /\ RunsIfMeant /\ Batched /\ EnabledIsWatched
      /\ monitor'[b] = m /\ view'[b] = v
      /\ \A d \in Ids \ {b} : monitor'[d] = monitor[d] /\ view'[d] = view[d]
  BY DEF IndInv, Typed
<1>1. /\ \A d \in Ids : Running(d)' => Running(d)
      /\ \A d \in Ids : Busy(d)' <=> Busy(d)
      /\ \A d \in Ids : view'[d].enabled = view[d].enabled
      /\ \A d \in Ids : monitor'[d].stop = monitor[d].stop
  BY <1>0 DEF Running, Busy
<1>2. Typed' /\ Fresh' /\ Batched'
  BY <1>0, <1>1 DEF Typed, Batched, Fresh
<1>3. CallMeans'
  BY <1>0, <1>1 DEF CallMeans, Typed
<1>4. RunsIfMeant'
  BY <1>0, <1>1 DEF RunsIfMeant
<1>5. EnabledIsWatched'
  <2> SUFFICES ASSUME NEW d \in listed, view'[d].enabled, view'[d].error = "", ~Busy(d)
               PROVE  Running(d)' /\ ~monitor'[d].stop
    <3>1. listed \subseteq Ids
      BY <1>0 DEF Typed
    <3> QED
      BY <1>1, <3>1 DEF EnabledIsWatched
  <2>0. d \in Ids /\ view[d].enabled
    BY <1>0, <1>1 DEF Typed
  <2>1. CASE d # b
    BY <1>0, <1>1, <2>0, <2>1 DEF EnabledIsWatched, Running
  <2>2. CASE d = b /\ Running(b)
    <3>1. view[b].enabled /\ ~monitor[b].stop
      BY <1>0, <2>2 DEF RunsIfMeant
    <3> QED
      BY <1>0, <2>2, <3>1 DEF Running
  <2>3. CASE d = b /\ ~Running(b)
    <3>1. m.pc = monitor[b].pc /\ v.error = view[b].error
      BY <2>3
    <3>2. view[b].error = ""
      BY <1>0, <2>3, <3>1
    <3>3. Running(b)
      BY <1>0, <2>0, <2>3, <3>2 DEF EnabledIsWatched
    <3> QED
      BY <2>3, <3>3
  <2> QED
    BY <2>1, <2>2, <2>3
<1> QED
  BY <1>2, <1>3, <1>4, <1>5 DEF IndInv

LEMMA ExitedType ==
  ASSUME NEW m \in Monitors
  PROVE  Exited(m) \in Monitors /\ Exited(m).pc = "exited" /\ Exited(m).stop = m.stop
<1>1. 0 \in 0..MaxQueue
  BY BreakpointConstants
<1> QED
  BY <1>1 DEF Exited, Monitors

LEMMA AfterType ==
  ASSUME NEW m \in Monitors, m.batch # 0, NEW pause \in BOOLEAN
  PROVE  /\ AfterEvent(m) \in Monitors /\ AfterHit(m, pause) \in Monitors
         /\ AfterEvent(m).stop = m.stop /\ AfterHit(m, pause).stop = m.stop
         /\ AfterEvent(m).pc \in {"check", "record"}
         /\ AfterHit(m, pause).pc \in {"check", "record", "signal"}
         /\ AfterEvent(m).pc = "record" => AfterEvent(m).batch # 0
         /\ AfterHit(m, pause).pc \in {"record", "signal"} => AfterHit(m, pause).batch # 0
<1>1. m.batch - 1 \in 0..MaxQueue
  BY BreakpointConstants DEF Monitors
<1>2. /\ AfterEvent(m) \in Monitors /\ AfterEvent(m).stop = m.stop
      /\ AfterEvent(m).pc \in {"check", "record"}
      /\ AfterEvent(m).pc = "record" => AfterEvent(m).batch # 0
  <2>1. /\ AfterEvent(m) \in Monitors /\ AfterEvent(m).stop = m.stop
        /\ AfterEvent(m).pc = (IF m.batch = 1 THEN "check" ELSE "record")
        /\ AfterEvent(m).batch = m.batch - 1
    BY <1>1 DEF AfterEvent, Monitors
  <2>2. m.batch # 1 => m.batch - 1 # 0
    BY DEF Monitors
  <2> QED
    BY <2>1, <2>2
<1>3. [m EXCEPT !.pc = "signal"] \in Monitors
      /\ [m EXCEPT !.pc = "signal"].stop = m.stop
      /\ [m EXCEPT !.pc = "signal"].pc = "signal"
      /\ [m EXCEPT !.pc = "signal"].batch # 0
  BY DEF Monitors
<1>4. AfterHit(m, pause) = IF pause THEN [m EXCEPT !.pc = "signal"] ELSE AfterEvent(m)
  BY DEF AfterHit
<1> QED
  <2> DEFINE a == AfterHit(m, pause)
  <2>1. a = [m EXCEPT !.pc = "signal"] \/ a = AfterEvent(m)
    BY <1>4, Zenon
  <2> HIDE DEF a
  <2>2. /\ a \in Monitors /\ a.stop = m.stop
        /\ a.pc \in {"check", "record", "signal"}
        /\ a.pc \in {"record", "signal"} => a.batch # 0
    <3>1. CASE a = [m EXCEPT !.pc = "signal"]
      BY <1>3, <3>1
    <3>2. CASE a = AfterEvent(m)
      <4>1. a \in Monitors /\ a.stop = m.stop /\ a.pc \in {"check", "record"}
            /\ (a.pc = "record" => a.batch # 0)
        BY <1>2, <3>2, Zenon
      <4> QED
        BY <4>1
    <3> QED
      BY <2>1, <3>1, <3>2
  <2>3. /\ AfterHit(m, pause) \in Monitors /\ AfterHit(m, pause).stop = m.stop
        /\ AfterHit(m, pause).pc \in {"check", "record", "signal"}
        /\ AfterHit(m, pause).pc \in {"record", "signal"} => AfterHit(m, pause).batch # 0
    BY <2>2, Zenon DEF a
  <2> QED
    BY <1>2, <2>3, Zenon

LEMMA MonitorStepIndInv ==
  ASSUME IndInv, NEW b \in Ids,
         MonitorStep(b) \/ MonitorThrows(b) \/ TargetAccess(b)
  PROVE  IndInv'
<1> DEFINE n == monitor[b]
           w == view[b]
<1>0. /\ n \in Monitors /\ w \in Views /\ monitor \in [Ids -> Monitors]
      /\ view \in [Ids -> Views]
      /\ n.pc \in {"record", "signal"} => n.batch # 0
  BY DEF IndInv, Typed, Batched
<1>1. /\ Exited(n) \in Monitors /\ Exited(n).pc = "exited" /\ Exited(n).stop = n.stop
  BY <1>0, ExitedType
<1>2. view = [view EXCEPT ![b] = w]
  BY <1>0
<1>3. ASSUME NEW e \in Errors
      PROVE  [w EXCEPT !.error = e] \in Views /\ [w EXCEPT !.error = e].error = e
             /\ [w EXCEPT !.error = e].enabled = w.enabled
  BY <1>0 DEF Views
<1>4. "target exited" \in Errors /\ "crashed" \in Errors /\ "open failed" \in Errors
      /\ "" \in Errors
  BY DEF Errors
<1>5. CASE MonitorStops(b)
  BY <1>0, <1>1, <1>2, <1>5, ThreadIndInv DEF MonitorStops, Running
<1>6. CASE MonitorFindsTargetGone(b)
  <2> DEFINE v == [w EXCEPT !.error = "target exited"]
  <2>1. v \in Views /\ v.error # "" /\ v.enabled = w.enabled
    BY <1>3, <1>4
  <2>2. view' = [view EXCEPT ![b] = v] /\ monitor' = [monitor EXCEPT ![b] = Exited(n)]
        /\ UNCHANGED <<alive, listed, nextId, call>> /\ Running(b)
    BY <1>6 DEF MonitorFindsTargetGone, Goes, Running
  <2> HIDE DEF v
  <2> QED
    BY <1>1, <2>1, <2>2, ThreadIndInv
<1>7. CASE OpenWatchHandle(b)
  <2>0. UNCHANGED <<alive, listed, nextId, call>> /\ Running(b) /\ n.pc = "check"
    BY <1>7 DEF OpenWatchHandle, Goes, Running
  <2>1. CASE /\ monitor' = [monitor EXCEPT ![b].watching = TRUE, ![b].pc = "poll"]
             /\ view' = [view EXCEPT ![b].error = ""]
    <3> DEFINE m == [n EXCEPT !.watching = TRUE, !.pc = "poll"]
               v == [w EXCEPT !.error = ""]
    <3>1. m \in Monitors /\ m.pc = "poll" /\ m.stop = n.stop
      BY <1>0 DEF Monitors
    <3>2. v \in Views /\ v.enabled = w.enabled
      BY <1>3, <1>4
    <3>3. monitor' = [monitor EXCEPT ![b] = m] /\ view' = [view EXCEPT ![b] = v]
      BY <2>1
    <3> HIDE DEF m, v
    <3> QED
      BY <2>0, <3>1, <3>2, <3>3, ThreadIndInv
  <2>2. CASE view' = [view EXCEPT ![b].error = "open failed"] /\ UNCHANGED monitor
    <3> DEFINE v == [w EXCEPT !.error = "open failed"]
    <3>1. v \in Views /\ v.enabled = w.enabled
      BY <1>3, <1>4
    <3>2. monitor' = [monitor EXCEPT ![b] = n] /\ view' = [view EXCEPT ![b] = v]
      BY <1>0, <2>2
    <3> HIDE DEF v
    <3> QED
      BY <1>0, <2>0, <3>1, <3>2, ThreadIndInv
  <2> QED
    BY <1>7, <2>1, <2>2 DEF OpenWatchHandle
<1>8. ASSUME NEW m \in Monitors, monitor' = [monitor EXCEPT ![b] = m], UNCHANGED view,
             UNCHANGED <<alive, listed, nextId, call>>, m.stop = n.stop,
             \/ m.pc \notin {"none", "exited"} /\ Running(b)
             \/ m.pc = n.pc,
             m.pc \in {"record", "signal"} => m.batch # 0
      PROVE  IndInv'
  BY <1>0, <1>2, <1>8, ThreadIndInv
<1>9. CASE KeepWatching(b)
  <2> DEFINE m == [n EXCEPT !.pc = "poll"]
  <2>1. m \in Monitors /\ m.pc = "poll" /\ m.stop = n.stop
    BY <1>0 DEF Monitors
  <2>2. monitor' = [monitor EXCEPT ![b] = m] /\ Running(b)
    BY <1>9 DEF KeepWatching, Goes, Running
  <2> HIDE DEF m
  <2> QED
    BY <1>8, <1>9, <2>1, <2>2 DEF KeepWatching
<1>10. CASE PollEvents(b)
  <2> DEFINE m == [n EXCEPT !.batch = n.queue, !.queue = 0,
                            !.pc = IF n.queue = 0 THEN "check" ELSE "record"]
  <2>1. 0 \in 0..MaxQueue
    BY BreakpointConstants
  <2>2. /\ m \in Monitors /\ m.stop = n.stop /\ m.batch = n.queue
        /\ m.pc = (IF n.queue = 0 THEN "check" ELSE "record")
    BY <1>0, <2>1 DEF Monitors
  <2>3. monitor' = [monitor EXCEPT ![b] = m] /\ Running(b)
    BY <1>10 DEF PollEvents, Running
  <2> HIDE DEF m
  <2> QED
    BY <1>8, <1>10, <2>2, <2>3 DEF PollEvents
<1>11. CASE RecordHit(b)
  <2> DEFINE m == AfterHit(n, w.pause)
  <2>1. n.batch # 0 /\ w.pause \in BOOLEAN /\ Running(b)
    BY <1>0, <1>11 DEF RecordHit, Views, Running
  <2>2. /\ m \in Monitors /\ m.stop = n.stop
        /\ m.pc \in {"check", "record", "signal"}
        /\ m.pc \in {"record", "signal"} => m.batch # 0
    BY <1>0, <2>1, AfterType
  <2>3. monitor' = [monitor EXCEPT ![b] = m]
    BY <1>11 DEF RecordHit
  <2> HIDE DEF m
  <2> QED
    BY <1>8, <1>11, <2>1, <2>2, <2>3 DEF RecordHit
<1>12. CASE PauseTarget(b)
  <2> DEFINE m == AfterEvent(n)
  <2>1. n.batch # 0 /\ Running(b)
    BY <1>0, <1>12 DEF PauseTarget, Running
  <2>2. /\ m \in Monitors /\ m.stop = n.stop /\ m.pc \in {"check", "record"}
        /\ m.pc \in {"record", "signal"} => m.batch # 0
    BY <1>0, <2>1, AfterType
  <2>3. monitor' = [monitor EXCEPT ![b] = m]
    BY <1>12 DEF PauseTarget
  <2> HIDE DEF m
  <2> QED
    BY <1>8, <1>12, <2>1, <2>2, <2>3 DEF PauseTarget
<1>13. CASE MonitorThrows(b)
  <2> DEFINE v == [w EXCEPT !.error = "crashed"]
  <2>1. v \in Views /\ v.error # "" /\ v.enabled = w.enabled
    BY <1>3, <1>4
  <2>2. view' = [view EXCEPT ![b] = v] /\ monitor' = [monitor EXCEPT ![b] = Exited(n)]
        /\ UNCHANGED <<alive, listed, nextId, call>> /\ Running(b)
    BY <1>13 DEF MonitorThrows, Running
  <2> HIDE DEF v
  <2> QED
    BY <1>1, <2>1, <2>2, ThreadIndInv
<1>14. CASE TargetAccess(b)
  <2> DEFINE m == [n EXCEPT !.queue = @ + 1]
  <2>1. n.queue + 1 \in 0..MaxQueue
    BY <1>0, <1>14, BreakpointConstants DEF TargetAccess, Monitors
  <2>2. m \in Monitors /\ m.stop = n.stop /\ m.pc = n.pc /\ m.batch = n.batch
    BY <1>0, <2>1 DEF Monitors
  <2>3. monitor' = [monitor EXCEPT ![b] = m]
    BY <1>14 DEF TargetAccess
  <2> HIDE DEF m
  <2> QED
    BY <1>0, <1>8, <1>14, <2>2, <2>3 DEF TargetAccess
<1> QED
  BY <1>5, <1>6, <1>7, <1>9, <1>10, <1>11, <1>12, <1>13, <1>14 DEF MonitorStep

-------------------------------------------------------------------------------
(* The specification. *)

LEMMA NextIndInv == IndInv /\ [Next]_vars => IndInv'
<1> SUFFICES ASSUME IndInv, [Next]_vars PROVE IndInv'
  OBVIOUS
<1>1. ASSUME NEW p \in Pids, ProcessExits(p) PROVE IndInv'
  BY <1>1 DEF ProcessExits, IndInv, Typed, Batched, Fresh, CallMeans, RunsIfMeant,
              EnabledIsWatched, Running, Busy
<1>2. CASE UNCHANGED vars
  BY <1>2 DEF vars, IndInv, Typed, Batched, Fresh, CallMeans, RunsIfMeant,
              EnabledIsWatched, Running, Busy
<1> QED
  BY <1>1, <1>2, CallIndInv, CallStepIndInv, MonitorStepIndInv DEF Next

LEMMA Invariance == Spec => []IndInv
BY InitIndInv, NextIndInv, PTL DEF Spec

(* A breakpoint that is shown as enabled and without an error has a thread *)
(* that watches and was not told to stop, in every order of calls, events  *)
(* and exits.                                                              *)
THEOREM EnabledBreakpointsAreWatched == Spec => []EnabledIsWatched
<1>1. IndInv => EnabledIsWatched
  BY DEF IndInv
<1> QED
  BY <1>1, Invariance, PTL

-------------------------------------------------------------------------------
(* The list of hits. *)

(* Induction on the numbers up to n. *)
LEMMA UpTo ==
  ASSUME NEW n \in Nat, NEW S, 0 \in S, \A i \in 0 .. n : i # 0 /\ i - 1 \in S => i \in S
  PROVE  0 .. n \subseteq S
<1> DEFINE R == {ss \in Nat \X Nat : ss[1] < ss[2]}
           T == {i \in 0 .. n : i \notin S}
<1> SUFFICES ASSUME T # {} PROVE FALSE
  OBVIOUS
<1>1. T \subseteq Nat
  OBVIOUS
<1>2. IsWellFoundedOn(R, Nat)
  BY NatLessThanWellFounded DEF OpToRel
<1>3. PICK m \in T : \A y \in T : ~ (<<y, m>> \in R)
  <2> HIDE DEF R, T
  <2> QED
    BY <1>1, <1>2, WFMin
<1>4. m # 0 /\ m \in 0 .. n /\ m - 1 \in 0 .. n /\ m - 1 < m
  OBVIOUS
<1>5. <<m - 1, m>> \in R
  <2>1. m \in Nat /\ m - 1 \in Nat
    BY <1>4
  <2> QED
    BY <1>4, <2>1
<1>6. m - 1 \in S
  <2> HIDE DEF R
  <2> QED
    BY <1>3, <1>4, <1>5
<1>7. m \notin S
  BY <1>3
<1> QED
  BY <1>4, <1>6, <1>7

(* What Without computes up to place n. *)
Keeps(g, s, B, n) ==
  g = [i \in 0 .. n |-> IF i = 0 THEN <<>>
                         ELSE IF s[i] \in B THEN g[i - 1]
                         ELSE Append(g[i - 1], s[i])]

LEMMA WithoutStep ==
  ASSUME NEW S, NEW s \in Seq(S), NEW B
  PROVE  \E kept : Without(s, B) = kept[Len(s)] /\ Keeps(kept, s, B, Len(s))
<1> DEFINE Sat(g, n) == Keeps(g, s, B, n)
           N == Len(s)
           T == {n \in 0 .. N : \E g : Sat(g, n)}
<1>1. N \in Nat
  OBVIOUS
<1>2. 0 \in T
  <2> DEFINE g == [i \in 0 .. 0 |-> <<>>]
  <2>1. Sat(g, 0)
    BY DEF Keeps
  <2>2. 0 \in 0 .. N
    BY <1>1
  <2> HIDE DEF Sat, g, N
  <2> QED
    BY <2>1, <2>2
<1>3. ASSUME NEW n \in 0 .. N, n # 0, n - 1 \in T PROVE n \in T
  <2>1. PICK g : Sat(g, n - 1)
    BY <1>3
  <2> DEFINE e == IF s[n] \in B THEN g[n - 1] ELSE Append(g[n - 1], s[n])
             h == [i \in 0 .. n |-> IF i = n THEN e ELSE g[i]]
  <2>2. \A i \in 0 .. n : i # 0 => i - 1 \in 0 .. n - 1 /\ h[i - 1] = g[i - 1]
    OBVIOUS
  <2>3. \A i \in 0 .. n - 1 : g[i] = IF i = 0 THEN <<>> ELSE IF s[i] \in B THEN g[i - 1]
                                              ELSE Append(g[i - 1], s[i])
    BY <2>1 DEF Keeps
  <2>4. \A i \in 0 .. n : h[i] = IF i = 0 THEN <<>> ELSE IF s[i] \in B THEN h[i - 1]
                                              ELSE Append(h[i - 1], s[i])
    <3>1. TAKE i \in 0 .. n
    <3>2. CASE i = n
      BY <1>3, <2>2, <3>2
    <3>3. CASE i # n
      <4>1. i \in 0 .. n - 1
        BY <3>3
      <4> QED
        BY <2>2, <2>3, <3>3, <4>1
    <3> QED
      BY <3>2, <3>3
  <2>5. Sat(h, n)
    <3>1. h = [i \in 0 .. n |-> h[i]]
      OBVIOUS
    <3> HIDE DEF h
    <3> QED
      BY <2>4, <3>1 DEF Keeps
  <2> HIDE DEF Sat, h, N
  <2> QED
    BY <2>5
<1>4. \E g : Sat(g, N)
  <2> HIDE DEF T
  <2>1. 0 .. N \subseteq T
    <3> HIDE DEF N
    <3> QED
      BY <1>1, <1>2, <1>3, UpTo
  <2> QED
    BY <1>1, <2>1 DEF T
<1>5. Sat(CHOOSE g : Sat(g, N), N)
  <2> HIDE DEF Sat
  <2> QED
    BY <1>4
<1>6. Without(s, B) = (CHOOSE g : Sat(g, N))[N]
  BY DEF Without, Keeps
<1> QED
  BY <1>5, <1>6

(* What is kept was there, and nothing in B is kept. *)
LEMMA WithoutKeeps ==
  ASSUME NEW S, NEW s \in Seq(S), NEW B
  PROVE  /\ Without(s, B) \in Seq(S)
         /\ Len(Without(s, B)) <= Len(s)
         /\ \A i \in DOMAIN Without(s, B) :
               Without(s, B)[i] \notin B /\ \E j \in DOMAIN s : Without(s, B)[i] = s[j]
<1>1. PICK kept : /\ Without(s, B) = kept[Len(s)]
                  /\ Keeps(kept, s, B, Len(s))
  BY WithoutStep
<1> DEFINE Kept == {x \in S : x \notin B /\ \E j \in DOMAIN s : x = s[j]}
           T == {n \in 0 .. Len(s) : kept[n] \in Seq(Kept) /\ Len(kept[n]) <= n}
<1>2. Len(s) \in Nat
  OBVIOUS
<1>3. \A n \in 0 .. Len(s) : kept[n] = IF n = 0 THEN <<>> ELSE IF s[n] \in B THEN kept[n - 1]
                                              ELSE Append(kept[n - 1], s[n])
  BY <1>1 DEF Keeps
<1>4. 0 \in T
  <2>1. <<>> \in Seq(Kept) /\ Len(<<>>) <= 0
    OBVIOUS
  <2> QED
    <3>1. 0 \in 0 .. Len(s) /\ kept[0] = <<>>
      BY <1>2, <1>3
    <3> HIDE DEF Kept
    <3> QED
      BY <2>1, <3>1
<1>5. ASSUME NEW n \in 0 .. Len(s), n # 0, n - 1 \in T PROVE n \in T
  <2>1. n \in DOMAIN s /\ s[n] \in S
    BY <1>5
  <2>2. CASE s[n] \in B
    BY <1>3, <1>5, <2>2
  <2>3. CASE s[n] \notin B
    <3>1. s[n] \in Kept
      BY <2>1, <2>3
    <3> HIDE DEF Kept
    <3> QED
      <4>1. kept[n] = Append(kept[n - 1], s[n]) /\ kept[n - 1] \in Seq(Kept)
            /\ Len(kept[n - 1]) <= n - 1 /\ n \in Nat
        <5>1. n \in Nat
          BY <1>2
        <5>2. kept[n] = Append(kept[n - 1], s[n])
          BY <1>3, <1>5, <2>3
        <5> QED
          BY <1>5, <5>1, <5>2
      <4>2. Append(kept[n - 1], s[n]) \in Seq(Kept)
            /\ Len(Append(kept[n - 1], s[n])) = Len(kept[n - 1]) + 1
        BY <3>1, <4>1
      <4>3. Len(kept[n - 1]) \in Nat
        BY <4>1
      <4> QED
        <5>1. Len(kept[n - 1]) + 1 <= n
          BY <4>1, <4>3
        <5>2. kept[n] \in Seq(Kept) /\ Len(kept[n]) = Len(kept[n - 1]) + 1
          BY <4>1, <4>2
        <5>3. Len(kept[n]) <= n
          BY <5>1, <5>2
        <5> QED
          BY <5>2, <5>3
  <2> QED
    BY <2>2, <2>3
<1>6. Len(s) \in T
  <2> HIDE DEF T
  <2>1. 0 .. Len(s) \subseteq T
    BY <1>2, <1>4, <1>5, UpTo
  <2> QED
    BY <1>2, <2>1
<1>7. Kept \subseteq S /\ \A x \in Kept : x \notin B /\ \E j \in DOMAIN s : x = s[j]
  OBVIOUS
<1> HIDE DEF Kept
<1> QED
  BY <1>1, <1>6, <1>7

(* The hits are of breakpoints that are listed: a thread that records one runs *)
(* for a breakpoint that is.                                                 *)
HitsListed == \A i \in DOMAIN hits : hits[i] \in listed

HitsTyped == hits \in Seq(Ids) /\ Len(hits) <= MaxHits

HitsInv == IndInv /\ stopped \subseteq Pids /\ HitsTyped /\ HitsListed

LEMMA HitsKept ==
  ASSUME HitsTyped, HitsListed, hits' = hits, listed \subseteq listed'
  PROVE  HitsTyped' /\ HitsListed'
BY DEF HitsTyped, HitsListed

LEMMA HitsFiltered ==
  ASSUME HitsTyped, HitsListed, NEW B, hits' = Without(hits, B), listed \ B \subseteq listed'
  PROVE  HitsTyped' /\ HitsListed'
<1>1. hits \in Seq(Ids) /\ Len(hits) <= MaxHits /\ \A i \in DOMAIN hits : hits[i] \in listed
  BY DEF HitsTyped, HitsListed
<1>2. /\ hits' \in Seq(Ids) /\ Len(hits') <= Len(hits)
      /\ \A i \in DOMAIN hits' : hits'[i] \notin B /\ \E j \in DOMAIN hits : hits'[i] = hits[j]
  BY <1>1, WithoutKeeps
<1>3. Len(hits') <= MaxHits
  BY <1>1, <1>2, BreakpointConstants
<1> QED
  BY <1>1, <1>2, <1>3 DEF HitsTyped, HitsListed

LEMMA HitsAppended ==
  ASSUME HitsTyped, HitsListed, NEW b \in listed, listed \subseteq Ids,
         hits' = Newest(Append(hits, b)), listed' = listed
  PROVE  HitsTyped' /\ HitsListed'
<1> DEFINE s == Append(hits, b)
<1>1. /\ s \in Seq(Ids) /\ Len(s) \in Nat /\ Len(s) <= MaxHits + 1 /\ s # <<>>
      /\ \A i \in DOMAIN s : s[i] \in listed
  BY BreakpointConstants DEF HitsTyped, HitsListed
<1> HIDE DEF s
<1>2. /\ Tail(s) \in Seq(Ids) /\ Len(Tail(s)) = Len(s) - 1
      /\ \A i \in DOMAIN Tail(s) : Tail(s)[i] \in listed
  BY <1>1
<1>3. hits' = Newest(s)
  BY DEF s
<1>4. CASE hits' = Tail(s)
  <2>1. Len(Tail(s)) <= MaxHits
    BY <1>1, <1>2, BreakpointConstants
  <2> QED
    BY <1>2, <1>4, <2>1 DEF HitsTyped, HitsListed
<1>5. CASE hits' = s /\ Len(s) <= MaxHits
  BY <1>1, <1>5 DEF HitsTyped, HitsListed
<1>6. ~(Len(s) > MaxHits) => Len(s) <= MaxHits
  <2>1. Len(s) \in Nat /\ MaxHits \in Nat
    BY <1>1, BreakpointConstants
  <2> QED
    BY <2>1
<1>7. hits' = Tail(s) \/ (hits' = s /\ Len(s) <= MaxHits)
  BY <1>3, <1>6 DEF Newest
<1> QED
  BY <1>4, <1>5, <1>7

LEMMA HitsInit == Init => HitsInv
<1> SUFFICES ASSUME Init PROVE HitsInv
  OBVIOUS
<1>1. hits = <<>> /\ stopped = {}
  BY DEF Init
<1>2. hits \in Seq(Ids) /\ Len(hits) = 0 /\ \A i \in DOMAIN hits : FALSE
  BY <1>1
<1>3. Len(hits) <= MaxHits
  BY <1>2, BreakpointConstants
<1> QED
  BY <1>1, <1>2, <1>3, InitIndInv DEF HitsInv, HitsTyped, HitsListed

LEMMA HitsNext == HitsInv /\ [Next]_vars => HitsInv'
<1> SUFFICES ASSUME HitsInv, [Next]_vars PROVE HitsInv'
  OBVIOUS
<1>0. /\ IndInv /\ IndInv' /\ stopped \subseteq Pids /\ HitsTyped /\ HitsListed
      /\ listed \subseteq Ids /\ view \in [Ids -> Views]
  BY NextIndInv DEF HitsInv, IndInv, Typed
<1>1. ASSUME NEW p \in Pids, NEW enabled, NEW pause, AddBreakpoint(p, enabled, pause)
      PROVE  HitsInv'
  BY <1>0, <1>1, HitsKept DEF AddBreakpoint, HitsInv
<1>2. ASSUME NEW b \in Ids, EnableBreakpoint(b) \/ DisableBreakpoint(b) \/ RemoveBreakpoint(b)
      PROVE  HitsInv'
  BY <1>0, <1>2, HitsKept DEF EnableBreakpoint, DisableBreakpoint, RemoveBreakpoint, HitsInv
<1>3. ASSUME NEW p \in Pids, ClearHits(p) PROVE HitsInv'
  BY <1>0, <1>3, HitsFiltered DEF ClearHits, HitsInv
<1>4. ASSUME NEW p \in Pids, ResumeAfterBreakpoint(p) \/ ProcessExits(p) PROVE HitsInv'
  BY <1>0, <1>4, HitsKept DEF ResumeAfterBreakpoint, ProcessExits, HitsInv
<1>5. CASE RequestStop \/ JoinMonitor \/ StartMonitor \/ DisableReturns
  BY <1>0, <1>5, HitsKept DEF RequestStop, JoinMonitor, StartMonitor, DisableReturns, HitsInv
<1>6. CASE FinishRemove
  BY <1>0, <1>6, HitsFiltered DEF FinishRemove, HitsInv
<1>7. ASSUME NEW b \in Ids, RecordHit(b) PROVE HitsInv'
  <2>1. b \in listed
    BY <1>0, <1>7 DEF RecordHit, IndInv, RunsIfMeant, Running
  <2> QED
    BY <1>0, <1>7, <2>1, HitsAppended DEF RecordHit, HitsInv
<1>8. ASSUME NEW b \in Ids, PauseTarget(b) PROVE HitsInv'
  BY <1>0, <1>8, HitsKept DEF PauseTarget, Views, HitsInv
<1>9. ASSUME NEW b \in Ids,
             \/ MonitorStops(b) \/ MonitorFindsTargetGone(b) \/ OpenWatchHandle(b)
             \/ KeepWatching(b) \/ PollEvents(b) \/ MonitorThrows(b) \/ TargetAccess(b)
      PROVE  HitsInv'
  BY <1>0, <1>9, HitsKept DEF MonitorStops, MonitorFindsTargetGone, OpenWatchHandle,
       KeepWatching, PollEvents, MonitorThrows, TargetAccess, HitsInv
<1>10. CASE UNCHANGED vars
  BY <1>0, <1>10, HitsKept DEF vars, HitsInv
<1> QED
  BY <1>1, <1>2, <1>3, <1>4, <1>5, <1>6, <1>7, <1>8, <1>9, <1>10
     DEF Next, Call, CallStep, MonitorStep

LEMMA HitsAlways == Spec => []HitsInv
BY HitsInit, HitsNext, PTL DEF Spec

(* The list, the threads, their buffers and the hits stay well formed: ids are *)
(* those that were given out, and there are never more hits than the bound.  *)
THEOREM TypeCorrect == Spec => []TypeOK
<1>1. HitsInv => TypeOK
  BY DEF HitsInv, IndInv, Typed, HitsTyped, TypeOK
<1> QED
  BY <1>1, HitsAlways, PTL

(* Once a call that removes or disables a breakpoint has returned, no thread  *)
(* is left that could record a hit or stop the target, and of a breakpoint    *)
(* that was removed no hit is left or comes back: the call takes its hits     *)
(* only after it has joined the thread that could add to them.               *)
THEOREM NothingIsLeft == Spec => []RemovedLeavesNothing
<1>1. HitsInv => RemovedLeavesNothing
  BY DEF HitsInv, HitsListed, IndInv, RunsIfMeant, RemovedLeavesNothing
<1> QED
  BY <1>1, HitsAlways, PTL
================================================================================
