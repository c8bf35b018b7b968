--------------------------- MODULE BreakpointMonitor ---------------------------
(***************************************************************************)
(* MemoryToolBreakpointController (memory_tool_breakpoint.cpp): the list   *)
(* of breakpoints, one monitor thread for each enabled one, and the hits   *)
(* they record, beside a target that runs, is stopped, resumed and exits.  *)
(*                                                                         *)
(* A target is watched through one handle, whose ring buffer holds queue   *)
(* events; the threads of the target are not told apart.  Calls come one   *)
(* at a time, as the client of the daemon sends them (sendOrThrow holds    *)
(* its lock over request and answer).  A call that stops a monitor joins   *)
(* its thread without holding mutex_.  What a hit says is left out.        *)
(***************************************************************************)
EXTENDS Naturals, Sequences

CONSTANTS
  Pids,      \* target processes
  MaxIds,    \* bound on next_breakpoint_id_
  MaxQueue,  \* events the ring buffer of a handle holds
  MaxHits    \* capacity of hits_ (512 in the code)

ASSUME BreakpointConstants ==
  /\ Pids # {}
  /\ MaxIds \in Nat /\ MaxQueue \in Nat \ {0} /\ MaxHits \in Nat \ {0}

VARIABLES
  alive,    \* the target processes that have not exited
  stopped,  \* the target processes stopped by SIGSTOP
  listed,   \* breakpoints_, by id
  nextId,   \* next_breakpoint_id_
  view,     \* the view of each breakpoint
  monitor,  \* the monitor thread of each breakpoint
  hits,     \* hits_, the breakpoint of each
  call      \* the call being served

vars == <<alive, stopped, listed, nextId, view, monitor, hits, call>>

Ids == 1..MaxIds

Errors == {"", "open failed", "target exited", "crashed"}

Views == [pid: Pids, enabled: BOOLEAN, pause: BOOLEAN, error: Errors]

(* batch is what the thread has consumed of the queue and not yet reported. *)
Monitors ==
  [pc: {"none", "check", "poll", "record", "signal", "exited"},
   stop: BOOLEAN, watching: BOOLEAN, queue: 0..MaxQueue, batch: 0..MaxQueue]

NoMonitor ==
  [pc |-> "none", stop |-> FALSE, watching |-> FALSE, queue |-> 0, batch |-> 0]

Calls ==
  [op: {"none", "start", "stop", "remove"}, id: 0..MaxIds,
   pc: {"idle", "stop", "join", "finish"}]

Idle == [op |-> "none", id |-> 0, pc |-> "idle"]

TypeOK ==
  /\ alive \subseteq Pids
  /\ stopped \subseteq Pids
  /\ listed \subseteq Ids
  /\ nextId \in 0..MaxIds
  /\ view \in [Ids -> Views]
  /\ monitor \in [Ids -> Monitors]
  /\ hits \in Seq(Ids) /\ Len(hits) <= MaxHits
  /\ call \in Calls

Init ==
  /\ alive = Pids
  /\ stopped = {}
  /\ listed = {}
  /\ nextId = 0
  /\ \E p \in Pids :
       view = [b \in Ids |-> [pid |-> p, enabled |-> FALSE, pause |-> FALSE, error |-> ""]]
  /\ monitor = [b \in Ids |-> NoMonitor]
  /\ hits = <<>>
  /\ call = Idle

-------------------------------------------------------------------------------
(* Calls. *)

Begin(op, b) == call' = [op |-> op, id |-> b, pc |-> "stop"]

AddBreakpoint(p, enabled, pause) ==
  LET b == nextId + 1
  IN /\ call = Idle
     /\ nextId < MaxIds
     /\ nextId' = b
     /\ view' = [view EXCEPT ![b] =
                   [pid |-> p, enabled |-> enabled, pause |-> pause, error |-> ""]]
     /\ listed' = listed \union {b}
     /\ IF enabled THEN Begin("start", b) ELSE UNCHANGED call
     /\ UNCHANGED <<alive, stopped, monitor, hits>>

EnableBreakpoint(b) ==
  /\ call = Idle
  /\ b \in listed
  /\ view' = [view EXCEPT ![b].enabled = TRUE, ![b].error = ""]
  /\ Begin("start", b)
  /\ UNCHANGED <<alive, stopped, listed, nextId, monitor, hits>>

(* Mutant: the monitor is left to notice by itself. *)
DisableDoesNotJoin(b) ==
  /\ call = Idle
  /\ b \in listed
  /\ view' = [view EXCEPT ![b].enabled = FALSE]
  /\ UNCHANGED <<alive, stopped, listed, nextId, monitor, hits, call>>

DisableBreakpoint(b) ==
  /\ call = Idle
  /\ b \in listed
  /\ view' = [view EXCEPT ![b].enabled = FALSE]
  /\ Begin("stop", b)
  /\ UNCHANGED <<alive, stopped, listed, nextId, monitor, hits>>

RemoveBreakpoint(b) ==
  /\ call = Idle
  /\ b \in listed
  /\ Begin("remove", b)
  /\ UNCHANGED <<alive, stopped, listed, nextId, view, monitor, hits>>

(* StopMonitor: the flag is raised, then the thread is joined if there is one. *)
RequestStop ==
  /\ call.pc = "stop"
  /\ monitor' = [monitor EXCEPT ![call.id].stop = TRUE]
  /\ call' = [call EXCEPT !.pc = "join"]
  /\ UNCHANGED <<alive, stopped, listed, nextId, view, hits>>

(* Mutant: the thread is detached. *)
DetachMonitor ==
  /\ call.pc = "join"
  /\ call' = [call EXCEPT !.pc = "finish"]
  /\ UNCHANGED <<alive, stopped, listed, nextId, view, monitor, hits>>

JoinMonitor ==
  /\ call.pc = "join"
  /\ monitor[call.id].pc \in {"none", "exited"}
  /\ monitor' = [monitor EXCEPT ![call.id].pc = "none"]
  /\ call' = [call EXCEPT !.pc = "finish"]
  /\ UNCHANGED <<alive, stopped, listed, nextId, view, hits>>

(* Mutant: the flag of the last monitor is not lowered. *)
StartWithFlagRaised ==
  /\ call.pc = "finish"
  /\ call.op = "start"
  /\ monitor' = [monitor EXCEPT ![call.id] = [NoMonitor EXCEPT !.pc = "check", !.stop = TRUE]]
  /\ call' = Idle
  /\ UNCHANGED <<alive, stopped, listed, nextId, view, hits>>

StartMonitor ==
  /\ call.pc = "finish"
  /\ call.op = "start"
  /\ monitor' = [monitor EXCEPT ![call.id] = [NoMonitor EXCEPT !.pc = "check"]]
  /\ call' = Idle
  /\ UNCHANGED <<alive, stopped, listed, nextId, view, hits>>

DisableReturns ==
  /\ call.pc = "finish"
  /\ call.op = "stop"
  /\ call' = Idle
  /\ UNCHANGED <<alive, stopped, listed, nextId, view, monitor, hits>>

(* std::remove_if: the entries of s that are not in B, in their order.  (The  *)
(* prover cannot look into SelectSeq.)                                       *)
Without(s, B) ==
  LET kept[i \in 0 .. Len(s)] ==
        IF i = 0 THEN <<>>
        ELSE IF s[i] \in B THEN kept[i - 1]
        ELSE Append(kept[i - 1], s[i])
  IN  kept[Len(s)]

FinishRemove ==
  /\ call.pc = "finish"
  /\ call.op = "remove"
  /\ hits' = Without(hits, {call.id})
  /\ listed' = listed \ {call.id}
  /\ call' = Idle
  /\ UNCHANGED <<alive, stopped, nextId, view, monitor>>

ClearHits(p) ==
  /\ call = Idle
  /\ hits' = Without(hits, {b \in Ids : view[b].pid = p})
  /\ UNCHANGED <<alive, stopped, listed, nextId, view, monitor, call>>

(* SIGCONT; for a target that is gone the call throws. *)
ResumeAfterBreakpoint(p) ==
  /\ call = Idle
  /\ p \in alive
  /\ stopped' = stopped \ {p}
  /\ UNCHANGED <<alive, listed, nextId, view, monitor, hits, call>>

-------------------------------------------------------------------------------
(* The monitor thread of breakpoint b. *)

Exited(m) == [m EXCEPT !.pc = "exited", !.watching = FALSE,
                       !.queue = 0, !.batch = 0]

(* The loop condition, and the test under the lock. *)
MonitorStops(b) ==
  /\ monitor[b].pc = "check"
  /\ monitor[b].stop \/ ~view[b].enabled
  /\ monitor' = [monitor EXCEPT ![b] = Exited(@)]
  /\ UNCHANGED <<alive, stopped, listed, nextId, view, hits, call>>

Goes(b) ==
  /\ monitor[b].pc = "check"
  /\ ~monitor[b].stop
  /\ view[b].enabled

MonitorFindsTargetGone(b) ==
  /\ Goes(b)
  /\ view[b].pid \notin alive
  /\ view' = [view EXCEPT ![b].error = "target exited"]
  /\ monitor' = [monitor EXCEPT ![b] = Exited(@)]
  /\ UNCHANGED <<alive, stopped, listed, nextId, hits, call>>

OpenWatchHandle(b) ==
  /\ Goes(b)
  /\ view[b].pid \in alive
  /\ ~monitor[b].watching
  /\ \/ /\ monitor' = [monitor EXCEPT ![b].watching = TRUE, ![b].pc = "poll"]
        /\ view' = [view EXCEPT ![b].error = ""]
     \/ /\ view' = [view EXCEPT ![b].error = "open failed"]
        /\ UNCHANGED monitor
  /\ UNCHANGED <<alive, stopped, listed, nextId, hits, call>>

KeepWatching(b) ==
  /\ Goes(b)
  /\ view[b].pid \in alive
  /\ monitor[b].watching
  /\ monitor' = [monitor EXCEPT ![b].pc = "poll"]
  /\ UNCHANGED <<alive, stopped, listed, nextId, view, hits, call>>

(* poll returns with events, which are all consumed, or after its timeout. *)
PollEvents(b) ==
  /\ monitor[b].pc = "poll"
  /\ monitor' = [monitor EXCEPT ![b].batch = monitor[b].queue,
                                ![b].queue = 0,
                                ![b].pc = IF monitor[b].queue = 0 THEN "check" ELSE "record"]
  /\ UNCHANGED <<alive, stopped, listed, nextId, view, hits, call>>

AfterEvent(m) ==
  [m EXCEPT !.batch = @ - 1, !.pc = IF m.batch = 1 THEN "check" ELSE "record"]

AfterHit(m, pause) == IF pause THEN [m EXCEPT !.pc = "signal"] ELSE AfterEvent(m)

Newest(s) == IF Len(s) > MaxHits THEN Tail(s) ELSE s

(* Mutants: hits pile up; RecordHit waits for a lock that the joining call *)
(* holds; no hit pauses the target.                                        *)
RecordHitUntrimmed(b) ==
  /\ monitor[b].pc = "record"
  /\ hits' = Append(hits, b)
  /\ monitor' = [monitor EXCEPT ![b] = AfterHit(@, view[b].pause)]
  /\ UNCHANGED <<alive, stopped, listed, nextId, view, call>>

RecordHitBehindJoin(b) ==
  /\ monitor[b].pc = "record"
  /\ call.pc # "join"
  /\ hits' = Newest(Append(hits, b))
  /\ monitor' = [monitor EXCEPT ![b] = AfterHit(@, view[b].pause)]
  /\ UNCHANGED <<alive, stopped, listed, nextId, view, call>>

RecordHitOnly(b) ==
  /\ monitor[b].pc = "record"
  /\ hits' = Newest(Append(hits, b))
  /\ monitor' = [monitor EXCEPT ![b] = AfterEvent(@)]
  /\ UNCHANGED <<alive, stopped, listed, nextId, view, call>>

(* The stop flag is not looked at before the batch is done. *)
RecordHit(b) ==
  /\ monitor[b].pc = "record"
  /\ hits' = Newest(Append(hits, b))
  /\ monitor' = [monitor EXCEPT ![b] = AfterHit(@, view[b].pause)]
  /\ UNCHANGED <<alive, stopped, listed, nextId, view, call>>

PauseTarget(b) ==
  /\ monitor[b].pc = "signal"
  /\ stopped' = stopped \union ({view[b].pid} \intersect alive)
  /\ monitor' = [monitor EXCEPT ![b] = AfterEvent(@)]
  /\ UNCHANGED <<alive, listed, nextId, view, hits, call>>

(* An exception, as when the maps of the target cannot be read any more.   *)
MonitorThrows(b) ==
  /\ monitor[b].pc \in {"check", "record"}
  /\ view' = [view EXCEPT ![b].error = "crashed"]
  /\ monitor' = [monitor EXCEPT ![b] = Exited(@)]
  /\ UNCHANGED <<alive, stopped, listed, nextId, hits, call>>

-------------------------------------------------------------------------------
(* The target processes. *)

(* A process that runs touches the address; a full ring buffer drops it.   *)
TargetAccess(b) ==
  /\ monitor[b].watching
  /\ view[b].pid \in alive \ stopped
  /\ monitor[b].queue < MaxQueue
  /\ monitor' = [monitor EXCEPT ![b].queue = @ + 1]
  /\ UNCHANGED <<alive, stopped, listed, nextId, view, hits, call>>

ProcessExits(p) ==
  /\ p \in alive
  /\ alive' = alive \ {p}
  /\ stopped' = stopped \ {p}
  /\ UNCHANGED <<listed, nextId, view, monitor, hits, call>>

Call ==
  \/ \E p \in Pids, enabled, pause \in BOOLEAN : AddBreakpoint(p, enabled, pause)
  \/ \E b \in Ids : EnableBreakpoint(b) \/ DisableBreakpoint(b) \/ RemoveBreakpoint(b)
  \/ \E p \in Pids : ClearHits(p) \/ ResumeAfterBreakpoint(p)

CallStep ==
  \/ RequestStop
  \/ JoinMonitor
  \/ StartMonitor
  \/ DisableReturns
  \/ FinishRemove

MonitorStep(b) ==
  \/ MonitorStops(b)
  \/ MonitorFindsTargetGone(b)
  \/ OpenWatchHandle(b)
  \/ KeepWatching(b)
  \/ PollEvents(b)
  \/ RecordHit(b)
  \/ PauseTarget(b)

Next ==
  \/ Call
  \/ CallStep
  \/ \E b \in Ids : MonitorStep(b) \/ MonitorThrows(b)
  \/ \E b \in Ids : TargetAccess(b)
  \/ \E p \in Pids : ProcessExits(p)

Spec == Init /\ [][Next]_vars

(* The threads of the daemon are scheduled; no exception is owed.          *)
FairSpec ==
  /\ Spec
  /\ WF_vars(CallStep)
  /\ \A b \in Ids : WF_vars(MonitorStep(b))

-------------------------------------------------------------------------------
(* Properties. *)

Busy(b) == call.pc # "idle" /\ call.id = b

Running(b) == monitor[b].pc \notin {"none", "exited"}

(* A breakpoint that was removed, or disabled, has no monitor that could     *)
(* still record or stop the target once the call has returned: and then the *)
(* hits of one that was removed do not come back.                           *)
RemovedLeavesNothing ==
  \A b \in Ids :
    /\ b \notin listed \/ (~view[b].enabled /\ ~Busy(b)) => ~Running(b)
    /\ b \notin listed => \A i \in DOMAIN hits : hits[i] # b

(* A breakpoint that is shown as enabled, and without an error, is watched *)
(* by a thread that has not been told to stop.                             *)
EnabledIsWatched ==
  \A b \in listed :
    view[b].enabled /\ view[b].error = "" /\ ~Busy(b)
      => Running(b) /\ ~monitor[b].stop

(* Every call returns, also one that joins a monitor in the middle of a    *)
(* batch of hits.                                                          *)
CallsReturn == call # Idle ~> call = Idle

(* An access to a watched address of a breakpoint that pauses stops the    *)
(* target, unless the target or the monitor ends first.                    *)
AccessPauses ==
  \A b \in Ids :
    view[b].pause /\ monitor[b].queue > 0
      ~> view[b].pid \notin alive \ stopped \/ ~Running(b)
===============================================================================
