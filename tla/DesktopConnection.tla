-------------------------- MODULE DesktopConnection --------------------------
(***************************************************************************)
(* The desktop application's connection to a phone: the notifier that      *)
(* forwards a port with adb, opens one WebSocket through it, sends requests *)
(* and heartbeats, and closes it.  Its methods are coroutines that          *)
(* interleave wherever one awaits adb, the socket or an answer.  The phone  *)
(* is what answers, and what counts the sockets it holds.                   *)
(*                                                                         *)
(* A coroutine whose answer has come goes on in a step of its own.  Dart    *)
(* runs it before any other event; here others may come first.              *)
(***************************************************************************)
EXTENDS Naturals, Sequences, FiniteSets

CONSTANTS
    Devices,      \* authorized devices that adb lists
    NoDevice,
    MaxCalls,     \* bound on the calls of the user interface
    MaxFaults     \* bound on what adb, the link and the phone do wrong

ASSUME DesktopConstants ==
    /\ NoDevice \notin Devices
    /\ MaxCalls \in Nat \ {0} /\ MaxFaults \in Nat

VARIABLES
    status,         \* state.status
    selected,       \* state.selectedAdbSerial
    socket,         \* _socket, 0 for none
    subscription,   \* _socketSubscription, 0 for none
    timer,          \* _heartbeatTimer, 0 for none
    forwardSerial,  \* _adbForwardSerial
    forward,        \* where adb forwards the port to
    sockets,        \* all sockets, in the order they were opened
    listened,       \* the sockets whose subscription was not cancelled
    ticking,        \* the timers that were not cancelled
    co,             \* the coroutines
    faults          \* how many faults there have been

vars == <<status, selected, socket, subscription, timer, forwardSerial, forward,
          sockets, listened, ticking, co, faults>>

Calls == 1 .. MaxCalls

(* A call of the user, or the heartbeat of the timer that a call has started. *)
Coroutines == Calls \X {"call", "beat"}

(* The requests of connect(): handshake, device info, capabilities. *)
Greetings == 3

NewCo == [pc |-> "idle", op |-> "none", device |-> NoDevice, left |-> 0,
          socket |-> 0, answer |-> "none"]

(* "open" until the program closes it, "up" while the link to the phone works. *)
NewSocket == [device |-> forward, open |-> TRUE, up |-> TRUE]

(* What _socket holds was not closed by the program, and was listened to      *)
(* when it came there; only timers that tick send heartbeats.                 *)
TypeOK ==
    /\ status \in {"disconnected", "connecting", "connected"}
    /\ {selected, forwardSerial, forward} \subseteq Devices \cup {NoDevice}
    /\ {socket, subscription} \subseteq 0 .. Len(sockets)
    /\ socket # 0 => sockets[socket].open
    /\ subscription # 0 => subscription \in listened \/ ~sockets[subscription].up
    /\ timer \in Calls \cup {0} /\ ticking \subseteq Calls
    /\ listened \subseteq DOMAIN sockets
    /\ faults \in 0 .. MaxFaults
    /\ \A k \in Coroutines :
          /\ co[k].pc \in {"idle", "scan", "pair", "forward", "open", "greet", "ask",
                           "cancel", "close", "remove", "done"}
          /\ co[k].answer # "none" <=> co[k].pc \in {"greet", "ask"}
          /\ co[k].answer = "pending" => co[k].socket \in DOMAIN sockets

Init ==
    /\ status = "disconnected" /\ selected = NoDevice
    /\ socket = 0 /\ subscription = 0 /\ timer = 0
    /\ forwardSerial = NoDevice /\ forward = NoDevice
    /\ sockets = <<>> /\ listened = {} /\ ticking = {}
    /\ co = [k \in Coroutines |-> NewCo]
    /\ faults = 0

Fault == faults < MaxFaults /\ faults' = faults + 1

-----------------------------------------------------------------------------
(* What the methods share.  cs are the coroutines as the step leaves them      *)
(* otherwise.                                                                  *)

(* _failPendingRequests *)
Failed(cs) ==
    [k \in Coroutines |-> IF cs[k].answer = "pending" THEN [cs[k] EXCEPT !.answer = "failed"]
                                                      ELSE cs[k]]

(* _handleError, and _handleClosed: neither closes the socket. *)
HandleError(cs) ==
    /\ socket' = 0
    /\ ticking' = ticking \ {timer}
    /\ status' = "disconnected"
    /\ co' = Failed(cs)

(* _close, up to its first await. *)
CancelSubscription ==
    /\ timer' = 0
    /\ ticking' = ticking \ {timer}
    /\ subscription' = 0
    /\ listened' = listened \ {subscription}

Closes(k) == co' = [co EXCEPT ![k].pc = "cancel", ![k].answer = "none"]

(* request(): without a socket it throws. *)
Requests(k, pc, left) ==
    co' = [co EXCEPT ![k].pc = pc, ![k].left = left,
                     ![k].socket = socket,
                     ![k].answer = IF socket = 0 THEN "failed" ELSE "pending"]

Finishes(k) == co' = [co EXCEPT ![k] = [NewCo EXCEPT !.pc = IF k[2] = "beat" THEN "idle" ELSE "done"]]

-----------------------------------------------------------------------------
(* Calls of the user interface, which offers them according to the status it  *)
(* shows.                                                                      *)

Idle(c) == co[<<c, "call">>].pc = "idle" /\ \A d \in 1 .. c - 1 : co[<<d, "call">>].pc # "idle"

Begins(c, op, pc, device) ==
    co' = [co EXCEPT ![<<c, "call">>] = [NewCo EXCEPT !.pc = pc, !.op = op, !.device = device]]

link == <<socket, subscription, timer, sockets, listened, ticking>>

ConnectAdb(c) ==
    /\ Idle(c) /\ status = "disconnected" /\ selected # NoDevice
    /\ Begins(c, "connect", "forward", selected)
    /\ UNCHANGED <<status, selected, link, forwardSerial, forward, faults>>

QuickConnectAdb(c) ==
    /\ Idle(c) /\ status = "disconnected"
    /\ Begins(c, "quick", "scan", NoDevice)
    /\ UNCHANGED <<status, selected, link, forwardSerial, forward, faults>>

(* The dialog of connectAdbWireless can be open whatever the status is. *)
ConnectWireless(c, d) ==
    /\ Idle(c)
    /\ Begins(c, "wireless", "pair", d)
    /\ UNCHANGED <<status, selected, link, forwardSerial, forward, faults>>

SwitchAdbDevice(c, d) ==
    /\ Idle(c) /\ status # "connecting"
    /\ selected # d \/ status # "connected"
    /\ CancelSubscription
    /\ Begins(c, "switch", "cancel", d)
    /\ UNCHANGED <<status, selected, socket, sockets, forwardSerial, forward, faults>>

Disconnect(c) ==
    /\ Idle(c) /\ status = "connected"
    /\ CancelSubscription
    /\ Begins(c, "disconnect", "cancel", NoDevice)
    /\ UNCHANGED <<status, selected, socket, sockets, forwardSerial, forward, faults>>

(* Any other request: of a script, the shell or the console. *)
Ask(c) ==
    /\ Idle(c) /\ status = "connected"
    /\ co' = [co EXCEPT ![<<c, "call">>] =
                [NewCo EXCEPT !.pc = "ask", !.op = "ask", !.socket = socket,
                              !.answer = IF socket = 0 THEN "failed" ELSE "pending"]]
    /\ UNCHANGED <<status, selected, link, forwardSerial, forward, faults>>

Call(c) ==
    \/ ConnectAdb(c) \/ QuickConnectAdb(c) \/ Disconnect(c) \/ Ask(c)
    \/ \E d \in Devices : ConnectWireless(c, d) \/ SwitchAdbDevice(c, d)

-----------------------------------------------------------------------------
(* Connecting. *)

(* The device that was selected is preferred; connectAdb follows. *)
Scanned(k) ==
    /\ co[k].pc = "scan"
    /\ \E d \in IF selected = NoDevice THEN Devices ELSE {selected} :
          /\ selected' = d
          /\ co' = [co EXCEPT ![k].pc = "forward", ![k].device = d]
    /\ UNCHANGED <<status, link, forwardSerial, forward, faults>>

(* adb connect, and the scan that finds the device; connectAdb follows, unless *)
(* the dialog was dismissed, as it must be for another call to come.           *)
Paired(k) ==
    /\ co[k].pc = "pair"
    /\ selected' = co[k].device
    /\ \/ /\ \A c \in Calls : c > k[1] => co[<<c, "call">>].pc = "idle"
          /\ co' = [co EXCEPT ![k].pc = "forward"]
       \/ Finishes(k)
    /\ UNCHANGED <<status, link, forwardSerial, forward, faults>>

(* adb moves the port to the device; connect() returns at once if someone else *)
(* is connecting or connected.                                                 *)
Forwarded(k) ==
    /\ co[k].pc = "forward"
    /\ forward' = co[k].device
    /\ forwardSerial' = co[k].device
    /\ IF status = "disconnected"
       THEN status' = "connecting" /\ co' = [co EXCEPT ![k].pc = "open", ![k].op = "connect"]
       ELSE Finishes(k) /\ UNCHANGED status
    /\ UNCHANGED <<selected, link, faults>>

AdbFails(k) ==
    /\ co[k].pc \in {"scan", "pair", "forward"} /\ Fault
    /\ IF co[k].pc = "forward"
       THEN HandleError([co EXCEPT ![k] = [NewCo EXCEPT !.pc = "done"]])
       ELSE Finishes(k) /\ UNCHANGED <<socket, ticking, status>>
    /\ UNCHANGED <<selected, subscription, timer, sockets, listened, forwardSerial, forward>>

Opened(k) ==
    /\ co[k].pc = "open" /\ forward # NoDevice
    /\ sockets' = Append(sockets, NewSocket)
    /\ socket' = Len(sockets) + 1
    /\ subscription' = Len(sockets) + 1
    /\ listened' = listened \cup {Len(sockets) + 1}
    /\ co' = [co EXCEPT ![k].pc = "greet", ![k].left = Greetings,
                        ![k].socket = Len(sockets) + 1, ![k].answer = "pending"]
    /\ UNCHANGED <<status, selected, timer, forwardSerial, forward, ticking, faults>>

(* Nothing listens, or the timeout runs out, after which the socket may still  *)
(* come to be: nobody knows of it.                                             *)
OpenFails(k) ==
    /\ co[k].pc = "open"
    /\ \/ forward = NoDevice /\ UNCHANGED <<sockets, faults>>
       \/ Fault /\ UNCHANGED sockets
       \/ forward # NoDevice /\ Fault /\ sockets' = Append(sockets, NewSocket)
    /\ CancelSubscription
    /\ Closes(k)
    /\ UNCHANGED <<status, selected, socket, forwardSerial, forward>>

(* The last greeting makes it a connection, with a new timer. *)
Greeted(k) ==
    /\ co[k].pc = "greet" /\ co[k].answer = "ok"
    /\ IF co[k].left > 1
       THEN Requests(k, "greet", co[k].left - 1) /\ UNCHANGED <<status, timer, ticking>>
       ELSE /\ status' = "connected"
            /\ timer' = k[1]
            /\ ticking' = ticking \cup {k[1]}
            /\ Finishes(k)
    /\ UNCHANGED <<selected, socket, subscription, forwardSerial, forward, sockets, listened, faults>>

GreetingFails(k) ==
    /\ co[k].pc = "greet" /\ co[k].answer = "failed"
    /\ CancelSubscription
    /\ Closes(k)
    /\ UNCHANGED <<status, selected, socket, forwardSerial, forward, sockets, faults>>

-----------------------------------------------------------------------------
(* Requests, heartbeats and the end of a socket. *)

Answerable(s) == sockets[s].up /\ s \in listened

Answered(k) ==
    /\ co[k].answer = "pending" /\ Answerable(co[k].socket)
    /\ co' = [co EXCEPT ![k].answer = "ok"]
    /\ UNCHANGED <<status, selected, link, forwardSerial, forward, faults>>

(* The phone may stall, too. *)
TimesOut(k) ==
    /\ co[k].answer = "pending"
    /\ \/ ~Answerable(co[k].socket) /\ UNCHANGED faults
       \/ Fault
    /\ co' = [co EXCEPT ![k].answer = "failed"]
    /\ UNCHANGED <<status, selected, link, forwardSerial, forward>>

AskReturns(k) ==
    /\ co[k].op = "ask" /\ co[k].answer \in {"ok", "failed"}
    /\ Finishes(k)
    /\ UNCHANGED <<status, selected, link, forwardSerial, forward, faults>>

SendHeartbeat(k) ==
    /\ k[2] = "beat" /\ k[1] \in ticking /\ co[k].pc = "idle"
    /\ Requests(k, "ask", 0)
    /\ UNCHANGED <<status, selected, link, forwardSerial, forward, faults>>

HeartbeatAnswered(k) ==
    /\ k[2] = "beat" /\ co[k].answer = "ok"
    /\ Finishes(k)
    /\ UNCHANGED <<status, selected, link, forwardSerial, forward, faults>>

(* Mutant: the failure is not handled before the close. *)
ClosesQuietly(k) ==
    /\ k[2] = "beat" /\ co[k].answer = "failed"
    /\ CancelSubscription
    /\ Closes(k)
    /\ UNCHANGED <<status, selected, socket, forwardSerial, forward, sockets, faults>>

(* _handleError first, then _close, which finds no socket any more. *)
HeartbeatFails(k) ==
    /\ k[2] = "beat" /\ co[k].answer = "failed"
    /\ CancelSubscription
    /\ socket' = 0
    /\ status' = "disconnected"
    /\ co' = Failed([co EXCEPT ![k].pc = "cancel", ![k].answer = "none"])
    /\ UNCHANGED <<selected, forwardSerial, forward, sockets, faults>>

LinkFails(s) ==
    /\ sockets[s].up /\ Fault
    /\ sockets' = [sockets EXCEPT ![s].up = FALSE]
    /\ UNCHANGED <<status, selected, socket, subscription, timer, forwardSerial, forward,
                   listened, ticking, co>>

(* onDone and onError, of whatever socket is still listened to.  A link may    *)
(* fail without either.                                                        *)
HandleClosed(s) ==
    /\ s \in listened /\ ~sockets[s].up
    /\ listened' = listened \ {s}
    /\ HandleError(co)
    /\ UNCHANGED <<selected, subscription, timer, forwardSerial, forward, sockets, faults>>

-----------------------------------------------------------------------------
(* _close, after its awaits: it takes what it finds by then. *)

(* Mutant: the field keeps the closed socket. *)
KeepsSocket(k) ==
    /\ co[k].pc = "cancel"
    /\ sockets' = IF socket = 0 THEN sockets
                  ELSE [sockets EXCEPT ![socket].open = FALSE, ![socket].up = FALSE]
    /\ co' = Failed([co EXCEPT ![k].pc = "close"])
    /\ UNCHANGED <<status, selected, socket, subscription, timer, forwardSerial, forward,
                   listened, ticking, faults>>

TakeSocket(k) ==
    /\ co[k].pc = "cancel"
    /\ socket' = 0
    /\ sockets' = IF socket = 0 THEN sockets
                  ELSE [sockets EXCEPT ![socket].open = FALSE, ![socket].up = FALSE]
    /\ co' = Failed([co EXCEPT ![k].pc = "close"])
    /\ UNCHANGED <<status, selected, subscription, timer, forwardSerial, forward,
                   listened, ticking, faults>>

(* adb removes the forward of the port, whoever set it. *)
TakeForward(k) ==
    /\ co[k].pc = "close"
    /\ forwardSerial' = NoDevice
    /\ forward' = IF forwardSerial = NoDevice THEN forward ELSE NoDevice
    /\ co' = [co EXCEPT ![k].pc = "remove"]
    /\ UNCHANGED <<status, selected, link, faults>>

(* What the caller of _close does next. *)
Closed(k) ==
    /\ co[k].pc = "remove"
    /\ CASE co[k].op = "disconnect" ->
              /\ status' = "disconnected" /\ Finishes(k)
              /\ UNCHANGED <<selected, socket, ticking>>
         [] co[k].op = "switch" ->
              /\ status' = "disconnected" /\ selected' = co[k].device
              /\ co' = [co EXCEPT ![k].pc = "forward"]
              /\ UNCHANGED <<socket, ticking>>
         [] k[2] = "beat" ->
              Finishes(k) /\ UNCHANGED <<status, selected, socket, ticking>>
         [] OTHER ->
              /\ HandleError([co EXCEPT ![k] = [NewCo EXCEPT !.pc = "done"]])
              /\ UNCHANGED selected
    /\ UNCHANGED <<subscription, timer, forwardSerial, forward, sockets, listened, faults>>

-----------------------------------------------------------------------------
Coroutine(k) ==
    \/ Scanned(k) \/ Paired(k) \/ Forwarded(k) \/ Opened(k) \/ OpenFails(k)
    \/ Greeted(k) \/ GreetingFails(k) \/ Answered(k) \/ TimesOut(k) \/ AskReturns(k)
    \/ SendHeartbeat(k) \/ HeartbeatAnswered(k) \/ HeartbeatFails(k)
    \/ TakeSocket(k) \/ TakeForward(k) \/ Closed(k)

Next ==
    \/ \E c \in Calls : Call(c)
    \/ \E k \in Coroutines : Coroutine(k) \/ AdbFails(k)
    \/ \E s \in DOMAIN sockets : LinkFails(s) \/ HandleClosed(s)

Spec == Init /\ [][Next]_vars

(* adb returns, the timers run, and what the event loop has it runs. *)
FairSpec == Spec /\ \A k \in Coroutines : WF_vars(Coroutine(k))

-----------------------------------------------------------------------------
Works(s) == s # 0 /\ sockets[s].up /\ s \in listened

(* A connection that is shown and does not work is noticed, whatever is going  *)
(* on: some heartbeat of it fails.                                             *)
ConnectedWorks == []<>(status = "connected" => Works(socket))

=============================================================================
