----------------------- MODULE DesktopConnectionProofs -----------------------
(***************************************************************************)
(* Proofs about DesktopConnection, for every set of devices and any number *)
(* of calls and faults.                                                    *)
(***************************************************************************)
EXTENDS DesktopConnection, TLAPS

Phones == Devices \cup {NoDevice}

Socks == [device: Phones, open: BOOLEAN, up: BOOLEAN]

Waiting == {"greet", "ask"}

PCs == {"idle", "scan", "pair", "forward", "open", "cancel", "close", "remove", "done"} \cup Waiting

Ops == {"none", "connect", "quick", "wireless", "switch", "disconnect", "ask"}

(* A coroutine, when n sockets have been opened: it has an answer, or waits   *)
(* for one on a socket that was opened, exactly while it is in a request.    *)
Cos(n) ==
  {r \in [pc: PCs, op: Ops, device: Phones, left: 0 .. Greetings, socket: Nat,
          answer: {"none", "pending", "ok", "failed"}] :
     /\ r.answer # "none" <=> r.pc \in Waiting
     /\ r.answer = "pending" => r.socket \in 1 .. n}

Typed ==
  /\ status \in {"disconnected", "connecting", "connected"}
  /\ selected \in Phones /\ forwardSerial \in Phones /\ forward \in Phones
  /\ sockets \in Seq(Socks)
  /\ socket \in 0 .. Len(sockets) /\ subscription \in 0 .. Len(sockets)
  /\ timer \in Calls \cup {0} /\ ticking \subseteq Calls
  /\ listened \subseteq DOMAIN sockets
  /\ faults \in 0 .. MaxFaults

(* What _socket holds is open; and only the end of a link has ended what      *)
(* _socketSubscription listens to.                                           *)
Linked ==
  /\ socket # 0 => sockets[socket].open
  /\ subscription # 0 => subscription \in listened \/ ~sockets[subscription].up

Run == co \in [Coroutines -> Cos(Len(sockets))]

IndInv == Typed /\ Linked /\ Run

-------------------------------------------------------------------------------
(* The coroutines. *)

LEMMA MoreSockets ==
  ASSUME NEW n \in Nat, NEW m \in Nat, n <= m
  PROVE  Cos(n) \subseteq Cos(m)
BY DEF Cos

LEMMA OneMoves ==
  ASSUME NEW n \in Nat, NEW cs \in [Coroutines -> Cos(n)], NEW k \in Coroutines, NEW r \in Cos(n)
  PROVE  [cs EXCEPT ![k] = r] \in [Coroutines -> Cos(n)]
OBVIOUS

LEMMA FailedRun ==
  ASSUME NEW n \in Nat, NEW cs \in [Coroutines -> Cos(n)]
  PROVE  Failed(cs) \in [Coroutines -> Cos(n)]
<1> DEFINE r(k) == IF cs[k].answer = "pending" THEN [cs[k] EXCEPT !.answer = "failed"] ELSE cs[k]
<1>1. ASSUME NEW k \in Coroutines PROVE r(k) \in Cos(n)
  <2>1. ASSUME NEW a \in Cos(n), a.answer = "pending"
        PROVE  [a EXCEPT !.answer = "failed"] \in Cos(n)
    BY <2>1 DEF Cos
  <2>2. cs[k] \in Cos(n)
    OBVIOUS
  <2> QED
    BY <2>1, <2>2
<1>2. Failed(cs) = [k \in Coroutines |-> r(k)]
  BY DEF Failed
<1> HIDE DEF r
<1> QED
  BY <1>1, <1>2

LEMMA NewCoType ==
  ASSUME NEW n \in Nat
  PROVE  /\ NewCo \in Cos(n)
         /\ [NewCo EXCEPT !.pc = "done"] \in Cos(n)
         /\ \A pc \in PCs \ Waiting, op \in Ops, d \in Phones :
               [NewCo EXCEPT !.pc = pc, !.op = op, !.device = d] \in Cos(n)
<1>1. NewCo \in Cos(n)
  BY DEF NewCo, Cos, PCs, Waiting, Ops, Phones, Greetings
<1>2. [NewCo EXCEPT !.pc = "done"] \in Cos(n)
  BY DEF NewCo, Cos, PCs, Waiting, Ops, Phones, Greetings
<1>3. ASSUME NEW pc \in PCs \ Waiting, NEW op \in Ops, NEW d \in Phones
      PROVE  [NewCo EXCEPT !.pc = pc, !.op = op, !.device = d] \in Cos(n)
  <2>1. \A a \in Cos(n) : a.answer = "none" =>
           [a EXCEPT !.pc = pc, !.op = op, !.device = d] \in Cos(n)
    BY DEF Cos
  <2>2. NewCo.answer = "none"
    BY DEF NewCo
  <2> QED
    BY <1>1, <2>1, <2>2
<1> QED
  BY <1>1, <1>2, <1>3

LEMMA FinishesRun ==
  ASSUME IndInv, NEW k \in Coroutines, Finishes(k)
  PROVE  co' \in [Coroutines -> Cos(Len(sockets))]
<1> DEFINE n == Len(sockets)
           r == [NewCo EXCEPT !.pc = IF k[2] = "beat" THEN "idle" ELSE "done"]
<1>1. n \in Nat /\ co \in [Coroutines -> Cos(n)]
  BY DEF IndInv, Typed, Run
<1>2. r \in Cos(n)
  BY <1>1 DEF NewCo, Cos, PCs, Waiting, Ops, Phones, Greetings
<1>3. co' = [co EXCEPT ![k] = r]
  BY DEF Finishes
<1> HIDE DEF n, r
<1>4. co' \in [Coroutines -> Cos(n)]
  BY <1>1, <1>2, <1>3, OneMoves
<1> QED
  BY <1>4 DEF n

LEMMA Fields ==
  ASSUME IndInv, NEW k \in Coroutines
  PROVE  /\ co \in [Coroutines -> Cos(Len(sockets))] /\ Len(sockets) \in Nat
         /\ co[k].pc \in PCs /\ co[k].op \in Ops /\ co[k].device \in Phones
         /\ co[k].left \in 0 .. Greetings
         /\ co[k].answer # "none" <=> co[k].pc \in Waiting
         /\ co[k].answer = "pending" => co[k].socket \in DOMAIN sockets
         /\ k[1] \in Calls /\ k[1] # 0
BY DEF IndInv, Typed, Run, Cos, Coroutines, Calls

(* One coroutine moves while sockets are only opened. *)
LEMMA OneRunsHere ==
  ASSUME IndInv, NEW k \in Coroutines, NEW r \in Cos(Len(sockets)), UNCHANGED sockets,
         co' = [co EXCEPT ![k] = r]
  PROVE  Run'
<1>1. co' \in [Coroutines -> Cos(Len(sockets))]
  BY Fields, OneMoves
<1> QED
  BY <1>1 DEF Run

LEMMA OneRuns ==
  ASSUME IndInv, NEW k \in Coroutines, NEW r, r \in Cos(Len(sockets')),
         Len(sockets') \in Nat, Len(sockets) <= Len(sockets'), co' = [co EXCEPT ![k] = r]
  PROVE  Run'
<1> DEFINE n == Len(sockets')
<1>1. n \in Nat /\ r \in Cos(n)
  OBVIOUS
<1>2. co \in [Coroutines -> Cos(n)]
  BY MoreSockets, Fields DEF IndInv, Run
<1> HIDE DEF n
<1>3. co' \in [Coroutines -> Cos(n)]
  BY <1>1, <1>2, OneMoves
<1> QED
  BY <1>3 DEF n, Run

LEMMA Turns ==
  ASSUME IndInv, NEW k \in Coroutines, NEW pc \in PCs \ Waiting,
         co' = [co EXCEPT ![k].pc = pc, ![k].answer = "none"], UNCHANGED sockets
  PROVE  Run'
<1> DEFINE r == [co[k] EXCEPT !.pc = pc, !.answer = "none"]
<1>1. co' = [co EXCEPT ![k] = r]
  OBVIOUS
<1>2. r \in Cos(Len(sockets))
  BY DEF IndInv, Run, Cos
<1> HIDE DEF r
<1> QED
  BY <1>1, <1>2, OneRunsHere

LEMMA CallBegins ==
  ASSUME IndInv, NEW c \in Calls, NEW op \in Ops, NEW pc \in PCs \ Waiting, NEW d \in Phones,
         Begins(c, op, pc, d), UNCHANGED sockets
  PROVE  Run'
<1> DEFINE k == <<c, "call">>
           r == [NewCo EXCEPT !.pc = pc, !.op = op, !.device = d]
<1>1. k \in Coroutines /\ co' = [co EXCEPT ![k] = r]
  BY DEF Coroutines, Begins
<1>2. r \in Cos(Len(sockets))
  BY <1>1, Fields, NewCoType
<1> HIDE DEF k, r
<1> QED
  BY <1>1, <1>2, OneRunsHere

LEMMA RequestRuns ==
  ASSUME IndInv, NEW k \in Coroutines, NEW pc \in Waiting, NEW left \in 0 .. Greetings,
         Requests(k, pc, left), UNCHANGED sockets
  PROVE  Run'
<1> DEFINE r == [co[k] EXCEPT !.pc = pc, !.left = left, !.socket = socket,
                              !.answer = IF socket = 0 THEN "failed" ELSE "pending"]
<1>1. co' = [co EXCEPT ![k] = r]
  BY DEF Requests
<1>2. socket \in Nat /\ (socket # 0 => socket \in 1 .. Len(sockets))
  BY DEF IndInv, Typed
<1>3. r \in Cos(Len(sockets))
  BY <1>2 DEF IndInv, Run, Cos, PCs, Waiting
<1> HIDE DEF r
<1> QED
  BY <1>1, <1>3, OneRunsHere

(* Who was waiting for an answer gets a failure instead. *)
LEMMA FailedRuns ==
  ASSUME IndInv, NEW k \in Coroutines, NEW r \in Cos(Len(sockets)),
         co' = Failed([co EXCEPT ![k] = r]), Len(sockets') = Len(sockets)
  PROVE  Run'
<1>1. co \in [Coroutines -> Cos(Len(sockets))] /\ Len(sockets) \in Nat
  BY Fields
<1>2. [co EXCEPT ![k] = r] \in [Coroutines -> Cos(Len(sockets))]
  BY <1>1, OneMoves
<1>3. co' \in [Coroutines -> Cos(Len(sockets))]
  BY <1>1, <1>2, FailedRun
<1> QED
  BY <1>3 DEF Run

LEMMA FinishesRuns ==
  ASSUME IndInv, NEW k \in Coroutines, Finishes(k), UNCHANGED sockets
  PROVE  Run'
BY FinishesRun DEF Run

LEMMA OpensASocket ==
  ASSUME IndInv, sockets' = Append(sockets, NewSocket)
  PROVE  /\ Len(sockets') = Len(sockets) + 1 /\ Len(sockets') \in Nat /\ Len(sockets) \in Nat
         /\ sockets' \in Seq(Socks) /\ DOMAIN sockets = 1 .. Len(sockets)
         /\ DOMAIN sockets' = 1 .. Len(sockets) + 1
         /\ \A i \in DOMAIN sockets : sockets'[i] = sockets[i]
         /\ sockets'[Len(sockets) + 1] = NewSocket /\ NewSocket.open
<1>1. NewSocket \in Socks /\ NewSocket.open
  BY DEF NewSocket, Socks, IndInv, Typed
<1> QED
  BY <1>1 DEF IndInv, Typed

(* The state of a socket changes. *)
LEMMA OneSocket ==
  ASSUME IndInv, NEW s \in DOMAIN sockets, NEW r \in Socks, sockets' = [sockets EXCEPT ![s] = r]
  PROVE  /\ sockets' \in Seq(Socks) /\ Len(sockets') = Len(sockets)
         /\ DOMAIN sockets' = DOMAIN sockets
         /\ sockets'[s] = r /\ \A i \in DOMAIN sockets \ {s} : sockets'[i] = sockets[i]
BY DEF IndInv, Typed

LEMMA SocketType ==
  ASSUME IndInv, NEW s \in DOMAIN sockets
  PROVE  sockets[s] \in Socks
BY DEF IndInv, Typed

(* What ends a connection: the link fails, or the program closes the socket. *)
LEMMA Ends ==
  ASSUME IndInv, NEW s \in DOMAIN sockets, NEW r, r \in Socks, ~r.up,
         sockets' = [sockets EXCEPT ![s] = r], r.open \/ (s = socket /\ socket' = 0),
         socket' \in {socket, 0}, UNCHANGED <<subscription, listened>>
  PROVE  Linked' /\ sockets' \in Seq(Socks) /\ Len(sockets') = Len(sockets)
<1>1. /\ sockets' \in Seq(Socks) /\ Len(sockets') = Len(sockets)
      /\ sockets'[s] = r /\ \A i \in DOMAIN sockets \ {s} : sockets'[i] = sockets[i]
  BY OneSocket
<1>2. DOMAIN sockets = 1 .. Len(sockets) /\ socket \in 0 .. Len(sockets)
      /\ subscription \in 0 .. Len(sockets)
  BY DEF IndInv, Typed
<1>3. socket # 0 => socket \in DOMAIN sockets
  BY <1>2
<1>4. subscription # 0 => subscription \in DOMAIN sockets
  BY <1>2
<1>5. socket' # 0 => sockets'[socket'].open
  BY <1>1, <1>3 DEF IndInv, Linked
<1>6. subscription # 0 => subscription \in listened \/ ~sockets'[subscription].up
  BY <1>1, <1>4 DEF IndInv, Linked
<1> QED
  BY <1>1, <1>5, <1>6 DEF Linked

LEMMA CallRun ==
  ASSUME IndInv, NEW c \in Calls, Call(c)
  PROVE  Run'
<1>1. selected \in Phones /\ NoDevice \in Phones /\ Devices \subseteq Phones
  BY DEF IndInv, Typed, Phones
<1>2. CASE ConnectAdb(c)
  BY <1>1, <1>2, CallBegins DEF ConnectAdb, link, Ops, PCs, Waiting
<1>3. CASE QuickConnectAdb(c)
  BY <1>1, <1>3, CallBegins DEF QuickConnectAdb, link, Ops, PCs, Waiting
<1>4. ASSUME NEW d \in Devices, ConnectWireless(c, d) PROVE Run'
  BY <1>1, <1>4, CallBegins DEF ConnectWireless, link, Ops, PCs, Waiting
<1>5. ASSUME NEW d \in Devices, SwitchAdbDevice(c, d) PROVE Run'
  BY <1>1, <1>5, CallBegins DEF SwitchAdbDevice, Ops, PCs, Waiting
<1>6. CASE Disconnect(c)
  BY <1>1, <1>6, CallBegins DEF Disconnect, Ops, PCs, Waiting
<1>7. CASE Ask(c)
  <2> DEFINE k == <<c, "call">>
             r == [NewCo EXCEPT !.pc = "ask", !.op = "ask", !.socket = socket,
                                !.answer = IF socket = 0 THEN "failed" ELSE "pending"]
  <2>1. k \in Coroutines /\ co' = [co EXCEPT ![k] = r] /\ UNCHANGED sockets
    BY <1>7 DEF Ask, Coroutines, link
  <2>2. socket \in Nat /\ (socket # 0 => socket \in 1 .. Len(sockets))
    BY DEF IndInv, Typed
  <2>3. NewCo \in Cos(Len(sockets))
    BY Fields, <2>1, NewCoType
  <2>4. r \in Cos(Len(sockets))
    BY <2>2, <2>3 DEF Cos, PCs, Waiting, Ops
  <2> HIDE DEF k, r
  <2> QED
    BY <2>1, <2>4, OneRunsHere
<1> QED
  BY <1>2, <1>3, <1>4, <1>5, <1>6, <1>7 DEF Call

LEMMA ConnectingRun ==
  ASSUME IndInv, NEW k \in Coroutines,
         Scanned(k) \/ Paired(k) \/ Forwarded(k) \/ AdbFails(k) \/ Opened(k) \/ OpenFails(k)
  PROVE  Run'
<1>0. /\ co[k] \in Cos(Len(sockets)) /\ co[k].op \in Ops /\ co[k].device \in Phones
      /\ Devices \subseteq Phones /\ selected \in Phones /\ Len(sockets) \in Nat
  BY Fields DEF IndInv, Run, Typed, Phones
<1>f. [NewCo EXCEPT !.pc = "done"] \in Cos(Len(sockets))
  BY <1>0, NewCoType
<1>1. CASE Scanned(k)
  <2>1. PICK d \in Phones : co' = [co EXCEPT ![k].pc = "forward", ![k].device = d]
    BY <1>0, <1>1 DEF Scanned
  <2> DEFINE r == [co[k] EXCEPT !.pc = "forward", !.device = d]
  <2>2. r \in Cos(Len(sockets)) /\ co' = [co EXCEPT ![k] = r]
    BY <1>0, <1>1, <2>1 DEF Scanned, Cos, PCs, Waiting
  <2>3. UNCHANGED sockets
    BY <1>1 DEF Scanned, link
  <2> HIDE DEF r
  <2> QED
    BY <2>2, <2>3, OneRunsHere
<1>2. CASE Paired(k)
  <2>1. UNCHANGED sockets /\ co[k].pc = "pair"
    BY <1>2 DEF Paired, link
  <2>2. CASE co' = [co EXCEPT ![k].pc = "forward"]
    <3> DEFINE r == [co[k] EXCEPT !.pc = "forward"]
    <3>1. r \in Cos(Len(sockets)) /\ co' = [co EXCEPT ![k] = r]
      BY <1>0, <2>1, <2>2 DEF Cos, PCs, Waiting
    <3> HIDE DEF r
    <3> QED
      BY <2>1, <3>1, OneRunsHere
  <2>3. CASE Finishes(k)
    BY <2>1, <2>3, FinishesRuns
  <2> QED
    BY <1>2, <2>2, <2>3 DEF Paired
<1>3. CASE Forwarded(k)
  <2>1. UNCHANGED sockets /\ co[k].pc = "forward"
    BY <1>3 DEF Forwarded, link
  <2>2. CASE co' = [co EXCEPT ![k].pc = "open", ![k].op = "connect"]
    <3> DEFINE r == [co[k] EXCEPT !.pc = "open", !.op = "connect"]
    <3>1. r \in Cos(Len(sockets)) /\ co' = [co EXCEPT ![k] = r]
      BY <1>0, <2>1, <2>2 DEF Cos, PCs, Waiting, Ops
    <3> HIDE DEF r
    <3> QED
      BY <2>1, <3>1, OneRunsHere
  <2>3. CASE Finishes(k)
    BY <2>1, <2>3, FinishesRuns
  <2> QED
    BY <1>3, <2>2, <2>3 DEF Forwarded
<1>4. CASE AdbFails(k)
  <2>1. UNCHANGED sockets
    BY <1>4 DEF AdbFails
  <2>2. CASE HandleError([co EXCEPT ![k] = [NewCo EXCEPT !.pc = "done"]])
    BY <1>f, <2>1, <2>2, FailedRuns DEF HandleError
  <2>3. CASE Finishes(k)
    BY <2>1, <2>3, FinishesRuns
  <2> QED
    BY <1>4, <2>2, <2>3 DEF AdbFails
<1>5. CASE Opened(k)
  <2> DEFINE s == Len(sockets) + 1
             r == [co[k] EXCEPT !.pc = "greet", !.left = Greetings, !.socket = s,
                                !.answer = "pending"]
  <2>1. Len(sockets') = s /\ Len(sockets) <= s /\ s \in Nat /\ s \in 1 .. s
    BY <1>0, <1>5, OpensASocket DEF Opened
  <2>2. co' = [co EXCEPT ![k] = r]
    BY <1>5 DEF Opened
  <2> HIDE DEF s
  <2>3. r \in Cos(s)
    <3>1. co[k] \in Cos(s) /\ "greet" \in PCs /\ "greet" \in Waiting /\ 3 \in 0 .. 3
      BY <1>0, <2>1, MoreSockets DEF PCs, Waiting
    <3> QED
      BY <2>1, <3>1 DEF Cos, Greetings
  <2> HIDE DEF r
  <2> QED
    BY <2>1, <2>2, <2>3, OneRuns
<1>6. CASE OpenFails(k)
  <2> DEFINE n == Len(sockets')
             r == [co[k] EXCEPT !.pc = "cancel", !.answer = "none"]
  <2>1. n \in Nat /\ Len(sockets) <= n
    <3>1. CASE UNCHANGED sockets
      BY <1>0, <3>1
    <3>2. CASE sockets' = Append(sockets, NewSocket)
      BY <1>0, <3>2, OpensASocket
    <3> QED
      BY <1>6, <3>1, <3>2 DEF OpenFails
  <2>2. co' = [co EXCEPT ![k] = r]
    BY <1>6 DEF OpenFails, Closes
  <2>3. r \in Cos(Len(sockets))
    BY <1>0 DEF Cos, PCs, Waiting
  <2> HIDE DEF r
  <2>4. r \in Cos(n)
    <3> HIDE DEF n
    <3> QED
      BY <1>0, <2>1, <2>3, MoreSockets
  <2> QED
    BY <2>1, <2>2, <2>4, OneRuns
<1> QED
  BY <1>1, <1>2, <1>3, <1>4, <1>5, <1>6

LEMMA RequestsRun ==
  ASSUME IndInv, NEW k \in Coroutines,
         \/ Greeted(k) \/ GreetingFails(k) \/ Answered(k) \/ TimesOut(k) \/ AskReturns(k)
         \/ SendHeartbeat(k) \/ HeartbeatAnswered(k) \/ HeartbeatFails(k)
  PROVE  Run'
<1>0. UNCHANGED sockets /\ co[k] \in Cos(Len(sockets)) /\ co[k].left \in 0 .. Greetings
  BY Fields DEF IndInv, Run, Greeted, GreetingFails, Answered, TimesOut, AskReturns,
       SendHeartbeat, HeartbeatAnswered, HeartbeatFails, link
<1>1. CASE Finishes(k)
  BY <1>0, <1>1, FinishesRuns
<1>2. CASE \/ co[k].left > 1 /\ Requests(k, "greet", co[k].left - 1)
           \/ Requests(k, "ask", 0)
  <2>1. 0 \in 0 .. Greetings /\ (co[k].left > 1 => co[k].left - 1 \in 0 .. Greetings)
    BY <1>0 DEF Greetings
  <2>2. "greet" \in Waiting /\ "ask" \in Waiting
    BY DEF Waiting
  <2> QED
    BY <1>0, <1>2, <2>1, <2>2, RequestRuns
<1>3. CASE Closes(k)
  BY <1>0, <1>3, Turns DEF Closes, PCs, Waiting
<1>4. CASE \E answer \in {"ok", "failed"} :
             co' = [co EXCEPT ![k].answer = answer] /\ co[k].answer = "pending"
  <2>1. PICK answer \in {"ok", "failed"} :
             co' = [co EXCEPT ![k].answer = answer] /\ co[k].answer = "pending"
    BY <1>4
  <2> DEFINE r == [co[k] EXCEPT !.answer = answer]
  <2>2. r \in Cos(Len(sockets)) /\ co' = [co EXCEPT ![k] = r]
    BY <1>0, <2>1 DEF Cos
  <2> HIDE DEF r
  <2> QED
    BY <1>0, <2>2, OneRunsHere
<1>5. CASE HeartbeatFails(k)
  <2> DEFINE r == [co[k] EXCEPT !.pc = "cancel", !.answer = "none"]
  <2>1. r \in Cos(Len(sockets))
    BY <1>0 DEF Cos, PCs, Waiting
  <2>2. co' = Failed([co EXCEPT ![k] = r])
    BY <1>5 DEF HeartbeatFails
  <2> HIDE DEF r
  <2> QED
    BY <1>0, <2>1, <2>2, FailedRuns
<1> QED
  BY <1>1, <1>2, <1>3, <1>4, <1>5 DEF Greeted, GreetingFails, Answered, TimesOut, AskReturns,
     SendHeartbeat, HeartbeatAnswered

LEMMA ClosingRun ==
  ASSUME IndInv, NEW k \in Coroutines, TakeSocket(k) \/ TakeForward(k) \/ Closed(k),
         Len(sockets') = Len(sockets), TakeSocket(k) \/ UNCHANGED sockets
  PROVE  Run'
<1>0. co[k] \in Cos(Len(sockets)) /\ Len(sockets) \in Nat
  BY Fields DEF IndInv, Run
<1>1. CASE TakeSocket(k)
  <2> DEFINE r == [co[k] EXCEPT !.pc = "close"]
  <2>1. r \in Cos(Len(sockets))
    BY <1>0, <1>1 DEF TakeSocket, Cos, PCs, Waiting
  <2>2. co' = Failed([co EXCEPT ![k] = r])
    BY <1>1 DEF TakeSocket
  <2> HIDE DEF r
  <2> QED
    BY <2>1, <2>2, FailedRuns
<1>2. ASSUME UNCHANGED sockets, NEW pc \in {"remove", "forward"}, co[k].pc \in {"close", "remove"},
             co' = [co EXCEPT ![k].pc = pc]
      PROVE  Run'
  <2> DEFINE r == [co[k] EXCEPT !.pc = pc]
  <2>1. r \in Cos(Len(sockets)) /\ co' = [co EXCEPT ![k] = r]
    BY <1>0, <1>2 DEF Cos, PCs, Waiting
  <2> HIDE DEF r
  <2> QED
    BY <1>2, <2>1, OneRunsHere
<1>3. CASE TakeForward(k)
  BY <1>2, <1>3 DEF TakeForward, link
<1>4. CASE Closed(k)
  <2>1. UNCHANGED sockets /\ co[k].pc = "remove"
    BY <1>4 DEF Closed
  <2>2. [NewCo EXCEPT !.pc = "done"] \in Cos(Len(sockets))
    BY <1>0, NewCoType
  <2>3. CASE Finishes(k)
    BY <2>1, <2>3, FinishesRuns
  <2>4. CASE co' = [co EXCEPT ![k].pc = "forward"]
    BY <1>2, <2>1, <2>4
  <2>5. CASE HandleError([co EXCEPT ![k] = [NewCo EXCEPT !.pc = "done"]])
    BY <2>1, <2>2, <2>5, FailedRuns DEF HandleError
  <2> QED
    BY <1>4, <2>3, <2>4, <2>5 DEF Closed
<1> QED
  BY <1>1, <1>3, <1>4

-------------------------------------------------------------------------------
(* The socket, its subscription and the timer. *)

(* Where no socket comes, goes or changes, what is listened to changes only    *)
(* with the subscription.                                                     *)
LEMMA LinkStays ==
  ASSUME IndInv, UNCHANGED sockets, socket' \in {socket, 0},
         \/ UNCHANGED <<subscription, listened>>
         \/ subscription' = 0 /\ listened' \subseteq listened
  PROVE  Linked'
BY DEF IndInv, Linked

LEMMA TypedStays ==
  ASSUME IndInv, UNCHANGED sockets, socket' \in {socket, 0}, subscription' \in {subscription, 0},
         listened' \subseteq listened, timer' \in Calls \cup {0}, ticking' \subseteq Calls,
         status' \in {"disconnected", "connecting", "connected"}, selected' \in Phones,
         forwardSerial' \in Phones, forward' \in Phones, faults' \in 0 .. MaxFaults
  PROVE  Typed'
BY DEF IndInv, Typed

LEMMA FaultType ==
  ASSUME IndInv, Fault
  PROVE  faults' \in 0 .. MaxFaults
<1>1. faults \in 0 .. MaxFaults /\ MaxFaults \in Nat
  BY DesktopConstants DEF IndInv, Typed
<1>2. faults < MaxFaults /\ faults' = faults + 1
  BY DEF Fault
<1> QED
  BY <1>1, <1>2

(* The steps that open, close or break no socket. *)
LEMMA QuietSteps ==
  ASSUME IndInv, NEW k \in Coroutines,
         \/ Scanned(k) \/ Paired(k) \/ Forwarded(k) \/ AdbFails(k) \/ Greeted(k)
         \/ GreetingFails(k) \/ Answered(k) \/ TimesOut(k) \/ AskReturns(k) \/ SendHeartbeat(k)
         \/ HeartbeatAnswered(k) \/ HeartbeatFails(k) \/ TakeForward(k) \/ Closed(k)
  PROVE  Typed' /\ Linked' /\ UNCHANGED sockets
<1>0. /\ co[k].device \in Phones /\ k[1] \in Calls /\ Devices \subseteq Phones
      /\ NoDevice \in Phones /\ faults \in 0 .. MaxFaults /\ forward \in Phones
      /\ forwardSerial \in Phones /\ selected \in Phones /\ ticking \subseteq Calls
      /\ timer \in Calls \cup {0} /\ status \in {"disconnected", "connecting", "connected"}
  BY Fields DEF IndInv, Typed, Phones
<1>1. UNCHANGED sockets /\ socket' \in {socket, 0}
  BY DEF Scanned, Paired, Forwarded, AdbFails, Greeted, GreetingFails, Answered, TimesOut,
     AskReturns, SendHeartbeat, HeartbeatAnswered, HeartbeatFails, TakeForward, Closed, link,
     HandleError
<1>2. /\ \/ UNCHANGED <<subscription, listened>>
         \/ subscription' = 0 /\ listened' \subseteq listened
      /\ timer' \in Calls \cup {0} /\ ticking' \subseteq Calls
  BY <1>0 DEF Scanned, Paired, Forwarded, AdbFails, Greeted, GreetingFails, Answered, TimesOut,
     AskReturns, SendHeartbeat, HeartbeatAnswered, HeartbeatFails, TakeForward, Closed, link,
     HandleError, CancelSubscription
<1>3. /\ status' \in {"disconnected", "connecting", "connected"} /\ selected' \in Phones
      /\ forwardSerial' \in Phones /\ forward' \in Phones
  BY <1>0 DEF Scanned, Paired, Forwarded, AdbFails, Greeted, GreetingFails, Answered, TimesOut,
     AskReturns, SendHeartbeat, HeartbeatAnswered, HeartbeatFails, TakeForward, Closed,
     HandleError
<1>4. faults' \in 0 .. MaxFaults
  <2>1. Fault \/ UNCHANGED faults
    BY DEF Scanned, Paired, Forwarded, AdbFails, Greeted, GreetingFails, Answered, TimesOut,
       AskReturns, SendHeartbeat, HeartbeatAnswered, HeartbeatFails, TakeForward, Closed
  <2> QED
    BY <1>0, <2>1, FaultType
<1> QED
  BY <1>1, <1>2, <1>3, <1>4, LinkStays, TypedStays

LEMMA CallSteps ==
  ASSUME IndInv, NEW c \in Calls, Call(c)
  PROVE  Typed' /\ Linked' /\ UNCHANGED sockets
<1>1. UNCHANGED <<sockets, socket, status, selected, forwardSerial, forward, faults>>
  BY DEF Call, ConnectAdb, QuickConnectAdb, ConnectWireless, SwitchAdbDevice, Disconnect, Ask,
     link
<1>2. /\ \/ UNCHANGED <<subscription, listened>>
         \/ subscription' = 0 /\ listened' \subseteq listened
      /\ timer' \in Calls \cup {0} /\ ticking' \subseteq Calls
  BY DEF IndInv, Typed, Call, ConnectAdb, QuickConnectAdb, ConnectWireless, SwitchAdbDevice,
     Disconnect, Ask, link, CancelSubscription
<1>3. /\ status \in {"disconnected", "connecting", "connected"} /\ selected \in Phones
      /\ forwardSerial \in Phones /\ forward \in Phones /\ faults \in 0 .. MaxFaults
  BY DEF IndInv, Typed
<1> QED
  BY <1>1, <1>2, <1>3, LinkStays, TypedStays

(* A socket is opened, for the client or for nobody. *)
LEMMA OpeningSteps ==
  ASSUME IndInv, NEW k \in Coroutines, Opened(k) \/ OpenFails(k)
  PROVE  Typed' /\ Linked'
<1>0. /\ socket \in 0 .. Len(sockets) /\ subscription \in 0 .. Len(sockets)
      /\ listened \subseteq DOMAIN sockets /\ Len(sockets) \in Nat
      /\ DOMAIN sockets = 1 .. Len(sockets)
  BY DEF IndInv, Typed
<1>1. CASE Opened(k)
  <2> DEFINE s == Len(sockets) + 1
  <2>1. /\ socket' = s /\ subscription' = s /\ listened' = listened \cup {s}
        /\ UNCHANGED <<status, selected, timer, forwardSerial, forward, ticking, faults>>
        /\ sockets' = Append(sockets, NewSocket)
    BY <1>1 DEF Opened
  <2>2. /\ Len(sockets') = s /\ s \in Nat /\ sockets' \in Seq(Socks)
        /\ DOMAIN sockets' = 1 .. s /\ sockets'[s].open
    BY <2>1, OpensASocket
  <2>3. s \in 0 .. s /\ s \in 1 .. s /\ 1 .. Len(sockets) \subseteq 1 .. s
    BY <1>0
  <2> HIDE DEF s
  <2>4. Typed'
    BY <1>0, <2>1, <2>2, <2>3 DEF IndInv, Typed
  <2>5. Linked'
    BY <2>1, <2>2 DEF Linked
  <2> QED
    BY <2>4, <2>5
<1>2. CASE OpenFails(k)
  <2>1. /\ UNCHANGED <<status, selected, socket, forwardSerial, forward>>
        /\ timer' = 0 /\ ticking' \subseteq ticking /\ subscription' = 0
        /\ listened' \subseteq listened
        /\ UNCHANGED sockets \/ sockets' = Append(sockets, NewSocket)
        /\ Fault \/ UNCHANGED faults
    BY <1>2 DEF OpenFails, CancelSubscription
  <2>2. faults' \in 0 .. MaxFaults
    BY <2>1, FaultType DEF IndInv, Typed
  <2>3. /\ sockets' \in Seq(Socks) /\ Len(sockets) <= Len(sockets') /\ Len(sockets') \in Nat
        /\ DOMAIN sockets \subseteq DOMAIN sockets'
        /\ \A i \in DOMAIN sockets : sockets'[i] = sockets[i]
    <3>1. CASE UNCHANGED sockets
      BY <1>0, <3>1 DEF IndInv, Typed
    <3>2. CASE sockets' = Append(sockets, NewSocket)
      BY <1>0, <3>2, OpensASocket
    <3> QED
      BY <2>1, <3>1, <3>2
  <2>4. socket \in 0 .. Len(sockets')
    BY <1>0, <2>3
  <2>5. Typed'
    BY <1>0, <2>1, <2>2, <2>3, <2>4 DEF IndInv, Typed
  <2>6. socket # 0 => socket \in DOMAIN sockets
    BY <1>0
  <2>7. Linked'
    BY <2>1, <2>3, <2>6 DEF IndInv, Linked
  <2> QED
    BY <2>5, <2>7
<1> QED
  BY <1>1, <1>2

(* A socket is closed by the program. *)
LEMMA TakeSocketSteps ==
  ASSUME IndInv, NEW k \in Coroutines, TakeSocket(k)
  PROVE  Typed' /\ Linked' /\ Len(sockets') = Len(sockets)
<1>0. /\ socket' = 0
      /\ UNCHANGED <<status, selected, subscription, timer, forwardSerial, forward, listened,
                     ticking, faults>>
  BY DEF TakeSocket
<1>1. CASE socket = 0
  <2>1. UNCHANGED sockets
    BY <1>1 DEF TakeSocket
  <2> QED
    BY <1>0, <2>1, LinkStays DEF IndInv, Typed
<1>2. CASE socket # 0
  <2> DEFINE r == [sockets[socket] EXCEPT !.open = FALSE, !.up = FALSE]
  <2>1. socket \in DOMAIN sockets
    BY <1>2 DEF IndInv, Typed
  <2>2. r \in Socks /\ ~r.up
    BY <2>1, SocketType DEF Socks
  <2>3. sockets' = [sockets EXCEPT ![socket] = r]
    BY <1>2 DEF TakeSocket
  <2> HIDE DEF r
  <2>4. Linked' /\ sockets' \in Seq(Socks) /\ Len(sockets') = Len(sockets)
        /\ DOMAIN sockets' = DOMAIN sockets
    BY <1>0, <2>1, <2>2, <2>3, Ends, OneSocket
  <2>5. Typed'
    BY <1>0, <2>4 DEF IndInv, Typed
  <2> QED
    BY <2>4, <2>5
<1> QED
  BY <1>1, <1>2

(* A link fails, or its end is noticed. *)
LEMMA SocketSteps ==
  ASSUME IndInv, NEW s \in DOMAIN sockets, LinkFails(s) \/ HandleClosed(s)
  PROVE  IndInv'
<1>0. Len(sockets) \in Nat /\ co \in [Coroutines -> Cos(Len(sockets))]
  BY DEF IndInv, Typed, Run
<1>1. CASE LinkFails(s)
  <2> DEFINE r == [sockets[s] EXCEPT !.up = FALSE]
  <2>0. /\ UNCHANGED <<status, selected, socket, subscription, timer, forwardSerial, forward,
                       listened, ticking, co>>
        /\ faults' \in 0 .. MaxFaults
    BY <1>1, FaultType DEF LinkFails
  <2>1. r \in Socks /\ ~r.up /\ r.open = sockets[s].open
    BY SocketType DEF Socks
  <2>2. sockets' = [sockets EXCEPT ![s] = r]
    BY <1>1 DEF LinkFails
  <2> HIDE DEF r
  <2>3. /\ sockets' \in Seq(Socks) /\ Len(sockets') = Len(sockets)
        /\ DOMAIN sockets' = DOMAIN sockets
        /\ sockets'[s] = r /\ \A i \in DOMAIN sockets \ {s} : sockets'[i] = sockets[i]
    BY <2>1, <2>2, OneSocket
  <2>4. Typed'
    BY <2>0, <2>3 DEF IndInv, Typed
  <2>5. socket # 0 => socket \in DOMAIN sockets
    BY DEF IndInv, Typed
  <2>6. subscription # 0 => subscription \in DOMAIN sockets
    BY DEF IndInv, Typed
  <2>7. Linked'
    BY <2>0, <2>1, <2>3, <2>5, <2>6 DEF IndInv, Linked
  <2>8. Run'
    BY <1>0, <2>0, <2>3 DEF Run
  <2> QED
    BY <2>4, <2>7, <2>8 DEF IndInv
<1>2. CASE HandleClosed(s)
  <2>1. /\ ~sockets[s].up /\ listened' = listened \ {s} /\ socket' = 0
        /\ ticking' \subseteq ticking /\ status' = "disconnected" /\ co' = Failed(co)
        /\ UNCHANGED <<selected, subscription, timer, forwardSerial, forward, sockets, faults>>
    BY <1>2 DEF HandleClosed, HandleError
  <2>2. Typed'
    BY <2>1 DEF IndInv, Typed
  <2>3. Linked'
    BY <2>1 DEF IndInv, Linked
  <2>4. Run'
    BY <1>0, <2>1, FailedRun DEF Run
  <2> QED
    BY <2>2, <2>3, <2>4 DEF IndInv
<1> QED
  BY <1>1, <1>2

-------------------------------------------------------------------------------
LEMMA InitIndInv == Init => IndInv
<1> SUFFICES ASSUME Init PROVE IndInv
  OBVIOUS
<1>1. sockets = <<>> /\ Len(sockets) = 0 /\ sockets \in Seq(Socks) /\ DOMAIN sockets = {}
  BY DEF Init
<1>2. Typed
  <2>1. 0 \in 0 .. 0 /\ 0 \in 0 .. MaxFaults
    BY DesktopConstants
  <2> QED
    BY <1>1, <2>1 DEF Init, Typed, Phones
<1>3. Linked
  BY DEF Init, Linked
<1>4. Run
  <2>1. NewCo \in Cos(0)
    BY NewCoType
  <2> QED
    BY <1>1, <2>1 DEF Init, Run
<1> QED
  BY <1>2, <1>3, <1>4 DEF IndInv

LEMMA NextIndInv == IndInv /\ [Next]_vars => IndInv'
<1> SUFFICES ASSUME IndInv, [Next]_vars PROVE IndInv'
  OBVIOUS
<1>1. ASSUME NEW c \in Calls, Call(c) PROVE IndInv'
  BY <1>1, CallRun, CallSteps DEF IndInv
<1>2. ASSUME NEW k \in Coroutines, Coroutine(k) \/ AdbFails(k) PROVE IndInv'
  <2>1. CASE Opened(k) \/ OpenFails(k)
    BY <2>1, OpeningSteps, ConnectingRun DEF IndInv
  <2>2. CASE TakeSocket(k)
    BY <2>2, TakeSocketSteps, ClosingRun DEF IndInv
  <2>3. CASE TakeForward(k) \/ Closed(k)
    <3>1. Typed' /\ Linked' /\ UNCHANGED sockets
      BY <2>3, QuietSteps
    <3> QED
      BY <2>3, <3>1, ClosingRun DEF IndInv
  <2>4. CASE Scanned(k) \/ Paired(k) \/ Forwarded(k) \/ AdbFails(k)
    BY <2>4, QuietSteps, ConnectingRun DEF IndInv
  <2>5. CASE \/ Greeted(k) \/ GreetingFails(k) \/ Answered(k) \/ TimesOut(k) \/ AskReturns(k)
             \/ SendHeartbeat(k) \/ HeartbeatAnswered(k) \/ HeartbeatFails(k)
    BY <2>5, QuietSteps, RequestsRun DEF IndInv
  <2> QED
    BY <1>2, <2>1, <2>2, <2>3, <2>4, <2>5 DEF Coroutine
<1>3. ASSUME NEW s \in DOMAIN sockets, LinkFails(s) \/ HandleClosed(s) PROVE IndInv'
  BY <1>3, SocketSteps
<1>4. CASE UNCHANGED vars
  BY <1>4 DEF vars, IndInv, Typed, Linked, Run
<1> QED
  BY <1>1, <1>2, <1>3, <1>4 DEF Next

(* Whatever the calls, the heartbeats and the faults interleave to, the        *)
(* program never keeps a socket it has closed, listens to what it believes it  *)
(* listens to for as long as the link works, and waits for an answer only on   *)
(* a socket that was opened.                                                   *)
THEOREM TypeCorrect == Spec => []TypeOK
<1>1. IndInv => TypeOK
  <2> SUFFICES ASSUME IndInv PROVE TypeOK
    OBVIOUS
  <2>1. ASSUME NEW k \in Coroutines
        PROVE  /\ co[k].pc \in {"idle", "scan", "pair", "forward", "open", "greet", "ask",
                                "cancel", "close", "remove", "done"}
               /\ co[k].answer # "none" <=> co[k].pc \in {"greet", "ask"}
               /\ co[k].answer = "pending" => co[k].socket \in DOMAIN sockets
    BY Fields DEF PCs, Waiting
  <2> QED
    BY <2>1 DEF IndInv, Typed, Linked, Phones, TypeOK
<1>2. Spec => []IndInv
  BY InitIndInv, NextIndInv, PTL DEF Spec
<1> QED
  BY <1>1, <1>2, PTL
==============================================================================
