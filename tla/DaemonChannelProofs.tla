-------------------------- MODULE DaemonChannelProofs --------------------------
(***************************************************************************)
(* Proofs about DaemonChannel, for every set of calls, slow or not, every  *)
(* size of the pool and number of polls, and any number of deaths.         *)
(***************************************************************************)
EXTENDS DaemonChannel, FiniteSetTheorems, WellFoundedInduction, TLAPS

Conns == [open: BOOLEAN, stage: {"queued", "reading", "running", "closed"},
          request: Calls \cup {NoCall}, reply: Calls \cup {NoCall}]

Coroutines == [pc: PCs, attempt: 0..MaxAttempts, polls: Nat, seen: BOOLEAN,
               misled: BOOLEAN, result: {"none", "ok", "error", "silent"}]

Typed ==
  /\ conns \in Seq(Conns)
  /\ call \in [Calls -> Coroutines]
  /\ executed \in [Calls -> Nat]
  /\ lock \in Calls \cup {NoCall}

(* An attempt begins with TakeLock, or with the helper found alive after   *)
(* the first one has failed.                                               *)
Ordered(k) ==
  /\ k.pc \in {"idle", "lock"} => k.attempt = 0
  /\ k.pc \in {"probe", "check", "pinged", "stamp", "start"} => k.attempt < MaxAttempts
  /\ k.pc \in {"connect", "send", "wait", "invalidate"} => k.attempt > 0

(* How many requests a call may have sent by now. *)
Allowed(k) ==
  IF k.attempt > 0 /\ k.pc \in {"connect", "send"} THEN k.attempt - 1 ELSE k.attempt

(* The connections that carry a request of c which was not executed yet.   *)
Carrying(all, c) == {i \in DOMAIN all : all[i].request = c}

(* What was executed and what may still be are not more than what was sent. *)
Counted ==
  \A c \in Calls : executed[c] + Cardinality(Carrying(conns, c)) <= Allowed(call[c])

(* An answer comes from an execution. *)
Answered ==
  /\ \A i \in DOMAIN conns : \A c \in Calls : conns[i].reply = c => executed[c] > 0
  /\ \A c \in Calls : call[c].result = "ok" => executed[c] > 0

(* An attempt is made under connectionLock, which is kept from the first   *)
(* to the second, and what is sent or awaited is so on a connection.       *)
Locked ==
  /\ conn \in DOMAIN conns \cup {0}
  /\ \A c \in Calls :
       /\ (call[c].attempt > 0 /\ call[c].pc # "done") => lock = c
       /\ call[c].pc \in {"send", "wait"} => conn # 0

IndInv ==
  /\ Typed
  /\ \A c \in Calls : Ordered(call[c])
  /\ Locked
  /\ Counted
  /\ Answered

-------------------------------------------------------------------------------
(* Counting. *)

LEMMA CarryingFinite ==
  ASSUME NEW all \in Seq(Conns), NEW c
  PROVE  IsFiniteSet(Carrying(all, c)) /\ Cardinality(Carrying(all, c)) \in Nat
<1>1. DOMAIN all = 1..Len(all) /\ Len(all) \in Nat
  OBVIOUS
<1>2. IsFiniteSet(1..Len(all))
  BY <1>1, FS_Interval
<1>3. Carrying(all, c) \in SUBSET (1..Len(all))
  BY <1>1 DEF Carrying
<1>4. IsFiniteSet(Carrying(all, c))
  BY <1>2, <1>3, FS_Subset
<1> QED
  BY <1>4, FS_CardinalityType

(* Fewer connections carry requests. *)
LEMMA FewerCarry ==
  ASSUME NEW all \in Seq(Conns), NEW some \in Seq(Conns), NEW c,
         Carrying(some, c) \subseteq Carrying(all, c)
  PROVE  Cardinality(Carrying(some, c)) <= Cardinality(Carrying(all, c))
BY CarryingFinite, FS_Subset

(* One more connection carries a request. *)
LEMMA OneMoreCarries ==
  ASSUME NEW all \in Seq(Conns), NEW more \in Seq(Conns), NEW c, NEW i,
         Carrying(more, c) \subseteq Carrying(all, c) \cup {i}
  PROVE  Cardinality(Carrying(more, c)) <= Cardinality(Carrying(all, c)) + 1
<1> DEFINE S == Carrying(all, c)
           T == Carrying(more, c)
<1>1. IsFiniteSet(S) /\ Cardinality(S) \in Nat /\ Cardinality(T) \in Nat
  BY CarryingFinite
<1> HIDE DEF S, T
<1>2. IsFiniteSet(S \cup {i}) /\ Cardinality(S \cup {i}) <= Cardinality(S) + 1
      /\ Cardinality(S \cup {i}) \in Nat
  <2>1. CASE i \in S
    <3>1. S \cup {i} = S
      BY <2>1
    <3>2. Cardinality(S) <= Cardinality(S) + 1
      BY <1>1
    <3> QED
      BY <1>1, <3>1, <3>2, Zenon
  <2>2. CASE i \notin S
    <3>1. IsFiniteSet(S \cup {i}) /\ Cardinality(S \cup {i}) = Cardinality(S) + 1
      BY <1>1, <2>2, FS_AddElement
    <3> QED
      BY <1>1, <3>1
  <2> QED
    BY <2>1, <2>2
<1>3. T \in SUBSET (S \cup {i})
  BY DEF S, T
<1>4. Cardinality(T) <= Cardinality(S \cup {i})
  BY <1>2, <1>3, FS_Subset
<1>5. Cardinality(T) <= Cardinality(S) + 1
  BY <1>1, <1>2, <1>4
<1> QED
  BY <1>5 DEF S, T

(* One connection carries its request no more. *)
LEMMA OneFewerCarries ==
  ASSUME NEW all \in Seq(Conns), NEW fewer \in Seq(Conns), NEW c,
         NEW i \in Carrying(all, c),
         Carrying(fewer, c) \subseteq Carrying(all, c) \ {i}
  PROVE  Cardinality(Carrying(fewer, c)) + 1 <= Cardinality(Carrying(all, c))
<1> DEFINE S == Carrying(all, c)
           T == Carrying(fewer, c)
<1>1. IsFiniteSet(S) /\ Cardinality(S) \in Nat /\ Cardinality(T) \in Nat /\ i \in S
  BY CarryingFinite
<1>2. T \in SUBSET (S \ {i})
  OBVIOUS
<1> HIDE DEF S, T
<1>3. IsFiniteSet(S \ {i}) /\ Cardinality(S \ {i}) = Cardinality(S) - 1
  BY <1>1, FS_RemoveElement
<1>4. Cardinality(T) <= Cardinality(S \ {i})
  BY <1>2, <1>3, FS_Subset
<1>5. Cardinality(T) + 1 <= Cardinality(S)
  BY <1>1, <1>3, <1>4
<1> QED
  BY <1>5 DEF S, T

LEMMA AllowedType ==
  ASSUME NEW k \in Coroutines
  PROVE  Allowed(k) \in 0..MaxAttempts /\ (k.attempt = 0 => Allowed(k) = 0)
BY DEF Coroutines, Allowed, MaxAttempts

LEMMA NewTypes == NewConn \in Conns /\ NewCall \in Coroutines
BY DEF NewConn, Conns, NewCall, Coroutines, PCs, MaxAttempts

LEMMA InitIndInv == Init => IndInv
<1> SUFFICES ASSUME Init PROVE IndInv
  OBVIOUS
<1> USE NewTypes DEF Init
<1>1. conns \in Seq(Conns) /\ conns = <<>> /\ DOMAIN conns = {}
  OBVIOUS
<1>2. Typed
  BY <1>1 DEF Typed
<1>3. \A c \in Calls : /\ call[c] = NewCall /\ executed[c] = 0
                       /\ Cardinality(Carrying(conns, c)) = 0
  BY <1>1, FS_EmptySet DEF Carrying
<1>4. NewCall.attempt = 0 /\ NewCall.pc = "idle" /\ NewCall.result = "none"
  BY DEF NewCall
<1> QED
  BY <1>1, <1>2, <1>3, <1>4, AllowedType DEF IndInv, Counted, Answered, Ordered, Locked

-------------------------------------------------------------------------------
(* Steps of a call. *)

(* The call goes on in order; what it takes, leaves or does under the lock *)
(* does not concern the others.                                            *)
Moves(c) ==
  /\ call' \in [Calls -> Coroutines]
  /\ \A d \in Calls \ {c} : call'[d] = call[d]
  /\ Ordered(call'[c])
  /\ (call'[c].attempt > 0 /\ call'[c].pc # "done") => lock' = c
  /\ lock' \in Calls \cup {NoCall}
  /\ \A d \in Calls \ {c} : lock = d => lock' = d
  /\ conn' = conn \/ lock = c
  /\ call'[c].pc \in {"send", "wait"} => conn' # 0

(* What it may have sent has not become less. *)
Follows(c) ==
  /\ Moves(c)
  /\ Allowed(call'[c]) >= Allowed(call[c])
  /\ call'[c].result = "ok" => executed[c] > 0

(* No call moves. *)
Stands ==
  /\ UNCHANGED <<call, lock>>
  /\ conn' = conn \/ lock = NoCall

Kept == conns' \in Seq(Conns) /\ conn' \in DOMAIN conns' \cup {0}

(* Nothing is added to what the connections carry.                         *)
Carries ==
  /\ Kept
  /\ \A c \in Calls : Carrying(conns', c) \subseteq Carrying(conns, c)
  /\ \A i \in DOMAIN conns' : \A c \in Calls :
       conns'[i].reply = c => \E j \in DOMAIN conns : conns[j].reply = c

LEMMA OrderKept ==
  ASSUME IndInv, Kept, executed' \in [Calls -> Nat],
         Stands \/ \E c \in Calls : Moves(c)
  PROVE  Typed' /\ (\A c \in Calls : Ordered(call'[c])) /\ Locked'
<1> USE DEF IndInv, Kept
<1>1. CASE Stands
  <2>1. \A c \in Calls : call[c].pc \in {"send", "wait"} => conn' # 0
    <3> SUFFICES ASSUME NEW c \in Calls, call[c].pc \in {"send", "wait"}
                 PROVE  conn' # 0
      OBVIOUS
    <3>1. lock = c /\ conn # 0
      BY DEF Ordered, Locked
    <3> QED
      BY <1>1, <3>1, ChannelConstants DEF Stands
  <2> QED
    BY <1>1, <2>1 DEF Stands, Typed, Ordered, Locked
<1>2. ASSUME NEW c \in Calls, Moves(c)
      PROVE  Typed' /\ (\A d \in Calls : Ordered(call'[d])) /\ Locked'
  <2>1. Typed'
    BY <1>2 DEF Moves, Typed
  <2>2. \A d \in Calls : Ordered(call'[d])
    BY <1>2 DEF Moves
  <2>3. ASSUME NEW d \in Calls
        PROVE  /\ (call'[d].attempt > 0 /\ call'[d].pc # "done") => lock' = d
               /\ call'[d].pc \in {"send", "wait"} => conn' # 0
    <3>1. CASE d = c
      BY <1>2, <3>1 DEF Moves
    <3>2. CASE d # c
      <4>1. call'[d] = call[d] /\ (lock = d => lock' = d /\ conn' = conn)
        BY <1>2, <3>2 DEF Moves
      <4>2. call[d].pc \in {"send", "wait"} => call[d].attempt > 0 /\ call[d].pc # "done"
        BY DEF Ordered
      <4> QED
        BY <4>1, <4>2 DEF Locked
    <3> QED
      BY <3>1, <3>2
  <2> QED
    BY <2>1, <2>2, <2>3 DEF Locked
<1> QED
  BY <1>1, <1>2

LEMMA CountKept ==
  ASSUME IndInv, Carries, UNCHANGED executed,
         Stands \/ \E c \in Calls : Follows(c)
  PROVE  IndInv'
<1> USE DEF IndInv
<1>1. Typed' /\ (\A c \in Calls : Ordered(call'[c])) /\ Locked'
  BY OrderKept DEF Carries, Follows, Typed
<1>2. \A c \in Calls : /\ Allowed(call[c]) \in 0..MaxAttempts
                       /\ Allowed(call'[c]) \in 0..MaxAttempts
  BY <1>1, AllowedType DEF Typed
<1>3. \A c \in Calls : /\ Allowed(call'[c]) >= Allowed(call[c])
                       /\ call'[c].result = "ok" => executed[c] > 0
  BY <1>2 DEF Stands, Follows, Moves, Answered, MaxAttempts
<1>4. Counted'
  <2> SUFFICES ASSUME NEW c \in Calls
               PROVE  executed[c] + Cardinality(Carrying(conns', c)) <= Allowed(call'[c])
    BY DEF Counted
  <2>1. executed[c] + Cardinality(Carrying(conns, c)) <= Allowed(call[c])
    BY DEF Counted
  <2>2. Cardinality(Carrying(conns', c)) <= Cardinality(Carrying(conns, c))
    BY <1>1, FewerCarry DEF Carries, Typed
  <2>3. /\ Cardinality(Carrying(conns', c)) \in Nat
        /\ Cardinality(Carrying(conns, c)) \in Nat
        /\ executed[c] \in Nat
    BY <1>1, CarryingFinite DEF Typed
  <2>4. Allowed(call[c]) \in Int /\ Allowed(call'[c]) \in Int
    BY <1>2 DEF MaxAttempts
  <2> QED
    BY <1>3, <2>1, <2>2, <2>3, <2>4
<1>5. Answered'
  BY <1>3 DEF Answered, Carries
<1> QED
  BY <1>1, <1>4, <1>5

-------------------------------------------------------------------------------
(* The coroutine. *)

LEMMA SameConns ==
  ASSUME IndInv, UNCHANGED <<conn, conns>>
  PROVE  Carries
BY DEF IndInv, Typed, Locked, Carries, Kept

(* From the start of a call to the lock, and from one attempt to the next. *)
Early == {"idle", "probe", "check", "pinged", "stamp", "start", "invalidate"}

(* How a coroutine's fields change, where they do. *)
Turns(c, pc, attempt, result) ==
  /\ call' \in [Calls -> Coroutines] /\ \A d \in Calls \ {c} : call'[d] = call[d]
  /\ call'[c].pc = pc /\ call'[c].attempt = attempt /\ call'[c].result = result

LEMMA GoesTurns ==
  ASSUME IndInv, NEW c \in Calls, NEW pc \in PCs, Goes(c, pc)
  PROVE  Turns(c, pc, call[c].attempt, call[c].result)
BY DEF IndInv, Typed, Goes, Coroutines, Turns

LEMMA EarlyFollows ==
  ASSUME IndInv, NEW c \in Calls, call[c].pc \in Early,
         NEW pc \in {"probe", "check", "pinged", "stamp", "start", "lock"},
         Turns(c, pc, call[c].attempt, call[c].result),
         call[c].attempt < MaxAttempts,
         pc = "lock" => call[c].attempt = 0,
         UNCHANGED <<lock, conn>>
  PROVE  Follows(c)
<1>1. call[c] \in Coroutines
  BY DEF IndInv, Typed
<1>2. Moves(c)
  BY <1>1 DEF Turns, Moves, Ordered, Early, IndInv, Locked, Typed, Coroutines, MaxAttempts
<1>3. Allowed(call'[c]) = Allowed(call[c])
  BY <1>1 DEF Turns, Allowed, Early
<1> QED
  BY <1>1, <1>2, <1>3, AllowedType DEF Turns, Follows, IndInv, Answered, MaxAttempts

LEMMA ReturnsFollows ==
  ASSUME IndInv, NEW c \in Calls, call[c].pc \in Early \cup {"wait"},
         NEW result \in {"ok", "error", "silent"}, Returns(c, result),
         result = "ok" => executed[c] > 0,
         UNCHANGED conn
  PROVE  Follows(c)
<1>1. call[c] \in Coroutines
  BY DEF IndInv, Typed
<1>2. Turns(c, "done", call[c].attempt, result)
  BY <1>1 DEF Returns, Turns, IndInv, Typed, Coroutines, PCs
<1>3. Moves(c)
  BY <1>1, <1>2 DEF Returns, Turns, Moves, Ordered, IndInv, Typed
<1>4. Allowed(call'[c]) = Allowed(call[c])
  BY <1>1, <1>2 DEF Turns, Allowed, Early
<1> QED
  BY <1>1, <1>2, <1>3, <1>4, AllowedType DEF Turns, Follows, IndInv, MaxAttempts

(* The helper was found alive, or not. *)
LEMMA AliveFollows ==
  ASSUME IndInv, NEW c \in Calls, call[c].pc \in {"check", "stamp"}, Alive(c),
         UNCHANGED conn
  PROVE  Follows(c)
<1>1. call[c] \in Coroutines /\ call[c].attempt \in {0, 1}
  BY DEF IndInv, Typed, Ordered, Coroutines, MaxAttempts
<1>2. CASE call[c].attempt = 0
  <2>1. Turns(c, "lock", call[c].attempt, call[c].result)
    BY <1>1, <1>2 DEF Alive, Turns, IndInv, Typed, Coroutines, PCs
  <2> QED
    BY <1>2, <2>1, EarlyFollows DEF Alive, Early, MaxAttempts
<1>3. CASE call[c].attempt = 1
  <2> DEFINE k == [call[c] EXCEPT !.pc = "connect", !.attempt = call[c].attempt + 1,
                                  !.polls = 0, !.seen = FALSE,
                                  !.misled = call[c].misled \/ (call[c].attempt > 0 /\ ~daemon)]
  <2>1. Turns(c, "connect", 2, call[c].result)
    <3>1. call' = [call EXCEPT ![c] = k]
      <4>1. /\ DOMAIN call' = Calls /\ \A d \in Calls \ {c} : call'[d] = call[d]
            /\ call' = [d \in DOMAIN call' |-> call'[d]]
        BY DEF Alive, IndInv, Typed
      <4>2. call'[c] = k
        BY <1>1, <1>3 DEF Alive, IndInv, Typed, Coroutines
      <4> HIDE DEF k
      <4> QED
        BY <4>1, <4>2 DEF IndInv, Typed
    <3>2. 1 + 1 = 2 /\ 2 \in 0..MaxAttempts
      BY DEF MaxAttempts
    <3>3. k \in Coroutines
      BY <1>1, <1>3, <3>2 DEF Coroutines, PCs
    <3>4. k.pc = "connect" /\ k.attempt = 2 /\ k.result = call[c].result
      BY <1>1, <1>3 DEF Coroutines
    <3> HIDE DEF k
    <3> QED
      BY <3>1, <3>3, <3>4 DEF Turns, IndInv, Typed
  <2>2. lock = c /\ UNCHANGED lock
    BY <1>3 DEF Alive, IndInv, Locked
  <2>3. Moves(c)
    BY <2>1, <2>2 DEF Turns, Moves, Ordered, MaxAttempts
  <2>4. Allowed(call'[c]) = 1 /\ Allowed(call[c]) = 1
    BY <1>3, <2>1 DEF Turns, Allowed
  <2> QED
    BY <2>1, <2>3, <2>4 DEF Turns, Follows, IndInv, Answered
<1> QED
  BY <1>1, <1>2, <1>3

LEMMA NotAliveFollows ==
  ASSUME IndInv, NEW c \in Calls, call[c].pc \in {"check", "stamp"}, NotAlive(c),
         UNCHANGED conn
  PROVE  Follows(c)
<1>1. call[c] \in Coroutines /\ call[c].attempt < MaxAttempts
  BY DEF IndInv, Typed, Ordered, Coroutines
<1>2. CASE Returns(c, "silent") \/ Returns(c, "error")
  BY <1>2, ReturnsFollows DEF Early
<1>3. CASE Goes(c, "start") /\ UNCHANGED lock
  BY <1>1, <1>3, GoesTurns, EarlyFollows DEF Early, PCs
<1>4. CASE /\ call' = [call EXCEPT ![c].pc = "check", ![c].polls = @ + 1]
           /\ UNCHANGED lock
  <2>0. PICK n \in Nat : call' = [call EXCEPT ![c].pc = "check", ![c].polls = n]
    <3>1. call[c].polls + 1 \in Nat
      BY <1>1 DEF Coroutines
    <3> QED
      BY <1>1, <1>4, <3>1 DEF IndInv, Typed
  <2>1. Turns(c, "check", call[c].attempt, call[c].result)
    BY <1>1, <2>0 DEF Turns, IndInv, Typed, Coroutines, PCs
  <2> QED
    BY <1>1, <1>4, <2>1, EarlyFollows DEF Early
<1> QED
  BY <1>2, <1>3, <1>4 DEF NotAlive

(* The manager's part. *)
LEMMA ManagerFollows ==
  ASSUME IndInv, NEW c \in Calls,
         \/ Call(c) \/ CachedOutside(c) \/ TakeMonitor(c) \/ CachedInside(c) \/ Ping(c)
         \/ StoreResult(c) \/ StoreTime(c) \/ StartDaemon(c) \/ StartFails(c)
  PROVE  Follows(c) /\ UNCHANGED <<conn, conns, executed>>
<1>1. call[c] \in Coroutines /\ Ordered(call[c])
  BY DEF IndInv, Typed
<1>2. CASE Call(c)
  BY <1>1, <1>2, GoesTurns, EarlyFollows DEF Call, channel, Early, PCs, Ordered, MaxAttempts
<1>3. CASE CachedOutside(c)
  <2>1. call[c].attempt = 0
    BY <1>1, <1>3 DEF CachedOutside, Ensures, Coroutines, MaxAttempts
  <2>2. CASE verdict
    BY <1>3, <2>1, <2>2, GoesTurns, EarlyFollows DEF CachedOutside, Early, PCs, MaxAttempts
  <2>3. CASE ~verdict
    BY <1>3, <2>3, ReturnsFollows DEF CachedOutside, Early
  <2> QED
    BY <2>2, <2>3
<1>4. CASE TakeMonitor(c)
  BY <1>1, <1>4, GoesTurns, EarlyFollows DEF TakeMonitor, channel, Early, PCs, Ordered
<1>5. CASE CachedInside(c)
  BY <1>5, AliveFollows, NotAliveFollows DEF CachedInside
<1>6. CASE Ping(c)
  <2>1. PICK alive \in BOOLEAN : call' = [call EXCEPT ![c].pc = "pinged", ![c].seen = alive]
    BY <1>6 DEF Ping
  <2>2. Turns(c, "pinged", call[c].attempt, call[c].result)
    BY <1>1, <2>1 DEF Turns, IndInv, Typed, Coroutines, PCs
  <2> QED
    BY <1>1, <1>6, <2>2, EarlyFollows DEF Ping, channel, Early, Ordered
<1>7. CASE StoreResult(c)
  BY <1>1, <1>7, GoesTurns, EarlyFollows DEF StoreResult, channel, Early, PCs, Ordered
<1>8. CASE StoreTime(c)
  BY <1>8, AliveFollows, NotAliveFollows DEF StoreTime
<1>9. CASE StartDaemon(c)
  <2>1. Turns(c, "check", call[c].attempt, call[c].result)
    BY <1>1, <1>9 DEF StartDaemon, Turns, IndInv, Typed, Coroutines, PCs
  <2> QED
    BY <1>1, <1>9, <2>1, EarlyFollows DEF StartDaemon, channel, Early, Ordered
<1>10. CASE StartFails(c)
  BY <1>10, ReturnsFollows DEF StartFails, Early
<1> QED
  BY <1>2, <1>3, <1>4, <1>5, <1>6, <1>7, <1>8, <1>9, <1>10

(* sendOrThrow, but for what is sent. *)
LEMMA LockFollows ==
  ASSUME IndInv, NEW c \in Calls, TakeLock(c)
  PROVE  Follows(c) /\ UNCHANGED <<conn, conns, executed>>
<1>1. call[c] \in Coroutines /\ call[c].attempt = 0
  BY DEF IndInv, Typed, Ordered, TakeLock
<1>2. Turns(c, "connect", 1, call[c].result)
  <2> DEFINE k == [call[c] EXCEPT !.pc = "connect", !.attempt = 1]
  <2>1. call' = [call EXCEPT ![c] = k]
    BY DEF TakeLock, IndInv, Typed
  <2>2. k \in Coroutines /\ k.pc = "connect" /\ k.attempt = 1 /\ k.result = call[c].result
    <3>1. 1 \in 0..MaxAttempts
      BY DEF MaxAttempts
    <3> QED
      BY <1>1, <3>1 DEF Coroutines, PCs
  <2> HIDE DEF k
  <2> QED
    BY <2>1, <2>2 DEF Turns, IndInv, Typed
<1>3. Moves(c)
  BY <1>1, <1>2, ChannelConstants DEF TakeLock, Turns, Moves, Ordered, MaxAttempts
<1>4. Allowed(call'[c]) = 0 /\ Allowed(call[c]) = 0
  BY <1>1, <1>2 DEF Turns, Allowed
<1> QED
  BY <1>2, <1>3, <1>4 DEF TakeLock, Turns, Follows, IndInv, Answered

LEMMA ConnectFollows ==
  ASSUME IndInv, NEW c \in Calls, Connect(c)
  PROVE  Follows(c) /\ Carries /\ UNCHANGED executed
<1>1. call[c] \in Coroutines /\ call[c].attempt > 0 /\ lock = c /\ UNCHANGED lock
  BY DEF IndInv, Typed, Ordered, Locked, Connect
<1>2. Turns(c, "send", call[c].attempt, call[c].result)
  BY GoesTurns DEF Connect, PCs
<1>3. Carries /\ conn' # 0
  <2>1. CASE conn # 0
    <3>1. UNCHANGED <<conn, conns>>
      BY <2>1 DEF Connect
    <3> QED
      BY <2>1, <3>1, SameConns
  <2>2. CASE conn = 0
    <3>1. conns' = Append(conns, NewConn) /\ conn' = Len(conns) + 1
      BY <2>2 DEF Connect
    <3>2. conns \in Seq(Conns)
      BY DEF IndInv, Typed
    <3>3. /\ conns' \in Seq(Conns) /\ Len(conns') = Len(conns) + 1 /\ Len(conns) \in Nat
          /\ DOMAIN conns' = 1..Len(conns) + 1 /\ DOMAIN conns = 1..Len(conns)
          /\ \A i \in 1..Len(conns) : conns'[i] = conns[i]
          /\ conns'[Len(conns) + 1] = NewConn
      BY <3>1, <3>2, NewTypes
    <3>4. \A i \in DOMAIN conns' : i \in DOMAIN conns \/ conns'[i] = NewConn
      BY <3>3
    <3>5. Kept /\ conn' # 0
      BY <3>1, <3>3 DEF Kept
    <3>6. NewConn.request = NoCall /\ NewConn.reply = NoCall
      BY DEF NewConn
    <3>7. \A d \in Calls : Carrying(conns', d) \subseteq Carrying(conns, d)
      BY <3>3, <3>4, <3>6, ChannelConstants DEF Carrying
    <3>8. \A i \in DOMAIN conns' : \A d \in Calls :
            conns'[i].reply = d => \E j \in DOMAIN conns : conns[j].reply = d
      BY <3>3, <3>4, <3>6, ChannelConstants
    <3> QED
      BY <3>5, <3>7, <3>8 DEF Carries
  <2> QED
    BY <2>1, <2>2
<1>4. Moves(c)
  BY <1>1, <1>2, <1>3 DEF Turns, Moves, Ordered, IndInv, Typed
<1>5. Allowed(call'[c]) = Allowed(call[c])
  BY <1>1, <1>2 DEF Connect, Turns, Allowed
<1> QED
  BY <1>1, <1>2, <1>3, <1>4, <1>5, AllowedType DEF Connect, Turns, Follows, IndInv, Answered, MaxAttempts

(* What changes of one connection. *)
LEMMA OneChanges ==
  ASSUME IndInv, NEW i \in DOMAIN conns, NEW k \in Conns, conns' = [conns EXCEPT ![i] = k]
  PROVE  /\ conns' \in Seq(Conns) /\ DOMAIN conns' = DOMAIN conns
         /\ conns'[i] = k /\ \A j \in DOMAIN conns \ {i} : conns'[j] = conns[j]
<1>1. conns \in Seq(Conns)
  BY DEF IndInv, Typed
<1> QED
  BY <1>1

(* It carries and answers no more than before. *)
LEMMA OneCarries ==
  ASSUME IndInv, NEW i \in DOMAIN conns, NEW k \in Conns, conns' = [conns EXCEPT ![i] = k],
         k.request \in {conns[i].request, NoCall}, k.reply \in {conns[i].reply, NoCall},
         conn' \in {conn, 0}
  PROVE  Carries
<1>1. /\ conns' \in Seq(Conns) /\ DOMAIN conns' = DOMAIN conns
      /\ conns'[i] = k /\ \A j \in DOMAIN conns \ {i} : conns'[j] = conns[j]
  BY OneChanges
<1>2. Kept
  BY <1>1 DEF Kept, IndInv, Locked
<1>3. \A c \in Calls : Carrying(conns', c) \subseteq Carrying(conns, c)
  BY <1>1, ChannelConstants DEF Carrying
<1>4. \A j \in DOMAIN conns' : \A c \in Calls :
        conns'[j].reply = c => \E l \in DOMAIN conns : conns[l].reply = c
  BY <1>1, ChannelConstants
<1> QED
  BY <1>2, <1>3, <1>4 DEF Carries

LEMMA ConnType ==
  ASSUME IndInv, NEW i \in DOMAIN conns
  PROVE  conns[i] \in Conns
<1>1. conns \in Seq(Conns)
  BY DEF IndInv, Typed
<1> QED
  BY <1>1

LEMMA ReceiveFollows ==
  ASSUME IndInv, NEW c \in Calls, Receive(c)
  PROVE  Follows(c) /\ Carries /\ UNCHANGED executed
<1>1. conn \in DOMAIN conns /\ conns[conn].reply = c
  BY DEF Receive, IndInv, Locked
<1>2. executed[c] > 0
  BY <1>1 DEF IndInv, Answered
<1>3. Follows(c)
  BY <1>2, ReturnsFollows DEF Receive
<1>4. Carries
  <2> DEFINE k == [conns[conn] EXCEPT !.reply = NoCall]
  <2>1. k \in Conns /\ k.request = conns[conn].request /\ k.reply = NoCall
    BY <1>1, ConnType DEF Conns
  <2>2. conns' = [conns EXCEPT ![conn] = k] /\ conn' = conn
    BY DEF Receive
  <2> HIDE DEF k
  <2> QED
    BY <1>1, <2>1, <2>2, OneCarries
<1> QED
  BY <1>3, <1>4 DEF Receive

LEMMA ClosingCarries ==
  ASSUME IndInv, closeConnectionLocked
  PROVE  Carries /\ conn' = 0
<1>1. CASE conn = 0
  BY <1>1, SameConns DEF closeConnectionLocked
<1>2. CASE conn # 0
  <2> DEFINE k == [conns[conn] EXCEPT !.open = FALSE, !.reply = NoCall]
  <2>1. conn \in DOMAIN conns
    BY <1>2 DEF IndInv, Locked
  <2>2. k \in Conns /\ k.request = conns[conn].request /\ k.reply = NoCall
    BY <2>1, ConnType DEF Conns
  <2>3. conns' = [conns EXCEPT ![conn] = k] /\ conn' = 0
    BY <1>2 DEF closeConnectionLocked, CloseEnd
  <2> HIDE DEF k
  <2> QED
    BY <2>1, <2>2, <2>3, OneCarries
<1> QED
  BY <1>1, <1>2

LEMMA FailureFollows ==
  ASSUME IndInv, NEW c \in Calls, AttemptFails(c)
  PROVE  Follows(c) /\ Carries /\ UNCHANGED executed
<1>1. call[c].pc \in {"connect", "send", "wait"}
  BY DEF AttemptFails, Fails
<1>2. call[c] \in Coroutines /\ call[c].attempt > 0 /\ lock = c /\ UNCHANGED lock
  BY <1>1 DEF IndInv, Typed, Ordered, Locked, AttemptFails
<1>3. Turns(c, "invalidate", call[c].attempt, call[c].result)
  BY GoesTurns DEF AttemptFails, PCs
<1>4. Moves(c)
  BY <1>2, <1>3, ClosingCarries DEF AttemptFails, Turns, Moves, Ordered, IndInv, Typed
<1>5. Allowed(call'[c]) >= Allowed(call[c])
  BY <1>2, <1>3 DEF Turns, Allowed, Coroutines, MaxAttempts
<1> QED
  BY <1>3, <1>4, <1>5, ClosingCarries DEF AttemptFails, Turns, Follows, IndInv, Answered

LEMMA InvalidateFollows ==
  ASSUME IndInv, NEW c \in Calls, InvalidateTime(c)
  PROVE  Follows(c) /\ UNCHANGED <<conn, conns, executed>>
<1>1. call[c] \in Coroutines /\ call[c].pc = "invalidate" /\ UNCHANGED <<conn, conns, executed>>
  BY DEF IndInv, Typed, InvalidateTime
<1>2. CASE Returns(c, "error")
  BY <1>1, <1>2, ReturnsFollows DEF Early
<1>3. CASE Retries(call[c].attempt) /\ TriesAgain(c) /\ UNCHANGED lock
  BY <1>1, <1>3, GoesTurns, EarlyFollows DEF TriesAgain, Retries, Early, PCs
<1> QED
  BY <1>2, <1>3 DEF InvalidateTime

LEMMA SendIndInv ==
  ASSUME IndInv, NEW c \in Calls, Send(c)
  PROVE  IndInv'
<1>1. /\ call[c] \in Coroutines /\ call[c].attempt > 0 /\ call[c].pc = "send"
      /\ lock = c /\ conn \in DOMAIN conns /\ UNCHANGED <<lock, conn, executed>>
  BY DEF IndInv, Typed, Ordered, Locked, Send
<1>2. Turns(c, "wait", call[c].attempt, call[c].result)
  BY GoesTurns DEF Send, PCs
<1>3. /\ conns' \in Seq(Conns) /\ DOMAIN conns' = DOMAIN conns
      /\ conns'[conn].request = c /\ conns'[conn].reply = conns[conn].reply
      /\ \A j \in DOMAIN conns \ {conn} : conns'[j] = conns[j]
  <2> DEFINE k == [conns[conn] EXCEPT !.request = c]
  <2>1. k \in Conns /\ k.request = c /\ k.reply = conns[conn].reply
    BY <1>1, ConnType DEF Conns
  <2>2. conns' = [conns EXCEPT ![conn] = k]
    BY DEF Send
  <2> HIDE DEF k
  <2> QED
    BY <1>1, <2>1, <2>2, OneChanges
<1>4. Moves(c) /\ Kept
  BY <1>1, <1>2, <1>3 DEF Turns, Moves, Ordered, Kept, IndInv, Typed
<1>5. Typed' /\ (\A d \in Calls : Ordered(call'[d])) /\ Locked'
  BY <1>1, <1>4, OrderKept DEF IndInv, Typed
<1>6. Counted'
  <2> SUFFICES ASSUME NEW d \in Calls
               PROVE  executed[d] + Cardinality(Carrying(conns', d)) <= Allowed(call'[d])
    BY <1>1 DEF Counted
  <2>1. executed[d] + Cardinality(Carrying(conns, d)) <= Allowed(call[d])
    BY DEF IndInv, Counted
  <2>2. /\ Cardinality(Carrying(conns', d)) \in Nat
        /\ Cardinality(Carrying(conns, d)) \in Nat
        /\ executed[d] \in Nat
        /\ Allowed(call[d]) \in 0..MaxAttempts /\ Allowed(call'[d]) \in 0..MaxAttempts
    BY <1>1, <1>5, CarryingFinite, AllowedType DEF IndInv, Typed
  <2>3. CASE d = c
    <3>1. Carrying(conns', d) \subseteq Carrying(conns, d) \cup {conn}
      BY <1>3 DEF Carrying
    <3>2. Cardinality(Carrying(conns', d)) <= Cardinality(Carrying(conns, d)) + 1
      BY <1>3, <3>1, OneMoreCarries DEF IndInv, Typed
    <3>3. Allowed(call'[d]) = Allowed(call[d]) + 1
      BY <1>1, <1>2, <2>3 DEF Turns, Allowed, Coroutines, MaxAttempts
    <3> QED
      BY <2>1, <2>2, <3>2, <3>3 DEF MaxAttempts
  <2>4. CASE d # c
    <3>1. Carrying(conns', d) \subseteq Carrying(conns, d)
      BY <1>3, <2>4 DEF Carrying
    <3>2. Cardinality(Carrying(conns', d)) <= Cardinality(Carrying(conns, d))
      BY <1>3, <3>1, FewerCarry DEF IndInv, Typed
    <3>3. Allowed(call'[d]) = Allowed(call[d])
      BY <1>2, <2>4 DEF Turns
    <3> QED
      BY <2>1, <2>2, <3>2, <3>3 DEF MaxAttempts
  <2> QED
    BY <2>3, <2>4
<1>7. Answered'
  BY <1>1, <1>2, <1>3 DEF Turns, Answered, IndInv
<1> QED
  BY <1>5, <1>6, <1>7 DEF IndInv

-------------------------------------------------------------------------------
(* The helper. *)

LEMMA DyingForgets ==
  ASSUME IndInv, Dies
  PROVE  /\ conns' \in Seq(Conns) /\ DOMAIN conns' = DOMAIN conns
         /\ \A j \in DOMAIN conns : /\ conns'[j].request = NoCall
                                    /\ conns'[j].reply = conns[j].reply
<1>1. conns \in Seq(Conns) /\ \A j \in DOMAIN conns : conns[j] \in Conns
  BY ConnType DEF IndInv, Typed
<1>2. conns' = [j \in DOMAIN conns |-> [conns[j] EXCEPT !.stage = "closed", !.request = NoCall]]
  BY DEF Dies
<1>3. \A j \in DOMAIN conns : /\ conns'[j] \in Conns
                              /\ conns'[j].request = NoCall /\ conns'[j].reply = conns[j].reply
  BY <1>1, <1>2 DEF Conns
<1>4. DOMAIN conns = 1..Len(conns) /\ Len(conns) \in Nat
  BY <1>1
<1>5. conns' \in [1..Len(conns) -> Conns]
  BY <1>2, <1>3, <1>4
<1>6. conns' \in Seq(Conns)
  BY <1>4, <1>5
<1> QED
  BY <1>2, <1>3, <1>6

LEMMA DyingCarries ==
  ASSUME IndInv, Dies, UNCHANGED conn
  PROVE  Carries
BY DyingForgets, ChannelConstants DEF Carries, Kept, Carrying, IndInv, Locked

(* A handler that executes nothing. *)
LEMMA HandlerCarries ==
  ASSUME IndInv, NEW i \in DOMAIN conns, TakeClient(i) \/ ReadRequest(i) \/ ReadEnd(i)
  PROVE  Carries /\ Stands /\ UNCHANGED executed
<1>1. PICK stage \in {"reading", "running", "closed"} :
        conns' = [conns EXCEPT ![i].stage = stage]
  BY DEF TakeClient, ReadRequest, ReadEnd
<1> DEFINE k == [conns[i] EXCEPT !.stage = stage]
<1>2. k \in Conns /\ k.request = conns[i].request /\ k.reply = conns[i].reply
  BY ConnType DEF Conns
<1>3. conns' = [conns EXCEPT ![i] = k]
  BY <1>1
<1>4. UNCHANGED <<lock, call, conn, executed>>
  BY DEF TakeClient, ReadRequest, ReadEnd
<1> HIDE DEF k
<1>5. Carries
  BY <1>2, <1>3, <1>4, OneCarries
<1> QED
  BY <1>4, <1>5 DEF Stands

LEMMA HandleIndInv ==
  ASSUME IndInv, NEW i \in DOMAIN conns, HandleRequest(i)
  PROVE  IndInv'
<1>1. /\ UNCHANGED <<lock, call, conn>>
      /\ executed' = [executed EXCEPT ![conns[i].request] = @ + 1]
      /\ conns[i] \in Conns /\ executed \in [Calls -> Nat]
  BY ConnType DEF HandleRequest, IndInv, Typed
<1>2. /\ conns' \in Seq(Conns) /\ DOMAIN conns' = DOMAIN conns
      /\ conns'[i].request = NoCall
      /\ conns'[i].reply \in {conns[i].reply, conns[i].request, NoCall}
      /\ \A j \in DOMAIN conns \ {i} : /\ conns'[j].request \in {conns[j].request, NoCall}
                                       /\ conns'[j].reply = conns[j].reply
  <2>1. CASE Dies
    BY <2>1, DyingForgets
  <2>2. CASE conns' = [conns EXCEPT
                ![i].stage = IF conns[i].open THEN "reading" ELSE "closed",
                ![i].reply = IF conns[i].open THEN conns[i].request ELSE NoCall,
                ![i].request = NoCall]
    <3>1. PICK stage \in {"reading", "closed"}, reply \in {conns[i].request, NoCall} :
            conns' = [conns EXCEPT ![i].stage = stage, ![i].reply = reply, ![i].request = NoCall]
      BY <2>2
    <3> DEFINE k == [conns[i] EXCEPT !.stage = stage, !.reply = reply, !.request = NoCall]
    <3>2. k \in Conns /\ k.request = NoCall /\ k.reply = reply
      BY <1>1, <3>1 DEF Conns
    <3>3. conns' = [conns EXCEPT ![i] = k]
      BY <3>1
    <3> HIDE DEF k
    <3>4. /\ conns' \in Seq(Conns) /\ DOMAIN conns' = DOMAIN conns
          /\ conns'[i] = k /\ \A j \in DOMAIN conns \ {i} : conns'[j] = conns[j]
      BY <3>2, <3>3, OneChanges
    <3> QED
      BY <3>1, <3>2, <3>4
  <2> QED
    BY <2>1, <2>2 DEF HandleRequest
<1>3. /\ executed' \in [Calls -> Nat]
      /\ \A c \in Calls : executed'[c] = IF c = conns[i].request THEN executed[c] + 1
                                                                 ELSE executed[c]
  <2> DEFINE q == conns[i].request
  <2>1. executed' = [executed EXCEPT ![q] = executed[q] + 1] /\ executed \in [Calls -> Nat]
    BY <1>1
  <2>2. q \in Calls => executed[q] + 1 \in Nat
    BY <1>1
  <2> HIDE DEF q
  <2>3. executed' \in [Calls -> Nat]
    BY <2>1, <2>2
  <2>4. \A c \in Calls : executed'[c] = IF c = q THEN executed[c] + 1 ELSE executed[c]
    BY <2>1
  <2> QED
    BY <2>3, <2>4 DEF q
<1>4. Stands /\ Kept
  BY <1>1, <1>2 DEF Stands, Kept, IndInv, Locked
<1>5. Typed' /\ (\A c \in Calls : Ordered(call'[c])) /\ Locked'
  BY <1>3, <1>4, OrderKept
<1>6. Counted'
  <2> SUFFICES ASSUME NEW c \in Calls
               PROVE  executed'[c] + Cardinality(Carrying(conns', c)) <= Allowed(call[c])
    BY <1>1 DEF Counted
  <2>1. executed[c] + Cardinality(Carrying(conns, c)) <= Allowed(call[c])
    BY DEF IndInv, Counted
  <2>2. /\ Cardinality(Carrying(conns', c)) \in Nat
        /\ Cardinality(Carrying(conns, c)) \in Nat
        /\ executed[c] \in Nat /\ Allowed(call[c]) \in 0..MaxAttempts
    BY <1>2, CarryingFinite, AllowedType DEF IndInv, Typed
  <2>3. CASE c = conns[i].request
    <3>1. i \in Carrying(conns, c) /\ Carrying(conns', c) \subseteq Carrying(conns, c) \ {i}
      BY <1>2, <2>3, ChannelConstants DEF Carrying
    <3>2. Cardinality(Carrying(conns', c)) + 1 <= Cardinality(Carrying(conns, c))
      BY <1>2, <3>1, OneFewerCarries DEF IndInv, Typed
    <3> QED
      BY <1>3, <2>1, <2>2, <2>3, <3>2 DEF MaxAttempts
  <2>4. CASE c # conns[i].request
    <3>1. Carrying(conns', c) \subseteq Carrying(conns, c)
      BY <1>2, <2>4, ChannelConstants DEF Carrying
    <3>2. Cardinality(Carrying(conns', c)) <= Cardinality(Carrying(conns, c))
      BY <1>2, <3>1, FewerCarry DEF IndInv, Typed
    <3> QED
      BY <1>3, <2>1, <2>2, <2>4, <3>2 DEF MaxAttempts
  <2> QED
    BY <2>3, <2>4
<1>7. Answered'
  BY <1>1, <1>2, <1>3, ChannelConstants DEF Answered, IndInv
<1> QED
  BY <1>5, <1>6, <1>7 DEF IndInv

-------------------------------------------------------------------------------
LEMMA NextIndInv == IndInv /\ [Next]_vars => IndInv'
<1> SUFFICES ASSUME IndInv, [Next]_vars PROVE IndInv'
  OBVIOUS
<1>1. ASSUME NEW c \in Calls, Call(c) \/ Coroutine(c)
      PROVE  IndInv'
  <2>1. CASE Send(c)
    BY <2>1, SendIndInv
  <2>2. CASE Connect(c)
    BY <2>2, ConnectFollows, CountKept
  <2>3. CASE Receive(c)
    BY <2>3, ReceiveFollows, CountKept
  <2>4. CASE AttemptFails(c)
    BY <2>4, FailureFollows, CountKept
  <2>5. CASE TakeLock(c)
    BY <2>5, LockFollows, SameConns, CountKept
  <2>6. CASE InvalidateTime(c)
    BY <2>6, InvalidateFollows, SameConns, CountKept
  <2>7. CASE \/ Call(c) \/ CachedOutside(c) \/ TakeMonitor(c) \/ CachedInside(c) \/ Ping(c)
             \/ StoreResult(c) \/ StoreTime(c) \/ StartDaemon(c) \/ StartFails(c)
    BY <2>7, ManagerFollows, SameConns, CountKept
  <2> QED
    BY <1>1, <2>1, <2>2, <2>3, <2>4, <2>5, <2>6, <2>7 DEF Coroutine
<1>2. ASSUME NEW i \in DOMAIN conns, Handler(i)
      PROVE  IndInv'
  BY <1>2, HandlerCarries, HandleIndInv, CountKept DEF Handler
<1>3. CASE Close
  BY <1>3, ClosingCarries, CountKept DEF Close, Stands
<1>4. CASE DaemonDies
  BY <1>4, DyingCarries, CountKept DEF DaemonDies, Stands
<1>5. CASE Expire \/ Launched \/ LaunchFails \/ UNCHANGED vars
  <2>1. UNCHANGED <<lock, call, conn, conns, executed>>
    BY <1>5 DEF Expire, Launched, LaunchFails, channel, vars
  <2> QED
    BY <2>1, SameConns, CountKept DEF Stands
<1> QED
  BY <1>1, <1>2, <1>3, <1>4, <1>5 DEF Next

LEMMA Invariance == Spec => []IndInv
BY InitIndInv, NextIndInv, PTL DEF Spec

-------------------------------------------------------------------------------
(* However long the engine takes and however often the helper dies, a call *)
(* that MemoryToolDaemonClient sends again is not executed a third time.   *)
THEOREM SentAtMostTwice == Spec => []SentAgainOnce
<1>1. IndInv => SentAgainOnce
  <2> SUFFICES ASSUME IndInv, NEW c \in Calls
               PROVE  SentAgainOnce!(c)
    BY DEF SentAgainOnce
  <2>1. /\ executed[c] + Cardinality(Carrying(conns, c)) <= Allowed(call[c])
        /\ Cardinality(Carrying(conns, c)) \in Nat /\ executed[c] \in Nat
        /\ call[c] \in Coroutines
    BY CarryingFinite DEF IndInv, Typed, Counted
  <2> QED
    BY <2>1, AllowedType DEF IndInv, Answered, MaxAttempts
<1> QED
  BY <1>1, Invariance, PTL

-------------------------------------------------------------------------------
(* The locks, the connections and the pool. *)

Inside == {"check", "pinged", "stamp", "start"}

(* The monitor and the lock are held by those who are inside, and who has    *)
(* returned holds nothing.                                                   *)
Held ==
  \A c \in Calls :
    /\ call[c].pc \in Inside <=> monitor = c
    /\ call[c].pc = "done" => lock # c

(* The client has one connection whose end is open. *)
OneOpen == \A i \in DOMAIN conns : conns[i].open <=> conn = i

Served == Cardinality(Serving) <= PoolSize

HelperTyped ==
  /\ daemon \in BOOLEAN /\ launches \in Nat
  /\ deaths \in 0 .. MaxDeaths /\ failures \in 0 .. MaxFailures
  /\ verdict \in BOOLEAN /\ fresh \in BOOLEAN
  /\ monitor \in Calls \cup {NoCall}

TypeInv == IndInv /\ HelperTyped /\ Held /\ OneOpen /\ Served

-------------------------------------------------------------------------------
(* How the record of a call changes. *)

Becomes(c, pc, attempt, polls, seen, misled, result) ==
  /\ \A d \in Calls \ {c} : call'[d] = call[d]
  /\ call'[c].pc = pc /\ call'[c].attempt = attempt /\ call'[c].polls = polls
  /\ call'[c].seen = seen /\ call'[c].misled = misled /\ call'[c].result = result

LEMMA CallFields ==
  ASSUME IndInv, NEW c \in Calls
  PROVE  /\ call \in [Calls -> Coroutines] /\ call[c] \in Coroutines
         /\ call[c].attempt \in 0 .. 2 /\ call[c].polls \in Nat
         /\ call[c].seen \in BOOLEAN /\ call[c].misled \in BOOLEAN
BY DEF IndInv, Typed, Coroutines, MaxAttempts



LEMMA GoesFields ==
  ASSUME IndInv, NEW c \in Calls, NEW pc, Goes(c, pc)
  PROVE  Becomes(c, pc, call[c].attempt, call[c].polls, call[c].seen, call[c].misled,
                 call[c].result)
BY CallFields DEF Goes, Becomes, Coroutines

LEMMA ReturnsFields ==
  ASSUME IndInv, NEW c \in Calls, NEW result, Returns(c, result)
  PROVE  /\ Becomes(c, "done", call[c].attempt, 0, FALSE, call[c].misled, result)
         /\ lock' = IF lock = c THEN NoCall ELSE lock
BY CallFields DEF Returns, Becomes, Coroutines

(* The helper was found alive: before the lock, or between the attempts. *)
LEMMA AliveFields ==
  ASSUME IndInv, NEW c \in Calls, Alive(c)
  PROVE  /\ call[c].attempt = 0 =>
              Becomes(c, "lock", 0, 0, FALSE, call[c].misled, call[c].result)
         /\ call[c].attempt # 0 =>
              Becomes(c, "connect", call[c].attempt + 1, 0, FALSE,
                      call[c].misled \/ ~daemon, call[c].result)
         /\ monitor' = NoCall /\ lock' = lock
BY CallFields DEF Alive, Becomes, Coroutines

LEMMA PollFields ==
  ASSUME IndInv, NEW c \in Calls, NEW n,
         call' = [call EXCEPT ![c].pc = "check", ![c].polls = n]
  PROVE  Becomes(c, "check", call[c].attempt, n, call[c].seen, call[c].misled,
                 call[c].result)
BY CallFields DEF Becomes, Coroutines

(* What follows a helper that was not found alive. *)
LEMMA NotAliveFields ==
  ASSUME IndInv, NEW c \in Calls, NotAlive(c)
  PROVE  \/ /\ ~Ensures(c) /\ monitor' = NoCall /\ Returns(c, "silent")
         \/ /\ call[c].polls = 0 /\ Goes(c, "start") /\ UNCHANGED <<monitor, lock>>
         \/ /\ call[c].polls = Polls /\ monitor' = NoCall /\ Returns(c, "error")
         \/ /\ call[c].polls \notin {0, Polls} /\ UNCHANGED <<monitor, lock>>
            /\ Becomes(c, "check", call[c].attempt, call[c].polls + 1, call[c].seen,
                       call[c].misled, call[c].result)
<1>1. CASE call' = [call EXCEPT ![c].pc = "check", ![c].polls = @ + 1]
  <2>1. call' = [call EXCEPT ![c].pc = "check", ![c].polls = call[c].polls + 1]
    BY <1>1, CallFields DEF Coroutines
  <2> QED
    BY <2>1, PollFields DEF NotAlive
<1> QED
  BY <1>1 DEF NotAlive

-------------------------------------------------------------------------------
(* The locks. *)

(* A step of c says where c stands to the monitor and the lock, and does not *)
(* concern what the others hold.                                             *)
Holds(c) ==
  /\ \A d \in Calls \ {c} : /\ call'[d] = call[d]
                            /\ monitor' = d <=> monitor = d
                            /\ lock' = d => lock = d
  /\ call'[c].pc \in Inside <=> monitor' = c
  /\ call'[c].pc = "done" => lock' # c
  /\ monitor' \in Calls \cup {NoCall}

LEMMA HeldKept ==
  ASSUME TypeInv, NEW c \in Calls, Holds(c)
  PROVE  Held' /\ monitor' \in Calls \cup {NoCall}
BY DEF Holds, TypeInv, Held

LEMMA HeldStands ==
  ASSUME TypeInv, UNCHANGED <<call, monitor, lock>>
  PROVE  Held' /\ monitor' \in Calls \cup {NoCall}
BY DEF TypeInv, Held, HelperTyped

LEMMA HoldsGoes ==
  ASSUME TypeInv, NEW c \in Calls, NEW pc, Goes(c, pc), pc # "done",
         UNCHANGED <<monitor, lock>>, pc \in Inside <=> call[c].pc \in Inside
  PROVE  Holds(c)
<1>1. Becomes(c, pc, call[c].attempt, call[c].polls, call[c].seen, call[c].misled, call[c].result)
  BY GoesFields DEF TypeInv
<1> QED
  BY <1>1 DEF Holds, Becomes, TypeInv, Held, HelperTyped

(* Who returns lets go of what it holds. *)
LEMMA HoldsReturns ==
  ASSUME TypeInv, NEW c \in Calls, NEW result, Returns(c, result),
         \/ UNCHANGED monitor /\ call[c].pc \notin Inside
         \/ monitor' = NoCall /\ call[c].pc \in Inside
  PROVE  Holds(c)
<1>1. /\ Becomes(c, "done", call[c].attempt, 0, FALSE, call[c].misled, result)
      /\ lock' = IF lock = c THEN NoCall ELSE lock
  BY ReturnsFields DEF TypeInv
<1>2. NoCall \notin Calls
  BY ChannelConstants
<1>3. \A d \in Calls \ {c} : lock' = d => lock = d
  BY <1>1, <1>2
<1>4. monitor' # c /\ "done" \notin Inside
  BY <1>2 DEF TypeInv, Held, Inside
<1>5. \A d \in Calls \ {c} : monitor' = d <=> monitor = d
  BY <1>2 DEF TypeInv, Held
<1>6. lock' # c
  BY <1>1, <1>2
<1>7. monitor' \in Calls \cup {NoCall}
  BY DEF TypeInv, HelperTyped
<1> QED
  BY <1>1, <1>3, <1>4, <1>5, <1>6, <1>7 DEF Holds, Becomes

LEMMA HoldsAlive ==
  ASSUME TypeInv, NEW c \in Calls, call[c].pc \in Inside, Alive(c)
  PROVE  Holds(c)
<1>1. /\ call'[c].pc \in {"lock", "connect"} /\ \A d \in Calls \ {c} : call'[d] = call[d]
      /\ monitor' = NoCall /\ lock' = lock
  BY AliveFields DEF TypeInv, Becomes
<1>2. NoCall \notin Calls
  BY ChannelConstants
<1>3. call'[c].pc \notin Inside /\ call'[c].pc # "done"
  BY <1>1 DEF Inside
<1>4. monitor = c
  BY DEF TypeInv, Held
<1> QED
  BY <1>1, <1>2, <1>3, <1>4 DEF Holds

LEMMA HoldsNotAlive ==
  ASSUME TypeInv, NEW c \in Calls, call[c].pc \in Inside, NotAlive(c)
  PROVE  Holds(c)
<1>1. CASE monitor' = NoCall /\ Returns(c, "silent")
  BY <1>1, HoldsReturns
<1>2. CASE monitor' = NoCall /\ Returns(c, "error")
  BY <1>2, HoldsReturns
<1>3. CASE Goes(c, "start") /\ UNCHANGED <<monitor, lock>>
  BY <1>3, HoldsGoes DEF Inside
<1>4. CASE /\ UNCHANGED <<monitor, lock>>
           /\ Becomes(c, "check", call[c].attempt, call[c].polls + 1, call[c].seen,
                      call[c].misled, call[c].result)
  BY <1>4 DEF Holds, Becomes, Inside, TypeInv, Held, HelperTyped
<1> QED
  BY <1>1, <1>2, <1>3, <1>4, NotAliveFields DEF TypeInv

LEMMA CoroutineHolds ==
  ASSUME TypeInv, NEW c \in Calls, Call(c) \/ Coroutine(c)
  PROVE  Holds(c)
<1>1. CASE Call(c)
  BY <1>1, HoldsGoes DEF Call, manager, channel, Inside
<1>2. CASE CachedOutside(c)
  BY <1>2, HoldsGoes, HoldsReturns DEF CachedOutside, manager, Inside
<1>3. CASE TakeMonitor(c)
  <2>1. Becomes(c, "check", call[c].attempt, call[c].polls, call[c].seen, call[c].misled,
                call[c].result)
    BY <1>3, GoesFields DEF TakeMonitor, TypeInv
  <2>2. monitor = NoCall /\ monitor' = c /\ UNCHANGED lock /\ NoCall \notin Calls
    BY <1>3, ChannelConstants DEF TakeMonitor, channel
  <2> QED
    BY <2>1, <2>2 DEF Becomes, Holds, Inside
<1>4. CASE CachedInside(c)
  BY <1>4, HoldsAlive, HoldsNotAlive DEF CachedInside, Inside
<1>5. CASE Ping(c)
  <2>1. PICK alive \in BOOLEAN : call' = [call EXCEPT ![c].pc = "pinged", ![c].seen = alive]
    BY <1>5 DEF Ping
  <2>2. call'[c].pc = "pinged" /\ \A d \in Calls \ {c} : call'[d] = call[d]
    BY <2>1, CallFields DEF TypeInv, Coroutines
  <2>3. UNCHANGED <<monitor, lock>> /\ call[c].pc = "check"
    BY <1>5 DEF Ping, manager, channel
  <2> QED
    BY <2>2, <2>3 DEF Holds, Inside, TypeInv, Held, HelperTyped
<1>6. CASE StoreResult(c)
  BY <1>6, HoldsGoes DEF StoreResult, channel, Inside
<1>7. CASE StoreTime(c)
  BY <1>7, HoldsAlive, HoldsNotAlive DEF StoreTime, Inside
<1>8. CASE StartDaemon(c)
  <2>1. Becomes(c, "check", call[c].attempt, 1, call[c].seen, call[c].misled, call[c].result)
    BY <1>8, PollFields DEF StartDaemon, TypeInv
  <2>2. UNCHANGED <<monitor, lock>> /\ call[c].pc = "start"
    BY <1>8 DEF StartDaemon, manager, channel
  <2> QED
    BY <2>1, <2>2 DEF Becomes, Holds, Inside, TypeInv, Held, HelperTyped
<1>9. CASE StartFails(c)
  BY <1>9, HoldsReturns DEF StartFails, Inside
<1>10. CASE TakeLock(c)
  <2>1. call'[c].pc = "connect" /\ \A d \in Calls \ {c} : call'[d] = call[d]
    BY <1>10, CallFields DEF TakeLock, TypeInv, Coroutines
  <2>2. UNCHANGED monitor /\ call[c].pc = "lock" /\ lock' = c
    BY <1>10 DEF TakeLock, manager
  <2> QED
    BY <2>1, <2>2 DEF Holds, Inside, TypeInv, Held, HelperTyped
<1>11. CASE Connect(c)
  BY <1>11, HoldsGoes DEF Connect, manager, Inside
<1>12. CASE Send(c)
  BY <1>12, HoldsGoes DEF Send, manager, Inside
<1>13. CASE Receive(c)
  BY <1>13, HoldsReturns DEF Receive, manager, Inside
<1>14. CASE AttemptFails(c)
  <2>1. call[c].pc \notin Inside
    BY <1>14 DEF AttemptFails, Fails, Inside
  <2> QED
    BY <1>14, <2>1, HoldsGoes DEF AttemptFails, Inside
<1>15. CASE InvalidateTime(c)
  <2>1. call[c].pc \notin Inside /\ UNCHANGED monitor
    BY <1>15 DEF InvalidateTime, Inside
  <2> QED
    BY <1>15, <2>1, HoldsGoes, HoldsReturns DEF InvalidateTime, TriesAgain, Inside
<1> QED
  BY <1>1, <1>2, <1>3, <1>4, <1>5, <1>6, <1>7, <1>8, <1>9, <1>10, <1>11, <1>12, <1>13,
     <1>14, <1>15 DEF Coroutine

-------------------------------------------------------------------------------
(* The connections. *)

LEMMA ServingFinite ==
  ASSUME IndInv
  PROVE  IsFiniteSet(Serving) /\ Cardinality(Serving) \in Nat
<1>1. DOMAIN conns = 1 .. Len(conns) /\ Len(conns) \in Nat
  BY DEF IndInv, Typed
<1>2. IsFiniteSet(1 .. Len(conns)) /\ Serving \in SUBSET (1 .. Len(conns))
  BY <1>1, FS_Interval DEF Serving
<1> QED
  BY <1>2, FS_Subset, FS_CardinalityType

LEMMA ServedKept ==
  ASSUME TypeInv, Serving' \subseteq Serving
  PROVE  Served'
<1> DEFINE T == Serving'
<1>1. IsFiniteSet(Serving) /\ Cardinality(Serving) \in Nat /\ Cardinality(Serving) <= PoolSize
  BY ServingFinite DEF TypeInv, Served
<1>2. T \in SUBSET Serving
  OBVIOUS
<1> HIDE DEF T
<1>3. IsFiniteSet(T) /\ Cardinality(T) <= Cardinality(Serving)
  BY <1>1, <1>2, FS_Subset
<1>4. Cardinality(T) \in Nat /\ PoolSize \in Nat
  BY <1>3, FS_CardinalityType, ChannelConstants
<1>5. Cardinality(T) <= PoolSize
  BY <1>1, <1>3, <1>4
<1> QED
  BY <1>5 DEF T, Served

(* The ends stay as they are, no thread is taken, and only a death closes a   *)
(* connection whose end is open.                                             *)
Broke(i) == conns[i].open /\ conns[i].stage = "closed"

LinksKept ==
  /\ OneOpen' /\ Serving' \subseteq Serving
  /\ \A i \in DOMAIN conns' :
       Broke(i)' => (i \in DOMAIN conns /\ Broke(i)) \/ deaths' > deaths

LEMMA SameLinks ==
  ASSUME TypeInv, UNCHANGED <<conn, conns>>
  PROVE  LinksKept
BY DEF TypeInv, OneOpen, Serving, LinksKept, Broke

(* One connection changes, but not its end. *)
LEMMA OneLink ==
  ASSUME TypeInv, NEW i \in DOMAIN conns, NEW k \in Conns, conns' = [conns EXCEPT ![i] = k],
         UNCHANGED conn, k.open = conns[i].open,
         k.stage \in {"reading", "running"} => conns[i].stage \in {"reading", "running"},
         k.open /\ k.stage = "closed" => conns[i].stage = "closed"
  PROVE  LinksKept
<1>1. /\ DOMAIN conns' = DOMAIN conns
      /\ conns'[i] = k /\ \A j \in DOMAIN conns \ {i} : conns'[j] = conns[j]
  BY OneChanges DEF TypeInv
<1>2. OneOpen'
  BY <1>1 DEF OneOpen, TypeInv
<1>3. Serving' \subseteq Serving
  BY <1>1 DEF Serving
<1>4. \A j \in DOMAIN conns' :
         Broke(j)' => (j \in DOMAIN conns /\ Broke(j)) \/ deaths' > deaths
  BY <1>1 DEF Broke
<1> QED
  BY <1>2, <1>3, <1>4 DEF LinksKept

LEMMA ConnectLinks ==
  ASSUME TypeInv, NEW c \in Calls, Connect(c)
  PROVE  LinksKept
<1>1. CASE conn # 0
  BY <1>1, SameLinks DEF Connect
<1>2. CASE conn = 0
  <2>1. conns' = Append(conns, NewConn) /\ conn' = Len(conns) + 1 /\ conns \in Seq(Conns)
    BY <1>2 DEF Connect, TypeInv, IndInv, Typed
  <2>2. /\ Len(conns) \in Nat
        /\ DOMAIN conns' = 1 .. Len(conns) + 1 /\ DOMAIN conns = 1 .. Len(conns)
        /\ \A i \in 1 .. Len(conns) : conns'[i] = conns[i]
        /\ conns'[Len(conns) + 1] = NewConn
    BY <2>1, NewTypes
  <2>3. \A i \in DOMAIN conns' : i \in DOMAIN conns \/ (i = Len(conns) + 1 /\ conns'[i] = NewConn)
    BY <2>2
  <2>4. NewConn.open /\ NewConn.stage = "queued"
    BY DEF NewConn
  <2>5. \A i \in DOMAIN conns : conns'[i] = conns[i] /\ ~conns[i].open /\ i # conn'
    <3>1. \A i \in DOMAIN conns : i # 0 /\ i # Len(conns) + 1
      BY <2>2
    <3> QED
      BY <1>2, <2>1, <2>2, <3>1 DEF TypeInv, OneOpen
  <2>6. OneOpen'
    BY <2>1, <2>3, <2>4, <2>5 DEF OneOpen
  <2>7. Serving' \subseteq Serving
    BY <2>3, <2>4, <2>5 DEF Serving
  <2>8. \A i \in DOMAIN conns' :
           Broke(i)' => (i \in DOMAIN conns /\ Broke(i)) \/ deaths' > deaths
    BY <2>3, <2>4, <2>5 DEF Broke
  <2> QED
    BY <2>6, <2>7, <2>8 DEF LinksKept
<1> QED
  BY <1>1, <1>2

LEMMA ClosingLinks ==
  ASSUME TypeInv, closeConnectionLocked
  PROVE  LinksKept
<1>1. CASE conn = 0
  <2>1. UNCHANGED <<conn, conns>>
    BY <1>1 DEF closeConnectionLocked
  <2> QED
    BY <2>1, SameLinks
<1>2. CASE conn # 0
  <2> DEFINE k == [conns[conn] EXCEPT !.open = FALSE, !.reply = NoCall]
  <2>1. conn \in DOMAIN conns /\ \A i \in DOMAIN conns : i # 0
    <3>1. DOMAIN conns = 1 .. Len(conns)
      BY DEF TypeInv, IndInv, Typed
    <3> QED
      BY <1>2, <3>1 DEF TypeInv, IndInv, Locked
  <2>2. k \in Conns /\ k.stage = conns[conn].stage /\ ~k.open
    BY <2>1, ConnType DEF Conns, TypeInv
  <2>3. conns' = [conns EXCEPT ![conn] = k] /\ conn' = 0
    BY <1>2 DEF closeConnectionLocked, CloseEnd
  <2> HIDE DEF k
  <2>4. /\ DOMAIN conns' = DOMAIN conns
        /\ conns'[conn] = k /\ \A j \in DOMAIN conns \ {conn} : conns'[j] = conns[j]
    BY <2>1, <2>2, <2>3, OneChanges DEF TypeInv
  <2>5. OneOpen'
    BY <2>1, <2>2, <2>3, <2>4 DEF OneOpen, TypeInv
  <2>6. Serving' \subseteq Serving
    BY <2>2, <2>4 DEF Serving
  <2>7. \A j \in DOMAIN conns' :
           Broke(j)' => (j \in DOMAIN conns /\ Broke(j)) \/ deaths' > deaths
    BY <2>2, <2>4 DEF Broke
  <2> QED
    BY <2>5, <2>6, <2>7 DEF LinksKept
<1> QED
  BY <1>1, <1>2

LEMMA DyingLinks ==
  ASSUME TypeInv, Dies, UNCHANGED conn
  PROVE  LinksKept /\ deaths' = deaths + 1 /\ deaths' \in 0 .. MaxDeaths /\ daemon' = FALSE
<1>1. /\ conns' = [j \in DOMAIN conns |-> [conns[j] EXCEPT !.stage = "closed", !.request = NoCall]]
      /\ deaths < MaxDeaths /\ deaths' = deaths + 1 /\ daemon' = FALSE
  BY DEF Dies
<1>2. deaths \in 0 .. MaxDeaths /\ MaxDeaths \in Nat
  BY ChannelConstants DEF TypeInv, HelperTyped
<1>3. \A j \in DOMAIN conns : conns'[j].stage = "closed" /\ conns'[j].open = conns[j].open
  BY <1>1, ConnType DEF Conns, TypeInv
<1>4. OneOpen' /\ Serving' \subseteq Serving
  BY <1>1, <1>3 DEF OneOpen, TypeInv, Serving
<1>5. deaths' > deaths /\ deaths' \in 0 .. MaxDeaths
  <2>1. deaths' = deaths + 1 /\ deaths < MaxDeaths
    BY <1>1
  <2> QED
    BY <1>2, <2>1
<1> QED
  BY <1>1, <1>4, <1>5 DEF LinksKept

(* A thread of the pool is taken. *)
LEMMA TakeClientLinks ==
  ASSUME TypeInv, NEW i \in DOMAIN conns, TakeClient(i)
  PROVE  /\ Served' /\ OneOpen'
         /\ \A j \in DOMAIN conns' :
              Broke(j)' => (j \in DOMAIN conns /\ Broke(j)) \/ deaths' > deaths
<1> DEFINE k == [conns[i] EXCEPT !.stage = "reading"]
           T == Serving'
<1>1. k \in Conns /\ k.open = conns[i].open /\ k.stage = "reading"
  BY ConnType DEF Conns, TypeInv
<1>2. conns' = [conns EXCEPT ![i] = k] /\ conn' = conn /\ Cardinality(Serving) < PoolSize
  BY DEF TakeClient
<1> HIDE DEF k
<1>3. /\ DOMAIN conns' = DOMAIN conns
      /\ conns'[i] = k /\ \A j \in DOMAIN conns \ {i} : conns'[j] = conns[j]
  BY <1>1, <1>2, OneChanges DEF TypeInv
<1>4. OneOpen'
  BY <1>1, <1>2, <1>3 DEF OneOpen, TypeInv
<1>5. \A j \in DOMAIN conns' : Broke(j)' => (j \in DOMAIN conns /\ Broke(j)) \/ deaths' > deaths
  BY <1>1, <1>3 DEF Broke
<1>6. T \in SUBSET (Serving \cup {i})
  BY <1>3 DEF Serving
<1> HIDE DEF T
<1>7. IsFiniteSet(Serving) /\ Cardinality(Serving) \in Nat /\ PoolSize \in Nat
  BY ServingFinite, ChannelConstants DEF TypeInv
<1>8. IsFiniteSet(Serving \cup {i}) /\ Cardinality(Serving \cup {i}) <= Cardinality(Serving) + 1
  <2>1. CASE i \in Serving
    <3>1. Serving \cup {i} = Serving
      BY <2>1
    <3>2. Cardinality(Serving) <= Cardinality(Serving) + 1
      BY <1>7
    <3> QED
      BY <1>7, <3>1, <3>2, Zenon
  <2>2. CASE i \notin Serving
    <3>1. IsFiniteSet(Serving \cup {i}) /\ Cardinality(Serving \cup {i}) = Cardinality(Serving) + 1
      BY <1>7, <2>2, FS_AddElement
    <3> QED
      BY <1>7, <3>1
  <2> QED
    BY <2>1, <2>2
<1>9. Cardinality(T) <= Cardinality(Serving \cup {i}) /\ Cardinality(T) \in Nat
      /\ Cardinality(Serving \cup {i}) \in Nat
  BY <1>6, <1>8, FS_Subset, FS_CardinalityType
<1>10. Cardinality(T) <= PoolSize
  BY <1>2, <1>7, <1>8, <1>9
<1>11. Served'
  BY <1>10 DEF T, Served
<1> QED
  BY <1>4, <1>5, <1>11

LEMMA HandlerLinks ==
  ASSUME TypeInv, NEW i \in DOMAIN conns, ReadRequest(i) \/ ReadEnd(i) \/ HandleRequest(i)
  PROVE  LinksKept
<1>0. conns[i] \in Conns /\ conn' = conn
  BY ConnType DEF TypeInv, ReadRequest, ReadEnd, HandleRequest
<1>1. CASE Dies
  BY <1>0, <1>1, DyingLinks
<1>2. CASE ReadRequest(i) \/ ReadEnd(i)
  <2>1. PICK stage \in {"running", "closed"} :
           /\ conns' = [conns EXCEPT ![i].stage = stage] /\ conns[i].stage = "reading"
           /\ stage = "closed" => ~conns[i].open
    BY <1>2 DEF ReadRequest, ReadEnd
  <2> DEFINE k == [conns[i] EXCEPT !.stage = stage]
  <2>2. k \in Conns /\ k.open = conns[i].open /\ k.stage = stage
    BY <1>0 DEF Conns
  <2>3. conns' = [conns EXCEPT ![i] = k]
    BY <2>1
  <2> HIDE DEF k
  <2> QED
    BY <1>0, <2>1, <2>2, <2>3, OneLink
<1>3. CASE /\ conns[i].stage = "running"
           /\ conns' = [conns EXCEPT
                ![i].stage = IF conns[i].open THEN "reading" ELSE "closed",
                ![i].reply = IF conns[i].open THEN conns[i].request ELSE NoCall,
                ![i].request = NoCall]
  <2>1. PICK stage \in {"reading", "closed"}, reply \in {conns[i].request, NoCall} :
            /\ conns' = [conns EXCEPT ![i].stage = stage, ![i].reply = reply, ![i].request = NoCall]
            /\ stage = "closed" => ~conns[i].open
    BY <1>3
  <2> DEFINE k == [conns[i] EXCEPT !.stage = stage, !.reply = reply, !.request = NoCall]
  <2>2. k \in Conns /\ k.open = conns[i].open /\ k.stage = stage
    BY <1>0, <2>1 DEF Conns
  <2>3. conns' = [conns EXCEPT ![i] = k]
    BY <2>1
  <2> HIDE DEF k
  <2> QED
    BY <1>0, <1>3, <2>1, <2>2, <2>3, OneLink
<1> QED
  BY <1>1, <1>2, <1>3 DEF HandleRequest

LEMMA CoroutineLinks ==
  ASSUME TypeInv, NEW c \in Calls, Call(c) \/ Coroutine(c)
  PROVE  LinksKept
<1>1. CASE Connect(c)
  BY <1>1, ConnectLinks
<1>2. CASE AttemptFails(c)
  BY <1>2, ClosingLinks DEF AttemptFails
<1>3. CASE Send(c)
  <2> DEFINE k == [conns[conn] EXCEPT !.request = c]
  <2>1. conn \in DOMAIN conns
    BY <1>3 DEF Send, TypeInv, IndInv, Locked
  <2>2. k \in Conns /\ k.stage = conns[conn].stage /\ k.open = conns[conn].open
    BY <2>1, ConnType DEF Conns, TypeInv
  <2>3. conns' = [conns EXCEPT ![conn] = k] /\ UNCHANGED conn
    BY <1>3 DEF Send
  <2> HIDE DEF k
  <2> QED
    BY <2>1, <2>2, <2>3, OneLink
<1>4. CASE Receive(c)
  <2> DEFINE k == [conns[conn] EXCEPT !.reply = NoCall]
  <2>1. conn \in DOMAIN conns
    BY <1>4 DEF Receive, TypeInv, IndInv, Locked
  <2>2. k \in Conns /\ k.stage = conns[conn].stage /\ k.open = conns[conn].open
    BY <2>1, ConnType DEF Conns, TypeInv
  <2>3. conns' = [conns EXCEPT ![conn] = k] /\ UNCHANGED conn
    BY <1>4 DEF Receive
  <2> HIDE DEF k
  <2> QED
    BY <2>1, <2>2, <2>3, OneLink
<1>5. CASE \/ Call(c) \/ CachedOutside(c) \/ TakeMonitor(c) \/ CachedInside(c) \/ Ping(c)
           \/ StoreResult(c) \/ StoreTime(c) \/ StartDaemon(c) \/ StartFails(c)
  BY <1>5, ManagerFollows, SameLinks DEF TypeInv
<1>6. CASE TakeLock(c) \/ InvalidateTime(c)
  BY <1>6, LockFollows, InvalidateFollows, SameLinks DEF TypeInv
<1> QED
  BY <1>1, <1>2, <1>3, <1>4, <1>5, <1>6 DEF Coroutine

-------------------------------------------------------------------------------
(* The types. *)

LEMMA HelperSteps ==
  ASSUME TypeInv, [Next]_vars, monitor' \in Calls \cup {NoCall}
  PROVE  HelperTyped'
<1> USE ChannelConstants DEF TypeInv, HelperTyped
<1>1. /\ launches + 1 \in Nat /\ deaths \in 0 .. MaxDeaths /\ failures \in 0 .. MaxFailures
      /\ failures < MaxFailures => failures + 1 \in 0 .. MaxFailures
      /\ deaths < MaxDeaths => deaths + 1 \in 0 .. MaxDeaths
      /\ launches > 0 => launches - 1 \in Nat
  OBVIOUS
<1>2. ASSUME NEW c \in Calls, Call(c) \/ Coroutine(c) PROVE HelperTyped'
  <2>1. call[c].seen \in BOOLEAN
    BY CallFields
  <2> QED
    BY <1>1, <1>2, <2>1 DEF Coroutine, Call, CachedOutside, TakeMonitor, CachedInside, Ping,
          StoreResult, StoreTime, StartDaemon, StartFails, TakeLock, Connect, Send,
          Receive, AttemptFails, InvalidateTime, helper, manager
<1>3. ASSUME NEW i \in DOMAIN conns, Handler(i) PROVE HelperTyped'
  BY <1>1, <1>3 DEF Handler, TakeClient, ReadRequest, ReadEnd, HandleRequest, Dies, helper,
        manager
<1>4. CASE Close \/ Expire \/ Launched \/ LaunchFails \/ DaemonDies
  BY <1>1, <1>4 DEF Close, Expire, Launched, LaunchFails, DaemonDies, Dies, helper, manager
<1>5. CASE UNCHANGED vars
  BY <1>5 DEF vars
<1> QED
  BY <1>2, <1>3, <1>4, <1>5 DEF Next

LEMMA TypeInit == Init => TypeInv
<1> SUFFICES ASSUME Init PROVE TypeInv
  OBVIOUS
<1>1. HelperTyped
  <2>1. 0 \in Nat /\ 0 \in 0 .. MaxDeaths /\ 0 \in 0 .. MaxFailures
    BY ChannelConstants
  <2> QED
    BY <2>1 DEF Init, HelperTyped
<1>2. Held
  BY ChannelConstants DEF Init, Held, NewCall, Inside
<1>3. DOMAIN conns = {} /\ Serving = {}
  BY DEF Init, Serving
<1>4. Served
  BY <1>3, FS_EmptySet, ChannelConstants DEF Served
<1> QED
  BY <1>1, <1>2, <1>3, <1>4, InitIndInv DEF TypeInv, OneOpen

LEMMA TypeNext == TypeInv /\ [Next]_vars => TypeInv'
<1> SUFFICES ASSUME TypeInv, [Next]_vars PROVE TypeInv'
  OBVIOUS
<1>0. IndInv'
  BY NextIndInv DEF TypeInv
<1>1. Held' /\ monitor' \in Calls \cup {NoCall}
  <2>1. ASSUME NEW c \in Calls, Call(c) \/ Coroutine(c)
        PROVE  Held' /\ monitor' \in Calls \cup {NoCall}
    BY <2>1, CoroutineHolds, HeldKept
  <2>2. ASSUME NEW i \in DOMAIN conns, Handler(i) PROVE UNCHANGED <<call, monitor, lock>>
    BY <2>2 DEF Handler, TakeClient, ReadRequest, ReadEnd, HandleRequest, manager
  <2>3. CASE Close \/ Expire \/ Launched \/ LaunchFails \/ DaemonDies \/ UNCHANGED vars
    BY <2>3, HeldStands DEF Close, Expire, Launched, LaunchFails, DaemonDies, manager, channel, vars
  <2> QED
    BY <2>1, <2>2, <2>3, HeldStands DEF Next
<1>2. OneOpen' /\ Served'
  <2>1. LinksKept => OneOpen' /\ Served'
    BY ServedKept DEF LinksKept
  <2>2. ASSUME NEW c \in Calls, Call(c) \/ Coroutine(c) PROVE LinksKept
    BY <2>2, CoroutineLinks
  <2>3. ASSUME NEW i \in DOMAIN conns, Handler(i) PROVE OneOpen' /\ Served'
    BY <2>1, <2>3, HandlerLinks, TakeClientLinks DEF Handler
  <2>4. CASE Close \/ DaemonDies
    BY <2>1, <2>4, ClosingLinks, DyingLinks DEF Close, DaemonDies
  <2>5. CASE Expire \/ Launched \/ LaunchFails \/ UNCHANGED vars
    BY <2>1, <2>5, SameLinks DEF Expire, Launched, LaunchFails, channel, vars
  <2> QED
    BY <2>1, <2>2, <2>3, <2>4, <2>5 DEF Next
<1> QED
  BY <1>0, <1>1, <1>2, HelperSteps DEF TypeInv

LEMMA TypeAlways == Spec => []TypeInv
BY TypeInit, TypeNext, PTL DEF Spec

(* The monitor of the manager and the lock of the client are held by who is   *)
(* inside them and by nobody else, the client has one open connection at      *)
(* most, and the helper serves no more connections than its pool has threads, *)
(* whatever times out, dies or is closed while it is being served.           *)
THEOREM TypeCorrect == Spec => []TypeOK
<1>1. TypeInv => TypeOK
  <2> SUFFICES ASSUME TypeInv PROVE TypeOK
    OBVIOUS
  <2>1. ASSUME NEW c \in Calls
        PROVE  /\ call[c].pc \in PCs
               /\ call[c].pc \in {"connect", "send", "wait", "invalidate"} => lock = c
    BY CallFields DEF TypeInv, IndInv, Ordered, Locked, Coroutines
  <2>2. /\ conns \in Seq(Conns) /\ conn \in 0 .. Len(conns)
        /\ \A i \in DOMAIN conns : conns[i] \in Conns
    <3>1. conns \in Seq(Conns) /\ conn \in DOMAIN conns \cup {0}
      BY DEF TypeInv, IndInv, Typed, Locked
    <3> QED
      BY <3>1
  <2>3. \A i \in DOMAIN conns : conns[i].stage \in {"queued", "reading", "running", "closed"}
    BY <2>2 DEF Conns
  <2> QED
    BY <2>1, <2>2, <2>3 DEF TypeInv, HelperTyped, Held, Inside, OneOpen, Served, IndInv, Typed, TypeOK
<1> QED
  BY <1>1, TypeAlways, PTL

-------------------------------------------------------------------------------
(* What slow calls cost the prompt ones. *)

(* Induction on the numbers up to n. *)
LEMMA UpTo ==
  ASSUME NEW n \in Nat, NEW S, 0 \in S, \A i \in 0 .. n : i # 0 /\ i - 1 \in S => i \in S
  PROVE  0 .. n \subseteq S
<1> DEFINE R == {ss \in Nat \X Nat : ss[1] < ss[2]}
           T == {i \in 0 .. n : i \notin S}
<1> SUFFICES ASSUME T # {} PROVE FALSE
  OBVIOUS
<1>1. T \subseteq Nat
  OBVIOUS
<1>2. IsWellFoundedOn(R, Nat)
  BY NatLessThanWellFounded DEF OpToRel
<1>3. PICK m \in T : \A y \in T : ~ (<<y, m>> \in R)
  <2> HIDE DEF R, T
  <2> QED
    BY <1>1, <1>2, WFMin
<1>4. m # 0 /\ m \in 0 .. n /\ m - 1 \in 0 .. n /\ m - 1 < m
  OBVIOUS
<1>5. <<m - 1, m>> \in R
  <2>1. m \in Nat /\ m - 1 \in Nat
    BY <1>4
  <2> QED
    BY <1>4, <2>1
<1>6. m - 1 \in S
  <2> HIDE DEF R
  <2> QED
    BY <1>3, <1>4, <1>5
<1>7. m \notin S
  BY <1>3
<1> QED
  BY <1>4, <1>6, <1>7

-------------------------------------------------------------------------------
(* The room in the pool. *)

(* A thread for each of the two connections that a slow call may leave behind, *)
(* one for the client's own, and one to spare.                               *)
PoolHasRoom == IsFiniteSet(Slow) /\ PoolSize > 2 * Cardinality(Slow) + 1

CarryingFor(T) == {i \in DOMAIN conns : conns[i].request \in T}

LEMMA CarryingForFinite ==
  ASSUME IndInv, NEW T
  PROVE  IsFiniteSet(CarryingFor(T)) /\ Cardinality(CarryingFor(T)) \in Nat
<1>1. DOMAIN conns = 1 .. Len(conns) /\ Len(conns) \in Nat
  BY DEF IndInv, Typed
<1>2. IsFiniteSet(1 .. Len(conns)) /\ CarryingFor(T) \in SUBSET (1 .. Len(conns))
  BY <1>1, FS_Interval DEF CarryingFor
<1> QED
  BY <1>2, FS_Subset, FS_CardinalityType

LEMMA CarriedOnce ==
  ASSUME IndInv, NEW c \in Calls
  PROVE  /\ IsFiniteSet(Carrying(conns, c))
         /\ Cardinality(Carrying(conns, c)) \in Nat /\ Cardinality(Carrying(conns, c)) <= 2
<1>1. /\ IsFiniteSet(Carrying(conns, c)) /\ Cardinality(Carrying(conns, c)) \in Nat
      /\ executed[c] \in Nat /\ Allowed(call[c]) \in 0 .. MaxAttempts
      /\ executed[c] + Cardinality(Carrying(conns, c)) <= Allowed(call[c])
  BY CarryingFinite, AllowedType DEF IndInv, Typed, Counted
<1> QED
  BY <1>1 DEF MaxAttempts

LEMMA CarriedTwice ==
  ASSUME IndInv, NEW T \in SUBSET Calls, IsFiniteSet(T)
  PROVE  Cardinality(CarryingFor(T)) <= 2 * Cardinality(T)
<1> DEFINE N == Cardinality(T)
           Fits(U, n) == Cardinality(CarryingFor(U)) <= 2 * n
           G == {n \in 0 .. N : \A U \in SUBSET T : Cardinality(U) = n => Fits(U, n)}
<1>1. N \in Nat /\ \A U \in SUBSET T : IsFiniteSet(U) /\ Cardinality(U) \in Nat
  BY FS_CardinalityType, FS_Subset
<1>2. 0 \in G
  <2>1. ASSUME NEW U \in SUBSET T, Cardinality(U) = 0 PROVE Fits(U, 0)
    <3>1. U = {}
      BY <1>1, <2>1, FS_EmptySet
    <3>2. CarryingFor(U) = {}
      BY <3>1 DEF CarryingFor
    <3> QED
      BY <3>2, FS_EmptySet
  <2>2. 0 \in 0 .. N
    BY <1>1
  <2> HIDE DEF N, Fits
  <2> QED
    BY <2>1, <2>2
<1>3. ASSUME NEW n \in 0 .. N, n # 0, n - 1 \in G PROVE n \in G
  <2>1. ASSUME NEW U \in SUBSET T, Cardinality(U) = n PROVE Fits(U, n)
    <3>0. n \in Nat /\ n - 1 \in Nat
      BY <1>1, <1>3
    <3>1. U # {}
      BY <1>3, <2>1, <1>1, FS_EmptySet
    <3>2. PICK x \in U : TRUE
      BY <3>1
    <3> DEFINE W == U \ {x}
               A == CarryingFor(W)
               B == Carrying(conns, x)
    <3>3. W \in SUBSET T /\ Cardinality(W) = n - 1
      BY <1>1, <2>1, <3>2, FS_RemoveElement
    <3>4. CarryingFor(U) = A \cup B
      BY <3>2 DEF CarryingFor, Carrying
    <3>5. /\ IsFiniteSet(A) /\ Cardinality(A) \in Nat
          /\ IsFiniteSet(B) /\ Cardinality(B) \in Nat /\ Cardinality(B) <= 2
      BY CarryingForFinite, CarriedOnce, <3>2
    <3>6. Cardinality(A) <= 2 * (n - 1)
      <4> HIDE DEF N, W
      <4> QED
        BY <1>3, <3>3
    <3> HIDE DEF A, B
    <3>7. /\ Cardinality(A \cup B) <= Cardinality(A) + Cardinality(B)
      <4>1. /\ IsFiniteSet(A \cap B) /\ Cardinality(A \cap B) \in Nat
        BY <3>5, FS_Intersection, FS_CardinalityType
      <4>2. Cardinality(A \cup B) = Cardinality(A) + Cardinality(B) - Cardinality(A \cap B)
        BY <3>5, FS_Union
      <4> QED
        BY <3>5, <4>1, <4>2
    <3>8. Cardinality(A \cup B) \in Nat
      BY <3>5, FS_Union, FS_CardinalityType
    <3>9. Cardinality(A \cup B) <= 2 * n
      BY <3>0, <3>5, <3>6, <3>7, <3>8
    <3> QED
      BY <3>4, <3>9
  <2> HIDE DEF N, Fits
  <2> QED
    BY <1>3, <2>1
<1>4. N \in G
  <2> HIDE DEF N, G
  <2>1. 0 .. N \subseteq G
    BY <1>1, <1>2, <1>3, UpTo
  <2> QED
    BY <1>1, <2>1
<1>5. T \in SUBSET T
  OBVIOUS
<1> QED
  BY <1>4, <1>5

(* Then the pool is never taken up by what does not come free soon. *)
LEMMA NotCrowded ==
  ASSUME PoolHasRoom, TypeInv
  PROVE  ~Crowded
<1> DEFINE A == CarryingFor(Slow)
           S == Cardinality(Slow)
<1>1. Slow \in SUBSET Calls /\ S \in Nat /\ PoolSize \in Nat
  BY ChannelConstants, FS_CardinalityType DEF PoolHasRoom
<1>2. /\ IsFiniteSet(A) /\ Cardinality(A) \in Nat /\ Cardinality(A) <= 2 * S
  BY <1>1, CarryingForFinite, CarriedTwice DEF TypeInv, PoolHasRoom
<1>3. Occupied \in SUBSET (A \cup {conn})
  BY DEF Occupied, Serving, CarryingFor, TypeInv, OneOpen
<1> HIDE DEF A
<1>4. IsFiniteSet(A \cup {conn}) /\ Cardinality(A \cup {conn}) <= Cardinality(A) + 1
  <2>1. CASE conn \in A
    <3>1. A \cup {conn} = A
      BY <2>1
    <3>2. Cardinality(A) <= Cardinality(A) + 1
      BY <1>2
    <3> QED
      BY <1>2, <3>1, <3>2, Zenon
  <2>2. CASE conn \notin A
    <3>1. IsFiniteSet(A \cup {conn}) /\ Cardinality(A \cup {conn}) = Cardinality(A) + 1
      BY <1>2, <2>2, FS_AddElement
    <3> QED
      BY <1>2, <3>1
  <2> QED
    BY <2>1, <2>2
<1>5. /\ Cardinality(Occupied) <= Cardinality(A \cup {conn}) /\ Cardinality(Occupied) \in Nat
      /\ Cardinality(A \cup {conn}) \in Nat
  BY <1>3, <1>4, FS_Subset, FS_CardinalityType
<1> HIDE DEF S
<1>6. Cardinality(Occupied) <= 2 * S + 1
  BY <1>1, <1>2, <1>4, <1>5
<1>7. PoolSize > 2 * S + 1
  BY DEF PoolHasRoom, S
<1>8. Cardinality(Occupied) # PoolSize
  BY <1>1, <1>5, <1>6, <1>7
<1> QED
  BY <1>8 DEF Crowded

-------------------------------------------------------------------------------
(* Who is to blame when a prompt call throws. *)

(* Nobody holds that the helper is alive, and no connection is broken, that  *)
(* was never up or has not died since.                                       *)
Known ==
  /\ verdict => daemon \/ deaths > 0
  /\ \A i \in DOMAIN conns : Broke(i) => deaths > 0

Searches(c) == call[c].pc \in {"probe"} \cup Inside

(* The client has closed its connection and c has not made the next one.     *)
Reconnects(c) ==
  \/ call[c].pc = "invalidate"
  \/ call[c].attempt = 1 /\ Searches(c)
  \/ call[c].attempt = 2 /\ call[c].pc = "connect"

Told(c) ==
  \/ call[c].pc \in {"lock", "connect"}
  \/ call[c].pc \in {"pinged", "stamp"} /\ call[c].seen

Course(c) ==
  /\ call[c].pc # "done" => call[c].result = "none"
  /\ Reconnects(c) => conn = 0
  /\ call[c].polls > 0 => daemon \/ launches > 0 \/ deaths > 0 \/ failures > 0
  /\ call[c].pc \in {"pinged", "stamp"} /\ call[c].polls = Polls /\ ~call[c].seen =>
       deaths > 0 \/ failures > 0
  /\ Told(c) => daemon \/ deaths > 0

(* A prompt call makes its second attempt because the helper died, and, if it *)
(* was not misled, fails in it because the helper died again.                *)
Retrying(c) ==
  \/ call[c].attempt = 2
  \/ call[c].attempt = 1 /\ (Searches(c) \/ call[c].pc = "invalidate")

Refound(c) == call[c].attempt = 2 /\ ~call[c].misled

Fair(c) ==
  /\ Retrying(c) => deaths > 0
  /\ Refound(c) /\ call[c].pc = "connect" => daemon \/ deaths > 1
  /\ Refound(c) /\ call[c].pc \in {"send", "wait"} /\ conns[conn].stage = "closed" => deaths > 1
  /\ Refound(c) /\ call[c].pc = "invalidate" => deaths > 1
  /\ call[c].result = "error" =>
       IF call[c].attempt = 2 THEN deaths > 1 \/ call[c].misled ELSE failures > 0 \/ deaths > 0

Right(c) == Course(c) /\ (c \in Prompt => Fair(c))

PromptInv == TypeInv /\ Known /\ \A c \in Calls : Right(c)

(* What a step does to the helper, and to connections, for everyone. *)
Died == deaths' > 0 /\ (deaths > 0 => deaths' > 1)

Later ==
  /\ deaths > 0 => deaths' > 0
  /\ deaths > 1 => deaths' > 1
  /\ failures > 0 => failures' > 0
  /\ daemon => daemon' \/ Died
  /\ launches > 0 => launches' > 0 \/ daemon' \/ failures' > 0
  /\ \A i \in DOMAIN conns' : Broke(i)' => (i \in DOMAIN conns /\ Broke(i)) \/ Died

Breaks == \A i \in DOMAIN conns' : Broke(i)' => (i \in DOMAIN conns /\ Broke(i)) \/ deaths' > deaths

LEMMA StepBreaks ==
  ASSUME TypeInv, [Next]_vars
  PROVE  Breaks
<1>1. LinksKept => Breaks
  BY DEF LinksKept, Breaks
<1>2. ASSUME NEW c \in Calls, Call(c) \/ Coroutine(c) PROVE Breaks
  BY <1>1, <1>2, CoroutineLinks
<1>3. ASSUME NEW i \in DOMAIN conns, Handler(i) PROVE Breaks
  BY <1>1, <1>3, HandlerLinks, TakeClientLinks DEF Handler, Breaks
<1>4. CASE Close \/ DaemonDies
  BY <1>1, <1>4, ClosingLinks, DyingLinks DEF Close, DaemonDies
<1>5. CASE Expire \/ Launched \/ LaunchFails \/ UNCHANGED vars
  BY <1>1, <1>5, SameLinks DEF Expire, Launched, LaunchFails, channel, vars
<1> QED
  BY <1>2, <1>3, <1>4, <1>5 DEF Next

LEMMA StepLater ==
  ASSUME TypeInv, [Next]_vars
  PROVE  Later
<1>0. /\ deaths \in Nat /\ failures \in Nat /\ launches \in Nat /\ daemon \in BOOLEAN
  BY ChannelConstants DEF TypeInv, HelperTyped
<1>1. CASE UNCHANGED helper
  BY <1>0, <1>1, StepBreaks DEF helper, Later, Died, Breaks
<1>2. CASE Dies /\ UNCHANGED <<failures, launches>>
  <2>1. deaths' = deaths + 1
    BY <1>2 DEF Dies
  <2>2. deaths' > 0 /\ (deaths > 0 => deaths' > 1) /\ (deaths > 1 => deaths' > 1)
    BY <1>0, <2>1
  <2> QED
    BY <1>2, <2>2, StepBreaks DEF Later, Died, Breaks
<1>3. CASE /\ launches' = launches + 1 \/ (launches' = launches - 1 /\ daemon' = TRUE)
           /\ UNCHANGED <<deaths, failures>> /\ (daemon => daemon')
  <2>1. launches' > 0 \/ daemon'
    BY <1>0, <1>3
  <2> QED
    BY <1>0, <1>3, <2>1, StepBreaks DEF Later, Died, Breaks
<1>4. CASE failures' = failures + 1 /\ UNCHANGED <<deaths, daemon>>
  <2>1. failures' > 0
    BY <1>0, <1>4
  <2> QED
    BY <1>0, <1>4, <2>1, StepBreaks DEF Later, Died, Breaks
<1>5. ASSUME NEW c \in Calls, Call(c) \/ Coroutine(c) PROVE Later
  <2>1. CASE StartDaemon(c)
    BY <1>3, <2>1 DEF StartDaemon
  <2>2. CASE StartFails(c)
    BY <1>4, <2>2 DEF StartFails
  <2> QED
    BY <1>1, <1>5, <2>1, <2>2 DEF Coroutine, Call, CachedOutside, TakeMonitor, CachedInside,
        Ping, StoreResult, StoreTime, TakeLock, Connect, Send, Receive, AttemptFails,
        InvalidateTime
<1>6. ASSUME NEW i \in DOMAIN conns, Handler(i) PROVE Later
  BY <1>1, <1>2, <1>6 DEF Handler, TakeClient, ReadRequest, ReadEnd, HandleRequest, helper
<1>7. CASE Launched
  BY <1>3, <1>7 DEF Launched
<1>8. CASE LaunchFails
  BY <1>4, <1>8 DEF LaunchFails
<1>9. CASE Close \/ Expire \/ DaemonDies \/ UNCHANGED vars
  BY <1>1, <1>2, <1>9 DEF Close, Expire, DaemonDies, vars, helper
<1> QED
  BY <1>5, <1>6, <1>7, <1>8, <1>9 DEF Next

(* A call that does not move stays in the right while the others, the helper *)
(* and the environment do.                                                   *)
LEMMA RightStands ==
  ASSUME TypeInv, TypeInv', Later, NEW c \in Calls, call'[c] = call[c], Right(c),
         lock = c => conn' = conn
  PROVE  Right(c)'
<1>1. conn' = conn => (conn # 0 /\ conns'[conn].stage = "closed" =>
                         conns[conn].stage = "closed" \/ Died)
  <2>1. ASSUME conn' = conn, conn # 0, conns'[conn].stage = "closed"
        PROVE  conns[conn].stage = "closed" \/ Died
    <3>1. conn \in DOMAIN conns' /\ conns'[conn].open
      BY <2>1 DEF TypeInv, IndInv, Locked, OneOpen
    <3> QED
      BY <2>1, <3>1 DEF Later, Broke
  <2> QED
    BY <2>1
<1>2. /\ call[c].attempt > 0 /\ call[c].pc # "done" => lock = c
      /\ call[c].pc \in {"connect", "send", "wait", "invalidate"} => call[c].attempt > 0
      /\ call[c].pc \in {"send", "wait"} => conn # 0
  BY DEF TypeInv, IndInv, Locked, Ordered
<1>3. Reconnects(c) \/ (Refound(c) /\ call[c].pc \in {"send", "wait"}) => conn' = conn
  BY <1>2 DEF Reconnects, Refound, Searches, Inside
<1>4. Course(c)'
  BY <1>3 DEF Right, Course, Later, Died, Reconnects, Searches, Told
<1>5. c \in Prompt => Fair(c)'
  BY <1>1, <1>2, <1>3 DEF Right, Fair, Later, Died, Retrying, Refound, Searches
<1> QED
  BY <1>4, <1>5 DEF Right

(* What c does itself. *)
LEMMA ReturnsRight ==
  ASSUME TypeInv, Later, NEW c \in Calls, Right(c), NEW result, Returns(c, result),
         result = "error" /\ c \in Prompt =>
            IF call[c].attempt = 2 THEN deaths > 1 \/ call[c].misled
            ELSE failures' > 0 \/ deaths > 0
  PROVE  Right(c)'
<1>1. Becomes(c, "done", call[c].attempt, 0, FALSE, call[c].misled, result)
  BY ReturnsFields DEF TypeInv
<1>2. Course(c)'
  BY <1>1 DEF Becomes, Course, Reconnects, Searches, Inside, Told
<1>3. c \in Prompt => Fair(c)'
  BY <1>1 DEF Becomes, Right, Fair, Retrying, Refound, Searches, Inside, Later
<1> QED
  BY <1>2, <1>3 DEF Right

LEMMA AliveRight ==
  ASSUME TypeInv, Later, NEW c \in Calls, Right(c), Alive(c), call[c].pc \in Inside,
         daemon \/ deaths > 0, UNCHANGED conn
  PROVE  Right(c)'
<1>1. Searches(c) /\ call[c].attempt \in {0, 1} /\ call[c].misled \in BOOLEAN
      /\ call[c].pc # "done"
  BY CallFields DEF Searches, Inside, TypeInv, IndInv, Ordered, MaxAttempts
<1>2. CASE call[c].attempt = 0
  <2>1. Becomes(c, "lock", 0, 0, FALSE, call[c].misled, call[c].result)
    BY <1>2, AliveFields DEF TypeInv
  <2>2. Course(c)'
    BY <1>1, <2>1 DEF Becomes, Right, Course, Reconnects, Searches, Inside, Told, Later, Died
  <2>3. c \in Prompt => Fair(c)'
    BY <1>1, <2>1 DEF Becomes, Right, Course, Fair, Retrying, Refound, Searches, Inside
  <2> QED
    BY <2>2, <2>3 DEF Right
<1>3. CASE call[c].attempt = 1
  <2>0. call[c].attempt # 0 /\ call[c].attempt + 1 = 2
    BY <1>3
  <2>1. Becomes(c, "connect", 2, 0, FALSE, call[c].misled \/ ~daemon, call[c].result)
    BY <2>0, AliveFields, Zenon DEF TypeInv
  <2>2. Course(c)'
    BY <1>1, <1>3, <2>1 DEF Becomes, Right, Course, Reconnects, Told, Later, Died
  <2>3. c \in Prompt => Fair(c)'
    BY <1>1, <1>3, <2>1 DEF Becomes, Right, Course, Fair, Retrying, Refound, Later, Died
  <2> QED
    BY <2>2, <2>3 DEF Right
<1> QED
  BY <1>1, <1>2, <1>3

LEMMA NotAliveRight ==
  ASSUME TypeInv, Later, NEW c \in Calls, Right(c), NotAlive(c), call[c].pc \in Inside,
         call[c].polls = Polls => deaths > 0 \/ failures > 0, UNCHANGED conn,
         call[c].polls > 0 => daemon' \/ launches' > 0 \/ deaths' > 0 \/ failures' > 0
  PROVE  Right(c)'
<1>1. Searches(c) /\ call[c].attempt \in {0, 1} /\ call[c].polls \in Nat /\ call[c].pc # "done"
  BY CallFields DEF Searches, Inside, TypeInv, IndInv, Ordered, MaxAttempts
<1>2. CASE Returns(c, "silent")
  BY <1>2, ReturnsRight
<1>3. CASE call[c].polls = Polls /\ Returns(c, "error")
  BY <1>1, <1>3, ReturnsRight DEF Later
<1>4. CASE call[c].polls = 0 /\ Goes(c, "start")
  <2>1. Becomes(c, "start", call[c].attempt, 0, call[c].seen, call[c].misled, call[c].result)
    BY <1>4, GoesFields DEF TypeInv
  <2>2. Course(c)'
    BY <1>1, <2>1 DEF Becomes, Right, Course, Reconnects, Told, Inside, Searches
  <2>3. c \in Prompt => Fair(c)'
    BY <1>1, <2>1 DEF Becomes, Right, Course, Fair, Retrying, Refound, Searches, Later
  <2> QED
    BY <2>2, <2>3 DEF Right
<1>5. CASE /\ call[c].polls \notin {0, Polls}
           /\ Becomes(c, "check", call[c].attempt, call[c].polls + 1, call[c].seen,
                      call[c].misled, call[c].result)
  <2>1. call[c].polls > 0
    BY <1>1, <1>5
  <2>2. Course(c)'
    BY <1>1, <1>5, <2>1 DEF Becomes, Right, Course, Reconnects, Told, Inside, Searches
  <2>3. c \in Prompt => Fair(c)'
    BY <1>1, <1>5 DEF Becomes, Right, Course, Fair, Retrying, Refound, Searches, Later
  <2> QED
    BY <2>2, <2>3 DEF Right
<1> QED
  BY <1>2, <1>3, <1>4, <1>5, NotAliveFields DEF TypeInv

LEMMA ManagerRight ==
  ASSUME PoolHasRoom, PromptInv, Later, NEW c \in Calls,
         \/ Call(c) \/ CachedOutside(c) \/ TakeMonitor(c) \/ CachedInside(c) \/ Ping(c)
         \/ StoreResult(c) \/ StoreTime(c) \/ StartDaemon(c) \/ StartFails(c)
  PROVE  Right(c)'
<1>0. TypeInv /\ Known /\ Right(c) /\ Course(c) /\ call[c].polls \in Nat
      /\ Polls \in Nat \ {0} /\ conn' = conn
  <2>1. conn' = conn
    BY ManagerFollows DEF PromptInv, TypeInv
  <2> QED
    BY <2>1, CallFields, ChannelConstants DEF PromptInv, Right, TypeInv
<1>g. ASSUME NEW pc, Goes(c, pc), pc \in Inside \cup {"probe"}, pc # "start",
             call[c].pc \in Inside \cup {"idle", "probe"},
             pc \in {"pinged", "stamp"} => call[c].pc \in {"pinged", "stamp"}
      PROVE  Right(c)'
  <2>1. Becomes(c, pc, call[c].attempt, call[c].polls, call[c].seen, call[c].misled,
                call[c].result)
    BY <1>0, <1>g, GoesFields DEF TypeInv
  <2>2. call[c].pc = "idle" => call[c].attempt = 0
    BY <1>0 DEF TypeInv, IndInv, Ordered
  <2>3. Course(c)'
    BY <1>0, <1>g, <2>1, <2>2 DEF Becomes, Course, Reconnects, Searches, Inside, Told, Later, Died
  <2>4. c \in Prompt => Fair(c)'
    BY <1>0, <1>g, <2>1, <2>2 DEF Becomes, Course, Right, Fair, Retrying, Refound, Searches,
          Inside, Later
  <2> QED
    BY <2>3, <2>4 DEF Right
<1>1. CASE Call(c)
  BY <1>1, <1>g DEF Call, Inside
<1>2. CASE CachedOutside(c)
  <2>1. CASE Returns(c, "silent")
    BY <1>0, <2>1, ReturnsRight
  <2>2. CASE verdict /\ Goes(c, "lock")
    <3>1. Becomes(c, "lock", call[c].attempt, call[c].polls, call[c].seen, call[c].misled,
                  call[c].result)
      BY <1>0, <2>2, GoesFields DEF TypeInv
    <3>2. call[c].pc = "probe" /\ call[c].attempt = 0
      BY <1>0, <1>2 DEF CachedOutside, Ensures, TypeInv, IndInv, Ordered, MaxAttempts, Typed,
            Coroutines
    <3>3. Course(c)'
      BY <1>0, <2>2, <3>1, <3>2 DEF Known, Becomes, Course, Reconnects, Searches, Inside, Told,
            Later, Died
    <3>4. c \in Prompt => Fair(c)'
      BY <1>0, <3>1, <3>2 DEF Becomes, Course, Fair, Retrying, Refound, Searches, Inside
    <3> QED
      BY <3>3, <3>4 DEF Right
  <2> QED
    BY <1>2, <2>1, <2>2 DEF CachedOutside
<1>3. CASE TakeMonitor(c)
  BY <1>3, <1>g DEF TakeMonitor, Inside
<1>4. CASE CachedInside(c)
  <2>1. CASE verdict
    BY <1>0, <1>4, <2>1, AliveRight DEF CachedInside, Known, Inside
  <2>2. CASE ~verdict
    <3>1. call[c].polls # Polls /\ UNCHANGED helper
      BY <1>0, <1>4, <2>2 DEF CachedInside
    <3> QED
      BY <1>0, <1>4, <2>2, <3>1, NotAliveRight DEF CachedInside, Inside, Course, helper
  <2> QED
    BY <2>1, <2>2
<1>5. CASE Ping(c)
  <2>1. PICK alive \in BOOLEAN :
           /\ IF alive THEN daemon ELSE ~daemon
           /\ call' = [call EXCEPT ![c].pc = "pinged", ![c].seen = alive]
    BY <1>0, <1>5, NotCrowded DEF Ping
  <2>2. Becomes(c, "pinged", call[c].attempt, call[c].polls, alive, call[c].misled,
                call[c].result)
    BY <1>0, <2>1, CallFields DEF Becomes, Coroutines, TypeInv
  <2>3. /\ call[c].pc = "check" /\ UNCHANGED helper
        /\ call[c].polls = Polls => launches = 0
    BY <1>5 DEF Ping
  <2>4. Course(c)'
    BY <1>0, <2>1, <2>2, <2>3 DEF Becomes, Course, Reconnects, Searches, Inside, Told, helper
  <2>5. c \in Prompt => Fair(c)'
    BY <1>0, <2>2, <2>3 DEF Becomes, Course, Right, Fair, Retrying, Refound, Searches, Inside,
          helper
  <2> QED
    BY <2>4, <2>5 DEF Right
<1>6. CASE StoreResult(c)
  BY <1>6, <1>g DEF StoreResult, Inside
<1>7. CASE StoreTime(c)
  <2>1. CASE call[c].seen
    BY <1>0, <1>7, <2>1, AliveRight DEF StoreTime, Course, Told, Inside
  <2>2. CASE ~call[c].seen
    BY <1>0, <1>7, <2>2, NotAliveRight DEF StoreTime, Course, Inside, helper
  <2> QED
    BY <2>1, <2>2
<1>8. CASE StartDaemon(c)
  <2>1. Becomes(c, "check", call[c].attempt, 1, call[c].seen, call[c].misled, call[c].result)
    BY <1>0, <1>8, PollFields DEF StartDaemon, TypeInv
  <2>2. call[c].pc = "start" /\ launches' > 0
    <3>1. launches \in Nat /\ launches' = launches + 1
      BY <1>0, <1>8 DEF StartDaemon, TypeInv, HelperTyped
    <3>2. launches' > 0
      BY <3>1
    <3> QED
      BY <1>8, <3>2 DEF StartDaemon
  <2>3. Course(c)'
    BY <1>0, <2>1, <2>2 DEF Becomes, Course, Reconnects, Searches, Inside, Told
  <2>4. c \in Prompt => Fair(c)'
    BY <1>0, <2>1, <2>2 DEF Becomes, Course, Right, Fair, Retrying, Refound, Searches, Inside,
          Later
  <2> QED
    BY <2>3, <2>4 DEF Right
<1>9. CASE StartFails(c)
  <2>1. /\ failures \in Nat /\ failures' = failures + 1 /\ Returns(c, "error")
        /\ call[c].pc = "start"
    BY <1>0, <1>9, ChannelConstants DEF StartFails, TypeInv, HelperTyped
  <2>2. failures' > 0 /\ call[c].attempt \in {0, 1}
    <3>1. call[c].attempt \in {0, 1}
      BY <1>0, <2>1, CallFields DEF TypeInv, IndInv, Ordered, MaxAttempts
    <3> QED
      BY <2>1, <3>1
  <2> QED
    BY <1>0, <2>1, <2>2, ReturnsRight
<1> QED
  BY <1>1, <1>2, <1>3, <1>4, <1>5, <1>6, <1>7, <1>8, <1>9

(* An attempt of a prompt call fails because the helper has died, the second *)
(* one because it has died again or was believed alive when it was dead.     *)
LEMMA AttemptRight ==
  ASSUME PoolHasRoom, PromptInv, TypeInv', Later, NEW c \in Calls,
         \/ TakeLock(c) \/ Connect(c) \/ Send(c) \/ Receive(c) \/ AttemptFails(c)
         \/ InvalidateTime(c)
  PROVE  Right(c)'
<1>0. /\ TypeInv /\ Known /\ Right(c) /\ Course(c) /\ call[c].attempt \in {0, 1, 2}
      /\ call[c].pc \in {"connect", "send", "wait", "invalidate"} =>
           lock = c /\ call[c].attempt \in {1, 2}
      /\ call[c].pc \in {"send", "wait"} => conn # 0
      /\ conn # 0 => conn \in DOMAIN conns /\ conns[conn].open
  <2>1. TypeInv /\ Known /\ Right(c) /\ Course(c)
    BY DEF PromptInv, Right
  <2>2. call[c].attempt \in {0, 1, 2}
    BY <2>1, CallFields DEF TypeInv
  <2>3. call[c].pc \in {"connect", "send", "wait", "invalidate"} =>
           lock = c /\ call[c].attempt \in {1, 2}
    BY <2>1, <2>2 DEF TypeInv, IndInv, Locked, Ordered
  <2> QED
    BY <2>1, <2>2, <2>3 DEF TypeInv, IndInv, Locked, OneOpen
<1>1. CASE TakeLock(c)
  <2>1. call[c].pc = "lock" /\ call[c].attempt = 0 /\ UNCHANGED <<conn, helper>>
    BY <1>0, <1>1 DEF TakeLock, TypeInv, IndInv, Ordered
  <2>2. Becomes(c, "connect", 1, call[c].polls, call[c].seen, call[c].misled, call[c].result)
    BY <1>0, <1>1, CallFields DEF TakeLock, Becomes, Coroutines, TypeInv
  <2>3. Course(c)'
    BY <1>0, <2>1, <2>2 DEF Becomes, Course, Reconnects, Searches, Inside, Told, helper
  <2>4. c \in Prompt => Fair(c)'
    BY <1>0, <2>1, <2>2 DEF Becomes, Course, Fair, Retrying, Refound, Searches, Inside
  <2> QED
    BY <2>3, <2>4 DEF Right
<1>2. CASE Connect(c)
  <2>1. call[c].pc = "connect" /\ UNCHANGED helper
    BY <1>2 DEF Connect
  <2>2. Becomes(c, "send", call[c].attempt, call[c].polls, call[c].seen, call[c].misled,
                call[c].result)
    BY <1>0, <1>2, GoesFields DEF Connect, TypeInv
  <2>3. call[c].attempt = 2 => conns'[conn'].stage = "queued"
    <3>1. ASSUME call[c].attempt = 2 PROVE conns'[conn'].stage = "queued"
      <4>1. conn = 0
        BY <1>0, <2>1, <3>1 DEF Course, Reconnects
      <4>2. /\ conn' = Len(conns) + 1 /\ conns' = Append(conns, NewConn)
            /\ conns \in Seq(Conns) /\ NewConn \in Conns
        BY <1>0, <1>2, <4>1, NewTypes DEF Connect, TypeInv, IndInv, Typed
      <4>3. conns'[conn'] = NewConn
        BY <4>2
      <4> QED
        BY <4>3 DEF NewConn
    <3> QED
      BY <3>1
  <2>4. Course(c)'
    BY <1>0, <2>1, <2>2 DEF Becomes, Course, Reconnects, Searches, Inside, Told, helper
  <2>5. c \in Prompt => Fair(c)'
    BY <1>0, <2>1, <2>2, <2>3 DEF Becomes, Right, Course, Fair, Retrying, Refound, Searches,
          Inside, helper
  <2> QED
    BY <2>4, <2>5 DEF Right
<1>3. CASE Send(c)
  <2>1. call[c].pc = "send" /\ UNCHANGED <<helper, conn>> /\ conns[conn].stage # "closed"
    BY <1>3 DEF Send, Broken
  <2>2. Becomes(c, "wait", call[c].attempt, call[c].polls, call[c].seen, call[c].misled,
                call[c].result)
    BY <1>0, <1>3, GoesFields DEF Send, TypeInv
  <2>3. conns'[conn].stage # "closed"
    BY <1>0, <1>3, <2>1, ConnType DEF Send, Conns, TypeInv, IndInv, Typed
  <2>4. Course(c)'
    BY <1>0, <2>1, <2>2 DEF Becomes, Course, Reconnects, Searches, Inside, Told, helper
  <2>5. c \in Prompt => Fair(c)'
    BY <1>0, <2>1, <2>2, <2>3 DEF Becomes, Right, Course, Fair, Retrying, Refound, Searches,
          Inside, helper
  <2> QED
    BY <2>4, <2>5 DEF Right
<1>4. CASE Receive(c)
  BY <1>0, <1>4, ReturnsRight DEF Receive
<1>5. CASE AttemptFails(c)
  <2>1. call[c].pc \in {"connect", "send", "wait"} /\ UNCHANGED helper /\ conn' = 0
    BY <1>5 DEF AttemptFails, Fails, closeConnectionLocked
  <2>2. Becomes(c, "invalidate", call[c].attempt, call[c].polls, call[c].seen, call[c].misled,
                call[c].result)
    BY <1>0, <1>5, GoesFields DEF AttemptFails, TypeInv
  <2>3. c \in Prompt =>
          \/ call[c].pc = "connect" /\ ~daemon
          \/ call[c].pc \in {"send", "wait"} /\ conns[conn].stage = "closed"
    <3>1. c \in Prompt => ~TimesOut(c)
      BY <1>0, NotCrowded DEF TimesOut, Prompt
    <3> QED
      BY <1>5, <2>1, <3>1 DEF AttemptFails, Fails, Broken
  <2>4. Course(c)'
    BY <1>0, <2>1, <2>2 DEF Becomes, Course, Reconnects, Told, helper
  <2>5. c \in Prompt => deaths > 0
    BY <1>0, <2>1, <2>3 DEF Course, Told, Known, Broke
  <2>6. c \in Prompt => Fair(c)'
    BY <1>0, <2>1, <2>2, <2>3, <2>5 DEF Becomes, Right, Course, Fair, Retrying, Refound, helper
  <2> QED
    BY <2>4, <2>6 DEF Right
<1>6. CASE InvalidateTime(c)
  <2>1. call[c].pc = "invalidate" /\ UNCHANGED <<helper, conn>>
    BY <1>6 DEF InvalidateTime
  <2>2. CASE call[c].attempt = 1 /\ Goes(c, "probe")
    <3>1. Becomes(c, "probe", 1, call[c].polls, call[c].seen, call[c].misled, call[c].result)
      BY <1>0, <2>2, GoesFields DEF TypeInv
    <3>2. Course(c)'
      BY <1>0, <2>1, <3>1 DEF Becomes, Course, Reconnects, Told, helper
    <3>3. c \in Prompt => Fair(c)'
      BY <1>0, <2>1, <2>2, <3>1 DEF Becomes, Right, Course, Fair, Retrying, Refound, Searches,
            helper
    <3> QED
      BY <3>2, <3>3 DEF Right
  <2>3. CASE call[c].attempt = 2 /\ Returns(c, "error")
    BY <1>0, <2>1, <2>3, ReturnsRight DEF Right, Fair, Refound
  <2>4. Retries(call[c].attempt) => call[c].attempt = 1
    BY <1>0, <2>1 DEF Retries, MaxAttempts
  <2>5. ~Retries(call[c].attempt) => call[c].attempt = 2
    BY <1>0, <2>1 DEF Retries, MaxAttempts
  <2> QED
    BY <1>6, <2>2, <2>3, <2>4, <2>5 DEF InvalidateTime, TriesAgain
<1> QED
  BY <1>1, <1>2, <1>3, <1>4, <1>5, <1>6

LEMMA KnownKept ==
  ASSUME PromptInv, [Next]_vars, Later
  PROVE  Known'
<1>1. verdict' => verdict \/ \E c \in Calls : StoreResult(c) /\ call[c].seen
  <2>1. ASSUME NEW c \in Calls, Call(c) \/ Coroutine(c), verdict'
        PROVE  verdict \/ (StoreResult(c) /\ call[c].seen)
    BY <2>1 DEF Coroutine, Call, CachedOutside, TakeMonitor, CachedInside, Ping, StoreResult,
          StoreTime, StartDaemon, StartFails, TakeLock, Connect, Send, Receive, AttemptFails,
          InvalidateTime, manager
  <2>2. ASSUME NEW i \in DOMAIN conns, Handler(i) PROVE UNCHANGED verdict
    BY <2>2 DEF Handler, TakeClient, ReadRequest, ReadEnd, HandleRequest, manager
  <2>3. CASE Close \/ Expire \/ Launched \/ LaunchFails \/ DaemonDies \/ UNCHANGED vars
    BY <2>3 DEF Close, Expire, Launched, LaunchFails, DaemonDies, manager, vars
  <2> QED
    BY <2>1, <2>2, <2>3 DEF Next
<1>2. verdict' => daemon \/ deaths > 0
  BY <1>1 DEF PromptInv, Known, Right, Course, Told, StoreResult
<1>3. (daemon \/ deaths > 0) => daemon' \/ deaths' > 0
  BY DEF Later, Died
<1>4. \A i \in DOMAIN conns' : Broke(i)' => deaths' > 0
  BY DEF PromptInv, Known, Later, Died
<1> QED
  BY <1>2, <1>3, <1>4 DEF Known

LEMMA PromptInit == Init => PromptInv
<1> SUFFICES ASSUME Init PROVE PromptInv
  OBVIOUS
<1>1. DOMAIN conns = {} /\ verdict = FALSE
  BY DEF Init
<1>2. ASSUME NEW c \in Calls PROVE Right(c)
  <2>1. call[c] = NewCall
    BY DEF Init
  <2>2. Course(c)
    BY <2>1 DEF NewCall, Course, Reconnects, Searches, Inside, Told
  <2>3. Fair(c)
    BY <2>1 DEF NewCall, Fair, Retrying, Refound
  <2> QED
    BY <2>2, <2>3 DEF Right
<1> QED
  BY <1>1, <1>2, TypeInit DEF PromptInv, Known

LEMMA PromptNext == PoolHasRoom /\ PromptInv /\ [Next]_vars => PromptInv'
<1> SUFFICES ASSUME PoolHasRoom, PromptInv, [Next]_vars PROVE PromptInv'
  OBVIOUS
<1>1. TypeInv /\ TypeInv' /\ Later
  BY TypeNext, StepLater DEF PromptInv
<1>2. ASSUME NEW c \in Calls, Call(c) \/ Coroutine(c), NEW d \in Calls PROVE Right(d)'
  <2>1. CASE d = c
    BY <1>1, <1>2, <2>1, ManagerRight, AttemptRight DEF Coroutine
  <2>2. CASE d # c
    <3>1. call'[d] = call[d]
      BY <1>1, <1>2, <2>2, CoroutineHolds DEF Holds
    <3>2. lock = d => conn' = conn
      <4>1. lock = d => ~(Connect(c) \/ AttemptFails(c))
        BY <1>1, <2>2 DEF Connect, AttemptFails, Fails, TypeInv, IndInv, Locked, Ordered
      <4> QED
        BY <1>2, <4>1 DEF Coroutine, Call, CachedOutside, TakeMonitor, CachedInside, Ping,
            StoreResult, StoreTime, StartDaemon, StartFails, TakeLock, Send, Receive,
            InvalidateTime, channel
    <3> QED
      BY <1>1, <3>1, <3>2, RightStands DEF PromptInv
  <2> QED
    BY <2>1, <2>2
<1>3. ASSUME NEW d \in Calls, UNCHANGED call, lock = d => conn' = conn PROVE Right(d)'
  BY <1>1, <1>3, RightStands DEF PromptInv
<1>4. ASSUME NEW i \in DOMAIN conns, Handler(i), NEW d \in Calls PROVE Right(d)'
  BY <1>3, <1>4 DEF Handler, TakeClient, ReadRequest, ReadEnd, HandleRequest
<1>5. ASSUME Close \/ Expire \/ Launched \/ LaunchFails \/ DaemonDies \/ UNCHANGED vars,
             NEW d \in Calls
      PROVE  Right(d)'
  BY <1>3, <1>5, ChannelConstants DEF Close, Expire, Launched, LaunchFails, DaemonDies,
        channel, vars
<1> QED
  BY <1>1, <1>2, <1>4, <1>5, KnownKept DEF PromptInv, Next

(* Where the pool has a thread for each of the two connections that a slow   *)
(* call may leave behind, one for the client's own and one to spare, no      *)
(* prompt call throws because of the slow ones, and none is done twice while *)
(* the helper lives, however the calls, the timeouts and the deaths fall.    *)
THEOREM PromptIsUnharmed == PoolHasRoom => (Spec => []PromptCallsSucceed)
<1>1. PoolHasRoom /\ PromptInv => PromptCallsSucceed
  <2> SUFFICES ASSUME PromptInv, NEW c \in Prompt
               PROVE  /\ call[c].result = "error" =>
                           IF call[c].attempt = MaxAttempts THEN deaths > 1 \/ call[c].misled
                           ELSE failures > 0 \/ deaths > 0
                      /\ deaths = 0 => executed[c] <= 1
    BY DEF PromptCallsSucceed
  <2>1. c \in Calls /\ Fair(c) /\ MaxAttempts = 2
    BY DEF PromptInv, Right, Prompt, MaxAttempts
  <2>2. deaths = 0 => executed[c] <= 1
    <3>1. /\ call[c].attempt \in {0, 1, 2} /\ executed[c] \in Nat
          /\ Cardinality(Carrying(conns, c)) \in Nat
          /\ executed[c] + Cardinality(Carrying(conns, c)) <= Allowed(call[c])
      BY <2>1, CallFields, CarryingFinite DEF PromptInv, TypeInv, IndInv, Typed, Counted
    <3>2. deaths = 0 => call[c].attempt \in {0, 1}
      BY <2>1, <3>1 DEF Fair, Retrying
    <3>3. call[c].attempt \in {0, 1} => Allowed(call[c]) \in {0, 1}
      BY DEF Allowed
    <3>4. Allowed(call[c]) \in {0, 1} => executed[c] <= 1
      BY <3>1
    <3> QED
      BY <3>2, <3>3, <3>4
  <2> QED
    BY <2>1, <2>2 DEF Fair
<1>2. ASSUME PoolHasRoom PROVE Spec => []PromptCallsSucceed
  <2>1. Init => PromptInv
    BY PromptInit
  <2>2. PromptInv /\ [Next]_vars => PromptInv'
    BY <1>2, PromptNext
  <2>3. PromptInv => PromptCallsSucceed
    BY <1>1, <1>2
  <2> QED
    BY <2>1, <2>2, <2>3, PTL DEF Spec
<1> QED
  BY <1>2
===============================================================================
