---------------------------- MODULE DaemonChannel ----------------------------
(***************************************************************************)
(* How the app reaches the engine: the coroutines of MemoryToolNativeImpl  *)
(* share one MemoryToolDaemonClient, which keeps one connection to the     *)
(* root helper process and starts the process when it does not answer;     *)
(* the helper (MemoryToolHelperMain) serves each connection on a thread of *)
(* a fixed pool.                                                           *)
(*                                                                         *)
(* A call is one use of a method of the client.  What it asks of the engine *)
(* may take longer than the socket timeout, or for ever (Slow); a prompt    *)
(* call is answered in time once a thread of the pool has its request.      *)
(***************************************************************************)
EXTENDS Naturals, Sequences, FiniteSets

CONSTANTS
    Calls,
    Starts,         \* the calls that start the helper; the others give up
                    \* quietly when it is not alive
    Slow,
    NoCall,
    PoolSize,       \* threads of the helper's pool
    Polls,          \* STARTUP_RETRY_COUNT
    MaxDeaths,      \* bound on how often the helper dies
    MaxFailures     \* bound on the starts that fail

ASSUME ChannelConstants ==
    /\ Starts \subseteq Calls /\ Slow \subseteq Calls
    /\ NoCall \notin Calls
    /\ {PoolSize, Polls} \subseteq Nat \ {0} /\ {MaxDeaths, MaxFailures} \subseteq Nat

VARIABLES
    daemon,      \* the helper process lives
    launches,    \* helper processes that are starting up
    deaths,      \* how often the helper has died
    failures,    \* how many starts have failed
    verdict,     \* lastDaemonPingResult
    fresh,       \* lastDaemonPingAtMs is less than the cache's TTL ago
    monitor,     \* who is inside a synchronized method of the manager
    lock,        \* who holds connectionLock
    call,        \* the coroutine of each call
    conn,        \* the client's connection, 0 for none
    conns,       \* all connections, in the order they were made
    executed     \* how often the engine has done what a call asks for

vars == <<daemon, launches, deaths, failures, verdict, fresh, monitor, lock, call, conn, conns, executed>>

manager == <<verdict, fresh, monitor>>
channel == <<lock, conn, conns>>
helper  == <<daemon, launches, deaths, failures>>

MaxAttempts == 2

(* "misled" is a history field: ensureDaemon has told the call that a helper *)
(* lives which had died.                                                     *)
NewCall == [pc |-> "idle", attempt |-> 0, polls |-> 0, seen |-> FALSE,
            misled |-> FALSE, result |-> "none"]

(* "open" is the client's end; "stage" is what the helper does with its own, *)
(* "request" what was sent and is not answered, "reply" what can be read.    *)
NewConn == [open |-> TRUE, stage |-> "queued", request |-> NoCall, reply |-> NoCall]

PCs == {"idle", "probe", "check", "pinged", "stamp", "start", "lock", "connect",
        "send", "wait", "invalidate", "done"}

Serving == {i \in DOMAIN conns : conns[i].stage \in {"reading", "running"}}

(* The pool never serves more connections than it has threads, and the locks *)
(* are held by those who are inside them.                                    *)
TypeOK ==
    /\ daemon \in BOOLEAN /\ launches \in Nat
    /\ deaths \in 0 .. MaxDeaths /\ failures \in 0 .. MaxFailures
    /\ verdict \in BOOLEAN /\ fresh \in BOOLEAN
    /\ monitor \in Calls \cup {NoCall} /\ lock \in Calls \cup {NoCall}
    /\ \A c \in Calls :
          /\ call[c].pc \in PCs
          /\ call[c].pc \in {"check", "pinged", "stamp", "start"} <=> monitor = c
          /\ call[c].pc \in {"connect", "send", "wait", "invalidate"} => lock = c
          /\ call[c].pc = "done" => lock # c
    /\ conn \in 0 .. Len(conns)
    /\ \A i \in DOMAIN conns :
          /\ conns[i].stage \in {"queued", "reading", "running", "closed"}
          /\ conns[i].open <=> conn = i
    /\ Cardinality(Serving) <= PoolSize
    /\ executed \in [Calls -> Nat]

Init ==
    /\ daemon = FALSE /\ launches = 0 /\ deaths = 0 /\ failures = 0
    /\ verdict = FALSE /\ fresh = FALSE /\ monitor = NoCall
    /\ lock = NoCall /\ conn = 0 /\ conns = <<>>
    /\ call = [c \in Calls |-> NewCall]
    /\ executed = [c \in Calls |-> 0]

-----------------------------------------------------------------------------
(* MemoryToolHelperManager. *)

Goes(c, pc) == call' = [call EXCEPT ![c].pc = pc]

Returns(c, result) ==
    /\ call' = [call EXCEPT ![c].pc = "done", ![c].result = result,
                            ![c].polls = 0, ![c].seen = FALSE]
    /\ lock' = IF lock = c THEN NoCall ELSE lock

(* ensureDaemon is what a call that starts the helper begins with, and what  *)
(* every call does after its first attempt has failed.                       *)
Ensures(c) == c \in Starts \/ call[c].attempt > 0

(* isDaemonAlive has told c that the helper is alive, or not. *)
Alive(c) ==
    /\ monitor' = NoCall
    /\ call' = [call EXCEPT ![c].pc = IF call[c].attempt = 0 THEN "lock" ELSE "connect",
                            ![c].attempt = IF @ = 0 THEN 0 ELSE @ + 1,
                            ![c].polls = 0, ![c].seen = FALSE,
                            ![c].misled = @ \/ (call[c].attempt > 0 /\ ~daemon)]
    /\ UNCHANGED lock

NotAlive(c) ==
    IF ~Ensures(c) THEN monitor' = NoCall /\ Returns(c, "silent")
    ELSE IF call[c].polls = 0 THEN Goes(c, "start") /\ UNCHANGED <<monitor, lock>>
    ELSE IF call[c].polls = Polls THEN monitor' = NoCall /\ Returns(c, "error")
    ELSE /\ call' = [call EXCEPT ![c].pc = "check", ![c].polls = @ + 1]
         /\ UNCHANGED <<monitor, lock>>

Call(c) ==
    /\ call[c].pc = "idle"
    /\ Goes(c, "probe")
    /\ UNCHANGED <<helper, manager, channel, executed>>

(* isDaemonAlive looks at the cache before it takes the monitor. *)
CachedOutside(c) ==
    /\ call[c].pc = "probe" /\ ~Ensures(c) /\ fresh
    /\ IF verdict THEN Goes(c, "lock") /\ UNCHANGED lock ELSE Returns(c, "silent")
    /\ UNCHANGED <<helper, manager, conn, conns, executed>>

TakeMonitor(c) ==
    /\ call[c].pc = "probe" /\ (Ensures(c) \/ ~fresh)
    /\ monitor = NoCall
    /\ monitor' = c
    /\ Goes(c, "check")
    /\ UNCHANGED <<helper, verdict, fresh, channel, executed>>

(* All the polls together take longer than the cache is good for. *)
CachedInside(c) ==
    /\ call[c].pc = "check" /\ fresh
    /\ call[c].polls < Polls \/ verdict
    /\ IF verdict THEN Alive(c) ELSE NotAlive(c)
    /\ UNCHANGED <<helper, verdict, fresh, conn, conns, executed>>

(* Threads that do not come free soon: they run what is slow, or keep the    *)
(* client's connection, which stays open between the calls.                  *)
Occupied ==
    {i \in Serving : \/ conns[i].request \in Slow
                     \/ conns[i].request = NoCall /\ conns[i].open}

Crowded == Cardinality(Occupied) = PoolSize

(* A ping has a connection of its own, and needs a thread for a moment.  The *)
(* last poll comes when a process that was started is up, or has failed.     *)
Ping(c) ==
    /\ call[c].pc = "check" /\ ~fresh
    /\ call[c].polls = Polls => launches = 0
    /\ \E alive \in BOOLEAN :
          /\ IF alive THEN daemon /\ Cardinality(Serving) < PoolSize ELSE ~daemon \/ Crowded
          /\ call' = [call EXCEPT ![c].pc = "pinged", ![c].seen = alive]
    /\ UNCHANGED <<helper, manager, channel, executed>>

(* The result and its time are two writes, and invalidateDaemonState, which  *)
(* is not synchronized, may come between them.                               *)
StoreResult(c) ==
    /\ call[c].pc = "pinged"
    /\ verdict' = call[c].seen
    /\ Goes(c, "stamp")
    /\ UNCHANGED <<helper, fresh, monitor, channel, executed>>

StoreTime(c) ==
    /\ call[c].pc = "stamp"
    /\ fresh' = TRUE
    /\ IF call[c].seen THEN Alive(c) ELSE NotAlive(c)
    /\ UNCHANGED <<helper, verdict, conn, conns, executed>>

(* A ping may take longer than its result is good for. *)
Expire ==
    /\ fresh
    /\ fresh' = FALSE
    /\ UNCHANGED <<helper, verdict, monitor, channel, call, executed>>

StartDaemon(c) ==
    /\ call[c].pc = "start"
    /\ launches' = launches + 1
    /\ call' = [call EXCEPT ![c].pc = "check", ![c].polls = 1]
    /\ UNCHANGED <<daemon, deaths, failures, manager, channel, executed>>

(* There is no root access, or a command or a file of the start fails. *)
StartFails(c) ==
    /\ call[c].pc = "start"
    /\ failures < MaxFailures
    /\ failures' = failures + 1
    /\ monitor' = NoCall
    /\ Returns(c, "error")
    /\ UNCHANGED <<daemon, launches, deaths, verdict, fresh, conn, conns, executed>>

-----------------------------------------------------------------------------
(* sendOrThrow. *)

TakeLock(c) ==
    /\ call[c].pc = "lock"
    /\ lock = NoCall
    /\ lock' = c
    /\ call' = [call EXCEPT ![c].pc = "connect", ![c].attempt = 1]
    /\ UNCHANGED <<helper, manager, conn, conns, executed>>

(* ensureConnectionLocked; a helper that lives accepts every connection.     *)
Connect(c) ==
    /\ call[c].pc = "connect"
    /\ conn # 0 \/ daemon
    /\ IF conn # 0 THEN UNCHANGED <<conn, conns>>
       ELSE conn' = Len(conns) + 1 /\ conns' = Append(conns, NewConn)
    /\ Goes(c, "send")
    /\ UNCHANGED <<helper, manager, lock, executed>>

Broken == conns[conn].stage = "closed"

Send(c) ==
    /\ call[c].pc = "send" /\ ~Broken
    /\ conns' = [conns EXCEPT ![conn].request = c]
    /\ Goes(c, "wait")
    /\ UNCHANGED <<helper, manager, lock, conn, executed>>

Receive(c) ==
    /\ call[c].pc = "wait"
    /\ conns[conn].reply = c
    /\ conns' = [conns EXCEPT ![conn].reply = NoCall]
    /\ Returns(c, "ok")
    /\ UNCHANGED <<helper, manager, conn, executed>>

(* The socket timeout runs out on what is slow, and on what waits in the     *)
(* queue of a pool none of whose threads comes free.                         *)
NeverTimesOut(c) == FALSE
TimesOut(c) ==
    /\ conns[conn].reply = NoCall
    /\ c \in Slow \/ (conns[conn].stage = "queued" /\ Crowded)

Fails(c) ==
    CASE call[c].pc = "connect" -> conn = 0 /\ ~daemon
      [] call[c].pc = "send"    -> Broken
      [] call[c].pc = "wait"    -> (Broken /\ conns[conn].reply = NoCall) \/ TimesOut(c)
      [] OTHER                  -> FALSE

LeaveOpen(all, i) == all
CloseEnd(all, i) == [all EXCEPT ![i].open = FALSE, ![i].reply = NoCall]

closeConnectionLocked ==
    /\ conns' = IF conn = 0 THEN conns ELSE CloseEnd(conns, conn)
    /\ conn' = 0

(* The catch block: the connection is closed, then the cache is invalidated, *)
(* result first.                                                             *)
AttemptFails(c) ==
    /\ Fails(c)
    /\ closeConnectionLocked
    /\ verdict' = FALSE
    /\ Goes(c, "invalidate")
    /\ UNCHANGED <<helper, fresh, monitor, lock, executed>>

RetriesTwice(attempt) == attempt <= MaxAttempts
Retries(attempt) == attempt < MaxAttempts

ConnectsAtOnce(c) == call' = [call EXCEPT ![c].pc = "connect", ![c].attempt = @ + 1]
TriesAgain(c) == Goes(c, "probe")

(* What follows the first attempt is ensureDaemon; an exception of it leaves *)
(* sendOrThrow, too.                                                         *)
InvalidateTime(c) ==
    /\ call[c].pc = "invalidate"
    /\ fresh' = FALSE
    /\ IF Retries(call[c].attempt) THEN TriesAgain(c) /\ UNCHANGED lock
       ELSE Returns(c, "error")
    /\ UNCHANGED <<helper, verdict, monitor, conn, conns, executed>>

Close ==
    /\ lock = NoCall /\ conn # 0
    /\ closeConnectionLocked
    /\ UNCHANGED <<helper, manager, lock, call, executed>>

-----------------------------------------------------------------------------
(* The helper. *)

(* The executor takes the connections in the order they were accepted. *)
TakeClient(i) ==
    /\ conns[i].stage = "queued"
    /\ \A j \in 1 .. i - 1 : conns[j].stage # "queued"
    /\ Cardinality(Serving) < PoolSize
    /\ conns' = [conns EXCEPT ![i].stage = "reading"]
    /\ UNCHANGED <<helper, manager, lock, call, conn, executed>>

(* What was sent can be read after the client has closed its end, too. *)
ReadRequest(i) ==
    /\ conns[i].stage = "reading" /\ conns[i].request # NoCall
    /\ conns' = [conns EXCEPT ![i].stage = "running"]
    /\ UNCHANGED <<helper, manager, lock, call, conn, executed>>

ReadEnd(i) ==
    /\ conns[i].stage = "reading" /\ conns[i].request = NoCall /\ ~conns[i].open
    /\ conns' = [conns EXCEPT ![i].stage = "closed"]
    /\ UNCHANGED <<helper, manager, lock, call, conn, executed>>

Dies ==
    /\ deaths < MaxDeaths
    /\ deaths' = deaths + 1
    /\ daemon' = FALSE
    /\ conns' = [i \in DOMAIN conns |-> [conns[i] EXCEPT !.stage = "closed", !.request = NoCall]]

(* handleRequest returns.  An answer to a client that has gone throws out of *)
(* handleClient: the connection loses its thread, and, where an exception    *)
(* nobody catches ends a process, the helper dies.                           *)
HandleRequest(i) ==
    /\ conns[i].stage = "running"
    /\ executed' = [executed EXCEPT ![conns[i].request] = @ + 1]
    /\ \/ /\ conns' = [conns EXCEPT
                ![i].stage = IF conns[i].open THEN "reading" ELSE "closed",
                ![i].reply = IF conns[i].open THEN conns[i].request ELSE NoCall,
                ![i].request = NoCall]
          /\ UNCHANGED <<daemon, deaths>>
       \/ ~conns[i].open /\ Dies
    /\ UNCHANGED <<launches, failures, manager, lock, call, conn>>

(* A process that was started takes the name of the socket, or ends because  *)
(* another one has it.                                                       *)
Launched ==
    /\ launches > 0
    /\ launches' = launches - 1
    /\ daemon' = TRUE
    /\ UNCHANGED <<deaths, failures, manager, channel, call, executed>>

(* It does not come up, or not while anyone waits for it. *)
LaunchFails ==
    /\ launches > 0
    /\ failures < MaxFailures
    /\ launches' = launches - 1
    /\ failures' = failures + 1
    /\ UNCHANGED <<daemon, deaths, manager, channel, call, executed>>

DaemonDies ==
    /\ daemon
    /\ Dies
    /\ UNCHANGED <<launches, failures, manager, lock, conn, call, executed>>

-----------------------------------------------------------------------------
Coroutine(c) ==
    \/ CachedOutside(c) \/ TakeMonitor(c) \/ CachedInside(c) \/ Ping(c)
    \/ StoreResult(c) \/ StoreTime(c) \/ StartDaemon(c) \/ StartFails(c)
    \/ TakeLock(c) \/ Connect(c) \/ Send(c) \/ Receive(c)
    \/ AttemptFails(c) \/ InvalidateTime(c)

Handler(i) == TakeClient(i) \/ ReadRequest(i) \/ ReadEnd(i) \/ HandleRequest(i)

Prompt == Calls \ Slow

Next ==
    \/ \E c \in Calls : Call(c) \/ Coroutine(c)
    \/ \E i \in DOMAIN conns : Handler(i)
    \/ Close \/ Expire \/ Launched \/ LaunchFails \/ DaemonDies

Spec == Init /\ [][Next]_vars

(* The operating system runs the app's coroutines, timers and the threads of *)
(* the helper; what is prompt returns, and a helper that was started comes   *)
(* up or fails.                                                              *)
FairSpec ==
    /\ Spec
    /\ WF_vars(\/ \E c \in Calls : Coroutine(c)
               \/ \E i \in DOMAIN conns :
                     /\ conns[i].stage = "running" => conns[i].request \in Prompt
                     /\ Handler(i)
               \/ Expire \/ Launched)

-----------------------------------------------------------------------------
(* Properties. *)

(* Who does not ask for what takes too long is not harmed by who does: no    *)
(* prompt call throws, or is done twice, because a slow one keeps threads of *)
(* the pool.  It throws if a helper that is started does not stay up; and if *)
(* the helper dies under it, its second attempt succeeds, unless a ping of   *)
(* before the death was stored after it.                                     *)
PromptCallsSucceed ==
    \A c \in Prompt :
        /\ call[c].result = "error" =>
             IF call[c].attempt = MaxAttempts THEN deaths > 1 \/ call[c].misled
             ELSE failures > 0 \/ deaths > 0
        /\ deaths = 0 => executed[c] <= 1

(* A call is done at most twice though it is sent again after a timeout, not *)
(* at all if it was never sent, and at least once if it has succeeded.       *)
SentAgainOnce ==
    \A c \in Calls :
        /\ executed[c] <= 2
        /\ call[c].attempt = 0 => executed[c] = 0
        /\ call[c].result = "ok" => executed[c] > 0

(* Every call that is made comes back, with an answer or an exception, even  *)
(* one the engine never finishes and whatever becomes of the helper.         *)
CallsReturn == <>[](\A c \in Calls : call[c].pc \in {"idle", "done"})
=============================================================================
