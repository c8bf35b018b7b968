# A verification of JsxposedX

JsxposedX is an Android application (Flutter in front, Kotlin bridges, Xposed and
Frida hooks). Three parts of it carry state that is hard to get right: a native memory
tool, a C++ engine that searches, freezes, patches and watches the memory of another
process from a root helper of its own, an AI chat whose answers stream in, call
tools and ask questions, and a desktop window that holds a connection to the phone.
This directory holds TLA+ models of them, the TLC configurations that check them, and
proofs checked by TLAPS.

In short:

| part of the program | model | checked by TLC | proved by TLAPS |
|---|---|---|---|
| what a caller may rely on: one scan slot, one held session | `ScanSlot` | it is the abstract side of two refinements | |
| search task, search session, scan threads | `SearchTask` | safety, refinement of `ScanSlot` with its liveness | all of its safety, and the safety half of the refinement |
| pointer scan, auto chase, their shared slot | `PointerTask` | safety, refinement of `ScanSlot` until a chase is used; one disagreement | all of its safety, and the safety half of the refinement |
| what a scan reads, compares and finds, cut up for several threads | `ScanRules`, `ScanSteps`, `PointerWindows`, `MemoryScan` | results against a reference definition, progress, liveness | |
| frozen values and the thread that rewrites them | `FreezeWorker` | safety, liveness; one disagreement | all of its safety |
| breakpoints, monitor threads, hits, stopped targets | `BreakpointMonitor` | safety, liveness | all of its safety |
| the way from the app to the helper that holds the engine | `DaemonChannel` | safety, liveness, with deaths, timeouts and retries | all of its safety: locks and pool, a call is executed at most twice, a prompt one succeeds when the pool has room |
| a conversation with the model | `ChatSession` | safety, liveness, with failing saves, replacement and restart; two disagreements | all of its safety: types, the budget of rounds, that checkpoints come in time, and, where calls do not overlap, consent and that a conversation at rest is shown as it is stored |
| the desktop window's connection to a phone | `DesktopConnection` | liveness under overlapping calls and faults | types: what it believes about its socket |

Paths below are relative to the repository; `cpp/` abbreviates
`android/app/src/main/cpp/`.

## 1. The system

### Inventory

**Search task and session** (`cpp/memory_tool_engine.cpp`, `memory_tool_session.*`).
State: `task_` (generation, status, pid, cancel flag), `session_` (pid, mode,
results, the two stores of a fuzzy session), `task_generation_counter_`, all under
`mutex_`. Operations: `FirstScan`, `NextScan`, `CancelSearch`,
`ResetSearchSession`, the readers, and every call that drops the session of a
process it finds gone. Each scan is a detached thread that takes `mutex_` for each
progress report and for its one final report. Correct when: only a complete scan
of the current task becomes the session, no session is undone by an older
snapshot, a verdict stands, every task ends.

**Pointer scan and auto chase** (same files). State: `pointer_task_`,
`pointer_session_`, `pointer_auto_chase_task_`, `pointer_auto_chase_session_`.
A chase is a loop of pointer scans, one layer each, that reports through the slot
of the plain scans and shares its cancel flag with it. Correct when: a stopped
scan's partial result is never taken for a result, the layers are one chain, and
the two users of the slot do not disturb each other.

**Memory scanner** (`cpp/memory_tool_scanner.cpp` and the scan threads of the engine,
over `memory_tool_reader.cpp` and the search plan of `memory_tool_value.cpp`). A first
scan goes through the readable regions in chunks that overlap, a next scan through
what is held, in batches or windows; both deal their work out to threads that share a
progress counter and a stop flag, and put the parts together in order. Modes:
standard, automatic (several types at once), xor, fuzzy (a snapshot that later scans
are compared with), group (several items near each other). Correct when: what is found
is what memory holds, wherever it is cut and whatever cannot be read, a fuzzy session
remembers the last value it saw, progress only grows and every scan ends.

**Freeze worker** (same files as the task). State: `frozen_entries_`, the thread that
every 16 ms copies the list under the lock, writes the copies without it, and then
prunes the entries whose process is gone. `SetMemoryFreeze` and
`WriteMemoryValue` write beside that thread. Correct when: a place has one frozen
value, that value keeps coming back, an unfrozen place is let go, and only dead
entries are pruned.

**Breakpoint controller** (`cpp/memory_tool_breakpoint.cpp`). State: the list of
breakpoints and `hits_` under a mutex of its own, one monitor thread per enabled
breakpoint with a stop flag and perf-event ring buffers. Operations: add, remove,
enable, disable, clear hits, resume the target. A call that stops a monitor joins
its thread. Correct when: what is removed or disabled leaves nothing behind, what
is shown as enabled is watched, and no call waits for ever.

**Value codec, regions, instructions** (`memory_tool_value.cpp`, `_regions.cpp`,
`_utils.cpp`, `_instruction.cpp`). Parsing and formatting, `/proc`, a vendored
assembler. No state.

**JNI bridge and text protocol** (`memory_tool_jni.cpp`, `memory_tool_protocol.cpp`).
Conversion between the engine and lines of text. No state.

**Daemon channel** (`MemoryToolDaemonClient.kt`, `MemoryToolHelperMain.kt`,
`MemoryToolHelperManager.kt`). The engine runs in a root helper behind a local
socket: a pool of four threads serves its connections. The client holds one connection
and one lock over request and answer, times out after 15 s and sends the request once
more on a new connection; the manager starts the helper when a ping, whose result it
caches, says that none lives. Correct when: every call comes back, a call the engine
can serve succeeds whatever the others do, and nothing is done more often than it was
sent.

**Overlay providers and AI tools** (`lib/features/memory_tool_overlay/`). The two
callers of the engine: a user interface that polls the task views, and tool
handlers that start a scan, poll it for up to five minutes, and read its results.

**AI chat session** (`lib/features/ai/application/chat/ai_chat_session_controller.dart`,
opened and replaced by `ai_chat_action_provider.dart`). State: the messages it shows,
the phase, the active request, a checkpoint timer, and the two completers by which a
turn waits for the user. Operations: send, continue, regenerate, edit, retry a tool,
delete, approve, reject, answer, cancel, close. A turn is a loop of rounds: save a
placeholder, send the request, save what has come so far now and then, and settle the
answer, call its tools, or ask. Correct when: no tool that needs approval runs without
it, a turn ends within its budget of rounds, what is shown and what is stored agree
and nothing looks unfinished once nothing is under way, and no call waits for ever.

**Desktop connection** (`lib/features/home/presentation/providers/desktop_connection_provider.dart`,
with the buttons of `desktop_home_page.dart`). State: the status, the device selected,
the socket, its subscription, the heartbeat timer, the forward of the port, the requests
that wait for an answer. Operations: connect, quick connect, switch, pair and connect,
disconnect, any request; a heartbeat every 15 s. Its methods overlap at their awaits.
Correct when: a connection that is shown works or is soon not shown any more, it goes to
the device that is shown, and a connection that is given up is closed.

**AI request transport and context** (`ai_chat_orchestrator.dart`, the accumulator and
context builder), **desktop bridge server** (`lib/core/transport/`), **hook runtime** (`feature/hook`,
`feature/jsxposed`, `feature/frida`), **Kotlin platform bridges**, **project, script
and package management**. Parts of the application around these; see section 5.

**Vendored and generated code** (`jniLibs`, `libxposed`,
`flutter_overlay_window`, `*.g.dart`, `*.freezed.dart`, platform runners). Not the
program's own, and most of its lines: the headers of LIEF alone are some 125 000
lines, which is why the share of lines that the models account for looks small.

### How they interact

The user interface and the AI tools call the Kotlin bridge; it sends one line to
the helper and waits for the answer; a thread of the helper calls the engine
through JNI. Inside the engine the components share `mutex_` and meet in four
places: a freeze or a write goes to the process of the *active* session, so it
depends on what scans have published; reads, writes, freezes and patches clear the
session of a dead process whatever its task is doing; plain pointer scans and auto
chases share one slot and one cancel flag; and every thread of the engine touches
memory of the same target, which runs, stops and exits on its own. The chat reaches
the memory tool through its tools, one call at a time.

### What is hard about it

- Threads of scans that were cancelled, reset or replaced keep running beside the
  current one, and a stopped next scan ends in `FinishTaskSuccess` with whatever
  it holds. Only the test made there, under the lock, keeps it out.
- A session is copied when a next scan starts and replaced when it ends. In
  between, other calls may clear it.
- The pointer slot has two kinds of users, two generations, two statuses and one
  flag.
- Chunks, batches, windows and slabs are cut without regard to where values lie, and
  memory has holes that come and go.
- The freeze thread works on a copy that the list may have left behind.
- Monitor threads are joined by calls while they hold events that they still have
  to record under a lock, and send a signal for each.
- A request may time out while its handler goes on, the helper may die under it, and
  whether the helper lives is known only from a cached ping.
- A turn of the chat awaits the store, the transport, a tool or the user some ten
  times; at each of these points a save may fail, the user may cancel, the controller
  may be replaced and the app may be killed.
- The desktop's methods share a socket, a timer and a forward without a lock, and close
  what they find by the time they come to it.
- The target exits at any moment.

`PROJECT.json` lists every such hazard with its line and the properties that
watch it.

## 2. The models

All of them take one critical section of a mutex as one action, and the work of a
thread between two critical sections as steps of its own. A call that throws before
it changes anything is a stuttering step. Scheduling, and which call comes next, are
free.

### ScanSlot - the contract

What a caller may rely on, without threads, generations, modes or flags. `status`
is what the slot shows; `held` is the session; `base` is what the running scan may
find, fixed when it starts: everything for a scan from scratch, what the session
held for one that refines it. `Complete` is the only action that installs a session,
and it installs a subset of `base`. `Lose` stands for the ways in which a session
disappears on its own: its process is gone, or a scan that was then refused had
already cleared it. `Contract` adds that a running scan ends by itself.

### SearchTask

| model | code |
|---|---|
| `task`, `session`, `counter` | `task_`, `session_`, `task_generation_counter_` |
| `workers[g]` | the detached thread started for generation `g`: its program counter, request, snapshot of the session, and what it has visited and found |
| `FirstScan`, `FirstScanRejected`, `NextScan`, `NextScanTargetGone`, `CancelSearch`, `ResetSearchSession`, `DropDeadSession` | the calls |
| `BeginFirstScan`, `ScanUnit`, `ScanComplete`, `StopOnStaleProgress`, `ScanThrows` | the work of the thread, and the progress report that ends it |
| `FinishTaskSuccess`, `FinishTaskFailure` | the final report |

`Units` stand for regions in a first scan and for addresses in what it finds and in
a next scan. The two stores of a fuzzy session are shared pointers: `{}` is null,
`{S}` points to `S`. That a pointer to an empty store and a null pointer differ is
kept, because the counting code (`Hits`) and the listing code (`Entries`) look at
that difference in different ways. `missed` is a history field: what the thread had
not visited when its session was published.

### PointerTask

The slot (`ptr`), the session of plain scans, the chase (`chase`, which joins its
task and its layers), and one thread per start. A start takes a fresh flag and a
fresh generation in both slots, so one number `k` names them all, and `raised` holds
the starts whose flag is set. A chase's flag is in both slots: cancelling the plain
scan raises it too, as in the code. `selected` and `target` link the layers.
`chased`, a history variable, says whether a call of the auto chase was ever made: until
then the slot is the plain pointer scan alone, and `ImplementsScanSlot` maps it to
`ScanSlot`; after that the contract is void, as `running_without_thread` shows.

`RunPointerScanSync` is the subtle part, and is modelled in three steps: the regions
are visited (`ScanUnit`), the loop ends because they are used up *or because a
progress report was refused* (`JoinScan`), and then the *flag* is looked at
(`TestFlag`). A scan whose report was refused without its flag being set goes on
with a partial result; that it never gets anywhere is `OnlyCompleteResults`.

### FreezeWorker

`frozen` is the list, `pc`, `todo` and `inactive` are the thread's position, its
snapshot and what it saw dead, and `caller` is the write that a call still has to
make after it released the lock. Memory is a function from places to values, which
the target writes too. The search and pointer sessions appear only through their
pids, which the calls resolve first one, then the other, and which other components
may set to anything (`SearchSessionBecomes`, `PointerSessionBecomes`): more than the
engine can do, so what holds here holds in the engine.

### BreakpointMonitor

`view` and `listed` are the list, `monitor[b]` is the thread of breakpoint `b`
with its stop flag, ring buffer and the batch it took from it, `call` is the call
being served, which passes through `RequestStop` and `JoinMonitor`. Calls come one at
a time because the client of the daemon holds its lock over request and answer; the
one exception, a request that is sent again after its timeout, belongs to the daemon
channel.
The ring buffer and the batch are counts: of the events of one breakpoint none is
different from the other.

### ScanRules, ScanSteps, PointerWindows, MemoryScan

`ScanRules` holds the pure part: what the reader returns of a memory with holes
(`ReadManyFlat` with its fallback), the comparison rules of each mode, the items of a
group, and how work is dealt out to threads. `ScanSteps` says what one piece of work
does: a chunk of a first scan, a batch, a window of candidates or a range of slots of a
next scan, each mode with its own. `PointerWindows` is the pointer scan over slabs, with
its place by place fallback and the sort (`Nearer`) that puts the merged results in
order of their offset, and of their address where offsets are equal. `MemoryScan` puts
them together: `FirstScan` and `NextScan` start a task, `StartWorkers` deals its pieces
out, a `Thread` does one piece at a time and then reports progress under the lock,
`Join` merges what the threads hold into the next session. `TargetMoves` writes or
unmaps memory at any step; `Cancel` is everything that makes a progress report be
refused.

Memory is a function from addresses to bytes with base 4, so that "i8" and "i16" are one
and two such bytes and overflow, sign and carry all occur. The chunk, slab, batch and
window sizes are constants scaled down with it. What a scan should find is not computed
by the operators above but stated again from memory alone (`HasGroup`, `TypesAt`,
`Held`): that is what the properties compare with.

### DaemonChannel

| model | code |
|---|---|
| `call[c]` | the coroutine of one use of the client: its attempt, whether it was told that the helper lives |
| `verdict`, `fresh`, `monitor` | the cached ping of the manager, its age, and the monitor of its synchronized methods |
| `lock`, `conn`, `conns` | `connectionLock`, the open connection, and all connections there have been, each with both ends and what the helper does with it |
| `daemon`, `launches`, `deaths` | the helper process, and those that are starting up |
| `executed` | history: how often the engine has done what a call asks for |

`sendOrThrow` is `TakeLock`, `Connect`, `Send`, `Receive` (or `TimesOut`), and
`AttemptFails` with `InvalidateTime` before the second attempt; `ensureDaemon` is the
steps from `CachedOutside` to `StartDaemon`. The helper is `TakeClient` (a thread of the
pool), `ReadRequest` or `ReadEnd`, and `HandleRequest`, which takes for ever for a
`Slow` call, or as long as it likes. `Starts` are the methods that start the helper if
it does not live; the others return quietly.

### ChatSession

Dart runs one piece of code at a time, from one `await` to the next, and the actions
are these pieces. `queue` holds the operations of the store that are under way, which
take effect in the order they were issued; `Done(l, pc)` is that the operation call `l`
awaits at `pc` has just taken effect.

| model | code |
|---|---|
| `session[c]` | a controller: its phase, the messages it shows (`view`), `activeRequestId`, `_activeRun`, the checkpoint timer, the two completers |
| `call[l]` | the coroutine of a call: where it awaits, the history it carries, its round |
| `run[r]` | the request behind answer `r` and how it ended |
| `store` | the messages as stored |
| `consented` | history: the tool calls the user has agreed to |
| `SendText`, `Regenerate`, `RetryTool`, `DeleteMessage` | the calls, up to their first await |
| `PlaceholderSaved`, `HandleSnapshot`, `Checkpoint`, `EndsInQuestion`, `EndsInCall`, `Finishes`, `FinalSaved`, `ConversationSaved` | a round |
| `CallSaved`, `Approved`, `Rejected`, `ToolReturns`, `ResultSaved` | its tool |
| `QuestionSaved`, `Answered`, `AnswerSaved` | its question |
| `Throws`, `LoopFails`, `Recovers`, `FailureSaved` | a save that throws, and the circuit breaker of the loop |
| `Close`, `Attach`, `Load`, `Repair`, `Restart` | the controller is replaced, or the app is started again |

A conversation is a function from the numbers of its answers to what stands there: a
message of the user before it, the status of the answer, and the result of its tool
call. So the order of messages, and what "everything from here on" means when an answer
is regenerated or a tool is called again, are kept, and their text is not.

`Overlapping` says whether a second call may start before the first has shown that it is
under way. In the code it may (that is the finding of `chat_second_run`); the other runs
ask what holds if the interface is slower than that, since two turns that are mixed up
break nearly everything.

### DesktopConnection

| model | code |
|---|---|
| `status`, `selected` | the fields of the state that the window shows |
| `socket`, `subscription`, `timer`, `forwardSerial` | the fields of the notifier |
| `sockets`, `listened`, `ticking` | what these refer to: a socket or timer lives on when its field is overwritten |
| `forward` | the rule adb holds for port 8765, one for all devices |
| `co[<<c, "call">>]`, `co[<<c, "beat">>]` | a call of the user, and the heartbeats of the timer it started |
| `ConnectAdb`, `QuickConnectAdb`, `ConnectWireless`, `SwitchAdbDevice`, `Disconnect`, `Ask` | the calls, up to their first await, where the window offers them |
| `Scanned`, `Paired`, `Forwarded`, `AdbFails` | adb returns |
| `Opened`, `OpenFails`, `Greeted`, `GreetingFails` | `connect` |
| `Answered`, `TimesOut`, `SendHeartbeat`, `HeartbeatAnswered`, `HeartbeatFails` | requests and heartbeats |
| `TakeSocket`, `TakeForward`, `Closed` | `_close` after each of its awaits, and what its caller does next |
| `LinkFails`, `HandleClosed` | a link that breaks, and that the socket says so |

The phone is the other end of a socket: it answers, stalls or is gone. A coroutine whose
answer has come, or whose request has failed, goes on in a step of its own; Dart runs
these steps before any other event, so the model allows more orders than the program
has. The devices that adb lists do not change.

### MC modules

One for each model. `MCMemoryScan` defines memories, requests and moves of the target;
the others declare at most the members of the sets.

## 3. What the runs check

Passing runs. Deadlock is checked where the system never stops by itself (`freeze`,
`breakpoint`); it is switched off where the bounds on starts, scans, deaths or calls
leave nothing to do once they are used up.

| run | what it asks | bounds | states |
|---|---|---|---|
| `search` | Is only a complete scan published (`NoPartialPublish`), never over a newer session (`SnapshotNotOvertaken`)? Do count and listing agree (`CountMatchesEntries`)? Does a running task have a thread (`RunningHasWorker`)? Is it a scan slot, in which a session comes only from the running scan, a verdict stands and every task ends (`ImplementsScanSlot`)? | three generations, one unit, modes standard, fuzzy and auto, one process | 146 131 |
| `pointer` | Do only complete results count (`OnlyCompleteResults`)? Are the layers one chain (`LayersFormChain`)? Is at most one thread not told to stop (`OneUnstoppedThread`)? Is the plain pointer scan a scan slot until a chase is used (`ImplementsScanSlot`)? | two starts, one region, two addresses of which one is static, depth 2 | 410 200 |
| `memory_scan` | Does a first scan find exactly what memory holds (`FirstScanFindsAll`), does a next scan keep exactly what still matches (`NextScanExact`), does a fuzzy session carry the value it last saw (`FuzzyRemembersLastValue`), is progress sound (`ProgressIsSound`), does every scan end (`EveryScanEnds`)? Does a pointer scan give exactly the close pointers, the nearest first, for every number of threads and across slabs, batches and holes, and does it count what its total promised (`PointerScanExact`)? | ten bytes in three regions, five memories, one move of the target, nine first and ten next requests, three scans, two threads | 194 175 |
| `freeze` | Is a place frozen once (`OneEntryPerPlace`), are only the dead pruned (`OnlyDeadArePruned`), does a frozen value keep coming back (`FrozenIsRewritten`), is an unfrozen one let go (`UnfreezeTakesEffect`)? | two processes with the same address, two values, one caller | 103 500 |
| `breakpoint` | Does a removed or disabled breakpoint leave nothing behind (`RemovedLeavesNothing`), is an enabled one watched (`EnabledIsWatched`)? Does every call return (`CallsReturn`), does an access stop the target (`AccessPauses`)? | two breakpoints on one target, ring buffers and hit list of two | 679 855 |
| `daemon` | Does a prompt call succeed, and is it executed once, whatever a slow one occupies, unless helpers die (`PromptCallsSucceed`)? Is a call that is sent again executed at most twice (`SentAgainOnce`)? Does every call come back (`CallsReturn`)? | one call that may never be answered, one that starts the helper, one that does not; pool of four, two polls, two deaths, one failed start | 799 599 |
| `chat` | Does a risky tool run only with consent (`OnlyConsentedToolsRun`), is the budget of rounds kept (`BudgetIsKept`), does a conversation at rest look like one and is it what is stored (`RestIsTrue`)? Does a checkpoint ever overwrite an answer (`NoLateCheckpoint`), does every call return or wait for the user (`CallsReturn`)? | two calls, two answers, one round of tools, one failing save, one replacement or restart | 233 223 |
| `desktop` | Is a connection that is shown but does not work noticed, whatever calls overlap (`ConnectedWorks`)? | two calls, two devices, one fault | 299 032 |

Why these bounds are enough to be interesting. Three generations let a stale thread,
a thread whose task was cancelled and a current one overlap, and a next scan follow a
next scan; one unit suffices to tell complete from partial (visited or not), null
from empty, and found from not found, and the proofs hold for any set of units. Two
starts let a chase and a scan, or two chases, share the slot; depth 2 has a layer
that continues and one that ends. In the scanned memory every chunk, slab, batch and
window edge is crossed by a value of two bytes and by a group, holes lie within and
between regions, and two threads share each scan; three scans are a first scan, one that
narrows it and one that narrows that. Two processes with one address are what it takes to
prune the wrong one. Two breakpoints share the hit list, which overflows at two. A pool
of four is the code's own: one stuck call can occupy three threads (its two attempts and
the connection that follows), and with three instead of four `PromptCallsSucceed` fails.
Two answers are a tool call and the round that follows it, or an answer and the one that
replaces it; one controller more than the first is one that takes over what the first
left behind. Larger instances of `chat` (three answers with one controller; three answers
with two controllers and no failure, 2.9 million states) were checked as well, without a
violation.

In `desktop` two calls are enough to connect over each other, to close under each other
and to leave a timer or a socket behind, and they make connections fail without any fault;
an instance with two faults (some 660 000 states) was checked as well, without a violation.

Fairness. Weak, and assumed only of what the operating system and the runtimes
schedule. In the engine: each thread's next step, and the timeout of the freeze
thread's wait, as `wait_for` does. In `memory_scan`: the threads of the task, their start
and their join. In `daemon`: the coroutines with their socket timeouts, the threads of
the pool as far as the engine answers, the expiry of the cache and the helper that
starts. In `chat`: the store, the tools and the transport come back (a request has a
receive timeout of five minutes, `ai_system_providers.dart:111`), and what awaits them
goes on. In `desktop`: adb returns, timers and timeouts run out, and coroutines go on; not
that the end of a link is reported (`HandleClosed`), nor that the phone answers. Nothing is
assumed of the user, of calls that could be made, of a target that
could run or exit, or of the order in which a lock is granted.

Runs that find a disagreement between the code and what the repository says of it,
each described under `findings`:

| run | what TLC shows |
|---|---|
| `running_without_thread` | a cancel or reset of the pointer scan during a chase ends the chase thread and leaves the chase shown as running for ever (the other half of the same property: a reset of a chase leaves the shared slot running with no thread, and every later scan is refused) |
| `freeze_unreachable` | after a reset or a session of another process a freeze of a living process cannot be switched off, although the tool answers that it was |
| `chat_second_run` | two calls that are made before the first has saved its placeholder send two requests in one conversation |
| `chat_stuck` | a save that fails while a tool is called again leaves the conversation requesting for good, out of reach of the circuit breaker and of cancel |

The cause of the first is that the slot which plain scans and chases share has one
flag but two generations and two statuses, which the calls update in part. It has another
consequence: the thread of a cancelled chase empties the slot of the plain scan that
followed it, which then ends without a result (`memory_tool_engine.cpp:2283`).

Further things the models do because the code does, of which nothing in the repository
says otherwise:

- The freeze thread may write once more, from its snapshot, to a place whose freeze was
  switched off and that the user wrote meanwhile (`memory_tool_engine.cpp:2371`).
- The rest of a batch of hits stops the target again after it was resumed, without a new
  access (`memory_tool_breakpoint.cpp:695`).
- A first scan loses a whole chunk at a hole in it (`FirstScanFindsAll` says so), whereas
  a pointer scan goes on place by place. A stopped group scan still resolves its anchors.
- In `daemon`, `invalidateDaemonState` clears two fields without the lock under which they
  are written, so a ping from before the death of the helper can be trusted after it
  (`misled`), and a call that only asks whether the helper lives may return quietly though
  it does. A request that is not idempotent can be executed twice.
- In `chat`, cancelling while approval is asked for only rejects the tool, and the loop
  asks the model again. Rejected results are shown and not stored, and calling such a tool
  again runs it without asking for approval once more: the second call of the user counts
  as consent. A question's record may be overwritten by its last checkpoint
  (`ai_chat_session_controller.dart:614`); the timer keeps the placeholder of the snapshot
  that armed it (`:1012`), where the model saves under the current message: the two differ
  only after a question, which `NoLateCheckpoint` leaves out. A controller that is
  closed while its tool runs starts another request that nobody cancels; one that is
  closed before its loop comes to an approval or a question sets up a completer that
  nobody completes, and that call waits for ever (`AwaitsVerdict` leaves this case out
  of `CallsReturn`). A new controller repairs rows that the old loop still settles, and
  may overwrite a completed answer with its interrupted copy; `ShownIsStored` is
  therefore about the first controller.
- In `desktop`, `_close` takes the socket and the forward it finds after its awaits, which
  may be those of another call's new connection (`desktop_connection_provider.dart:838`,
  `:842`). Two calls may both connect; the second socket and timer overwrite the first
  ones, and when the first socket ends, the second is forgotten. `WebSocket.connect` that
  has timed out may still open a socket, which nobody closes; nor does anybody close the
  socket of a heartbeat that was answered too late, because `_handleError` forgets it
  before `_close` looks for it (`:464`). A device that is paired while another one is
  connected is selected, and so shown as the one that is connected, while requests go
  to the other (`:315`).

Every property of a passing run has a mutant: a definition of the model changed the
way a plausible slip in the code would change it, under which TLC finds the property
violated. The mutants stand beside the definitions they change.

## 4. What is proved

The modules whose names end in `Proofs` hold theorems about the model they are named
after, for every value of its constants, under the assumption the model names:
`SearchConstants`, `PointerConstants`, `FreezeConstants`, `BreakpointConstants`,
`ChannelConstants`, `ChatConstants` and `DesktopConstants`. `ChatSession` has two such
modules, `ChatSessionProofs` and `ChatTurnProofs`, which goes on from it. The assumptions say that what stands for "none" is not one of the things, that
bounds are natural numbers, and that the modes are the engine's; they are what TLC evaluates in the runs, too. In each
module the invariants the runs check are not inductive, and `IndInv` adds what makes
them so.

**SearchTask.** Beside the types and the checked invariants `IndInv` has:

- `GenerationsInOrder`: the generation of the task is at most the counter, so a new
  task never meets a thread that was there before it;
- `RunningIsNotFlagged`: a running task has its flag down, so the test of
  `FinishTaskSuccess` is the test for *the* running task;
- `FinishIsComplete`: a current thread that stands before its final report has visited
  everything. This is the heart of `NoPartialPublish`: a stopped next scan does report
  success, and is always too late to be believed, because what makes a thread stale -
  a cancel, a reset, a new generation - is never undone;
- `OneStore`: a session that was narrowed has released its initial regions, so that
  count and listing cannot look at different stores;
- `FoundInBase`: what a current thread has found or has yet to visit lies in the base
  its scan started from.

From `IndInv` follow the five invariants, the action properties `NoLatePublish` and
`VerdictIsFinal` (a task publishes only as the running one, and its final status stands:
`ImplementsScanSlot` implies both, so no run checks them apart), and `SearchIsScanSlot`: `Spec => Slot!Safe`, every step is a step of
`ScanSlot` or a stutter. The one interesting step of that refinement is the completion
of a next scan, which may replace the session with a subset of its *snapshot*: that the
base of the slot is still that snapshot, whatever happened to the session, is what
`FoundInBase` is for.

**FreezeWorker.** `InactiveAreDead` - what the thread has marked inactive belongs to a
process that has exited, and processes do not come back - together with
`OneEntryPerPlace` is inductive, and gives `OnlyDeadArePruned`: pruning by place in a
critical section of its own is safe because the pid is part of the place.

**PointerTask.** The slot has two users and one flag, and the argument is about
what takes a thread's word away from it:

- `UnstoppedHasSlot`: a thread whose flag is down still owns what it started with, the
  slot and, if it is a chase, the chase, since whoever takes either raises the flag;
  hence `OneUnstoppedThread`;
- `PartialIsStale`: a thread that has given up regions because a report was refused is
  not current any more, or its flag is up, before it comes to `TestFlag`. With the order
  of the two tests this is `OnlyCompleteResults`;
- `AtTheEnd`: the thread of the current chase works on the place where the layers end,
  so what it appends continues the chain (`LayersFormChain`);
- `StartsInOrder`, `ThreadsHaveKinds`: generations, and which threads pass through which
  phases.

`PointerScanIsScanSlot` is `Spec => Slot!Safe`: until a chase is used every step is a
step of `ScanSlot` or a stutter, and the first call of one, mapped to a reset, is the last
step that counts. `NoChaseBefore` keeps the threads of chases out until then.

**BreakpointMonitor.** A call works on a breakpoint over several critical sections, and in
between the list and the threads disagree. `CallMeans` says what the call being served has
still to do, `RunsIfMeant` that a thread runs exactly where the list or that call means it
to, `Fresh` that a breakpoint which was never added has neither, and `Batched` that a
thread records only what it took. They are inductive, and `EnabledIsWatched` is among
them. `RemovedLeavesNothing` is also about hits: `HitsListed`, that every hit is of a
listed breakpoint, is inductive with `Batched`. Its step is the filter by which a removal
takes the hits of a breakpoint out; it is written as a recursive function, and
`WithoutKeeps` - a filtered list keeps only what the list had, and nothing of the
breakpoint taken out - is shown for it by the least index at which it would fail.

**DaemonChannel.** `Counted` is an account: what has been executed for a call, and what
connections still carry for it - the client's own, and those it has given up - are
together at most what the call may have sent by now (`Allowed`). A handler moves one
request from the second to the first; only `Send` adds one, once for each attempt. That no
two calls use the connection at once, which the account needs, is `Locked`: an attempt is
made under `connectionLock`, kept across the helper's restart between the two, and there
are two (`Ordered`). Deaths only forget. `Answered` - a reply that can be read comes from an
execution - gives the rest of `SentAgainOnce`.

Whatever the pool's size, `TypeInv` adds to the account who holds what: the monitor and the
lock are held by the call that stands inside them and by nobody else (`Held`), one
connection is open at most (`OneOpen`), and no more are served than there are threads
(`Served`). `PromptCallsSucceed` needs room in the pool as well, and its theorem,
`PromptIsUnharmed`, has this as a hypothesis: `PoolHasRoom`, `PoolSize > 2 * Cardinality(Slow)
+ 1`. The run has one slow call and the pool of four of the code; with three threads TLC
refutes the property. The argument:

- the account bounds the connections that a slow call occupies by two, by induction over the
  set of slow calls, and so `NotCrowded`: a thread is always free or comes free at once, and
  the ping or request of a prompt call times out only when the helper is dead;
- hence an attempt of a prompt call fails only by a death that the connection has not
  noticed (`Course`, `Broke`), and the second by another death or by a ping that
  was misled (`Fair`, `Refound`), which are what the property excepts.

**ChatSession.** `IndInv` says how the parts of a conversation hang together:

- `Attached`, `Opened`: which call a controller has, and where the initialization of one
  stands; `Queued`: what waits in the queue of the store, once each;
- `Numbers`, `Capacity`: the numbers of the answers are used in order, and there is one left
  for every call that may still need it;
- `Requests`, `OwnReplies`: which answer is at which stage of which call, and that no two
  calls work on one;
- `MessagesBacked`, `RoundsCounted`: what is completed or has a result, where it is shown,
  stored, or in a history, is the answer to a request that has ended, and a loop that stands at
  round n has at most n rounds of tools in the history it sends.

`RoundsCounted` gives `BudgetIsKept` although the messages are loaded, deleted, cut off
and joined by other operations: what counts is what stands behind the last message of the
user. `ChatTypes` and `BudgetOfRounds` hold whatever overlaps. The other invariants are in
`ChatTurnProofs`:

- `CheckpointInv` is about the past of a timer. `Harmless` says of the answer a timer or a
  queued checkpoint will save, that it is a question, or is not settled and the call
  it belongs to has not yet passed the steps that stop the timer and wait for the last
  checkpoint. The two differ in how far that call may be, because a checkpoint that is queued
  comes before whatever is queued after it. From it `CheckpointsAreInTime` is an action
  property: no step takes a settled answer back to one that streams.
- `ConsentInv` is about one call at a time, `~Overlapping`: `Alone`; `Completing`, a completer
  belongs to a call that waits for it; `Offered`, while a call waits for a verdict its
  controller offers that call's tool and no other, so that what the user approves is what runs;
  `Consented`, from there to the tool. `ToolsAreConsented` has `~Overlapping` as its hypothesis,
  because it is false without: the code lets a second call start in the gap before the first
  is shown as under way, and `chat_second_run` is about what follows.
- `RestInv` is about what a call still owes, and goes on from both; `RestIsShownTruly` is
  `~Overlapping => (Spec => []RestIsTrue)`. Nothing has a message before its request is sent
  (`Sent`), so that a number that is given back leaves none behind. A message that looks as if it
  came in is that of a call which will settle it (`Closing`): it stands where the answer ends, or
  where it recovers and will find this message as the last that is not settled. What a
  call goes on with looks settled itself (`Shown`), since it replaces what is shown. Hence
  `NothingOpen`, with failing saves, replacements and restarts. For `ShownIsStored`, `Stored`
  says at each point where a call may stand how the history it carries, what is shown and what is
  stored relate (`Kept`): as an answer comes in, store and history agree but for its status, and
  the end of it is stored before it is shown (`Recorded`). The steps that disturb this are
  checkpoints, which come to the store later than they are made; `Awaited` says that one is of
  an answer that still streams, or of a question, whose record it may overwrite, as the
  property says. The proof describes every step of a call by where it leads and what it shows and
  stores (`Course`), and follows each part of the invariant along that description.

Two guards of the model were found to be wrong while the invariants were designed: a verdict
could be given to a controller that was closed, whose page is gone, and an answer whose
save failed gave back a number that later answers had passed. Both are corrected.

**DesktopConnection.** Its calls overlap freely, and little holds of them at every moment;
`TypeOK` says what does: the program keeps no socket that it has closed itself, listens to what it
believes it listens to while the link works, and waits for answers only on sockets that were
opened. `Linked` and `Run` add where each call stands between its awaits, with which socket.

Only model-checked: liveness (the liveness half of `ScanSlot!Contract`, `EveryScanEnds`,
`FrozenIsRewritten`, `UnfreezeTakesEffect`, `CallsReturn`, `AccessPauses` and what
`DesktopConnection` promises), which is out of the reach of the prover; and everything
about `MemoryScan`, whose results are recursive computations over data, compared with
`Bitwise`.

## 5. What is abstracted, and what is not modelled

- In `SearchTask` and `PointerTask`, what a scan compares and reads: a unit is hit or not,
  freely, unless its process is gone, when it reads as nothing. `MemoryScan` has the rest,
  for one task at a time.
- In `MemoryScan`: floating point, big-endian values and byte patterns with wildcards, which
  differ in the comparison of one value only; an automatic search keeps one type for each
  address; a window of a group that reaches an unreadable page is missed as a whole; a
  progress report is one step with the piece it follows. A group search lists an entry for
  each item, while `prompt_builder.dart` speaks of anchors: both are there, the properties
  are about the anchors. `FirstScan` is made once in a behaviour.
- Times and messages of the views, and the progress numbers of pointer scans.
- A thread that cannot be started (`std::thread` throwing after the task was set
  running): listed as a hazard, not modelled.
- A pid that is used again by another process: a process that exits stays gone. The
  code compares pids only, so it would be a change of target that nothing notices.
- A write that fails while its process is alive (`FreezeWorker`): the code keeps the
  entry and tries again in the next round.
- The threads of a target, and the watch handle of each (`BreakpointMonitor`): one
  handle stands for all. What a second execution of the same request does in the engine
  (two handlers join one monitor thread): the two modules are not composed.
- In `DaemonChannel`: what a request says; a ping is one step, answered at once or timed
  out by whether a thread of the pool is free when it comes.
- In `ChatSession`: one tool call for each answer; paging through older messages (and with
  it the index `deleteMessage` keeps across an await, listed as a hazard); the context that
  is published and stored beside the conversation; an initialization that fails; overlapping
  replacements; a controller that fails before it is loaded. Calls of a failed answer count
  as rounds in the code but not in `RoundsInTurn`: they would matter only in a turn that is
  joined to the one before it by deleting the message between them.
- In `DesktopConnection`: what requests and events say; devices that appear, disappear or
  are not authorized; a timer that fires while its last heartbeat is still under way; the
  bridge server, whose routes each call one other component.
- The transport of the AI (`ai_chat_orchestrator.dart`): it appears as the end of a request,
  in any of its outcomes.
- The parts listed as not modelled in `PROJECT.json`: pure I/O, tables, conversions,
  vendored and generated code, user interface, and what the plan has left.

## 6. Plan

In order of what matters most:

1. The types of `MemoryScan`, once what it compares with `Bitwise` is behind a constant.
2. `ScanTool`: the polling loops of the AI tool handlers over the contract of
   `ScanSlot`: start, poll with a timeout, read the results of one's own scan.
3. The bridge server beside `DesktopConnection`: its clients, its console and its shell.
4. The second execution of a request composed with `BreakpointMonitor` and `SearchTask`.
5. Older pages of a conversation beside its calls.
