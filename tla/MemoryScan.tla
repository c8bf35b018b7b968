------------------------------ MODULE MemoryScan ------------------------------
(***************************************************************************)
(* The threads of one search task: how FirstScan and NextScan of           *)
(* memory_tool_engine.cpp and the scans of memory_tool_scanner.cpp cut     *)
(* their work up, share a progress counter and a stop flag, and put the    *)
(* parts together as the next session.  ScanSteps says what each part is.  *)
(*                                                                         *)
(* One task exists at a time here (SearchTask has the others); Cancel      *)
(* stands for everything that makes UpdateTaskProgress refuse.  The target *)
(* writes and maps memory at any moment.                                   *)
(***************************************************************************)
EXTENDS ScanSteps, PointerWindows

CONSTANTS
    Layout,         \* the readable regions, in address order
    Memories,       \* what memory may hold at first
    Moves,          \* what the target does: sets of [at, to] made at once
    FirstRequests, NextRequests,
    PointerRequests, \* pointer scans, for PointerScanExact
    ByteInterval,   \* kProgressByteInterval
    RegionInterval, \* kProgressRegionInterval
    MaxScans,       \* bound on the scans of a behaviour
    MaxMoves        \* bound on what the target does

ASSUME ScanConstants ==
    /\ {ByteInterval, RegionInterval} \subseteq Nat \ {0}
    /\ \A i \in DOMAIN Layout : Layout[i].start < Layout[i].end
    /\ \A i, j \in DOMAIN Layout : i < j => Layout[i].end <= Layout[j].start

VARIABLES
    mem,         \* the target's memory
    session,     \* session_
    scan,        \* the task: stage, request, and how it is disturbed
    workers,     \* the scan threads
    worker_results, \* what each of them has found
    should_stop, \* should_stop of the scan
    processed,   \* processed_byte_count, or processed_entry_count
    shown,       \* the progress the task shows
    moves        \* what the target has done

vars == <<mem, session, scan, workers, worker_results, should_stop, processed, shown, moves>>

NoSession ==
    [active |-> FALSE, mode |-> "standard", type |-> "i8", results |-> <<>>,
     anchors |-> <<>>, initial |-> {}, candidates |-> {}, bytes |-> <<>>]

NoRequest ==
    [mode |-> "standard", type |-> "i8", pattern |-> <<>>, variants |-> <<>>,
     target |-> 0, compare |-> "unknown", plan |-> [window |-> 0, items |-> <<>>]]

(* "scans" counts the tasks; "disturbed" is a history field: memory was not  *)
(* the same all through the scan.                                            *)
NoScan ==
    [stage |-> "idle", request |-> NoRequest, scans |-> 0,
     cancelled |-> FALSE, disturbed |-> FALSE]

Idle == scan.stage = "idle"

Modes == {"standard", "auto", "xor", "fuzzy", "group"}

TypeOK ==
    /\ \A a \in DOMAIN mem : mem[a] \in (0 .. ByteBase - 1) \cup {Hole}
    /\ session.mode \in Modes
    /\ session.active \in BOOLEAN
    /\ Cardinality(session.initial) <= 1 /\ Cardinality(session.candidates) <= 1
    /\ scan.stage \in {"idle", "begin", "run"} /\ scan.scans \in 0 .. MaxScans
    /\ \A w \in DOMAIN workers : workers[w].pc \in {"work", "report", "done"}
    /\ should_stop \in BOOLEAN /\ processed \in Nat /\ shown \in Nat
    /\ moves \in 0 .. MaxMoves

Init ==
    /\ mem \in Memories
    /\ session = NoSession
    /\ scan = NoScan
    /\ workers = <<>> /\ worker_results = <<>>
    /\ should_stop = FALSE
    /\ processed = 0 /\ shown = 0 /\ moves = 0

-----------------------------------------------------------------------------
(* The work of the threads, as a sequence of pieces each.                    *)

Piece(kind, region, from, to) ==
    [kind |-> kind, region |-> region, from |-> from, to |-> to]

Worker(pc, work) ==
    [pc |-> pc, work |-> work, done |-> 0, reported |-> 0, counted |-> 0]

Threads(pc, work) == [w \in DOMAIN work |-> Worker(pc, work[w])]

(* The first indexes of pieces of one size. *)
Starts(from, to, size) ==
    [i \in 1 .. (to - from + size - 1) \div size |-> from + (i - 1) * size]

Concat(seqs) == FoldLeft(LAMBDA all, s : all \o s, <<>>, seqs)

(* The chunks of each region, and the end of each as a piece of its own; a   *)
(* snapshot takes its region at once; what is found last is put in order.    *)
FirstScanPieces(regions, mode) ==
    LET Body(r) == IF mode = "fuzzy" THEN <<>>
                   ELSE LET starts == Starts(r.start, r.end, ChunkSize)
                        IN [i \in DOMAIN starts |-> Piece("chunk", r, starts[i], 0)]
        End(i) == Piece(IF mode = "fuzzy" THEN "snapshot" ELSE "region",
                        regions[i], i, Len(regions))
    IN Concat([i \in DOMAIN regions |-> Append(Body(regions[i]), End(i))])
       \o IF mode \in {"auto", "group"}
          THEN <<Piece("finish", regions[1],
                       0, MapThenSumSet(LAMBDA i : SizeOfRegion(regions[i]), DOMAIN regions))>>
          ELSE <<>>

Batches(range) ==
    LET starts == Starts(range.start, range.end, BatchSize)
    IN [i \in DOMAIN starts |->
           Piece("batch", range, starts[i], Min({starts[i] + BatchSize, range.end}))]

Windows(entries, range, size) ==
    LET From[start \in range.start .. range.end] ==
            IF start = range.end THEN <<>>
            ELSE LET end == WindowEnd(entries, start, range.end, size)
                 IN <<Piece("window", range, start, end)>> \o From[end]
    IN From[range.start]

(* The slots of every remembered region in chunks; each region ends with a   *)
(* report of its own.                                                        *)
SlotPieces(snapshots, type) ==
    LET size == ResolveFuzzyInitialChunkSlotCount(SizeOf(type), ResolveStep(type))
        Of(s) == LET starts == Starts(0, s.slots, size)
                 IN [i \in DOMAIN starts |->
                        Piece("slots", s, starts[i], Min({starts[i] + size, s.slots}))]
    IN Concat([i \in DOMAIN snapshots |->
                  Append(Of(snapshots[i]), Piece("slotsEnd", snapshots[i], 0, 0))])

-----------------------------------------------------------------------------
(* What a request asks of the session. *)

CanContinueWithRequestMode(request) ==
    CASE session.mode = "standard" -> /\ request.mode \in {"standard", "fuzzy"}
                                      /\ request.type = session.type
      [] session.mode = "fuzzy"    -> /\ request.mode \in {"standard", "fuzzy"}
                                      /\ request.type = session.type
                                      /\ request.mode = "fuzzy" => request.compare # "unknown"
      [] session.mode = "auto"     -> request.mode \in {"auto", "standard"}
      [] OTHER                     -> request.mode = session.mode

FilterResultsByMatchedType(results, type) ==
    SelectSeq(results, LAMBDA e : e.type = type)

(* The entries, or the candidates, a next scan goes through. *)
Source(s, request) ==
    CASE s.mode = "fuzzy" -> IF s.candidates = {} THEN <<>> ELSE Concat(SetToSeq(s.candidates))
      [] s.mode = "group" -> s.anchors
      [] s.mode = "auto" /\ request.mode = "standard" ->
             FilterResultsByMatchedType(s.results, request.type)
      [] OTHER -> s.results

FromInitial(s) == s.mode = "fuzzy" /\ s.candidates = {}

Seeds(s, request) == s.mode # "fuzzy" /\ request.mode = "fuzzy"

(* Seeding, and narrowing the initial regions, are done by the task's own    *)
(* thread; everything else is dealt out in equal ranges.                     *)
NextScanWork(s, request) ==
    LET entries == Source(s, request)
        ranges  == PartitionIndexRanges(Len(entries), ResolveNextScanWorkerCount(Len(entries)))
        all     == [start |-> 0, end |-> Len(entries)]
        size    == SizeOf(request.type)
    IN CASE FromInitial(s) -> [i \in 1 .. Cardinality(s.initial) |->
                                  SlotPieces(Concat(SetToSeq(s.initial)), request.type)]
         [] Seeds(s, request) -> IF entries = <<>> THEN <<>> ELSE <<Windows(entries, all, size)>>
         [] s.mode = "fuzzy" -> [w \in DOMAIN ranges |-> Windows(entries, ranges[w], size)]
         [] OTHER -> [w \in DOMAIN ranges |-> Batches(ranges[w])]

FirstScanWork(request) ==
    FoldLeft(LAMBDA work, bucket :
                 IF bucket = <<>> THEN work
                 ELSE Append(work, FirstScanPieces(bucket, request.mode)),
             <<>>,
             PartitionRegionsForWorkers(Layout, ResolveFirstScanWorkerCount(Len(Layout))))

-----------------------------------------------------------------------------
(* Starting.  The regions and the session settle how the work is dealt out,  *)
(* so that is written down at once; the threads exist from StartWorkers on.  *)

Begin(request) ==
    /\ Idle
    /\ scan.scans < MaxScans
    /\ scan' = [NoScan EXCEPT !.stage = "begin", !.request = request, !.scans = scan.scans + 1]
    /\ processed' = 0 /\ shown' = 0 /\ should_stop' = FALSE
    /\ UNCHANGED <<mem, moves>>

(* Every thread of a first scan begins by showing the progress. *)
FirstScan(request) ==
    /\ Begin(request)
    /\ session' = NoSession
    /\ workers' = Threads("report", FirstScanWork(request))
    /\ worker_results' = [w \in DOMAIN workers' |-> <<>>]

NextScan(request) ==
    /\ session.active
    /\ CanContinueWithRequestMode(request)
    /\ Begin(request)
    /\ workers' = Threads("work", NextScanWork(session, request))
    /\ worker_results' = [w \in DOMAIN workers' |-> <<>>]
    /\ UNCHANGED session

First == ~session.active

(* A next scan shows its progress once before it has threads, and is given   *)
(* up if that is refused.                                                    *)
StartWorkers ==
    /\ scan.stage = "begin"
    /\ scan' = [scan EXCEPT !.stage = "run"]
    /\ workers' = IF ~First /\ scan.cancelled THEN <<>> ELSE workers
    /\ UNCHANGED <<mem, session, worker_results, should_stop, processed, shown, moves>>

-----------------------------------------------------------------------------
(* A thread at work. *)

AfterPiece(worker) == IF worker.work = <<>> THEN "done" ELSE "work"

(* A group scan that is stopped still resolves the anchors it has. *)
Stopped(worker) ==
    LET last == SelectSeq(worker.work, LAMBDA p : p.kind = "finish")
    IN IF scan.request.mode = "group" /\ First /\ last # <<>>
       THEN [worker EXCEPT !.pc = "work", !.work = last]
       ELSE [worker EXCEPT !.pc = "done", !.work = <<>>]

Anchor == scan.request.plan.items[1]

(* What the chunk of a piece counts, of the mode that is scanned for. *)
ChunkBytes(piece) ==
    LET request == scan.request
        Of(overlapping, least) ==
            CountedBytes(mem, piece.region, piece.from, overlapping, least)
    IN CASE request.mode = "standard" -> Of(Len(request.pattern), Len(request.pattern))
         [] request.mode = "auto"     -> Of(LongestPattern(request.variants), 1)
         [] request.mode = "xor"      -> Of(XorSize, XorSize)
         [] OTHER                     -> Of(Len(Anchor.pattern), Len(Anchor.pattern))

ChunkFound(piece) ==
    LET request == scan.request
        region  == piece.region
    IN CASE request.mode = "standard" ->
              FirstScanChunk(mem, region, piece.from, request.type, request.pattern)
         [] request.mode = "auto" ->
              FirstScanMultiTypeChunk(mem, region, piece.from, request.variants)
         [] request.mode = "xor" -> FirstScanXorChunk(mem, region, piece.from, request.target)
         [] OTHER -> FirstScanChunk(mem, region, piece.from, Anchor.type, Anchor.pattern)

(* What a thread of a first scan has found after a piece. *)
FirstFound(found, piece) ==
    CASE piece.kind = "chunk"    -> found \o ChunkFound(piece)
      [] piece.kind = "snapshot" -> Append(found, FirstScanFuzzy(mem, piece.region,
                                                                 scan.request.type))
      [] piece.kind = "region"   -> found
      [] piece.kind = "finish" /\ scan.request.mode = "auto" -> FinalizeMultiTypeFirstScan(found)
      [] OTHER -> FirstScanGroup(mem, found, scan.request)

(* What it has counted then; a group ends with the whole of its regions.     *)
FirstDone(done, piece) ==
    CASE piece.kind = "chunk"    -> done + ChunkBytes(piece)
      [] piece.kind = "snapshot" -> done + SnapshotBytes(piece.region, scan.request.type)
      [] piece.kind = "finish" /\ scan.request.mode = "group" -> piece.to
      [] OTHER -> done

(* Whether it is time to report.  A chunk that is passed over never is.      *)
FirstIsDue(worker, piece, done) ==
    CASE piece.kind = "chunk"  -> done > worker.done /\ done - worker.reported >= ByteInterval
      [] piece.kind = "finish" -> scan.request.mode = "group"
      [] OTHER -> piece.from % RegionInterval = 0 \/ piece.from = piece.to

DeltaSwapped(progress, counted) == counted - progress
Delta(progress, counted) == progress - counted

WorkKeepsUnread(work) ==
    IF Head(work).kind = "chunk" /\ ChunkBytes(Head(work)) = 0 THEN work ELSE Tail(work)
WorkAfter(work) == Tail(work)

Finds(w, found) ==
    worker_results' = [v \in DOMAIN workers |-> IF v = w THEN found ELSE worker_results[v]]

(* The piece a thread takes next. *)
NextPiece(w) == IF workers[w].pc = "work" THEN {Head(workers[w].work)} ELSE {}

(* should_stop is looked at when there is something to report, and before    *)
(* the counters are brought up to date.                                      *)
FirstScanStep(w) ==
    \E piece \in NextPiece(w), worker \in {workers[w]} :
        LET done == FirstDone(worker.done, piece)
            due  == FirstIsDue(worker, piece, done)
            next == [worker EXCEPT !.done = done, !.work = WorkAfter(@),
                                   !.reported = IF due /\ piece.kind = "chunk" THEN done ELSE @]
        IN /\ scan.stage = "run" /\ First
           /\ Finds(w, FirstFound(worker_results[w], piece))
           /\ IF ~due
              THEN /\ workers' = [workers EXCEPT ![w] = [next EXCEPT !.pc = AfterPiece(next)]]
                   /\ UNCHANGED processed
              ELSE IF should_stop
              THEN /\ workers' = [workers EXCEPT ![w] = Stopped(next)]
                   /\ UNCHANGED processed
              ELSE /\ processed' = processed + Delta(done, worker.counted)
                   /\ workers' = [workers EXCEPT ![w] =
                                     [next EXCEPT !.pc = "report", !.counted = done]]
           /\ UNCHANGED <<mem, session, scan, should_stop, shown, moves>>

(* What a thread of a next scan keeps of one piece. *)
NextFound(piece) ==
    LET request == scan.request
        entries == SubSeq(Source(session, request), piece.from + 1, piece.to)
    IN CASE piece.kind = "slotsEnd" -> <<>>
         [] piece.kind = "slots" /\ request.mode = "fuzzy" ->
              NextScanFuzzyFromInitialChunk(mem, piece.region, piece.from, piece.to, request)
         [] piece.kind = "slots" /\ request.mode = "standard" ->
              NextScanFuzzyExactFromInitialChunk(mem, piece.region, piece.from, piece.to, request)
         [] session.mode = "fuzzy" /\ piece.kind = "window" /\ request.mode = "fuzzy" ->
              NextScanFuzzyWindow(mem, entries, request)
         [] session.mode = "fuzzy" /\ piece.kind = "window" /\ request.mode = "standard" ->
              NextScanFuzzyExactWindow(mem, entries, request)
         [] session.mode # "fuzzy" /\ piece.kind = "window" ->
              SeedFuzzyWindow(mem, entries, session.bytes, request)
         [] piece.kind = "batch" /\ request.mode = "standard" -> NextScanBatch(mem, entries, request)
         [] piece.kind = "batch" /\ request.mode = "auto" ->
              NextScanMultiTypeBatch(mem, entries, request)
         [] piece.kind = "batch" /\ request.mode = "xor" -> NextScanXorBatch(mem, entries, request)
         [] piece.kind = "batch" /\ request.mode = "group" ->
              NextScanGroupBatch(mem, entries, request)

TotalEntries ==
    IF FromInitial(session)
    THEN MapThenSumSet(LAMBDA s : s.slots, UNION {Range(i) : i \in session.initial})
    ELSE Len(Source(session, scan.request))

IsDue(piece, done) ==
    LET count == piece.to - piece.from
    IN CASE piece.kind = "slotsEnd" -> TRUE
         [] piece.kind = "slots" -> ShouldReportNextScanProgress(done, count, TotalEntries, done)
         [] OTHER -> ShouldReportNextScanProgress(done, count, piece.region.end, piece.to)

(* should_stop is looked at before every piece; the counters are brought up  *)
(* to date after it.                                                         *)
NextScanStep(w) ==
    \E piece \in NextPiece(w), worker \in {workers[w]} :
        LET count == piece.to - piece.from
            next  == [worker EXCEPT !.done = @ + count, !.work = Tail(@)]
        IN /\ scan.stage = "run" /\ ~First
           /\ IF should_stop
              THEN /\ workers' = [workers EXCEPT ![w] = Stopped(worker)]
                   /\ UNCHANGED <<worker_results, processed>>
              ELSE /\ Finds(w, worker_results[w] \o NextFound(piece))
                   /\ processed' = processed + count
                   /\ workers' = [workers EXCEPT ![w] =
                                     [next EXCEPT !.pc = IF IsDue(piece, next.done)
                                                         THEN "report" ELSE AfterPiece(next)]]
           /\ UNCHANGED <<mem, session, scan, should_stop, shown, moves>>

OwnProgress(worker) == worker.done
CurrentProgress(worker) == processed

(* Under progress_mutex: the total is shown unless the scan is to stop, and  *)
(* the first refusal stops every thread.                                     *)
ReportProgress(w) ==
    LET worker == workers[w]
    IN /\ scan.stage = "run"
       /\ worker.pc = "report"
       /\ IF should_stop \/ scan.cancelled
          THEN /\ should_stop' = TRUE
               /\ workers' = [workers EXCEPT ![w] = Stopped(worker)]
               /\ UNCHANGED shown
          ELSE /\ shown' = CurrentProgress(worker)
               /\ workers' = [workers EXCEPT ![w] = [worker EXCEPT !.pc = AfterPiece(worker)]]
               /\ UNCHANGED should_stop
       /\ UNCHANGED <<mem, session, scan, worker_results, processed, moves>>

-----------------------------------------------------------------------------
(* Ending. *)

Merged == Concat(worker_results)

FirstSession ==
    LET request == scan.request
        fuzzy   == request.mode = "fuzzy"
    IN [active |-> TRUE, mode |-> request.mode, type |-> request.type,
        results    |-> IF fuzzy THEN <<>> ELSE Merged,
        anchors    |-> IF request.mode = "group" THEN CollectGroupAnchorResults(Merged) ELSE <<>>,
        initial    |-> IF fuzzy THEN {Merged} ELSE {},
        candidates |-> {},
        bytes      |-> request.pattern]

(* A scan that began with nothing to compare leaves no candidates. *)
NextSession ==
    LET request == scan.request
        fuzzy   == "fuzzy" \in {session.mode, request.mode}
        nothing == \/ Seeds(session, request) /\ session.results = <<>>
                   \/ FromInitial(session) /\ session.initial = {}
    IN [active |-> TRUE,
        mode       |-> IF fuzzy THEN "fuzzy" ELSE request.mode,
        type       |-> request.type,
        results    |-> IF fuzzy THEN <<>> ELSE Merged,
        anchors    |-> IF request.mode = "group" THEN CollectGroupAnchorResults(Merged) ELSE <<>>,
        initial    |-> {},
        candidates |-> IF fuzzy /\ ~nothing THEN {Merged} ELSE {},
        bytes      |-> request.pattern]

AllDone == \A w \in DOMAIN workers : workers[w].pc = "done"

(* The threads are joined; the parts become the session in the order of the  *)
(* threads, unless the scan was stopped or the task is not current any more. *)
Join ==
    /\ scan.stage = "run"
    /\ AllDone
    /\ session' = IF should_stop \/ scan.cancelled THEN session
                  ELSE IF First THEN FirstSession ELSE NextSession
    /\ shown' = IF ~First /\ ~scan.cancelled /\ ~should_stop THEN TotalEntries ELSE shown
    /\ scan' = [NoScan EXCEPT !.scans = scan.scans]
    /\ workers' = <<>> /\ worker_results' = <<>>
    /\ UNCHANGED <<mem, should_stop, processed, moves>>

Cancel ==
    /\ ~Idle
    /\ ~scan.cancelled
    /\ scan' = [scan EXCEPT !.cancelled = TRUE]
    /\ UNCHANGED <<mem, session, workers, worker_results, should_stop, processed, shown, moves>>

(* The target writes, unmaps or maps, at any time. *)
TargetMoves ==
    /\ moves < MaxMoves
    /\ \E move \in Moves :
           mem' = [a \in DOMAIN mem |->
                      IF \E c \in move : c.at = a
                      THEN (CHOOSE c \in move : c.at = a).to ELSE mem[a]]
    /\ moves' = moves + 1
    /\ scan' = [scan EXCEPT !.disturbed = ~Idle]
    /\ UNCHANGED <<session, workers, worker_results, should_stop, processed, shown>>

-----------------------------------------------------------------------------

Thread(w) == FirstScanStep(w) \/ NextScanStep(w) \/ ReportProgress(w)

Next ==
    \/ \E request \in FirstRequests : scan.scans = 0 /\ FirstScan(request)
    \/ \E request \in NextRequests : NextScan(request)
    \/ StartWorkers
    \/ \E w \in DOMAIN workers : Thread(w)
    \/ Join
    \/ Cancel
    \/ TargetMoves

Spec == Init /\ [][Next]_vars

(* The operating system runs the threads of the scan: it does not leave all  *)
(* of them, and the thread that joins them, standing for ever.               *)
FairSpec ==
    /\ Spec
    /\ WF_vars(StartWorkers \/ (\E w \in DOMAIN workers : Thread(w)) \/ Join)

-----------------------------------------------------------------------------
(* Properties.  They compare what a scan leaves with what memory holds, so   *)
(* they speak of scans during which memory stayed as it was.                 *)

Completes ==
    /\ scan.stage = "run" /\ scan'.stage = "idle"
    /\ ~should_stop /\ ~scan.cancelled /\ ~scan.disturbed

ValueAt(address, size) == ReadRawBits(Bytes(mem, address, size))

Aligned(region, address, step, size) ==
    (address - region.start) % step = 0 /\ address + size <= region.end

(* The types with which an address answers a request, in the order sought.   *)
TypesAt(region, address) ==
    LET request == scan.request
        Has(type, pattern) ==
            /\ Aligned(region, address, ResolveStep(type), Len(pattern))
            /\ Readable(mem, address, Len(pattern))
            /\ Bytes(mem, address, Len(pattern)) = pattern
        Types(variants) ==
            LET having == SelectSeq(variants, LAMBDA v : Has(v.type, v.pattern))
            IN [i \in DOMAIN having |-> having[i].type]
    IN CASE request.mode = "standard" ->
              Types(<<[type |-> request.type, pattern |-> request.pattern]>>)
         [] request.mode = "auto" -> Types(request.variants)
         [] request.mode = "xor" ->
              IF /\ Aligned(region, address, XorSize, XorSize)
                 /\ Readable(mem, address, XorSize)
                 /\ XorMatches(ValueAt(address, XorSize), address, request.target)
              THEN <<"i16">> ELSE <<>>

(* The chunk of an address, and the bytes after it that a value may reach,   *)
(* hold something that cannot be read.                                       *)
InUnreadChunk(region, address, overlap) ==
    LET chunk == address - ((address - region.start) % ChunkSize)
    IN \E a \in chunk .. Min({chunk + ChunkSize + overlap, region.end}) - 1 :
           mem[a] = Hole

Regions == Range(Layout)

Addresses(entries) == {entries[i].address : i \in DOMAIN entries}

Ascending(entries) ==
    \A i, j \in DOMAIN entries : i < j => entries[i].address < entries[j].address

(* A next scan keeps, of what it is given, exactly what can be read and has  *)
(* the value now, in the same order: no place is lost at the edge of a range *)
(* or a batch, nor because its neighbour cannot be read any more.            *)
NextScanExact ==
    [][Completes /\ ~First /\ session'.mode \in {"standard", "auto", "xor"} =>
        session'.results =
            SelectSeq(Source(session, scan.request),
                LAMBDA e : \E r \in Regions :
                    /\ r.start = e.region
                    /\ e.type \in Range(TypesAt(r, e.address)))]_vars

(* The items of a plan stand somewhere in the window of an anchor: each at   *)
(* its offset, or after everything that precedes it.                         *)
HasGroup(address) ==
    LET plan    == scan.request.plan
        items   == plan.items
        size    == ResolveGroupReadSize(plan)
        Stands(i, o) == Bytes(mem, address + o, Len(items[i].pattern)) = items[i].pattern
        Behind(i, f) == \A j \in 1 .. i - 1 : f[j] + Len(items[j].pattern) <= f[i]
    IN /\ Readable(mem, address, size)
       /\ \E f \in [DOMAIN items -> 0 .. plan.window] :
              /\ f[1] = 0
              /\ \A i \in DOMAIN items :
                    /\ f[i] + Len(items[i].pattern) <= size
                    /\ Stands(i, f[i])
                    /\ i > 1 => IF items[i].fixed THEN f[i] = items[i].offset
                                ELSE Behind(i, f)

(* What an automatic search finds under several types is listed under the     *)
(* first of them in the order of the plan, not in that of the scan.          *)
ValuesFound ==
    Completes /\ First /\ scan.request.mode \in {"standard", "auto", "xor"} =>
        LET results == session'.results
            At(r, a) == SelectSeq(results, LAMBDA e : e.region = r.start /\ e.address = a)
        IN /\ Ascending(results)
           /\ \A r \in Regions : \A a \in r.start .. r.end - 1 :
                 IF a \in Addresses(results)
                 THEN /\ TypesAt(r, a) # <<>>
                      /\ Head(At(r, a)).type = Head(TypesAt(r, a))
                 ELSE TypesAt(r, a) = <<>> \/ InUnreadChunk(r, a, 1)

(* A group is found if its items can be placed at all, though the code only  *)
(* ever takes the first place that fits each item in turn.                   *)
GroupsFound ==
    Completes /\ session'.mode = "group" =>
        LET anchors == Addresses(session'.anchors)
        IN IF First
           THEN \A r \in Regions : \A a \in r.start .. r.end - 1 :
                   IF a \in anchors THEN HasGroup(a)
                   ELSE \/ ~Aligned(r, a, ResolveStep(Anchor.type), Len(Anchor.pattern))
                        \/ ~HasGroup(a)
                        \/ InUnreadChunk(r, a, Len(Anchor.pattern) - 1)
           ELSE anchors = {a \in Addresses(session.anchors) : HasGroup(a)}

(* A first scan finds every place that has the value or begins the group,    *)
(* once and in address order, whatever chunks and threads it is cut into:    *)
(* only what lies in a chunk that cannot be read is missing, and nothing     *)
(* else is found.  A next scan keeps the groups that still stand.            *)
FirstScanFindsAll == [][ValuesFound /\ GroupsFound]_vars

(* The places a fuzzy scan compares, each with its value at the last scan.   *)
Held(type) ==
    LET size == SizeOf(type)
        Slots(s) == [i \in 1 .. s.slots |->
                        [address |-> s.region + (i - 1) * size, region |-> s.region,
                         bits |-> ReadRawBits(SubSeq(s.bytes, (i - 1) * size + 1, i * size))]]
        All(snapshots) == Concat([i \in DOMAIN snapshots |-> Slots(snapshots[i])])
    IN IF session.mode # "fuzzy"
       THEN [i \in DOMAIN session.results |->
                Candidate(session.results[i], ReadRawBits(session.bytes))]
       ELSE Concat(SetToSeq(session.candidates \cup {All(s) : s \in session.initial}))

(* A fuzzy session knows, of every place it still holds, the value that the  *)
(* last scan saw there, and the last scan kept exactly the places that       *)
(* compare as asked with the value of the scan before.                       *)
FuzzyRemembersLastValue ==
    [][Completes /\ ~First /\ session'.mode = "fuzzy" =>
        LET type == scan.request.type
            size == SizeOf(type)
            held == Held(type)
            Signed(bits) == CHOOSE v \in -(ByteBase ^ size) .. ByteBase ^ size - 1 :
                                /\ 2 * v \in -(ByteBase ^ size) .. ByteBase ^ size - 1
                                /\ v % ByteBase ^ size = bits
            Compares(old, new) ==
                CASE scan.request.compare = "unchanged" -> old = new
                  [] scan.request.compare = "changed"   -> old # new
                  [] scan.request.compare = "increased" -> Signed(old) < Signed(new)
                  [] scan.request.compare = "decreased" -> Signed(old) > Signed(new)
            Stays(c) ==
                /\ Readable(mem, c.address, size)
                /\ IF scan.request.mode = "fuzzy"
                   THEN Compares(c.bits, ValueAt(c.address, size))
                   ELSE ValueAt(c.address, size) = ReadRawBits(scan.request.pattern)
            stay == SelectSeq(held, Stays)
        IN Concat(SetToSeq(session'.candidates)) =
               [i \in DOMAIN stay |->
                   Candidate(stay[i], ValueAt(stay[i].address, size))]]_vars

TotalProgress ==
    IF First THEN MapThenSumSet(SizeOfRegion, Regions) ELSE TotalEntries

(* The progress of a scan never runs back, though several threads report it, *)
(* and never passes its total.                                               *)
ProgressIsSound ==
    [][scan.stage = "run" => shown <= shown' /\ shown' <= TotalProgress]_vars

(* Every scan comes to its end: cancelled or not, over whatever memory.      *)
EveryScanEnds == ~Idle ~> Idle

(* A pointer scan finds every aligned place of every region that can be read *)
(* and points close enough below the target, each once, the nearest first    *)
(* and those equally near by address, whatever slabs, batches and threads it *)
(* is cut into and wherever a page is missing; and the places it counts are  *)
(* those the progress total was made of.                                     *)
PointerScanExact ==
    scan.scans = 0 =>
        \A p \in PointerRequests :
            LET Close(r, a) ==
                    /\ (a - r.start) % p.alignment = 0
                    /\ a + PointerWidth <= r.end
                    /\ Readable(mem, a, PointerWidth)
                    /\ ValueAt(a, PointerWidth) \in p.target - p.max .. p.target
                Pointer(a) == [address |-> a, base |-> ValueAt(a, PointerWidth),
                               offset |-> p.target - ValueAt(a, PointerWidth)]
                expected == UNION {{Pointer(a) : a \in {x \in r.start .. r.end - 1 : Close(r, x)}} :
                                      r \in Regions}
            IN /\ \A n \in 1 .. HardwareWorkers :
                      LET found == RunPointerScanSync(mem, Layout, n, p)
                      IN /\ {found[i] : i \in DOMAIN found} = expected
                         /\ \A i, j \in DOMAIN found :
                                i < j => \/ found[i].offset < found[j].offset
                                         \/ /\ found[i].offset = found[j].offset
                                            /\ found[i].address < found[j].address
               /\ \A r \in Regions : ScanPointerRegionBuffered(mem, r, p).counted =
                                      ResolvePointerRegionEntryCount(r, p.alignment)

=============================================================================
