------------------------------ MODULE ScanRules ------------------------------
(***************************************************************************)
(* What the scans of the memory tool read, compare and cut into pieces:    *)
(* memory_tool_scanner.cpp, and the parts of memory_tool_reader.cpp,       *)
(* memory_tool_value.cpp and memory_tool_engine.cpp they rest on.  No      *)
(* state: MemoryScan gives these operators threads and a session.          *)
(*                                                                         *)
(* Memory is a function from addresses to bytes; a Hole, like an address   *)
(* outside the function, cannot be read.  A byte is 0 .. ByteBase - 1 and  *)
(* the integer types are "i8" (one byte) and "i16" (two): the widths of    *)
(* the code with a smaller byte; "bytes" is a pattern of any length, which *)
(* may begin anywhere.  All values are little-endian.                      *)
(* Indexes and offsets count from 0, as in the code.                       *)
(***************************************************************************)
EXTENDS Integers, Sequences, SequencesExt, FiniteSetsExt, Bitwise

CONSTANTS
    Hole,             \* what stands in memory where nothing can be read
    ByteBase,         \* 256, scaled down
    ChunkSize,        \* kChunkSize: what a first scan reads at once
    SlotChunkSize,    \* kFuzzyInitialChunkSize
    SlabSize,         \* kPointerScanSlabBytes
    BatchSize,        \* kNextScanBatchSize: what a next scan takes at once
    BatchesPerWorker, \* the 4 batches for which another thread is worth it
    ReportBatches,    \* kInitialNextScanReportBatches
    EntryInterval,    \* kProgressEntryInterval
    WindowGap,        \* kFuzzyCandidateWindowGap
    WindowMaxBytes,   \* kFuzzyCandidateWindowMaxBytes
    HardwareWorkers   \* what the machine and kMaxScanWorkers allow

ASSUME RuleConstants ==
    /\ {ByteBase, ChunkSize, SlotChunkSize, SlabSize, BatchSize, BatchesPerWorker,
        ReportBatches, EntryInterval, HardwareWorkers} \subseteq Nat \ {0}
    /\ {WindowGap, WindowMaxBytes} \subseteq Nat

-----------------------------------------------------------------------------
(* Reading and values. *)

Readable(mem, address, size) ==
    \A a \in address .. address + size - 1 : a \in DOMAIN mem /\ mem[a] # Hole

Bytes(mem, address, size) == [i \in 1 .. size |-> mem[address + i - 1]]

(* A read gives all of the bytes or nothing. *)
Read(mem, address, size) ==
    IF Readable(mem, address, size) THEN {Bytes(mem, address, size)} ELSE {}

(* The kernel reads a list of places up to the first it cannot read; the rest  *)
(* is read one by one.  These are the indexes that have a value.               *)
FlatWithoutFallback(mem, addresses, size) ==
    1 .. Max({k \in 0 .. Len(addresses) :
                  \A i \in 1 .. k : Readable(mem, addresses[i], size)})
ReadManyFlat(mem, addresses, size) ==
    LET completed == Max({k \in 0 .. Len(addresses) :
                              \A i \in 1 .. k : Readable(mem, addresses[i], size)})
    IN (1 .. completed) \cup
       {i \in completed + 1 .. Len(addresses) : Readable(mem, addresses[i], size)}

ReadRawBits(bytes) == FoldRight(LAMBDA b, bits : b + ByteBase * bits, bytes, 0)

SizeOf(type) == IF type = "i16" THEN 2 ELSE 1

ResolveStep(type) == IF type = "i16" THEN 2 ELSE 1

Encode(value, size) ==
    [i \in 1 .. size |-> (value \div ByteBase ^ (i - 1)) % ByteBase]

DecodeScalarBits(bits, size) ==
    IF 2 * bits >= ByteBase ^ size THEN bits - ByteBase ^ size ELSE bits

Fits(value, size) ==
    /\ -(ByteBase ^ size) <= 2 * value
    /\ 2 * value < ByteBase ^ size

(* The types into which the value fits, in the order in which they are sought. *)
BuildAutoSearchPlan(value) ==
    LET types == SelectSeq(<<"i16", "i8">>, LAMBDA t : Fits(value, SizeOf(t)))
    IN [i \in DOMAIN types |->
            [type |-> types[i], pattern |-> Encode(value, SizeOf(types[i]))]]

MatchesFuzzyCompare(previous, current, size, compare) ==
    CASE compare = "unknown"   -> TRUE
      [] compare = "unchanged" -> previous = current
      [] compare = "changed"   -> previous # current
      [] compare = "increased" ->
             DecodeScalarBits(current, size) > DecodeScalarBits(previous, size)
      [] compare = "decreased" ->
             DecodeScalarBits(current, size) < DecodeScalarBits(previous, size)

-----------------------------------------------------------------------------
(* Looking for a pattern in what has been read. *)

IsPatternMatch(buffer, index, pattern) ==
    SubSeq(buffer, index + 1, index + Len(pattern)) = pattern

ScanChunkForPattern(buffer, pattern, step, limit) ==
    SelectSeq([i \in 1 .. limit |-> i - 1],
              LAMBDA i : i % step = 0 /\ IsPatternMatch(buffer, i, pattern))

XorSize == SizeOf("i16")

XorMatches(bits, address, target) ==
    bits ^^ (address % ByteBase ^ XorSize) = target

ScanChunkForXorPattern(buffer, target, base, limit) ==
    SelectSeq([i \in 1 .. Min({limit, Len(buffer) - XorSize + 1}) |-> i - 1],
              LAMBDA i : /\ i % XorSize = 0
                         /\ XorMatches(ReadRawBits(SubSeq(buffer, i + 1, i + XorSize)),
                                       base + i, target))

SortResultsByAddress(results) ==
    SortSeq(results, LAMBDA left, right : left.address < right.address)

(* The elements of a sequence at the indexes that pass a test. *)
Keep(entries, Test(_)) ==
    LET kept == SelectSeq([i \in DOMAIN entries |-> i], Test)
    IN [k \in DOMAIN kept |-> entries[kept[k]]]

(* The entry that was appended first keeps the address. *)
DeduplicateResultsByAddress(results) ==
    Keep(results, LAMBDA i : \A j \in 1 .. i - 1 : results[j].address # results[i].address)

FinalizeKeepsLast(results) ==
    SortResultsByAddress(DeduplicateResultsByAddress(Reverse(results)))
FinalizeMultiTypeFirstScan(results) ==
    SortResultsByAddress(DeduplicateResultsByAddress(results))

-----------------------------------------------------------------------------
(* Groups: an anchor, and items at a given offset or after what precedes them. *)

ResolveGroupReadSize(plan) ==
    plan.window + Max({Len(plan.items[i].pattern) : i \in DOMAIN plan.items})

(* The first occurrence between two offsets, if there is one. *)
FindPatternInGroupWindow(buffer, pattern, start, maxStart) ==
    LET end   == Min({maxStart, Max({Len(buffer) - Len(pattern), 0})})
        found == {i \in start .. end : IsPatternMatch(buffer, i, pattern)}
    IN IF found = {} THEN {} ELSE {Min(found)}

CursorResets(items, f, i) == f[i - 1] + Len(items[i - 1].pattern)
Cursor(items, f, i) == Max({f[j] + Len(items[j].pattern) : j \in 1 .. i - 1})

(* The offsets of the items, if all of them are found: each stands where it  *)
(* is fixed, or at the first place behind all that precede it.               *)
ResolveGroupMatchOffsets(buffer, plan) ==
    LET items == plan.items
        Fixed(o, item) == /\ o = item.offset
                          /\ o + Len(item.pattern) <= Len(buffer)
                          /\ IsPatternMatch(buffer, o, item.pattern)
        Placed(f, i) ==
            IF i = 1 THEN f[i] = 0 /\ IsPatternMatch(buffer, 0, items[i].pattern)
            ELSE IF items[i].fixed THEN Fixed(f[i], items[i])
            ELSE f[i] \in FindPatternInGroupWindow(buffer, items[i].pattern,
                                                  Cursor(items, f, i), plan.window)
    IN {f \in [DOMAIN items -> 0 .. plan.window] : \A i \in DOMAIN items : Placed(f, i)}

ReadAndResolveGroupAnchor(mem, address, plan) ==
    UNION {ResolveGroupMatchOffsets(buffer, plan) :
               buffer \in Read(mem, address, ResolveGroupReadSize(plan))}

(* One entry per item, by address. *)
AppendGroupDisplayEntries(entry, plan, offsets) ==
    SortResultsByAddress(
        [i \in DOMAIN offsets |->
            [address |-> entry.address + offsets[i], region |-> entry.region,
             type |-> plan.items[i].type, anchor |-> entry.address]])

ResolveGroup(mem, entry, plan) ==
    LET found == {AppendGroupDisplayEntries(entry, plan, offsets) :
                      offsets \in ReadAndResolveGroupAnchor(mem, entry.address, plan)}
    IN IF found = {} THEN <<>> ELSE CHOOSE entries \in found : TRUE

CollectGroupAnchorResults(results) ==
    DeduplicateResultsByAddress(
        [i \in DOMAIN results |->
            [results[i] EXCEPT !.address = IF results[i].anchor = 0 THEN @
                                           ELSE results[i].anchor,
                               !.anchor = 0]])

-----------------------------------------------------------------------------
(* Cutting the work into pieces. *)

SizeOfRegion(region) == region.end - region.start

(* Whole regions, in order, to one thread until it has its share of the bytes. *)
PartitionRegionsForWorkers(regions, workers) ==
    LET total  == MapThenSumSet(LAMBDA i : SizeOfRegion(regions[i]), DOMAIN regions)
        target == Max({1, total \div workers})
        Deal(state, i) ==
            LET bytes   == state.bytes + SizeOfRegion(regions[i])
                advance == /\ state.bucket < workers
                           /\ bytes >= target
                           /\ Len(regions) - i >= workers - state.bucket
            IN [buckets |-> [state.buckets EXCEPT ![state.bucket] = Append(@, regions[i])],
                bucket  |-> IF advance THEN state.bucket + 1 ELSE state.bucket,
                bytes   |-> IF advance THEN 0 ELSE bytes]
    IN IF workers <= 1 THEN <<regions>>
       ELSE FoldLeft(Deal,
                     [buckets |-> [w \in 1 .. workers |-> <<>>], bucket |-> 1, bytes |-> 0],
                     [i \in DOMAIN regions |-> i]).buckets

ResolveFirstScanWorkerCount(regions) ==
    IF regions <= 1 THEN regions ELSE Min({regions, HardwareWorkers})

ResolveNextScanWorkerCount(entries) ==
    LET share == BatchSize * BatchesPerWorker
    IN IF entries <= BatchSize THEN 1
       ELSE Min({HardwareWorkers, (entries + share - 1) \div share})

PartitionIndexRanges(items, workers) ==
    LET count    == Min({items, workers})
        base     == items \div count
        Start(w) == w * base + Min({w, items % count})
    IN IF count = 0 THEN <<>>
       ELSE [w \in 1 .. count |-> [start |-> Start(w - 1), end |-> Start(w)]]

(* A window is read at once: from one entry to the last entry near enough. *)
WindowEnd(entries, start, end, size) ==
    LET At(i)     == entries[i + 1]
        Covered(j) == Max({At(i).address + size : i \in start .. j - 1})
        Breaks(j) == \/ At(j).region # At(start).region
                     \/ At(j).address < At(start).address
                     \/ At(j).address - Covered(j) > WindowGap
                     \/ At(j).address + size - At(start).address > WindowMaxBytes
    IN Min({j \in start + 1 .. end - 1 : Breaks(j)} \cup {end})

(* The values of the entries of one window: read at once, or else one by one. *)
ReadWindow(mem, window, size) ==
    LET first  == window[1].address
        span   == window[Len(window)].address + size - first
        buffer == Bytes(mem, first, span)
        At(i)  == window[i].address - first
    IN [i \in DOMAIN window |->
            IF Readable(mem, first, span)
            THEN {ReadRawBits(SubSeq(buffer, At(i) + 1, At(i) + size))}
            ELSE IF Readable(mem, window[i].address, size)
                 THEN {ReadRawBits(Bytes(mem, window[i].address, size))}
                 ELSE {}]

ShouldReportNextScanProgress(processed, just, rangeEnd, currentEnd) ==
    /\ processed # 0
    /\ \/ currentEnd = rangeEnd
       \/ processed <= BatchSize * ReportBatches
       \/ processed % EntryInterval < just

ResolveFuzzySlotCount(bytes, size, step) ==
    IF bytes < size THEN 0 ELSE 1 + (bytes - size) \div step

ResolveFuzzySnapshotByteCount(slots, size, step) ==
    IF slots = 0 THEN 0 ELSE size + (slots - 1) * step

ResolveFuzzyInitialChunkSlotCount(size, step) ==
    IF SlotChunkSize <= size THEN 1 ELSE 1 + (SlotChunkSize - size) \div step

=============================================================================
