------------------------------ MODULE ScanSteps ------------------------------
(***************************************************************************)
(* One step of each scan of memory_tool_scanner.cpp: what a thread keeps   *)
(* of one chunk of a region, of one batch of earlier results, or of one    *)
(* window of fuzzy candidates.  A first scan reads memory m through its    *)
(* regions; a next scan reads the places of an earlier result.             *)
(*                                                                         *)
(* An entry of a result is [address, region, type, anchor]; the anchor is  *)
(* 0 unless the entry belongs to a group.  A fuzzy candidate is            *)
(* [address, region, bits], a snapshot of a region [region, slots, bytes]. *)
(***************************************************************************)
EXTENDS ScanRules

Entry(address, region, type) ==
    [address |-> address, region |-> region.start, type |-> type, anchor |-> 0]

Candidate(entry, bits) ==
    [address |-> entry.address, region |-> entry.region, bits |-> bits]

-----------------------------------------------------------------------------
(* First scans: one chunk.  A chunk is read together with what a value that  *)
(* begins in it may occupy of the next; if any of it cannot be read, or it   *)
(* is too short for the value, the whole chunk is passed over, uncounted.    *)

BaseReadSize(region, cursor) == Min({ChunkSize, region.end - cursor})

ReadsNoOverlap(m, region, cursor, size) ==
    LET read == BaseReadSize(region, cursor)
    IN IF Readable(m, cursor, read) THEN Bytes(m, cursor, read) ELSE <<>>
ReadChunk(m, region, cursor, size) ==
    LET read == Min({region.end - cursor, BaseReadSize(region, cursor) + size - 1})
    IN IF Readable(m, cursor, read) THEN Bytes(m, cursor, read) ELSE <<>>

ChunkResult(region, cursor, type, indexes) ==
    [i \in DOMAIN indexes |-> Entry(cursor + indexes[i], region, type)]

ScanVariant(buffer, region, cursor, type, pattern) ==
    ChunkResult(region, cursor, type,
        ScanChunkForPattern(buffer, pattern, ResolveStep(type),
            Min({BaseReadSize(region, cursor), Len(buffer) - Len(pattern) + 1})))

(* What a first scan counts of a chunk: nothing, if it is passed over. *)
CountedBytes(m, region, cursor, overlapping, least) ==
    IF Len(ReadChunk(m, region, cursor, overlapping)) < least THEN 0
    ELSE BaseReadSize(region, cursor)

FirstScanChunk(m, region, cursor, type, pattern) ==
    LET buffer == ReadChunk(m, region, cursor, Len(pattern))
    IN IF Len(buffer) < Len(pattern) THEN <<>>
       ELSE ScanVariant(buffer, region, cursor, type, pattern)

LongestPattern(variants) == Max({Len(variants[v].pattern) : v \in DOMAIN variants})

(* Every variant is looked for in what the longest of them made necessary. *)
FirstScanMultiTypeChunk(m, region, cursor, variants) ==
    LET buffer == ReadChunk(m, region, cursor, LongestPattern(variants))
    IN FoldLeft(LAMBDA found, v :
                    IF Len(buffer) < Len(v.pattern) THEN found
                    ELSE found \o ScanVariant(buffer, region, cursor, v.type, v.pattern),
                <<>>, variants)

FirstScanXorChunk(m, region, cursor, target) ==
    LET buffer == ReadChunk(m, region, cursor, XorSize)
    IN IF Len(buffer) < XorSize THEN <<>>
       ELSE ChunkResult(region, cursor, "i16",
                ScanChunkForXorPattern(buffer, target, cursor,
                    Min({BaseReadSize(region, cursor), Len(buffer) - XorSize + 1})))

(* The anchors that have the rest of their group become its entries. *)
FirstScanGroup(m, anchors, request) ==
    FoldLeft(LAMBDA found, anchor : found \o ResolveGroup(m, anchor, request.plan),
             <<>>, anchors)

SnapshotBytes(region, type) ==
    LET step == ResolveStep(type)
    IN ResolveFuzzySnapshotByteCount(
           ResolveFuzzySlotCount(SizeOfRegion(region), SizeOf(type), step), SizeOf(type), step)

(* A region is remembered whole, or with no slot at all. *)
FirstScanFuzzy(m, region, type) ==
    LET bytes == SnapshotBytes(region, type)
    IN IF Readable(m, region.start, bytes)
       THEN [region |-> region.start,
             slots  |-> ResolveFuzzySlotCount(SizeOfRegion(region), SizeOf(type),
                                              ResolveStep(type)),
             bytes  |-> Bytes(m, region.start, bytes)]
       ELSE [region |-> region.start, slots |-> 0, bytes |-> <<>>]

-----------------------------------------------------------------------------
(* Next scans of a list of results: one batch. *)

AddressesOf(entries) == [i \in DOMAIN entries |-> entries[i].address]

NextScanBatch(m, entries, request) ==
    LET size == Len(request.pattern)
        read == ReadManyFlat(m, AddressesOf(entries), size)
    IN Keep(entries, LAMBDA i : /\ i \in read
                                /\ Bytes(m, entries[i].address, size) = request.pattern)

(* An entry whose type has no variant in the new request is dropped. *)
NextScanMultiTypeBatch(m, entries, request) ==
    LET Matches(entry, variant) ==
            /\ variant.type = entry.type
            /\ Readable(m, entry.address, Len(variant.pattern))
            /\ Bytes(m, entry.address, Len(variant.pattern)) = variant.pattern
    IN SelectSeq(entries, LAMBDA e :
           \E v \in DOMAIN request.variants : Matches(e, request.variants[v]))

NextScanXorBatch(m, entries, request) ==
    SelectSeq(entries, LAMBDA e :
        /\ Readable(m, e.address, XorSize)
        /\ XorMatches(ReadRawBits(Bytes(m, e.address, XorSize)), e.address, request.target))

NextScanGroupBatch(m, entries, request) ==
    FoldLeft(LAMBDA found, anchor : found \o ResolveGroup(m, anchor, request.plan),
             <<>>, entries)

-----------------------------------------------------------------------------
(* Next scans of fuzzy candidates: one window.  What is kept carries the     *)
(* value that was read, for the next comparison.                             *)

KeepRead(window, values, Test(_, _)) ==
    LET Passes(i) == \E bits \in values[i] : Test(window[i], bits)
        read == [i \in DOMAIN window |->
                    Candidate(window[i], IF values[i] = {} THEN 0 ELSE Min(values[i]))]
    IN Keep(read, Passes)

NextScanFuzzyKeepsOldBits(m, window, request) ==
    LET size   == SizeOf(request.type)
        values == ReadWindow(m, window, size)
    IN Keep(window, LAMBDA i : \E bits \in values[i] :
           MatchesFuzzyCompare(window[i].bits, bits, size, request.compare))
NextScanFuzzyWindow(m, window, request) ==
    LET size == SizeOf(request.type)
    IN KeepRead(window, ReadWindow(m, window, size),
                LAMBDA c, bits : MatchesFuzzyCompare(c.bits, bits, size, request.compare))

NextScanFuzzyExactWindow(m, window, request) ==
    KeepRead(window, ReadWindow(m, window, SizeOf(request.type)),
             LAMBDA c, bits : bits = ReadRawBits(request.pattern))

(* The results of an exact scan all had the value that was looked for. *)
SeedFuzzyWindow(m, window, previous, request) ==
    LET size == SizeOf(request.type)
    IN KeepRead(window, ReadWindow(m, window, size),
                LAMBDA e, bits : MatchesFuzzyCompare(ReadRawBits(previous), bits, size,
                                                     request.compare))

(* The slots of a snapshot from one index up to another, as candidates. *)
SlotsOf(snapshot, from, to, type) ==
    [i \in 1 .. to - from |->
        LET offset == (from + i - 1) * ResolveStep(type)
        IN [address |-> snapshot.region + offset, region |-> snapshot.region,
            bits |-> ReadRawBits(SubSeq(snapshot.bytes, offset + 1, offset + SizeOf(type)))]]

NextScanFuzzyFromInitialChunk(m, snapshot, from, to, request) ==
    NextScanFuzzyWindow(m, SlotsOf(snapshot, from, to, request.type), request)

NextScanFuzzyExactFromInitialChunk(m, snapshot, from, to, request) ==
    NextScanFuzzyExactWindow(m, SlotsOf(snapshot, from, to, request.type), request)

=============================================================================
