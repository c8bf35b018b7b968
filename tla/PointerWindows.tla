---------------------------- MODULE PointerWindows ----------------------------
(***************************************************************************)
(* How a pointer scan goes through memory (memory_tool_engine.cpp): slabs  *)
(* of a region read at once, and place by place where a slab cannot be     *)
(* read.  PointerTask has the threads and the task; here is what a scan    *)
(* finds and what it counts, as a function of memory.                      *)
(*                                                                         *)
(* A request p is [target, max, alignment]; a result is                    *)
(* [address, base, offset].                                                *)
(***************************************************************************)
EXTENDS ScanRules

PointerWidth == SizeOf("i16")

ResolvePointerRegionEntryCount(region, alignment) ==
    IF SizeOfRegion(region) < PointerWidth THEN 0
    ELSE (SizeOfRegion(region) - PointerWidth) \div alignment + 1

(* The first place at or after one that is aligned within its region. *)
AlignUp(region, start, alignment) ==
    LET misalignment == (start - region.start) % alignment
    IN IF misalignment = 0 THEN start ELSE start + alignment - misalignment

RangeCountsFromStart(region, start, bytes, alignment) ==
    IF bytes = 0 THEN 0 ELSE 1 + (bytes - 1) \div alignment
ResolvePointerRangeEntryCount(region, start, bytes, alignment) ==
    LET first == AlignUp(region, start, alignment)
        end   == start + bytes
    IN IF bytes = 0 \/ first >= end THEN 0 ELSE 1 + (end - 1 - first) \div alignment

Places(region, start, end, alignment) ==
    LET first == AlignUp(region, start, alignment)
    IN [i \in 1 .. (end - first + alignment - 1) \div alignment |->
            first + (i - 1) * alignment]

(* What the pointers at some places give that points close below the target. *)
PointersAt(m, places, p) ==
    LET Base(a) == ReadRawBits(Bytes(m, a, PointerWidth))
        close   == SelectSeq(places, LAMBDA a : Base(a) \in p.target - p.max .. p.target)
    IN [i \in DOMAIN close |-> [address |-> close[i], base |-> Base(close[i]),
                                offset |-> p.target - Base(close[i])]]

(* The places of a window, read in batches; what cannot be read is passed    *)
(* over, yet counted.                                                        *)
ScanPointerWindowDiscreteFallback(m, region, start, bytes, p) ==
    LET end    == Min({start + bytes, region.end - PointerWidth + 1})
        places == IF AlignUp(region, start, p.alignment) >= end THEN <<>>
                  ELSE Places(region, start, end, p.alignment)
        Batch(b) == SubSeq(places, b * BatchSize + 1, Min({(b + 1) * BatchSize, Len(places)}))
        HasValue(batch) == LET read == ReadManyFlat(m, batch, PointerWidth)
                       IN Keep(batch, LAMBDA i : i \in read)
        batches == [b \in 1 .. (Len(places) + BatchSize - 1) \div BatchSize |-> Batch(b - 1)]
    IN [found   |-> FoldLeft(LAMBDA all, batch : all \o PointersAt(m, HasValue(batch), p),
                             <<>>, batches),
        counted |-> Len(places)]

(* One slab: its places, and the bytes after it that the last may reach. *)
ScanPointerSlab(m, region, start, p) ==
    LET last  == region.end - PointerWidth + 1
        bytes == Min({SlabSize, last - start})
        size  == Min({bytes + PointerWidth - 1, region.end - start})
    IN IF ~Readable(m, start, size)
       THEN ScanPointerWindowDiscreteFallback(m, region, start, bytes, p)
       ELSE [found   |-> IF AlignUp(region, start, p.alignment) >= start + bytes THEN <<>>
                         ELSE PointersAt(m, Places(region, start, start + bytes, p.alignment), p),
             counted |-> ResolvePointerRangeEntryCount(region, start, bytes, p.alignment)]

ScanPointerRegionBuffered(m, region, p) ==
    LET candidates == Max({0, SizeOfRegion(region) - PointerWidth + 1})
        slabs == [i \in 1 .. (candidates + SlabSize - 1) \div SlabSize |->
                     ScanPointerSlab(m, region, region.start + (i - 1) * SlabSize, p)]
    IN [found   |-> FoldLeft(LAMBDA all, s : all \o s.found, <<>>, slabs),
        counted |-> FoldLeft(LAMBDA sum, s : sum + s.counted, 0, slabs)]

(* Results are put in order by offset, and by place where offsets are equal. *)
NearerByPlace(left, right) == left.address < right.address
Nearer(left, right) ==
    \/ left.offset < right.offset
    \/ left.offset = right.offset /\ left.address < right.address

(* The regions dealt out to threads, the parts put together, and sorted. *)
RunPointerScanSync(m, regions, workers, p) ==
    SortSeq(FoldLeft(LAMBDA all, bucket :
                         FoldLeft(LAMBDA found, region :
                                      found \o ScanPointerRegionBuffered(m, region, p).found,
                                  all, bucket),
                     <<>>, PartitionRegionsForWorkers(regions, workers)),
            Nearer)

===============================================================================
