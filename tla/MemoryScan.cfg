SPECIFICATION FairSpec
CONSTANTS
    Hole = Hole
    ByteBase = 4
    ChunkSize = 4
    SlotChunkSize = 3
    SlabSize = 4
    BatchSize = 2
    BatchesPerWorker = 1
    ReportBatches = 1
    EntryInterval = 4
    WindowGap = 1
    WindowMaxBytes = 4
    HardwareWorkers = 2
    ByteInterval = 3
    RegionInterval = 2
    MaxScans = 3
    MaxMoves = 1
    Layout <- MCLayout
    Memories <- MCMemories
    Moves <- MCMoves
    PointerRequests <- MCPointerRequests
    FirstRequests <- MCFirstRequests
    NextRequests <- MCNextRequests
INVARIANTS
    TypeOK
    PointerScanExact
PROPERTIES
    FirstScanFindsAll
    NextScanExact
    FuzzyRemembersLastValue
    ProgressIsSound
    EveryScanEnds
CHECK_DEADLOCK FALSE
