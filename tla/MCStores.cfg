SPECIFICATION FairStores
CONSTANTS
    k1 = k1
    k2 = k2
    p1 = p1
    p2 = p2
    Contents <- MCContents
    Why = {"low"}
    MaxNumber = 3
    MaxClock = 1
    Processes = {p1, p2}
    Scripts <- MCScripts
    Knows <- MCKnows
    Kernels = {k1, k2}
    Host = p1
    MaxProbes = 2
    MaxDepth = 2
    MaxRows = 2
    MaxCount = 2
    MaxCalls = 4
    MaxEarly = 1
    MaxDeaths = 1
INVARIANTS
    StoresTypeOK
    UndoIsTheLoop
    StoresAgree
    ProbedIdsTaken
    VersionTellsTruth
PROPERTIES
    MemoryIsTransactional
    SqliteIsTransactional
    LandedStays
    FilesOpen
