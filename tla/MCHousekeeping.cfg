SPECIFICATION PartsSpec
CONSTANTS
    a1 = a1
    a2 = a2
    c1 = c1
    k1 = k1
    k2 = k2
    p1 = p1
    p2 = p2
    Parts = {"retention", "durable", "legacy", "jobs", "deck", "folder"}
    PointCount = 2
    Commands = {c1}
    Backups = {k1, k2}
    MaxMade = 3
    MaxTx = 2
    MaxStops = 3
    MaxDrops = 1
    Apps = {a1, a2}
    Books = {1, 2}
    MaxAppCrashes = 2
    MaxLapses = 1
    MaxAudits = 3
    MaxRunFaults = 1
    MaxPosts = 2
    Procs = {p1, p2}
    Observed = {p2}
    Paths = {1, 2}
    LibraryBooks = {9}
    MaxSeen = 1
    MaxJobs = 2
    MaxSeconds = 1
    MaxStops_ = 1
    MaxErrs = 1
    MaxLegacyBooks = 3
    MaxLegacyEnds = 1
    MaxDeckId = 4
    BatchSize = 2
    Limits = {1, 2}
    MaxDeckEdits = 1
    MaxReturns = 1
INVARIANT InterruptionsRecoverable
INVARIANT CompletedMeansSealed
INVARIANT LegacyAccounts
INVARIANT JobsAccounted
INVARIANT CompletedIsJudged
INVARIANT DeckIsExact
PROPERTY OnlyExpiredLeave
PROPERTY SealedStays
SYMMETRY Interchangeable
CHECK_DEADLOCK FALSE
