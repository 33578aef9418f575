SPECIFICATION Spec
CONSTANTS
    v1 = v1
    v2 = v2
    d1 = d1
    d2 = d2
    Workers = {v1, v2}
    BookCount = 2
    Releases = {d1}
    MaxRuns = 2
    MaxVersions = 0
    MaxDeploys = 0
    MaxCrashes = 0
    MaxLapses = 1
    MaxFaults = 1
PROPERTY RecordsFollowNewestRun
INVARIANT TypeOK
INVARIANT StatusTellsResults
INVARIANT HolderAgrees
INVARIANT CountsExact
PROPERTY RunsAsPromised
PROPERTY DecisionsAreFinal
PROPERTY CancelStopsBooks
SYMMETRY Interchangeable
CHECK_DEADLOCK FALSE
