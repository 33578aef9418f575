SPECIFICATION FairSpec
CONSTANTS
    v1 = v1
    v2 = v2
    d1 = d1
    d2 = d2
    Workers = {v1, v2}
    BookCount = 1
    Releases = {d1, d2}
    MaxRuns = 1
    MaxVersions = 1
    MaxDeploys = 1
    MaxCrashes = 1
    MaxLapses = 0
    MaxFaults = 1
PROPERTY RunsEnd
INVARIANT EvidenceIsOfFrozenSource
CHECK_DEADLOCK FALSE
