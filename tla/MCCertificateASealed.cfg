SPECIFICATION Spec
CONSTANTS
    v1 = v1
    v2 = v2
    d1 = d1
    d2 = d2
    Workers = {v1}
    BookCount = 1
    Releases = {d1}
    MaxRuns = 1
    MaxVersions = 0
    MaxDeploys = 0
    MaxCrashes = 2
    MaxLapses = 0
    MaxFaults = 1
INVARIANT CompletedIsSealed
CHECK_DEADLOCK FALSE
