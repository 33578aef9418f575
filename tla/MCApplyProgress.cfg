SPECIFICATION ScopedFairSpec
CONSTANTS
    b1 = b1
    b2 = b2
    w1 = w1
    w2 = w2
    q1 = q1
    q2 = q2
    p1 = p1
    p2 = p2
    r1 = r1
    r2 = r2
    Books = {b1}
    Writers = {w1}
    Requests = {q1}
    Pilots = {p1}
    Releases = {r1}
    PatchOf <- TextPatch
    EditedParts = {}
    LockedParts = {"custom"}
    Reviewed = {b1}
    Budget = 1
    MaxOps = 2
    MaxRuns = 2
    MaxEdits = 0
    MaxCrashes = 1
    MaxLosses = 0
    MaxDeploys = 0
    MaxFaults = 1
    Scopes = {"reviews", "failures"}
PROPERTY RevokedNeverWrites
PROPERTY LifecyclePromise
PROPERTY WritingResolves
PROPERTY RequestsResolve
CHECK_DEADLOCK FALSE
