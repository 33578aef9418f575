SPECIFICATION Spec
CONSTANTS
    b1 = b1
    b2 = b2
    w1 = w1
    w2 = w2
    q1 = q1
    q2 = q2
    p1 = p1
    p2 = p2
    r1 = r1
    r2 = r2
    Books = {b1}
    Writers = {w1, w2}
    Requests = {q1}
    Pilots = {p1}
    Releases = {r1}
    PatchOf <- WholePatch
    EditedParts = {}
    LockedParts = {}
    Reviewed = {}
    Budget = 1
    MaxOps = 1
    MaxRuns = 1
    MaxEdits = 0
    MaxCrashes = 0
    MaxLosses = 1
    MaxDeploys = 0
    MaxFaults = 0
PROPERTY SoleWriter
CHECK_DEADLOCK FALSE
