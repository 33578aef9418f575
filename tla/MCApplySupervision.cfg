SPECIFICATION Spec
CONSTANTS
    b1 = b1
    b2 = b2
    w1 = w1
    w2 = w2
    q1 = q1
    q2 = q2
    p1 = p1
    p2 = p2
    r1 = r1
    r2 = r2
    Books = {b1, b2}
    Writers = {w1}
    Requests = {q1, q2}
    Pilots = {p1, p2}
    Releases = {r1}
    PatchOf <- PlainPatch
    EditedParts = {}
    LockedParts = {}
    Reviewed = {}
    Budget = 2
    MaxOps = 3
    MaxRuns = 1
    MaxEdits = 0
    MaxCrashes = 1
    MaxLosses = 0
    MaxDeploys = 1
    MaxFaults = 0
PROPERTY IncidentBlocksReservations
INVARIANT SingleApply
INVARIANT BudgetExact
SYMMETRY Interchangeable
ACTION_CONSTRAINT CrashAndRedeployment
CHECK_DEADLOCK FALSE
