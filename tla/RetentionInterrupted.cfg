\* A deletion that is interrupted after its journal is published, and its recovery after the first move.
SPECIFICATION RetentionSpec
CONSTANTS
    PointCount = 2
    Commands = {c1}
    Backups = {k1}
    MaxMade = 2
    MaxTx = 1
    MaxStops = 3
    MaxDrops = 0
INVARIANT RecoveryResumes
CHECK_DEADLOCK FALSE
