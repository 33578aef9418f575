SPECIFICATION PartsSpec
CONSTANTS
    f1 = f1
    f2 = f2
    db = db
    i1 = i1
    i2 = i2
    Parts = {"verdict", "evidence", "snapshot"}
    MaxFieldsWithData = 2
    MaxWitnessed = 1
    Isbns = {i1, i2}
    Kinds = {"EPUB", "PDF", "CBZ", "TXT"}
    MaxFormats = 2
    MaxFileEdits = 1
    MaxImages = 1
    Files = {f1, f2}
    Db = db
    MaxVersion = 2
INVARIANT PatchIsDeterministic
INVARIANT AutoApplyHarmless
INVARIANT WitnessesNeverPromote
INVARIANT PatchCorroborated
INVARIANT EvidenceOfRecordedBytes
INVARIANT EgressAccounted
INVARIANT InventoryIsOneMoment
INVARIANT PackageIsOneMoment
SYMMETRY Interchangeable
CHECK_DEADLOCK FALSE
