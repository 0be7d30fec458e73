CONSTANTS
    Items = {i1, i2}
    MaxRows = 3
    MaxCrashes = 2
    Requests = {q1}
    ImportJob = ImportJob
    Others = Others
    NoLease = NoLease
    NoItem = NoItem
SPECIFICATION Spec
SYMMETRY Symmetry
INVARIANTS
    RunningIsClaimed
    UploadedOncePerClaim
PROPERTIES
    DuplicatesOnlyByJson
