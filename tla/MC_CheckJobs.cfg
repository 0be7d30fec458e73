CONSTANTS
    Items = {1, 2}
    Slots = {t1, t2}
    MaxConcurrent = 2
    MaxCrashes = 1
    Others = Others
    NoLease = NoLease
SPECIFICATION Spec
SYMMETRY Symmetry
INVARIANTS
    RunningJobsExact
    CheckingIsLive
PROPERTY
    UserDecisionStands
