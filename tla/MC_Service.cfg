CONSTANTS
    Items = {1}
    Slots = {t1}
    MaxConcurrent = 1
    MaxRows = 1
    MaxCrashes = 1
    ImportJob = ImportJob
    Console = Console
    NoLease = NoLease
    NoItem = NoItem
SPECIFICATION Spec
INVARIANT
    OnlyLostJobsOverlap
PROPERTIES
    ImportIsServed
    ChecksSpaced
    DueIsServed
