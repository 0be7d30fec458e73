CONSTANTS
    Tasks = {t1, t2, t3}
    Labels = {check1, import1}
    Leases = {l1, l2, l3}
    NoObject = NoObject
    NoId = NoId
    MaxMs = 1
SPECIFICATION GateSpec
INVARIANTS
    GateTypeOK
    LeaseExclusion
    NoLostWakeup
PROPERTY
    ImplementsLease
