CONSTANTS
    Browsers = {b1, b2}
    Home = {b1}
    Lanes = {l1, l2}
    Nobody = Nobody
    Ttl = 2
    OldTtl = 1
    MaxTime = 2
    MaxSessions = 2
    MaxChanges = 1
    MaxCrashes = 1
SPECIFICATION Spec
SYMMETRY Symmetry
INVARIANTS
    OldCredentialsAreOut
PROPERTIES
    EndedStaysEnded
    SigningOutHolds
