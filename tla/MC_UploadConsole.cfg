CONSTANTS
    Sessions = {s1, s2}
    Kills = {k1, k2}
    Watchers = {w1}
    NoSession = NoSession
    Others = Others
    NoLease = NoLease
    MaxOutput = 1
    MaxReplay = 2
SPECIFICATION Spec
INVARIANTS
    LeaseWhileUnfinished
    OutputInOrder
    WatcherReachesEnd
PROPERTIES
    LeaseReturned
