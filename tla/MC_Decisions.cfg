CONSTANTS
    Trackers = {t1, t2}
    MaxFindings = 1
SYMMETRY TrackerSymmetry
SPECIFICATION Spec
INVARIANTS
    CandidateIsSound
    CandidateFollowsPolicy
    UploadIsAllowed
PROPERTIES
    ModeratedIsRestored
