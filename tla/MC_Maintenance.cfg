CONSTANT MaxDay = 3
SPECIFICATION GuardSpec
INVARIANTS
    SeenDownIsFresh
    LoopAgreesWithSnapshot
    ResumeHolds
