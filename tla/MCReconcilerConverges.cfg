SPECIFICATION FairSpec
CONSTANTS
    RoutineIds = {r1}
    OrphanIds = {o1}
    ReviewIds = {}
    Specs = {s1}
    Bodies = {}
    Generations <- OnlyEverything
    Threshold = 1
    LateEffects = TRUE
    MaxEdits = 2
    MaxFaults = 1
    MaxDrifts = 2
PROPERTY
    EventuallyMirrored
    EventuallyNoticed
