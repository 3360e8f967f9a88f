SPECIFICATION FairSpec
CONSTANTS
    RoutineIds = {}
    OrphanIds = {}
    ReviewIds = {v1, v2}
    Specs = {s1}
    Bodies = {b1, b2}
    Generations <- MixedGrants
    Threshold = 2
    LateEffects = FALSE
    MaxEdits = 6
    MaxFaults = 2
    MaxDrifts = 0
INVARIANTS
    FinalizedReviewIsExported
    RememberedAtMostOnce
PROPERTY
    FinalizedIsRemembered
