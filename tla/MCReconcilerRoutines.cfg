SPECIFICATION Spec
CONSTANTS
    RoutineIds = {r1, r2}
    OrphanIds = {}
    ReviewIds = {}
    Specs = {s1, s2}
    Bodies = {}
    Generations <- OnlyEverything
    Threshold = 2
    LateEffects = FALSE
    MaxEdits = 3
    MaxFaults = 2
    MaxDrifts = 0
SYMMETRY Alike
INVARIANTS
    NewestRowIsCurrentIntent
    LiveRowIsNewest
    DoneMeansAcked
    SettledMeansMirrored
PROPERTY
    ImplementsIntent
