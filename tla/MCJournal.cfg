SPECIFICATION Spec
CONSTANTS
    MustDo = 1
    Routines = {r1, r2}
    ReviewRoutines = {r1}
    FireIds = {f1, f2}
    Texts <- Typed
    Minutes = {1}
    None = None
    MaxNarrativeChars = 3
    a1 = a1
    Worlds <- MCWorlds
SYMMETRY FireSymmetry
CHECK_DEADLOCK FALSE
INVARIANTS
    AttentionAgrees
    FiredOnce
    NarrativeIsHonest
    LogIsTheRecord
PROPERTIES
    CalendarRight
    AutoDraftIsRewritable
    HumanTextKept
