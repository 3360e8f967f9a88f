SPECIFICATION Spec
CONSTANTS
    w1 = w1
    w2 = w2
    v1 = v1
    b1 = b1
    b2 = b2
    WeekIds = {w1, w2}
    ReviewIds = {v1}
    Bodies = {b1, b2}
    ProposalIds = {p1, p2, p3}
    Blank = Blank
    None = None
    Triage = Triage
    Worlds <- MCWorlds
    Procs = {proc1, proc2}
    MaxPairs = 2
    NoKeys = NoKeys
SYMMETRY Symmetry
INVARIANTS
    KeysAgree
    OverlayMatchesApply
    TaskLinksHold
    RowsWellFormed
PROPERTIES
    HistoryStaysPut
    HumanPlacementWins
    DecidedOnce
    OnlyHumansCommit
CHECK_DEADLOCK FALSE
