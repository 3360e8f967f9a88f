SPECIFICATION Spec
CONSTANTS
    None = None
    Triage = Triage
    Filed = Filed
    g1 = g1
    MaxModelCalls = 3
    MaxTaskIds = 2
    Worlds <- MCWorlds
CHECK_DEADLOCK FALSE
INVARIANTS
    VerdictsHeld
    AuditExplains
    NoDirectionMissed
    OneLiveProposal
PROPERTIES
    ReportHonest
