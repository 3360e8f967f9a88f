SPECIFICATION Spec
CONSTANTS
    Caps = {classify, propose}
    MAX_TRACKED_RUNS = 1
    MODEL_MAX_IN_FLIGHT = 1
    MODEL_CALL_TIMEOUT = 3
    RUN_DEADLINE = 3
    MARGIN = 1
    MAX_MODEL_CALLS = 2
    MaxRuns = 4
INVARIANT HardDeadlineNeverFires
CHECK_DEADLOCK FALSE
