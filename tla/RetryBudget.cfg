SPECIFICATION Spec
CONSTANTS
    BackoffCap = 5
    Threshold = 3
    UnknownRetry = 6
    MaxEdits = 2
    MaxAnswers = 7
INVARIANTS
    ExhaustedOnlyByUnclassified
PROPERTY
    RetryDelayFitsAttempts
CHECK_DEADLOCK FALSE
