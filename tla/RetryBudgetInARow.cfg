SPECIFICATION Spec
CONSTANTS
    BackoffCap = 5
    Threshold = 3
    UnknownRetry = 6
    MaxEdits = 2
    MaxAnswers = 7
INVARIANT
    ExhaustedMeansInARow
CHECK_DEADLOCK FALSE
