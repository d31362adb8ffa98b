SPECIFICATION FairSpec
CONSTANTS
    p1 = p1
    Plans = {p1}
    LongPlan = p1
    LongLength = 3
    Length <- MCLength
    TimedSteps <- MCTimedSteps
    MaxParallel = 2
INVARIANTS
    SuccessIsEarned
    OneAtATime
    BooksBalance
PROPERTIES
    CompletedIsFinal
    PlanEnds
CHECK_DEADLOCK FALSE
