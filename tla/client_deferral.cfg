SPECIFICATION Spec
INVARIANTS
    AllowedOnlyIfDone
    FinishedIsAnswered
    AnswerTellsVerdict
    SilentOnceEnded
    ProgressIsShown
    GivenUp
CONSTANTS
    r1 = r1
    r2 = r2
    r3 = r3
    Resource = {r1, r2, r3}
CHECK_DEADLOCK FALSE
