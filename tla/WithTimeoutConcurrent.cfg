\* A concurrent.futures.Future that completes while the caller waits.
SPECIFICATION FairSpec
CONSTANTS
    Call = {c1}
    Kinds = {"concurrent"}
    Outcome = {"value"}
    CallerCancels = FALSE
PROPERTIES CallerAnswered
CHECK_DEADLOCK FALSE
