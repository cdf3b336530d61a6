\* Two calls on one Future, asyncio or concurrent, that ends in any way or
\* never; callers may be cancelled.
SPECIFICATION FairSpec
CONSTANTS
    Call = {c1, c2}
    Kinds = {"asyncio", "concurrent"}
    Outcome = {"value", "error", "cancelled"}
    CallerCancels = TRUE
INVARIANTS ResultFaithful NoInvalidState
PROPERTIES TimeoutBounds
CHECK_DEADLOCK FALSE
