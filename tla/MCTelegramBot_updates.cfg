\* Two messages and one loss, switch or late answer, or one message and two.
CONSTANTS
    None = None
    MaxUpdates = 2
    MaxEvents = 3
    Asks <- SomeAsks

SPECIFICATION Spec
CHECK_DEADLOCK FALSE

INVARIANT NothingDropped
INVARIANT AppliedAsTold
PROPERTY UpdateSettles
