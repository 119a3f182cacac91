\* A tab that sends three requests.
CONSTANTS
    Fetches = {1, 2, 3}
    MaxPairs = 3
    MaxFaults = 0

SPECIFICATION SessionSpec
CHECK_DEADLOCK FALSE

INVARIANT RefreshSpentOnce
