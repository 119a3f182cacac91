\* A tab that sends two requests.
CONSTANTS
    Fetches = {1, 2}
    MaxPairs = 2
    MaxFaults = 1

SPECIFICATION SessionSpec
CHECK_DEADLOCK FALSE

INVARIANT LoginIsOpen
