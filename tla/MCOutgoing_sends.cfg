\* Three calls to two addresses, two calls a minute; three events for two browsers
\* at two processes, with room for two in a queue.
CONSTANTS
    p1 = p1
    a1 = a1
    noreply = noreply
    None = None
    MaxSends = 3
    Processes = {p1}
    Recipients = {a1, noreply}
    NoReply = noreply
    Limit = 2
    Window = 2
    MaxAttempts = 2
    RetryDelay = 1
    Servers = {"p", "q"}
    Clients = {"c", "d"}
    MaxEvents = 3
    Capacity = 2

SPECIFICATION OutgoingSpec
CHECK_DEADLOCK FALSE

INVARIANT WithinLimit
INVARIANT ReturnedIsKept
INVARIANT GapsAreOverflows
PROPERTY RefusedOnlyIfFull
PROPERTY SendEnds
PROPERTY DeadQueuesGo
