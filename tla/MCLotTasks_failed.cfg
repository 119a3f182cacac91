\* A message that uses up its retries.
CONSTANTS
    w1 = w1
    w2 = w2
    m1 = m1
    m2 = m2
    Api = Api
    NoMessage = NoMessage
    Workers = {w1, w2}
    Messages = {m1, m2}
    MaxRetries = 1
    MaxCrashes = 1

SPECIFICATION TasksSpec
CHECK_DEADLOCK FALSE

PROPERTY GivenUpIsMarked
