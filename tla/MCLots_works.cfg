\* One run with three suppliers, in demo and in production mode; the API process
\* and a worker, two messages in the broker, one retry, one crash.
CONSTANTS
    r1 = r1
    s1 = s1
    s2 = s2
    s3 = s3
    w1 = w1
    m1 = m1
    m2 = m2
    Api = Api
    None = None
    NoMessage = NoMessage
    Runs = {r1}
    Suppliers = {s1, s2, s3}
    Categories = {"mro"}
    AllowedCategories = {"mro"}
    Totals = {3}
    MaxUnregulated = 2
    BuyerLimit = 2
    ResponsePercent = 100
    DemoModes = {TRUE, FALSE}
    Workers = {w1}
    Messages = {m1, m2}
    MaxRetries = 1
    MaxCrashes = 1

SPECIFICATION LotsSpec
CHECK_DEADLOCK FALSE

INVARIANT RegulatoryGate
INVARIANT AuditLagsByOne
PROPERTY ImplementsLifecycle
PROPERTY RunEnds
PROPERTY MessageSettles
PROPERTY StuckIsRunAgain
