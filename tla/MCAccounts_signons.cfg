\* Three requests to two processes, one OAuth2 sign-on, one loss.
CONSTANTS
    demo = demo
    ann = ann
    r1 = r1
    r2 = r2
    r3 = r3
    s1 = s1
    w1 = w1
    w2 = w2
    None = None
    Requests = {r1, r2, r3}
    Workers = {w1, w2}
    Addresses = {demo, ann}
    Demo = demo
    Providers = {"google", "yandex"}
    States = {s1}
    Names <- SomeNames
    DemoName = "Demo Company"
    Companies = {"Acme"}
    SsoName <- SomeSsoName
    DemoLots = 5
    MaxCrashes = 1

SPECIFICATION AccountsSpec
SYMMETRY Alike
CHECK_DEADLOCK FALSE

INVARIANT OwnersKept
INVARIANT StateSpentOnce
INVARIANT SettledNames
INVARIANT LinksOpen
