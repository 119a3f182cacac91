\* Three starts, two at a time; two questions to three providers; three callers of
\* the breaker; a tab that sends three requests; a reader of three lots on pages of
\* two.
CONSTANTS
    None = None
    MaxStarts = 3
    MaxAtOnce = 2
    Items = 1
    MaxAccidents = 1
    t1 = t1
    t2 = t2
    Unanswered = Unanswered
    Never = Never
    Calls = {1, 2}
    Providers = {"fake", "yandex", "gigachat"}
    Kinds = {"INN", "EMAIL"}
    Prompts <- SomePrompts
    Texts = {t1, t2}
    MaxReply = 1
    MaxRetries = 2
    Callers = {1, 2, 3}
    Threshold = 2
    Window = 3
    OpenDuration = 1
    MaxTime = 6
    Fetches = {1, 2, 3}
    MaxPairs = 3
    MaxFaults = 1
    Absent = Absent
    Readers = {"reader"}
    Customers = {"acme", "sibur"}
    Statuses = {"draft", "approved"}
    Filters = {Absent, "draft"}
    MaxQueries = 2
    MaxLots = 3
    MaxUpdates = 1
    PageSize = 2

SPECIFICATION MemorySpec
CHECK_DEADLOCK FALSE

INVARIANT RestartAddsNothing
INVARIANT PlannerCanMatch
INVARIANT PersonalDataKept
INVARIANT VerifierApart
INVARIANT SessionLasts
INVARIANT OutUnlessRenewing
INVARIANT WalkShowsAll
PROPERTY TenantsAgree
PROPERTY CoolsDown
