\* Two runs of one lot, in demo mode, beside the reviewers; prices around the 5%
\* margin, up to three of them, two shown.
CONSTANTS
    r1 = r1
    r2 = r2
    s1 = s1
    None = None
    Runs = {r1, r2}
    Suppliers = {s1}
    Categories = {"mro"}
    AllowedCategories = {"mro"}
    Totals = {3}
    MaxUnregulated = 2
    BuyerLimit = 2
    ResponsePercent = 66
    DemoModes = {TRUE}
    Nothing = Nothing
    MaxOffers = 3
    Prices = {2000, 2100, 2101, 2150}
    Discounts <- SuggestedDiscounts
    Scores = {0, 30, 120}
    ShownOffers = 2
    Typicals = {2050}

SPECIFICATION RerunsSpec
SYMMETRY Symmetry
CHECK_DEADLOCK FALSE

INVARIANT TypeOK
INVARIANT HumanGate
INVARIANT ReportBacked
INVARIANT HumanFlagAnnounced
INVARIANT FloorKept
INVARIANT DearerNotSpared
INVARIANT PricesTraceable
INVARIANT TopIsBest
