\* A decision beside a run that is still going.
CONSTANTS
    r1 = r1
    r2 = r2
    s1 = s1
    s2 = s2
    s3 = s3
    None = None
    Runs = {r1}
    Suppliers = {s1}
    Categories = {"mro"}
    AllowedCategories = {"mro"}
    Totals = {3}
    MaxUnregulated = 2
    BuyerLimit = 2
    ResponsePercent = 66
    DemoModes = {TRUE}

SPECIFICATION Spec
CHECK_DEADLOCK FALSE

PROPERTY DecisionIsFinal
