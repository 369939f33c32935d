SPECIFICATION FairSpec
CONSTANTS
    None = None
    bundle = bundle
    scan = scan
    mixed = mixed
    broken = broken
    logo = logo
    n1 = n1
    n2 = n2
    acme = acme
    TolAbs = 5
    TolPct = 1
    Threshold = 75
    BaseCurrency = "GBP"
    MonthFirst = {"USD", "CAD"}
    Texts = {n1, n2}
    Contents <- MCContents
    Selections <- MCSelections
    Extractions <- MCExtractions
    Rates = {None, 79}
    ChunkSize = 2
    MaxAttempts = 2
    MaxTries = 2
    MaxIngests = 2
PROPERTY ManyPagesAreKept
CHECK_DEADLOCK FALSE
