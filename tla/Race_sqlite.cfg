SPECIFICATION Spec
CONSTANTS
    None = None
    Blank = ""
    i1 = i1
    i2 = i2
    i3 = i3
    i4 = i4
    i5 = i5
    i6 = i6
    acme = acme
    w1 = w1
    w2 = w2
    first = first
    copy = copy
    revised = revised
    amended = amended
    blurred = blurred
    credit = credit
    receipt = receipt
    undated = undated
    junk = junk
    Ids <- MCIds6
    Vendors <- MCVendors
    Numbers <- MCNumbers
    CanonNum <- MCCanon
    TolAbs = 0
    TolPct = 1
    Docs <- DocsVersions
    Hosts <- MCHosts
    Backend = "sqlite"
    Workers <- MCWorkers2
    HostOf <- MCOneHost
    Readings <- MCReadings
    MaxTries = 2
    FaultKinds = {"llm", "error"}
    MaxFaults = 1
    MaxJobs = 3
    MaxReviews = 1
    MaxDeletes = 1
INVARIANT TypeOK
INVARIANT OneActivePerKey
INVARIANT NothingOwedIsLost
INVARIANT OriginalRecoverable
INVARIANT SupersededIsReplaced
CHECK_DEADLOCK FALSE
