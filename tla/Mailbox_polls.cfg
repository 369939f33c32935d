SPECIFICATION FairSpec
CONSTANTS
    None = None
    loop = loop
    runner = runner
    invoice = invoice
    again = again
    bare = bare
    offer = offer
    broken = broken
    id1 = id1
    id2 = id2
    id3 = id3
    d1 = d1
    d2 = d2
    d3 = d3
    d4 = d4
    logo = logo
    Mail = {invoice, again, bare, offer, broken}
    MessageIds <- MCMessageIds
    Header <- MCHeader
    Docs <- MCDocs
    Attachments <- MCAttachments
    Body <- MCBody
    Junk = {logo}
    Promo = {offer}
    Unstorable = {d4}
    Loops = {loop}
    Runners = {runner}
    Window = 2
    MaxMail = 3
    MaxRuns = 1
    MaxFaults = 1
INVARIANT TypeOK
INVARIANT MarkedIsRecorded
INVARIANT NothingSteppedOver
INVARIANT MarkedIsNotRunAgain
PROPERTY EveryMailIsRun
CHECK_DEADLOCK FALSE
