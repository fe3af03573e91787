CONSTANTS
    tiers = tiers
    gpos = gpos
    x = x
    y = y
    h1 = h1
    h2 = h2
    nobody = nobody
    Sections <- SectionsMC
    Seeded <- SeededMC
    Position <- PositionMC
    Contents <- ContentsMC
    Handlers <- TwoHandlers
    NoOne = nobody
    PageSize = 2
    MaxRequests = 3
    MaxAbort = 1
SPECIFICATION FairSpec
CHECK_DEADLOCK FALSE
INVARIANTS TypeOK ChainIntact VerifyFindsNoBreak NoLostUpdate LogFollowsHistory
PROPERTIES RequestsEnd
