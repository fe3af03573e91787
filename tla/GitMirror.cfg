CONSTANTS
    tiers = tiers
    groups = groups
    h1 = h1
    foreign = foreign
    Sections <- TwoSections
    Handlers <- OneHandler
    Foreign = foreign
    Capacity = 3
    BatchSize = 2
    MaxVersion = 2
    MaxAdmin = 1
    MaxForeign = 1
    MaxFail = 1
    MaxBreak = 1
SPECIFICATION FairSpec
CHECK_DEADLOCK FALSE
INVARIANTS TypeOK FilesMatchListing OthersUntouched
PROPERTIES ConflictStopsPushing EverySaveMirrored
