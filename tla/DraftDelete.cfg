CONSTANTS
    east = east
    west = west
    gpos = gpos
    tiers = tiers
    x = x
    y = y
    z = z
    Domains = {east, west}
    Sections = {gpos, tiers}
    Contents = {x, y, z}
    NoKey = NoKey
    NoDialog = NoDialog
    HistoryLimit = 1
    MaxVersion = 3
    QuietLeave = TRUE
    QuietDialogs = FALSE
    Scopes <- TwoPlaces
    MaxFetches = 1
    MaxSaves = 1
    MaxWrites = 2
    MaxEdits = 2
    FirstContent = x
    MaxLogins = 1
SPECIFICATION Spec
CHECK_DEADLOCK FALSE
INVARIANTS ConflictIsNoticed
SYMMETRY Symmetric
