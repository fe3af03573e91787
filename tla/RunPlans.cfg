CONSTANTS
    alice = alice
    bob = bob
    h1 = h1
    h2 = h2
    scheduler = scheduler
    nobody = nobody
    Users <- UsersMC
    NoUser = nobody
    Handlers <- OneHandler
    Scheduler = scheduler
    Offered = {"Plan", "Apply"}
    Calendars <- OnlyOpen
    ApprovalSettings = {TRUE, FALSE}
    ApprovalTimeout = 1
    PlanMaxAge = 1
    MaxRuns = 2
    MaxTime = 2
    MaxVersion = 2
    MaxCalendar = 0
    MaxCrash = 0
SPECIFICATION Spec
SYMMETRY SymmetryMC
INVARIANTS ReviewedConfiguration
PROPERTIES PinnedConfiguration
