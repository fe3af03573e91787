CONSTANTS
    alice = alice
    bob = bob
    h1 = h1
    h2 = h2
    scheduler = scheduler
    nobody = nobody
    Users <- UsersMC
    NoUser = nobody
    Handlers <- OneHandler
    Scheduler = scheduler
    Offered = {"Other"}
    Calendars <- OnlyOpen
    ApprovalSettings = {FALSE}
    ApprovalTimeout = 1
    PlanMaxAge = 1
    MaxRuns = 1
    MaxTime = 2
    MaxVersion = 1
    MaxCalendar = 0
    MaxCrash = 0
SPECIFICATION Spec
SYMMETRY SymmetryMC
INVARIANTS ConfirmedCancelHolds
