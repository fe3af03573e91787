CONSTANTS
    alice = alice
    bob = bob
    h1 = h1
    h2 = h2
    scheduler = scheduler
    nobody = nobody
    Users <- OneUser
    NoUser = nobody
    Handlers <- OneHandler
    Scheduler = scheduler
    Offered = {"Apply", "Other"}
    Calendars <- OpenOrLate
    ApprovalSettings = {FALSE}
    ApprovalTimeout = 1
    PlanMaxAge = 1
    MaxRuns = 2
    MaxTime = 2
    MaxVersion = 1
    MaxCalendar = 1
    MaxCrash = 1
SPECIFICATION Spec
SYMMETRY SymmetryMC
INVARIANTS OneAtATime DirectoryExclusive EarlyCancelDelivered
PROPERTIES ImplementsContract
