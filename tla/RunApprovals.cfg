CONSTANTS
    alice = alice
    bob = bob
    h1 = h1
    h2 = h2
    scheduler = scheduler
    nobody = nobody
    Users <- UsersMC
    NoUser = nobody
    Handlers <- TwoHandlers
    Scheduler = scheduler
    Offered = {"Apply"}
    Calendars <- OpenOrLate
    ApprovalSettings = {TRUE, FALSE}
    ApprovalTimeout = 1
    PlanMaxAge = 1
    MaxRuns = 1
    MaxTime = 3
    MaxVersion = 1
    MaxCalendar = 1
    MaxCrash = 1
SPECIFICATION FairSpec
INVARIANTS TypeOK FourEyes
PROPERTIES FinalIsFinal EveryRunEnds
