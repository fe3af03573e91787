CONSTANTS
    alice = alice
    bob = bob
    nobody = nobody
    h1 = h1
    h2 = h2
    jitWorker = jitWorker
    account = account
    People <- PeopleMC
    NoOne = nobody
    Targets <- TargetsMC
    Handlers <- OneHandler
    Maintainer = jitWorker
    ApprovalSettings = {TRUE}
    ApprovalTimeout = 1
    Duration = 1
    MaxRequests = 1
    MaxRuns = 1
    MaxTime = 3
    MaxCrash = 0
    MaxFail = 0
SPECIFICATION Spec
SYMMETRY SymmetryMC
INVARIANTS RejectedHasNoAccess
