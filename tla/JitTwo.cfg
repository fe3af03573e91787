CONSTANTS
    alice = alice
    bob = bob
    nobody = nobody
    h1 = h1
    h2 = h2
    jitWorker = jitWorker
    account = account
    People <- PeopleMC
    NoOne = nobody
    Targets <- TargetsMC
    Handlers <- TwoHandlers
    Maintainer = jitWorker
    ApprovalSettings = {TRUE}
    ApprovalTimeout = 1
    Duration = 1
    MaxRequests = 2
    MaxRuns = 2
    MaxTime = 3
    MaxCrash = 1
    MaxFail = 1
SPECIFICATION Spec
SYMMETRY SymmetryMC
INVARIANTS TypeOK FourEyesGrant DirectoryAgrees
