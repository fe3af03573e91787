SPECIFICATION BrowserSpec
CONSTANTS
  Pages = {"run", "deploy", "assistants", "forms", "lists", "import", "session", "gpos", "review"}
  \* run
  r1 = r1
  r2 = r2
  Runs = {r1, r2}
  NoRun = NoRun
  Mine = {r2}
  OpenHours = TRUE
  Watched = FALSE
  QuietPages = TRUE
  Chatty = {r1}
  PageSize = 1
  MaxLog = 2
  MaxSteps = 2
  \* deploy
  d1 = d1
  d2 = d2
  Domains = {d1, d2}
  NoDomain = NoDomain
  Role = "Operator"
  QuietDialogs = TRUE
  \* assistants
  Names <- MCNames
  NameTier <- MCNameTier
  Serves <- MCServes
  Sams <- MCSams
  Start <- MCStart
  Others = TRUE
  QuietRename = TRUE
  MaxEdits = 2
  MaxChanges = 2
  \* forms
  Cards = {"settings", "windows", "entra", "smtp", "git", "channel"}
  MaxValue = 2
  MaxSecret = 2
  MaxSaves = 2
  Types = {"Email", "Teams", "LogAnalytics"}
  \* lists
  Lists = {"users", "windows", "freezes", "schedules", "domains", "tokens", "groups", "requests", "instances"}
  Rows = {1, 2}
  Self = 1
  Patient = TRUE
  MaxCalls = 2
  \* import
  Areas <- MCAreas
  Origin = {"file", "remote"}
  RuleSets = {"none", "dc"}
  NoRules = "none"
  Texts = {"old", "new"}
  NotThere = "absent"
  Broken = "broken"
  Offer <- MCOffer
  Stored <- MCStored
  MaxPreviews = 2
  MaxVersions = 1
  QuietImport = TRUE
  \* session
  Accounts = {"u"}
  Nobody = "nobody"
  MaxStamp = 2
  MaxSent = 2
  QuietSignIn = TRUE
  \* gpos
  LinkTargets = {"ou"}
  GpoNames = {"a", "b"}
  GposOffered <- MCGpos
  MaxMade = 2
  MaxTouched = 2
  MaxOrder = 2
  QuietMoves = TRUE
  \* review
  Reviewed <- MCReviewed
INVARIANTS
    
    PagesCatchUp
    
    DraftsHangTogether
    ShowsWhatItDoes
    
    ReviewsTell
PROPERTIES
    
    
    EditsWhatWasOpened
CHECK_DEADLOCK FALSE
