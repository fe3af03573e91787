-------------------------------- MODULE Web ---------------------------------
(***************************************************************************)
(* The pages of the web interface, one of which a behaviour visits.  They  *)
(* share no state but the service's, and each of them models its own part  *)
(* of that; the variables of the other pages are empty.  While the review  *)
(* of a draft is open (Browser) all of them are at rest.                   *)
(***************************************************************************)
EXTENDS RunPage, DeployPage, Assistants, SettingsForms, AdminLists, ConfigImport,
        Session, GpoEditor

CONSTANT Pages    \* the pages a behaviour may visit

ASSUME WebAssumption ==
    Pages \subseteq {"run", "deploy", "assistants", "forms", "lists", "import", "session", "gpos",
                "review"}

VARIABLE at       \* the page

webVars == <<at, runPageVars, deployVars, assistantVars, formVars, listVars, importVars,
             sessionVars, gpoVars>>

Empty == <<>>

NoRunPage ==
    /\ run = Empty /\ id = Empty /\ cache = Empty /\ reading = Empty /\ log = Empty
    /\ awaits = Empty /\ poll = Empty /\ question = Empty /\ decision = Empty
    /\ orders = Empty /\ steps = Empty

NoDeployPage ==
    /\ rules = Empty /\ plan = Empty /\ valid = Empty /\ here = Empty /\ drafts = Empty
    /\ page = Empty /\ form = Empty /\ settings = Empty /\ offer = Empty
    /\ asks = Empty /\ order = Empty

NoAssistants ==
    /\ draft = Empty /\ edited = Empty /\ wizard = Empty /\ rename = Empty
    /\ changes = Empty /\ wrote = Empty

NoForms ==
    /\ card = Empty /\ stored = Empty /\ seen = Empty /\ inputs = Empty
    /\ opened = Empty /\ sending = Empty /\ saves = Empty

NoLists ==
    /\ list = Empty /\ items = Empty /\ rows = Empty /\ fetch = Empty /\ calls = Empty
    /\ dialog = Empty /\ ask = Empty /\ strange = Empty /\ sent = Empty

NoImportPage ==
    /\ versions = Empty /\ previews = Empty /\ previewsMade = Empty /\ source = Empty
    /\ preview = Empty /\ selected = Empty /\ commented = Empty /\ conflicted = Empty
    /\ imported = Empty /\ chosenRules = Empty /\ issues = Empty /\ checks = Empty
    /\ importCalls = Empty /\ follows = Empty /\ declined = Empty /\ blind = Empty

NoSessionPages ==
    /\ account = Empty /\ cookie = Empty /\ token = Empty /\ flights = Empty
    /\ place = Empty /\ leadsTo = Empty /\ me = Empty /\ signIn = Empty /\ notice = Empty

NoGpoEditor ==
    /\ gposStored = Empty /\ gposBase = Empty /\ gpos = Empty /\ gpoDialog = Closed
    /\ gposMade = Empty

WebInit ==
    /\ at \in Pages
    /\ IF at = "run" THEN RunPageInit ELSE NoRunPage
    /\ IF at = "deploy" THEN DeployInit ELSE NoDeployPage
    /\ IF at = "assistants" THEN AssistantInit ELSE NoAssistants
    /\ IF at = "forms" THEN FormsInit ELSE NoForms
    /\ IF at = "lists" THEN ListsInit ELSE NoLists
    /\ IF at = "import" THEN ImportInit ELSE NoImportPage
    /\ IF at = "session" THEN SessionInit ELSE NoSessionPages
    /\ IF at = "gpos" THEN GpoInit ELSE NoGpoEditor

WebNext ==
    \/ /\ at = "run" /\ RunPageNext
       /\ UNCHANGED <<at, deployVars, assistantVars, formVars, listVars, importVars,
                      sessionVars, gpoVars>>
    \/ /\ at = "deploy" /\ DeployNext
       /\ UNCHANGED <<at, runPageVars, assistantVars, formVars, listVars, importVars,
                      sessionVars, gpoVars>>
    \/ /\ at = "assistants" /\ AssistantNext
       /\ UNCHANGED <<at, runPageVars, deployVars, formVars, listVars, importVars,
                      sessionVars, gpoVars>>
    \/ /\ at = "forms" /\ FormsNext
       /\ UNCHANGED <<at, runPageVars, deployVars, assistantVars, listVars, importVars,
                      sessionVars, gpoVars>>
    \/ /\ at = "lists" /\ ListsNext
       /\ UNCHANGED <<at, runPageVars, deployVars, assistantVars, formVars, importVars,
                      sessionVars, gpoVars>>
    \/ /\ at = "import" /\ ImportNext
       /\ UNCHANGED <<at, runPageVars, deployVars, assistantVars, formVars, listVars,
                      sessionVars, gpoVars>>
    \/ /\ at = "session" /\ SessionNext
       /\ UNCHANGED <<at, runPageVars, deployVars, assistantVars, formVars, listVars,
                      importVars, gpoVars>>
    \/ /\ at = "gpos" /\ GpoNext
       /\ UNCHANGED <<at, runPageVars, deployVars, assistantVars, formVars, listVars,
                      importVars, sessionVars>>

WebSpec == WebInit /\ [][WebNext]_webVars

-----------------------------------------------------------------------------
WebType ==
    /\ at = "run" => RunPageType
    /\ at = "deploy" => DeployType
    /\ at = "assistants" => AssistantType
    /\ at = "forms" => FormsType /\ SecretFitsType
    /\ at = "lists" => ListsType
    /\ at = "import" => ImportType
    /\ at = "session" => SessionType
    /\ at = "gpos" => GpoType

(***************************************************************************)
(* What a page shows is what the service has, as far as it has been read.  *)
(* The log is that of the run on the page, without a gap, and complete     *)
(* when the poller says that the run has ended (run-log.tsx).  A list with *)
(* nothing on its way is up to date, whatever was changed, refused or      *)
(* shown ahead of the answer (admin pages).                                *)
(***************************************************************************)
PagesCatchUp ==
    /\ at = "run" => LogIsItsOwn /\ EndIsComplete
    /\ at = "lists" => ListCatchesUp

(***************************************************************************)
(* A deployment is ordered with what the question named, for the domain it *)
(* named, and with a request the service can carry out (plan-apply.tsx).   *)
(***************************************************************************)
DeployOrders == at = "deploy" => AppliesWhatWasConfirmed /\ RequestIsPossible

(***************************************************************************)
(* No dialog leaves the draft with a reference to nothing or with two      *)
(* objects of a name: not an assistant, not the renaming of an OU, not the *)
(* GPO editor (wizard-model.ts, lib/ou.ts, gpo-model.ts).                  *)
(***************************************************************************)
DraftsHangTogether ==
    /\ at = "assistants" => DraftHangsTogether /\ RenamesWhatWasOpened
    /\ at = "gpos" => GposAreUnique /\ NothingNeedless

(***************************************************************************)
(* What is imported is what was shown, without what was unticked, and the  *)
(* problems shown are those of the selection (import-page.tsx).            *)
(***************************************************************************)
ShowsWhatItDoes ==
    at = "import" => ImportsWhatWasShown /\ DeclinedStaysOut /\ IssuesAreOfTheSelection

(***************************************************************************)
(* A session never outlives what its account was, and inside the           *)
(* application its token fits (AuthSetup.cs, login-page.tsx).              *)
(***************************************************************************)
SessionsFit == at = "session" => SessionsAreCurrent /\ TokenIsOfTheSession
=============================================================================
