----------------------------- MODULE DeployPage -----------------------------
(***************************************************************************)
(* How a deployment is started from the browser: the form of the deploy    *)
(* page, the offer of a reviewed plan for what the form says, the bar over *)
(* a plan, the confirmation, and the shell around the pages: the one       *)
(* question that can be open, the command palette and the selected domain. *)
(***************************************************************************)
CONSTANTS Domains,
          NoDomain,
          Role,        \* of the user: "Viewer", "Editor" or "Operator"
          QuietDialogs \* bound: no other domain while a question is open

ASSUME DeployPageAssumption ==
    /\ NoDomain \notin Domains /\ Domains # {}
    /\ Role \in {"Viewer", "Editor", "Operator"} /\ QuietDialogs \in BOOLEAN

VARIABLES rules,    \* the service: are plans required, is there a freeze
          plan,     \* the service: the plan that was made, if any
          valid,    \* the plan may still be applied
          here,     \* the selected domain
          drafts,   \* it has unsaved changes
          page,     \* the deploy page, the page of a plan, or another one
          form,     \* mode and request of the deploy page
          settings, \* the settings query has been answered
          offer,    \* the plan that the query for it has found to fit the request
          asks,     \* the question that is open
          order     \* the mutation of a deployment, on its way

deployVars == <<rules, plan, valid, here, drafts, page, form, settings, offer, asks, order>>

CanEdit == Role \in {"Editor", "Operator"}
CanApply == Role = "Operator"

Requests == [scope : {"Full", "Part", "none"}, addOns : BOOLEAN, dc : {"", "dc"}, lang : {"", "de"}]
Plans == [req : Requests, domain : Domains]
NoPlan == [req |-> [scope |-> "none"], domain |-> NoDomain]

EmptyRequest == [scope |-> "Full", addOns |-> FALSE, dc |-> "", lang |-> ""]
IncludesAllowed(scope) == scope \in {"none", "Full"}

RequestError(r) ==
    \/ r.dc = ""
    \/ r.scope = "none" /\ ~r.addOns
    \/ ~IncludesAllowed(r.scope) /\ r.addOns

NoAsk == [op |-> "none"]
NoOrder == [op |-> "none"]
Deployments == [op : {"apply"}, req : Requests, plan : Plans \cup {NoPlan}, named : Domains,
                goes : Domains \cup {NoDomain}]

DeployType ==
    /\ rules \in [plan : BOOLEAN, freeze : BOOLEAN]
    /\ plan \in Plans \cup {NoPlan} /\ here \in Domains
    /\ {valid, drafts, settings} \subseteq BOOLEAN
    /\ page \in [at : {"deploy", "plan", "other"}]
    /\ form \in [mode : {"plan", "apply"}, req : Requests, filled : BOOLEAN]
    /\ offer \in Plans \cup {NoPlan}
    /\ asks \in {NoAsk} \cup [op : {"switch"}, to : Domains] \cup Deployments
    /\ order \in {NoOrder} \cup [op : {"plan"}, req : Requests, goes : Domains] \cup Deployments

NewForm == [mode |-> "plan", req |-> EmptyRequest, filled |-> FALSE]

\* The domain controller and the language are filled in once, when the
\* settings are there; what the user has entered stays.
WithDefaults(f) ==
    [f EXCEPT !.filled = TRUE, !.req.lang = "de", !.req.dc = IF @ = "" THEN "dc" ELSE @]

DeployInit ==
    /\ rules \in [plan : BOOLEAN, freeze : BOOLEAN]
    /\ plan = NoPlan /\ valid = FALSE /\ here \in Domains /\ drafts \in BOOLEAN
    /\ page = [at |-> "other"] /\ form = NewForm /\ settings = FALSE
    /\ offer = NoPlan /\ asks = NoAsk /\ order = NoOrder

-----------------------------------------------------------------------------
\* The service and the queries of the page.

ConfigurationSaved ==
    /\ valid /\ valid' = FALSE
    /\ UNCHANGED <<rules, plan, here, drafts, page, form, settings, offer, asks, order>>

SettingsArrive ==
    /\ page.at # "other" /\ ~settings /\ settings' = TRUE
    /\ form' = IF page.at = "deploy" THEN WithDefaults(form) ELSE form
    /\ offer' = IF form'.req = form.req THEN offer ELSE NoPlan
    /\ UNCHANGED <<rules, plan, valid, here, drafts, page, asks, order>>

RequirePlan == settings => rules.plan

\* The offer is asked for under the request and the domain it is for.
OfferArrives ==
    /\ page.at = "deploy" /\ form.mode = "apply" /\ RequirePlan /\ CanApply
    /\ ~RequestError(form.req) /\ offer = NoPlan
    /\ valid /\ plan = [req |-> form.req, domain |-> here] /\ offer' = plan
    /\ UNCHANGED <<rules, plan, valid, here, drafts, page, form, settings, asks, order>>

-----------------------------------------------------------------------------
\* The form.

OnForm == page.at = "deploy" /\ asks = NoAsk /\ CanEdit

SelectMode(m) ==
    /\ OnForm /\ m # form.mode /\ (m = "apply" => CanApply)
    /\ form' = [form EXCEPT !.mode = m]
    /\ UNCHANGED <<rules, plan, valid, here, drafts, page, settings, offer, asks, order>>

\* Add-ons go away with a scope that does not take them.
ScopeChosen(r, s) == [r EXCEPT !.scope = s, !.addOns = @ /\ IncludesAllowed(s)]

\* Without add-ons there is nothing left to do without a scope.
AddOnsSwitched(r, on) ==
    [r EXCEPT !.addOns = on, !.scope = IF ~on /\ @ = "none" THEN "Full" ELSE @]

Chosen(r) ==
    {ScopeChosen(r, s) : s \in {"Full", "Part"} \cup (IF r.addOns THEN {"none"} ELSE {})}
      \cup (IF IncludesAllowed(r.scope) THEN {AddOnsSwitched(r, on) : on \in BOOLEAN} ELSE {})
      \cup {[r EXCEPT !.dc = "dc"], [r EXCEPT !.lang = ""]}

Choose(r) ==
    /\ OnForm /\ r # form.req
    /\ form' = [form EXCEPT !.req = r] /\ offer' = NoPlan
    /\ UNCHANGED <<rules, plan, valid, here, drafts, page, settings, asks, order>>

-----------------------------------------------------------------------------
\* The confirmation.  The deploy page names the domain that is selected and
\* sends the order to the one selected by then; the bar over a plan fixes it.

Asking(r, p, named, goes) ==
    /\ asks = NoAsk
    /\ asks' = [op |-> "apply", req |-> r, plan |-> p, named |-> named, goes |-> goes]

Offered == IF RequirePlan THEN offer ELSE NoPlan

Submit ==
    /\ OnForm /\ ~RequestError(form.req) /\ order = NoOrder
    /\ IF form.mode = "plan"
       THEN /\ plan = NoPlan    \* bound: one plan
            /\ order' = [op |-> "plan", req |-> form.req, goes |-> here]
            /\ UNCHANGED asks
       ELSE /\ (RequirePlan => Offered # NoPlan) /\ ~rules.freeze
            /\ Asking(form.req, Offered, here, NoDomain)
            /\ UNCHANGED order
    /\ UNCHANGED <<rules, plan, valid, here, drafts, page, form, settings, offer>>

\* The bar is shown for a plan the service calls applicable.
ApplyThisPlan ==
    /\ page.at = "plan" /\ valid /\ CanApply /\ ~rules.freeze /\ order = NoOrder
    /\ Asking(plan.req, plan, plan.domain, plan.domain)
    /\ UNCHANGED <<rules, plan, valid, here, drafts, page, form, settings, offer, order>>

Cancelled ==
    /\ asks # NoAsk /\ asks' = NoAsk
    /\ UNCHANGED <<rules, plan, valid, here, drafts, page, form, settings, offer, order>>

\* The order carries what the question was about, not what the form says now.
OrderedNow == [asks EXCEPT !.goes = IF @ = NoDomain THEN here ELSE @, !.req = form.req]    \* mutant

Ordered == [asks EXCEPT !.goes = IF @ = NoDomain THEN here ELSE @]

ConfirmApply ==
    /\ asks.op = "apply" /\ asks' = NoAsk /\ order' = Ordered
    /\ UNCHANGED <<rules, plan, valid, here, drafts, page, form, settings, offer>>

\* The service checks an apply against its plan and its domain.
Accepts(o) ==
    /\ rules.plan => o.plan # NoPlan
    /\ o.plan # NoPlan => valid /\ plan = [req |-> o.req, domain |-> o.goes]
    /\ ~rules.freeze

\* The answer to a deployment leads to its run, wherever the user is.
Arrives(at) ==
    /\ order' = NoOrder /\ offer' = NoPlan /\ page' = [at |-> at] /\ form' = NewForm
    /\ UNCHANGED <<rules, here, drafts, settings, asks>>

PlanAnswered ==
    /\ order.op = "plan"
    /\ plan' = [req |-> order.req, domain |-> order.goes] /\ valid' = TRUE
    /\ Arrives("plan")

ApplyAnswered ==
    /\ order.op = "apply" /\ Accepts(order) /\ Arrives("other")
    /\ UNCHANGED <<plan, valid>>

OrderRefused ==
    /\ order # NoOrder /\ (order.op = "apply" => ~Accepts(order))
    /\ order' = NoOrder /\ offer' = NoPlan
    /\ UNCHANGED <<rules, plan, valid, here, drafts, page, form, settings, asks>>

-----------------------------------------------------------------------------
\* The shell.

OpenPage(at) ==
    /\ page.at # at /\ (QuietDialogs => asks = NoAsk)
    /\ page' = [at |-> at] /\ offer' = NoPlan
    /\ form' = IF at = "deploy" /\ settings THEN WithDefaults(NewForm) ELSE NewForm
    /\ UNCHANGED <<rules, plan, valid, here, drafts, settings, asks, order>>

\* Every page is mounted anew with the domain.
SwitchedHere(d) ==
    /\ here' = d /\ offer' = NoPlan /\ settings' = FALSE /\ form' = NewForm
    /\ UNCHANGED <<rules, plan, valid, drafts, page, order>>

\* A switch away from unsaved changes is a question itself; it takes the place
\* of the question that is open, whose asker is never answered.
SwitchTo(d) ==
    /\ d # here /\ (QuietDialogs => asks = NoAsk)
    /\ IF drafts
       THEN /\ asks' = [op |-> "switch", to |-> d]
            /\ UNCHANGED <<rules, plan, valid, here, drafts, page, form, settings, offer, order>>
       ELSE SwitchedHere(d) /\ UNCHANGED asks

ConfirmSwitch == asks.op = "switch" /\ asks' = NoAsk /\ SwitchedHere(asks.to)

DeployNext ==
    \/ ConfigurationSaved \/ SettingsArrive \/ OfferArrives
    \/ \E m \in {"plan", "apply"} : SelectMode(m)
    \/ \E r \in Chosen(form.req) : Choose(r)
    \/ Submit \/ ApplyThisPlan \/ Cancelled \/ ConfirmApply
    \/ PlanAnswered \/ ApplyAnswered \/ OrderRefused
    \/ \E at \in {"deploy", "other"} : OpenPage(at)
    \/ \E d \in Domains : SwitchTo(d)
    \/ ConfirmSwitch

DeploySpec == DeployInit /\ [][DeployNext]_deployVars

-----------------------------------------------------------------------------
\* An apply that reaches Active Directory is the one the user confirmed: of
\* the plan that was offered for this very request, in the domain the question
\* named, whatever the form, its defaults and the offers did meanwhile.
AppliesWhatWasConfirmed ==
    order.op = "apply" =>
       /\ order.goes = order.named
       /\ order.plan # NoPlan => order.plan = [req |-> order.req, domain |-> order.named]

\* No sequence of choices leads to a request the scripts of the framework
\* would reject: add-ons without their scope, or nothing to do at all.
RequestIsPossible ==
    /\ form.req.addOns => IncludesAllowed(form.req.scope)
    /\ form.req.scope = "none" => form.req.addOns
=============================================================================
