----------------------------- MODULE Assistants -----------------------------
(***************************************************************************)
(* The changes of the configuration page that touch several sections at    *)
(* once (features/config/wizards, ou-rename-dialog): the assistants for a  *)
(* server area, an admin account and a delegation, and the renaming and    *)
(* moving of an OU with all that refers to it.  Each is planned from the   *)
(* draft as it is and applied to it as one step.                           *)
(*                                                                         *)
(* A DN is the sequence of its names, the OU's own name first; <<>> is the *)
(* domain.  Names are compared as the code compares them, without case.    *)
(***************************************************************************)
EXTENDS Naturals, Sequences, FiniteSets

CONSTANTS Names,     \* of OUs
          NameTier,  \* the tier a name tells, or NoTier
          Serves,    \* what a default looks for in a name
          Sams,      \* account names, in the order suggestions try them
          Start,     \* the configuration to begin with
          Others,    \* others change the OUs while a dialog is open
          QuietRename, \* bound: others leave the parent alone that the dialog names
          MaxEdits,  \* bound: inputs in a dialog
          MaxChanges \* bound: changes of the draft

NoTier == 4
SamSet == {Sams[i] : i \in DOMAIN Sams}
Ou == [name : Names, path : Seq(Names)]
Configs ==
    [ous : Seq(Ou), silos : SUBSET Seq(Names),
     groups : SUBSET [sam : SamSet, ou : Seq(Names), says : 0..NoTier],
     users : SUBSET [sam : SamSet, ou : Seq(Names), memberOf : SUBSET SamSet],
     acls : SUBSET [target : Seq(Names), who : SamSet, allow : BOOLEAN],
     links : SUBSET [at : Seq(Names), gpo : {l.gpo : l \in Start.links}]]

ASSUME AssistantsAssumption ==
    /\ "staging" \in Names /\ {"", "auto", "none"} \cap Names = {}
    /\ NameTier \in [Names -> {0, 1, 2, NoTier}]
    /\ Serves \in [Names -> SUBSET {"server", "groups", "accounts"}]
    /\ Sams \in Seq(SamSet) /\ Sams # <<>> /\ {"", "auto"} \cap SamSet = {}
    /\ Start \in Configs
    /\ Others \in BOOLEAN /\ QuietRename \in BOOLEAN /\ {MaxEdits, MaxChanges} \subseteq Nat

VARIABLES draft,   \* the contents: ous, groups, users, acls, links, silos
          edited,  \* the OUs of the draft differ from the saved ones
          wizard,  \* the assistant that is open: step and inputs
          rename,  \* the dialog that renames an OU
          changes, \* history: changes of the draft
          wrote    \* history: what an assistant added last

assistantVars == <<draft, edited, wizard, rename, changes, wrote>>

-----------------------------------------------------------------------------
\* OUs and tiers.

Dn(ou) == <<ou.name>> \o ou.path
OusOf(c) == {c.ous[i] : i \in DOMAIN c.ous}
Dns(c) == {Dn(o) : o \in OusOf(c)}

\* The first tier that a DN tells, read from the OU up.
TierOf(dn) ==
    LET tells == {i \in DOMAIN dn : NameTier[dn[i]] # NoTier}
    IN IF tells = {} THEN NoTier
       ELSE NameTier[dn[CHOOSE i \in tells : \A j \in tells : i <= j]]

TargetTier(dn) == IF dn = <<>> THEN 0 ELSE TierOf(dn)

\* A group's own name tells its tier, else the OU it is in.
GroupTier(g) == IF g.says # NoTier THEN g.says ELSE TierOf(g.ou)
PrincipalTier(c, who) ==
    IF \E g \in c.groups : g.sam = who
    THEN GroupTier(CHOOSE g \in c.groups : g.sam = who) ELSE NoTier

\* Control never flows from a less to a more privileged tier.
AclViolates(c, acl) ==
    LET t == TargetTier(acl.target)  p == PrincipalTier(c, acl.who)
    IN acl.allow /\ t # NoTier /\ p # NoTier /\ p > t

UserViolates(c, user) ==
    LET u == TierOf(user.ou)
    IN u # NoTier /\ \E g \in user.memberOf : PrincipalTier(c, g) < u

-----------------------------------------------------------------------------
\* Suggestions, which follow the other inputs until the user types a value.

AutoDn == <<"auto">>
NoDn == <<"none">>
AutoSam == "auto"
AutoTier == 5

\* The places of the OUs of a tier, and the first OU of some places.
TierOus(c, tier) == {i \in DOMAIN c.ous : TierOf(Dn(c.ous[i])) = tier}
FirstOu(c, is) ==
    IF is = {} THEN NoDn ELSE Dn(c.ous[CHOOSE i \in is : \A j \in is : i <= j])
FirstServing(c, tier, use) ==
    FirstOu(c, {i \in TierOus(c, tier) : use \in Serves[c.ous[i].name]})

DefaultServerParent(c, tier) ==
    LET pick == FirstServing(c, tier, "server")
    IN IF pick # NoDn THEN pick ELSE FirstOu(c, TierOus(c, tier))

DefaultGroupsOu(c, tier) == FirstServing(c, tier, "groups")
DefaultAccountsOu(c, tier) == FirstServing(c, tier, "accounts")

\* The first name that is not taken.
UniqueName(taken) ==
    LET free == {i \in DOMAIN Sams : Sams[i] \notin taken}
    IN IF free = {} THEN Sams[1] ELSE Sams[CHOOSE i \in free : \A j \in free : i <= j]

GroupSams(c) == {g.sam : g \in c.groups}
UserSams(c) == {u.sam : u \in c.users}
SamError(sam, taken) == sam = "" \/ sam \in taken
OuNameError(name) == name = ""    \* as is any name with other characters

\* The targets of a tier whose GPOs serve as a template; preferably the parent
\* or one beside the new OU.
GpoSources(c, tier, parent) ==
    LET linked == {l.at : l \in {k \in c.links : k.at # <<>> /\ TierOf(k.at) = tier}}
        near == {at \in linked : at = parent \/ Tail(at) = parent}
    IN IF near # {} THEN near ELSE linked

GpoTarget(c, at, sources) ==
    {[at |-> at, gpo |-> l.gpo] :
        l \in {k \in c.links : sources # {} /\ k.at = CHOOSE s \in sources : TRUE}}

-----------------------------------------------------------------------------
\* The plans: new contents, and whether an error forbids them.

\* The inputs with the suggestions for those the user left alone.
ServerInput(c, in) ==
    LET parent == IF in.parent = AutoDn THEN DefaultServerParent(c, in.tier) ELSE in.parent
    IN [in EXCEPT !.parent = parent,
                  !.sam = IF @ = AutoSam THEN UniqueName(GroupSams(c)) ELSE @,
                  !.says = IF @ = AutoTier THEN in.tier ELSE @,
                  !.ou = IF @ = AutoDn THEN DefaultGroupsOu(c, in.tier) ELSE @]

AreaPath(in) == IF in.parent = NoDn THEN <<>> ELSE in.parent
AreaDn(in) == <<in.name>> \o AreaPath(in)

AreaErrors(c, in) ==
    OuNameError(in.name) \/ in.parent = NoDn \/ AreaDn(in) \in Dns(c)
GroupErrors(c, in) == SamError(in.sam, GroupSams(c)) \/ in.ou = NoDn

ServerAreaPlan(c, in) ==
    LET dn == AreaDn(in)
        group == [sam |-> in.sam, ou |-> in.ou, says |-> in.says]
        acl == [target |-> dn, who |-> in.sam, allow |-> TRUE]
        links == IF in.gpos THEN GpoTarget(c, dn, GpoSources(c, in.tier, in.parent)) ELSE {}
        next == [c EXCEPT
                   !.ous = @ \o <<[name |-> in.name, path |-> AreaPath(in)]>>
                             \o (IF in.staging THEN <<[name |-> "staging", path |-> dn]>> ELSE <<>>),
                   !.groups = @ \cup {group}, !.acls = @ \cup {acl}, !.links = @ \cup links]
    IN [next |-> next,
        blocked |-> \/ OuNameError(in.name) \/ dn \in Dns(c)
                    \/ in.parent \notin Dns(c) \cup {<<>>, NoDn}
                    \/ TierOf(dn) # in.tier
                    \/ SamError(in.sam, GroupSams(c)) \/ in.ou = NoDn
                    \/ links # {} /\ dn \in {l.at : l \in c.links}
                    \/ AclViolates(next, acl)]

AccountInput(c, in) ==
    [in EXCEPT !.sam = IF @ = AutoSam THEN UniqueName(UserSams(c)) ELSE @,
               !.ou = IF @ = AutoDn THEN DefaultAccountsOu(c, in.tier) ELSE @]

AdminAccountPlan(c, in) ==
    LET user == [sam |-> in.sam, ou |-> in.ou, memberOf |-> in.memberOf]
    IN [next |-> [c EXCEPT !.users = @ \cup {user}],
        blocked |-> \/ SamError(in.sam, UserSams(c))
                    \/ in.ou = NoDn \/ TierOf(in.ou) # in.tier
                    \/ UserViolates(c, user)]

DelegationPlan(c, in) ==
    LET acl == [target |-> in.ou, who |-> in.who, allow |-> in.allow]
    IN [next |-> [c EXCEPT !.acls = @ \cup {acl}],
        blocked |-> \/ in.who = "" \/ ~in.rights \/ in.ou = NoDn
                    \/ acl \in c.acls \/ AclViolates(c, acl)]

-----------------------------------------------------------------------------
\* Renaming and moving.

IsBelow(dn, top) ==
    Len(dn) >= Len(top) /\ SubSeq(dn, Len(dn) - Len(top) + 1, Len(dn)) = top

\* mutant: only the OU itself
RebasedExactly(dn, old, new) == IF dn = old THEN new ELSE dn

\* The DN of an OU or of anything below it, with another top.
Rebased(dn, old, new) ==
    IF IsBelow(dn, old) THEN SubSeq(dn, 1, Len(dn) - Len(old)) \o new ELSE dn

\* The section with the authentication silos is not among those that follow.
RenamePlan(c, i, name, path) ==
    LET old == Dn(c.ous[i])
        new == <<name>> \o path
        R(dn) == Rebased(dn, old, new)
        keys == {l.at : l \in c.links}
        ous == [j \in DOMAIN c.ous |->
                  IF j = i THEN [name |-> name, path |-> path]
                  ELSE [c.ous[j] EXCEPT !.path = R(@)]]
    IN [next |-> [c EXCEPT !.ous = ous,
                           !.groups = {[g EXCEPT !.ou = R(@)] : g \in @},
                           !.users = {[u EXCEPT !.ou = R(@)] : u \in @},
                           !.acls = {[a EXCEPT !.target = R(@)] : a \in @},
                           !.links = {[l EXCEPT !.at = R(@)] : l \in @}],
        conflict |-> \/ IsBelow(path, old)
                     \/ \E k \in keys : R(k) # k /\ R(k) \in keys /\ R(R(k)) = R(k)]

-----------------------------------------------------------------------------
\* The assistants.

NoWizard == [kind |-> "none"]
NoRename == [state |-> "closed"]

NewInput(kind) ==
    CASE kind = "server" -> [tier |-> 1, name |-> "", parent |-> AutoDn, staging |-> TRUE,
                             sam |-> AutoSam, says |-> AutoTier, ou |-> AutoDn, gpos |-> TRUE]
      [] kind = "account" ->
              [tier |-> 1, named |-> FALSE, sam |-> AutoSam, ou |-> AutoDn, memberOf |-> {}]
      [] kind = "delegation" -> [who |-> "", rights |-> TRUE, ou |-> NoDn, allow |-> TRUE]

LastStep == [server |-> 5, account |-> 3, delegation |-> 4]

Known(c, kind, in) ==
    CASE kind = "server" -> ServerInput(c, in)
      [] kind = "account" -> AccountInput(c, in)
      [] OTHER -> in

PlanOf(c, kind, in) ==
    CASE kind = "server" -> ServerAreaPlan(c, in)
      [] kind = "account" -> AdminAccountPlan(c, in)
      [] kind = "delegation" -> DelegationPlan(c, in)

\* The steps whose inputs are incomplete.
ServerErrors(c, in) ==
    {s \in {1, 2} : IF s = 1 THEN AreaErrors(c, in) ELSE GroupErrors(c, in)}
AccountErrors(c, in) ==
    {s \in {1, 2} : IF s = 1 THEN ~in.named \/ SamError(in.sam, UserSams(c)) ELSE in.ou = NoDn}
DelegationErrors(in) ==
    {s \in {1, 2, 3} : CASE s = 1 -> in.who = "" [] s = 2 -> ~in.rights [] s = 3 -> in.ou = NoDn}

Invalid(c, kind, in) ==
    CASE kind = "server" -> ServerErrors(c, in)
      [] kind = "account" -> AccountErrors(c, in)
      [] kind = "delegation" -> DelegationErrors(in)

Input == Known(draft, wizard.kind, wizard.input)
Plan == PlanOf(draft, wizard.kind, Input)
InvalidSteps == Invalid(draft, wizard.kind, Input)

AssistantInit ==
    /\ draft = Start /\ edited = FALSE /\ wizard = NoWizard /\ rename = NoRename
    /\ changes = 0 /\ wrote = [who |-> {}, on |-> "nothing"]

OpenWizard(kind) ==
    /\ wizard = NoWizard /\ rename = NoRename /\ changes < MaxChanges
    /\ wizard' = [kind |-> kind, step |-> 1, input |-> NewInput(kind), edits |-> 0]
    /\ UNCHANGED <<draft, edited, rename, changes, wrote>>

OuChoices(tier) == {d \in Dns(draft) : TierOf(d) = tier}

\* Another tier takes back what was chosen in the old one.
TierSet(kind, in, t) ==
    IF kind = "server" THEN [in EXCEPT !.tier = t, !.parent = AutoDn, !.ou = AutoDn, !.gpos = TRUE]
    ELSE [in EXCEPT !.tier = t, !.ou = AutoDn]

ServerEdits(step, in) ==
    CASE step = 1 -> {TierSet("server", in, t) : t \in 0..2}
                       \cup {[in EXCEPT !.name = n] : n \in Names}
                       \cup {[in EXCEPT !.parent = d] : d \in OuChoices(in.tier)}
                       \cup {[in EXCEPT !.staging = ~@]}
      [] step = 2 -> {[in EXCEPT !.sam = s] : s \in {AutoSam, "", Sams[1]}}
                       \cup {[in EXCEPT !.says = t] : t \in {AutoTier, NoTier, 2}}
                       \cup {[in EXCEPT !.ou = d] : d \in OuChoices(in.tier)}
      [] step = 4 -> {[in EXCEPT !.gpos = ~@]}
      [] OTHER -> {}

AccountEdits(step, in) ==
    CASE step = 1 -> {TierSet("account", in, t) : t \in 0..2} \cup {[in EXCEPT !.named = TRUE]}
                       \cup {[in EXCEPT !.sam = s] : s \in {AutoSam, "", Sams[1]}}
      [] step = 2 -> {[in EXCEPT !.ou = d] : d \in OuChoices(in.tier)}
                       \cup {[in EXCEPT !.memberOf = @ \cup {s}] : s \in GroupSams(draft)}
      [] OTHER -> {}

DelegationEdits(step, in) ==
    CASE step = 1 -> {[in EXCEPT !.who = s] : s \in GroupSams(draft)}
      [] step = 2 -> {[in EXCEPT !.allow = ~@], [in EXCEPT !.rights = ~@]}
      [] step = 3 -> {[in EXCEPT !.ou = d] : d \in Dns(draft) \cup {<<>>}}
      [] OTHER -> {}

Edits ==
    CASE wizard.kind = "server" -> ServerEdits(wizard.step, wizard.input)
      [] wizard.kind = "account" -> AccountEdits(wizard.step, wizard.input)
      [] wizard.kind = "delegation" -> DelegationEdits(wizard.step, wizard.input)
      [] OTHER -> {}

TakeInput(in) ==
    /\ wizard.edits < MaxEdits /\ in # wizard.input
    /\ wizard' = [wizard EXCEPT !.input = in, !.edits = @ + 1]
    /\ UNCHANGED <<draft, edited, rename, changes, wrote>>

\* Forward when the step is complete, and to any step before the first that is not.
GoTo(step) ==
    /\ wizard # NoWizard /\ step # wizard.step
    /\ \/ step = wizard.step + 1 /\ wizard.step \notin InvalidSteps
       \/ step < wizard.step
       \/ \A s \in InvalidSteps : step <= s
    /\ wizard' = [wizard EXCEPT !.step = step]
    /\ UNCHANGED <<draft, edited, rename, changes, wrote>>

\* mutant: the summary shows the errors, and nothing else
FinishUnlessIncomplete(p) == InvalidSteps = {}

MayFinish(p) == ~p.blocked

Finish ==
    /\ wizard # NoWizard /\ wizard.step = LastStep[wizard.kind] /\ MayFinish(Plan)
    /\ draft' = Plan.next /\ edited' = (edited \/ draft'.ous # draft.ous)
    /\ wrote' = [who |-> (draft'.acls \ draft.acls) \cup (draft'.users \ draft.users),
                  on |-> wizard.kind]
    /\ wizard' = NoWizard /\ changes' = changes + 1
    /\ UNCHANGED rename

RequestClose ==
    /\ wizard # NoWizard /\ wizard' = NoWizard
    /\ UNCHANGED <<draft, edited, rename, changes, wrote>>

-----------------------------------------------------------------------------
\* The dialog for renaming and moving, which opens with the contents of then.

OpenRename(i) ==
    /\ wizard = NoWizard /\ rename = NoRename /\ i \in DOMAIN draft.ous /\ changes < MaxChanges
    /\ rename' = [state |-> "open", index |-> i, then |-> draft,
                  name |-> draft.ous[i].name, path |-> draft.ous[i].path]
    /\ UNCHANGED <<draft, edited, wizard, changes, wrote>>

\* The parents offered: as the OUs were when the dialog was opened, without the OU
\* itself and what is below it.
RenameParents ==
    IF rename = NoRename THEN {}
    ELSE {<<>>} \cup {d \in Dns(rename.then) : /\ ~IsBelow(d, Dn(rename.then.ous[rename.index]))
                                               /\ QuietRename => d \in Dns(draft)}

TypeRename(name, path) ==
    /\ <<name, path>> # <<rename.name, rename.path>>
    /\ rename' = [rename EXCEPT !.name = name, !.path = path]
    /\ UNCHANGED <<draft, edited, wizard, changes, wrote>>

\* What the dialog shows forbids to apply: checked on the contents it opened with.
Duplicate(c, i, dn) == \E j \in DOMAIN c.ous : j # i /\ Dn(c.ous[j]) = dn

MayApply ==
    LET was == rename.then.ous[rename.index]
    IN /\ ~OuNameError(rename.name)
       /\ <<rename.name, rename.path>> # <<was.name, was.path>>
       /\ ~Duplicate(rename.then, rename.index, <<rename.name>> \o rename.path)
       /\ ~RenamePlan(rename.then, rename.index, rename.name, rename.path).conflict

StillThere ==
    /\ rename.index \in DOMAIN draft.ous
    /\ draft.ous[rename.index] = rename.then.ous[rename.index]

\* The plan is made anew from the draft as it is by then.
ApplyRename ==
    /\ rename # NoRename /\ MayApply
    /\ IF ~StillThere THEN rename' = NoRename /\ UNCHANGED <<draft, edited, changes, wrote>>
       ELSE LET renaming == RenamePlan(draft, rename.index, rename.name, rename.path)
            IN /\ ~renaming.conflict
               /\ draft' = renaming.next /\ edited' = TRUE
               /\ wrote' = [who |-> {rename.then.ous[rename.index], draft.ous[rename.index]},
                             on |-> "rename"]
               /\ changes' = changes + 1 /\ rename' = NoRename
    /\ UNCHANGED wizard

CloseRename ==
    /\ rename # NoRename /\ rename' = NoRename
    /\ UNCHANGED <<draft, edited, wizard, changes, wrote>>

\* The section is read again after others have changed it; a draft keeps its own.
Used(dn) ==
    \/ \E o \in OusOf(draft) : IsBelow(o.path, dn)
    \/ \E g \in draft.groups \cup draft.users : g.ou = dn
    \/ \E a \in draft.acls : a.target = dn
    \/ \E l \in draft.links : l.at = dn
    \/ dn \in draft.silos

OthersRemove(i) ==
    /\ Others /\ ~edited /\ i \in DOMAIN draft.ous /\ ~Used(Dn(draft.ous[i]))
    /\ wizard = NoWizard /\ rename # NoRename
    /\ QuietRename => rename.path # Dn(draft.ous[i])
    /\ draft' = [draft EXCEPT !.ous = SubSeq(@, 1, i - 1) \o SubSeq(@, i + 1, Len(@))]
    /\ UNCHANGED <<edited, wizard, rename, changes, wrote>>

AssistantNext ==
    \/ \E kind \in {"server", "account", "delegation"} : OpenWizard(kind)
    \/ \E in \in Edits : TakeInput(in)
    \/ \E step \in 1..5 : wizard # NoWizard /\ step <= LastStep[wizard.kind] /\ GoTo(step)
    \/ Finish \/ RequestClose
    \/ \E i \in DOMAIN draft.ous : OpenRename(i)
    \/ \E name \in Names, path \in RenameParents : TypeRename(name, path)
    \/ ApplyRename \/ CloseRename
    \/ \E i \in DOMAIN draft.ous : OthersRemove(i)

AssistantSpec == AssistantInit /\ [][AssistantNext]_assistantVars

-----------------------------------------------------------------------------
AssistantType ==
    /\ \A o \in OusOf(draft) : o.name \in Names /\ o.path \in Seq(Names)
    /\ \A g \in draft.groups : g.ou \in Seq(Names)
    /\ edited \in BOOLEAN
    /\ wizard # NoWizard => wizard.step \in 1..LastStep[wizard.kind]
    /\ rename # NoRename => rename.index \in DOMAIN rename.then.ous

Targets(c) == Dns(c) \cup {<<>>}

\* No two OUs have one DN, no two accounts one name, and every parent, group,
\* account, delegation and link refers to an OU that is there.
HangsTogether(c) ==
    /\ \A i, j \in DOMAIN c.ous : i # j => Dn(c.ous[i]) # Dn(c.ous[j])
    /\ \A g, h \in c.groups : g.sam = h.sam => g = h
    /\ \A u, v \in c.users : u.sam = v.sam => u = v
    /\ \A o \in OusOf(c) : o.path \in Targets(c)
    /\ \A g \in c.groups \cup c.users : g.ou \in Targets(c)
    /\ \A a \in c.acls : a.target \in Targets(c)
    /\ \A l \in c.links : l.at \in Targets(c)

\* The draft hangs together whatever the assistants add and whatever is renamed or
\* moved, in any order.
DraftHangsTogether == HangsTogether(draft)

\* No assistant hands control of a tier to a less privileged one, with its own
\* group or an existing one, whatever else was added or moved before.
AssistantsKeepTiers ==
    [][changes' # changes /\ wrote'.on # "rename" =>
         /\ \A a \in draft'.acls \ draft.acls : ~AclViolates(draft', a)
         /\ \A u \in draft'.users \ draft.users : ~UserViolates(draft', u)]_assistantVars

\* A rename reaches the OU the dialog was opened for, although the section is
\* read again meanwhile and the dialog only holds its index.
RenamesWhatWasOpened == wrote.on = "rename" => Cardinality(wrote.who) = 1

\* "All references are adjusted automatically" (the text of the dialog).
SilosFollow == \A dn \in draft.silos : dn \in Targets(draft)
=============================================================================
