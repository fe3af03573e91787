----------------------------- MODULE GpoEditor ------------------------------
(***************************************************************************)
(* The form editor of the group policy section: link targets, their two    *)
(* lists of GPOs, and the dialogs that edit, move and remove one of them.  *)
(* A dialog remembers the GPO it was opened for by its place, and the list *)
(* below it changes when a refetch brings what others saved.  Drafts are   *)
(* kept as in DraftStore; undo and redo are off while a dialog is open and *)
(* modelled there.                                                         *)
(***************************************************************************)
EXTENDS Naturals, Sequences, FiniteSets, SequencesExt

CONSTANTS LinkTargets, \* the targets that can be linked
          GpoNames,    \* names, up to case
          GposOffered, \* what the service may hold for the section
          MaxMade,     \* bound: changes, and answers that bring new objects
          MaxTouched,  \* bound: changes in one sheet
          MaxOrder,    \* bound: link orders
          QuietMoves   \* bound: no refetch or save while the move dialog is open

VARIABLES gposStored, \* service: the section
          gposBase,   \* page: the section as it was last read
          gpos,       \* page: the section as it is shown, base or the draft
          gpoDialog,  \* page: the sheet, the move dialog or a question
          gposMade    \* ghost: changes and answers so far; tells apart objects that are equal

gpoVars == <<gposStored, gposBase, gpos, gpoDialog, gposMade>>

TemplateKey == "TemplateGpos"
GpoTargets == LinkTargets \cup {TemplateKey}
IsLinked(t) == t # TemplateKey

ImportOnly == "ImportOnlyGpo"
PostConfigure == "PostConfigureGpo"
Kinds == {ImportOnly, PostConfigure}
\* The third mode differs from the second for the script only.
Modes == {"create", "createAndImport"}

\* Optional members of an object: missing, or what they hold.
Missing == <<>>
Has(v) == <<v>>
EmptyArray == <<{}, "array">>    \* restrictedGroups: [], nothing was ever configured
Principals == {"p"}
UserRights == {"SeBatchLogonRight"}
\* Lists of objects with a field that must be filled: no object, one that is blank, or not.
Fillings == {"none", "blank", "filled"}
Rights == [right : UserRights, who : SUBSET Principals, conditional : Fillings]
Groups == [empty : SUBSET Principals, members : Fillings]
NoGroups == [empty |-> {}, members |-> "none"]

\* A GPO of the section.  order = 0: no link order.
Gpos == [name : GpoNames \cup {""}, mode : Modes, importPath : {Missing, Has(""), Has("backup")},
         linkOrder : 0..MaxOrder, linkEnabled : BOOLEAN,
         deny : {Missing} \cup {Has(s) : s \in SUBSET Principals},
         restricted : {Missing, EmptyArray} \cup {Has(x) : x \in Groups},
         rights : {Missing} \cup {Has(s) : s \in SUBSET Rights}, obj : 0..MaxMade]

\* A section: link targets with their two lists.
IsSection(c) == DOMAIN c \subseteq GpoTargets /\ c \in [DOMAIN c -> [Kinds -> Seq(Gpos)]]

ASSUME GpoAssumption ==
    /\ MaxMade \in Nat /\ MaxTouched \in Nat /\ MaxOrder \in Nat \ {0} /\ QuietMoves \in BOOLEAN
    /\ TemplateKey \notin LinkTargets /\ "" \notin GpoNames
    /\ \A c \in GposOffered : IsSection(c)

Value(g) == [g EXCEPT !.obj = 0]
GpoList(c, t, k) == IF t \in DOMAIN c THEN c[t][k] ELSE <<>>
Values(c) == [t \in DOMAIN c |-> [k \in Kinds |-> [i \in DOMAIN c[t][k] |-> Value(c[t][k][i])]]]
GposOf(c, t) == UNION {ToSet(GpoList(c, t, k)) : k \in Kinds}
\* Every GPO of the section, and where it is.
Placed(c) ==
    UNION {{<<t, k, Value(g)>> : g \in ToSet(GpoList(c, t, k))} : t \in GpoTargets, k \in Kinds}

Closed == [is |-> "closed"]
Unsaved == gpos # gposBase

-----------------------------------------------------------------------------
(***************************************************************************)
(* Changes of the content: the objects that do not change stay the same.   *)
(***************************************************************************)
SetGpoList(c, t, k, entries) == [c EXCEPT ![t][k] = entries]
ReplaceGpo(c, t, k, i, g) == SetGpoList(c, t, k, [GpoList(c, t, k) EXCEPT ![i] = g])
AddTarget(c, t) == [u \in DOMAIN c \cup {t} |-> IF u = t THEN [k \in Kinds |-> <<>>] ELSE c[u]]
RemoveTarget(c, t) == [u \in DOMAIN c \ {t} |-> c[u]]
Largest(S) == CHOOSE n \in S : \A m \in S : m <= n
NextLinkOrder(c, t) == 1 + Largest({0} \cup {g.linkOrder : g \in GposOf(c, t)})

Renewed(g) == [g EXCEPT !.obj = gposMade + 1]

\* A draft equal to its base is dropped.
Draft(c) == IF Values(c) = Values(gposBase) THEN gposBase ELSE c
SetContent(c) ==
    /\ gposMade < MaxMade /\ gposMade' = gposMade + 1
    /\ gpos' = Draft(c) /\ UNCHANGED <<gposStored, gposBase>>

\* A new answer keeps the objects that are the same, at the same place.
Shared(new, old) ==
    [t \in DOMAIN new |-> [k \in Kinds |-> [i \in DOMAIN new[t][k] |->
        LET g == new[t][k][i]  entries == GpoList(old, t, k) IN
        IF i \in DOMAIN entries /\ Value(entries[i]) = Value(g) THEN entries[i] ELSE Renewed(g)]]]

-----------------------------------------------------------------------------
(***************************************************************************)
(* The fields of a GPO.                                                    *)
(***************************************************************************)
NewGpo(c, t, k) ==
    [name |-> "", mode |-> "createAndImport",
     importPath |-> Has(""), linkOrder |-> IF IsLinked(t) THEN NextLinkOrder(c, t) ELSE 0,
     linkEnabled |-> FALSE, deny |-> Missing,
     restricted |-> IF k = PostConfigure THEN Has(NoGroups) ELSE Missing,
     rights |-> IF k = PostConfigure THEN Has({}) ELSE Missing, obj |-> 0]

\* The configuration is offered to GPOs that are configured, or have been.
ShowsConfiguration(g, k) ==
    k = PostConfigure \/ g.rights # Missing \/ g.restricted # Missing \/ g.deny # Missing

SetListKeep(old, s) == IF s = {} /\ old = Missing THEN old ELSE Has(s)
RestrictedAsObject(old) == IF old \in {Missing, EmptyArray} THEN NoGroups ELSE old[1]
SetRestricted(old, x) == IF x = NoGroups /\ old \in {Missing, EmptyArray} THEN old ELSE Has(x)

\* An object is added blank, and is filled, emptied or removed.
Refilled(f) == {x \in Fillings : x # f /\ ({x, f} = {"none", "filled"} => x = "none")}
\* A field of principals takes any that are suggested or typed.
PrincipalPicker == SUBSET Principals
DenyApplySection(old) == {SetListKeep(old, s) : s \in PrincipalPicker}

RightCard(r) == {[r EXCEPT !.who = s] : s \in SUBSET Principals}
ConditionalGroups(r) == {[r EXCEPT !.conditional = f] : f \in Refilled(r.conditional)}
NewRight(r) == [right |-> r, who |-> {}, conditional |-> "none"]
\* A right is added with nobody in it, and only once.
UserRightsSection(old) ==
    LET has == IF old = Missing THEN {} ELSE old[1] IN
         {Has(has \cup {NewRight(r)}) : r \in UserRights \ {x.right : x \in has}}
    \cup {Has(has \ {x}) : x \in has}
    \cup UNION {{Has((has \ {x}) \cup {y}) : y \in RightCard(x) \cup ConditionalGroups(x)} : x \in has}

EmptyGroupsPicker(x) == {[x EXCEPT !.empty = s] : s \in PrincipalPicker}
MembershipRow(x) == {[x EXCEPT !.members = f] : f \in Refilled(x.members)}
RestrictedGroupsSection(old) ==
    LET x == RestrictedAsObject(old) IN
    {SetRestricted(old, y) : y \in EmptyGroupsPicker(x) \cup MembershipRow(x)}

\* What one change in the sheet makes of the GPO.
GeneralFields(g) ==
         {[g EXCEPT !.name = n] : n \in GpoNames}
    \cup {[g EXCEPT !.mode = m] : m \in Modes}
    \cup (IF g.mode = "create" THEN {} ELSE {[g EXCEPT !.importPath = Has("backup")]})
LinkFields(g) ==
    IF g.linkOrder = 0 THEN {} ELSE {[g EXCEPT !.linkOrder = 1], [g EXCEPT !.linkEnabled = ~@]}
Configuration(g) ==
         {[g EXCEPT !.deny = v] : v \in DenyApplySection(g.deny)}
    \cup {[g EXCEPT !.rights = v] : v \in UserRightsSection(g.rights)}
    \cup {[g EXCEPT !.restricted = v] : v \in RestrictedGroupsSection(g.restricted)}
ChangedFields(g, k) ==
    GeneralFields(g) \cup LinkFields(g)
        \cup (IF ShowsConfiguration(g, k) THEN Configuration(g) ELSE {})

\* What was added in the sheet and emptied again is as it was before it.
Finalized(v, reference) ==
    LET ref == reference # Closed IN
    [v EXCEPT
       !.importPath = IF v.mode = "create"
                         /\ (ref => reference.mode # "create" \/ reference.importPath = Missing)
                      THEN Missing ELSE @,
       !.deny = IF ref /\ reference.deny = Missing /\ @ = Has({}) THEN Missing ELSE @,
       !.restricted = IF ref /\ reference.restricted \in {Missing, EmptyArray} /\ @ = Has(NoGroups)
                      THEN reference.restricted ELSE @]

\* The list of the same name in the lists of the target, but for the place itself.
TakesName(c, t, k, i, n) ==
    \E l \in Kinds : \E j \in DOMAIN GpoList(c, t, l) :
        <<l, j>> # <<k, i>> /\ GpoList(c, t, l)[j].name = n
ValidGpo(g, c, t, k, i) ==
    /\ g.name # "" /\ ~TakesName(c, t, k, i, g.name)
    /\ g.mode # "create" => g.importPath = Has("backup")
    /\ IsLinked(t) => g.linkOrder >= 1
    /\ g.rights # Missing => \A r \in g.rights[1] : r.conditional # "blank"
    /\ RestrictedAsObject(g.restricted).members # "blank"

-----------------------------------------------------------------------------
(***************************************************************************)
(* The page: the search finds targets and GPOs, the table opens them.      *)
(***************************************************************************)
Queries == GpoNames \cup {"", "domain"}
Hits(t, q) == {g \in GposOf(gpos, t) : g.name = q}
Found(t, q) == q = "" \/ (q = "domain" /\ IsLinked(t)) \/ Hits(t, q) # {}
\* The target picked, or the first one found.
Selected(picked, q) ==
    {t \in DOMAIN gpos : Found(t, q) /\ (picked \in DOMAIN gpos /\ Found(picked, q) => t = picked)}
\* The rows of the selected target: all of them when the search found the target itself.
GpoRows(t, k, q) ==
    {i \in DOMAIN GpoList(gpos, t, k) : Hits(t, q) = {} \/ GpoList(gpos, t, k)[i].name = q}
\* A row that some search and selection shows.
Reachable(t, k, i) ==
    \E picked \in GpoTargets, q \in Queries : t \in Selected(picked, q) /\ i \in GpoRows(t, k, q)

Quiet == gpoDialog = Closed
MayChange == Quiet /\ gposMade < MaxMade    \* bound: no dialog without a change left
\* What the page offers: in the row of a GPO, in the detail of a target, above the list.
OfGpo(t, k, i) == MayChange /\ Reachable(t, k, i)
OfTarget(t) == MayChange /\ t \in DOMAIN gpos
Addable == GpoTargets \ DOMAIN gpos
Sheet(t, k, i, original, reference, value) ==
    gpoDialog' = [is |-> "sheet", target |-> t, kind |-> k, index |-> i, opened |-> original,
               reference |-> reference, value |-> value, touched |-> 0]

\* The saved version of a GPO of this name, or the GPO as it is.
Reference(t, k, g) ==
    LET list == GpoList(gposBase, t, k)
        saved == {i \in DOMAIN list : list[i].name = g.name} IN
    IF saved = {} THEN g ELSE list[CHOOSE i \in saved : \A j \in saved : i <= j]

OpenGpo(t, k, i) ==
    /\ OfGpo(t, k, i)
    /\ LET g == GpoList(gpos, t, k)[i] IN Sheet(t, k, i, g, Reference(t, k, g), g)
    /\ UNCHANGED <<gposStored, gposBase, gpos, gposMade>>

NewGpoFor(t, k) ==
    /\ OfTarget(t) /\ NextLinkOrder(gpos, t) <= MaxOrder
    /\ Sheet(t, k, 0, Closed, Closed, NewGpo(gpos, t, k))
    /\ UNCHANGED <<gposStored, gposBase, gpos, gposMade>>

\* The copy gets a name of its own, and the next link order.
DuplicateGpo(t, k, i) ==
    /\ OfGpo(t, k, i) /\ NextLinkOrder(gpos, t) <= MaxOrder
    /\ \E n \in GpoNames \ {GpoList(gpos, t, k)[i].name} :
         LET g == GpoList(gpos, t, k)[i]
             nextOrder == IF IsLinked(t) /\ g.linkOrder # 0 THEN NextLinkOrder(gpos, t)
                          ELSE g.linkOrder
         IN Sheet(t, k, 0, Closed, Closed, [g EXCEPT !.name = n, !.linkOrder = nextOrder])
    /\ UNCHANGED <<gposStored, gposBase, gpos, gposMade>>

ToggleLink(t, k, i) ==
    /\ Quiet /\ Reachable(t, k, i) /\ IsLinked(t)
    /\ LET g == [GpoList(gpos, t, k)[i] EXCEPT !.linkEnabled = ~@]
       IN SetContent(ReplaceGpo(gpos, t, k, i, Renewed(g)))
    /\ UNCHANGED gpoDialog

AddTargetKey(t) ==
    /\ Quiet /\ t \in Addable
    /\ SetContent(AddTarget(gpos, t))
    /\ UNCHANGED gpoDialog

-----------------------------------------------------------------------------
(***************************************************************************)
(* The sheet.                                                              *)
(***************************************************************************)
Touch ==
    /\ gpoDialog.is = "sheet" /\ gpoDialog.touched < MaxTouched
    /\ \E v \in ChangedFields(gpoDialog.value, gpoDialog.kind) \ {gpoDialog.value} :
          gpoDialog' = [gpoDialog EXCEPT !.value = v, !.touched = @ + 1]
    /\ UNCHANGED <<gposStored, gposBase, gpos, gposMade>>

Changed(d) ==
    d.opened # Closed =>
       Value(Finalized(d.value, d.reference)) # Value(d.opened)

PlaceByIndex(entries, d) == d.index    \* mutant
\* The GPO that was opened, wherever it is by now; 0 when it is gone.
Place(entries, d) ==
    IF d.index \in DOMAIN entries /\ entries[d.index] = d.opened THEN d.index
    ELSE LET at == {i \in DOMAIN entries : entries[i] = d.opened} IN
         IF at = {} THEN 0 ELSE CHOOSE i \in at : TRUE

\* With a mistake in a field, or without its target, the sheet stays open.
SubmitGpo ==
    /\ gpoDialog.is = "sheet" /\ Changed(gpoDialog) /\ gpoDialog.target \in DOMAIN gpos
    /\ LET d == gpoDialog
           entries == GpoList(gpos, d.target, d.kind)
           new == d.opened = Closed
           at == IF new THEN 0 ELSE Place(entries, d)
           final == Finalized(d.value, d.reference)
       IN IF ~new /\ at = 0 THEN UNCHANGED <<gposStored, gposBase, gpos, gposMade>>
          ELSE /\ ValidGpo(final, gpos, d.target, d.kind, at)
               /\ SetContent(IF new
                             THEN SetGpoList(gpos, d.target, d.kind,
                                             Append(entries, Renewed(final)))
                             ELSE ReplaceGpo(gpos, d.target, d.kind, at, Renewed(final)))
    /\ gpoDialog' = Closed

CloseDialog ==
    /\ ~Quiet /\ gpoDialog' = Closed
    /\ UNCHANGED <<gposStored, gposBase, gpos, gposMade>>

-----------------------------------------------------------------------------
(***************************************************************************)
(* Removing and moving.                                                    *)
(***************************************************************************)
AskRemove(t, k, i) ==
    /\ OfGpo(t, k, i)
    /\ gpoDialog' = [is |-> "remove", target |-> t, kind |-> k, index |-> i,
                  opened |-> GpoList(gpos, t, k)[i]]
    /\ UNCHANGED <<gposStored, gposBase, gpos, gposMade>>

RemoveGpo ==
    /\ gpoDialog.is = "remove"
    /\ LET entries == GpoList(gpos, gpoDialog.target, gpoDialog.kind)
           at == Place(entries, gpoDialog) IN
       IF at = 0 THEN UNCHANGED <<gposStored, gposBase, gpos, gposMade>>
       ELSE SetContent(SetGpoList(gpos, gpoDialog.target, gpoDialog.kind, RemoveAt(entries, at)))
    /\ gpoDialog' = Closed

AskRemoveTarget(t) ==
    /\ OfTarget(t)
    /\ gpoDialog' = [is |-> "removeTarget", target |-> t]
    /\ UNCHANGED <<gposStored, gposBase, gpos, gposMade>>

RemoveTargetKey ==
    /\ gpoDialog.is = "removeTarget"
    /\ SetContent(RemoveTarget(gpos, gpoDialog.target))
    /\ gpoDialog' = Closed

MoveKind(t, k, i) ==
    /\ OfGpo(t, k, i)
    /\ gpoDialog' = [is |-> "move", target |-> t, kind |-> k, index |-> i,
                  opened |-> GpoList(gpos, t, k)[i],    \* ghost: the dialog keeps the place only
                  dest |-> t, into |-> IF k = ImportOnly THEN PostConfigure ELSE ImportOnly]
    /\ UNCHANGED <<gposStored, gposBase, gpos, gposMade>>

ChooseDestination(t, k) ==
    /\ gpoDialog.is = "move" /\ t \in DOMAIN gpos
    /\ gpoDialog' = [gpoDialog EXCEPT !.dest = t, !.into = k]
    /\ UNCHANGED <<gposStored, gposBase, gpos, gposMade>>

\* The target that was chosen has another GPO of this name, in whichever list.
Clash(g, d) ==
    TakesName(gpos, d.dest, d.kind, IF d.dest = d.target THEN d.index ELSE 0, g.name)

\* The dialog stays open with a message when the GPO or the target is gone or the
\* name is taken.
SubmitMove ==
    /\ gpoDialog.is = "move"
    /\ <<gpoDialog.dest, gpoDialog.into>> # <<gpoDialog.target, gpoDialog.kind>>
    /\ LET d == gpoDialog  src == GpoList(gpos, d.target, d.kind) IN
       /\ d.index \in DOMAIN src /\ d.dest \in DOMAIN gpos
       /\ ~Clash(src[d.index], d)
       /\ LET links == d.dest # d.target /\ IsLinked(d.dest) /\ src[d.index].linkOrder = 0
              g == IF links THEN Renewed([src[d.index] EXCEPT !.linkEnabled = FALSE,
                                             !.linkOrder = NextLinkOrder(gpos, d.dest)])
                   ELSE src[d.index]
              rest == SetGpoList(gpos, d.target, d.kind, RemoveAt(src, d.index))
          IN /\ links => g.linkOrder <= MaxOrder
             /\ SetContent(SetGpoList(rest, d.dest, d.into,
                                      Append(GpoList(rest, d.dest, d.into), g)))
    /\ gpoDialog' = Closed

-----------------------------------------------------------------------------
(***************************************************************************)
(* The service, and what the page reads from it.                           *)
(***************************************************************************)
Disturbs == QuietMoves => gpoDialog.is # "move"

OthersSaveGpos(c) ==
    /\ Values(c) # Values(gposStored) /\ gposStored' = c
    /\ UNCHANGED <<gposBase, gpos, gpoDialog, gposMade>>

\* A draft stays; without one the page shows the new answer at once.
Refetch ==
    /\ Disturbs /\ Values(gposStored) # Values(gposBase) /\ gposMade < MaxMade
    /\ gposMade' = gposMade + 1
    /\ gposBase' = Shared(gposStored, gposBase)
    /\ gpos' = IF Unsaved THEN gpos ELSE gposBase'
    /\ UNCHANGED <<gposStored, gpoDialog>>

\* A save on top of the version the draft began with (ConfigEditing has the others).
SaveGpos ==
    /\ Disturbs /\ Unsaved /\ Values(gposStored) = Values(gposBase) /\ gposMade < MaxMade
    /\ gposMade' = gposMade + 1
    /\ gposStored' = gpos /\ gposBase' = Shared(gpos, gposBase) /\ gpos' = gposBase'
    /\ UNCHANGED gpoDialog

DiscardGpos ==
    /\ Quiet /\ Unsaved /\ gpos' = gposBase
    /\ UNCHANGED <<gposStored, gposBase, gpoDialog, gposMade>>

-----------------------------------------------------------------------------
GpoInit ==
    /\ gposStored \in GposOffered /\ gposBase = gposStored /\ gpos = gposStored
    /\ gpoDialog = Closed /\ gposMade = 0

GpoNext ==
    \/ \E t \in GpoTargets, k \in Kinds :
        \/ \E i \in DOMAIN GpoList(gpos, t, k) :
              OpenGpo(t, k, i) \/ DuplicateGpo(t, k, i) \/ ToggleLink(t, k, i)
              \/ AskRemove(t, k, i) \/ MoveKind(t, k, i)
        \/ NewGpoFor(t, k) \/ ChooseDestination(t, k)
    \/ \E t \in GpoTargets : AddTargetKey(t) \/ AskRemoveTarget(t)
    \/ Touch \/ SubmitGpo \/ CloseDialog \/ RemoveGpo \/ RemoveTargetKey \/ SubmitMove
    \/ \E c \in GposOffered : OthersSaveGpos(c)
    \/ Refetch \/ SaveGpos \/ DiscardGpos

GpoSpec == GpoInit /\ [][GpoNext]_gpoVars

-----------------------------------------------------------------------------
GpoType ==
    /\ IsSection(gposStored) /\ IsSection(gposBase) /\ IsSection(gpos)
    /\ gpoDialog.is \in {"closed", "sheet", "move", "remove", "removeTarget"}
    /\ gpoDialog.is = "sheet" => gpoDialog.value \in Gpos
    /\ gposMade \in 0..MaxMade

(***************************************************************************)
(* A target never has two GPOs of one name, in whichever of its lists: the *)
(* script finds a GPO by its name (gpo-model.ts validateGpo, gpo-editor.tsx *)
(* MoveDialog).                                                            *)
(***************************************************************************)
UniqueNames(c) ==
    \A t \in DOMAIN c : \A k \in Kinds : \A i \in DOMAIN c[t][k] :
        ~TakesName(c, t, k, i, c[t][k][i].name)
GposAreUnique == UniqueNames(gpos)

(***************************************************************************)
(* What is confirmed or submitted in a dialog takes away no GPO but the    *)
(* one the dialog was opened for, whatever the list has become since       *)
(* (gpo-editor.tsx: "The list may have changed while the sheet was open"). *)
(***************************************************************************)
EditsWhatWasOpened ==
    [][gpoDialog.is \in {"sheet", "remove", "move"} /\ gpoDialog' = Closed =>
         \A p \in Placed(gpos) \ Placed(gpos') :
             /\ gpoDialog.opened # Closed
             /\ p = <<gpoDialog.target, gpoDialog.kind, Value(gpoDialog.opened)>>]_gpoVars

(***************************************************************************)
(* A list that was filled and emptied again in the sheet leaves nothing to *)
(* apply (gpo-model.ts: "so the JSON does not change needlessly").         *)
(***************************************************************************)
Emptied(v, none) == IF v \in {Missing, EmptyArray} THEN none ELSE v
SameButEmpty(a, b) ==
    /\ [Value(a) EXCEPT !.deny = Missing, !.restricted = Missing]
     = [Value(b) EXCEPT !.deny = Missing, !.restricted = Missing]
    /\ Emptied(a.deny, Has({})) = Emptied(b.deny, Has({}))
    /\ Emptied(a.restricted, Has(NoGroups)) = Emptied(b.restricted, Has(NoGroups))
NothingNeedless ==
    gpoDialog.is = "sheet" /\ gpoDialog.opened # Closed =>
        (gpoDialog.reference = gpoDialog.opened /\ SameButEmpty(gpoDialog.value, gpoDialog.opened)
            => ~Changed(gpoDialog))
=============================================================================
