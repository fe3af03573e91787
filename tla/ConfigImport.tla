---------------------------- MODULE ConfigImport ----------------------------
(***************************************************************************)
(* The import of a configuration from a file or from another instance: the *)
(* page /konfiguration/import and the service behind it.  The service      *)
(* keeps a preview (what came in, compared with what is stored) under an   *)
(* id; other replacement rules make a new preview with a new id.  Applying *)
(* one checks all versions first and then saves section by section, while  *)
(* other sessions save as well and every answer of the service comes late  *)
(* or not at all.                                                          *)
(***************************************************************************)
EXTENDS Naturals, Sequences, FiniteSets

CONSTANTS Areas,       \* the sections, in the order in which they are saved
          Origin,      \* the sources: files and other instances
          RuleSets,    \* replacement rules
          NoRules,     \* ... none
          Texts,       \* contents of a section
          NotThere,    \* the source does not contain the section
          Broken,      \* the source contains something that cannot be read
          Offer,       \* what a source contains after the replacements
          Stored,      \* what the service stores at first: versions per section
          MaxPreviews, \* bound: previews made
          MaxVersions, \* bound: versions of a section after a save by others
          QuietImport  \* bound: the page is not left for another source
                       \* while an answer is on its way

KeySet == {Areas[i] : i \in 1..Len(Areas)}

ASSUME ImportAssumption ==
    /\ Areas \in Seq(KeySet) /\ \A i, j \in 1..Len(Areas) : Areas[i] = Areas[j] => i = j
    /\ NoRules \in RuleSets
    /\ Offer \in [Origin -> [RuleSets -> [KeySet -> Texts \cup {NotThere, Broken}]]]
    /\ Stored \in [KeySet -> Seq(Texts)]
    /\ {MaxPreviews, MaxVersions} \subseteq Nat /\ QuietImport \in BOOLEAN

VARIABLES versions,     \* service: the versions of every section
          previews,     \* service: the previews on disk
          previewsMade, \* bound: previews made so far
          source,       \* page: where to import from
          preview,      \* page: the preview shown (a set of at most one)
          selected,     \* page: the sections to import
          commented,    \* page: a comment is given
          conflicted,   \* page: the conflict is shown
          imported,     \* page: the result is shown
          chosenRules,  \* page: the replacement rules typed
          issues,       \* page: the selection whose problems are shown
          checks,       \* page: validations on their way
          importCalls,  \* page: load, refresh and apply on their way
          follows,      \* bound: what a behaviour follows, imports or validations
          declined,     \* history: sections shown, and unticked by the user
          blind         \* history: a save replaced what the page had not shown

importVars == <<versions, previews, previewsMade, source, preview, selected, commented, conflicted,
                imported, chosenRules, issues, checks, importCalls, follows, declined, blind>>
serviceVars == <<versions, previews, previewsMade, follows>>
pageVars == <<source, preview, selected, commented, conflicted, imported, chosenRules, issues,
              declined>>

\* A call: what was asked, and how far the service is with it.
Tasks == {"load", "refresh", "apply"}
Call(task) == {c \in importCalls : c.task = task}
Underway(task) == Call(task) # {}
NoPreview == [id |-> 0, source |-> CHOOSE s \in Origin : TRUE, rules |-> NoRules,
              base |-> [k \in KeySet |-> 0], incoming |-> [k \in KeySet |-> NotThere],
              status |-> [k \in KeySet |-> "missing"]]
NewCall(task, s, r, shownId, keys, shown) ==
    [task |-> task, source |-> s, rules |-> r, id |-> shownId, keys |-> keys, shown |-> shown,
     step |-> "sent", made |-> NoPreview]

Importable(p) == {k \in KeySet : p.status[k] \in {"changed", "new"}}

-----------------------------------------------------------------------------
(***************************************************************************)
(* The service.                                                            *)
(***************************************************************************)
StatusOf(text, k) ==
    CASE text = NotThere -> "missing"
      [] text = Broken -> "invalid"
      [] versions[k] = <<>> /\ text \in Texts -> "new"
      [] versions[k] # <<>> /\ text \in Texts ->
             IF versions[k][Len(versions[k])] = text THEN "unchanged" ELSE "changed"

CreatePreview(s, r) ==
    [id |-> previewsMade + 1, source |-> s, rules |-> r,
     base |-> [k \in KeySet |-> Len(versions[k])], incoming |-> Offer[s][r],
     status |-> [k \in KeySet |-> StatusOf(Offer[s][r][k], k)]]

Find(id) == {p \in previews : p.id = id}

Moves(c, step) == importCalls' = (importCalls \ {c}) \cup {[c EXCEPT !.step = step]}
Answers(c, step, p) ==
    importCalls' = (importCalls \ {c}) \cup {[c EXCEPT !.step = step, !.made = p]}

\* An upload or the other instance becomes a preview, or cannot be read.
MakePreview(c) ==
    /\ c.step = "sent" /\ c.task = "load"
    /\ \/ Moves(c, "refused") /\ UNCHANGED <<previews, previewsMade>>
       \/ /\ previewsMade < MaxPreviews
          /\ previews' = previews \cup {CreatePreview(c.source, c.rules)}
          /\ previewsMade' = previewsMade + 1
          /\ Answers(c, "answered", CreatePreview(c.source, c.rules))
    /\ UNCHANGED <<versions, follows, pageVars, checks, blind>>

\* The same source with other rules: a new preview in place of the old one.
Recompute(c) ==
    /\ c.step = "sent" /\ c.task = "refresh"
    /\ \/ Find(c.id) = {} /\ Moves(c, "refused") /\ UNCHANGED <<previews, previewsMade>>
       \/ \E p \in Find(c.id) :
            /\ previewsMade < MaxPreviews
            /\ previews' = (previews \ {p}) \cup {CreatePreview(p.source, c.rules)}
            /\ previewsMade' = previewsMade + 1
            /\ Answers(c, "answered", CreatePreview(p.source, c.rules))
    /\ UNCHANGED <<versions, follows, pageVars, checks, blind>>

Stale(p, keys) == {k \in keys : Len(versions[k]) # p.base[k]}

\* All base versions are checked before anything is written.
CheckImport(c) ==
    /\ c.step = "sent" /\ c.task = "apply"
    /\ \/ Find(c.id) = {} /\ Moves(c, "expired")
       \/ \E p \in Find(c.id) :
            IF Stale(p, c.keys) # {} THEN Moves(c, "conflict") ELSE Answers(c, "saving", p)
    /\ UNCHANGED <<serviceVars, pageVars, checks, blind>>

NextToSave(keys) == CHOOSE k \in keys : \A i, j \in 1..Len(Areas) :
                        Areas[i] = k /\ Areas[j] \in keys => i <= j

SavesOverNewest(p, k) == Len(versions[k])    \* mutant
\* The version a save of the import replaces.
SavesOver(p, k) == p.base[k]

\* One section after the other, each against the version it was compared with.
SaveNext(c) ==
    /\ c.step = "saving" /\ c.keys # {}
    /\ LET k == NextToSave(c.keys)
       IN IF SavesOver(c.made, k) # Len(versions[k])
          THEN Moves(c, "conflict") /\ UNCHANGED <<versions, blind>>
          ELSE /\ versions' = [versions EXCEPT ![k] = Append(@, c.made.incoming[k])]
               /\ blind' = (blind \/ c.shown.base[k] # Len(versions[k])
                                  \/ c.shown.incoming[k] # c.made.incoming[k])
               /\ importCalls' = (importCalls \ {c}) \cup {[c EXCEPT !.keys = @ \ {k}]}
    /\ UNCHANGED <<previews, previewsMade, follows, pageVars, checks>>

ImportDone(c) ==
    /\ c.step = "saving" /\ c.keys = {}
    /\ previews' = previews \ Find(c.id)
    /\ Moves(c, "answered")
    /\ UNCHANGED <<versions, previewsMade, follows, pageVars, checks, blind>>

\* Previews are kept for a day.
ExpirePreview(p) ==
    /\ previews' = previews \ {p}
    /\ UNCHANGED <<versions, previewsMade, follows, pageVars, checks, importCalls, blind>>

SavedElsewhere(k, text) ==
    /\ follows = "imports"
    /\ Len(versions[k]) < MaxVersions
    /\ versions[k] # <<>> => versions[k][Len(versions[k])] # text
    /\ versions' = [versions EXCEPT ![k] = Append(@, text)]
    /\ UNCHANGED <<previews, previewsMade, follows, pageVars, checks, importCalls, blind>>

-----------------------------------------------------------------------------
(***************************************************************************)
(* The page: source, preview, result.                                      *)
(***************************************************************************)
OnSource == preview = {} /\ ~imported
OnPreview == preview # {} /\ ~imported
Displayed == CHOOSE p \in preview : TRUE

\* A validation of the selection starts a moment after it changed; one for an
\* earlier selection is given up.
Heeds(v) == v.live
\* (The answers to those given up before that one are not followed any further.)
GivenUp == {[v EXCEPT !.live = FALSE] : v \in {w \in checks : w.sent /\ w.live /\ ~w.failed}}
Validation(p, keys) == [id |-> p.id, keys |-> keys, sent |-> FALSE, found |-> FALSE,
                        live |-> TRUE, failed |-> FALSE]
Validates(p, keys) ==
    checks' = IF follows = "validations" THEN GivenUp \cup {Validation(p, keys)} ELSE {}

\* A preview is shown: everything it would change is selected.
Adopt(p, keys) ==
    /\ preview' = {p}
    /\ selected' = keys
    /\ conflicted' = FALSE
    /\ chosenRules' = p.rules
    /\ issues' = [id |-> p.id, keys |-> Importable(p)]

\* The user's choice where it still applies, and what has become importable.
Kept(p) == {k \in Importable(p) :
               k \in selected \/ \A old \in preview : k \notin Importable(old)}

ChooseSource(s) ==
    /\ OnSource /\ (QuietImport => importCalls = {})
    /\ source' = s /\ s # source
    /\ UNCHANGED <<serviceVars, preview, selected, commented, conflicted, imported, chosenRules,
                   issues, checks, importCalls, declined, blind>>

Load ==
    /\ OnSource /\ ~Underway("load")
    /\ QuietImport => importCalls = {}
    /\ importCalls' = importCalls \cup {NewCall("load", source, NoRules, 0, {}, NoPreview)}
    /\ UNCHANGED <<serviceVars, pageVars, checks, blind>>

LoadArrives(c) ==
    /\ c.task = "load" /\ c.step = "answered"
    /\ importCalls' = importCalls \ {c}
    /\ Adopt(c.made, Importable(c.made))
    /\ declined' = {}
    /\ IF OnPreview THEN Validates(c.made, Importable(c.made)) ELSE UNCHANGED checks
    /\ UNCHANGED <<serviceVars, source, commented, imported, blind>>

SelectArea(k, on) ==
    /\ OnPreview /\ k \in Importable(Displayed)
    /\ (k \in selected) # on
    /\ selected' = IF on THEN selected \cup {k} ELSE selected \ {k}
    /\ declined' = IF on THEN declined \ {k} ELSE declined \cup {k}
    /\ Validates(Displayed, selected')
    /\ UNCHANGED <<serviceVars, source, preview, commented, conflicted, imported, chosenRules,
                   issues, importCalls, blind>>

SelectAll(on) ==
    /\ OnPreview /\ Cardinality(Importable(Displayed)) > 1
    /\ selected' = IF on THEN Importable(Displayed) ELSE {}
    /\ selected' # selected
    /\ declined' = IF on THEN {} ELSE Importable(Displayed)
    /\ Validates(Displayed, selected')
    /\ UNCHANGED <<serviceVars, source, preview, commented, conflicted, imported, chosenRules,
                   issues, importCalls, blind>>

TypeComment ==
    /\ follows = "imports" /\ OnPreview /\ ~commented /\ commented' = TRUE
    /\ UNCHANGED <<serviceVars, source, preview, selected, conflicted, imported, chosenRules,
                   issues, checks, importCalls, declined, blind>>

TypeRules(r) ==
    /\ OnPreview /\ chosenRules # r /\ chosenRules' = r
    /\ UNCHANGED <<serviceVars, source, preview, selected, commented, conflicted, imported,
                   issues, checks, importCalls, declined, blind>>

\* "Apply and refresh" with the rules typed; after a conflict with those shown.
Refresh ==
    /\ OnPreview /\ ~Underway("refresh")
    /\ \E r \in {chosenRules, Displayed.rules} :
         /\ r = chosenRules => chosenRules # Displayed.rules
         /\ r # chosenRules \/ r = Displayed.rules => conflicted
         /\ importCalls' = importCalls \cup
                 {NewCall("refresh", Displayed.source, r, Displayed.id, {}, NoPreview)}
    /\ UNCHANGED <<serviceVars, pageVars, checks, blind>>

RefreshArrives(c) ==
    /\ c.task = "refresh" /\ c.step = "answered"
    /\ importCalls' = importCalls \ {c}
    /\ Adopt(c.made, Kept(c.made))
    /\ declined' = {k \in declined \cap Importable(c.made) :
                       \E old \in preview : k \in Importable(old)}
    /\ IF OnPreview THEN Validates(c.made, Kept(c.made)) ELSE UNCHANGED checks
    /\ UNCHANGED <<serviceVars, source, commented, imported, blind>>

Apply ==
    /\ follows = "imports"
    /\ OnPreview /\ selected # {} /\ commented /\ ~Underway("apply")
    /\ importCalls' = importCalls \cup
            {NewCall("apply", Displayed.source, Displayed.rules, Displayed.id, selected, Displayed)}
    /\ UNCHANGED <<serviceVars, pageVars, checks, blind>>

\* What the cards of the preview kept ends with them; the selection is set
\* anew with the next preview.
NoIssues == [id |-> 0, keys |-> {}]
ClosesPreview ==
    /\ preview' = {} /\ selected' = {} /\ declined' = {} /\ checks' = GivenUp
    /\ chosenRules' = NoRules /\ issues' = NoIssues
    /\ UNCHANGED source

ApplyArrives(c) ==
    /\ c.task = "apply" /\ c.step = "answered"
    /\ importCalls' = importCalls \ {c}
    /\ imported' = TRUE /\ commented' = FALSE
    /\ ClosesPreview /\ UNCHANGED conflicted
    /\ UNCHANGED <<serviceVars, blind>>

ApplyConflicts(c) ==
    /\ c.task = "apply" /\ c.step = "conflict"
    /\ importCalls' = importCalls \ {c}
    /\ conflicted' = TRUE
    /\ UNCHANGED <<serviceVars, source, preview, selected, commented, imported, chosenRules,
                   issues, checks, declined, blind>>

ApplyExpired(c) ==
    /\ c.task = "apply" /\ c.step = "expired"
    /\ importCalls' = importCalls \ {c}
    /\ ClosesPreview
    /\ UNCHANGED <<serviceVars, commented, conflicted, imported, blind>>

\* Refused, or the answer is lost, whatever the service made of the call.
CallFails(c) ==
    /\ c.step \notin {"saving"}
    /\ importCalls' = importCalls \ {c}
    /\ UNCHANGED <<serviceVars, pageVars, checks, blind>>

\* "Other source", and "start another import" below the result.
Restart ==
    /\ preview # {} \/ imported
    /\ QuietImport => importCalls = {}
    /\ imported' = FALSE /\ conflicted' = FALSE
    /\ ClosesPreview
    /\ UNCHANGED <<serviceVars, commented, importCalls, blind>>

\* The service looks the preview up when it gets the request.
SendValidation(v) ==
    /\ ~v.sent
    /\ checks' = (checks \ {v}) \cup {[v EXCEPT !.sent = TRUE, !.found = Find(v.id) # {}]}
    /\ UNCHANGED <<serviceVars, pageVars, importCalls, blind>>

ValidationArrives(v) ==
    /\ v.sent /\ v.found /\ ~v.failed /\ checks' = checks \ {v}
    /\ issues' = IF Heeds(v) THEN [id |-> v.id, keys |-> v.keys] ELSE issues
    /\ UNCHANGED <<serviceVars, source, preview, selected, commented, conflicted, imported,
                   chosenRules, importCalls, declined, blind>>

\* Nothing is shown of a validation that fails: the problems stay as they were.
\* (It stays among the checks as a mark that they are older.)
ValidationFails(v) ==
    /\ v.sent /\ ~v.failed
    /\ checks' = (checks \ {v}) \cup (IF v.live THEN {[v EXCEPT !.failed = TRUE]} ELSE {})
    /\ UNCHANGED <<serviceVars, pageVars, importCalls, blind>>

-----------------------------------------------------------------------------
ImportInit ==
    /\ versions = Stored /\ previews = {} /\ previewsMade = 0
    /\ follows \in {"imports", "validations"}
    /\ source \in Origin /\ preview = {} /\ selected = {}
    /\ commented = FALSE /\ conflicted = FALSE /\ imported = FALSE
    /\ chosenRules = NoRules /\ issues = NoIssues
    /\ checks = {} /\ importCalls = {} /\ declined = {} /\ blind = FALSE

ImportNext ==
    \/ \E c \in importCalls :
        \/ MakePreview(c) \/ Recompute(c) \/ CheckImport(c) \/ SaveNext(c) \/ ImportDone(c)
        \/ LoadArrives(c) \/ RefreshArrives(c)
        \/ ApplyArrives(c) \/ ApplyConflicts(c) \/ ApplyExpired(c) \/ CallFails(c)
    \/ \E p \in previews : ExpirePreview(p)
    \/ \E k \in KeySet, text \in Texts : SavedElsewhere(k, text)
    \/ \E s \in Origin : ChooseSource(s)
    \/ Load \/ Refresh \/ Apply \/ Restart
    \/ \E k \in KeySet, on \in BOOLEAN : SelectArea(k, on)
    \/ \E on \in BOOLEAN : SelectAll(on)
    \/ TypeComment
    \/ \E r \in RuleSets : TypeRules(r)
    \/ \E v \in checks : SendValidation(v) \/ ValidationArrives(v) \/ ValidationFails(v)

ImportSpec == ImportInit /\ [][ImportNext]_importVars

-----------------------------------------------------------------------------
ImportType ==
    /\ versions \in [KeySet -> Seq(Texts)]
    /\ \A p \in previews : p.id \in 1..previewsMade
    /\ source \in Origin /\ Cardinality(preview) <= 1
    /\ \A p \in preview : selected \subseteq Importable(p)
    /\ {commented, conflicted, imported, blind} \subseteq BOOLEAN
    /\ chosenRules \in RuleSets /\ declined \subseteq KeySet
    /\ \A task \in Tasks : Cardinality(Call(task)) <= 1

(***************************************************************************)
(* An import replaces exactly the versions it was compared with, by what   *)
(* the page showed when it was confirmed (import-page.tsx shows the        *)
(* changes; ImportService: "a section changed since the preview aborts the *)
(* whole import").                                                         *)
(***************************************************************************)
ImportsWhatWasShown == ~blind

(***************************************************************************)
(* A section the user has unticked stays so while it could be imported,    *)
(* also when the preview is made anew (import-page.tsx: "Keep the user's   *)
(* choice where it still applies").                                        *)
(***************************************************************************)
DeclinedStaysOut == preview # {} => declined \cap selected = {}

(***************************************************************************)
(* When no validation is on its way, and the last one has not failed, the  *)
(* problems shown are those of the preview and of the selection shown.     *)
(***************************************************************************)
IssuesAreOfTheSelection ==
    follows = "validations" /\ preview # {} /\ (\A v \in checks : ~v.live)
        => issues = [id |-> Displayed.id, keys |-> selected]
=============================================================================
