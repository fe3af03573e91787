--------------------------- MODULE ConfigEditing ---------------------------
(***************************************************************************)
(* Editing the configuration in one browser tab: the pages under           *)
(* /konfiguration, the dialog that saves the drafts, the versions sheet,   *)
(* the switch between domains, and the session, against the server that    *)
(* other sessions write to as well.                                        *)
(*                                                                         *)
(* The server answers a request when it is sent and the answer arrives at  *)
(* any time later, in any order.  What a page keeps of its own (dialogs)   *)
(* ends with the page; the store, the query cache and requests that are on *)
(* their way live until the tab loads the application anew.                *)
(***************************************************************************)
EXTENDS DraftStore, FiniteSets, SequencesExt

CONSTANTS NoKey, NoDialog,
          FirstContent,  \* what every section holds before anybody writes
          QuietLeave,    \* no dialog, page or domain is left while an answer is on its way
          QuietDialogs,  \* no section is loaded or given up while a dialog holds a copy of it
          Scopes,        \* bound: sets of <<domain, section>>, a behaviour works on one
          MaxFetches,    \* bound: sections being loaded at a time
          MaxSaves,      \* bound: save loops running at a time
          MaxWrites,     \* bound: versions written to the server in all
          MaxEdits,      \* bound: changes of the drafts; a redo brings one back
          MaxLogins      \* bound: sign-ins at the login page, and sessions that end before one

ASSUME EditingAssumption ==
    /\ IsFiniteSet(Sections) /\ NoKey \notin Sections
    /\ {QuietLeave, QuietDialogs} \subseteq BOOLEAN
    /\ {MaxFetches, MaxSaves, MaxWrites, MaxEdits, MaxLogins} \subseteq Nat
    /\ FirstContent \in Contents /\ Scopes \subseteq SUBSET (Domains \X Sections)

VARIABLES scope,     \* bound: see Scopes
          server,    \* per domain and section the contents of its versions
          signedIn,  \* somebody is signed in (the query auth/me)
          domain,    \* the selected domain (lib/domain.ts)
          store,     \* the draft store of that domain
          parked,    \* those of the domains left before
          cached,    \* per domain the sections the query cache holds
          fetches,   \* sections on their way to the browser
          loops,     \* save loops, each waiting for an answer
          restores,  \* restored sections on their way to the browser
          dialog,    \* an item being edited or deleted, with what it was taken from
          saveDialog,\* "closed", "open", or "saving"
          conflict,  \* the section whose conflict is shown
          edits,     \* history: changes of the drafts
          logins,    \* history: sign-ins at the login page
          unseen     \* history: a save replaced what its author had not seen

page == <<dialog, saveDialog, conflict>>
net == <<fetches, loops, restores>>
vars == <<scope, server, signedIn, domain, store, parked, cached, net, page, edits, logins, unseen>>

Worked == {p[1] : p \in scope}

Section(d, k) == [domain |-> d, version |-> Len(server[d][k]), content |-> Last(server[d][k])]

Fetches == [key : Sections, section : Loaded, live : BOOLEAN, rebase : BOOLEAN, closes : BOOLEAN]
Loops == [rest : Seq(Sections), reply : {"saved", "conflict", "failed"},
          section : Loaded, owner : {"dialog", "page", "none"}]
\* What the menu of a row opens a dialog for.
RowMenu == {"edit", "delete"}
Dialogs == [kind : RowMenu, key : Sections, moved : BOOLEAN,
            value : [content : Contents, origin : Origins]]

\* Every value of the state has its type; the page shows a conflict only in
\* the dialog that saves.
TypeOK ==
    /\ scope \in Scopes /\ domain \in Worked
    /\ server \in [Domains -> [Sections -> Seq(Contents) \ {<<>>}]]
    /\ signedIn \in BOOLEAN
    /\ StoreType(store)
    /\ DOMAIN parked \subseteq Domains \ {domain}
    /\ \A d \in DOMAIN parked : StoreType(parked[d])
    /\ cached \in [Domains -> SUBSET Sections]
    /\ fetches \subseteq Fetches /\ loops \subseteq Loops
    /\ restores \subseteq [key : Sections, section : Loaded]
    /\ dialog \in Dialogs \cup {NoDialog}
    /\ saveDialog \in {"closed", "open", "saving"}
    /\ conflict \in Sections \cup {NoKey}
    /\ conflict # NoKey => saveDialog # "closed"
    /\ edits \in 0..MaxEdits /\ logins \in 0..MaxLogins /\ unseen \in BOOLEAN

Written == MapThenSumSet(LAMBDA p : Len(server[p[1]][p[2]]) - 1, Domains \X Sections)
Room(d, k) == Len(server[d][k]) < MaxVersion /\ Written < MaxWrites

\* The section when c is saved: the content it has already makes no new version.
SavedAs(d, k, c) ==
    [domain |-> d, content |-> c,
     version |-> Len(server[d][k]) + (IF c = Last(server[d][k]) THEN 0 ELSE 1)]
Save(d, k, c) ==
    IF c = Last(server[d][k]) THEN UNCHANGED server
    ELSE Room(d, k) /\ server' = [server EXCEPT ![d][k] = Append(@, c)]

Fresh(d) ==
    /\ domain' = d
    /\ store' = EmptyState /\ parked' = <<>>
    /\ cached' = [e \in Domains |-> {}]
    /\ fetches' = {} /\ loops' = {} /\ restores' = {}
    /\ dialog' = NoDialog /\ saveDialog' = "closed" /\ conflict' = NoKey

Init ==
    /\ server = [d \in Domains |-> [k \in Sections |-> <<FirstContent>>]]
    /\ scope \in Scopes
    /\ signedIn = TRUE /\ domain \in Worked
    /\ store = EmptyState /\ parked = <<>>
    /\ cached = [e \in Domains |-> {}]
    /\ fetches = {} /\ loops = {} /\ restores = {}
    /\ dialog = NoDialog /\ saveDialog = "closed" /\ conflict = NoKey
    /\ edits = 0 /\ logins = 0 /\ unseen = FALSE

-----------------------------------------------------------------------------
\* Other sessions.

OtherSave(d, k, c) ==
    /\ c # Last(server[d][k]) /\ Save(d, k, c)
    /\ UNCHANGED <<scope, signedIn, domain, store, parked, cached, net, page, edits, logins, unseen>>

-----------------------------------------------------------------------------
(***************************************************************************)
(* Loading sections.  A page, the search or a refetch on focus runs the    *)
(* query of a section; only one run of a query at a time is waited for     *)
(* (live).  The query function itself puts the answer into the store: it   *)
(* does so too when nobody waits for it any more.                          *)
(***************************************************************************)
Live(k) == {f \in fetches : f.live /\ f.key = k /\ f.section.domain = domain}

Fetch(k) ==
    /\ signedIn /\ <<domain, k>> \in scope
    /\ Live(k) = {} /\ Cardinality(fetches) < MaxFetches
    /\ fetches' = fetches \cup {[key |-> k, section |-> Section(domain, k),
                                 live |-> TRUE, rebase |-> FALSE, closes |-> FALSE]}
    /\ UNCHANGED <<scope, server, signedIn, domain, store, parked, cached, loops, restores,
                   page, edits, logins, unseen>>

\* The copy a dialog holds is no longer the object that is shown.
MovedAway(k) ==
    dialog' = IF dialog # NoDialog /\ dialog.key = k THEN [dialog EXCEPT !.moved = TRUE]
              ELSE dialog

CloseSavingOnly == saveDialog' = "closed" /\ UNCHANGED conflict    \* mutant

CloseSaving == saveDialog' = "closed" /\ conflict' = NoKey

\* What a save loop can still tell: its dialog, the page that opens and closes
\* the dialog, or nobody.
DialogGone(L) == {[l EXCEPT !.owner = IF @ = "none" THEN @ ELSE "page"] : l \in L}
PageGone(L) == {[l EXCEPT !.owner = "none"] : l \in L}

FetchArrives(f) ==
    /\ QuietDialogs => dialog = NoDialog
    /\ fetches' = fetches \ {f}
    /\ LET loaded == SetBase(store, f.section, f.key)
       IN store' = IF f.rebase THEN Rebased(loaded, f.key) ELSE loaded
    /\ cached' = IF f.live THEN [cached EXCEPT ![f.section.domain] = @ \cup {f.key}]
                 ELSE cached
    /\ IF f.key \in DOMAIN store.drafts THEN UNCHANGED dialog ELSE MovedAway(f.key)
    /\ IF f.closes THEN CloseSaving /\ loops' = DialogGone(loops)
       ELSE UNCHANGED <<saveDialog, conflict, loops>>
    /\ UNCHANGED <<scope, server, signedIn, domain, parked, restores, edits, logins, unseen>>

NoLongerAwaited(f) == [f EXCEPT !.live = FALSE, !.rebase = FALSE, !.closes = FALSE]

FetchFails(f) ==
    /\ fetches' = fetches \ {f}
    /\ IF f.closes THEN CloseSaving /\ loops' = DialogGone(loops)
       ELSE UNCHANGED <<saveDialog, conflict, loops>>
    /\ UNCHANGED <<scope, server, signedIn, domain, store, parked, cached, restores, dialog,
                   edits, logins, unseen>>

-----------------------------------------------------------------------------
(***************************************************************************)
(* Editing.  A field, the OU rename and the assistants compute the new     *)
(* contents from what the store holds at that moment.  The sheet of an     *)
(* item and the question before deleting one hold a copy: the sheet looks  *)
(* the item up again and gives up when it is not there any more, the       *)
(* deletion takes the list it was asked for.                               *)
(***************************************************************************)
Editable == {k \in cached[domain] : k \in Known(store)}
NoItemOpen == dialog = NoDialog    \* mutant

NothingOpen == dialog = NoDialog /\ saveDialog = "closed" /\ (QuietLeave => restores = {})

\* The dialog that saves opens with Ctrl+S over a sheet, and is above it.
ItemOnTop == dialog # NoDialog /\ saveDialog = "closed"

Changing == edits < MaxEdits /\ edits' = edits + 1

Draft(c, origin) == [content |-> c, origin |-> origin]

Edit(changes, tag, joins) ==
    /\ signedIn /\ NothingOpen /\ DOMAIN changes \subseteq Editable
    /\ joins => tag /\ store.tagged
    /\ \A k \in DOMAIN changes : changes[k] # Shown(store, k).content
    /\ store' = Applied(store, [k \in DOMAIN changes |->
                                  Draft(changes[k], Shown(store, k).origin)], tag, joins)
    /\ Changing
    /\ UNCHANGED <<scope, server, signedIn, domain, parked, cached, net, page, logins, unseen>>

OpenItem(kind, k) ==
    /\ signedIn /\ NothingOpen /\ k \in Editable
    /\ dialog' = [kind |-> kind, key |-> k, moved |-> FALSE, value |-> Shown(store, k)]
    /\ UNCHANGED <<scope, server, signedIn, domain, store, parked, cached, net, saveDialog, conflict,
                   edits, logins, unseen>>

Submit(c) ==
    /\ ItemOnTop /\ dialog.kind = "edit" /\ c # dialog.value.content
    /\ store' = IF dialog.moved THEN store
                ELSE LET draft == Draft(c, Shown(store, dialog.key).origin)
                     IN Applied(store, [k \in {dialog.key} |-> draft], FALSE, FALSE)
    /\ dialog' = NoDialog
    /\ Changing
    /\ UNCHANGED <<scope, server, signedIn, domain, parked, cached, net, saveDialog, conflict,
                   logins, unseen>>

ConfirmDelete(c) ==
    /\ ItemOnTop /\ dialog.kind = "delete" /\ c # dialog.value.content
    /\ store' = Applied(store, [k \in {dialog.key} |-> Draft(c, dialog.value.origin)],
                        FALSE, FALSE)
    /\ dialog' = NoDialog
    /\ Changing
    /\ UNCHANGED <<scope, server, signedIn, domain, parked, cached, net, saveDialog, conflict,
                   logins, unseen>>

CloseItem ==
    /\ ItemOnTop /\ dialog' = NoDialog
    /\ UNCHANGED <<scope, server, signedIn, domain, store, parked, cached, net, saveDialog, conflict,
                   edits, logins, unseen>>

Undo ==
    /\ signedIn /\ NothingOpen /\ store.past # <<>>
    /\ store' = Undone(store)
    /\ Changing
    /\ UNCHANGED <<scope, server, signedIn, domain, parked, cached, net, page, logins, unseen>>

Redo ==
    /\ signedIn /\ NothingOpen /\ store.future # <<>>
    /\ store' = Redone(store)
    /\ UNCHANGED <<scope, server, signedIn, domain, parked, cached, net, page, edits, logins, unseen>>

Discard(k) ==
    /\ signedIn /\ NothingOpen /\ IsDirtyIn(store, k)
    /\ store' = Discarded(store, k)
    /\ Changing
    /\ UNCHANGED <<scope, server, signedIn, domain, parked, cached, net, page, logins, unseen>>

-----------------------------------------------------------------------------
(***************************************************************************)
(* Saving.  The dialog saves the dirty sections one after the other; the   *)
(* next request is sent when the answer to the one before arrives.  Ctrl   *)
(* and Enter start another loop while one runs.  A section whose draft is  *)
(* gone is sent without a content, which the server refuses.               *)
(***************************************************************************)
Orders(K) == {q \in [1..Cardinality(K) -> K] : IsInjective(q)}

\* The request for the first section of rest, and what will come back.
Put(rest, s, owner, others) ==
    LET k == Head(rest)
        now == Section(domain, k)
        loop(reply, sec) == [rest |-> rest, reply |-> reply, section |-> sec, owner |-> owner]
    IN \/ /\ loops' = others \cup {loop("failed", now)}
          /\ UNCHANGED <<scope, server, unseen>>
       \/ /\ k \in DOMAIN s.drafts /\ BaseVersionOf(s, k) # now.version
          /\ loops' = others \cup {loop("conflict", now)}
          /\ UNCHANGED <<scope, server, unseen>>
       \/ /\ k \in DOMAIN s.drafts /\ BaseVersionOf(s, k) = now.version
          /\ LET c == s.drafts[k].content
             IN /\ Save(domain, k, c)
                /\ unseen' = (unseen \/ s.drafts[k].origin # OriginOf(now))
                /\ \E reply \in {"saved", "failed"} :
                     loops' = others \cup {loop(reply, SavedAs(domain, k, c))}

StartSave(keys) ==
    /\ signedIn /\ saveDialog # "closed" /\ conflict = NoKey
    /\ Cardinality(loops) < MaxSaves
    /\ saveDialog' = "saving"
    /\ Put(keys, store, "dialog", loops)
    /\ UNCHANGED <<scope, signedIn, domain, store, parked, cached, fetches, restores, dialog, conflict,
                   edits, logins>>

OpenSave ==
    /\ signedIn /\ saveDialog = "closed" /\ DirtyKeys(store) # {}
    /\ QuietLeave => restores = {}
    /\ saveDialog' = "open"
    /\ UNCHANGED <<scope, server, signedIn, domain, store, parked, cached, net, dialog, conflict,
                   edits, logins, unseen>>

CloseSave ==
    /\ saveDialog = "open" /\ conflict = NoKey
    /\ saveDialog' = "closed" /\ loops' = DialogGone(loops)
    /\ UNCHANGED <<scope, server, signedIn, domain, store, parked, cached, fetches, restores, dialog,
                   conflict, edits, logins, unseen>>

\* draftStore.saved, and the section as the answer of its query.
TakeSaved(sec, k) ==
    /\ QuietDialogs => dialog = NoDialog
    /\ store' = Saved(store, sec, k)
    /\ cached' = [cached EXCEPT ![domain] = @ \cup {k}]
    /\ MovedAway(k)

SavedNext(l) ==
    /\ l.reply = "saved" /\ Len(l.rest) > 1
    /\ TakeSaved(l.section, Head(l.rest))
    /\ Put(Tail(l.rest), store', l.owner, loops \ {l})
    /\ UNCHANGED <<scope, signedIn, domain, parked, fetches, restores, saveDialog, conflict, edits, logins>>

SavedLast(l) ==
    /\ l.reply = "saved" /\ Len(l.rest) = 1
    /\ TakeSaved(l.section, Head(l.rest))
    /\ IF l.owner # "none"
       THEN CloseSaving /\ loops' = DialogGone(loops \ {l})
       ELSE loops' = loops \ {l} /\ UNCHANGED <<saveDialog, conflict>>
    /\ UNCHANGED <<scope, server, signedIn, domain, parked, fetches, restores, edits, logins, unseen>>

NotSaved(l) ==
    /\ l.reply # "saved"
    /\ loops' = loops \ {l}
    /\ IF l.owner = "dialog"
       THEN /\ saveDialog' = "open"
            /\ conflict' = IF l.reply = "conflict" THEN Head(l.rest) ELSE conflict
       ELSE UNCHANGED <<saveDialog, conflict>>
    /\ UNCHANGED <<scope, server, signedIn, domain, store, parked, cached, fetches, restores, dialog,
                   edits, logins, unseen>>

(***************************************************************************)
(* The conflict: the draft is kept and moved to the version that is loaded *)
(* now (a run of the query that is on its way is joined), or it is         *)
(* discarded and the section loaded anew.                                  *)
(***************************************************************************)
DialogWaits == \E f \in fetches : f.closes

\* The dialog names the section and asks what to do.
Conflicted == conflict # NoKey /\ (QuietLeave => ~DialogWaits)

KeepEditing ==
    /\ Conflicted
    /\ Cardinality(fetches) < MaxFetches \/ Live(conflict) # {}
    /\ fetches' = (fetches \ Live(conflict)) \cup
          IF Live(conflict) # {}
          THEN {[f EXCEPT !.rebase = TRUE, !.closes = TRUE] : f \in Live(conflict)}
          ELSE {[key |-> conflict, section |-> Section(domain, conflict),
                 live |-> TRUE, rebase |-> TRUE, closes |-> TRUE]}
    /\ UNCHANGED <<scope, server, signedIn, domain, store, parked, cached, loops, restores, page,
                   edits, logins, unseen>>

\* A run that is on its way is given up; who waited for it goes on at once.
Reload ==
    /\ Conflicted
    /\ QuietDialogs => dialog = NoDialog
    /\ Cardinality(fetches) < MaxFetches \/ Live(conflict) # {}
    /\ store' = Discarded(store, conflict)
    /\ fetches' = (fetches \ Live(conflict))
          \cup {NoLongerAwaited(f) : f \in Live(conflict)}
          \cup {[key |-> conflict, section |-> Section(domain, conflict),
                  live |-> TRUE, rebase |-> FALSE, closes |-> TRUE]}
    /\ IF \E f \in Live(conflict) : f.closes
       THEN CloseSaving /\ loops' = DialogGone(loops)
       ELSE UNCHANGED <<saveDialog, conflict, loops>>
    /\ UNCHANGED <<scope, server, signedIn, domain, parked, cached, restores, dialog,
                   edits, logins, unseen>>

DismissConflict ==
    /\ Conflicted /\ conflict' = NoKey
    /\ UNCHANGED <<scope, server, signedIn, domain, store, parked, cached, net, dialog, saveDialog,
                   edits, logins, unseen>>

-----------------------------------------------------------------------------
\* The versions sheet: any version but the one that is loaded becomes the newest
\* one, whatever was saved meanwhile.  Its dialog may be closed before the answer
\* arrives.
Restorable(k) == 1..Len(server[domain][k]) \ {store.bases[k].version}

Restore(k, v) ==
    /\ signedIn /\ NothingOpen /\ k \in DOMAIN store.bases /\ restores = {}
    /\ v \in Restorable(k)
    /\ LET c == server[domain][k][v]
       IN /\ Save(domain, k, c)
          /\ restores' = {[key |-> k, section |-> SavedAs(domain, k, c)]}
    /\ UNCHANGED <<scope, signedIn, domain, store, parked, cached, fetches, loops, page, edits, logins, unseen>>

RestoreLost(r) ==
    /\ restores' = restores \ {r}
    /\ UNCHANGED <<scope, server, signedIn, domain, store, parked, cached, fetches, loops, page,
                   edits, logins, unseen>>

RestoreArrives(r) ==
    /\ restores' = restores \ {r}
    /\ TakeSaved(r.section, r.key)
    /\ UNCHANGED <<scope, server, signedIn, domain, parked, fetches, loops, saveDialog, conflict,
                   edits, logins, unseen>>

-----------------------------------------------------------------------------
(***************************************************************************)
(* Domains and the session.  The pages of another domain start fresh;      *)
(* save loops go on.  Queries of the domain that is left are no longer     *)
(* waited for.                                                             *)
(***************************************************************************)
PageEnds ==
    /\ dialog' = NoDialog /\ CloseSaving
    /\ loops' = PageGone(loops)

NoDialogWaits == {[f EXCEPT !.closes = FALSE] : f \in fetches}

SwitchedKeeping(s, d) == store' = s /\ parked' = parked    \* mutant

SwitchedTo(s, d) ==
    IF d = domain THEN store' = s /\ parked' = parked
    ELSE /\ store' = IF d \in DOMAIN parked THEN parked[d] ELSE EmptyState
         /\ parked' = With(Without(parked, {d}), domain, s)

SwitchDomain(d) ==
    /\ signedIn /\ d # domain
    /\ QuietLeave => fetches = {} /\ loops = {} /\ restores = {}
    /\ fetches' = {NoLongerAwaited(f) : f \in fetches}
    /\ domain' = d /\ SwitchedTo(store, d)
    /\ PageEnds
    /\ UNCHANGED <<scope, server, signedIn, cached, restores, edits, logins, unseen>>

\* The search and the palette open over a dialog and lead to another page.
Navigate ==
    /\ signedIn /\ (dialog # NoDialog \/ saveDialog # "closed")
    /\ QuietLeave => loops = {}
    /\ PageEnds /\ fetches' = NoDialogWaits
    /\ UNCHANGED <<scope, server, signedIn, domain, store, parked, cached, restores,
                   edits, logins, unseen>>

\* auth/me says that nobody is signed in: the login page, in the same tab.
SessionEnds ==
    /\ signedIn /\ signedIn' = FALSE /\ logins < MaxLogins
    /\ PageEnds /\ fetches' = NoDialogWaits
    /\ UNCHANGED <<scope, server, domain, store, parked, cached, restores, edits, logins, unseen>>

\* d is the domain remembered for the user.
Login(d) ==
    /\ ~signedIn /\ logins < MaxLogins
    /\ QuietLeave => fetches = {} /\ loops = {} /\ restores = {}
    /\ signedIn' = TRUE /\ logins' = logins + 1
    /\ domain' = d /\ SwitchedTo(AllDiscarded(store), d)
    /\ UNCHANGED <<scope, server, cached, net, page, edits, unseen>>

\* A full load of the application: a reload, signing out, or the redirect
\* after an answer 401.
LoadTab(in, d) ==
    /\ signedIn' = (signedIn /\ in) /\ Fresh(d)
    /\ UNCHANGED <<scope, server, edits, logins, unseen>>

-----------------------------------------------------------------------------
Changes == UNION {[K -> Contents] : K \in SUBSET Sections \ {{}}}

Next ==
    \/ \E p \in scope, c \in Contents : OtherSave(p[1], p[2], c)
    \/ \E k \in Sections : Fetch(k)
    \/ \E f \in fetches : FetchArrives(f) \/ FetchFails(f)
    \/ \E changes \in Changes, tag, joins \in BOOLEAN : Edit(changes, tag, joins)
    \/ \E kind \in RowMenu, k \in Sections : OpenItem(kind, k)
    \/ \E c \in Contents : Submit(c) \/ ConfirmDelete(c)
    \/ CloseItem \/ Undo \/ Redo
    \/ \E k \in Sections : Discard(k)
    \/ OpenSave \/ CloseSave
    \/ \E keys \in Orders(DirtyKeys(store)) : keys # <<>> /\ StartSave(keys)
    \/ \E l \in loops : SavedNext(l) \/ SavedLast(l) \/ NotSaved(l)
    \/ KeepEditing \/ Reload \/ DismissConflict
    \/ \E k \in Sections, v \in Versions : Restore(k, v)
    \/ \E r \in restores : RestoreArrives(r) \/ RestoreLost(r)
    \/ \E d \in Worked : SwitchDomain(d)
    \/ Navigate \/ SessionEnds
    \/ \E d \in Worked : Login(d)
    \/ \E in \in BOOLEAN, d \in Worked : LoadTab(in, d)

Spec == Init /\ [][Next]_vars

-----------------------------------------------------------------------------
(***************************************************************************)
(* A save never replaces a version its author had not before it when the   *)
(* draft was begun, unless the author chose to after a conflict: the       *)
(* conflict comes up also when the newer version was loaded meanwhile      *)
(* (docs/service/bedienung.md).                                            *)
(***************************************************************************)
ConflictIsNoticed == ~unseen

(***************************************************************************)
(* The answer to a save takes away the draft it was about, and no change   *)
(* made after it was sent (draft-store.ts: "after a successful save ...    *)
(* draft removed").                                                        *)
(***************************************************************************)
Answered(l) == l.reply = "saved" /\ l \notin loops'
AnswersTakeWhatWasSaved ==
    [][\A l \in loops : Answered(l) /\ Head(l.rest) \in DOMAIN store.drafts \ DOMAIN store'.drafts
           => store.drafts[Head(l.rest)].content = l.section.content]_vars

\* Every draft, also one that waits in the history or for another domain,
\* has the version it started from: without it a save would claim to replace
\* whatever was loaded last.
HasItsVersion(x) == DOMAIN x.drafts = DOMAIN x.draftBase
StoreSound(s) ==
    /\ HasItsVersion(s)
    /\ \A i \in 1..Len(s.past) : HasItsVersion(s.past[i])
    /\ \A i \in 1..Len(s.future) : HasItsVersion(s.future[i])
DraftsKnowTheirVersion ==
    StoreSound(store) /\ \A d \in DOMAIN parked : StoreSound(parked[d])

\* What the editors show of a domain was loaded from that domain.
StoreOf(d) == IF d = domain THEN store ELSE IF d \in DOMAIN parked THEN parked[d]
              ELSE EmptyState
EachDomainItsOwnBases ==
    \A d \in Domains : \A k \in DOMAIN StoreOf(d).bases \cap cached[d] :
        StoreOf(d).bases[k].domain = d
=============================================================================
