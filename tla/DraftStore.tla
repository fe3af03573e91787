----------------------------- MODULE DraftStore -----------------------------
(***************************************************************************)
(* The store of unsaved drafts in the browser (draft-store.ts): per domain *)
(* the sections as last loaded, the drafts, the server version each draft  *)
(* started from, and a history of snapshots for undo and redo.             *)
(*                                                                         *)
(* The methods of the store are operators from the old store to the new    *)
(* one.  A content carries where it was read, the domain and the version   *)
(* of the section the editor had before it (origin): the program does not  *)
(* keep this, the properties of ConfigEditing are about it.                *)
(***************************************************************************)
EXTENDS Naturals, Sequences, Functions

CONSTANTS Domains,       \* keys of the managed domains
          Sections,      \* keys of the configuration sections
          Contents,      \* contents a section may have
          HistoryLimit,  \* HISTORY_LIMIT
          MaxVersion     \* bound: versions of a section

ASSUME StoreAssumption == HistoryLimit \in Nat \ {0} /\ MaxVersion \in Nat \ {0}

Versions == 1..MaxVersion
Origins == [domain : Domains, version : Versions]
Drafts == [content : Contents, origin : Origins]
Loaded == [domain : Domains, version : Versions, content : Contents]   \* a Section

Partial(S) == UNION {[K -> S] : K \in SUBSET Sections}
Snapshots == [drafts : Partial(Drafts), draftBase : Partial(Versions)]

StoreType(s) ==
    /\ DOMAIN s = {"bases", "drafts", "draftBase", "past", "future", "tagged"}
    /\ s.bases \in Partial(Loaded)
    /\ s.drafts \in Partial(Drafts)
    /\ s.draftBase \in Partial(Versions)
    /\ s.past \in Seq(Snapshots)
    /\ s.future \in Seq(Snapshots)
    /\ s.tagged \in BOOLEAN

EmptyState == [bases |-> <<>>, drafts |-> <<>>, draftBase |-> <<>>,
               past |-> <<>>, future |-> <<>>, tagged |-> FALSE]

Snap(s) == [drafts |-> s.drafts, draftBase |-> s.draftBase]
Without(f, K) == Restrict(f, DOMAIN f \ K)

\* The entries of g over those of f, as in {...f, ...g}.
Over(g, f) == [k \in DOMAIN g \cup DOMAIN f |-> IF k \in DOMAIN g THEN g[k] ELSE f[k]]
With(f, k, v) == Over([x \in {k} |-> v], f)

IsDirtyIn(s, k) ==
    /\ k \in DOMAIN s.drafts
    /\ k \in DOMAIN s.bases => s.drafts[k].content # s.bases[k].content
DirtyKeys(s) == {k \in Sections : IsDirtyIn(s, k)}

OriginOf(sec) == [domain |-> sec.domain, version |-> sec.version]

\* What the editors show of a section that is known, and where it is from.
Known(s) == DOMAIN s.drafts \cup DOMAIN s.bases
Shown(s, k) ==
    IF k \in DOMAIN s.drafts
    THEN [content |-> s.drafts[k].content, origin |-> s.drafts[k].origin]
    ELSE [content |-> s.bases[k].content, origin |-> OriginOf(s.bases[k])]

SetBase(s, sec, k) == [s EXCEPT !.bases = With(@, k, sec)]

\* The history with the present state at its end, cut to its limit.
Pushed(s) ==
    LET all == Append(s.past, Snap(s))
        first == IF Len(all) > HistoryLimit THEN Len(all) - HistoryLimit + 1 ELSE 1
    IN SubSeq(all, first, Len(all))

AppliedKeepingVersion(s, changes, tag, joins) ==    \* mutant
    LET drafts == Over(changes, s.drafts)
        started == [k \in (DOMAIN changes \cap DOMAIN s.bases) \ DOMAIN s.draftBase |->
                       s.bases[k].version]
        equal == {k \in DOMAIN changes \cap DOMAIN s.bases :
                     drafts[k].content = s.bases[k].content}
    IN [s EXCEPT !.drafts = Without(drafts, equal), !.draftBase = Over(started, @),
                 !.past = IF joins THEN @ ELSE Pushed(s),
                 !.future = <<>>, !.tagged = tag]

(***************************************************************************)
(* apply(): one undoable step for all the sections of changes; typing in   *)
(* one field joins the step before it.  A draft that equals its base is    *)
(* dropped, so that "dirty" is exact.                                      *)
(***************************************************************************)
Applied(s, changes, tag, joins) ==
    LET drafts == Over(changes, s.drafts)
        started == [k \in (DOMAIN changes \cap DOMAIN s.bases) \ DOMAIN s.draftBase |->
                       s.bases[k].version]
        equal == {k \in DOMAIN changes \cap DOMAIN s.bases :
                     drafts[k].content = s.bases[k].content}
    IN [s EXCEPT !.drafts = Without(drafts, equal),
                 !.draftBase = Without(Over(started, @), equal),
                 !.past = IF joins THEN @ ELSE Pushed(s),
                 !.future = <<>>,
                 !.tagged = tag]

Undone(s) ==
    LET prev == s.past[Len(s.past)]
    IN [s EXCEPT !.drafts = prev.drafts, !.draftBase = prev.draftBase,
                 !.past = SubSeq(@, 1, Len(@) - 1),
                 !.future = <<Snap(s)>> \o @,
                 !.tagged = FALSE]

Redone(s) ==
    LET next == Head(s.future)
    IN [s EXCEPT !.drafts = next.drafts, !.draftBase = next.draftBase,
                 !.past = Append(@, Snap(s)),
                 !.future = Tail(@),
                 !.tagged = FALSE]

Discarded(s, k) ==
    IF k \notin DOMAIN s.drafts THEN s
    ELSE [s EXCEPT !.drafts = Without(@, {k}), !.draftBase = Without(@, {k}),
                   !.past = Append(@, Snap(s)), !.future = <<>>, !.tagged = FALSE]

AllDiscarded(s) ==
    [s EXCEPT !.drafts = <<>>, !.draftBase = <<>>,
              !.past = <<>>, !.future = <<>>, !.tagged = FALSE]

\* The draft is kept on the version that is loaded now, on purpose.
Rebased(s, k) ==
    IF k \notin DOMAIN s.bases \/ k \notin DOMAIN s.drafts THEN s
    ELSE [s EXCEPT !.draftBase = With(@, k, s.bases[k].version),
                   !.drafts[k].origin = OriginOf(s.bases[k])]

LoadedVersionOf(s, k) == s.bases[k].version    \* mutant

BaseVersionOf(s, k) ==
    IF k \in DOMAIN s.draftBase THEN s.draftBase[k] ELSE s.bases[k].version

\* The history stays, with the versions its drafts started from.
Saved(s, sec, k) ==
    [s EXCEPT !.bases = With(@, k, sec),
              !.drafts = Without(@, {k}), !.draftBase = Without(@, {k}),
              !.tagged = FALSE]
=============================================================================
