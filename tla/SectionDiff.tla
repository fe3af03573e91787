---------------------------- MODULE SectionDiff -----------------------------
(***************************************************************************)
(* The comparison of two contents of a section that the dialog shows       *)
(* before drafts are saved, the versions sheet before a version is         *)
(* restored and the import page before an import.  Items of a collection   *)
(* are matched by what identifies them, everything else member by member.  *)
(***************************************************************************)
EXTENDS Naturals, Sequences, FiniteSets, SequencesExt, Functions, TLC

CONSTANT Reviewed    \* per section the contents a behaviour edits

VARIABLES reviewOf,    \* the section
          reviewBase,  \* its content as it is saved
          reviewDraft, \* the draft
          review       \* what the dialog shows, or NoReview

reviewVars == <<reviewOf, reviewBase, reviewDraft, review>>

\* The values of JSON, told apart by the name of their only field.
Scalar(x) == [scalar |-> x]
List(s) == [list |-> s]
Object(f) == [object |-> f]
IsScalar(v) == "scalar" \in DOMAIN v
IsList(v) == "list" \in DOMAIN v
IsObj(v) == "object" \in DOMAIN v
NotGiven == Scalar("not given")    \* undefined
SeveralOf(S) == [several |-> S]
IsScalarList(v) == \A i \in DOMAIN v.list : IsScalar(v.list[i])

-----------------------------------------------------------------------------
(***************************************************************************)
(* What a section lists, and how its items are told apart.                 *)
(***************************************************************************)
Listed(path, ids, shown) == [path |-> path, map |-> FALSE, ids |-> ids, summary |-> shown]
Mapped(path, shown) == [path |-> path, map |-> TRUE, ids |-> <<>>, summary |-> shown]
\* One section of each form: items told apart by several fields, by the name of a
\* file, by one field in each of two lists, and none.
CollectionsFor ==
    [acls |-> <<Listed(<<"aclDelegations">>, <<"who", "target", "rights">>, {"rights", "allow"})>>,
     admx |-> <<Mapped(<<"admx", "files">>, {"hash"})>>,
     authsilos |-> <<Listed(<<"policies">>, <<"name">>, {"enforce"}),
                     Listed(<<"silos">>, <<"name">>, {"enforce"})>>,
     tiers |-> <<>>]

GetPath(v, path) ==
    FoldLeft(LAMBDA cur, p : IF IsObj(cur) /\ p \in DOMAIN cur.object THEN cur.object[p]
                             ELSE NotGiven, v, path)

RECURSIVE WithoutPath(_, _)
WithoutPath(v, path) ==
    IF ~IsObj(v) \/ path = <<>> \/ Head(path) \notin DOMAIN v.object THEN v
    ELSE IF Len(path) = 1 THEN Object(Restrict(v.object, DOMAIN v.object \ {Head(path)}))
    ELSE Object([v.object EXCEPT ![Head(path)] = WithoutPath(@, Tail(path))])

Rest(section, content) ==
    FoldLeft(LAMBDA v, c : WithoutPath(v, c.path), content, CollectionsFor[section])

-----------------------------------------------------------------------------
(***************************************************************************)
(* Two values.  Lists of objects are compared by a key that both have in   *)
(* every entry, and have once; without one, by position.                   *)
(***************************************************************************)
IdKeys == <<"name", "id">>
NoKeyFits == "position"

UniqueIn(k, s) ==
    /\ \A i \in DOMAIN s : k \in DOMAIN s[i].object /\ s[i].object[k] # Scalar("")
    /\ \A i, j \in DOMAIN s : s[i].object[k] = s[j].object[k] => i = j
IdentityKey(b, a) ==
    LET fits == SelectSeq(IdKeys, LAMBDA k : UniqueIn(k, b) /\ UniqueIn(k, a))
    IN IF (\A x \in ToSet(b \o a) : IsObj(x)) /\ fits # <<>> THEN Head(fits) ELSE NoKeyFits

\* The entries of a list in their order, by that key.
Keys(s, k) == [i \in DOMAIN s |-> IF k = NoKeyFits THEN ToString(i) ELSE s[i].object[k].scalar]
Members(s, k) ==
    [x \in ToSet(Keys(s, k)) |-> s[CHOOSE i \in DOMAIN s : Keys(s, k)[i] = x]]
Reordered(b, a) ==
    SelectSeq(b, LAMBDA x : x \in ToSet(a)) # SelectSeq(a, LAMBDA x : x \in ToSet(b))

FieldChange(kind, path, before, after) ==
    [kind |-> kind, path |-> path, before |-> before, after |-> after]
OrderChange(path) == FieldChange("order", path, NotGiven, NotGiven)

DiffScalars(b, a, path) ==
    LET added == ToSet(a) \ ToSet(b)  removed == ToSet(b) \ ToSet(a) IN
    IF added \cup removed # {} THEN {FieldChange("list", path, SeveralOf(removed), SeveralOf(added))}
    ELSE IF a # b THEN {OrderChange(path)} ELSE {}

RECURSIVE DiffValue(_, _, _)

DiffMembers(b, a, path) ==
         {FieldChange("removed", Append(path, k), b[k], NotGiven) : k \in DOMAIN b \ DOMAIN a}
    \cup {FieldChange("added", Append(path, k), NotGiven, a[k]) : k \in DOMAIN a \ DOMAIN b}
    \cup UNION {DiffValue(b[k], a[k], Append(path, k)) : k \in DOMAIN a \cap DOMAIN b}

DiffEntries(b, a, path) ==
    LET k == IdentityKey(b, a) IN
    DiffMembers(Members(b, k), Members(a, k), path)
        \cup (IF Reordered(Keys(b, k), Keys(a, k)) THEN {OrderChange(path)} ELSE {})

DiffValue(b, a, path) ==
    IF b = a THEN {}
    ELSE IF IsList(b) /\ IsList(a)
         THEN IF IsScalarList(b) /\ IsScalarList(a) THEN DiffScalars(b.list, a.list, path)
              ELSE DiffEntries(b.list, a.list, path)
    ELSE IF IsObj(b) /\ IsObj(a) THEN DiffMembers(b.object, a.object, path)
    ELSE {FieldChange("changed", path, b, a)}

-----------------------------------------------------------------------------
(***************************************************************************)
(* Two contents of a section.                                              *)
(***************************************************************************)
\* What identifies an item: of its lists the members, in any order.
Identity(v) == IF IsList(v) THEN SeveralOf(ToSet(v.list)) ELSE v

\* The items of a collection with what identifies them.
Entries(c, content) ==
    LET v == GetPath(content, c.path) IN
    IF c.map THEN IF IsObj(v) THEN SetToSeq({<<<<Scalar(k)>>, v.object[k]>> : k \in DOMAIN v.object}) ELSE <<>>
    ELSE IF IsList(v) THEN [i \in DOMAIN v.list |->
             <<[j \in DOMAIN c.ids |-> Identity(GetPath(v.list[i], <<c.ids[j]>>))], v.list[i]>>]
    ELSE <<>>

OneOfEach(es, i) == <<es[i][1], 0>>    \* mutant
\* Several items of one identity are kept apart by their occurrence.
Occurrence(es, i) == <<es[i][1], Cardinality({j \in 1..i - 1 : es[j][1] = es[i][1]})>>
ItemsOf(c, content) ==
    LET es == Entries(c, content) IN
    [o \in {Occurrence(es, i) : i \in DOMAIN es} |->
        es[CHOOSE i \in DOMAIN es : Occurrence(es, i) = o][2]]

Summarize(c, item) == {<<k, item.object[k]>> : k \in c.summary \cap DOMAIN item.object}
ChangeGroup(c, kind, id, summary, fields) ==
    [of |-> c.path, kind |-> kind, id |-> id, summary |-> summary, fields |-> fields]

ItemGroups(c, b, a) ==
         {ChangeGroup(c, "added", o, Summarize(c, a[o]), {}) : o \in DOMAIN a \ DOMAIN b}
    \cup {ChangeGroup(c, "removed", o, Summarize(c, b[o]), {}) : o \in DOMAIN b \ DOMAIN a}
    \cup {ChangeGroup(c, "changed", o, {}, DiffValue(b[o], a[o], <<>>)) :
            o \in {x \in DOMAIN a \cap DOMAIN b : DiffValue(b[x], a[x], <<>>) # {}}}

\* Another order is shown when nothing else is.
OrderGroup(c, b, a, others) ==
    LET ids(es) == [i \in DOMAIN es |-> es[i][1]]
        bs == Entries(c, b)  as == Entries(c, a)
    IN IF ~c.map /\ others = {} /\ Len(as) = Len(bs) /\ ids(as) # ids(bs)
       THEN {ChangeGroup(c, "changed", <<>>, {}, {OrderChange(<<>>)})} ELSE {}

DiffSection(section, b, a) ==
    [groups |-> FoldLeft(LAMBDA groups, c :
                    LET items == groups \cup ItemGroups(c, ItemsOf(c, b), ItemsOf(c, a))
                    IN items \cup OrderGroup(c, b, a, items),
                    {}, CollectionsFor[section]),
     settings |-> DiffValue(Rest(section, b), Rest(section, a), <<>>)]

NoReview == [groups |-> {}, settings |-> {FieldChange("closed", <<>>, NotGiven, NotGiven)}]
ShowsNothing == [groups |-> {}, settings |-> {}]

-----------------------------------------------------------------------------
(***************************************************************************)
(* Editing and reviewing.                                                  *)
(***************************************************************************)
EditReviewed(c) ==
    /\ review = NoReview /\ c # reviewDraft /\ reviewDraft' = c
    /\ UNCHANGED <<reviewOf, reviewBase, review>>

OpenReview ==
    /\ review = NoReview /\ reviewDraft # reviewBase
    /\ review' = DiffSection(reviewOf, reviewBase, reviewDraft)
    /\ UNCHANGED <<reviewOf, reviewBase, reviewDraft>>

CloseReview ==
    /\ review # NoReview /\ review' = NoReview
    /\ UNCHANGED <<reviewOf, reviewBase, reviewDraft>>

SaveReviewed ==
    /\ review # NoReview /\ review' = NoReview
    /\ reviewBase' = reviewDraft
    /\ UNCHANGED <<reviewOf, reviewDraft>>

ReviewInit ==
    /\ reviewOf \in DOMAIN Reviewed
    /\ reviewBase \in Reviewed[reviewOf] /\ reviewDraft = reviewBase
    /\ review = NoReview

ReviewNext ==
    \/ \E c \in Reviewed[reviewOf] : EditReviewed(c)
    \/ OpenReview \/ CloseReview \/ SaveReviewed

-----------------------------------------------------------------------------
ReviewType ==
    /\ {reviewBase, reviewDraft} \subseteq Reviewed[reviewOf]
    /\ review # NoReview =>
         \A g \in review.groups : g.kind \in {"added", "removed", "changed"}

\* A value without the order and the repetitions of its lists.
RECURSIVE Unordered(_)
Unordered(v) ==
    IF IsList(v) THEN [unordered |-> {Unordered(v.list[i]) : i \in DOMAIN v.list}]
    ELSE IF IsObj(v) THEN Object([k \in DOMAIN v.object |-> Unordered(v.object[k])])
    ELSE v

\* Two drafts of a content keep, add and change the same, whatever the order.
\* Of an item that is added only the summary is shown.
AlikeFor(section, b, x, y) ==
    /\ \A c \in ToSet(CollectionsFor[section]) :
         LET of(z) == [i \in DOMAIN Entries(c, z) |-> Occurrence(Entries(c, z), i)]
             item(z, o) == Entries(c, z)[CHOOSE i \in DOMAIN of(z) : of(z)[i] = o][2]
         IN /\ ToSet(of(x)) = ToSet(of(y))
            /\ \A o \in ToSet(of(b)) \cap ToSet(of(x)) :
                 Unordered(item(x, o)) = Unordered(item(y, o))
    /\ Unordered(Rest(section, x)) = Unordered(Rest(section, y))

(***************************************************************************)
(* The review hides nothing: it shows a difference whenever there is one,  *)
(* if only of the order, and drafts of which it shows the same are the     *)
(* same but for the order (lib/structured-diff.ts).                        *)
(***************************************************************************)
ReviewTells ==
    review # NoReview =>
        /\ review # ShowsNothing
        /\ \A c \in Reviewed[reviewOf] :
             DiffSection(reviewOf, reviewBase, c) = review =>
                 AlikeFor(reviewOf, reviewBase, reviewDraft, c)
=============================================================================
