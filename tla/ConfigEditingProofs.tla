------------------------ MODULE ConfigEditingProofs ------------------------
(* Theorems about ConfigEditing: its types, that every draft has the version    *)
(* it started from, and, while nobody leaves with an answer on its way, that    *)
(* every domain keeps its own sections, that every conflict is noticed, and     *)
(* that the answer to a save takes no newer change away.                        *)
EXTENDS ConfigEditing, FiniteSetTheorems, SequenceTheorems, TLAPS

-----------------------------------------------------------------------------
(* The inductive invariants. *)

\* T holds the present drafts of a store and those undo and redo go to.
Holds(s, T) == Snap(s) \in T /\ s.past \in Seq(T) /\ s.future \in Seq(T)

\* Drafts that have their versions, in sections that were loaded at some time.
SoundOver(K) == {x \in Snapshots : HasItsVersion(x) /\ DOMAIN x.drafts \subseteq K}
DraftsSound(s) == Holds(s, SoundOver(DOMAIN s.bases))

EditInv ==
    /\ DraftsSound(store) /\ \A d \in DOMAIN parked : DraftsSound(parked[d])
    /\ \A d \in Domains, k \in Sections : Len(server[d][k]) <= MaxVersion
    /\ \A l \in loops : l.rest # <<>>
    /\ dialog # NoDialog => signedIn /\ dialog.key \in DOMAIN store.bases

IInv == TypeOK /\ EditInv

\* Everything a domain shows or waits for is of that domain.
BasesOf(s, d) == \A k \in DOMAIN s.bases : s.bases[k].domain = d

PlaceInv ==
    /\ BasesOf(store, domain) /\ \A d \in DOMAIN parked : BasesOf(parked[d], d)
    /\ \A x \in fetches \cup loops \cup restores : x.section.domain = domain

\* Drafts begun over the versions they will claim to replace.
BegunIn(d) ==
    {x \in Snapshots : \A k \in DOMAIN x.drafts :
        x.drafts[k].origin = [domain |-> d, version |-> x.draftBase[k]]}

OriginInv ==
    /\ Holds(store, BegunIn(domain)) /\ \A d \in DOMAIN parked : Holds(parked[d], BegunIn(d))
    /\ dialog # NoDialog =>
          dialog.value.origin = [domain |-> domain, version |-> BaseVersionOf(store, dialog.key)]
    /\ ~unseen

\* One save loop, one run of a query that is waited for, one that ends the dialog; what is
\* saved is what the draft still says, since the page that could change it is shut.
OneOf(S) == \A x, y \in S : x = y
FetchWait ==
    /\ \A k \in Sections : OneOf({f \in fetches : f.live /\ f.key = k})
    /\ DialogWaits => conflict # NoKey
    /\ OneOf({f \in fetches : f.closes})
Says(s, k, c) == k \in DOMAIN s.drafts => s.drafts[k].content = c
LoopWait ==
    /\ OneOf(loops)
    /\ loops # {} => conflict = NoKey /\ saveDialog # "open" /\ (signedIn => saveDialog = "saving")
    /\ \A l \in loops : l.reply = "saved" => Says(store, Head(l.rest), l.section.content)

-----------------------------------------------------------------------------
(* The helpers of the store. *)

LEMMA PartialType ==
    ASSUME NEW S, NEW f
    PROVE  f \in Partial(S) <=> DOMAIN f \subseteq Sections /\ f \in [DOMAIN f -> S]
BY DEF Partial

LEMMA OverType ==
    ASSUME NEW S, NEW f \in Partial(S), NEW g \in Partial(S)
    PROVE  /\ Over(g, f) \in Partial(S)
           /\ \A k : k \in DOMAIN Over(g, f) <=> k \in DOMAIN g \/ k \in DOMAIN f
           /\ \A k \in DOMAIN g : Over(g, f)[k] = g[k]
           /\ \A k \in DOMAIN f : k \notin DOMAIN g => Over(g, f)[k] = f[k]
BY PartialType DEF Over

LEMMA WithType ==
    ASSUME NEW S, NEW f \in Partial(S), NEW k \in Sections, NEW v \in S
    PROVE  /\ With(f, k, v) \in Partial(S)
           /\ \A j : j \in DOMAIN With(f, k, v) <=> j = k \/ j \in DOMAIN f
           /\ With(f, k, v)[k] = v
           /\ \A j \in DOMAIN f : j # k => With(f, k, v)[j] = f[j]
<1> DEFINE one == [x \in {k} |-> v]
<1>1. one \in Partial(S) /\ (\A j : j \in DOMAIN one <=> j = k) /\ one[k] = v /\ With(f, k, v) = Over(one, f)
  BY PartialType DEF With
<1> HIDE DEF one
<1> QED BY <1>1, OverType

LEMMA WithoutType ==
    ASSUME NEW S, NEW f \in Partial(S), NEW K
    PROVE  /\ Without(f, K) \in Partial(S)
           /\ \A k : k \in DOMAIN Without(f, K) <=> k \in DOMAIN f /\ k \notin K
           /\ \A k \in DOMAIN f : k \notin K => Without(f, K)[k] = f[k]
BY PartialType DEF Without, Restrict

\* The stores that wait, when the domain e is left and those of K are taken up.
LEMMA ParkedType ==
    ASSUME NEW P, NEW K, NEW e, NEW s, NEW r, r = With(Without(P, K), e, s)
    PROVE  /\ \A x : x \in DOMAIN r <=> x = e \/ (x \in DOMAIN P /\ x \notin K)
           /\ r[e] = s
           /\ \A x \in DOMAIN r : x # e => r[x] = P[x]
<1> DEFINE Q == Without(P, K)
           one == [x \in {e} |-> s]
<1>1. (\A x : x \in DOMAIN Q <=> x \in DOMAIN P /\ x \notin K) /\ \A x \in DOMAIN Q : Q[x] = P[x]
  BY DEF Without, Restrict
<1>2. (\A x : x \in DOMAIN one <=> x = e) /\ one[e] = s /\ r = Over(one, Q)
  BY DEF With
<1> HIDE DEF Q, one
<1>3. /\ \A x : x \in DOMAIN r <=> x \in DOMAIN one \/ x \in DOMAIN Q
      /\ \A x \in DOMAIN r : r[x] = IF x \in DOMAIN one THEN one[x] ELSE Q[x]
  BY <1>2 DEF Over
<1> QED BY <1>1, <1>2, <1>3

LEMMA SnapType ==
    ASSUME NEW s
    PROVE  /\ Snap(s).drafts = s.drafts /\ Snap(s).draftBase = s.draftBase
           /\ Snap(s) \in Snapshots <=> s.drafts \in Partial(Drafts) /\ s.draftBase \in Partial(Versions)
BY DEF Snap, Snapshots

LEMMA SnapshotType ==
    ASSUME NEW x \in Snapshots
    PROVE  /\ x.drafts \in Partial(Drafts) /\ x.draftBase \in Partial(Versions)
           /\ x = [drafts |-> x.drafts, draftBase |-> x.draftBase]
BY DEF Snapshots

Fields == {"bases", "drafts", "draftBase", "past", "future", "tagged"}

LEMMA StoreParts ==
    ASSUME NEW s
    PROVE  StoreType(s) <=> /\ DOMAIN s = Fields /\ s.bases \in Partial(Loaded) /\ s.tagged \in BOOLEAN
                            /\ Holds(s, Snapshots)
BY SnapType DEF StoreType, Holds, Fields

LEMMA HoldsMore ==
    ASSUME NEW s, NEW T, NEW U, T \subseteq U, Holds(s, T)
    PROVE  Holds(s, U)
BY SeqMonotonic DEF Holds

-----------------------------------------------------------------------------
(* What the methods of the store do to its drafts and their history. *)

LEMMA PushedType ==
    ASSUME NEW s, NEW T, Holds(s, T)
    PROVE  Pushed(s) \in Seq(T)
<1> DEFINE all == Append(s.past, Snap(s))
           first == IF Len(all) > HistoryLimit THEN Len(all) - HistoryLimit + 1 ELSE 1
<1>1. all \in Seq(T)
  BY DEF Holds
<1>2. Len(all) \in Nat /\ HistoryLimit \in Nat \ {0}
  BY <1>1, LenProperties, StoreAssumption
<1>3. first \in 1..Len(all) + 1
  BY <1>2
<1>4. Pushed(s) = SubSeq(all, first, Len(all))
  BY DEF Pushed
<1> HIDE DEF all, first
<1> QED BY <1>1, <1>2, <1>3, <1>4

LEMMA UndoneHolds ==
    ASSUME NEW s, StoreType(s), NEW T, T \subseteq Snapshots, Holds(s, T), s.past # <<>>
    PROVE  Holds(Undone(s), T) /\ Undone(s).bases = s.bases /\ DOMAIN Undone(s) = Fields
           /\ Undone(s).tagged \in BOOLEAN
<1> DEFINE prev == s.past[Len(s.past)]
<1>1. s.past \in Seq(T) /\ s.future \in Seq(T) /\ Snap(s) \in T
  BY DEF Holds
<1>2. prev \in T /\ prev \in Snapshots /\ SubSeq(s.past, 1, Len(s.past) - 1) \in Seq(T)
  <2>1. Len(s.past) \in 1..Len(s.past)
    BY <1>1, EmptySeq, LenProperties
  <2>2. prev \in T
    BY <1>1, <2>1, ElementOfSeq
  <2>3. Len(s.past) - 1 \in 0..Len(s.past)
    BY <2>1
  <2> QED BY <1>1, <2>2, <2>3
<1>3. <<Snap(s)>> \o s.future \in Seq(T)
  BY <1>1
<1>4. /\ DOMAIN Undone(s) = DOMAIN s /\ Undone(s).bases = s.bases /\ Undone(s).tagged = FALSE
      /\ Undone(s).past = SubSeq(s.past, 1, Len(s.past) - 1) /\ Undone(s).future = <<Snap(s)>> \o s.future
      /\ Undone(s).drafts = prev.drafts /\ Undone(s).draftBase = prev.draftBase
  BY DEF Undone, StoreType
<1>5. Snap(Undone(s)) = prev
  BY <1>2, <1>4, SnapshotType DEF Snap
<1> QED BY <1>2, <1>3, <1>4, <1>5 DEF Holds, StoreType, Fields

LEMMA RedoneHolds ==
    ASSUME NEW s, StoreType(s), NEW T, T \subseteq Snapshots, Holds(s, T), s.future # <<>>
    PROVE  Holds(Redone(s), T) /\ Redone(s).bases = s.bases /\ DOMAIN Redone(s) = Fields
           /\ Redone(s).tagged \in BOOLEAN
<1> DEFINE next == Head(s.future)
<1>1. s.past \in Seq(T) /\ s.future \in Seq(T) /\ Snap(s) \in T
  BY DEF Holds
<1>2. next \in T /\ next \in Snapshots /\ Tail(s.future) \in Seq(T)
  BY <1>1, HeadTailProperties
<1>3. Append(s.past, Snap(s)) \in Seq(T)
  BY <1>1
<1>4. /\ DOMAIN Redone(s) = DOMAIN s /\ Redone(s).bases = s.bases /\ Redone(s).tagged = FALSE
      /\ Redone(s).past = Append(s.past, Snap(s)) /\ Redone(s).future = Tail(s.future)
      /\ Redone(s).drafts = next.drafts /\ Redone(s).draftBase = next.draftBase
  BY DEF Redone, StoreType
<1>5. Snap(Redone(s)) = next
  BY <1>2, <1>4, SnapshotType DEF Snap
<1> QED BY <1>2, <1>3, <1>4, <1>5 DEF Holds, StoreType, Fields

LEMMA AppliedKeeps ==
    ASSUME NEW s, StoreType(s), DraftsSound(s), NEW changes \in Partial(Drafts),
           DOMAIN changes \subseteq DOMAIN s.bases, NEW tag \in BOOLEAN, NEW joins,
           NEW r, r = Applied(s, changes, tag, joins)
    PROVE  /\ StoreType(r) /\ DraftsSound(r) /\ r.bases = s.bases
           /\ \A d : Holds(s, BegunIn(d))
                     /\ (\A k \in DOMAIN changes :
                           changes[k].origin = [domain |-> d, version |-> BaseVersionOf(s, k)])
                 => Holds(r, BegunIn(d))
<1> DEFINE started == [k \in (DOMAIN changes \cap DOMAIN s.bases) \ DOMAIN s.draftBase |->
                          s.bases[k].version]
           equal == {k \in DOMAIN changes \cap DOMAIN s.bases :
                        Over(changes, s.drafts)[k].content = s.bases[k].content}
<1>1. /\ DOMAIN r = Fields /\ r.bases = s.bases /\ r.tagged \in BOOLEAN
      /\ r.past = (IF joins THEN s.past ELSE Pushed(s)) /\ r.future = <<>>
      /\ r.drafts = Without(Over(changes, s.drafts), equal)
      /\ r.draftBase = Without(Over(started, s.draftBase), equal)
  BY DEF Applied, StoreType, Fields
<1>2. /\ s.drafts \in Partial(Drafts) /\ s.draftBase \in Partial(Versions) /\ s.bases \in Partial(Loaded)
      /\ DOMAIN s.drafts = DOMAIN s.draftBase /\ DOMAIN s.drafts \subseteq DOMAIN s.bases
  BY SnapType DEF StoreType, DraftsSound, Holds, SoundOver, HasItsVersion
<1>3. /\ started \in Partial(Versions)
      /\ \A k : k \in DOMAIN started <=> k \in DOMAIN changes /\ k \in DOMAIN s.bases /\ k \notin DOMAIN s.draftBase
      /\ \A k \in DOMAIN started : started[k] = s.bases[k].version
  <2>1. \A k \in DOMAIN s.bases : k \in Sections /\ s.bases[k] \in Loaded
    BY <1>2, PartialType
  <2>2. \A k \in DOMAIN s.bases : k \in Sections /\ s.bases[k].version \in Versions
    BY <2>1 DEF Loaded
  <2> QED BY <2>2, PartialType
<1>4. equal \subseteq DOMAIN changes
  OBVIOUS
<1> HIDE DEF started, equal
<1>5. /\ r.drafts \in Partial(Drafts) /\ r.draftBase \in Partial(Versions)
      /\ \A k : k \in DOMAIN r.drafts <=> (k \in DOMAIN changes \/ k \in DOMAIN s.drafts) /\ k \notin equal
      /\ \A k : k \in DOMAIN r.draftBase
                  <=> (k \in DOMAIN started \/ k \in DOMAIN s.draftBase) /\ k \notin equal
      /\ \A k \in DOMAIN r.drafts : r.drafts[k] = Over(changes, s.drafts)[k]
      /\ \A k \in DOMAIN r.draftBase : r.draftBase[k] = Over(started, s.draftBase)[k]
  <2>1. /\ Over(changes, s.drafts) \in Partial(Drafts)
        /\ \A k : k \in DOMAIN Over(changes, s.drafts) <=> k \in DOMAIN changes \/ k \in DOMAIN s.drafts
        /\ Over(started, s.draftBase) \in Partial(Versions)
        /\ \A k : k \in DOMAIN Over(started, s.draftBase) <=> k \in DOMAIN started \/ k \in DOMAIN s.draftBase
    BY <1>2, <1>3, OverType
  <2> QED BY <1>1, <2>1, WithoutType
<1>6. DOMAIN r.drafts = DOMAIN r.draftBase /\ DOMAIN r.drafts \subseteq DOMAIN s.bases
  BY <1>2, <1>3, <1>4, <1>5
<1>7. ASSUME NEW k \in DOMAIN r.drafts
      PROVE  /\ k \in DOMAIN changes => r.drafts[k] = changes[k] /\ r.draftBase[k] = BaseVersionOf(s, k)
             /\ k \notin DOMAIN changes =>
                   k \in DOMAIN s.drafts /\ r.drafts[k] = s.drafts[k] /\ r.draftBase[k] = s.draftBase[k]
  <2>1. /\ k \in DOMAIN changes => Over(changes, s.drafts)[k] = changes[k]
        /\ k \notin DOMAIN changes => k \in DOMAIN s.drafts /\ Over(changes, s.drafts)[k] = s.drafts[k]
    BY <1>2, <1>5, OverType
  <2>2. /\ k \in DOMAIN s.draftBase => Over(started, s.draftBase)[k] = s.draftBase[k]
        /\ k \notin DOMAIN s.draftBase => Over(started, s.draftBase)[k] = s.bases[k].version
    BY <1>2, <1>3, <1>5, <1>6, OverType
  <2> QED BY <1>2, <1>5, <1>6, <2>1, <2>2 DEF BaseVersionOf
<1>8. Snap(r) \in SoundOver(DOMAIN s.bases)
  BY <1>5, <1>6, SnapType DEF SoundOver, HasItsVersion
<1>9. \A T : Holds(s, T) /\ Snap(r) \in T => Holds(r, T)
  BY <1>1, PushedType DEF Holds
<1>10. StoreType(r) /\ DraftsSound(r)
  <2>1. Snap(r) \in Snapshots /\ Holds(s, Snapshots)
    BY <1>8, StoreParts DEF SoundOver
  <2> QED BY <1>1, <1>8, <1>9, <2>1, StoreParts DEF DraftsSound, StoreType
<1>11. ASSUME NEW d, Holds(s, BegunIn(d)),
              \A k \in DOMAIN changes :
                 changes[k].origin = [domain |-> d, version |-> BaseVersionOf(s, k)]
       PROVE  Holds(r, BegunIn(d))
  <2>1. \A k \in DOMAIN s.drafts : s.drafts[k].origin = [domain |-> d, version |-> s.draftBase[k]]
    BY <1>11, SnapType DEF Holds, BegunIn
  <2>2. \A k \in DOMAIN r.drafts : r.drafts[k].origin = [domain |-> d, version |-> r.draftBase[k]]
    BY <1>7, <1>11, <2>1
  <2>3. Snap(r) \in BegunIn(d)
    BY <1>8, <2>2, SnapType DEF SoundOver, BegunIn
  <2> QED BY <1>9, <1>11, <2>3
<1> QED BY <1>1, <1>10, <1>11

LEMMA UndoneKeeps ==
    ASSUME NEW s, StoreType(s), DraftsSound(s), s.past # <<>>
    PROVE  /\ StoreType(Undone(s)) /\ DraftsSound(Undone(s)) /\ Undone(s).bases = s.bases
           /\ \A d : Holds(s, BegunIn(d)) => Holds(Undone(s), BegunIn(d))
<1>1. /\ Snapshots \subseteq Snapshots /\ SoundOver(DOMAIN s.bases) \subseteq Snapshots
      /\ \A d : BegunIn(d) \subseteq Snapshots
  BY DEF SoundOver, BegunIn
<1>2. Holds(s, Snapshots) /\ s.bases \in Partial(Loaded)
  BY StoreParts
<1>3. Holds(Undone(s), Snapshots) /\ Undone(s).bases = s.bases /\ DOMAIN Undone(s) = Fields
      /\ Undone(s).tagged \in BOOLEAN
  BY <1>1, <1>2, UndoneHolds
<1>4. Holds(Undone(s), SoundOver(DOMAIN s.bases))
  BY <1>1, UndoneHolds DEF DraftsSound
<1> QED BY <1>1, <1>2, <1>3, <1>4, UndoneHolds, StoreParts DEF DraftsSound

LEMMA RedoneKeeps ==
    ASSUME NEW s, StoreType(s), DraftsSound(s), s.future # <<>>
    PROVE  /\ StoreType(Redone(s)) /\ DraftsSound(Redone(s)) /\ Redone(s).bases = s.bases
           /\ \A d : Holds(s, BegunIn(d)) => Holds(Redone(s), BegunIn(d))
<1>1. /\ Snapshots \subseteq Snapshots /\ SoundOver(DOMAIN s.bases) \subseteq Snapshots
      /\ \A d : BegunIn(d) \subseteq Snapshots
  BY DEF SoundOver, BegunIn
<1>2. Holds(s, Snapshots) /\ s.bases \in Partial(Loaded)
  BY StoreParts
<1>3. Holds(Redone(s), Snapshots) /\ Redone(s).bases = s.bases /\ DOMAIN Redone(s) = Fields
      /\ Redone(s).tagged \in BOOLEAN
  BY <1>1, <1>2, RedoneHolds
<1>4. Holds(Redone(s), SoundOver(DOMAIN s.bases))
  BY <1>1, RedoneHolds DEF DraftsSound
<1> QED BY <1>1, <1>2, <1>3, <1>4, RedoneHolds, StoreParts DEF DraftsSound

LEMMA EmptyPartial ==
    ASSUME NEW S
    PROVE  <<>> \in Partial(S) /\ DOMAIN <<>> = {}
<1>1. DOMAIN <<>> = {} /\ <<>> \in [{} -> S]
  OBVIOUS
<1> QED BY <1>1 DEF Partial

LEMMA EmptyKeeps ==
    /\ StoreType(EmptyState) /\ DraftsSound(EmptyState)
    /\ \A d : BasesOf(EmptyState, d) /\ Holds(EmptyState, BegunIn(d))
<1>1. <<>> \in Partial(Drafts) /\ <<>> \in Partial(Versions) /\ <<>> \in Partial(Loaded)
  BY EmptyPartial
<1>2. DOMAIN <<>> = {} /\ \A T : <<>> \in Seq(T)
  OBVIOUS
<1>3. /\ DOMAIN EmptyState = Fields /\ EmptyState.bases = <<>> /\ EmptyState.tagged \in BOOLEAN
      /\ EmptyState.drafts = <<>> /\ EmptyState.draftBase = <<>>
      /\ EmptyState.past = <<>> /\ EmptyState.future = <<>>
  BY DEF EmptyState, Fields
<1>4. Snap(EmptyState) \in Snapshots
  BY <1>1, <1>3, SnapType
<1>5. Snap(EmptyState) \in SoundOver(DOMAIN EmptyState.bases)
  BY <1>2, <1>3, <1>4, SnapType DEF SoundOver, HasItsVersion
<1>6. ASSUME NEW d
      PROVE  BasesOf(EmptyState, d) /\ Snap(EmptyState) \in BegunIn(d)
  BY <1>2, <1>3, <1>4, SnapType DEF BasesOf, BegunIn
<1> QED BY <1>1, <1>2, <1>3, <1>4, <1>5, <1>6, StoreParts DEF DraftsSound, Holds

\* A step that keeps the history, or puts the drafts it replaces at its end.
LEMMA StepHolds ==
    ASSUME NEW s, NEW r, NEW T, Holds(s, T), Snap(r) \in T,
           r.past \in {s.past, Append(s.past, Snap(s))}, r.future \in {s.future, <<>>}
    PROVE  Holds(r, T)
<1>1. s.past \in Seq(T) /\ s.future \in Seq(T) /\ Snap(s) \in T
  BY DEF Holds
<1>2. Append(s.past, Snap(s)) \in Seq(T) /\ <<>> \in Seq(T)
  BY <1>1
<1> QED BY <1>1, <1>2 DEF Holds

LEMMA SoundParts ==
    ASSUME NEW s, StoreType(s), DraftsSound(s)
    PROVE  /\ s.drafts \in Partial(Drafts) /\ s.draftBase \in Partial(Versions) /\ s.bases \in Partial(Loaded)
           /\ DOMAIN s.drafts = DOMAIN s.draftBase /\ DOMAIN s.drafts \subseteq DOMAIN s.bases
           /\ DOMAIN s.bases \subseteq Sections
           /\ \A d : Holds(s, BegunIn(d)) =>
                 \A k \in DOMAIN s.drafts : s.drafts[k].origin = [domain |-> d, version |-> s.draftBase[k]]
BY SnapType, PartialType DEF StoreType, DraftsSound, Holds, SoundOver, HasItsVersion, BegunIn

LEMMA SoundSnap ==
    ASSUME NEW r, r.drafts \in Partial(Drafts), r.draftBase \in Partial(Versions)
    PROVE  /\ Snap(r) \in Snapshots
           /\ \A K : DOMAIN r.drafts = DOMAIN r.draftBase /\ DOMAIN r.drafts \subseteq K => Snap(r) \in SoundOver(K)
           /\ \A d : (\A k \in DOMAIN r.drafts :
                         r.drafts[k].origin = [domain |-> d, version |-> r.draftBase[k]])
                 => Snap(r) \in BegunIn(d)
BY SnapType DEF SoundOver, HasItsVersion, BegunIn

\* What drafts are sound over stays so when more sections are loaded.
LEMMA SoundMore ==
    ASSUME NEW s, DraftsSound(s), NEW K, DOMAIN s.bases \subseteq K
    PROVE  Holds(s, SoundOver(K))
<1>1. SoundOver(DOMAIN s.bases) \subseteq SoundOver(K)
  BY DEF SoundOver
<1> QED BY <1>1, HoldsMore DEF DraftsSound

\* A draft is dropped, with its version.
LEMMA DroppedKeeps ==
    ASSUME NEW s, StoreType(s), DraftsSound(s), NEW K, NEW r,
           DOMAIN r = Fields, r.bases \in Partial(Loaded), DOMAIN s.bases \subseteq DOMAIN r.bases,
           r.tagged \in BOOLEAN,
           r.drafts = Without(s.drafts, K), r.draftBase = Without(s.draftBase, K),
           r.past \in {s.past, Append(s.past, Snap(s))}, r.future \in {s.future, <<>>}
    PROVE  /\ StoreType(r) /\ DraftsSound(r)
           /\ \A d : Holds(s, BegunIn(d)) => Holds(r, BegunIn(d))
<1>1. /\ r.drafts \in Partial(Drafts) /\ r.draftBase \in Partial(Versions)
      /\ \A k : k \in DOMAIN r.drafts <=> k \in DOMAIN s.drafts /\ k \notin K
      /\ \A k : k \in DOMAIN r.draftBase <=> k \in DOMAIN s.draftBase /\ k \notin K
      /\ \A k \in DOMAIN r.drafts : r.drafts[k] = s.drafts[k]
      /\ \A k \in DOMAIN r.draftBase : r.draftBase[k] = s.draftBase[k]
  BY SoundParts, WithoutType
<1>2. DOMAIN r.drafts = DOMAIN r.draftBase /\ DOMAIN r.drafts \subseteq DOMAIN r.bases
  BY <1>1, SoundParts
<1>3. Snap(r) \in SoundOver(DOMAIN r.bases) /\ Snap(r) \in Snapshots
  BY <1>1, <1>2, SoundSnap
<1>4. DraftsSound(r)
  BY <1>3, SoundMore, StepHolds DEF DraftsSound
<1>5. StoreType(r)
  BY <1>3, StoreParts, StepHolds
<1>6. ASSUME NEW d, Holds(s, BegunIn(d))
      PROVE  Holds(r, BegunIn(d))
  <2>1. \A k \in DOMAIN r.drafts : r.drafts[k].origin = [domain |-> d, version |-> r.draftBase[k]]
    BY <1>1, <1>2, <1>6, SoundParts, SMTT(60)
  <2> QED BY <1>1, <1>6, <2>1, SoundSnap, StepHolds
<1> QED BY <1>4, <1>5, <1>6

LEMMA DiscardedKeeps ==
    ASSUME NEW s, StoreType(s), DraftsSound(s), NEW k, NEW r, r = Discarded(s, k)
    PROVE  /\ StoreType(r) /\ DraftsSound(r) /\ r.bases = s.bases
           /\ \A d : Holds(s, BegunIn(d)) => Holds(r, BegunIn(d))
<1>1. CASE k \notin DOMAIN s.drafts
  BY <1>1 DEF Discarded
<1>2. CASE k \in DOMAIN s.drafts
  <2>1. /\ DOMAIN r = Fields /\ r.bases = s.bases /\ r.tagged \in BOOLEAN
        /\ r.drafts = Without(s.drafts, {k}) /\ r.draftBase = Without(s.draftBase, {k})
        /\ r.past = Append(s.past, Snap(s)) /\ r.future = <<>>
    BY <1>2 DEF Discarded, StoreType, Fields
  <2> QED BY <2>1, DroppedKeeps, SoundParts
<1> QED BY <1>1, <1>2

LEMMA AllDiscardedKeeps ==
    ASSUME NEW s, StoreType(s), DraftsSound(s), NEW r, r = AllDiscarded(s)
    PROVE  /\ StoreType(r) /\ DraftsSound(r) /\ r.bases = s.bases
           /\ \A d : Holds(r, BegunIn(d))
<1>1. /\ DOMAIN r = Fields /\ r.bases = s.bases /\ r.tagged \in BOOLEAN
      /\ r.drafts = <<>> /\ r.draftBase = <<>>
      /\ r.past = <<>> /\ r.future = <<>>
  BY DEF AllDiscarded, StoreType, Fields
<1>2. /\ r.drafts \in Partial(Drafts) /\ r.draftBase \in Partial(Versions)
      /\ DOMAIN r.drafts = {} /\ DOMAIN r.draftBase = {}
  BY <1>1, EmptyPartial
<1>3. /\ Snap(r) \in Snapshots /\ Snap(r) \in SoundOver(DOMAIN r.bases)
      /\ \A d : Snap(r) \in BegunIn(d)
  BY <1>2, SoundSnap
<1>4. \A T : Snap(r) \in T => Holds(r, T)
  <2>1. \A T : <<>> \in Seq(T)
    OBVIOUS
  <2> QED BY <1>1, <2>1 DEF Holds
<1> QED BY <1>1, <1>3, <1>4, StoreParts DEF DraftsSound

LEMMA SavedKeeps ==
    ASSUME NEW s, StoreType(s), DraftsSound(s), NEW sec \in Loaded, NEW k \in Sections,
           NEW r, r = Saved(s, sec, k)
    PROVE  /\ StoreType(r) /\ DraftsSound(r) /\ DOMAIN s.bases \subseteq DOMAIN r.bases
           /\ \A d : BasesOf(s, d) /\ sec.domain = d => BasesOf(r, d)
           /\ \A d : Holds(s, BegunIn(d)) => Holds(r, BegunIn(d))
<1>1. /\ DOMAIN r = Fields /\ r.bases = With(s.bases, k, sec) /\ r.tagged \in BOOLEAN
      /\ r.drafts = Without(s.drafts, {k}) /\ r.draftBase = Without(s.draftBase, {k})
      /\ r.past = s.past /\ r.future = s.future
  BY DEF Saved, StoreType, Fields
<1>2. s.bases \in Partial(Loaded)
  BY SoundParts
<1>3. /\ r.bases \in Partial(Loaded) /\ r.bases[k] = sec
      /\ \A j : j \in DOMAIN r.bases <=> j = k \/ j \in DOMAIN s.bases
      /\ \A j \in DOMAIN s.bases : j # k => r.bases[j] = s.bases[j]
  BY <1>1, <1>2, WithType
<1>4. DOMAIN s.bases \subseteq DOMAIN r.bases /\ \A d : BasesOf(s, d) /\ sec.domain = d => BasesOf(r, d)
  BY <1>3 DEF BasesOf
<1> QED BY <1>1, <1>3, <1>4, DroppedKeeps

LEMMA SetBaseKeeps ==
    ASSUME NEW s, StoreType(s), DraftsSound(s), NEW sec \in Loaded, NEW k \in Sections,
           NEW r, r = SetBase(s, sec, k)
    PROVE  /\ StoreType(r) /\ DraftsSound(r) /\ DOMAIN s.bases \subseteq DOMAIN r.bases
           /\ \A d : BasesOf(s, d) /\ sec.domain = d => BasesOf(r, d)
           /\ \A d : Holds(s, BegunIn(d)) => Holds(r, BegunIn(d))
<1>1. /\ DOMAIN r = Fields /\ r.bases = With(s.bases, k, sec) /\ r.tagged \in BOOLEAN
      /\ r.drafts = s.drafts /\ r.draftBase = s.draftBase
      /\ r.past = s.past /\ r.future = s.future
  BY DEF SetBase, StoreType, Fields
<1>2. s.bases \in Partial(Loaded)
  BY SoundParts
<1>3. /\ r.bases \in Partial(Loaded) /\ r.bases[k] = sec
      /\ \A j : j \in DOMAIN r.bases <=> j = k \/ j \in DOMAIN s.bases
      /\ \A j \in DOMAIN s.bases : j # k => r.bases[j] = s.bases[j]
  BY <1>1, <1>2, WithType
<1>4. DOMAIN s.bases \subseteq DOMAIN r.bases /\ \A d : BasesOf(s, d) /\ sec.domain = d => BasesOf(r, d)
  BY <1>3 DEF BasesOf
<1>5. \A T : Holds(s, T) => Holds(r, T)
  BY <1>1 DEF Holds, Snap
<1> QED BY <1>1, <1>3, <1>4, <1>5, StoreParts, SoundMore DEF DraftsSound

LEMMA RebasedKeeps ==
    ASSUME NEW s, StoreType(s), DraftsSound(s), NEW k, NEW r, r = Rebased(s, k)
    PROVE  /\ StoreType(r) /\ DraftsSound(r) /\ r.bases = s.bases
           /\ \A d : BasesOf(s, d) /\ Holds(s, BegunIn(d)) => Holds(r, BegunIn(d))
<1>1. CASE k \notin DOMAIN s.bases \/ k \notin DOMAIN s.drafts
  BY <1>1 DEF Rebased
<1>2. CASE k \in DOMAIN s.bases /\ k \in DOMAIN s.drafts
  <2> DEFINE origin == OriginOf(s.bases[k])
  <2>1. /\ s.drafts \in Partial(Drafts) /\ s.draftBase \in Partial(Versions) /\ s.bases \in Partial(Loaded)
        /\ DOMAIN s.drafts = DOMAIN s.draftBase /\ DOMAIN s.drafts \subseteq DOMAIN s.bases
        /\ DOMAIN s.bases \subseteq Sections
    BY SoundParts
  <2>2. /\ DOMAIN r = Fields /\ r.bases = s.bases /\ r.tagged \in BOOLEAN
        /\ r.drafts = [s.drafts EXCEPT ![k].origin = origin]
        /\ r.draftBase = With(s.draftBase, k, s.bases[k].version)
        /\ r.past = s.past /\ r.future = s.future
    BY <1>2 DEF Rebased, StoreType, Fields
  <2>3. s.bases[k] \in Loaded /\ s.drafts[k] \in Drafts
    BY <1>2, <2>1, PartialType
  <2>4. origin \in Origins /\ s.bases[k].version \in Versions
        /\ origin.domain = s.bases[k].domain /\ origin.version = s.bases[k].version
    BY <2>3 DEF OriginOf, Loaded, Origins
  <2> HIDE DEF origin
  <2>5. [s.drafts[k] EXCEPT !.origin = origin] \in Drafts
        /\ [s.drafts[k] EXCEPT !.origin = origin].origin = origin
    BY <2>3, <2>4 DEF Drafts
  <2>6. /\ r.drafts \in Partial(Drafts) /\ DOMAIN r.drafts = DOMAIN s.drafts
        /\ r.drafts[k].origin = origin
        /\ \A j \in DOMAIN s.drafts : j # k => r.drafts[j] = s.drafts[j]
    BY <1>2, <2>1, <2>2, <2>5, PartialType
  <2>7. /\ r.draftBase \in Partial(Versions) /\ r.draftBase[k] = s.bases[k].version
        /\ \A j : j \in DOMAIN r.draftBase <=> j = k \/ j \in DOMAIN s.draftBase
        /\ \A j \in DOMAIN s.draftBase : j # k => r.draftBase[j] = s.draftBase[j]
    BY <1>2, <2>1, <2>2, <2>4, WithType
  <2>8. DOMAIN r.drafts = DOMAIN r.draftBase /\ DOMAIN r.drafts \subseteq DOMAIN r.bases
    BY <1>2, <2>1, <2>2, <2>6, <2>7
  <2>9. Snap(r) \in SoundOver(DOMAIN r.bases) /\ Snap(r) \in Snapshots
    BY <2>6, <2>7, <2>8, SoundSnap
  <2>10. DraftsSound(r) /\ StoreType(r)
    <3>1. DraftsSound(r)
      BY <2>2, <2>9, StepHolds DEF DraftsSound
    <3> QED BY <2>1, <2>2, <2>9, <3>1, StepHolds, StoreParts
  <2>11. ASSUME NEW d, BasesOf(s, d), Holds(s, BegunIn(d))
         PROVE  Holds(r, BegunIn(d))
    <3>1. origin = [domain |-> d, version |-> s.bases[k].version]
      BY <1>2, <2>11 DEF BasesOf, OriginOf, origin
    <3>2. \A j \in DOMAIN r.drafts : r.drafts[j].origin = [domain |-> d, version |-> r.draftBase[j]]
      BY <2>1, <2>6, <2>7, <2>11, <3>1, SoundParts
    <3> QED BY <2>2, <2>6, <2>7, <2>11, <3>2, SoundSnap, StepHolds
  <2> QED BY <2>2, <2>10, <2>11
<1> QED BY <1>1, <1>2

\* A section arrives, and its draft is moved to it when that was asked for.
LEMMA LoadedKeeps ==
    ASSUME NEW s, StoreType(s), DraftsSound(s), NEW sec \in Loaded, NEW k \in Sections, NEW rebase,
           NEW r, r = IF rebase THEN Rebased(SetBase(s, sec, k), k) ELSE SetBase(s, sec, k)
    PROVE  /\ StoreType(r) /\ DraftsSound(r) /\ DOMAIN s.bases \subseteq DOMAIN r.bases
           /\ \A d : BasesOf(s, d) /\ sec.domain = d => BasesOf(r, d)
           /\ \A d : BasesOf(s, d) /\ sec.domain = d /\ Holds(s, BegunIn(d)) => Holds(r, BegunIn(d))
<1> DEFINE loaded == SetBase(s, sec, k)
<1>1. /\ StoreType(loaded) /\ DraftsSound(loaded) /\ DOMAIN s.bases \subseteq DOMAIN loaded.bases
      /\ \A d : BasesOf(s, d) /\ sec.domain = d => BasesOf(loaded, d)
      /\ \A d : Holds(s, BegunIn(d)) => Holds(loaded, BegunIn(d))
  BY SetBaseKeeps
<1>2. /\ StoreType(Rebased(loaded, k)) /\ DraftsSound(Rebased(loaded, k))
      /\ Rebased(loaded, k).bases = loaded.bases
      /\ \A d : BasesOf(loaded, d) /\ Holds(loaded, BegunIn(d)) => Holds(Rebased(loaded, k), BegunIn(d))
  <2> HIDE DEF loaded
  <2> QED BY <1>1, RebasedKeeps
<1>3. r = loaded \/ r = Rebased(loaded, k)
  OBVIOUS
<1> HIDE DEF loaded
<1> QED BY <1>1, <1>2, <1>3 DEF BasesOf

-----------------------------------------------------------------------------
(* The parts of the invariant. *)

ServerInv == /\ server \in [Domains -> [Sections -> Seq(Contents) \ {<<>>}]]
             /\ \A d \in Domains, k \in Sections : Len(server[d][k]) <= MaxVersion

StoresInv ==
    /\ StoreType(store) /\ DraftsSound(store)
    /\ DOMAIN parked \subseteq Domains \ {domain}
    /\ \A d \in DOMAIN parked : StoreType(parked[d]) /\ DraftsSound(parked[d])

Arriving == [key : Sections, section : Loaded]
LoopsInv(L) == L \subseteq Loops /\ \A l \in L : l.rest # <<>>
NetInv == fetches \subseteq Fetches /\ LoopsInv(loops) /\ restores \subseteq Arriving

PageInv ==
    /\ dialog \in Dialogs \cup {NoDialog}
    /\ dialog # NoDialog => signedIn /\ dialog.key \in DOMAIN store.bases
    /\ saveDialog \in {"closed", "open", "saving"} /\ conflict \in Sections \cup {NoKey}
    /\ conflict # NoKey => saveDialog # "closed"

PlainInv ==
    /\ scope \in Scopes /\ domain \in Worked /\ signedIn \in BOOLEAN
    /\ cached \in [Domains -> SUBSET Sections]
    /\ edits \in 0..MaxEdits /\ logins \in 0..MaxLogins /\ unseen \in BOOLEAN

LEMMA Parts == IInv <=> ServerInv /\ StoresInv /\ NetInv /\ PageInv /\ PlainInv
BY DEF IInv, TypeOK, EditInv, ServerInv, StoresInv, NetInv, LoopsInv, PageInv, PlainInv, Arriving

LEMMA DomainType ==
    ASSUME PlainInv
    PROVE  domain \in Domains /\ Worked \subseteq Domains
BY EditingAssumption DEF PlainInv, Worked

LEMMA SectionType ==
    ASSUME ServerInv, NEW d \in Domains, NEW k \in Sections
    PROVE  /\ Section(d, k) \in Loaded /\ Section(d, k).domain = d
           /\ OriginOf(Section(d, k)) = [domain |-> d, version |-> Section(d, k).version]
<1>1. server[d][k] \in Seq(Contents) /\ server[d][k] # <<>> /\ Len(server[d][k]) <= MaxVersion
  BY DEF ServerInv
<1>2. Len(server[d][k]) \in Versions /\ Last(server[d][k]) \in Contents
  BY <1>1, EmptySeq, StoreAssumption DEF Versions, Last
<1> QED BY <1>2 DEF Section, Loaded, OriginOf

\* A save, or a version restored: what the server holds then, and what it answers.
LEMMA SaveKeeps ==
    ASSUME ServerInv, NEW d \in Domains, NEW k \in Sections, NEW c \in Contents, Save(d, k, c)
    PROVE  ServerInv' /\ SavedAs(d, k, c) \in Loaded /\ SavedAs(d, k, c).domain = d
<1>1. server[d][k] \in Seq(Contents) /\ server[d][k] # <<>> /\ Len(server[d][k]) <= MaxVersion
  BY DEF ServerInv
<1>2. Len(server[d][k]) \in Nat \ {0} /\ MaxVersion \in Nat
  BY <1>1, EmptySeq, StoreAssumption
<1>3. CASE c = Last(server[d][k])
  <2>1. SavedAs(d, k, c).version = Len(server[d][k])
    BY <1>2, <1>3 DEF SavedAs
  <2> QED BY <1>1, <1>2, <1>3, <2>1 DEF Save, ServerInv, SavedAs, Loaded, Versions
<1>4. CASE c # Last(server[d][k])
  <2>1. /\ Len(server[d][k]) < MaxVersion
        /\ server' = [server EXCEPT ![d][k] = Append(server[d][k], c)]
    BY <1>4 DEF Save, Room
  <2>2. /\ Append(server[d][k], c) \in Seq(Contents) /\ Append(server[d][k], c) # <<>>
        /\ Len(Append(server[d][k], c)) = Len(server[d][k]) + 1
    BY <1>1, <1>2
  <2>3. Len(server[d][k]) + 1 \in Versions /\ Len(Append(server[d][k], c)) <= MaxVersion
    BY <1>2, <2>1, <2>2 DEF Versions
  <2>4. ServerInv'
    BY <2>1, <2>2, <2>3 DEF ServerInv
  <2>5. SavedAs(d, k, c) \in Loaded /\ SavedAs(d, k, c).domain = d
    BY <1>4, <2>3 DEF SavedAs, Loaded
  <2> QED BY <2>4, <2>5
<1> QED BY <1>3, <1>4

LEMMA LoopsGone ==
    ASSUME NEW L, LoopsInv(L)
    PROVE  /\ LoopsInv(DialogGone(L)) /\ LoopsInv(PageGone(L))
           /\ \A l \in DialogGone(L) \cup PageGone(L) : \E m \in L : l.section = m.section
<1>1. \A l \in L : /\ l \in Loops /\ l.rest # <<>>
                   /\ [l EXCEPT !.owner = "none"] \in Loops
                   /\ [l EXCEPT !.owner = IF l.owner = "none" THEN l.owner ELSE "page"] \in Loops
  BY DEF LoopsInv, Loops
<1> QED BY <1>1 DEF LoopsInv, DialogGone, PageGone, Loops

LEMMA PutKeeps ==
    ASSUME ServerInv, domain \in Domains, NEW rest \in Seq(Sections), rest # <<>>,
           NEW s, s.drafts \in Partial(Drafts), NEW owner \in {"dialog", "page", "none"},
           NEW others, LoopsInv(others), unseen \in BOOLEAN, Put(rest, s, owner, others)
    PROVE  /\ ServerInv' /\ LoopsInv(loops') /\ unseen' \in BOOLEAN
           /\ \A l \in loops' : l.section.domain = domain \/ l \in others
           /\ (\A k \in DOMAIN s.drafts :
                 s.drafts[k].origin = [domain |-> domain, version |-> BaseVersionOf(s, k)])
                 => unseen' = unseen
<1> DEFINE k == Head(rest)
           now == Section(domain, k)
           loop(reply, sec) == [rest |-> rest, reply |-> reply, section |-> sec, owner |-> owner]
<1>1. k \in Sections
  BY HeadTailProperties
<1>2. now \in Loaded /\ now.domain = domain /\ OriginOf(now) = [domain |-> domain, version |-> now.version]
  BY <1>1, SectionType
<1>3. ASSUME NEW reply \in {"saved", "conflict", "failed"}, NEW sec \in Loaded
      PROVE  loop(reply, sec) \in Loops /\ loop(reply, sec).rest = rest /\ loop(reply, sec).section = sec
  BY <1>3 DEF Loops
<1> HIDE DEF loop, now, k
<1>4. ASSUME NEW reply \in {"saved", "conflict", "failed"}, NEW sec \in Loaded, sec.domain = domain,
             loops' = others \cup {loop(reply, sec)}
      PROVE  LoopsInv(loops') /\ \A l \in loops' : l.section.domain = domain \/ l \in others
  BY <1>3, <1>4 DEF LoopsInv
<1>5. \/ /\ \E reply \in {"failed", "conflict"} : loops' = others \cup {loop(reply, now)}
         /\ UNCHANGED <<server, unseen>>
      \/ /\ k \in DOMAIN s.drafts /\ BaseVersionOf(s, k) = now.version
         /\ Save(domain, k, s.drafts[k].content)
         /\ unseen' = (unseen \/ s.drafts[k].origin # OriginOf(now))
         /\ \E reply \in {"saved", "failed"} :
               loops' = others \cup {loop(reply, SavedAs(domain, k, s.drafts[k].content))}
  BY DEF Put, loop, now, k
<1>6. CASE /\ \E reply \in {"failed", "conflict"} : loops' = others \cup {loop(reply, now)}
           /\ UNCHANGED <<server, unseen>>
  BY <1>2, <1>4, <1>6 DEF ServerInv
<1>7. CASE /\ k \in DOMAIN s.drafts /\ BaseVersionOf(s, k) = now.version
           /\ Save(domain, k, s.drafts[k].content)
           /\ unseen' = (unseen \/ s.drafts[k].origin # OriginOf(now))
           /\ \E reply \in {"saved", "failed"} :
                 loops' = others \cup {loop(reply, SavedAs(domain, k, s.drafts[k].content))}
  <2>1. s.drafts[k].content \in Contents
    <3>1. s.drafts[k] \in Drafts
      BY <1>7, PartialType
    <3> QED BY <3>1 DEF Drafts
  <2>2. /\ ServerInv' /\ SavedAs(domain, k, s.drafts[k].content) \in Loaded
        /\ SavedAs(domain, k, s.drafts[k].content).domain = domain
    BY <1>1, <1>7, <2>1, SaveKeeps
  <2>3. LoopsInv(loops') /\ \A l \in loops' : l.section.domain = domain \/ l \in others
    BY <1>4, <1>7, <2>2
  <2>4. unseen' \in BOOLEAN
    BY <1>7
  <2>5. ASSUME \A j \in DOMAIN s.drafts :
                  s.drafts[j].origin = [domain |-> domain, version |-> BaseVersionOf(s, j)]
        PROVE  unseen' = unseen
    BY <1>2, <1>7, <2>5
  <2> QED BY <2>2, <2>3, <2>4, <2>5
<1> QED BY <1>5, <1>6, <1>7

LEMMA LoopType ==
    ASSUME NetInv, NEW l \in loops
    PROVE  /\ l \in Loops /\ l.rest \in Seq(Sections) /\ l.rest # <<>> /\ Head(l.rest) \in Sections
           /\ l.section \in Loaded /\ l.owner \in {"dialog", "page", "none"}
           /\ Len(l.rest) > 1 => Tail(l.rest) \in Seq(Sections) /\ Tail(l.rest) # <<>>
<1>1. l \in Loops /\ l.rest \in Seq(Sections) /\ l.rest # <<>>
      /\ l.section \in Loaded /\ l.owner \in {"dialog", "page", "none"}
  BY DEF NetInv, LoopsInv, Loops
<1>2. Head(l.rest) \in Sections /\ Tail(l.rest) \in Seq(Sections) /\ Len(Tail(l.rest)) = Len(l.rest) - 1
  BY <1>1, HeadTailProperties
<1>3. ASSUME Len(l.rest) > 1
      PROVE  Tail(l.rest) # <<>>
  <2> DEFINE n == Len(l.rest)
             t == Tail(l.rest)
  <2>1. n \in Nat
    BY <1>1, LenProperties
  <2>2. Len(t) = n - 1 /\ n > 1
    BY <1>2, <1>3
  <2> HIDE DEF n, t
  <2>3. Len(t) # 0
    BY <2>1, <2>2
  <2>4. Len(<<>>) = 0
    OBVIOUS
  <2>5. t # <<>>
    BY <2>3, <2>4
  <2> QED BY <2>5 DEF t
<1> QED BY <1>1, <1>2, <1>3

LEMMA OrdersType ==
    ASSUME NEW s, NEW keys \in Orders(DirtyKeys(s))
    PROVE  keys \in Seq(Sections)
<1>1. DirtyKeys(s) \subseteq Sections /\ IsFiniteSet(Sections)
  BY EditingAssumption DEF DirtyKeys
<1>2. Cardinality(DirtyKeys(s)) \in Nat
  BY <1>1, FS_Subset, FS_CardinalityType
<1>3. keys \in [1..Cardinality(DirtyKeys(s)) -> DirtyKeys(s)]
  BY DEF Orders
<1> QED BY <1>1, <1>2, <1>3, IsASeq, SeqMonotonic

Sends == \/ \E keys \in Orders(DirtyKeys(store)) : keys # <<>> /\ StartSave(keys)
         \/ \E l \in loops : SavedNext(l)

\* A section on its way to the server, at the start of a save or after the one before it.
LEMMA SendKeeps ==
    ASSUME IInv, Sends
    PROVE  /\ ServerInv' /\ LoopsInv(loops') /\ unseen' \in BOOLEAN
           /\ \A l \in loops' : l.section.domain = domain \/ l \in loops
           /\ (\A k \in DOMAIN store'.drafts :
                 store'.drafts[k].origin = [domain |-> domain, version |-> BaseVersionOf(store', k)])
                 => unseen' = unseen
<1>1. ServerInv /\ StoresInv /\ NetInv /\ PlainInv /\ unseen \in BOOLEAN /\ LoopsInv(loops)
  BY Parts DEF PlainInv, NetInv
<1>2. domain \in Domains
  BY <1>1, DomainType
<1>3. ASSUME NEW keys \in Orders(DirtyKeys(store)), keys # <<>>, StartSave(keys)
      PROVE  /\ ServerInv' /\ LoopsInv(loops') /\ unseen' \in BOOLEAN
             /\ \A l \in loops' : l.section.domain = domain \/ l \in loops
             /\ (\A k \in DOMAIN store'.drafts :
                   store'.drafts[k].origin = [domain |-> domain, version |-> BaseVersionOf(store', k)])
                   => unseen' = unseen
  <2>1. keys \in Seq(Sections)
    BY OrdersType
  <2>2. store.drafts \in Partial(Drafts)
    BY <1>1, SoundParts DEF StoresInv
  <2>3. Put(keys, store, "dialog", loops) /\ store' = store
    BY <1>3 DEF StartSave
  <2> QED BY <1>1, <1>2, <1>3, <2>1, <2>2, <2>3, PutKeeps
<1>4. ASSUME NEW l \in loops, SavedNext(l)
      PROVE  /\ ServerInv' /\ LoopsInv(loops') /\ unseen' \in BOOLEAN
             /\ \A m \in loops' : m.section.domain = domain \/ m \in loops
             /\ (\A k \in DOMAIN store'.drafts :
                   store'.drafts[k].origin = [domain |-> domain, version |-> BaseVersionOf(store', k)])
                   => unseen' = unseen
  <2>1. /\ Head(l.rest) \in Sections /\ l.section \in Loaded /\ l.owner \in {"dialog", "page", "none"}
        /\ Tail(l.rest) \in Seq(Sections) /\ Tail(l.rest) # <<>>
    BY <1>1, <1>4, LoopType DEF SavedNext
  <2>2. PICK s : s = store'
    OBVIOUS
  <2>3. s = Saved(store, l.section, Head(l.rest)) /\ Put(Tail(l.rest), s, l.owner, loops \ {l})
    BY <1>4, <2>2 DEF SavedNext, TakeSaved
  <2>4. s.drafts \in Partial(Drafts)
    BY <1>1, <2>1, <2>3, SavedKeeps, SoundParts DEF StoresInv
  <2>5. LoopsInv(loops \ {l})
    BY <1>1 DEF LoopsInv
  <2>6. /\ ServerInv' /\ LoopsInv(loops') /\ unseen' \in BOOLEAN
        /\ \A m \in loops' : m.section.domain = domain \/ m \in loops \ {l}
        /\ (\A k \in DOMAIN s.drafts :
              s.drafts[k].origin = [domain |-> domain, version |-> BaseVersionOf(s, k)])
              => unseen' = unseen
    BY <1>1, <1>2, <2>1, <2>3, <2>4, <2>5, PutKeeps
  <2> QED BY <2>2, <2>6
<1> QED BY <1>3, <1>4 DEF Sends

-----------------------------------------------------------------------------
(* Steps of the store. *)

\* The store of the selected domain goes on; the others wait.
GoesOn ==
    /\ domain' = domain /\ parked' = parked
    /\ StoreType(store') /\ DraftsSound(store') /\ DOMAIN store.bases \subseteq DOMAIN store'.bases
    /\ PlaceInv => BasesOf(store', domain)
    /\ PlaceInv /\ OriginInv => Holds(store', BegunIn(domain))

Leaves == \E d \in Worked : SwitchDomain(d) \/ Login(d) \/ \E in \in BOOLEAN : LoadTab(in, d)

LEMMA ShownType ==
    ASSUME NEW s, StoreType(s), DraftsSound(s), NEW k \in DOMAIN s.bases
    PROVE  /\ k \in Sections /\ Shown(s, k) \in [content : Contents, origin : Origins]
           /\ \A d : BasesOf(s, d) /\ Holds(s, BegunIn(d)) =>
                 Shown(s, k).origin = [domain |-> d, version |-> BaseVersionOf(s, k)]
<1>1. /\ s.drafts \in Partial(Drafts) /\ s.bases \in Partial(Loaded) /\ k \in Sections
      /\ DOMAIN s.drafts = DOMAIN s.draftBase
  BY SoundParts
<1>2. CASE k \in DOMAIN s.drafts
  <2>1. s.drafts[k] \in Drafts
    BY <1>1, <1>2, PartialType
  <2>2. Shown(s, k) \in [content : Contents, origin : Origins] /\ Shown(s, k).origin = s.drafts[k].origin
    BY <1>2, <2>1 DEF Shown, Drafts
  <2>3. BaseVersionOf(s, k) = s.draftBase[k]
    BY <1>1, <1>2 DEF BaseVersionOf
  <2> QED BY <1>1, <1>2, <2>2, <2>3, SoundParts
<1>3. CASE k \notin DOMAIN s.drafts
  <2>1. s.bases[k] \in Loaded
    BY <1>1, PartialType
  <2>2. /\ OriginOf(s.bases[k]) \in Origins
        /\ OriginOf(s.bases[k]) = [domain |-> s.bases[k].domain, version |-> s.bases[k].version]
    BY <2>1 DEF OriginOf, Loaded, Origins
  <2>3. /\ Shown(s, k) \in [content : Contents, origin : Origins]
        /\ Shown(s, k).origin = OriginOf(s.bases[k])
    BY <1>3, <2>1, <2>2 DEF Shown, Loaded
  <2>4. BaseVersionOf(s, k) = s.bases[k].version
    BY <1>1, <1>3 DEF BaseVersionOf
  <2> QED BY <1>1, <2>2, <2>3, <2>4 DEF BasesOf
<1> QED BY <1>2, <1>3

\* Changes of sections that are loaded, begun over what is shown.
LEMMA ChangesGoOn ==
    ASSUME IInv, domain' = domain, parked' = parked, NEW changes \in Partial(Drafts),
           DOMAIN changes \subseteq DOMAIN store.bases, NEW tag \in BOOLEAN, NEW joins,
           store' = Applied(store, changes, tag, joins),
           PlaceInv /\ OriginInv => \A k \in DOMAIN changes :
               changes[k].origin = [domain |-> domain, version |-> BaseVersionOf(store, k)]
    PROVE  GoesOn
<1>1. StoreType(store) /\ DraftsSound(store)
  BY Parts DEF StoresInv
<1>2. /\ StoreType(store') /\ DraftsSound(store') /\ store'.bases = store.bases
      /\ \A d : Holds(store, BegunIn(d))
                /\ (\A k \in DOMAIN changes :
                      changes[k].origin = [domain |-> d, version |-> BaseVersionOf(store, k)])
            => Holds(store', BegunIn(d))
  BY <1>1, AppliedKeeps
<1>3. PlaceInv => BasesOf(store', domain)
  BY <1>2 DEF PlaceInv, BasesOf
<1>4. PlaceInv /\ OriginInv => Holds(store', BegunIn(domain))
  BY <1>2 DEF OriginInv
<1> QED BY <1>2, <1>3, <1>4 DEF GoesOn

LEMMA EditGoesOn ==
    ASSUME IInv, NEW changes \in Changes, NEW tag \in BOOLEAN, NEW joins \in BOOLEAN, Edit(changes, tag, joins)
    PROVE  GoesOn
<1> DEFINE drafts == [k \in DOMAIN changes |-> Draft(changes[k], Shown(store, k).origin)]
<1>1. StoreType(store) /\ DraftsSound(store)
  BY Parts DEF StoresInv
<1>2. DOMAIN changes \subseteq DOMAIN store.bases
  BY <1>1, SoundParts DEF Edit, Editable, Known
<1>3. \A k \in DOMAIN changes : k \in Sections /\ changes[k] \in Contents
  BY DEF Changes
<1>4. \A k \in DOMAIN changes : Shown(store, k).origin \in Origins
  BY <1>1, <1>2, ShownType
<1>5. \A k \in DOMAIN changes : Draft(changes[k], Shown(store, k).origin) \in Drafts
                                /\ Draft(changes[k], Shown(store, k).origin).origin = Shown(store, k).origin
  BY <1>3, <1>4 DEF Draft, Drafts
<1>6. /\ drafts \in Partial(Drafts) /\ DOMAIN drafts = DOMAIN changes
      /\ \A k \in DOMAIN changes : drafts[k].origin = Shown(store, k).origin
  BY <1>3, <1>5, PartialType
<1>7. store' = Applied(store, drafts, tag, joins) /\ domain' = domain /\ parked' = parked
  BY DEF Edit
<1> HIDE DEF drafts
<1>8. PlaceInv /\ OriginInv => \A k \in DOMAIN drafts :
          drafts[k].origin = [domain |-> domain, version |-> BaseVersionOf(store, k)]
  BY <1>1, <1>2, <1>6, ShownType DEF PlaceInv, OriginInv
<1> QED BY <1>2, <1>6, <1>7, <1>8, ChangesGoOn

LEMMA ItemGoesOn ==
    ASSUME IInv, NEW c \in Contents, Submit(c) \/ ConfirmDelete(c)
    PROVE  GoesOn
<1>1. StoreType(store) /\ DraftsSound(store)
  BY Parts DEF StoresInv
<1>2. /\ dialog \in Dialogs /\ dialog # NoDialog
      /\ dialog.key \in DOMAIN store.bases /\ dialog.key \in Sections /\ dialog.value.origin \in Origins
  BY Parts DEF PageInv, Submit, ConfirmDelete, ItemOnTop, Dialogs
<1>3. domain' = domain /\ parked' = parked
  BY DEF Submit, ConfirmDelete
<1>4. ASSUME NEW origin \in Origins, store' = Applied(store, [k \in {dialog.key} |-> Draft(c, origin)], FALSE, FALSE),
             PlaceInv /\ OriginInv =>
                 origin = [domain |-> domain, version |-> BaseVersionOf(store, dialog.key)]
      PROVE  GoesOn
  <2> DEFINE changes == [k \in {dialog.key} |-> Draft(c, origin)]
  <2>1. Draft(c, origin) \in Drafts /\ Draft(c, origin).origin = origin
    BY DEF Draft, Drafts
  <2>2. /\ changes \in Partial(Drafts) /\ DOMAIN changes \subseteq DOMAIN store.bases
        /\ \A k \in DOMAIN changes : k = dialog.key /\ changes[k].origin = origin
    BY <1>2, <2>1, PartialType
  <2>3. store' = Applied(store, changes, FALSE, FALSE)
    BY <1>4
  <2> HIDE DEF changes
  <2> QED BY <1>3, <1>4, <2>2, <2>3, ChangesGoOn
<1>5. CASE Submit(c)
  <2>1. CASE dialog.moved
    <3>1. store' = store
      BY <1>5, <2>1 DEF Submit
    <3> QED BY <1>1, <1>3, <3>1 DEF GoesOn, PlaceInv, OriginInv
  <2>2. CASE ~dialog.moved
    <3> DEFINE origin == Shown(store, dialog.key).origin
    <3>1. store' = Applied(store, [k \in {dialog.key} |-> Draft(c, origin)], FALSE, FALSE)
      BY <1>5, <2>2 DEF Submit
    <3>2. /\ origin \in Origins
          /\ PlaceInv /\ OriginInv =>
                 origin = [domain |-> domain, version |-> BaseVersionOf(store, dialog.key)]
      BY <1>1, <1>2, ShownType DEF PlaceInv, OriginInv
    <3> HIDE DEF origin
    <3> QED BY <1>4, <3>1, <3>2
  <2> QED BY <2>1, <2>2
<1>6. CASE ConfirmDelete(c)
  <2> DEFINE origin == dialog.value.origin
  <2>1. store' = Applied(store, [k \in {dialog.key} |-> Draft(c, origin)], FALSE, FALSE)
    BY <1>6 DEF ConfirmDelete
  <2>2. PlaceInv /\ OriginInv =>
            origin = [domain |-> domain, version |-> BaseVersionOf(store, dialog.key)]
    BY <1>2 DEF OriginInv
  <2>3. origin \in Origins
    BY <1>2
  <2> HIDE DEF origin
  <2> QED BY <1>4, <2>1, <2>2, <2>3
<1> QED BY <1>5, <1>6

LEMMA AnswerGoesOn ==
    ASSUME IInv,
           \/ \E f \in fetches : FetchArrives(f)
           \/ \E l \in loops : SavedNext(l) \/ SavedLast(l)
           \/ \E x \in restores : RestoreArrives(x)
    PROVE  GoesOn
<1>1. StoreType(store) /\ DraftsSound(store) /\ NetInv
  BY Parts DEF StoresInv
<1>2. ASSUME NEW f \in fetches, FetchArrives(f)
      PROVE  GoesOn
  <2>1. f.key \in Sections /\ f.section \in Loaded
    BY <1>1 DEF NetInv, Fetches
  <2>2. /\ domain' = domain /\ parked' = parked
        /\ store' = IF f.rebase THEN Rebased(SetBase(store, f.section, f.key), f.key)
                    ELSE SetBase(store, f.section, f.key)
    BY <1>2 DEF FetchArrives
  <2>3. /\ StoreType(store') /\ DraftsSound(store') /\ DOMAIN store.bases \subseteq DOMAIN store'.bases
        /\ \A d : BasesOf(store, d) /\ f.section.domain = d => BasesOf(store', d)
        /\ \A d : BasesOf(store, d) /\ f.section.domain = d /\ Holds(store, BegunIn(d))
                => Holds(store', BegunIn(d))
    BY <1>1, <2>1, <2>2, LoadedKeeps
  <2>4. PlaceInv => BasesOf(store, domain) /\ f.section.domain = domain
    BY DEF PlaceInv
  <2>5. OriginInv => Holds(store, BegunIn(domain))
    BY DEF OriginInv
  <2> QED BY <2>2, <2>3, <2>4, <2>5 DEF GoesOn
<1>3. ASSUME NEW sec \in Loaded, NEW k \in Sections, TakeSaved(sec, k), domain' = domain, parked' = parked,
             PlaceInv => sec.domain = domain
      PROVE  GoesOn
  <2>1. store' = Saved(store, sec, k)
    BY <1>3 DEF TakeSaved
  <2>2. /\ StoreType(store') /\ DraftsSound(store') /\ DOMAIN store.bases \subseteq DOMAIN store'.bases
        /\ \A d : BasesOf(store, d) /\ sec.domain = d => BasesOf(store', d)
        /\ \A d : Holds(store, BegunIn(d)) => Holds(store', BegunIn(d))
    BY <1>1, <2>1, SavedKeeps
  <2>3. (PlaceInv => BasesOf(store, domain)) /\ (OriginInv => Holds(store, BegunIn(domain)))
    BY DEF PlaceInv, OriginInv
  <2> QED BY <1>3, <2>2, <2>3 DEF GoesOn
<1>4. ASSUME NEW l \in loops, SavedNext(l) \/ SavedLast(l)
      PROVE  GoesOn
  <2>1. l.section \in Loaded /\ Head(l.rest) \in Sections
    BY <1>1, LoopType
  <2>2. TakeSaved(l.section, Head(l.rest)) /\ domain' = domain /\ parked' = parked
    BY <1>4 DEF SavedNext, SavedLast
  <2>3. PlaceInv => l.section.domain = domain
    BY DEF PlaceInv
  <2> QED BY <1>3, <2>1, <2>2, <2>3
<1>5. ASSUME NEW x \in restores, RestoreArrives(x)
      PROVE  GoesOn
  <2>1. x.section \in Loaded /\ x.key \in Sections
    BY <1>1 DEF NetInv, Arriving
  <2>2. TakeSaved(x.section, x.key) /\ domain' = domain /\ parked' = parked
    BY <1>5 DEF RestoreArrives
  <2>3. PlaceInv => x.section.domain = domain
    BY DEF PlaceInv
  <2> QED BY <1>3, <2>1, <2>2, <2>3
<1> QED BY <1>2, <1>4, <1>5

LEMMA StoreGoesOn ==
    ASSUME IInv, [Next]_vars, ~Leaves
    PROVE  GoesOn
<1>1. StoreType(store) /\ DraftsSound(store)
  BY Parts DEF StoresInv
<1>2. ASSUME domain' = domain, parked' = parked, StoreType(store'), DraftsSound(store'),
             store'.bases = store.bases, \A d : Holds(store, BegunIn(d)) => Holds(store', BegunIn(d))
      PROVE  GoesOn
  BY <1>2 DEF GoesOn, PlaceInv, OriginInv, BasesOf
<1>3. CASE UNCHANGED <<domain, parked, store>>
  BY <1>1, <1>2, <1>3
<1>4. CASE Undo
  BY <1>1, <1>2, <1>4, UndoneKeeps DEF Undo
<1>5. CASE Redo
  BY <1>1, <1>2, <1>5, RedoneKeeps DEF Redo
<1>6. ASSUME NEW k, Discard(k) \/ (Reload /\ k = conflict)
      PROVE  GoesOn
  <2>1. store' = Discarded(store, k) /\ domain' = domain /\ parked' = parked
    BY <1>6 DEF Discard, Reload
  <2> QED BY <1>1, <1>2, <2>1, DiscardedKeeps
<1> QED BY <1>3, <1>4, <1>5, <1>6, EditGoesOn, ItemGoesOn, AnswerGoesOn
        DEF Next, Leaves, vars, OtherSave, Fetch, FetchFails, OpenItem, CloseItem, OpenSave, CloseSave, StartSave,
            NotSaved, KeepEditing, DismissConflict, Restore, RestoreLost, Navigate, SessionEnds

-----------------------------------------------------------------------------
(* Every step keeps the parts. *)

LEMMA ServerStep == IInv /\ [Next]_vars => ServerInv'
<1> SUFFICES ASSUME IInv, [Next]_vars
             PROVE  ServerInv'
  OBVIOUS
<1>1. ServerInv /\ PlainInv /\ StoresInv
  BY Parts
<1>2. domain \in Domains /\ Worked \subseteq Domains
  BY <1>1, DomainType
<1>3. ASSUME NEW p \in scope, NEW c \in Contents, OtherSave(p[1], p[2], c)
      PROVE  ServerInv'
  <2>1. p[1] \in Domains /\ p[2] \in Sections
    BY <1>1, EditingAssumption DEF PlainInv
  <2> QED BY <1>1, <1>3, <2>1, SaveKeeps DEF OtherSave
<1>4. CASE Sends
  BY <1>4, SendKeeps
<1>5. ASSUME NEW k \in Sections, NEW v \in Versions, Restore(k, v)
      PROVE  ServerInv'
  <2>1. server[domain][k][v] \in Contents
    <3>1. server[domain][k] \in Seq(Contents) /\ v \in 1..Len(server[domain][k])
      BY <1>1, <1>2, <1>5 DEF ServerInv, Restore, Restorable
    <3> QED BY <3>1, ElementOfSeq
  <2>2. Save(domain, k, server[domain][k][v])
    BY <1>5 DEF Restore
  <2> QED BY <1>1, <1>2, <2>1, <2>2, SaveKeeps
<1>6. CASE UNCHANGED server
  BY <1>1, <1>6 DEF ServerInv
<1> QED BY <1>3, <1>4, <1>5, <1>6 DEF Next, Sends, vars, Fetch, FetchArrives, FetchFails, Edit, OpenItem, Submit,
        ConfirmDelete, CloseItem, Undo, Redo, Discard, OpenSave, CloseSave, SavedLast, NotSaved, KeepEditing,
        Reload, DismissConflict, RestoreArrives, RestoreLost, SwitchDomain, Navigate, SessionEnds, Login, LoadTab

LEMMA PlainStep == IInv /\ [Next]_vars => PlainInv'
<1> SUFFICES ASSUME IInv, [Next]_vars
             PROVE  PlainInv'
  OBVIOUS
<1>1. PlainInv /\ NetInv
  BY Parts
<1>2. domain \in Domains /\ Worked \subseteq Domains
  BY <1>1, DomainType
<1>3. unseen' \in BOOLEAN
  <2>1. CASE Sends
    BY <2>1, SendKeeps
  <2>2. CASE UNCHANGED unseen
    BY <1>1, <2>2 DEF PlainInv
  <2> QED BY <2>1, <2>2 DEF Next, Sends, vars, OtherSave, Fetch, FetchArrives, FetchFails, Edit, OpenItem, Submit,
        ConfirmDelete, CloseItem, Undo, Redo, Discard, OpenSave, CloseSave, SavedLast, NotSaved, KeepEditing,
        Reload, DismissConflict, Restore, RestoreArrives, RestoreLost, SwitchDomain, Navigate, SessionEnds, Login,
        LoadTab
<1>4. scope' = scope
  BY DEF Next, vars, OtherSave, Fetch, FetchArrives, FetchFails, Edit, OpenItem, Submit, ConfirmDelete, CloseItem,
     Undo, Redo, Discard, OpenSave, CloseSave, StartSave, SavedNext, SavedLast, NotSaved, KeepEditing, Reload,
     DismissConflict, Restore, RestoreArrives, RestoreLost, SwitchDomain, Navigate, SessionEnds, Login, LoadTab
<1>5. domain' \in Worked /\ signedIn' \in BOOLEAN
  <2>1. CASE UNCHANGED <<domain, signedIn>>
    BY <1>1, <2>1 DEF PlainInv
  <2>2. ASSUME NEW d \in Worked, SwitchDomain(d) \/ Login(d) \/ \E in \in BOOLEAN : LoadTab(in, d)
        PROVE  domain' \in Worked /\ signedIn' \in BOOLEAN
    BY <1>1, <2>2 DEF PlainInv, SwitchDomain, Login, LoadTab, Fresh
  <2>3. CASE SessionEnds
    BY <1>1, <2>3 DEF PlainInv, SessionEnds
  <2> QED BY <2>1, <2>2, <2>3 DEF Next, vars, OtherSave, Fetch, FetchArrives, FetchFails, Edit, OpenItem, Submit,
        ConfirmDelete, CloseItem, Undo, Redo, Discard, OpenSave, CloseSave, StartSave, SavedNext, SavedLast, NotSaved,
        KeepEditing, Reload, DismissConflict, Restore, RestoreArrives, RestoreLost, Navigate
<1>6. cached' \in [Domains -> SUBSET Sections]
  <2>1. CASE UNCHANGED cached
    BY <1>1, <2>1 DEF PlainInv
  <2>2. ASSUME NEW f \in fetches, FetchArrives(f)
        PROVE  cached' \in [Domains -> SUBSET Sections]
    <3>1. f.section.domain \in Domains /\ f.key \in Sections
      BY <1>1 DEF NetInv, Fetches, Loaded
    <3> QED BY <1>1, <2>2, <3>1 DEF PlainInv, FetchArrives
  <2>3. ASSUME NEW sec, NEW k \in Sections, TakeSaved(sec, k)
        PROVE  cached' \in [Domains -> SUBSET Sections]
    BY <1>1, <1>2, <2>3 DEF PlainInv, TakeSaved
  <2>4. ASSUME NEW l \in loops, SavedNext(l) \/ SavedLast(l)
        PROVE  cached' \in [Domains -> SUBSET Sections]
    BY <1>1, <2>3, <2>4, LoopType DEF SavedNext, SavedLast
  <2>5. ASSUME NEW r \in restores, RestoreArrives(r)
        PROVE  cached' \in [Domains -> SUBSET Sections]
    BY <1>1, <2>3, <2>5 DEF RestoreArrives, NetInv, Arriving
  <2>6. ASSUME NEW d \in Worked, NEW in, LoadTab(in, d)
        PROVE  cached' \in [Domains -> SUBSET Sections]
    BY <2>6 DEF LoadTab, Fresh
  <2> QED BY <2>1, <2>2, <2>4, <2>5, <2>6 DEF Next, vars, OtherSave, Fetch, FetchFails, Edit, OpenItem, Submit,
        ConfirmDelete, CloseItem, Undo, Redo, Discard, OpenSave, CloseSave, StartSave, NotSaved, KeepEditing, Reload,
        DismissConflict, Restore, RestoreLost, SwitchDomain, Navigate, SessionEnds, Login
<1>7. edits' \in 0..MaxEdits
  <2>1. MaxEdits \in Nat /\ edits \in 0..MaxEdits
    BY <1>1, EditingAssumption DEF PlainInv
  <2>2. edits' = edits \/ Changing
    BY DEF Next, vars, OtherSave, Fetch, FetchArrives, FetchFails, Edit, OpenItem, Submit, ConfirmDelete, CloseItem,
       Undo, Redo, Discard, OpenSave, CloseSave, StartSave, SavedNext, SavedLast, NotSaved, KeepEditing, Reload,
       DismissConflict, Restore, RestoreArrives, RestoreLost, SwitchDomain, Navigate, SessionEnds, Login, LoadTab
  <2> QED BY <2>1, <2>2 DEF Changing
<1>8. logins' \in 0..MaxLogins
  <2>1. MaxLogins \in Nat /\ logins \in 0..MaxLogins
    BY <1>1, EditingAssumption DEF PlainInv
  <2>2. logins' = logins \/ (logins < MaxLogins /\ logins' = logins + 1)
    BY DEF Next, vars, OtherSave, Fetch, FetchArrives, FetchFails, Edit, OpenItem, Submit, ConfirmDelete, CloseItem,
       Undo, Redo, Discard, OpenSave, CloseSave, StartSave, SavedNext, SavedLast, NotSaved, KeepEditing, Reload,
       DismissConflict, Restore, RestoreArrives, RestoreLost, SwitchDomain, Navigate, SessionEnds, Login, LoadTab
  <2> QED BY <2>1, <2>2
<1> QED BY <1>1, <1>3, <1>4, <1>5, <1>6, <1>7, <1>8 DEF PlainInv, Worked

\* The page is left: another domain, the login page, or the application anew.
LEMMA LeavesStores ==
    ASSUME IInv, Leaves
    PROVE  StoresInv' /\ NetInv' /\ PageInv'
<1>1. StoresInv /\ NetInv /\ PageInv /\ PlainInv
  BY Parts
<1>2. domain \in Domains /\ Worked \subseteq Domains
  BY <1>1, DomainType
<1>3. ASSUME NEW s, StoreType(s), DraftsSound(s), NEW d \in Worked, domain' = d, SwitchedTo(s, d)
      PROVE  StoresInv'
  <2>1. CASE d = domain
    BY <1>1, <1>3, <2>1 DEF StoresInv, SwitchedTo
  <2>2. CASE d # domain
    <3>1. /\ store' = IF d \in DOMAIN parked THEN parked[d] ELSE EmptyState
          /\ parked' = With(Without(parked, {d}), domain, s)
      BY <1>3, <2>2 DEF SwitchedTo
    <3>2. StoreType(store') /\ DraftsSound(store')
      BY <1>1, <3>1, EmptyKeeps DEF StoresInv
    <3>3. /\ \A e : e \in DOMAIN parked' <=> e = domain \/ (e \in DOMAIN parked /\ e # d)
          /\ parked'[domain] = s
          /\ \A e \in DOMAIN parked' : e # domain => parked'[e] = parked[e]
      BY <3>1, ParkedType
    <3> QED BY <1>1, <1>2, <1>3, <2>2, <3>2, <3>3 DEF StoresInv
  <2> QED BY <2>1, <2>2
<1>4. ASSUME NEW d \in Worked, SwitchDomain(d)
      PROVE  StoresInv' /\ NetInv' /\ PageInv'
  <2>1. StoresInv'
    BY <1>1, <1>3, <1>4 DEF SwitchDomain, StoresInv
  <2>2. fetches' \subseteq Fetches
    <3>1. \A f \in fetches : NoLongerAwaited(f) \in Fetches
      BY <1>1 DEF NetInv, Fetches, NoLongerAwaited
    <3> QED BY <1>4, <3>1 DEF SwitchDomain
  <2>3. LoopsInv(loops') /\ restores' = restores
    BY <1>1, <1>4, LoopsGone DEF SwitchDomain, PageEnds, NetInv
  <2>4. PageInv'
    BY <1>4 DEF SwitchDomain, PageEnds, CloseSaving, PageInv
  <2> QED BY <1>1, <2>1, <2>2, <2>3, <2>4 DEF NetInv
<1>5. ASSUME NEW d \in Worked, Login(d)
      PROVE  StoresInv' /\ NetInv' /\ PageInv'
  <2>1. StoreType(AllDiscarded(store)) /\ DraftsSound(AllDiscarded(store))
    BY <1>1, AllDiscardedKeeps DEF StoresInv
  <2>2. StoresInv'
    BY <1>3, <1>5, <2>1 DEF Login
  <2>3. UNCHANGED <<fetches, loops, restores, dialog, saveDialog, conflict>> /\ ~signedIn
    BY <1>5 DEF Login, net, page
  <2>4. NetInv'
    BY <1>1, <2>3 DEF NetInv, LoopsInv
  <2>5. PageInv'
    BY <1>1, <2>3 DEF PageInv
  <2> QED BY <2>2, <2>4, <2>5
<1>6. ASSUME NEW d \in Worked, NEW in \in BOOLEAN, LoadTab(in, d)
      PROVE  StoresInv' /\ NetInv' /\ PageInv'
  <2>1. /\ store' = EmptyState /\ parked' = <<>> /\ domain' = d
        /\ fetches' = {} /\ loops' = {} /\ restores' = {}
        /\ dialog' = NoDialog /\ saveDialog' = "closed" /\ conflict' = NoKey
    BY <1>6 DEF LoadTab, Fresh
  <2>2. DOMAIN parked' = {}
    BY <2>1, EmptyPartial
  <2>3. StoresInv'
    BY <2>1, <2>2, EmptyKeeps DEF StoresInv
  <2> QED BY <2>1, <2>3 DEF NetInv, LoopsInv, PageInv
<1> QED BY <1>4, <1>5, <1>6 DEF Leaves

LEMMA StoresStep == IInv /\ [Next]_vars => StoresInv'
<1> SUFFICES ASSUME IInv, [Next]_vars
             PROVE  StoresInv'
  OBVIOUS
<1>1. CASE Leaves
  BY <1>1, LeavesStores
<1>2. CASE ~Leaves
  <2>1. StoresInv /\ GoesOn
    BY <1>2, Parts, StoreGoesOn
  <2> QED BY <2>1 DEF StoresInv, GoesOn
<1> QED BY <1>1, <1>2

LEMMA NetStep == IInv /\ [Next]_vars => NetInv'
<1> SUFFICES ASSUME IInv, [Next]_vars, ~Leaves
             PROVE  NetInv'
  BY LeavesStores
<1>1. ServerInv /\ NetInv /\ PageInv /\ PlainInv /\ fetches \subseteq Fetches /\ LoopsInv(loops)
      /\ restores \subseteq Arriving
  BY Parts DEF NetInv
<1>2. domain \in Domains
  BY <1>1, DomainType
<1>3. fetches' \subseteq Fetches
  <2>1. ASSUME NEW k \in Sections, NEW rebase \in BOOLEAN, NEW closes \in BOOLEAN
        PROVE  [key |-> k, section |-> Section(domain, k), live |-> TRUE,
                rebase |-> rebase, closes |-> closes] \in Fetches
    BY <1>1, <1>2, SectionType DEF Fetches
  <2>2. \A f \in fetches : /\ NoLongerAwaited(f) \in Fetches /\ [f EXCEPT !.closes = FALSE] \in Fetches
                           /\ [f EXCEPT !.rebase = TRUE, !.closes = TRUE] \in Fetches
    BY <1>1 DEF Fetches, NoLongerAwaited
  <2>3. ASSUME NEW k \in Sections, Fetch(k)
        PROVE  fetches' \subseteq Fetches
    BY <1>1, <2>1, <2>3 DEF Fetch
  <2>4. CASE fetches' \subseteq fetches
    BY <1>1, <2>4
  <2>5. CASE KeepEditing
    <3>1. conflict \in Sections
      BY <1>1, <2>5 DEF PageInv, KeepEditing, Conflicted
    <3>2. Live(conflict) \subseteq fetches
      BY DEF Live
    <3>3. \/ fetches' = (fetches \ Live(conflict))
                         \cup {[f EXCEPT !.rebase = TRUE, !.closes = TRUE] : f \in Live(conflict)}
          \/ fetches' = (fetches \ Live(conflict))
                         \cup {[key |-> conflict, section |-> Section(domain, conflict),
                               live |-> TRUE, rebase |-> TRUE, closes |-> TRUE]}
      BY <2>5 DEF KeepEditing
    <3>4. [key |-> conflict, section |-> Section(domain, conflict),
           live |-> TRUE, rebase |-> TRUE, closes |-> TRUE] \in Fetches
      BY <2>1, <3>1
    <3>5. CASE fetches' = (fetches \ Live(conflict))
                          \cup {[f EXCEPT !.rebase = TRUE, !.closes = TRUE] : f \in Live(conflict)}
      BY <1>1, <2>2, <3>2, <3>5
    <3> QED BY <1>1, <3>3, <3>4, <3>5
  <2>6. CASE Reload
    <3>1. conflict \in Sections
      BY <1>1, <2>6 DEF PageInv, Reload, Conflicted
    <3>2. Live(conflict) \subseteq fetches
      BY DEF Live
    <3>3. fetches' = (fetches \ Live(conflict))
                     \cup {NoLongerAwaited(f) : f \in Live(conflict)}
                     \cup {[key |-> conflict, section |-> Section(domain, conflict),
                             live |-> TRUE, rebase |-> FALSE, closes |-> TRUE]}
      BY <2>6 DEF Reload
    <3> QED BY <1>1, <2>1, <2>2, <3>1, <3>2, <3>3
  <2>7. CASE Navigate \/ SessionEnds
    <3>1. fetches' = {[f EXCEPT !.closes = FALSE] : f \in fetches}
      BY <2>7 DEF Navigate, SessionEnds, NoDialogWaits
    <3>2. \A f \in fetches : [f EXCEPT !.closes = FALSE] \in Fetches
      BY <2>2
    <3> QED BY <3>1, <3>2
  <2> QED BY <2>3, <2>4, <2>5, <2>6, <2>7 DEF Next, Leaves, vars, net, OtherSave, FetchArrives, FetchFails, Edit,
        OpenItem, Submit, ConfirmDelete, CloseItem, Undo, Redo, Discard, OpenSave, CloseSave, StartSave, SavedNext,
        SavedLast, NotSaved, DismissConflict, Restore, RestoreArrives, RestoreLost
<1>4. LoopsInv(loops')
  <2>1. CASE Sends
    BY <2>1, SendKeeps
  <2>2. ASSUME NEW L, L \subseteq loops, loops' \in {L, DialogGone(L), PageGone(L)}
        PROVE  LoopsInv(loops')
    <3>1. LoopsInv(L)
      BY <1>1, <2>2 DEF LoopsInv
    <3> QED BY <2>2, <3>1, LoopsGone
  <2>3. ASSUME NEW l \in loops, SavedLast(l) \/ NotSaved(l)
        PROVE  LoopsInv(loops')
    <3>1. loops' \in {loops \ {l}, DialogGone(loops \ {l})}
      BY <2>3 DEF SavedLast, NotSaved
    <3> QED BY <2>2, <3>1
  <2>4. CASE loops' \in {loops, DialogGone(loops), PageGone(loops)}
    BY <2>2, <2>4
  <2> QED BY <2>1, <2>3, <2>4 DEF Next, Leaves, Sends, vars, net, OtherSave, Fetch, FetchArrives, FetchFails, Edit,
        OpenItem, Submit, ConfirmDelete, CloseItem, Undo, Redo, Discard, OpenSave, CloseSave, KeepEditing, Reload,
        DismissConflict, Restore, RestoreArrives, RestoreLost, Navigate, SessionEnds, PageEnds
<1>5. restores' \subseteq Arriving
  <2>1. ASSUME NEW k \in Sections, NEW v \in Versions, Restore(k, v)
        PROVE  restores' \subseteq Arriving
    <3> DEFINE c == server[domain][k][v]
    <3>1. server[domain][k] \in Seq(Contents) /\ v \in 1..Len(server[domain][k])
      BY <1>1, <1>2, <2>1 DEF ServerInv, Restore, Restorable
    <3>2. c \in Contents
      BY <3>1, ElementOfSeq
    <3>3. Save(domain, k, c) /\ restores' = {[key |-> k, section |-> SavedAs(domain, k, c)]}
      BY <2>1 DEF Restore
    <3> HIDE DEF c
    <3>4. SavedAs(domain, k, c) \in Loaded
      BY <1>1, <1>2, <3>2, <3>3, SaveKeeps
    <3> QED BY <3>3, <3>4 DEF Arriving
  <2>2. CASE restores' \subseteq restores
    BY <1>1, <2>2
  <2> QED BY <2>1, <2>2 DEF Next, Leaves, vars, net, OtherSave, Fetch, FetchArrives, FetchFails, Edit,
        OpenItem, Submit, ConfirmDelete, CloseItem, Undo, Redo, Discard, OpenSave, CloseSave, StartSave, SavedNext,
        SavedLast, NotSaved, KeepEditing, Reload, DismissConflict, RestoreArrives, RestoreLost, Navigate, SessionEnds
<1> QED BY <1>3, <1>4, <1>5 DEF NetInv

LEMMA PageStep == IInv /\ [Next]_vars => PageInv'
<1> SUFFICES ASSUME IInv, [Next]_vars, ~Leaves
             PROVE  PageInv'
  BY LeavesStores
<1>1. StoresInv /\ NetInv /\ PageInv
  BY Parts
<1>2. DOMAIN store.bases \subseteq DOMAIN store'.bases
  BY StoreGoesOn DEF GoesOn
<1>3. /\ dialog' \in Dialogs \cup {NoDialog}
      /\ dialog' # NoDialog => signedIn' /\ dialog'.key \in DOMAIN store'.bases
  <2>1. ASSUME NEW k, MovedAway(k), signedIn' = signedIn
        PROVE  <1>3!:
    <3>1. CASE dialog # NoDialog
      <4>1. dialog \in Dialogs
        BY <1>1, <3>1 DEF PageInv
      <4>2. [dialog EXCEPT !.moved = TRUE] \in Dialogs /\ [dialog EXCEPT !.moved = TRUE].key = dialog.key
        BY <4>1 DEF Dialogs
      <4>3. dialog' = dialog \/ dialog' = [dialog EXCEPT !.moved = TRUE]
        BY <2>1 DEF MovedAway
      <4> QED BY <1>1, <1>2, <2>1, <3>1, <4>2, <4>3 DEF PageInv
    <3>2. CASE dialog = NoDialog
      BY <2>1, <3>2 DEF MovedAway
    <3> QED BY <3>1, <3>2
  <2>2. CASE UNCHANGED <<dialog, signedIn>>
    BY <1>1, <1>2, <2>2 DEF PageInv
  <2>3. CASE dialog' = NoDialog
    BY <2>3
  <2>4. ASSUME NEW kind \in RowMenu, NEW k \in Sections, OpenItem(kind, k)
        PROVE  <1>3!:
    <3>1. k \in DOMAIN store.bases
      BY <1>1, <2>4, SoundParts DEF StoresInv, OpenItem, Editable, Known
    <3>2. Shown(store, k) \in [content : Contents, origin : Origins]
      BY <1>1, <3>1, ShownType DEF StoresInv
    <3>3. dialog' = [kind |-> kind, key |-> k, moved |-> FALSE, value |-> Shown(store, k)] /\ signedIn'
      BY <2>4 DEF OpenItem
    <3>4. dialog' \in Dialogs /\ dialog'.key = k
      BY <3>2, <3>3 DEF Dialogs
    <3> QED BY <1>2, <3>1, <3>3, <3>4
  <2>5. ASSUME NEW f \in fetches, FetchArrives(f)
        PROVE  <1>3!:
    BY <2>1, <2>2, <2>5 DEF FetchArrives
  <2>6. ASSUME NEW l \in loops, SavedNext(l) \/ SavedLast(l)
        PROVE  <1>3!:
    BY <2>1, <2>6 DEF SavedNext, SavedLast, TakeSaved
  <2>7. ASSUME NEW r \in restores, RestoreArrives(r)
        PROVE  <1>3!:
    BY <2>1, <2>7 DEF RestoreArrives, TakeSaved
  <2> QED BY <2>2, <2>3, <2>4, <2>5, <2>6, <2>7 DEF Next, Leaves, vars, page, OtherSave, Fetch, FetchFails, Edit,
        Submit, ConfirmDelete, CloseItem, Undo, Redo, Discard, OpenSave, CloseSave, StartSave, NotSaved, KeepEditing,
        Reload, DismissConflict, Restore, RestoreLost, Navigate, SessionEnds, PageEnds
<1>4. /\ saveDialog' \in {"closed", "open", "saving"} /\ conflict' \in Sections \cup {NoKey}
      /\ conflict' # NoKey => saveDialog' # "closed"
  <2>1. CASE UNCHANGED <<saveDialog, conflict>>
    BY <1>1, <2>1 DEF PageInv
  <2>2. CASE CloseSaving
    BY <2>2 DEF CloseSaving
  <2>3. ASSUME NEW l \in loops, NotSaved(l)
        PROVE  <1>4!:
    <3>1. Head(l.rest) \in Sections
      BY <1>1, LoopType
    <3> QED BY <1>1, <2>3, <3>1 DEF NotSaved, PageInv
  <2>4. CASE OpenSave \/ CloseSave \/ DismissConflict \/ \E keys \in Orders(DirtyKeys(store)) : StartSave(keys)
    BY <1>1, <2>4 DEF PageInv, OpenSave, CloseSave, StartSave, DismissConflict
  <2> QED BY <2>1, <2>2, <2>3, <2>4 DEF Next, Leaves, vars, page, OtherSave, Fetch, FetchArrives, FetchFails, Edit,
        OpenItem, Submit, ConfirmDelete, CloseItem, Undo, Redo, Discard, SavedNext, SavedLast, KeepEditing,
        Reload, Restore, RestoreArrives, RestoreLost, Navigate, SessionEnds, PageEnds
<1> QED BY <1>3, <1>4 DEF PageInv

LEMMA EditingInit == Init => IInv
<1> SUFFICES ASSUME Init
             PROVE  IInv
  OBVIOUS
<1>1. PlainInv
  <2>1. {MaxEdits, MaxLogins} \subseteq Nat
    BY EditingAssumption
  <2>2. edits \in 0..MaxEdits /\ logins \in 0..MaxLogins
    BY <2>1 DEF Init
  <2>3. cached \in [Domains -> SUBSET Sections]
    BY DEF Init
  <2> QED BY <2>2, <2>3 DEF Init, PlainInv
<1>2. ServerInv
  <2>1. <<FirstContent>> \in Seq(Contents) /\ <<FirstContent>> # <<>> /\ Len(<<FirstContent>>) <= MaxVersion
    BY EditingAssumption, StoreAssumption
  <2> QED BY <2>1 DEF Init, ServerInv
<1>3. StoresInv
  <2>1. DOMAIN parked = {}
    BY EmptyPartial DEF Init
  <2> QED BY <2>1, EmptyKeeps DEF Init, StoresInv
<1>4. NetInv /\ PageInv
  BY DEF Init, NetInv, LoopsInv, PageInv
<1> QED BY <1>1, <1>2, <1>3, <1>4, Parts

-----------------------------------------------------------------------------
(* Every domain keeps its own sections. *)

LEMMA PlaceStep ==
    ASSUME QuietLeave
    PROVE  IInv /\ PlaceInv /\ [Next]_vars => PlaceInv'
<1> SUFFICES ASSUME IInv, PlaceInv, [Next]_vars
             PROVE  PlaceInv'
  OBVIOUS
<1>1. ServerInv /\ StoresInv /\ NetInv /\ PageInv /\ PlainInv
  BY Parts
<1>2. domain \in Domains
  BY <1>1, DomainType
<1>3. CASE Leaves
  <2>1. ASSUME NEW s, BasesOf(s, domain), NEW d \in Worked, domain' = d, SwitchedTo(s, d)
        PROVE  BasesOf(store', domain') /\ \A e \in DOMAIN parked' : BasesOf(parked'[e], e)
    <3>1. CASE d = domain
      BY <2>1, <3>1 DEF PlaceInv, SwitchedTo
    <3>2. CASE d # domain
      <4>1. /\ store' = IF d \in DOMAIN parked THEN parked[d] ELSE EmptyState
            /\ parked' = With(Without(parked, {d}), domain, s)
        BY <2>1, <3>2 DEF SwitchedTo
      <4>2. /\ \A e : e \in DOMAIN parked' <=> e = domain \/ (e \in DOMAIN parked /\ e # d)
            /\ parked'[domain] = s
            /\ \A e \in DOMAIN parked' : e # domain => parked'[e] = parked[e]
        BY <4>1, ParkedType
      <4>3. BasesOf(store', domain')
        BY <2>1, <4>1, EmptyKeeps DEF PlaceInv
      <4> QED BY <2>1, <4>2, <4>3 DEF PlaceInv
    <3> QED BY <3>1, <3>2
  <2>2. ASSUME NEW d \in Worked, SwitchDomain(d)
        PROVE  PlaceInv'
    <3>1. BasesOf(store', domain') /\ \A e \in DOMAIN parked' : BasesOf(parked'[e], e)
      BY <2>1, <2>2 DEF SwitchDomain, PlaceInv
    <3>2. fetches' = {} /\ loops' = {} /\ restores' = {}
      BY <2>2 DEF SwitchDomain, PageEnds, PageGone
    <3> QED BY <3>1, <3>2 DEF PlaceInv
  <2>3. ASSUME NEW d \in Worked, Login(d)
        PROVE  PlaceInv'
    <3>1. StoreType(AllDiscarded(store)) /\ AllDiscarded(store).bases = store.bases
      BY <1>1, AllDiscardedKeeps DEF StoresInv
    <3>2. BasesOf(AllDiscarded(store), domain)
      BY <3>1 DEF PlaceInv, BasesOf
    <3>3. BasesOf(store', domain') /\ \A e \in DOMAIN parked' : BasesOf(parked'[e], e)
      BY <2>1, <2>3, <3>2 DEF Login
    <3>4. fetches' = {} /\ loops' = {} /\ restores' = {}
      BY <2>3 DEF Login, net
    <3> QED BY <3>3, <3>4 DEF PlaceInv
  <2>4. ASSUME NEW d \in Worked, NEW in \in BOOLEAN, LoadTab(in, d)
        PROVE  PlaceInv'
    <3>1. /\ store' = EmptyState /\ parked' = <<>>
          /\ fetches' = {} /\ loops' = {} /\ restores' = {}
      BY <2>4 DEF LoadTab, Fresh
    <3>2. DOMAIN parked' = {}
      BY <3>1, EmptyPartial
    <3> QED BY <3>1, <3>2, EmptyKeeps DEF PlaceInv
  <2> QED BY <1>3, <2>2, <2>3, <2>4 DEF Leaves
<1>4. CASE ~Leaves
  <2>1. domain' = domain /\ parked' = parked /\ BasesOf(store', domain)
    BY <1>4, StoreGoesOn DEF GoesOn
  <2>2. \A x \in fetches' : x.section.domain = domain
    <3>1. \A f \in fetches : /\ f.section.domain = domain /\ NoLongerAwaited(f).section = f.section
                             /\ [f EXCEPT !.closes = FALSE].section = f.section
                             /\ [f EXCEPT !.rebase = TRUE, !.closes = TRUE].section = f.section
      BY <1>1 DEF PlaceInv, NetInv, Fetches, NoLongerAwaited
    <3>2. \A k \in Sections : Section(domain, k).domain = domain
      BY <1>1, <1>2, SectionType
    <3>3. \A k : Live(k) \subseteq fetches
      BY DEF Live
    <3>4. conflict # NoKey => conflict \in Sections
      BY <1>1 DEF PageInv
    <3>5. CASE fetches' \subseteq fetches
      BY <3>1, <3>5
    <3>6. ASSUME NEW k \in Sections, Fetch(k)
          PROVE  <2>2!:
      BY <3>1, <3>2, <3>6 DEF Fetch
    <3>7. CASE KeepEditing
      <4>1. Section(domain, conflict).domain = domain /\ Live(conflict) \subseteq fetches
        BY <3>2, <3>3, <3>4, <3>7 DEF KeepEditing, Conflicted
      <4>2. \/ fetches' = (fetches \ Live(conflict))
                           \cup {[f EXCEPT !.rebase = TRUE, !.closes = TRUE] : f \in Live(conflict)}
            \/ fetches' = (fetches \ Live(conflict))
                           \cup {[key |-> conflict, section |-> Section(domain, conflict),
                                 live |-> TRUE, rebase |-> TRUE, closes |-> TRUE]}
        BY <3>7 DEF KeepEditing
      <4>3. CASE fetches' = (fetches \ Live(conflict))
                            \cup {[f EXCEPT !.rebase = TRUE, !.closes = TRUE] : f \in Live(conflict)}
        BY <3>1, <4>1, <4>3, ZenonT(60)
      <4>4. CASE fetches' = (fetches \ Live(conflict))
                            \cup {[key |-> conflict, section |-> Section(domain, conflict),
                                  live |-> TRUE, rebase |-> TRUE, closes |-> TRUE]}
        BY <3>1, <4>1, <4>4
      <4> QED BY <4>2, <4>3, <4>4
    <3>8. CASE Reload
      BY <3>1, <3>2, <3>3, <3>4, <3>8 DEF Reload, Conflicted
    <3>9. CASE Navigate \/ SessionEnds
      <4>1. fetches' = {[f EXCEPT !.closes = FALSE] : f \in fetches}
        BY <3>9 DEF Navigate, SessionEnds, NoDialogWaits
      <4> QED BY <3>1, <4>1
    <3> QED BY <1>4, <3>5, <3>6, <3>7, <3>8, <3>9 DEF Next, Leaves, vars, net, OtherSave, FetchArrives, FetchFails,
          Edit, OpenItem, Submit, ConfirmDelete, CloseItem, Undo, Redo, Discard, OpenSave, CloseSave, StartSave,
          SavedNext, SavedLast, NotSaved, DismissConflict, Restore, RestoreArrives, RestoreLost
  <2>3. \A x \in loops' : x.section.domain = domain
    <3>1. \A l \in loops : l.section.domain = domain
      BY DEF PlaceInv
    <3>2. ASSUME NEW L, L \subseteq loops, loops' \in {L, DialogGone(L), PageGone(L)}
          PROVE  <2>3!:
      <4>1. LoopsInv(L)
        BY <1>1, <3>2 DEF NetInv, LoopsInv
      <4>2. \A l \in DialogGone(L) \cup PageGone(L) : \E m \in L : l.section = m.section
        BY <4>1, LoopsGone
      <4> QED BY <3>1, <3>2, <4>2
    <3>3. CASE Sends
      BY <3>1, <3>3, SendKeeps
    <3>4. ASSUME NEW l \in loops, SavedLast(l) \/ NotSaved(l)
          PROVE  <2>3!:
      <4>1. loops' \in {loops \ {l}, DialogGone(loops \ {l})}
        BY <3>4 DEF SavedLast, NotSaved
      <4> QED BY <3>2, <4>1
    <3>5. CASE loops' \in {loops, DialogGone(loops), PageGone(loops)}
      BY <3>2, <3>5
    <3> QED BY <1>4, <3>3, <3>4, <3>5 DEF Next, Leaves, Sends, vars, net, OtherSave, Fetch, FetchArrives, FetchFails,
          Edit, OpenItem, Submit, ConfirmDelete, CloseItem, Undo, Redo, Discard, OpenSave, CloseSave, KeepEditing,
          Reload, DismissConflict, Restore, RestoreArrives, RestoreLost, Navigate, SessionEnds, PageEnds
  <2>4. \A x \in restores' : x.section.domain = domain
    <3>1. CASE restores' \subseteq restores
      BY <3>1 DEF PlaceInv
    <3>2. ASSUME NEW k \in Sections, NEW v \in Versions, Restore(k, v)
          PROVE  <2>4!:
      BY <3>2 DEF Restore, SavedAs
    <3> QED BY <1>4, <3>1, <3>2 DEF Next, Leaves, vars, net, OtherSave, Fetch, FetchArrives, FetchFails, Edit,
          OpenItem, Submit, ConfirmDelete, CloseItem, Undo, Redo, Discard, OpenSave, CloseSave, StartSave, SavedNext,
          SavedLast, NotSaved, KeepEditing, Reload, DismissConflict, RestoreArrives, RestoreLost, Navigate, SessionEnds
  <2> QED BY <2>1, <2>2, <2>3, <2>4 DEF PlaceInv
<1> QED BY <1>3, <1>4

-----------------------------------------------------------------------------
(* Every conflict is noticed. *)

LEMMA OriginStep ==
    ASSUME QuietLeave, QuietDialogs
    PROVE  IInv /\ PlaceInv /\ OriginInv /\ [Next]_vars => OriginInv'
<1> SUFFICES ASSUME IInv, PlaceInv, OriginInv, [Next]_vars
             PROVE  OriginInv'
  OBVIOUS
<1>1. StoresInv /\ PageInv /\ PlainInv
  BY Parts
<1>2. CASE Leaves
  <2>1. ASSUME NEW s, Holds(s, BegunIn(domain)), NEW d \in Worked, domain' = d, SwitchedTo(s, d)
        PROVE  Holds(store', BegunIn(domain')) /\ \A e \in DOMAIN parked' : Holds(parked'[e], BegunIn(e))
    <3>1. CASE d = domain
      BY <2>1, <3>1 DEF OriginInv, SwitchedTo
    <3>2. CASE d # domain
      <4>1. /\ store' = IF d \in DOMAIN parked THEN parked[d] ELSE EmptyState
            /\ parked' = With(Without(parked, {d}), domain, s)
        BY <2>1, <3>2 DEF SwitchedTo
      <4>2. /\ \A e : e \in DOMAIN parked' <=> e = domain \/ (e \in DOMAIN parked /\ e # d)
            /\ parked'[domain] = s
            /\ \A e \in DOMAIN parked' : e # domain => parked'[e] = parked[e]
        BY <4>1, ParkedType
      <4>3. Holds(store', BegunIn(domain'))
        BY <2>1, <4>1, EmptyKeeps DEF OriginInv
      <4> QED BY <2>1, <4>2, <4>3 DEF OriginInv
    <3> QED BY <3>1, <3>2
  <2>2. ASSUME NEW d \in Worked, SwitchDomain(d)
        PROVE  OriginInv'
    <3>1. Holds(store', BegunIn(domain')) /\ \A e \in DOMAIN parked' : Holds(parked'[e], BegunIn(e))
      BY <2>1, <2>2 DEF SwitchDomain, OriginInv
    <3>2. dialog' = NoDialog /\ unseen' = unseen
      BY <2>2 DEF SwitchDomain, PageEnds
    <3> QED BY <3>1, <3>2 DEF OriginInv
  <2>3. ASSUME NEW d \in Worked, Login(d)
        PROVE  OriginInv'
    <3>1. Holds(AllDiscarded(store), BegunIn(domain))
      BY <1>1, AllDiscardedKeeps DEF StoresInv, OriginInv
    <3>2. Holds(store', BegunIn(domain')) /\ \A e \in DOMAIN parked' : Holds(parked'[e], BegunIn(e))
      BY <2>1, <2>3, <3>1 DEF Login
    <3>3. dialog' = NoDialog /\ unseen' = unseen
      BY <1>1, <2>3 DEF Login, page, PageInv
    <3> QED BY <3>2, <3>3 DEF OriginInv
  <2>4. ASSUME NEW d \in Worked, NEW in \in BOOLEAN, LoadTab(in, d)
        PROVE  OriginInv'
    <3>1. store' = EmptyState /\ parked' = <<>> /\ dialog' = NoDialog /\ unseen' = unseen
      BY <2>4 DEF LoadTab, Fresh
    <3>2. DOMAIN parked' = {}
      BY <3>1, EmptyPartial
    <3> QED BY <3>1, <3>2, EmptyKeeps DEF OriginInv
  <2> QED BY <1>2, <2>2, <2>3, <2>4 DEF Leaves
<1>3. CASE ~Leaves
  <2>1. /\ domain' = domain /\ parked' = parked /\ Holds(store', BegunIn(domain))
        /\ StoreType(store') /\ DraftsSound(store')
    BY <1>3, StoreGoesOn DEF GoesOn
  <2>2. ~unseen'
    <3>1. CASE Sends
      <4>1. PICK s : s = store'
        OBVIOUS
      <4>2. \A k \in DOMAIN s.drafts :
               s.drafts[k].origin = [domain |-> domain, version |-> BaseVersionOf(s, k)]
        BY <2>1, <4>1, SoundParts DEF BaseVersionOf
      <4>3. unseen' = unseen
        BY <3>1, <4>1, <4>2, SendKeeps
      <4> QED BY <4>3 DEF OriginInv
    <3>2. CASE UNCHANGED unseen
      BY <3>2 DEF OriginInv
    <3> QED BY <1>3, <3>1, <3>2 DEF Next, Leaves, Sends, vars, OtherSave, Fetch, FetchArrives, FetchFails, Edit,
          OpenItem, Submit, ConfirmDelete, CloseItem, Undo, Redo, Discard, OpenSave, CloseSave, SavedLast, NotSaved,
          KeepEditing, Reload, DismissConflict, Restore, RestoreArrives, RestoreLost, Navigate, SessionEnds
  <2>3. dialog' # NoDialog =>
            dialog'.value.origin = [domain |-> domain, version |-> BaseVersionOf(store', dialog'.key)]
    <3>1. CASE dialog' = NoDialog
      BY <3>1
    <3>2. CASE UNCHANGED <<dialog, store>>
      BY <3>2 DEF OriginInv
    <3>3. ASSUME NEW kind \in RowMenu, NEW k \in Sections, OpenItem(kind, k)
          PROVE  <2>3!:
      <4>1. StoreType(store) /\ DraftsSound(store) /\ k \in DOMAIN store.bases
        BY <1>1, <3>3, SoundParts DEF StoresInv, OpenItem, Editable, Known
      <4>2. Shown(store, k).origin = [domain |-> domain, version |-> BaseVersionOf(store, k)]
        BY <4>1, ShownType DEF PlaceInv, OriginInv
      <4>3. /\ dialog' = [kind |-> kind, key |-> k, moved |-> FALSE, value |-> Shown(store, k)]
            /\ store' = store
        BY <3>3 DEF OpenItem
      <4>4. dialog'.key = k /\ dialog'.value = Shown(store, k)
        BY <4>3
      <4> QED BY <4>2, <4>3, <4>4
    <3>4. ASSUME NEW k, dialog = NoDialog, MovedAway(k)
          PROVE  dialog' = NoDialog
      BY <3>4 DEF MovedAway
    <3>5. ASSUME NEW f \in fetches, FetchArrives(f)
          PROVE  dialog' = NoDialog
      BY <3>4, <3>5 DEF FetchArrives
    <3>6. ASSUME NEW l \in loops, SavedNext(l) \/ SavedLast(l)
          PROVE  dialog' = NoDialog
      BY <3>4, <3>6 DEF SavedNext, SavedLast, TakeSaved
    <3>7. ASSUME NEW r \in restores, RestoreArrives(r)
          PROVE  dialog' = NoDialog
      BY <3>4, <3>7 DEF RestoreArrives, TakeSaved
    <3> QED BY <1>3, <3>1, <3>2, <3>3, <3>5, <3>6, <3>7 DEF Next, Leaves, vars, page, NothingOpen, OtherSave, Fetch,
          FetchFails, Edit, Submit, ConfirmDelete, CloseItem, Undo, Redo, Discard, OpenSave, CloseSave, StartSave,
          NotSaved, KeepEditing, Reload, DismissConflict, Restore, RestoreLost, Navigate, SessionEnds, PageEnds
  <2> QED BY <2>1, <2>2, <2>3 DEF OriginInv
<1> QED BY <1>2, <1>3

LEMMA PlaceOriginInit == Init => PlaceInv /\ OriginInv
<1> SUFFICES ASSUME Init
             PROVE  PlaceInv /\ OriginInv
  OBVIOUS
<1>1. DOMAIN parked = {}
  BY EmptyPartial DEF Init
<1> QED BY <1>1, EmptyKeeps DEF Init, PlaceInv, OriginInv

-----------------------------------------------------------------------------
(* A save takes what it was about. *)

LEMMA LoadedSays ==
    ASSUME NEW s, StoreType(s), NEW sec, NEW k, NEW rebase,
           NEW r, r = IF rebase THEN Rebased(SetBase(s, sec, k), k) ELSE SetBase(s, sec, k)
    PROVE  \A j, c : Says(s, j, c) => Says(r, j, c)
<1>1. DOMAIN s = Fields /\ \A j \in DOMAIN s.drafts : s.drafts[j] \in Drafts
  BY StoreParts, PartialType DEF StoreType
<1>2. DOMAIN SetBase(s, sec, k) = Fields /\ SetBase(s, sec, k).drafts = s.drafts
  BY <1>1 DEF SetBase, Fields
<1>3. CASE r = SetBase(s, sec, k)
  BY <1>2, <1>3 DEF Says
<1>4. CASE r # SetBase(s, sec, k)
  <2> DEFINE loaded == SetBase(s, sec, k)
             origin == OriginOf(loaded.bases[k])
  <2>1. r.drafts = [loaded.drafts EXCEPT ![k].origin = origin] /\ k \in DOMAIN loaded.drafts
    BY <1>2, <1>4 DEF Rebased, Fields
  <2> HIDE DEF loaded, origin
  <2>2. loaded.drafts = s.drafts
    BY <1>2 DEF loaded
  <2>3. [s.drafts[k] EXCEPT !.origin = origin].content = s.drafts[k].content
    BY <1>1, <2>1, <2>2 DEF Drafts
  <2>4. DOMAIN r.drafts = DOMAIN s.drafts /\ \A j \in DOMAIN s.drafts : r.drafts[j].content = s.drafts[j].content
    BY <2>1, <2>2, <2>3
  <2> QED BY <2>4 DEF Says
<1> QED BY <1>3, <1>4

LEMMA SavedSays ==
    ASSUME NEW s, StoreType(s), NEW sec, NEW k
    PROVE  \A j, c : Says(s, j, c) => Says(Saved(s, sec, k), j, c)
<1>1. DOMAIN s = Fields /\ s.drafts \in Partial(Drafts)
  BY StoreParts DEF StoreType
<1>2. Saved(s, sec, k).drafts = Without(s.drafts, {k})
  BY <1>1 DEF Saved, Fields
<1> QED BY <1>1, <1>2, WithoutType DEF Says

LEMMA PutSays ==
    ASSUME NEW rest, NEW s, NEW owner, Put(rest, s, owner, {})
    PROVE  /\ OneOf(loops')
           /\ \A l \in loops' : l.reply = "saved" => Says(s, Head(l.rest), l.section.content)
<1> DEFINE k == Head(rest)
           now == Section(domain, k)
           loop(reply, sec) == [rest |-> rest, reply |-> reply, section |-> sec, owner |-> owner]
<1>1. \/ \E reply \in {"failed", "conflict"} : loops' = {loop(reply, now)}
      \/ /\ k \in DOMAIN s.drafts
         /\ \E reply \in {"saved", "failed"} : loops' = {loop(reply, SavedAs(domain, k, s.drafts[k].content))}
  BY DEF Put
<1>2. SavedAs(domain, k, s.drafts[k].content).content = s.drafts[k].content
  BY DEF SavedAs
<1>3. \A reply, sec : /\ loop(reply, sec).reply = reply /\ loop(reply, sec).section = sec
                      /\ Head(loop(reply, sec).rest) = k
  OBVIOUS
<1> HIDE DEF k, now, loop
<1> QED BY <1>1, <1>2, <1>3 DEF OneOf, Says

LEMMA OneLoop ==
    ASSUME LoopWait
    PROVE  /\ \A l \in loops : loops = {l} /\ loops \ {l} = {}
           /\ Cardinality(loops) < 1 => loops = {}
<1>1. \A l \in loops : loops = {l} /\ loops \ {l} = {}
  BY DEF LoopWait, OneOf
<1>2. ASSUME loops # {}
      PROVE  Cardinality(loops) = 1
  BY <1>1, <1>2, FS_Singleton
<1> QED BY <1>1, <1>2

\* While a save loop runs, the page is shut: only answers and other sessions go on.
LEMMA LoopStep ==
    ASSUME QuietLeave, MaxSaves = 1
    PROVE  IInv /\ FetchWait /\ LoopWait /\ [Next]_vars => LoopWait'
<1> SUFFICES ASSUME IInv, FetchWait, LoopWait, [Next]_vars
             PROVE  LoopWait'
  OBVIOUS
<1> DEFINE Shut == /\ loops' = loops \/ loops' = PageGone(loops)
                   /\ UNCHANGED <<signedIn, saveDialog>> \/ (~signedIn' /\ saveDialog' = "closed")
                   /\ conflict' = NoKey
                   /\ \A j, c : Says(store, j, c) => Says(store', j, c)
<1>1. StoreType(store) /\ (dialog # NoDialog => signedIn)
  BY Parts DEF StoresInv, PageInv
<1>2. CASE loops' = {}
  BY <1>2 DEF LoopWait, OneOf
<1>3. ASSUME NEW keys, StartSave(keys)
      PROVE  LoopWait'
  <2>1. loops = {} /\ Put(keys, store, "dialog", {}) /\ store' = store
    BY <1>3, OneLoop DEF StartSave
  <2>2. saveDialog' = "saving" /\ conflict' = NoKey
    BY <1>3 DEF StartSave
  <2> QED BY <2>1, <2>2, PutSays DEF LoopWait
<1>4. ASSUME NEW l \in loops, SavedNext(l)
      PROVE  LoopWait'
  <2>1. Put(Tail(l.rest), store', l.owner, {})
    BY <1>4, OneLoop DEF SavedNext
  <2>2. UNCHANGED <<signedIn, saveDialog, conflict>>
    BY <1>4 DEF SavedNext
  <2>3. PICK s : s = store'
    OBVIOUS
  <2>4. /\ OneOf(loops')
        /\ \A m \in loops' : m.reply = "saved" => Says(store', Head(m.rest), m.section.content)
    BY <2>1, <2>3, PutSays
  <2> QED BY <2>2, <2>4 DEF LoopWait
<1>5. ASSUME NEW l \in loops, SavedLast(l) \/ NotSaved(l)
      PROVE  loops' = {}
  BY <1>5, OneLoop DEF SavedLast, NotSaved, DialogGone
<1>6. ASSUME loops # {}, loops' # {}, ~Sends
      PROVE  Shut
  <2>1. conflict = NoKey /\ saveDialog # "open" /\ (signedIn => saveDialog = "saving")
    BY <1>6 DEF LoopWait
  <2>2. CASE UNCHANGED <<loops, signedIn, saveDialog, conflict, store>>
    BY <2>1, <2>2
  <2>3. ASSUME NEW f \in fetches, FetchArrives(f) \/ FetchFails(f)
        PROVE  UNCHANGED <<loops, signedIn, saveDialog, conflict>>
    BY <2>1, <2>3 DEF FetchArrives, FetchFails, FetchWait, DialogWaits
  <2>4. ASSUME NEW f \in fetches, FetchArrives(f)
        PROVE  \A j, c : Says(store, j, c) => Says(store', j, c)
    <3>1. store' = IF f.rebase THEN Rebased(SetBase(store, f.section, f.key), f.key)
                   ELSE SetBase(store, f.section, f.key)
      BY <2>4 DEF FetchArrives
    <3> QED BY <1>1, <3>1, LoadedSays
  <2>5. ASSUME NEW r \in restores, RestoreArrives(r)
        PROVE  Shut
    <3>1. store' = Saved(store, r.section, r.key) /\ UNCHANGED <<loops, signedIn, saveDialog, conflict>>
      BY <2>5 DEF RestoreArrives, TakeSaved
    <3> QED BY <1>1, <2>1, <3>1, SavedSays
  <2>6. CASE SessionEnds
    BY <2>6 DEF SessionEnds, PageEnds, CloseSaving
  <2>7. ~(\E d \in Worked : SwitchDomain(d) \/ Login(d)) /\ ~Navigate
    BY <1>6 DEF SwitchDomain, Login, Navigate
  <2>8. ~(\E in \in BOOLEAN, d \in Worked : LoadTab(in, d))
    BY <1>6 DEF LoadTab, Fresh
  <2>9. /\ \A changes, tag, joins : ~Edit(changes, tag, joins)
        /\ \A kind, k : ~OpenItem(kind, k) /\ ~Discard(k)
        /\ \A c : ~Submit(c) /\ ~ConfirmDelete(c)
        /\ ~CloseItem /\ ~Undo /\ ~Redo /\ ~OpenSave /\ ~CloseSave
        /\ \A k, v : ~Restore(k, v)
    <3>1. ~(signedIn /\ NothingOpen)
      BY <2>1 DEF NothingOpen
    <3>2. ~ItemOnTop
      BY <1>1, <2>1 DEF ItemOnTop
    <3>3. \A changes, tag, joins : ~Edit(changes, tag, joins)
      BY <3>1 DEF Edit
    <3>4. \A kind, k : ~OpenItem(kind, k) /\ ~Discard(k)
      BY <3>1 DEF OpenItem, Discard
    <3>5. \A c : ~Submit(c) /\ ~ConfirmDelete(c)
      BY <3>2 DEF Submit, ConfirmDelete
    <3>6. ~CloseItem /\ ~Undo /\ ~Redo
      BY <3>1, <3>2 DEF CloseItem, Undo, Redo
    <3>7. ~OpenSave
      BY <2>1 DEF OpenSave
    <3>8. ~CloseSave
      BY <2>1 DEF CloseSave
    <3>9. \A k, v : ~Restore(k, v)
      BY <3>1 DEF Restore
    <3> QED BY <3>3, <3>4, <3>5, <3>6, <3>7, <3>8, <3>9
  <2>10. ~KeepEditing /\ ~Reload /\ ~DismissConflict
    BY <2>1 DEF KeepEditing, Reload, DismissConflict, Conflicted
  <2>11. ASSUME NEW f \in fetches, FetchFails(f)
         PROVE  UNCHANGED <<loops, signedIn, saveDialog, conflict, store>>
    BY <2>3, <2>11 DEF FetchFails
  <2>12. ASSUME NEW f \in fetches, FetchArrives(f)
         PROVE  Shut
    BY <2>1, <2>3, <2>4, <2>12
  <2> QED BY <1>5, <1>6, <2>2, <2>5, <2>6, <2>7, <2>8, <2>9, <2>10, <2>11, <2>12
        DEF Next, Sends, vars, net, page, OtherSave, Fetch, RestoreLost
<1>7. CASE loops # {} /\ loops' # {} /\ ~Sends
  <2>1. Shut
    BY <1>6, <1>7
  <2>2. PICK l \in loops : loops = {l}
    BY <1>7, OneLoop
  <2>3. l \in Loops
    BY <2>2 DEF IInv, TypeOK
  <2>4. loops' = {l} \/ loops' = {[l EXCEPT !.owner = "none"]}
    BY <2>1, <2>2 DEF PageGone
  <2>5. PICK m : loops' = {m} /\ m.rest = l.rest /\ m.reply = l.reply /\ m.section = l.section
    <3>1. LET m == [l EXCEPT !.owner = "none"]
          IN m.rest = l.rest /\ m.reply = l.reply /\ m.section = l.section
      BY <2>3 DEF Loops
    <3> QED BY <2>4, <3>1
  <2>6. l.reply = "saved" => Says(store', Head(l.rest), l.section.content)
    BY <2>1, <2>2 DEF LoopWait
  <2>7. OneOf(loops') /\ \A x \in loops' : x.reply = "saved" => Says(store', Head(x.rest), x.section.content)
    BY <2>5, <2>6 DEF OneOf
  <2>8. saveDialog' # "open" /\ (signedIn' => saveDialog' = "saving")
    BY <1>7, <2>1 DEF LoopWait
  <2> QED BY <2>1, <2>7, <2>8 DEF LoopWait
<1>8. ASSUME loops = {}, ~Sends
      PROVE  loops' = {}
  BY <1>8 DEF Next, Sends, vars, net, page, OtherSave, Fetch, FetchArrives, FetchFails, Edit, OpenItem, Submit,
       ConfirmDelete, CloseItem, Undo, Redo, Discard, OpenSave, CloseSave, KeepEditing, Reload, DismissConflict,
       Restore, RestoreArrives, RestoreLost, SwitchDomain, Navigate, SessionEnds, Login, LoadTab, Fresh,
       PageEnds, DialogGone, PageGone
<1> QED BY <1>2, <1>3, <1>4, <1>7, <1>8 DEF Sends

\* At most one run of a query is waited for, and at most one ends the dialog.
LEMMA FetchStep ==
    ASSUME QuietLeave
    PROVE  IInv /\ PlaceInv /\ FetchWait /\ LoopWait /\ [Next]_vars => FetchWait'
<1> SUFFICES ASSUME IInv, PlaceInv, FetchWait, LoopWait, [Next]_vars
             PROVE  FetchWait'
  OBVIOUS
<1> DEFINE Run(k, F) == {f \in F : f.live /\ f.key = k}
           Closing(F) == {f \in F : f.closes}
<1>1. /\ \A f \in fetches : f \in Fetches /\ f.section.domain = domain
      /\ DialogWaits <=> Closing(fetches) # {}
      /\ \A k : Live(k) = Run(k, fetches)
  BY DEF IInv, TypeOK, PlaceInv, DialogWaits, Live
<1>2. /\ \A k \in Sections : OneOf(Run(k, fetches))
      /\ Closing(fetches) # {} => conflict # NoKey
      /\ OneOf(Closing(fetches))
  BY <1>1 DEF FetchWait
<1>3. ASSUME \A k \in Sections : OneOf(Run(k, fetches')), OneOf(Closing(fetches')),
             Closing(fetches') = {} \/ conflict' # NoKey
      PROVE  FetchWait'
  BY <1>3 DEF FetchWait, DialogWaits
<1>4. ASSUME fetches' \subseteq fetches, Closing(fetches') = {} \/ conflict' = conflict
      PROVE  FetchWait'
  BY <1>2, <1>3, <1>4 DEF OneOf
<1> HIDE DEF Run, Closing
<1>5. CASE UNCHANGED <<fetches, conflict>>
  BY <1>4, <1>5
<1>6. ASSUME NEW l \in loops, fetches' = fetches
      PROVE  FetchWait'
  <2>1. conflict = NoKey
    BY <1>6 DEF LoopWait
  <2> QED BY <1>2, <1>4, <1>6, <2>1
<1>7. CASE DismissConflict
  BY <1>1, <1>4, <1>7 DEF DismissConflict, Conflicted, net
<1>8. ASSUME NEW f \in fetches, FetchArrives(f) \/ FetchFails(f)
      PROVE  FetchWait'
  <2>1. fetches' = fetches \ {f}
    BY <1>8 DEF FetchArrives, FetchFails
  <2>2. CASE f.closes
    <3>1. Closing(fetches') = {}
      BY <1>2, <2>1, <2>2 DEF Closing, OneOf
    <3> QED BY <1>4, <2>1, <3>1
  <2>3. CASE ~f.closes
    BY <1>4, <1>8, <2>1, <2>3 DEF FetchArrives, FetchFails
  <2> QED BY <2>2, <2>3
<1>9. CASE Navigate \/ SessionEnds
  <2>1. fetches' = NoDialogWaits
    BY <1>9 DEF Navigate, SessionEnds
  <2>2. \A f \in fetches : /\ [f EXCEPT !.closes = FALSE].key = f.key /\ ~[f EXCEPT !.closes = FALSE].closes
                           /\ [f EXCEPT !.closes = FALSE].live = f.live
    BY <1>1 DEF Fetches
  <2>3. ASSUME NEW k \in Sections, NEW x \in Run(k, fetches'), NEW y \in Run(k, fetches')
        PROVE  x = y
    <3>1. PICK f \in fetches, g \in fetches : x = [f EXCEPT !.closes = FALSE] /\ y = [g EXCEPT !.closes = FALSE]
      BY <2>1, <2>3 DEF NoDialogWaits, Run
    <3>2. f \in Run(k, fetches) /\ g \in Run(k, fetches)
      BY <2>2, <2>3, <3>1 DEF Run
    <3> QED BY <1>2, <3>1, <3>2 DEF OneOf
  <2>4. Closing(fetches') = {}
    BY <2>1, <2>2 DEF NoDialogWaits, Closing
  <2> QED BY <1>3, <2>3, <2>4 DEF OneOf
<1>10. CASE \E d \in Worked : SwitchDomain(d) \/ Login(d) \/ \E in \in BOOLEAN : LoadTab(in, d)
  <2>1. fetches' = {}
    BY <1>10 DEF SwitchDomain, Login, net, LoadTab, Fresh
  <2> QED BY <1>4, <2>1 DEF Closing
\* A run begins, beside others and beside runs that nobody waits for any more.
<1>11. ASSUME NEW F, \A g \in F : g \in fetches \/ (~g.live /\ ~g.closes),
              NEW n, fetches' = F \cup {n}, Run(n.key, F) = {},
              n.closes => Closing(fetches) = {} /\ conflict # NoKey, conflict' = conflict
       PROVE  FetchWait'
  <2>1. \A k : Run(k, F) \subseteq Run(k, fetches) /\ Closing(F) \subseteq Closing(fetches)
    BY <1>11 DEF Run, Closing
  <2>2. \A k : Run(k, fetches') \subseteq Run(k, fetches) \/ Run(k, fetches') = {n}
    BY <1>11, <2>1 DEF Run
  <2>3. Closing(fetches') \subseteq Closing(fetches) \/ (Closing(fetches') = {n} /\ conflict # NoKey)
    BY <1>11, <2>1 DEF Closing
  <2>4. \A k \in Sections : OneOf(Run(k, fetches'))
    BY <1>2, <2>2 DEF OneOf
  <2>5. OneOf(Closing(fetches')) /\ (Closing(fetches') = {} \/ conflict # NoKey)
    BY <1>2, <2>3 DEF OneOf
  <2> QED BY <1>3, <1>11, <2>4, <2>5
<1>12. ASSUME NEW k \in Sections, Fetch(k)
       PROVE  FetchWait'
  <2> DEFINE n == [key |-> k, section |-> Section(domain, k), live |-> TRUE, rebase |-> FALSE, closes |-> FALSE]
  <2>1. fetches' = fetches \cup {n} /\ Live(k) = {} /\ conflict' = conflict
    BY <1>12 DEF Fetch, page
  <2>2. n.key = k /\ ~n.closes
    OBVIOUS
  <2> HIDE DEF n
  <2> QED BY <1>1, <1>11, <2>1, <2>2
<1>13. ASSUME Conflicted
       PROVE  conflict # NoKey /\ conflict \in Sections /\ Closing(fetches) = {}
  BY <1>1, <1>13 DEF Conflicted, IInv, TypeOK
<1>14. CASE KeepEditing
  <2>1. /\ conflict # NoKey /\ conflict \in Sections /\ Closing(fetches) = {} /\ conflict' = conflict
        /\ Live(conflict) = Run(conflict, fetches)
    BY <1>1, <1>13, <1>14 DEF KeepEditing, page
  <2>2. CASE Live(conflict) = {}
    <3> DEFINE n == [key |-> conflict, section |-> Section(domain, conflict),
                     live |-> TRUE, rebase |-> TRUE, closes |-> TRUE]
    <3>1. fetches' = fetches \cup {n}
      BY <1>14, <2>2 DEF KeepEditing
    <3>2. n.key = conflict
      OBVIOUS
    <3> HIDE DEF n
    <3> QED BY <1>11, <2>1, <2>2, <3>1, <3>2
  <2>3. CASE Live(conflict) # {}
    <3>1. PICK f \in fetches : Live(conflict) = {f} /\ f.key = conflict
      BY <1>2, <2>1, <2>3 DEF OneOf, Run
    <3> DEFINE n == [f EXCEPT !.rebase = TRUE, !.closes = TRUE]
               F == fetches \ {f}
    <3>2. fetches' = F \cup {n}
      BY <1>14, <3>1 DEF KeepEditing
    <3>3. n.key = conflict
      BY <1>1, <3>1 DEF Fetches
    <3>4. Run(conflict, F) = {}
      BY <2>1, <3>1 DEF Run
    <3> HIDE DEF n
    <3> QED BY <1>11, <2>1, <3>2, <3>3, <3>4
  <2> QED BY <2>2, <2>3
<1>15. CASE Reload
  <2>1. /\ conflict # NoKey /\ conflict \in Sections /\ Closing(fetches) = {}
        /\ Live(conflict) = Run(conflict, fetches)
    BY <1>1, <1>13, <1>15 DEF Reload
  <2>2. conflict' = conflict
    BY <1>15, <2>1 DEF Reload, Live, Closing
  <2> DEFINE n == [key |-> conflict, section |-> Section(domain, conflict),
                   live |-> TRUE, rebase |-> FALSE, closes |-> TRUE]
             F == (fetches \ Live(conflict)) \cup {NoLongerAwaited(f) : f \in Live(conflict)}
  <2>3. fetches' = F \cup {n}
    BY <1>15 DEF Reload
  <2>4. n.key = conflict
    OBVIOUS
  <2>5. \A f \in Live(conflict) : ~NoLongerAwaited(f).live /\ ~NoLongerAwaited(f).closes
    BY <1>1 DEF Live, NoLongerAwaited, Fetches
  <2>6. \A g \in F : g \in fetches \ Live(conflict) \/ (~g.live /\ ~g.closes)
    BY <2>5
  <2> HIDE DEF n, F
  <2>7. Run(conflict, F) = {}
    BY <2>1, <2>6 DEF Run
  <2> QED BY <1>11, <2>1, <2>2, <2>3, <2>4, <2>6, <2>7
<1> QED BY <1>5, <1>6, <1>7, <1>8, <1>9, <1>10, <1>12, <1>14, <1>15
      DEF Next, vars, net, page, OtherSave, Edit, OpenItem, Submit, ConfirmDelete, CloseItem, Undo, Redo, Discard,
          OpenSave, CloseSave, StartSave, SavedNext, SavedLast, NotSaved, Restore, RestoreArrives, RestoreLost

-----------------------------------------------------------------------------
(* The theorems. *)

\* Every reachable state is well typed, every draft of a section that was loaded has its
\* version, and an open dialog is about a section that was loaded.
THEOREM EditingInvariant == Spec => []IInv
<1>1. IInv /\ [Next]_vars => IInv'
  <2>1. ServerInv' /\ StoresInv' /\ NetInv' /\ PageInv' /\ PlainInv' => IInv'
    BY DEF IInv, TypeOK, EditInv, ServerInv, StoresInv, NetInv, LoopsInv, PageInv, PlainInv, Arriving
  <2> QED BY <2>1, ServerStep, StoresStep, NetStep, PageStep, PlainStep
<1> QED BY <1>1, EditingInit, PTL DEF Spec

\* The store, the cache, the requests on their way and the page have their types in every
\* reachable state; a conflict is shown only while the dialog that saves is open.
THEOREM TypeCorrect == Spec => []TypeOK
<1>1. IInv => TypeOK
  BY DEF IInv
<1> QED BY <1>1, EditingInvariant, PTL

\* Every draft, also in the history and in the stores of other domains, has the version it
\* started from (apply, undo, redo, discard, rebase and saved of draft-store.ts), whoever
\* leaves while answers are on their way.
THEOREM VersionsKnown == Spec => []DraftsKnowTheirVersion
<1>1. ASSUME NEW s, DraftsSound(s)
      PROVE  StoreSound(s)
  <2>1. /\ Snap(s) \in SoundOver(DOMAIN s.bases)
        /\ s.past \in Seq(SoundOver(DOMAIN s.bases)) /\ s.future \in Seq(SoundOver(DOMAIN s.bases))
    BY <1>1 DEF DraftsSound, Holds
  <2>2. /\ \A i \in 1..Len(s.past) : s.past[i] \in SoundOver(DOMAIN s.bases)
        /\ \A i \in 1..Len(s.future) : s.future[i] \in SoundOver(DOMAIN s.bases)
    BY <2>1, ElementOfSeq
  <2>3. \A x \in SoundOver(DOMAIN s.bases) : HasItsVersion(x)
    BY DEF SoundOver
  <2>4. HasItsVersion(s)
    BY <2>1, <2>3 DEF Snap, HasItsVersion
  <2> QED BY <2>2, <2>3, <2>4 DEF StoreSound
<1>2. IInv => DraftsKnowTheirVersion
  BY <1>1 DEF IInv, EditInv, DraftsKnowTheirVersion
<1> QED BY <1>2, EditingInvariant, PTL

\* While no domain is left with an answer on its way, what the editors show of a domain was
\* loaded from that domain (lib/domain.ts, draft-store.ts).
THEOREM OwnBases ==
    ASSUME QuietLeave
    PROVE  Spec => []EachDomainItsOwnBases
<1>1. PlaceInv => EachDomainItsOwnBases
  <2>1. \A d : BasesOf(EmptyState, d)
    BY EmptyKeeps
  <2> QED BY <2>1 DEF PlaceInv, BasesOf, EachDomainItsOwnBases, StoreOf
<1>2. IInv /\ PlaceInv /\ [Next]_vars => PlaceInv'
  BY PlaceStep
<1> QED BY <1>1, <1>2, PlaceOriginInit, EditingInvariant, PTL DEF Spec

\* While, besides, no section is loaded or given up under an open item, no save replaces a
\* version its author had not before it (bedienung.md): undo, redo, discard, another domain
\* and another session keep every draft on the version it was begun over.
THEOREM ConflictNoticed ==
    ASSUME QuietLeave, QuietDialogs
    PROVE  Spec => []ConflictIsNoticed
<1>1. OriginInv => ConflictIsNoticed
  BY DEF OriginInv, ConflictIsNoticed
<1>2. IInv /\ PlaceInv /\ [Next]_vars => PlaceInv'
  BY PlaceStep
<1>3. IInv /\ PlaceInv /\ OriginInv /\ [Next]_vars => OriginInv'
  BY OriginStep
<1> QED BY <1>1, <1>2, <1>3, PlaceOriginInit, EditingInvariant, PTL DEF Spec

\* While nobody leaves with an answer on its way and one save loop runs at a time, the answer
\* to a save takes the draft it was about and no change made after it was sent: the page is
\* shut until then (save-dialog.tsx), and what arrives meanwhile changes no content.
THEOREM AnswersTake ==
    ASSUME QuietLeave, MaxSaves = 1
    PROVE  Spec => AnswersTakeWhatWasSaved
<1>1. Init => FetchWait /\ LoopWait
  BY DEF Init, FetchWait, LoopWait, OneOf, DialogWaits
<1>2. IInv /\ PlaceInv /\ [Next]_vars => PlaceInv'
  BY PlaceStep
<1>3. IInv /\ PlaceInv /\ FetchWait /\ LoopWait /\ [Next]_vars => FetchWait' /\ LoopWait'
  BY FetchStep, LoopStep
<1>4. LoopWait => [\A l \in loops : Answered(l) /\ Head(l.rest) \in DOMAIN store.drafts \ DOMAIN store'.drafts
                      => store.drafts[Head(l.rest)].content = l.section.content]_vars
  BY DEF LoopWait, Says, Answered
<1>5. Init => PlaceInv
  BY PlaceOriginInit
<1> QED BY <1>1, <1>2, <1>3, <1>4, <1>5, EditingInvariant, PTL DEF Spec, AnswersTakeWhatWasSaved
=============================================================================
