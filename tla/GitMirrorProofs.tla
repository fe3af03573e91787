--------------------------- MODULE GitMirrorProofs ---------------------------
(* Theorems about GitMirror: its types, what the commits of both sides hold,   *)
(* and that a conflict stops the pushing.                                      *)
EXTENDS GitMirror, NaturalExtrema, SequenceTheorems, TLAPS

-----------------------------------------------------------------------------
(* The inductive invariant. *)

SyncType == [at : Steps, row : Row, take : BOOLEAN, full : BOOLEAN,
             todo : Seq(SectionRequests), again : BOOLEAN]

\* A batch at work: what there is to commit, and that it was not begun over a conflict.
WorkInv ==
    /\ sync.take => sync.full
    /\ sync.at = "commit" /\ ~sync.full => sync.todo # <<>>
    /\ sync.at \in {"fetch", "commit", "push"} /\ row.conflict => sync.take

Matching(history) ==
    \A i \in DOMAIN history, s \in Sections : history[i].file[s] \in {history[i].listed[s], Foreign}
Growing(history) ==
    \A i, j \in DOMAIN history : i < j => history[i].other <= history[j].other

HistoryInv == \A history \in {local, remote} : Matching(history) /\ Growing(history)

IInv == TypeOK /\ WorkInv /\ HistoryInv

-----------------------------------------------------------------------------
(* The operators on histories and batches. *)

LEMMA RowTypes ==
    /\ NoTree \in Tree /\ NoTree.other = 0 /\ (\A s \in Sections : NoTree.file[s] = NoTree.listed[s])
    /\ NoTree.listed \in [Sections -> Versions]
    /\ Idle \in SyncType /\ Idle.take = FALSE /\ Idle.full = FALSE /\ Idle.at = "idle" /\ Idle.row \in Row
<1>1. 0 \in Versions
  BY BoundsAssumption DEF Versions
<1>2. NoTree \in Tree
  BY <1>1 DEF NoTree, Tree
<1>3. Idle \in SyncType /\ Idle.row \in Row
  BY DEF Idle, SyncType, Steps, Row
<1> QED BY <1>1, <1>2, <1>3 DEF NoTree, Idle

LEMMA TipType ==
    ASSUME NEW history \in Seq(Tree)
    PROVE  Tip(history) \in Tree
BY RowTypes DEF Tip, Last

LEMMA TipMatches ==
    ASSUME NEW history \in Seq(Tree), Matching(history)
    PROVE  \A s \in Sections : Tip(history).file[s] \in {Tip(history).listed[s], Foreign}
<1>1. CASE history = <<>>
  BY <1>1, RowTypes DEF Tip
<1>2. CASE history # <<>>
  <2>1. Len(history) \in Nat \ {0} /\ DOMAIN history = 1..Len(history)
    BY <1>2, EmptySeq, LenProperties
  <2>2. Len(history) \in DOMAIN history
    BY <2>1
  <2> QED BY <1>2, <2>2 DEF Tip, Last, Matching
<1> QED BY <1>1, <1>2

\* Two branches have a longest common history.
LEMMA MergeBaseType ==
    ASSUME NEW a \in Seq(Tree), NEW b \in Seq(Tree)
    PROVE  MergeBase(a, b) \in 0..Len(a)
<1> DEFINE P == CommonPrefixes({a, b})
           lengths == {Len(p) : p \in P}
<1>1. \A p \in P : Len(p) \in Nat /\ Len(p) <= Len(a)
  <2> SUFFICES ASSUME NEW p \in P
               PROVE  Len(p) \in Nat /\ Len(p) <= Len(a)
    OBVIOUS
  <2>1. p \in Prefixes(a) \cup Prefixes(b) /\ IsPrefix(p, a)
    BY DEF CommonPrefixes
  <2>2. p \in Seq(Tree)
    BY <2>1 DEF Prefixes
  <2> QED BY <2>1, <2>2 DEF IsPrefix
<1>2. <<>> \in P
  <2>1. SubSeq(a, 1, 0) = <<>> /\ SubSeq(b, 1, 0) = <<>>
    OBVIOUS
  <2>2. <<>> \in Prefixes(a)
    BY <2>1 DEF Prefixes
  <2>3. IsPrefix(<<>>, a) /\ IsPrefix(<<>>, b)
    BY <2>1 DEF IsPrefix
  <2> QED BY <2>2, <2>3 DEF CommonPrefixes
<1>3. PICK longest \in P : \A other \in P : Len(other) <= Len(longest)
  <2>1. lengths \subseteq Nat /\ lengths # {} /\ \A l \in lengths : l <= Len(a)
    BY <1>1, <1>2
  <2>2. Len(a) \in Nat
    OBVIOUS
  <2>3. PICK u \in lengths : \A v \in lengths : v <= u
    <3> HIDE DEF lengths
    <3> QED BY <2>1, <2>2, GreatestElement
  <2> QED BY <2>3
<1>4. LongestCommonPrefix({a, b}) \in P
  BY <1>3 DEF LongestCommonPrefix
<1>5. Len(a) \in Nat
  BY LenProperties
<1> HIDE DEF P
<1> QED BY <1>1, <1>4, <1>5 DEF MergeBase

LEMMA AheadType ==
    ASSUME NEW a \in Seq(Tree), NEW b \in Seq(Tree)
    PROVE  /\ Ahead(a, b) \in Seq(Tree)
           /\ \A i \in DOMAIN Ahead(a, b) : \E j \in DOMAIN a : Ahead(a, b)[i] = a[j]
<1>1. MergeBase(a, b) \in 0..Len(a)
  BY MergeBaseType
<1> DEFINE m == MergeBase(a, b) + 1
<1>2. m \in 1..Len(a) + 1 /\ Ahead(a, b) = SubSeq(a, m, Len(a))
  BY <1>1 DEF Ahead
<1> HIDE DEF m
<1>3. Ahead(a, b) \in Seq(Tree)
  BY <1>2
<1>4. ASSUME NEW i \in DOMAIN Ahead(a, b)
      PROVE  \E j \in DOMAIN a : Ahead(a, b)[i] = a[j]
  <2>1. Len(a) \in Nat /\ DOMAIN a = 1..Len(a) /\ DOMAIN Ahead(a, b) = 1..Len(Ahead(a, b))
    BY <1>3, LenProperties
  <2>2. /\ Len(SubSeq(a, m, Len(a))) = IF m <= Len(a) THEN Len(a) - m + 1 ELSE 0
        /\ \A k \in 1..Len(a) - m + 1 : SubSeq(a, m, Len(a))[k] = a[m + k - 1]
    <3>1. m \in Int /\ Len(a) \in Int /\ \A k \in m..Len(a) : a[k] \in Tree
      BY <1>2, <2>1
    <3> QED BY <3>1, SubSeqProperties
  <2>3. m + i - 1 \in 1..Len(a) /\ i \in 1..Len(a) - m + 1
    BY <1>2, <2>1, <2>2
  <2> QED BY <1>2, <2>1, <2>2, <2>3
<1> QED BY <1>3, <1>4

\* What becomes of the clone's history when it catches up.
LEMMA CatchUpKeeps ==
    ASSUME NEW a \in Seq(Tree), NEW b \in Seq(Tree)
    PROVE  /\ CatchUp(a, b) \in Seq(Tree)
           /\ Matching(a) /\ Matching(b) => Matching(CatchUp(a, b))
           /\ Growing(a) /\ Growing(b) => Growing(CatchUp(a, b))
<1> DEFINE ours == Ahead(a, b)
           replayed == [i \in 1..Len(ours) |-> ReplacePath(Tip(b), ours[i])]
<1>1. CatchUp(a, b) \in {a, b} \/ (b # <<>> /\ CatchUp(a, b) = b \o replayed)
  BY DEF CatchUp, Integrate
<1>2. /\ ours \in Seq(Tree) /\ Len(ours) \in Nat /\ DOMAIN ours = 1..Len(ours)
      /\ Len(b) \in Nat /\ DOMAIN b = 1..Len(b)
      /\ \A i \in 1..Len(ours) : \E j \in DOMAIN a : ours[i] = a[j]
  <2>1. ours \in Seq(Tree) /\ \A i \in DOMAIN ours : \E j \in DOMAIN a : ours[i] = a[j]
    BY AheadType
  <2> HIDE DEF ours
  <2>2. Len(ours) \in Nat /\ DOMAIN ours = 1..Len(ours) /\ Len(b) \in Nat /\ DOMAIN b = 1..Len(b)
    BY <2>1, LenProperties
  <2> QED BY <2>1, <2>2
<1>3. Len(ours) \in Nat /\ Len(b) \in Nat
  BY <1>2
<1>4. Tip(b) \in Tree /\ (b # <<>> => Tip(b) = b[Len(b)])
  BY TipType DEF Tip, Last
<1>5. \A i \in 1..Len(ours) : /\ ReplacePath(Tip(b), ours[i]) \in Tree
                             /\ ReplacePath(Tip(b), ours[i]).other = Tip(b).other
                             /\ ReplacePath(Tip(b), ours[i]).file = ours[i].file
                             /\ ReplacePath(Tip(b), ours[i]).listed = ours[i].listed
  <2> SUFFICES ASSUME NEW i \in 1..Len(ours)
               PROVE  /\ ReplacePath(Tip(b), ours[i]) \in Tree
                      /\ ReplacePath(Tip(b), ours[i]).other = Tip(b).other
                      /\ ReplacePath(Tip(b), ours[i]).file = ours[i].file
                      /\ ReplacePath(Tip(b), ours[i]).listed = ours[i].listed
    OBVIOUS
  <2>1. ours[i] \in Tree
    BY <1>2
  <2> QED BY <1>4, <2>1 DEF ReplacePath, Tree
<1> HIDE DEF ours
<1>6. replayed \in Seq(Tree) /\ Len(replayed) = Len(ours)
      /\ \A i \in 1..Len(ours) : replayed[i] = ReplacePath(Tip(b), ours[i])
  BY <1>2, <1>5
<1> HIDE DEF replayed
<1>7. /\ b \o replayed \in Seq(Tree) /\ Len(b \o replayed) = Len(b) + Len(ours)
      /\ \A i \in 1..(Len(b) + Len(ours)) :
            (b \o replayed)[i] = IF i <= Len(b) THEN b[i] ELSE replayed[i - Len(b)]
  <2>1. /\ b \o replayed \in Seq(Tree) /\ Len(b \o replayed) = Len(b) + Len(replayed)
        /\ \A i \in 1..Len(b) + Len(replayed) :
              (b \o replayed)[i] = IF i <= Len(b) THEN b[i] ELSE replayed[i - Len(b)]
    BY <1>6, ConcatProperties, ZenonT(60)
  <2> QED BY <1>6, <2>1
<1>8. ASSUME Matching(a), Matching(b)
      PROVE  Matching(b \o replayed)
  <2> SUFFICES ASSUME NEW i \in 1..(Len(b) + Len(ours)), NEW s \in Sections
               PROVE  (b \o replayed)[i].file[s] \in {(b \o replayed)[i].listed[s], Foreign}
    <3>1. DOMAIN (b \o replayed) = 1..(Len(b) + Len(ours))
      BY <1>7, LenProperties
    <3> QED BY <3>1 DEF Matching
  <2>1. CASE i <= Len(b)
    <3>1. i \in DOMAIN b
      BY <1>2, <2>1
    <3> QED BY <1>7, <1>8, <2>1, <3>1 DEF Matching
  <2>2. CASE i > Len(b)
    <3>1. i - Len(b) \in 1..Len(ours) /\ ~(i <= Len(b))
      BY <1>3, <2>2
    <3>2. i - Len(b) \in 1..Len(ours) /\ (b \o replayed)[i] = replayed[i - Len(b)]
      BY <1>7, <3>1
    <3>3. PICK j \in DOMAIN a : ours[i - Len(b)] = a[j]
      BY <1>2, <3>2
    <3>4. a[j].file[s] \in {a[j].listed[s], Foreign}
      BY <1>8 DEF Matching
    <3> QED BY <1>5, <1>6, <3>2, <3>3, <3>4
  <2>3. i <= Len(b) \/ i > Len(b)
    BY <1>3
  <2> QED BY <2>1, <2>2, <2>3
<1>9. ASSUME Growing(b), b # <<>>
      PROVE  Growing(b \o replayed)
  <2> SUFFICES ASSUME NEW i \in 1..(Len(b) + Len(ours)), NEW j \in 1..(Len(b) + Len(ours)), i < j
               PROVE  (b \o replayed)[i].other <= (b \o replayed)[j].other
    <3>1. DOMAIN (b \o replayed) = 1..(Len(b) + Len(ours))
      BY <1>7, LenProperties
    <3> QED BY <3>1 DEF Growing
  <2>1. Len(b) \in 1..Len(b)
    <3>1. Len(b) \in Nat \ {0}
      BY <1>9, EmptySeq
    <3> QED BY <3>1
  <2>2. ASSUME NEW k \in 1..(Len(b) + Len(ours)), k > Len(b)
        PROVE  (b \o replayed)[k].other = b[Len(b)].other
    <3>1. k - Len(b) \in 1..Len(ours) /\ ~(k <= Len(b))
      BY <1>3, <2>2
    <3>2. k - Len(b) \in 1..Len(ours) /\ (b \o replayed)[k] = replayed[k - Len(b)]
      BY <1>7, <3>1
    <3> QED BY <1>4, <1>5, <1>6, <1>9, <3>2
  <2>3. ASSUME NEW k \in 1..Len(b)
        PROVE  (b \o replayed)[k] = b[k] /\ b[k].other \in Nat
    <3>1. k \in 1..(Len(b) + Len(ours)) /\ k <= Len(b)
      BY <1>3
    <3>2. b[k] \in Tree
      BY <1>2
    <3> QED BY <1>7, <3>1, <3>2 DEF Tree
  <2>4. CASE j <= Len(b)
    <3>1. i \in 1..Len(b) /\ j \in 1..Len(b)
      BY <1>3, <2>4
    <3>2. b[i].other <= b[j].other
      BY <1>2, <1>9, <3>1 DEF Growing
    <3> QED BY <2>3, <3>1, <3>2
  <2>5. CASE i <= Len(b) /\ j > Len(b)
    <3>1. i \in 1..Len(b) /\ (i < Len(b) \/ i = Len(b))
      BY <1>3, <2>5
    <3>2. b[i].other <= b[Len(b)].other
      <4>1. CASE i < Len(b)
        BY <1>2, <1>9, <2>1, <3>1, <4>1 DEF Growing
      <4>2. CASE i = Len(b)
        BY <2>1, <2>3, <4>2
      <4> QED BY <3>1, <4>1, <4>2
    <3> QED BY <2>2, <2>3, <2>5, <3>1, <3>2
  <2>6. CASE i > Len(b)
    <3>1. j > Len(b)
      BY <1>3, <2>6
    <3>2. (b \o replayed)[i].other = b[Len(b)].other /\ (b \o replayed)[j].other = b[Len(b)].other
      BY <2>2, <2>6, <3>1
    <3>3. b[Len(b)].other \in Nat
      BY <2>1, <2>3
    <3> QED BY <3>2, <3>3
  <2>7. (i <= Len(b) \/ i > Len(b)) /\ (j <= Len(b) \/ j > Len(b))
    BY <1>3
  <2> QED BY <2>4, <2>5, <2>6, <2>7
<1> QED BY <1>1, <1>7, <1>8, <1>9

LEMMA AppendKeeps ==
    ASSUME NEW history \in Seq(Tree), NEW tree \in Tree
    PROVE  /\ Append(history, tree) \in Seq(Tree)
           /\ Matching(history) /\ (\A s \in Sections : tree.file[s] \in {tree.listed[s], Foreign})
                 => Matching(Append(history, tree))
           /\ Growing(history) /\ tree.other >= Tip(history).other => Growing(Append(history, tree))
<1>1. /\ Append(history, tree) \in Seq(Tree) /\ Len(Append(history, tree)) = Len(history) + 1
      /\ \A i \in 1..Len(history) : Append(history, tree)[i] = history[i]
      /\ Append(history, tree)[Len(history) + 1] = tree
  BY AppendProperties
<1>2. Len(history) \in Nat
  BY LenProperties
<1>3. /\ DOMAIN history = 1..Len(history)
      /\ DOMAIN Append(history, tree) = 1..(Len(history) + 1)
  BY <1>1, LenProperties
<1>4. ASSUME Matching(history), \A s \in Sections : tree.file[s] \in {tree.listed[s], Foreign}
      PROVE  Matching(Append(history, tree))
  <2> SUFFICES ASSUME NEW i \in 1..(Len(history) + 1), NEW s \in Sections
               PROVE  Append(history, tree)[i].file[s] \in {Append(history, tree)[i].listed[s], Foreign}
    BY <1>3 DEF Matching
  <2>1. i \in 1..Len(history) \/ i = Len(history) + 1
    BY <1>2
  <2> QED BY <1>3, <1>1, <1>4, <2>1 DEF Matching
<1>5. ASSUME Growing(history), tree.other >= Tip(history).other
      PROVE  Growing(Append(history, tree))
  <2> SUFFICES ASSUME NEW i \in 1..(Len(history) + 1), NEW j \in 1..(Len(history) + 1), i < j
               PROVE  Append(history, tree)[i].other <= Append(history, tree)[j].other
    BY <1>3 DEF Growing
  <2>1. CASE j <= Len(history)
    <3>1. i \in 1..Len(history) /\ j \in 1..Len(history)
      BY <1>2, <2>1
    <3> QED BY <1>3, <1>1, <1>5, <3>1 DEF Growing
  <2>2. CASE j = Len(history) + 1
    <3>1. i \in 1..Len(history) /\ Len(history) \in 1..Len(history) /\ Tip(history) = history[Len(history)]
      <4>1. i \in 1..Len(history) /\ Len(history) \in 1..Len(history)
        BY <1>2, <2>2
      <4>2. history # <<>>
        BY <4>1, EmptySeq
      <4> QED BY <4>1, <4>2 DEF Tip, Last
    <3>2. history[i].other \in Nat /\ history[Len(history)].other \in Nat /\ tree.other \in Nat
      <4>1. history[i] \in Tree /\ history[Len(history)] \in Tree
        BY <1>3, <3>1
      <4> QED BY <4>1 DEF Tree
    <3>3. history[i].other <= history[Len(history)].other
      <4>1. i < Len(history) \/ i = Len(history)
        BY <1>2, <3>1
      <4>2. CASE i < Len(history)
        BY <1>3, <1>5, <3>1, <4>2 DEF Growing
      <4>3. CASE i = Len(history)
        BY <3>2, <4>3
      <4> QED BY <4>1, <4>2, <4>3
    <3> QED BY <1>1, <1>5, <2>2, <3>1, <3>2, <3>3
  <2> QED BY <1>2, <2>1, <2>2
<1> QED BY <1>1, <1>4, <1>5

\* The filter over a batch is well defined and leaves section requests only.
LEMMA SectionsOfType ==
    ASSUME NEW batch \in Seq(Requests)
    PROVE  SectionsOf(batch) \in Seq(SectionRequests)
<1> DEFINE Filtered(before, n) == IF IsSection(batch[n]) THEN Append(before, batch[n]) ELSE before
           Table(g, n) == g = [i \in 0..n |-> IF i = 0 THEN <<>> ELSE Filtered(g[i - 1], i)]
           among == CHOOSE g : Table(g, Len(batch))
           missing == {n \in 0..Len(batch) : ~\E g : Table(g, n)}
           wrong == {n \in 0..Len(batch) : among[n] \notin Seq(SectionRequests)}
<1>1. Len(batch) \in Nat /\ \A n \in 1..Len(batch) : batch[n] \in Requests
  BY LenProperties
<1>2. \A n \in 1..Len(batch) : IsSection(batch[n]) => batch[n] \in SectionRequests
  BY <1>1 DEF Requests, Full, TakeRemote, IsSection
<1>3. missing = {}
  <2> SUFFICES ASSUME missing # {}
               PROVE  FALSE
    OBVIOUS
  <2>1. PICK n \in missing : \A m \in missing : n <= m
    <3>1. missing \subseteq Nat
      OBVIOUS
    <3> HIDE DEF missing
    <3> QED BY <3>1, LeastElement
  <2>2. n # 0
    <3>1. Table([i \in 0..0 |-> <<>>], 0)
      OBVIOUS
    <3> QED BY <3>1
  <2>3. PICK g : Table(g, n - 1)
    <3>1. n - 1 \in 0..Len(batch) /\ n - 1 < n
      BY <1>1, <2>1, <2>2
    <3>2. n - 1 \notin missing
      <4>1. \A m \in missing : n <= m
        BY <2>1
      <4>2. n \in Nat
        BY <2>1
      <4> HIDE DEF missing
      <4> QED BY <3>1, <4>1, <4>2
    <3> HIDE DEF Table
    <3> QED BY <3>1, <3>2
  <2> DEFINE h == [i \in 0..n |-> IF i = n THEN Filtered(g[n - 1], n) ELSE g[i]]
  <2>4. Table(h, n)
    <3>1. \A i \in 0..n : h[i] = IF i = 0 THEN <<>> ELSE Filtered(h[i - 1], i)
      <4> HIDE DEF Filtered
      <4> QED BY <2>2, <2>3
    <3> HIDE DEF Filtered
    <3>2. h = [i \in 0..n |-> h[i]]
      OBVIOUS
    <3> QED BY <3>1, <3>2
  <2> QED BY <2>1, <2>4
<1>4. Table(among, Len(batch))
  <2>1. \E g : Table(g, Len(batch))
    <3>1. Len(batch) \in 0..Len(batch)
      BY <1>1
    <3> HIDE DEF Table
    <3> QED BY <1>3, <3>1
  <2> HIDE DEF Table
  <2> QED BY <2>1
<1>5. wrong = {}
  <2> SUFFICES ASSUME wrong # {}
               PROVE  FALSE
    OBVIOUS
  <2> HIDE DEF among
  <2>1. PICK n \in wrong : \A m \in wrong : n <= m
    <3>1. wrong \subseteq Nat
      OBVIOUS
    <3> HIDE DEF wrong
    <3> QED BY <3>1, LeastElement
  <2>2. n \in 0..Len(batch) /\ among[n] = IF n = 0 THEN <<>> ELSE Filtered(among[n - 1], n)
    BY <1>4
  <2>3. n # 0
    <3>1. among[n] \notin Seq(SectionRequests)
      BY <2>1
    <3> HIDE DEF Filtered
    <3> QED BY <2>2, <3>1, EmptySeq
  <2>4. among[n - 1] \in Seq(SectionRequests)
    <3>1. n - 1 \in 0..Len(batch) /\ n - 1 < n
      BY <1>1, <2>2, <2>3
    <3>2. n - 1 \notin wrong
      <4> HIDE DEF wrong
      <4> QED BY <1>1, <2>1, <2>2, <3>1
    <3> QED BY <3>1, <3>2
  <2>5. n \in 1..Len(batch) /\ among[n] \notin Seq(SectionRequests)
    <3>1. among[n] \notin Seq(SectionRequests)
      BY <2>1
    <3>2. n \in 1..Len(batch)
      <4>1. n \in 0..Len(batch)
        BY <2>2
      <4> QED BY <2>3, <4>1
    <3> QED BY <3>1, <3>2
  <2> QED BY <1>2, <2>2, <2>4, <2>5
<1>6. SectionsOf(batch) = among[Len(batch)]
  BY DEF SectionsOf
<1> QED BY <1>5, <1>6
-----------------------------------------------------------------------------
(* Types. *)

LEMMA CountType ==
    ASSUME count \in [Counted -> Nat], \A c \in Counted : count[c] <= Bound[c],
           NEW what \in Counted, Happens(what, Bound[what])
    PROVE  count' \in [Counted -> Nat] /\ \A c \in Counted : count'[c] <= Bound[c]
<1>1. count'[what] = count[what] + 1 /\ count[what] < Bound[what] /\ count[what] \in Nat
  BY DEF Happens
<1>2. /\ Bound["admin"] = MaxAdmin /\ Bound["foreign"] = MaxForeign
      /\ Bound["fail"] = MaxFail /\ Bound["break"] = MaxBreak
  BY DEF Bound
<1>3. Bound[what] \in Nat
  BY <1>2, BoundsAssumption DEF Counted
<1>4. \A c \in Counted : c # what => count'[c] = count[c]
  BY DEF Happens
<1>5. count[what] + 1 \in Nat /\ count[what] + 1 <= Bound[what]
  BY <1>1, <1>3
<1>6. count' = [c \in Counted |-> count'[c]]
  BY DEF Happens
<1> QED BY <1>1, <1>4, <1>5, <1>6

LEMMA Happening ==
    ASSUME TypeOK,
           \/ Happens("admin", MaxAdmin) \/ Happens("foreign", MaxForeign)
           \/ Happens("fail", MaxFail) \/ Happens("break", MaxBreak)
    PROVE  count' \in [Counted -> Nat] /\ \A c \in Counted : count'[c] <= Bound[c]
<1>1. /\ Bound["admin"] = MaxAdmin /\ Bound["foreign"] = MaxForeign
      /\ Bound["fail"] = MaxFail /\ Bound["break"] = MaxBreak
      /\ {"admin", "foreign", "fail", "break"} = Counted
  BY DEF Bound, Counted
<1>2. count \in [Counted -> Nat] /\ \A c \in Counted : count[c] <= Bound[c]
  BY DEF TypeOK
<1>3. PICK what \in Counted : Happens(what, Bound[what])
  BY <1>1
<1> QED BY <1>2, <1>3, CountType

LEMMA TypeInit == Init => TypeOK
<1> SUFFICES ASSUME Init
             PROVE  TypeOK
  OBVIOUS
<1>1. /\ db \in [Sections -> Versions] /\ <<>> \in Seq(Tree) /\ Len(<<>>) <= Capacity
      /\ <<>> \in Seq(Requests) /\ <<>> \in Seq(SectionRequests)
  BY BoundsAssumption DEF Init, Versions
<1>2. \A c \in Counted : 0 <= Bound[c]
  BY BoundsAssumption DEF Bound, Counted
<1>3. sync \in SyncType /\ row \in Row /\ owed \in [Sections -> Versions]
  BY RowTypes DEF Init
<1> QED BY <1>1, <1>2, <1>3 DEF Init, TypeOK, SyncType

LEMMA HandlerType ==
    ASSUME TypeOK, NEW h \in Handlers,
           (\E s \in Sections : Save(h, s)) \/ SyncNow(h) \/ Resolve(h) \/ SaveSettings(h) \/ Enqueue(h)
    PROVE  TypeOK'
<1>1. proc \in [Handlers -> Requests \cup {NoRequest}] /\ Full \in Requests /\ TakeRemote \in Requests
  BY DEF TypeOK, Requests
<1>2. ASSUME NEW s \in Sections, Save(h, s)
      PROVE  TypeOK'
  <2>1. db[s] + 1 \in Versions /\ db \in [Sections -> Versions]
    BY <1>2, BoundsAssumption, SMTT(60) DEF Save, TypeOK, Versions
  <2>2. SectionRequest(s, db[s] + 1) \in Requests
    BY <2>1 DEF Requests, SectionRequests
  <2> QED BY <1>1, <1>2, <2>1, <2>2 DEF Save, TypeOK, memory, clone
<1>3. CASE SyncNow(h)
  BY <1>1, <1>3, Happening DEF SyncNow, TypeOK, stored, memory, clone
<1>4. CASE Resolve(h)
  BY <1>1, <1>4, Happening DEF Resolve, TypeOK, stored, memory, clone
<1>5. CASE SaveSettings(h)
  BY <1>1, <1>5, Happening DEF SaveSettings, TypeOK, memory, clone
<1>6. CASE Enqueue(h)
  <2>1. queue \in Seq(Requests) /\ Len(queue) <= Capacity /\ proc[h] \in Requests /\ Capacity \in Nat
    BY <1>1, <1>6, BoundsAssumption DEF Enqueue, TypeOK
  <2>2. queue' \in Seq(Requests) /\ Len(queue') <= Capacity
    BY <1>6, <2>1 DEF Enqueue
  <2> QED BY <1>1, <1>6, <2>2 DEF Enqueue, TypeOK, stored, clone
<1> QED BY <1>2, <1>3, <1>4, <1>5, <1>6

LEMMA BatchType ==
    ASSUME TypeOK
    PROVE  Batch \in Seq(Requests) /\ Taken \in Seq(Requests) /\ Len(Taken) <= Capacity
<1>1. /\ queue \in Seq(Requests) /\ Len(queue) \in Nat /\ Len(queue) <= Capacity
      /\ BatchSize \in Nat /\ Capacity \in Nat
  BY BoundsAssumption DEF TypeOK
<1> DEFINE n == IF Len(queue) < BatchSize THEN Len(queue) ELSE BatchSize
<1>2. n \in 0..Len(queue)
  BY <1>1
<1>3. Batch = SubSeq(queue, 1, n)
  BY DEF Batch
<1> HIDE DEF n
<1>4. Batch \in Seq(Requests) /\ Len(Batch) = n
  BY <1>1, <1>2, <1>3
<1>5. Taken = SubSeq(queue, n + 1, Len(queue))
  BY <1>4 DEF Taken
<1>6. n + 1 \in Int /\ Len(queue) \in Int /\ \A i \in n + 1..Len(queue) : queue[i] \in Requests
  BY <1>1, <1>2
<1>7. Taken \in Seq(Requests) /\ Len(Taken) = IF n + 1 <= Len(queue) THEN Len(queue) - (n + 1) + 1 ELSE 0
  BY <1>5, <1>6, SubSeqProperties
<1> QED BY <1>1, <1>2, <1>4, <1>7

LEMMA WorkerStartType ==
    ASSUME TypeOK, SkipBatch \/ Begin
    PROVE  TypeOK'
<1>1. Idle \in SyncType
  BY RowTypes
<1>2. queue' = Taken
  BY DEF SkipBatch, Begin
<1>3. CASE SkipBatch
  <2>1. [Idle EXCEPT !.at = "finish"] \in SyncType
    BY <1>1 DEF SyncType, Steps
  <2> QED BY <1>2, <1>3, <2>1, BatchType DEF SkipBatch, TypeOK, stored, clone, SyncType
<1>4. CASE Begin
  <2> DEFINE full == Asks("TakeRemote") \/ needsFull \/ Asks("Full") \/ ~row.synced
             todo == IF settings.pushOnSave THEN deferred \o SectionsOf(Batch) ELSE <<>>
             take == Asks("TakeRemote")
  <2>1. /\ sync' = [Idle EXCEPT !.at = "fetch", !.row = row, !.full = full, !.take = take, !.todo = todo]
        /\ owed' = IF full THEN db ELSE owed
    BY <1>4 DEF Begin
  <2>2. full \in BOOLEAN /\ take \in BOOLEAN
    BY DEF TypeOK, Asks, Row
  <2>3. todo \in Seq(SectionRequests)
    <3>1. deferred \in Seq(SectionRequests) /\ SectionsOf(Batch) \in Seq(SectionRequests)
      BY BatchType, SectionsOfType DEF TypeOK
    <3>2. deferred \o SectionsOf(Batch) \in Seq(SectionRequests) /\ <<>> \in Seq(SectionRequests)
      BY <3>1, ConcatProperties
    <3> QED BY <3>2
  <2> HIDE DEF full, take, todo
  <2>4. sync' \in SyncType
    BY <1>1, <2>1, <2>2, <2>3 DEF SyncType, Steps, TypeOK
  <2>5. owed' \in [Sections -> Versions] /\ deferred' \in Seq(SectionRequests) /\ Len(deferred') <= Capacity
    BY <1>4, <2>1, BoundsAssumption DEF Begin, TypeOK
  <2> QED BY <1>2, <1>4, <2>4, <2>5, BatchType DEF Begin, TypeOK, stored, clone, SyncType
<1> QED BY <1>3, <1>4

LEMMA CommitKeeps ==
    ASSUME local \in Seq(Tree), NEW tree \in Tree, Commit(tree)
    PROVE  /\ local' \in Seq(Tree)
           /\ Matching(local) /\ (\A s \in Sections : tree.file[s] \in {tree.listed[s], Foreign})
                 => Matching(local')
           /\ Growing(local) /\ tree.other >= Tip(local).other => Growing(local')
BY AppendKeeps DEF Commit

\* The trees the worker commits.
LEMMA CommittedTrees ==
    ASSUME TypeOK
    PROVE  /\ [Tip(local) EXCEPT !.file = db, !.listed = db] \in Tree
           /\ [Tip(local) EXCEPT !.file = db, !.listed = db].other = Tip(local).other
           /\ \A s \in Sections : LET tree == [Tip(local) EXCEPT !.file = db, !.listed = db]
                                  IN  tree.file[s] = tree.listed[s]
           /\ \A r \in SectionRequests :
                 /\ WithSection(Tip(local), r) \in Tree
                 /\ WithSection(Tip(local), r).other = Tip(local).other
                 /\ (\A s \in Sections : Tip(local).file[s] \in {Tip(local).listed[s], Foreign})
                       => \A s \in Sections : WithSection(Tip(local), r).file[s]
                                                 \in {WithSection(Tip(local), r).listed[s], Foreign}
<1>1. Tip(local) \in Tree /\ db \in [Sections -> Versions]
  BY TipType DEF TypeOK
<1>2. /\ [Tip(local) EXCEPT !.file = db, !.listed = db] \in Tree
      /\ [Tip(local) EXCEPT !.file = db, !.listed = db].other = Tip(local).other
      /\ [Tip(local) EXCEPT !.file = db, !.listed = db].file = db
      /\ [Tip(local) EXCEPT !.file = db, !.listed = db].listed = db
  BY <1>1 DEF Tree
<1>3. ASSUME NEW r \in SectionRequests
      PROVE  /\ WithSection(Tip(local), r) \in Tree
             /\ WithSection(Tip(local), r).other = Tip(local).other
             /\ (\A s \in Sections : Tip(local).file[s] \in {Tip(local).listed[s], Foreign})
                   => \A s \in Sections : WithSection(Tip(local), r).file[s]
                                             \in {WithSection(Tip(local), r).listed[s], Foreign}
  <2>1. r.section \in Sections /\ r.version \in Versions
    BY DEF SectionRequests, SectionRequest
  <2> QED BY <1>1, <2>1 DEF WithSection, Tree
<1> QED BY <1>2, <1>3

LEMMA SynchronizeType ==
    ASSUME TypeOK, WorkInv, ResetToRemote \/ Fetch \/ FetchConflict \/ CommitAll \/ CommitSection
    PROVE  TypeOK'
<1>1. /\ sync \in SyncType /\ local \in Seq(Tree) /\ tracked \in Seq(Tree) /\ remote \in Seq(Tree)
      /\ <<>> \in Seq(SectionRequests)
  BY DEF TypeOK, SyncType
<1>2. CASE ResetToRemote
  <2>1. sync' \in SyncType
    BY <1>1, <1>2 DEF ResetToRemote, SyncType, Steps, Row
  <2> QED BY <1>2, <2>1 DEF ResetToRemote, TypeOK, SyncType, stored, memory
<1>3. CASE Fetch
  <2>1. sync' \in SyncType
    BY <1>1, <1>3 DEF Fetch, Fetched, SyncType, Steps
  <2>2. local' \in Seq(Tree)
    BY <1>1, <1>3, CatchUpKeeps DEF Fetch
  <2> QED BY <1>3, <2>1, <2>2 DEF Fetch, TypeOK, SyncType, stored, memory
<1>4. CASE FetchConflict
  <2>1. sync' \in SyncType
    BY <1>1, <1>4 DEF FetchConflict, SyncType, Steps, Row
  <2> QED BY <1>4, <2>1 DEF FetchConflict, TypeOK, SyncType, stored, memory
<1>5. CASE CommitAll
  <2>1. sync' \in SyncType
    BY <1>1, <1>5 DEF CommitAll, SyncType, Steps
  <2>2. local' \in Seq(Tree)
    BY <1>1, <1>5, CommitKeeps, CommittedTrees DEF CommitAll
  <2> QED BY <1>5, <2>1, <2>2, RowTypes DEF CommitAll, TypeOK, SyncType, stored
<1>6. CASE CommitSection
  <2>1. sync.todo # <<>> /\ sync.todo \in Seq(SectionRequests)
    BY <1>1, <1>6 DEF CommitSection, WorkInv, SyncType
  <2>2. Head(sync.todo) \in SectionRequests /\ Tail(sync.todo) \in Seq(SectionRequests)
    BY <2>1, HeadTailProperties
  <2>3. sync' \in SyncType
    BY <1>1, <1>6, <2>2 DEF CommitSection, SyncType, Steps
  <2>4. local' \in Seq(Tree)
    BY <1>1, <1>6, <2>2, CommitKeeps, CommittedTrees DEF CommitSection
  <2> QED BY <1>6, <2>3, <2>4 DEF CommitSection, TypeOK, SyncType, stored, memory
<1> QED BY <1>2, <1>3, <1>4, <1>5, <1>6

LEMMA PushType ==
    ASSUME TypeOK, NothingToPush \/ Push \/ PushAgain \/ PushConflict \/ PushFails
    PROVE  TypeOK'
<1>1. sync \in SyncType /\ local \in Seq(Tree) /\ tracked \in Seq(Tree) /\ remote \in Seq(Tree)
  BY DEF TypeOK, SyncType
<1>2. CASE NothingToPush
  <2>1. sync' \in SyncType
    BY <1>1, <1>2 DEF NothingToPush, Succeeded, SyncType, Steps, Row
  <2> QED BY <1>2, <2>1 DEF NothingToPush, TypeOK, SyncType, stored, clone
<1>3. CASE Push
  <2>1. sync' \in SyncType
    BY <1>1, <1>3 DEF Push, Succeeded, SyncType, Steps, Row
  <2> QED BY <1>3, <2>1 DEF Push, TypeOK, SyncType, stored
<1>4. CASE PushAgain
  <2>1. sync' \in SyncType
    BY <1>1, <1>4 DEF PushAgain, SyncType
  <2>2. local' \in Seq(Tree)
    BY <1>1, <1>4, CatchUpKeeps DEF PushAgain
  <2> QED BY <1>4, <2>1, <2>2 DEF PushAgain, TypeOK, SyncType, stored, memory
<1>5. CASE PushConflict
  <2>1. sync' \in SyncType
    BY <1>1, <1>5 DEF PushConflict, SyncType, Steps, Row
  <2> QED BY <1>5, <2>1 DEF PushConflict, TypeOK, SyncType, stored, memory
<1>6. CASE PushFails
  <2>1. sync' \in SyncType
    BY <1>1, <1>6 DEF PushFails, SyncType, Steps, Row
  <2>2. remote' \in Seq(Tree)
    BY <1>1, <1>6 DEF PushFails
  <2> QED BY <1>6, <2>1, <2>2, Happening DEF PushFails, TypeOK, SyncType, stored, memory, clone
<1> QED BY <1>2, <1>3, <1>4, <1>5, <1>6

LEMMA WorkerEndType ==
    ASSUME TypeOK, SyncFails \/ SaveState \/ Finish \/ WorkerError
    PROVE  TypeOK'
<1>1. sync \in SyncType /\ Idle \in SyncType /\ <<>> \in Seq(SectionRequests)
  BY RowTypes DEF TypeOK, SyncType
<1>2. CASE SyncFails
  <2>1. sync' \in SyncType
    BY <1>1, <1>2 DEF SyncFails, SyncType, Steps, Row
  <2>2. Remaining \in Seq(SectionRequests)
    <3>1. deferred \in Seq(SectionRequests) /\ sync.todo \in Seq(SectionRequests)
      BY <1>1 DEF TypeOK, SyncType
    <3> QED BY <3>1, ConcatProperties DEF Remaining
  <2>3. deferred' \in Seq(SectionRequests) /\ Len(deferred') <= Capacity /\ needsFull' \in BOOLEAN
    <3>1. Len(Remaining) \in Nat /\ Capacity \in Nat
      BY <2>2, LenProperties, BoundsAssumption
    <3>2. CASE Len(Remaining) > Capacity
      BY <1>2, <3>2 DEF SyncFails, TypeOK
    <3>3. CASE ~(Len(Remaining) > Capacity)
      <4>1. deferred' = Remaining /\ needsFull' = needsFull
        BY <1>2, <3>3 DEF SyncFails
      <4>2. Len(Remaining) <= Capacity
        BY <3>1, <3>3
      <4> QED BY <2>2, <4>1, <4>2 DEF TypeOK
    <3> QED BY <3>2, <3>3
  <2> QED BY <1>2, <2>1, <2>3, Happening DEF SyncFails, TypeOK, SyncType, stored, clone
<1>3. CASE SaveState
  <2>1. [Idle EXCEPT !.at = "finish"] \in SyncType
    BY <1>1 DEF SyncType, Steps
  <2> QED BY <1>1, <1>3, <2>1 DEF SaveState, TypeOK, SyncType, memory, clone
<1>4. CASE Finish
  BY <1>1, <1>4 DEF Finish, TypeOK, SyncType, Row, stored, clone
<1>5. CASE WorkerError
  BY <1>1, <1>5, Happening DEF WorkerError, TypeOK, SyncType, stored, clone
<1> QED BY <1>2, <1>3, <1>4, <1>5

\* A commit of somebody else, as the remote's history sees it.
LEMMA ForeignKeeps ==
    ASSUME TypeOK, ForeignCommit
    PROVE  /\ remote' \in Seq(Tree)
           /\ Matching(remote) => Matching(remote')
           /\ Growing(remote) => Growing(remote')
<1>1. remote \in Seq(Tree) /\ Tip(remote) \in Tree
  BY TipType DEF TypeOK
<1>2. PICK tree \in Tree : /\ remote' = Append(remote, tree)
                           /\ tree.listed = Tip(remote).listed /\ tree.other >= Tip(remote).other
                           /\ \A s \in Sections : tree.file[s] \in {Tip(remote).file[s], Foreign}
  <2>1. CASE remote' = Append(remote, [Tip(remote) EXCEPT !.other = @ + 1])
    <3>1. /\ [Tip(remote) EXCEPT !.other = @ + 1] \in Tree
          /\ [Tip(remote) EXCEPT !.other = @ + 1].listed = Tip(remote).listed
          /\ [Tip(remote) EXCEPT !.other = @ + 1].other >= Tip(remote).other
          /\ [Tip(remote) EXCEPT !.other = @ + 1].file = Tip(remote).file
      BY <1>1 DEF Tree
    <3> QED BY <2>1, <3>1
  <2>2. ASSUME NEW s \in Sections, remote' = Append(remote, [Tip(remote) EXCEPT !.file[s] = Foreign])
        PROVE  \E tree \in Tree : /\ remote' = Append(remote, tree)
                                  /\ tree.listed = Tip(remote).listed /\ tree.other >= Tip(remote).other
                                  /\ \A x \in Sections : tree.file[x] \in {Tip(remote).file[x], Foreign}
    <3>1. /\ [Tip(remote) EXCEPT !.file[s] = Foreign] \in Tree
          /\ [Tip(remote) EXCEPT !.file[s] = Foreign].listed = Tip(remote).listed
          /\ [Tip(remote) EXCEPT !.file[s] = Foreign].other >= Tip(remote).other
          /\ \A x \in Sections : [Tip(remote) EXCEPT !.file[s] = Foreign].file[x] \in {Tip(remote).file[x], Foreign}
      <4> DEFINE tip == Tip(remote)
                 file == [tip.file EXCEPT ![s] = Foreign]
      <4>1. tip \in Tree /\ tip.file \in [Sections -> Versions \cup {Foreign}] /\ tip.other \in Nat
        BY <1>1 DEF Tree
      <4>2. file \in [Sections -> Versions \cup {Foreign}] /\ \A x \in Sections : file[x] \in {tip.file[x], Foreign}
        BY <4>1
      <4>3. [tip EXCEPT !.file[s] = Foreign] = [tip EXCEPT !.file = file]
        BY <4>1 DEF Tree
      <4> HIDE DEF file, tip
      <4>4. /\ [tip EXCEPT !.file = file] \in Tree
            /\ [tip EXCEPT !.file = file].listed = tip.listed
            /\ [tip EXCEPT !.file = file].other = tip.other
            /\ [tip EXCEPT !.file = file].file = file
        BY <4>1, <4>2 DEF Tree
      <4> QED BY <4>1, <4>2, <4>3, <4>4 DEF tip
    <3> QED BY <2>2, <3>1
  <2> QED BY <2>1, <2>2 DEF ForeignCommit
<1>3. Matching(remote) => \A s \in Sections : Tip(remote).file[s] \in {Tip(remote).listed[s], Foreign}
  BY <1>1, TipMatches
<1>4. Matching(remote) => \A s \in Sections : tree.file[s] \in {tree.listed[s], Foreign}
  BY <1>2, <1>3
<1> QED BY <1>1, <1>2, <1>4, AppendKeeps

LEMMA SurroundingsType ==
    ASSUME TypeOK, ForeignCommit \/ Crash
    PROVE  TypeOK'
<1>1. CASE ForeignCommit
  <2>1. remote' \in Seq(Tree) /\ count' \in [Counted -> Nat] /\ \A c \in Counted : count'[c] <= Bound[c]
    BY <1>1, ForeignKeeps, Happening DEF ForeignCommit
  <2>2. UNCHANGED <<db, settings, row, proc, queue, deferred, needsFull, retry, sync, local, tracked, owed>>
    BY <1>1 DEF ForeignCommit, stored, memory, clone
  <2> QED BY <2>1, <2>2 DEF TypeOK
<1>2. CASE Crash
  <2>1. sync' \in SyncType /\ Len(<<>>) <= Capacity /\ <<>> \in Seq(Requests) /\ <<>> \in Seq(SectionRequests)
    BY <1>2, RowTypes, BoundsAssumption DEF Crash
  <2> QED BY <1>2, <2>1, Happening DEF Crash, TypeOK, SyncType, stored, clone
<1> QED BY <1>1, <1>2

LEMMA TypeStep == TypeOK /\ WorkInv /\ [Next]_vars => TypeOK'
<1>1. ASSUME TypeOK, UNCHANGED vars
      PROVE  TypeOK'
  BY <1>1 DEF TypeOK, vars, stored, memory, clone
<1> QED BY <1>1, HandlerType, WorkerStartType, SynchronizeType, PushType, WorkerEndType, SurroundingsType
        DEF Next, WorkerStep

-----------------------------------------------------------------------------
(* The rest of the invariant. *)

LEMMA WorkStep == TypeOK /\ WorkInv /\ [Next]_vars => WorkInv'
<1> SUFFICES ASSUME TypeOK, WorkInv, [Next]_vars
             PROVE  WorkInv'
  OBVIOUS
<1> USE RowTypes
<1>1. sync \in SyncType
  BY DEF TypeOK, SyncType
<1>2. CASE sync' = sync /\ row' = row
  BY <1>2 DEF WorkInv
<1>3. ASSUME sync' = Idle \/ sync' = [Idle EXCEPT !.at = "finish"]
      PROVE  WorkInv'
  <2>1. sync'.at \in {"idle", "finish"} /\ sync'.take = FALSE
    BY <1>3 DEF SyncType
  <2> QED BY <2>1 DEF WorkInv
<1>4. ASSUME sync'.at = "save", sync'.take = sync.take, sync'.full = sync.full
      PROVE  WorkInv'
  BY <1>4 DEF WorkInv
<1>5. CASE Begin
  <2> DEFINE full == Asks("TakeRemote") \/ needsFull \/ Asks("Full") \/ ~row.synced
             todo == IF settings.pushOnSave THEN deferred \o SectionsOf(Batch) ELSE <<>>
             take == Asks("TakeRemote")
  <2>1. sync' = [Idle EXCEPT !.at = "fetch", !.row = row, !.full = full, !.take = take, !.todo = todo]
    BY <1>5 DEF Begin
  <2>2. (take => full) /\ (row'.conflict => take)
    BY <1>5 DEF Begin, Skipped, stored
  <2> HIDE DEF full, take, todo
  <2>3. sync'.at = "fetch" /\ sync'.full = full /\ sync'.take = take
    BY <2>1 DEF SyncType
  <2> QED BY <2>2, <2>3 DEF WorkInv
<1>6. CASE ResetToRemote
  <2>1. sync'.at = "commit" /\ sync'.take = sync.take /\ sync'.full = sync.full /\ row' = row
    BY <1>1, <1>6 DEF ResetToRemote, SyncType, stored
  <2> QED BY <1>6, <2>1 DEF WorkInv, ResetToRemote
<1>7. CASE Fetch
  <2>1. /\ sync'.at = Fetched /\ sync'.take = sync.take /\ sync'.full = sync.full
        /\ sync'.todo = sync.todo /\ row' = row
    BY <1>1, <1>7 DEF Fetch, SyncType, stored
  <2> QED BY <1>7, <2>1 DEF WorkInv, Fetch, Fetched
<1>8. CASE FetchConflict \/ PushConflict \/ PushFails \/ SyncFails \/ NothingToPush \/ Push
  BY <1>1, <1>4, <1>8 DEF FetchConflict, PushConflict, PushFails, SyncFails, NothingToPush, Push, SyncType
<1>9. CASE CommitAll
  <2>1. sync'.at = "push" /\ sync'.take = sync.take /\ sync'.full = sync.full /\ row' = row
    BY <1>1, <1>9 DEF CommitAll, SyncType, stored
  <2> QED BY <1>9, <2>1 DEF WorkInv, CommitAll
<1>10. CASE CommitSection
  <2>1. /\ sync'.at = IF Tail(sync.todo) = <<>> THEN "push" ELSE "commit"
        /\ sync'.take = sync.take /\ sync'.full = sync.full
        /\ sync'.todo = Tail(sync.todo) /\ row' = row
    BY <1>1, <1>10 DEF CommitSection, SyncType, stored
  <2> QED BY <1>10, <2>1 DEF WorkInv, CommitSection
<1>11. CASE PushAgain
  <2>1. sync'.at = "push" /\ sync'.take = sync.take /\ sync'.full = sync.full /\ row' = row
    BY <1>1, <1>11 DEF PushAgain, Rejected, SyncType, stored
  <2> QED BY <1>11, <2>1 DEF WorkInv, PushAgain, Rejected
<1>12. CASE SkipBatch \/ SaveState \/ Finish \/ WorkerError \/ Crash
  BY <1>3, <1>12 DEF SkipBatch, SaveState, Finish, WorkerError, Crash
<1> QED BY <1>2, <1>5, <1>6, <1>7, <1>8, <1>9, <1>10, <1>11, <1>12 DEF Next, WorkerStep, Save, SyncNow, Resolve,
        SaveSettings, Enqueue, ForeignCommit, vars, stored

LEMMA HistoryStep == TypeOK /\ WorkInv /\ HistoryInv /\ [Next]_vars => HistoryInv'
<1> SUFFICES ASSUME TypeOK, WorkInv, HistoryInv, [Next]_vars
             PROVE  Matching(local') /\ Growing(local') /\ Matching(remote') /\ Growing(remote')
  BY DEF HistoryInv, Matching, Growing
<1>1. local \in Seq(Tree) /\ remote \in Seq(Tree) /\ sync \in SyncType
  BY DEF TypeOK, SyncType
<1>2. Matching(local) /\ Growing(local) /\ Matching(remote) /\ Growing(remote)
  BY DEF HistoryInv
<1>3. CASE local' \in {local, remote} /\ remote' \in {local, remote}
  BY <1>2, <1>3
<1>4. CASE Fetch \/ PushAgain
  BY <1>1, <1>2, <1>4, CatchUpKeeps DEF Fetch, PushAgain
<1>5. CASE CommitAll
  <2>1. Tip(local).other \in Nat
    BY <1>1, TipType DEF Tree
  <2>2. Matching(local') /\ Growing(local')
    <3> DEFINE tree == [Tip(local) EXCEPT !.file = db, !.listed = db]
    <3>1. /\ tree \in Tree /\ tree.other = Tip(local).other
          /\ \A s \in Sections : tree.file[s] = tree.listed[s]
      BY CommittedTrees
    <3>2. Commit(tree)
      BY <1>5 DEF CommitAll
    <3> HIDE DEF tree
    <3>3. tree.other >= Tip(local).other /\ \A s \in Sections : tree.file[s] \in {tree.listed[s], Foreign}
      BY <2>1, <3>1
    <3> QED BY <1>1, <1>2, <3>1, <3>2, <3>3, CommitKeeps
  <2> QED BY <1>2, <1>5, <2>2 DEF CommitAll
<1>6. CASE CommitSection
  <2>1. Head(sync.todo) \in SectionRequests
    BY <1>1, <1>6, HeadTailProperties DEF CommitSection, WorkInv, SyncType
  <2>2. Tip(local).other \in Nat /\ \A s \in Sections : Tip(local).file[s] \in {Tip(local).listed[s], Foreign}
    BY <1>1, <1>2, TipType, TipMatches DEF Tree
  <2>3. Matching(local') /\ Growing(local')
    BY <1>1, <1>2, <1>6, <2>1, <2>2, CommittedTrees, CommitKeeps DEF CommitSection
  <2> QED BY <1>2, <1>6, <2>3 DEF CommitSection
<1>7. CASE ForeignCommit
  <2>1. local' = local
    BY <1>7 DEF ForeignCommit, clone
  <2>2. Matching(remote') /\ Growing(remote')
    BY <1>2, <1>7, ForeignKeeps
  <2> QED BY <1>2, <2>1, <2>2
<1> QED BY <1>3, <1>4, <1>5, <1>6, <1>7 DEF Next, WorkerStep, Save, SyncNow, Resolve, SaveSettings, Enqueue, SkipBatch,
        Begin, ResetToRemote, FetchConflict, NothingToPush, Push, PushConflict, PushFails, SyncFails, SaveState,
        Finish, WorkerError, Crash, vars, clone

\* Every reachable state is well typed, and so is every commit on both sides.
THEOREM MirrorInvariant == Spec => []IInv
<1>1. Init => IInv
  <2>1. Init => WorkInv
    BY RowTypes DEF Init, WorkInv
  <2>2. Init => HistoryInv
    BY DEF Init, HistoryInv, Matching, Growing
  <2> QED BY <2>1, <2>2, TypeInit DEF IInv
<1>2. IInv /\ [Next]_vars => IInv'
  BY TypeStep, WorkStep, HistoryStep DEF IInv
<1> QED BY <1>1, <1>2, PTL DEF Spec

\* Queue, deferred versions, batch, clone, remote and counts keep their types; a batch and
\* what it left behind are section requests, for any capacity and any number of sections.
THEOREM TypeCorrect == Spec => []TypeOK
<1>1. IInv => TypeOK
  BY DEF IInv
<1> QED BY <1>1, MirrorInvariant, PTL

\* In every commit on either side versions.json names the version of each section's file
\* (GitRepositorySync.Commit, Integrate), whatever was replayed, repeated and exported.
THEOREM FilesMatch == Spec => []FilesMatchListing
<1>1. IInv => FilesMatchListing
  BY DEF IInv, HistoryInv, Matching, FilesMatchListing
<1> QED BY <1>1, MirrorInvariant, PTL

\* No commit of the branch takes back what an earlier one changed in other paths
\* (GitRepositorySync.Integrate), whoever made them in whatever order.
THEOREM OthersStay == Spec => []OthersUntouched
<1>1. IInv => OthersUntouched
  BY DEF IInv, HistoryInv, Growing, OthersUntouched
<1> QED BY <1>1, MirrorInvariant, PTL

\* Once a conflict is stored nothing is pushed before an administrator chose to take over
\* the remote (GitSyncService.ProcessAsync), across batches, retries and restarts.
THEOREM ConflictHolds == Spec => ConflictStopsPushing
<1>1. IInv /\ [Next]_vars => [WorkerPushes /\ row.conflict => sync.take]_vars
  <2> SUFFICES ASSUME IInv, Next, WorkerPushes, row.conflict
               PROVE  sync.take
    OBVIOUS
  <2>1. ~ForeignCommit
    BY DEF ForeignCommit, Happens, WorkerPushes, IInv, TypeOK, Counted
  <2>2. sync.at = "push"
    BY <2>1 DEF WorkerPushes, Next, WorkerStep, Save, SyncNow, Resolve, SaveSettings, Enqueue, SkipBatch,
       Begin, ResetToRemote, Fetch, FetchConflict, CommitAll, CommitSection, NothingToPush, Push, PushAgain,
       PushConflict, PushFails, SyncFails, SaveState, Finish, WorkerError, Crash
  <2> QED BY <2>2 DEF IInv, WorkInv
<1> QED BY <1>1, MirrorInvariant, PTL DEF Spec, ConflictStopsPushing

=============================================================================
