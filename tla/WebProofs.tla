----------------------------- MODULE WebProofs ------------------------------
(* What the web interface keeps, for every size of its constants: the two       *)
(* editors of a draft that have dialogs, and all pages together.                *)
EXTENDS Web, PageProofs

-----------------------------------------------------------------------------
\* A sequence without one of its places.
LEMMA RemoveAtOne ==
    ASSUME NEW S, NEW s \in Seq(S), NEW i \in 1..Len(s)
    PROVE  /\ RemoveAt(s, i) \in Seq(S) /\ Len(RemoveAt(s, i)) = Len(s) - 1
           /\ \A j \in 1..Len(s) - 1 :
                 RemoveAt(s, i)[j] = IF j < i THEN s[j] ELSE s[j + 1]
<1> DEFINE r == RemoveAt(s, i)
<1> DEFINE a == SubSeq(s, 1, i - 1)  b == SubSeq(s, i + 1, Len(s))
<1>1. Len(s) \in Nat /\ i \in Nat /\ 1 <= i /\ i <= Len(s) /\ i - 1 \in Int /\ i + 1 \in Int
      OBVIOUS
<1>2. (\A k \in 1..i - 1 : s[k] \in S) /\ (\A k \in i + 1..Len(s) : s[k] \in S)
      BY <1>1
<1>3. /\ a \in Seq(S) /\ Len(a) = (IF 1 <= i - 1 THEN i - 1 - 1 + 1 ELSE 0)
      /\ \A k \in 1..i - 1 - 1 + 1 : a[k] = s[1 + k - 1]
      BY <1>1, <1>2, SubSeqProperties
<1>4. /\ b \in Seq(S) /\ Len(b) = (IF i + 1 <= Len(s) THEN Len(s) - (i + 1) + 1 ELSE 0)
      /\ \A k \in 1..Len(s) - (i + 1) + 1 : b[k] = s[i + 1 + k - 1]
      BY <1>1, <1>2, SubSeqProperties
<1>5. r = a \o b
      BY DEF RemoveAt
<1> HIDE DEF a, b, r
<1>6. Len(a) = i - 1 /\ Len(b) = Len(s) - i
      BY <1>1, <1>3, <1>4
<1>7. /\ a \o b \in Seq(S) /\ Len(a \o b) = Len(a) + Len(b)
       /\ \A k \in 1..Len(a) + Len(b) : (a \o b)[k] = IF k <= Len(a) THEN a[k] ELSE b[k - Len(a)]
      BY <1>3, <1>4, ConcatProperties
<1>8. /\ r \in Seq(S) /\ Len(r) = Len(a) + Len(b)
      /\ \A k \in 1..Len(a) + Len(b) : r[k] = IF k <= Len(a) THEN a[k] ELSE b[k - Len(a)]
      BY <1>5, <1>7
<1>9. ASSUME NEW j \in 1..Len(s) - 1 PROVE r[j] = IF j < i THEN s[j] ELSE s[j + 1]
  <2>1. j \in 1..Len(a) + Len(b)
        BY <1>1, <1>6
  <2>2. CASE j < i
    <3>1. j <= Len(a) /\ j \in 1..i - 1 - 1 + 1 /\ 1 + j - 1 = j
          BY <1>1, <1>6, <2>2
    <3> QED BY <1>3, <1>8, <2>1, <2>2, <3>1
  <2>3. CASE ~(j < i)
    <3>1. PICK k \in 1..Len(s) - (i + 1) + 1 : k = j - Len(a)
      <4>1. j - Len(a) \in 1..Len(s) - (i + 1) + 1
            BY <1>1, <1>6, <2>3
      <4> QED BY <4>1
    <3>2. ~(j <= Len(a)) /\ i + 1 + k - 1 = j + 1
          BY <1>1, <1>6, <2>3, <3>1
    <3> QED BY <1>4, <1>8, <2>1, <2>3, <3>1, <3>2
  <2> QED BY <2>2, <2>3
<1>10. Len(r) = Len(s) - 1
      BY <1>1, <1>6, <1>8
<1> QED BY <1>8, <1>9, <1>10 DEF r

-----------------------------------------------------------------------------
(***************************************************************************)
(* The assistants and the renaming of an OU.                               *)
(***************************************************************************)
\* Names of OUs from an OU up to the domain.
Paths == Seq(Names)

LEMMA DnFits ==
    ASSUME NEW o \in Ou
    PROVE  /\ Dn(o) \in Paths /\ Dn(o) # <<>> /\ Len(Dn(o)) = Len(o.path) + 1
           /\ \A i \in 1..Len(o.path) : Dn(o)[i + 1] = o.path[i]
           /\ Dn(o)[1] = o.name /\ SubSeq(Dn(o), 2, Len(Dn(o))) = o.path
<1> DEFINE one == <<o.name>>  p == o.path
<1>1. one \in Paths /\ p \in Paths /\ Len(one) = 1 /\ one[1] = o.name /\ o.name \in Names
      BY DEF Ou, Paths
<1>2. Dn(o) = one \o p
      BY DEF Dn
<1> HIDE DEF one, p
<1>3. /\ one \o p \in Paths /\ Len(one \o p) = Len(one) + Len(p)
      /\ \A i \in 1..Len(one) + Len(p) : (one \o p)[i] = IF i <= Len(one) THEN one[i] ELSE p[i - Len(one)]
      BY <1>1, ConcatProperties DEF Paths
<1>4. Len(p) \in Nat
      BY <1>1 DEF Paths
<1> DEFINE d == Dn(o)
<1>5. d \in Paths /\ Len(d) = Len(p) + 1
      BY <1>1, <1>2, <1>3, <1>4
<1>6. \A i \in 1..Len(p) : d[i + 1] = p[i]
  <2> TAKE i \in 1..Len(p)
  <2>1. i + 1 \in 1..Len(one) + Len(p) /\ ~(i + 1 <= Len(one)) /\ i + 1 - Len(one) = i
        BY <1>1, <1>4
  <2> QED BY <1>2, <1>3, <2>1
<1>7. d[1] = o.name
      BY <1>1, <1>2, <1>3, <1>4
<1> HIDE DEF d
<1>8. SubSeq(d, 2, Len(d)) = p
  <2> DEFINE s == SubSeq(d, 2, Len(d))
  <2>1. \A i \in 2..Len(d) : d[i] \in Names
        BY <1>5 DEF Paths
  <2>2. Len(d) \in Int /\ 2 \in Int
        BY <1>4, <1>5
  <2>3. /\ s \in Paths /\ Len(s) = IF 2 <= Len(d) THEN Len(d) - 2 + 1 ELSE 0
        /\ \A i \in 1..Len(d) - 2 + 1 : s[i] = d[2 + i - 1]
        BY <2>1, <2>2, SubSeqProperties DEF Paths
  <2> HIDE DEF s
  <2>4. Len(s) = Len(p)
        BY <1>4, <1>5, <2>3
  <2>5. \A i \in 1..Len(s) : s[i] = p[i]
    <3> TAKE i \in 1..Len(s)
    <3>1. i \in 1..Len(p) /\ i \in 1..Len(d) - 2 + 1 /\ 2 + i - 1 = i + 1
          BY <1>4, <1>5, <2>4
    <3> QED BY <3>1, <2>3, <1>6
  <2>6. s = p
        BY <1>1, <2>3, <2>4, <2>5, SeqEqual DEF Paths
  <2> QED BY <2>6 DEF s
<1>9. d # <<>>
      BY <1>4, <1>5
<1> QED BY <1>5, <1>6, <1>7, <1>8, <1>9 DEF d, p

\* What is left of a path without its first n names.
LEMMA DropFits ==
    ASSUME NEW dn \in Paths, NEW n \in 0..Len(dn)
    PROVE  /\ SubSeq(dn, n + 1, Len(dn)) \in Paths
           /\ Len(SubSeq(dn, n + 1, Len(dn))) = Len(dn) - n
           /\ \A i \in 1..(Len(dn) - n) : SubSeq(dn, n + 1, Len(dn))[i] = dn[n + i]
<1>1. Len(dn) \in Nat /\ n \in Nat /\ n <= Len(dn) /\ n + 1 \in Int /\ Len(dn) \in Int
      BY DEF Paths
<1>2. \A i \in n + 1..Len(dn) : dn[i] \in Names
      BY <1>1 DEF Paths
<1> DEFINE s == SubSeq(dn, n + 1, Len(dn))
<1>3. /\ s \in Seq(Names)
      /\ Len(s) = IF n + 1 <= Len(dn) THEN Len(dn) - (n + 1) + 1 ELSE 0
      /\ \A i \in 1..Len(dn) - (n + 1) + 1 : s[i] = dn[n + 1 + i - 1]
      BY <1>1, <1>2, SubSeqProperties
<1> HIDE DEF s
<1>4. \A i \in 1..(Len(dn) - n) : s[i] = dn[n + i]
  <2> TAKE i \in 1..(Len(dn) - n)
  <2>1. i \in 1..Len(dn) - (n + 1) + 1 /\ n + 1 + i - 1 = n + i
        BY <1>1
  <2> QED BY <1>3, <2>1
<1>5. Len(s) = Len(dn) - n
      BY <1>1, <1>3
<1> QED BY <1>3, <1>4, <1>5 DEF s, Paths

LEMMA BelowIs ==
    ASSUME NEW dn \in Paths, NEW top \in Paths
    PROVE  IsBelow(dn, top) <=>
              /\ Len(dn) >= Len(top)
              /\ \A j \in 1..Len(top) : dn[Len(dn) - Len(top) + j] = top[j]
<1>1. Len(dn) \in Nat /\ Len(top) \in Nat
      BY DEF Paths
<1>2. CASE ~(Len(dn) >= Len(top))
      BY <1>2 DEF IsBelow
<1>3. CASE Len(dn) >= Len(top)
  <2>1. Len(dn) - Len(top) \in 0..Len(dn)
        BY <1>1, <1>3
  <2>2. PICK n \in 0..Len(dn) : n = Len(dn) - Len(top)
        BY <2>1
  <2> DEFINE s == SubSeq(dn, n + 1, Len(dn))
  <2>3. /\ s \in Paths /\ Len(s) = Len(top)
        /\ \A j \in 1..Len(top) : s[j] = dn[n + j]
    <3>1. Len(dn) - n = Len(top)
          BY <1>1, <2>2
    <3>2. /\ s \in Paths /\ Len(s) = Len(dn) - n
          /\ \A j \in 1..(Len(dn) - n) : s[j] = dn[n + j]
          BY DropFits
    <3> HIDE DEF s
    <3> QED BY <3>1, <3>2
  <2>4. IsBelow(dn, top) <=> s = top
        BY <1>3, <2>2 DEF IsBelow
  <2> HIDE DEF s
  <2>5. (\A j \in 1..Len(top) : dn[n + j] = top[j]) => s = top
        BY <1>1, <2>3, SeqEqual DEF Paths
  <2>6. s = top => \A j \in 1..Len(top) : dn[n + j] = top[j]
        BY <2>3
  <2> QED BY <1>3, <2>2, <2>4, <2>5, <2>6
<1> QED BY <1>2, <1>3

LEMMA RebasedIs ==
    ASSUME NEW dn \in Paths, NEW old \in Paths, NEW new \in Paths
    PROVE  LET r == Rebased(dn, old, new)  n == Len(dn) - Len(old) IN
           /\ r \in Paths
           /\ ~IsBelow(dn, old) => r = dn
           /\ IsBelow(dn, old) =>
                /\ n \in Nat /\ Len(r) = n + Len(new)
                /\ \A i \in 1..n : r[i] = dn[i]
                /\ \A j \in 1..Len(new) : r[n + j] = new[j]
<1> DEFINE r == Rebased(dn, old, new)  n == Len(dn) - Len(old)
<1>1. Len(dn) \in Nat /\ Len(old) \in Nat /\ Len(new) \in Nat
      BY DEF Paths
<1>2. CASE ~IsBelow(dn, old)
      BY <1>2 DEF Rebased
<1>3. CASE IsBelow(dn, old)
  <2>1. n \in Nat /\ n <= Len(dn)
        BY <1>1, <1>3 DEF IsBelow
  <2> HIDE DEF n
  <2> DEFINE s == SubSeq(dn, 1, n)
  <2>2. \A i \in 1..n : dn[i] \in Names
        BY <1>1, <2>1 DEF Paths
  <2>3. s \in Seq(Names) /\ Len(s) = (IF 1 <= n THEN n - 1 + 1 ELSE 0)
        /\ \A i \in 1..n - 1 + 1 : s[i] = dn[1 + i - 1]
        BY <2>1, <2>2, SubSeqProperties
  <2>4. r = s \o new
        BY <1>3 DEF Rebased, n
  <2> HIDE DEF s, r
  <2>5. Len(s) = n /\ s \in Paths
        BY <2>1, <2>3 DEF Paths
  <2>6. \A i \in 1..n : s[i] = dn[i]
    <3> TAKE i \in 1..n
    <3>1. i \in 1..n - 1 + 1 /\ 1 + i - 1 = i
          BY <2>1
    <3> QED BY <2>3, <3>1
  <2>7. /\ r \in Paths /\ Len(r) = n + Len(new)
        /\ \A i \in 1..n + Len(new) : r[i] = IF i <= n THEN s[i] ELSE new[i - n]
        BY <2>4, <2>5, ConcatProperties DEF Paths
  <2>8. \A i \in 1..n : r[i] = dn[i]
        BY <1>1, <2>1, <2>6, <2>7
  <2>9. \A j \in 1..Len(new) : r[n + j] = new[j]
    <3> TAKE j \in 1..Len(new)
    <3>1. n + j \in 1..n + Len(new) /\ ~(n + j <= n) /\ (n + j) - n = j
          BY <1>1, <2>1
    <3>2. PICK i \in 1..n + Len(new) : i = n + j
          BY <3>1
    <3>3. r[i] = new[i - n]
          BY <2>7, <3>1, <3>2
    <3> QED BY <3>1, <3>2, <3>3
  <2> QED BY <1>3, <2>1, <2>7, <2>8, <2>9 DEF r, n
<1> QED BY <1>2, <1>3

\* Two places of the tree that move stay apart.
LEMMA RebasedApart ==
    ASSUME NEW a \in Paths, NEW b \in Paths, NEW old \in Paths, NEW new \in Paths,
           IsBelow(a, old), IsBelow(b, old), Rebased(a, old, new) = Rebased(b, old, new)
    PROVE  a = b
<1> DEFINE r == Rebased(a, old, new)  m == Len(a) - Len(old)  n == Len(b) - Len(old)
<1>1. Len(a) \in Nat /\ Len(b) \in Nat /\ Len(old) \in Nat /\ Len(new) \in Nat
      BY DEF Paths
<1>2. /\ m \in Nat /\ Len(r) = m + Len(new)
      /\ \A i \in 1..m : r[i] = a[i]
      BY RebasedIs
<1>3. /\ n \in Nat /\ Len(Rebased(b, old, new)) = n + Len(new)
      /\ \A i \in 1..n : Rebased(b, old, new)[i] = b[i]
      BY RebasedIs, ZenonT(40)
<1>4. r = Rebased(b, old, new)
      OBVIOUS
<1> HIDE DEF r
<1>5. m = n /\ Len(a) = Len(b)
      BY <1>1, <1>2, <1>3, <1>4
<1>6. \A j \in 1..Len(old) : a[m + j] = old[j] /\ b[n + j] = old[j]
      BY BelowIs
<1>7. \A i \in 1..Len(a) : a[i] = b[i]
  <2> TAKE i \in 1..Len(a)
  <2>1. CASE i <= m
        BY <1>2, <1>3, <1>5, <1>4, <2>1
  <2>2. CASE ~(i <= m)
    <3>1. PICK j \in 1..Len(old) : i = m + j
          <4>1. i - m \in 1..Len(old) /\ i = m + (i - m)
                BY <1>1, <1>2, <2>2
          <4> QED BY <4>1
    <3> QED BY <1>5, <1>6, <3>1
  <2> QED BY <2>1, <2>2
<1> QED BY <1>5, <1>7, SeqEqual DEF Paths

\* Renaming an OU moves what is in it: the DN of an OU whose parent was renamed.
LEMMA RebasedDn ==
    ASSUME NEW o \in Ou, NEW old \in Paths, old # <<>>, NEW new \in Paths, Dn(o) # old,
           NEW p \in Ou, p.name = o.name, p.path = Rebased(o.path, old, new)
    PROVE  Dn(p) = Rebased(Dn(o), old, new)
<1> DEFINE d == Dn(o)  q == o.path  r == Rebased(o.path, old, new)  n == Len(q) - Len(old)
<1>1. /\ d \in Paths /\ Len(d) = Len(q) + 1
      /\ \A i \in 1..Len(q) : d[i + 1] = q[i]
      /\ d[1] = o.name
      BY DnFits
<1>2. /\ Dn(p) \in Paths /\ Len(Dn(p)) = Len(r) + 1
      /\ \A i \in 1..Len(r) : Dn(p)[i + 1] = r[i]
      /\ Dn(p)[1] = o.name
      BY DnFits
<1>3. q \in Paths /\ Len(q) \in Nat /\ Len(old) \in Nat /\ Len(old) >= 1 /\ Len(new) \in Nat
      BY DEF Ou, Paths
<1>4. IsBelow(d, old) <=> IsBelow(q, old)
  <2>1. ASSUME IsBelow(q, old) PROVE IsBelow(d, old)
    <3>1. Len(q) >= Len(old) /\ \A j \in 1..Len(old) : q[Len(q) - Len(old) + j] = old[j]
          BY <1>3, <2>1, BelowIs
    <3>2. n \in Nat /\ \A j \in 1..Len(old) : q[n + j] = old[j]
          BY <1>3, <3>1
    <3>3. \A j \in 1..Len(old) : d[Len(d) - Len(old) + j] = old[j]
      <4> TAKE j \in 1..Len(old)
      <4>1. PICK i \in 1..Len(q) : i = n + j
        <5>1. n + j \in 1..Len(q)
              BY <1>3, <3>2
        <5> QED BY <5>1
      <4>2. Len(d) - Len(old) + j = i + 1
            BY <1>1, <1>3, <4>1
      <4> QED BY <1>1, <3>2, <4>1, <4>2
    <3>4. Len(d) >= Len(old)
          BY <1>1, <1>3, <3>2
    <3> QED BY <1>1, <3>3, <3>4, BelowIs
  <2>2. ASSUME IsBelow(d, old) PROVE IsBelow(q, old)
    <3>1. Len(d) >= Len(old) /\ \A j \in 1..Len(old) : d[Len(d) - Len(old) + j] = old[j]
          BY <1>1, <2>2, BelowIs
    <3>2. CASE Len(d) = Len(old)
      <4>1. \A j \in 1..Len(old) : d[j] = old[j]
            BY <1>1, <1>3, <3>1, <3>2
      <4>2. d = old
            BY <1>1, <3>2, <4>1, SeqEqual DEF Paths
      <4> QED BY <4>2
    <3>3. CASE Len(d) # Len(old)
      <4>1. n \in Nat
            BY <1>1, <1>3, <3>1, <3>3
      <4>2. \A j \in 1..Len(old) : q[Len(q) - Len(old) + j] = old[j]
        <5> TAKE j \in 1..Len(old)
        <5>1. PICK i \in 1..Len(q) : i = n + j
          <6>1. n + j \in 1..Len(q)
                BY <1>3, <4>1
          <6> QED BY <6>1
        <5>2. Len(d) - Len(old) + j = i + 1
              BY <1>1, <1>3, <5>1
        <5> QED BY <1>1, <3>1, <5>1, <5>2
      <4>3. Len(q) >= Len(old)
            BY <1>3, <4>1
      <4> QED BY <1>3, <4>2, <4>3, BelowIs
    <3> QED BY <3>2, <3>3
  <2> QED BY <2>1, <2>2
<1>5. CASE ~IsBelow(d, old)
  <2>1. r = q /\ Rebased(d, old, new) = d
        BY <1>4, <1>5 DEF Rebased
  <2> QED BY <2>1 DEF Dn
<1>6. CASE IsBelow(d, old)
  <2> DEFINE e == Rebased(d, old, new)
  <2>1. /\ n \in Nat /\ Len(r) = n + Len(new)
        /\ \A i \in 1..n : r[i] = q[i]
        /\ \A j \in 1..Len(new) : r[n + j] = new[j]
        BY <1>3, <1>4, <1>6, RebasedIs
  <2>2. /\ e \in Paths /\ Len(e) = Len(d) - Len(old) + Len(new)
        /\ \A i \in 1..(Len(d) - Len(old)) : e[i] = d[i]
        /\ \A j \in 1..Len(new) : e[Len(d) - Len(old) + j] = new[j]
        BY <1>1, <1>6, RebasedIs, ZenonT(40)
  <2> HIDE DEF e, r
  <2>3. Len(d) - Len(old) = n + 1
        BY <1>1, <1>3
  <2>4. Len(e) = n + 1 + Len(new) /\ n \in Nat /\ Len(new) \in Nat
        BY <1>3, <2>1, <2>2, <2>3
  <2>5. Len(Dn(p)) = n + Len(new) + 1
        BY <1>2, <2>1
  <2>6. Len(e) = Len(Dn(p))
        BY <2>4, <2>5
  <2>7. \A i \in 1..Len(e) : e[i] = Dn(p)[i]
    <3> TAKE i \in 1..Len(e)
    <3>1. CASE i = 1
      <4>1. 1 \in 1..(Len(d) - Len(old))
            BY <2>1, <2>3
      <4>2. e[1] = d[1]
            BY <2>2, <4>1
      <4> QED BY <1>1, <1>2, <3>1, <4>2
    <3>2. CASE i \in 2..n + 1
      <4>1. PICK k \in 1..n : i = k + 1
        <5>1. i - 1 \in 1..n /\ i = (i - 1) + 1
              BY <2>1, <3>2
        <5> QED BY <5>1
      <4>2. k \in 1..Len(q) /\ k \in 1..Len(r) /\ i \in 1..n + 1
            BY <1>3, <2>1, <4>1
      <4> QED BY <1>1, <1>2, <2>1, <2>2, <2>3, <4>1, <4>2
    <3>3. CASE i > n + 1
      <4>1. PICK j \in 1..Len(new) : i = (n + 1) + j
        <5>1. i \in Int /\ i <= n + 1 + Len(new) /\ n \in Nat /\ Len(new) \in Nat
              BY <2>4
        <5> HIDE DEF n
        <5>2. i - (n + 1) \in 1..Len(new) /\ i = (n + 1) + (i - (n + 1))
              BY <5>1, <3>3
        <5> QED BY <5>2
      <4>2. PICK k \in 1..Len(r) : k = n + j
        <5>1. n + j \in 1..Len(r)
              BY <1>3, <2>1
        <5> QED BY <5>1
      <4>3. k + 1 = i
            BY <1>3, <2>1, <4>1, <4>2
      <4>4. Dn(p)[i] = r[k]
            BY <1>2, <4>3
      <4>5. e[i] = new[j]
            BY <2>2, <2>3, <4>1
      <4> QED BY <2>1, <4>2, <4>4, <4>5
    <3> QED BY <2>1, <2>2, <1>3, <2>3, <3>1, <3>2, <3>3
  <2>8. e = Dn(p)
        BY <1>2, <2>2, <2>6, <2>7, SeqEqual DEF Paths
  <2> QED BY <2>8 DEF e
<1> QED BY <1>5, <1>6

-----------------------------------------------------------------------------
\* The place n levels above.
Above(dn, n) == SubSeq(dn, n + 1, Len(dn))

LEMMA AboveAbove ==
    ASSUME NEW dn \in Paths, NEW n \in Nat, n < Len(dn)
    PROVE  /\ Above(dn, n) \in Paths /\ Above(dn, n) # <<>>
           /\ SubSeq(Above(dn, n), 2, Len(Above(dn, n))) = Above(dn, n + 1)
<1> DEFINE s == Above(dn, n)  t == Above(s, 1)  u == Above(dn, n + 1)
<1>1. Len(dn) \in Nat /\ n \in 0..Len(dn) /\ n + 1 \in 0..Len(dn)
      BY DEF Paths
<1>2. /\ s \in Paths /\ Len(s) = Len(dn) - n
      /\ \A i \in 1..(Len(dn) - n) : s[i] = dn[n + i]
      BY <1>1, DropFits DEF Above
<1>3. /\ u \in Paths /\ Len(u) = Len(dn) - (n + 1)
      /\ \A i \in 1..(Len(dn) - (n + 1)) : u[i] = dn[n + 1 + i]
      BY <1>1, DropFits DEF Above
<1> HIDE DEF s, u
<1>4. 1 \in 0..Len(s)
      BY <1>1, <1>2
<1>5. /\ t \in Paths /\ Len(t) = Len(s) - 1
      /\ \A i \in 1..(Len(s) - 1) : t[i] = s[1 + i]
      BY <1>2, <1>4, DropFits DEF Above
<1>6. t = SubSeq(s, 2, Len(s))
      BY DEF Above
<1> HIDE DEF t
<1>7. Len(t) = Len(u)
      BY <1>1, <1>2, <1>3, <1>5
<1>8. \A i \in 1..Len(t) : t[i] = u[i]
  <2> TAKE i \in 1..Len(t)
  <2>1. PICK k \in 1..(Len(dn) - n) : k = 1 + i
    <3>1. 1 + i \in 1..(Len(dn) - n)
          BY <1>1, <1>2, <1>5
    <3> QED BY <3>1
  <2>2. i \in 1..(Len(s) - 1) /\ i \in 1..(Len(dn) - (n + 1)) /\ n + k = n + 1 + i
        BY <1>1, <1>2, <1>5, <2>1
  <2> QED BY <1>2, <1>3, <1>5, <2>1, <2>2
<1>9. t = u
      BY <1>3, <1>5, <1>7, <1>8, SeqEqual DEF Paths
<1>10. s # <<>>
      BY <1>1, <1>2
<1> QED BY <1>2, <1>6, <1>9, <1>10 DEF s, u

\* A configuration that hangs together has everything above its OUs.
LEMMA AncestorsAreThere ==
    ASSUME NEW c \in Configs, HangsTogether(c), NEW dn \in Targets(c), NEW n \in 0..Len(dn)
    PROVE  Above(dn, n) \in Targets(c)
<1>1. OusOf(c) \subseteq Ou
      BY DEF OusOf, Configs
<1>2. dn \in Paths /\ Len(dn) \in Nat
  <2>1. \A o \in OusOf(c) : Dn(o) \in Paths
        BY <1>1, DnFits
  <2>2. <<>> \in Paths
        BY DEF Paths
  <2>3. dn \in Paths
        BY <2>1, <2>2 DEF Targets, Dns
  <2> QED BY <2>3 DEF Paths
<1> DEFINE bad == {m \in 0..Len(dn) : Above(dn, m) \notin Targets(c)}
<1> SUFFICES ASSUME n \in bad PROVE FALSE
    OBVIOUS
<1>3. bad \subseteq Nat /\ bad # {}
      BY <1>2
<1> HIDE DEF bad
<1>4. PICK u \in bad : \A v \in bad : u <= v
      BY <1>3, LeastElement
<1>5. u \in 0..Len(dn) /\ Above(dn, u) \notin Targets(c)
      BY DEF bad
<1>6. u # 0
  <2>1. Above(dn, 0) = dn
        BY <1>2, SubSeqFull DEF Above, Paths
  <2> QED BY <1>5, <2>1
<1>7. PICK w \in Nat : u = w + 1 /\ w < Len(dn)
  <2>1. u - 1 \in Nat /\ u = (u - 1) + 1 /\ u - 1 < Len(dn)
        BY <1>2, <1>5, <1>6
  <2> QED BY <2>1
<1>8. w \notin bad
      BY <1>3, <1>4, <1>7
<1>9. Above(dn, w) \in Targets(c)
      BY <1>2, <1>7, <1>8 DEF bad
<1>10. Above(dn, w) # <<>> /\ SubSeq(Above(dn, w), 2, Len(Above(dn, w))) = Above(dn, u)
      BY <1>2, <1>7, AboveAbove
<1>11. PICK o \in OusOf(c) : Above(dn, w) = Dn(o)
      BY <1>9, <1>10 DEF Targets, Dns
<1>12. SubSeq(Dn(o), 2, Len(Dn(o))) = o.path
      BY <1>1, DnFits
<1>13. o.path \in Targets(c)
      BY DEF HangsTogether
<1> QED BY <1>5, <1>10, <1>11, <1>12, <1>13

LEMMA PlacesFit ==
    ASSUME NEW c \in Configs
    PROVE  /\ c.ous \in Seq(Ou) /\ Len(c.ous) \in Nat /\ DOMAIN c.ous = 1..Len(c.ous)
           /\ OusOf(c) \subseteq Ou /\ Targets(c) \subseteq Paths /\ Dns(c) \subseteq Paths
           /\ <<>> \notin Dns(c) /\ <<>> \in Paths
<1>1. c.ous \in Seq(Ou)
      BY DEF Configs
<1>2. Len(c.ous) \in Nat /\ DOMAIN c.ous = 1..Len(c.ous) /\ OusOf(c) \subseteq Ou
      BY <1>1 DEF OusOf
<1>3. \A o \in OusOf(c) : Dn(o) \in Paths /\ Dn(o) # <<>>
      BY <1>2, DnFits
<1>4. <<>> \in Paths
      BY DEF Paths
<1> QED BY <1>1, <1>2, <1>3, <1>4 DEF Targets, Dns

\* What is moved ends up below its new place: where something is, so is that place.
LEMMA MovedPlace ==
    ASSUME NEW c \in Configs, HangsTogether(c), NEW new \in Paths, new # <<>>,
           NEW e \in Paths, NEW old \in Paths, IsBelow(e, old),
           NEW d \in Targets(c), d = Rebased(e, old, new)
    PROVE  \E j \in DOMAIN c.ous : Dn(c.ous[j]) = new
<1>1. d \in Paths
      BY PlacesFit
<1>2. PICK n : n = Len(e) - Len(old)
      OBVIOUS
<1> DEFINE q == Rebased(e, old, new)  m == Len(e) - Len(old)
<1>3. /\ m \in Nat /\ Len(q) = m + Len(new)
       /\ \A j \in 1..Len(new) : q[m + j] = new[j]
      BY RebasedIs
<1> HIDE DEF q, m
<1>4. d = q /\ n = m
      BY <1>2 DEF q, m
<1>5. /\ n \in Nat /\ Len(d) = n + Len(new)
      /\ \A j \in 1..Len(new) : d[n + j] = new[j]
      BY <1>3, <1>4
<1>6. Len(d) \in Nat /\ Len(new) \in Nat /\ n \in 0..Len(d)
      BY <1>1, <1>5 DEF Paths
<1>7. /\ Above(d, n) \in Paths /\ Len(Above(d, n)) = Len(d) - n
      /\ \A j \in 1..(Len(d) - n) : Above(d, n)[j] = d[n + j]
      BY <1>1, <1>6, DropFits DEF Above
<1>8. Len(d) - n = Len(new)
      BY <1>5, <1>6
<1>9. Above(d, n) = new
      BY <1>5, <1>7, <1>8, SeqEqual DEF Paths
<1>10. new \in Targets(c)
      BY <1>6, <1>9, AncestorsAreThere
<1>11. PICK o \in OusOf(c) : new = Dn(o)
      BY <1>10 DEF Targets, Dns
<1> QED BY <1>11 DEF OusOf

\* The renaming of an OU moves no two OUs to one place.
LEMMA RenamedApart ==
    ASSUME NEW c \in Configs, HangsTogether(c), NEW i \in DOMAIN c.ous,
           NEW new \in Paths, new # <<>>,
           \A j \in DOMAIN c.ous : Dn(c.ous[j]) # new,
           NEW j \in DOMAIN c.ous, NEW k \in DOMAIN c.ous, j # k
    PROVE  Rebased(Dn(c.ous[j]), Dn(c.ous[i]), new) # Rebased(Dn(c.ous[k]), Dn(c.ous[i]), new)
<1> DEFINE old == Dn(c.ous[i])
<1>1. \A m \in DOMAIN c.ous : /\ c.ous[m] \in Ou /\ c.ous[m] \in OusOf(c)
                             /\ Dn(c.ous[m]) \in Paths /\ Dn(c.ous[m]) # <<>>
  <2> TAKE m \in DOMAIN c.ous
  <2>1. c.ous[m] \in OusOf(c) /\ c.ous[m] \in Ou
        BY PlacesFit DEF OusOf
  <2> QED BY <2>1, DnFits
\* What is moved does not end up where something is that stays.
<1>2. ASSUME NEW a \in DOMAIN c.ous, NEW b \in DOMAIN c.ous,
             IsBelow(Dn(c.ous[a]), old), ~IsBelow(Dn(c.ous[b]), old)
      PROVE  Rebased(Dn(c.ous[a]), old, new) # Dn(c.ous[b])
  <2> SUFFICES ASSUME Rebased(Dn(c.ous[a]), old, new) = Dn(c.ous[b]) PROVE FALSE
      OBVIOUS
  <2>1. PICK e \in Paths, top \in Paths : e = Dn(c.ous[a]) /\ top = old
        BY <1>1
  <2>2. PICK d \in Targets(c) : d = Dn(c.ous[b])
        BY <1>1 DEF Targets, Dns
  <2>3. IsBelow(e, top) /\ d = Rebased(e, top, new)
        BY <1>2, <2>1, <2>2
  <2> QED BY <2>3, MovedPlace
<1>3. Dn(c.ous[j]) # Dn(c.ous[k])
      BY DEF HangsTogether
<1>4. CASE IsBelow(Dn(c.ous[j]), old) /\ IsBelow(Dn(c.ous[k]), old)
      BY <1>1, <1>3, <1>4, RebasedApart
<1>5. CASE ~IsBelow(Dn(c.ous[j]), old) /\ ~IsBelow(Dn(c.ous[k]), old)
      BY <1>3, <1>5 DEF Rebased
<1>6. CASE IsBelow(Dn(c.ous[j]), old) /\ ~IsBelow(Dn(c.ous[k]), old)
      BY <1>2, <1>6 DEF Rebased
<1>7. CASE ~IsBelow(Dn(c.ous[j]), old) /\ IsBelow(Dn(c.ous[k]), old)
      BY <1>2, <1>7 DEF Rebased
<1> QED BY <1>4, <1>5, <1>6, <1>7

\* An OU that is renamed, or moved to where none of its name is and not below
\* itself, takes along everything that refers to it.
LEMMA RenameKeeps ==
    ASSUME NEW c \in Configs, HangsTogether(c), NEW i \in DOMAIN c.ous,
           NEW name \in Names, NEW path \in Targets(c),
           \A j \in DOMAIN c.ous : Dn(c.ous[j]) # <<name>> \o path,
           ~RenamePlan(c, i, name, path).conflict
    PROVE  /\ RenamePlan(c, i, name, path).next \in Configs
           /\ HangsTogether(RenamePlan(c, i, name, path).next)
<1> DEFINE old == Dn(c.ous[i])  new == <<name>> \o path
           R(dn) == Rebased(dn, old, new)
           next == RenamePlan(c, i, name, path).next
           moved == [name |-> name, path |-> path]
           ous == [j \in DOMAIN c.ous |-> IF j = i THEN moved ELSE [c.ous[j] EXCEPT !.path = R(c.ous[j].path)]]
<1>1. \A m \in DOMAIN c.ous : /\ c.ous[m] \in Ou /\ c.ous[m] \in OusOf(c)
                             /\ Dn(c.ous[m]) \in Paths /\ Dn(c.ous[m]) # <<>>
  <2> TAKE m \in DOMAIN c.ous
  <2>1. c.ous[m] \in OusOf(c) /\ c.ous[m] \in Ou
        BY PlacesFit DEF OusOf
  <2> QED BY <2>1, DnFits
<1>2. path \in Paths /\ moved \in Ou /\ Dn(moved) = new /\ new \in Paths /\ new # <<>>
  <2>1. path \in Paths
        BY PlacesFit
  <2>2. moved \in Ou /\ Dn(moved) = new
        BY <2>1 DEF Ou, Paths, Dn
  <2> QED BY <2>1, <2>2, DnFits
<1>3. old \in Paths /\ old # <<>>
      BY <1>1
<1>4. ~IsBelow(path, old)
      BY DEF RenamePlan
<1>5. next = [c EXCEPT !.ous = ous,
                       !.groups = {[g EXCEPT !.ou = R(g.ou)] : g \in c.groups},
                       !.users = {[u EXCEPT !.ou = R(u.ou)] : u \in c.users},
                       !.acls = {[a EXCEPT !.target = R(a.target)] : a \in c.acls},
                       !.links = {[l EXCEPT !.at = R(l.at)] : l \in c.links}]
      BY DEF RenamePlan, Configs
<1> HIDE DEF old, new, moved, next
<1>6. \A dn \in Paths : R(dn) \in Paths
      BY <1>2, <1>3, RebasedIs
<1>7. \A j \in DOMAIN c.ous : ous[j] \in Ou /\ Dn(ous[j]) = R(Dn(c.ous[j]))
  <2> TAKE j \in DOMAIN c.ous
  <2>1. CASE j = i
    <3>1. R(old) = new
      <4>1. IsBelow(old, old)
            BY <1>3, BelowIs DEF Paths
      <4>2. Len(old) \in Nat /\ Len(old) - Len(old) = 0 /\ Len(new) \in Nat
            BY <1>2, <1>3 DEF Paths
      <4>3. R(old) \in Paths /\ Len(R(old)) = Len(old) - Len(old) + Len(new)
            /\ \A k \in 1..Len(new) : R(old)[Len(old) - Len(old) + k] = new[k]
            BY <1>2, <1>3, <4>1, RebasedIs
      <4>4. Len(R(old)) = Len(new) /\ \A k \in 1..Len(new) : R(old)[k] = new[k]
            BY <4>2, <4>3
      <4> QED BY <1>2, <4>3, <4>4, SeqEqual DEF Paths
    <3>2. ous[j] = moved
          BY <2>1
    <3> QED BY <1>2, <2>1, <3>1, <3>2 DEF old
  <2>2. CASE j # i
    <3>1. PICK o \in Ou : o = c.ous[j] /\ Dn(o) # old
          BY <1>1, <2>2 DEF HangsTogether, old
    <3>2. o.path \in Paths /\ o.name \in Names
          BY DEF Ou, Paths
    <3>3. PICK p : p = [o EXCEPT !.path = R(o.path)]
          OBVIOUS
    <3>4. p \in Ou /\ p.name = o.name /\ p.path = R(o.path)
          BY <1>6, <3>2, <3>3 DEF Ou, Paths
    <3>5. Dn(p) = R(Dn(o))
          BY <1>2, <1>3, <3>1, <3>4, RebasedDn
    <3>6. ous[j] = p
          BY <2>2, <3>1, <3>3
    <3> QED BY <3>1, <3>4, <3>5, <3>6
  <2> QED BY <2>1, <2>2
<1>8. ous \in Seq(Ou) /\ DOMAIN ous = DOMAIN c.ous
  <2>1. Len(c.ous) \in Nat /\ DOMAIN c.ous = 1..Len(c.ous) /\ DOMAIN ous = DOMAIN c.ous
        BY PlacesFit
  <2>2. ous \in [1..Len(c.ous) -> Ou]
        BY <1>7, <2>1
  <2> QED BY <2>1, <2>2
<1> DEFINE groups == {[g EXCEPT !.ou = R(g.ou)] : g \in c.groups}
           users == {[u EXCEPT !.ou = R(u.ou)] : u \in c.users}
           acls == {[a EXCEPT !.target = R(a.target)] : a \in c.acls}
           links == {[l EXCEPT !.at = R(l.at)] : l \in c.links}
<1>9. /\ next.ous = ous /\ next.groups = groups /\ next.users = users /\ next.acls = acls
      /\ next.links = links /\ next.silos = c.silos
      BY <1>5 DEF Configs
<1> HIDE DEF ous
<1>10. \A d \in Targets(c) : R(d) \in Targets(next)
  <2> TAKE d \in Targets(c)
  <2>1. CASE d = <<>>
    <3>1. ~IsBelow(<<>>, old)
      <4>1. Len(<<>>) = 0
            OBVIOUS
      <4>2. Len(old) \in Nat /\ Len(old) # 0
            BY <1>3 DEF Paths
      <4> QED BY <4>1, <4>2 DEF IsBelow
    <3> QED BY <2>1, <3>1 DEF Rebased, Targets
  <2>2. CASE d # <<>>
    <3>1. PICK j \in DOMAIN c.ous : d = Dn(c.ous[j])
          BY <2>2 DEF Targets, Dns, OusOf
    <3>2. Dn(ous[j]) = R(d)
          BY <1>7, <3>1
    <3> QED BY <1>8, <1>9, <3>2 DEF Targets, Dns, OusOf
  <2> QED BY <2>1, <2>2
<1>11. /\ \A g \in c.groups : /\ [g EXCEPT !.ou = R(g.ou)] \in [sam : SamSet, ou : Seq(Names), says : 0..NoTier]
                              /\ [g EXCEPT !.ou = R(g.ou)].sam = g.sam
                              /\ [g EXCEPT !.ou = R(g.ou)].ou \in Targets(next)
       /\ \A u \in c.users : /\ [u EXCEPT !.ou = R(u.ou)] \in [sam : SamSet, ou : Seq(Names), memberOf : SUBSET SamSet]
                             /\ [u EXCEPT !.ou = R(u.ou)].sam = u.sam
                             /\ [u EXCEPT !.ou = R(u.ou)].ou \in Targets(next)
       /\ \A a \in c.acls : /\ [a EXCEPT !.target = R(a.target)] \in [target : Seq(Names), who : SamSet, allow : BOOLEAN]
                            /\ [a EXCEPT !.target = R(a.target)].target \in Targets(next)
       /\ \A l \in c.links : /\ [l EXCEPT !.at = R(l.at)] \in [at : Seq(Names), gpo : {k.gpo : k \in Start.links}]
                             /\ [l EXCEPT !.at = R(l.at)].at \in Targets(next)
  <2>1. \A g \in c.groups : /\ g \in [sam : SamSet, ou : Seq(Names), says : 0..NoTier]
                            /\ R(g.ou) \in Seq(Names) /\ R(g.ou) \in Targets(next)
        BY <1>6, <1>10 DEF Configs, Paths, HangsTogether
  <2>2. \A u \in c.users : /\ u \in [sam : SamSet, ou : Seq(Names), memberOf : SUBSET SamSet]
                           /\ R(u.ou) \in Seq(Names) /\ R(u.ou) \in Targets(next)
        BY <1>6, <1>10 DEF Configs, Paths, HangsTogether
  <2>3. \A a \in c.acls : /\ a \in [target : Seq(Names), who : SamSet, allow : BOOLEAN]
                          /\ R(a.target) \in Seq(Names) /\ R(a.target) \in Targets(next)
        BY <1>6, <1>10 DEF Configs, Paths, HangsTogether
  <2>4. \A l \in c.links : /\ l \in [at : Seq(Names), gpo : {k.gpo : k \in Start.links}]
                           /\ R(l.at) \in Seq(Names) /\ R(l.at) \in Targets(next)
        BY <1>6, <1>10 DEF Configs, Paths, HangsTogether
  <2> HIDE DEF R
  <2> QED BY <2>1, <2>2, <2>3, <2>4
<1> HIDE DEF R
<1>12. next \in Configs
  <2>1. ous \in Seq(Ou) /\ c.silos \in SUBSET Seq(Names)
        BY <1>8 DEF Configs
  <2>2. groups \in SUBSET [sam : SamSet, ou : Seq(Names), says : 0..NoTier]
        BY <1>11
  <2>3. users \in SUBSET [sam : SamSet, ou : Seq(Names), memberOf : SUBSET SamSet]
        BY <1>11
  <2>4. acls \in SUBSET [target : Seq(Names), who : SamSet, allow : BOOLEAN]
        BY <1>11
  <2>5. links \in SUBSET [at : Seq(Names), gpo : {l.gpo : l \in Start.links}]
        BY <1>11
  <2> HIDE DEF groups, users, acls, links
  <2> QED BY <1>5, <2>1, <2>2, <2>3, <2>4, <2>5 DEF Configs, groups, users, acls, links
<1>13. \A j, k \in DOMAIN next.ous : j # k => Dn(next.ous[j]) # Dn(next.ous[k])
  <2>1. ASSUME NEW j \in DOMAIN c.ous, NEW k \in DOMAIN c.ous, j # k
        PROVE  Dn(ous[j]) # Dn(ous[k])
    <3>1. \A m \in DOMAIN c.ous : Dn(c.ous[m]) # new
          BY DEF new
    <3>2. R(Dn(c.ous[j])) # R(Dn(c.ous[k]))
          BY <1>2, <2>1, <3>1, RenamedApart DEF R, old
    <3> QED BY <1>7, <3>2
  <2> QED BY <1>8, <1>9, <2>1
<1>14. \A o \in OusOf(next) : o.path \in Targets(next)
  <2>1. ASSUME NEW j \in DOMAIN c.ous PROVE ous[j].path \in Targets(next)
    <3>1. CASE j = i
      <4>1. ous[j].path = path
            BY <3>1 DEF ous, moved
      <4>2. R(path) = path
            BY <1>4 DEF R, Rebased
      <4> QED BY <1>10, <4>1, <4>2
    <3>2. CASE j # i
      <4>1. ous[j] = [c.ous[j] EXCEPT !.path = R(c.ous[j].path)]
            BY <3>2 DEF ous
      <4>2. ous[j].path = R(c.ous[j].path)
            BY <1>1, <4>1 DEF Ou
      <4>3. c.ous[j].path \in Targets(c)
            BY <1>1 DEF HangsTogether
      <4> QED BY <1>10, <4>2, <4>3
    <3> QED BY <3>1, <3>2
  <2> QED BY <1>8, <1>9, <2>1 DEF OusOf
<1>15. /\ \A g \in groups \cup users : g.ou \in Targets(next)
       /\ \A a \in acls : a.target \in Targets(next)
       /\ \A l \in links : l.at \in Targets(next)
      BY <1>11
<1>16. /\ \A g, h \in groups : g.sam = h.sam => g = h
       /\ \A u, v \in users : u.sam = v.sam => u = v
  <2>1. /\ \A g, h \in c.groups : g.sam = h.sam => g = h
        /\ \A u, v \in c.users : u.sam = v.sam => u = v
        BY DEF HangsTogether
  <2>2. \A g, h \in groups : g.sam = h.sam => g = h
    <3> TAKE g, h \in groups
    <3>1. PICK a \in c.groups : g = [a EXCEPT !.ou = R(a.ou)]
          OBVIOUS
    <3>2. PICK b \in c.groups : h = [b EXCEPT !.ou = R(b.ou)]
          OBVIOUS
    <3>3. g.sam = a.sam /\ h.sam = b.sam
          BY <1>11, <3>1, <3>2
    <3> QED BY <2>1, <3>1, <3>2, <3>3
  <2>3. \A u, v \in users : u.sam = v.sam => u = v
    <3> TAKE u, v \in users
    <3>1. PICK a \in c.users : u = [a EXCEPT !.ou = R(a.ou)]
          OBVIOUS
    <3>2. PICK b \in c.users : v = [b EXCEPT !.ou = R(b.ou)]
          OBVIOUS
    <3>3. u.sam = a.sam /\ v.sam = b.sam
          BY <1>11, <3>1, <3>2
    <3> QED BY <2>1, <3>1, <3>2, <3>3
  <2> QED BY <2>2, <2>3
<1> QED BY <1>9, <1>12, <1>13, <1>14, <1>15, <1>16 DEF HangsTogether, next

-----------------------------------------------------------------------------
\* Others remove an OU that nothing refers to.
LEMMA RemoveKeeps ==
    ASSUME draft \in Configs, HangsTogether(draft), NEW i \in DOMAIN draft.ous, OthersRemove(i)
    PROVE  /\ draft' \in Configs /\ HangsTogether(draft') /\ OusOf(draft') \subseteq OusOf(draft)
           /\ Targets(draft) \ {Dn(draft.ous[i])} \subseteq Targets(draft')
<1> DEFINE s == draft.ous  gone == Dn(draft.ous[i])
           t == RemoveAt(s, i)
<1>1. s \in Seq(Ou) /\ Len(s) \in Nat /\ DOMAIN s = 1..Len(s) /\ i \in 1..Len(s)
      BY PlacesFit
<1>2. draft' = [draft EXCEPT !.ous = t] /\ ~Used(gone)
      BY DEF OthersRemove, RemoveAt
<1>3. PICK r : r = t
      OBVIOUS
<1>4. /\ r \in Seq(Ou) /\ Len(r) = Len(s) - 1
      /\ \A j \in 1..Len(s) - 1 : r[j] = IF j < i THEN s[j] ELSE s[j + 1]
      BY <1>1, <1>3, RemoveAtOne
<1>5. draft' = [draft EXCEPT !.ous = r]
      BY <1>2, <1>3
<1> HIDE DEF t
<1>6. draft' \in Configs
      BY <1>4, <1>5 DEF Configs
<1>7. /\ draft'.ous = r /\ draft'.groups = draft.groups /\ draft'.users = draft.users
      /\ draft'.acls = draft.acls /\ draft'.links = draft.links
      BY <1>5 DEF Configs
<1>8. DOMAIN r = 1..Len(s) - 1
      BY <1>4
<1> DEFINE old(j) == IF j < i THEN j ELSE j + 1
<1>9. \A j \in DOMAIN r : old(j) \in DOMAIN s /\ old(j) # i /\ r[j] = s[old(j)]
  <2> TAKE j \in DOMAIN r
  <2>1. j \in 1..Len(s) - 1
        BY <1>8
  <2> QED BY <1>1, <1>4, <2>1
<1>10. \A j, k \in DOMAIN r : j # k => old(j) # old(k)
      BY <1>1, <1>8
<1>11. \A k \in DOMAIN s : k # i => \E j \in DOMAIN r : r[j] = s[k]
  <2> TAKE k \in DOMAIN s
  <2> HAVE k # i
  <2>1. CASE k < i
    <3>1. k \in 1..Len(s) - 1
          BY <1>1, <2>1
    <3> QED BY <1>4, <1>8, <2>1, <3>1
  <2>2. CASE k > i
    <3>1. PICK j \in 1..Len(s) - 1 : k = j + 1 /\ ~(j < i)
      <4>1. k - 1 \in 1..Len(s) - 1 /\ k = (k - 1) + 1 /\ ~(k - 1 < i)
            BY <1>1, <2>2
      <4> QED BY <4>1
    <3> QED BY <1>4, <1>8, <3>1
  <2> QED BY <1>1, <2>1, <2>2
<1> HIDE DEF s, old
<1>12. OusOf(draft') \subseteq OusOf(draft)
      BY <1>7, <1>9 DEF OusOf, s
<1>13. Targets(draft) \ {gone} \subseteq Targets(draft')
  <2>1. ASSUME NEW d \in Targets(draft), d # gone PROVE d \in Targets(draft')
    <3>1. CASE d = <<>>
          BY <3>1 DEF Targets
    <3>2. CASE d # <<>>
      <4>1. PICK k \in DOMAIN s : d = Dn(s[k])
            BY <3>2 DEF Targets, Dns, OusOf, s
      <4>2. k # i
            BY <2>1, <4>1 DEF s
      <4>3. PICK j \in DOMAIN r : r[j] = s[k]
            BY <1>11, <4>2
      <4> QED BY <1>7, <4>1, <4>3 DEF Targets, Dns, OusOf
    <3> QED BY <3>1, <3>2
  <2> QED BY <2>1
<1>14. gone \in Paths
  <2>1. draft.ous[i] \in Ou
        BY <1>1 DEF s
  <2> QED BY <2>1, DnFits
<1>15. IsBelow(gone, gone)
      BY <1>14, BelowIs DEF Paths
<1>16. /\ \A o \in OusOf(draft) : o.path # gone
       /\ \A g \in draft.groups \cup draft.users : g.ou # gone
       /\ \A a \in draft.acls : a.target # gone
       /\ \A l \in draft.links : l.at # gone
      BY <1>2, <1>15 DEF Used
<1>17. \A j, k \in DOMAIN r : j # k => Dn(r[j]) # Dn(r[k])
  <2> TAKE j, k \in DOMAIN r
  <2> HAVE j # k
  <2>1. Dn(s[old(j)]) # Dn(s[old(k)])
        BY <1>9, <1>10 DEF HangsTogether, s
  <2> QED BY <1>9, <2>1
<1>18. HangsTogether(draft')
  <2>1. \A o \in OusOf(draft') : o.path \in Targets(draft')
        BY <1>12, <1>13, <1>16 DEF HangsTogether
  <2>2. /\ \A g \in draft.groups \cup draft.users : g.ou \in Targets(draft')
        /\ \A a \in draft.acls : a.target \in Targets(draft')
        /\ \A l \in draft.links : l.at \in Targets(draft')
        BY <1>13, <1>16 DEF HangsTogether
  <2>3. /\ \A g, h \in draft.groups : g.sam = h.sam => g = h
        /\ \A u, v \in draft.users : u.sam = v.sam => u = v
        BY DEF HangsTogether
  <2> QED BY <1>7, <1>17, <2>1, <2>2, <2>3 DEF HangsTogether
<1> QED BY <1>6, <1>12, <1>13, <1>18

-----------------------------------------------------------------------------
\* What the steps of the assistants may hold, over one draft.
ServerInputs(c) ==
    [tier : 0..2, name : Names \cup {""}, parent : Dns(c) \cup {AutoDn}, staging : BOOLEAN,
     sam : SamSet \cup {"", AutoSam}, says : 0..AutoTier, ou : Dns(c) \cup {AutoDn}, gpos : BOOLEAN]
AccountInputs(c) ==
    [tier : 0..2, named : BOOLEAN, sam : SamSet \cup {"", AutoSam}, ou : Dns(c) \cup {AutoDn},
     memberOf : SUBSET SamSet]
DelegationInputs(c) ==
    [who : SamSet \cup {""}, rights : BOOLEAN, ou : Dns(c) \cup {<<>>, NoDn}, allow : BOOLEAN]

\* The same with the suggestions filled in.
KnownServer(c) ==
    [tier : 0..2, name : Names \cup {""}, parent : Dns(c) \cup {NoDn}, staging : BOOLEAN,
     sam : SamSet \cup {""}, says : 0..NoTier, ou : Dns(c) \cup {NoDn}, gpos : BOOLEAN]
KnownAccount(c) ==
    [tier : 0..2, named : BOOLEAN, sam : SamSet \cup {""}, ou : Dns(c) \cup {NoDn},
     memberOf : SUBSET SamSet]

LEMMA FirstFits ==
    ASSUME NEW c \in Configs, NEW is \in SUBSET DOMAIN c.ous
    PROVE  FirstOu(c, is) \in Dns(c) \cup {NoDn}
<1>1. CASE is = {}
      BY <1>1 DEF FirstOu
<1>2. CASE is # {}
  <2>1. is \subseteq Nat
        BY PlacesFit
  <2>2. \E i \in is : \A j \in is : i <= j
        BY <1>2, <2>1, LeastElement
  <2>3. PICK i \in is : FirstOu(c, is) = Dn(c.ous[i])
        BY <1>2, <2>2 DEF FirstOu
  <2> QED BY <2>3 DEF Dns, OusOf
<1> QED BY <1>1, <1>2

LEMMA WizardDefaultsFit ==
    ASSUME NEW c \in Configs, NEW tier
    PROVE  /\ DefaultServerParent(c, tier) \in Dns(c) \cup {NoDn}
           /\ DefaultGroupsOu(c, tier) \in Dns(c) \cup {NoDn}
           /\ DefaultAccountsOu(c, tier) \in Dns(c) \cup {NoDn}
<1>1. TierOus(c, tier) \in SUBSET DOMAIN c.ous
      BY DEF TierOus
<1>2. \A use : {i \in TierOus(c, tier) : use \in Serves[c.ous[i].name]} \in SUBSET DOMAIN c.ous
      BY <1>1
<1>3. \A use : FirstServing(c, tier, use) \in Dns(c) \cup {NoDn}
      BY <1>2, FirstFits DEF FirstServing
<1>4. FirstOu(c, TierOus(c, tier)) \in Dns(c) \cup {NoDn}
      BY <1>1, FirstFits
<1> QED BY <1>3, <1>4 DEF DefaultServerParent, DefaultGroupsOu, DefaultAccountsOu

LEMMA UniqueFits == ASSUME NEW taken PROVE UniqueName(taken) \in SamSet
<1> DEFINE free == {i \in DOMAIN Sams : Sams[i] \notin taken}
<1>1. Sams \in Seq(SamSet) /\ Sams # <<>>
      BY AssistantsAssumption
<1>2. DOMAIN Sams = 1..Len(Sams) /\ Len(Sams) \in Nat /\ 1 \in DOMAIN Sams
      BY <1>1
<1>3. CASE free = {}
      BY <1>2, <1>3 DEF UniqueName, SamSet
<1>4. CASE free # {}
  <2>1. free \subseteq Nat
        BY <1>2
  <2>2. \E i \in free : \A j \in free : i <= j
        BY <1>4, <2>1, LeastElement
  <2>3. PICK i \in free : UniqueName(taken) = Sams[i]
        BY <1>4, <2>2 DEF UniqueName
  <2> QED BY <2>3 DEF SamSet
<1> QED BY <1>3, <1>4

LEMMA ServerInputFits ==
    ASSUME NEW c \in Configs, NEW in \in ServerInputs(c)
    PROVE  ServerInput(c, in) \in KnownServer(c)
<1> DEFINE parent == IF in.parent = AutoDn THEN DefaultServerParent(c, in.tier) ELSE in.parent
           sam == IF in.sam = AutoSam THEN UniqueName(GroupSams(c)) ELSE in.sam
           says == IF in.says = AutoTier THEN in.tier ELSE in.says
           ou == IF in.ou = AutoDn THEN DefaultGroupsOu(c, in.tier) ELSE in.ou
<1>1. /\ parent \in Dns(c) \cup {NoDn} /\ sam \in SamSet \cup {""} /\ ou \in Dns(c) \cup {NoDn}
      BY WizardDefaultsFit, UniqueFits DEF ServerInputs
<1>2. says \in 0..NoTier
  <2>1. in.tier \in 0..2 /\ in.says \in 0..5
        BY DEF ServerInputs, AutoTier
  <2> QED BY <2>1 DEF AutoTier, NoTier
<1>3. ServerInput(c, in) = [in EXCEPT !.parent = parent, !.sam = sam, !.says = says, !.ou = ou]
      BY DEF ServerInput, ServerInputs
<1> HIDE DEF parent, sam, says, ou
<1> QED BY <1>1, <1>2, <1>3 DEF ServerInputs, KnownServer

LEMMA AccountInputFits ==
    ASSUME NEW c \in Configs, NEW in \in AccountInputs(c)
    PROVE  AccountInput(c, in) \in KnownAccount(c)
<1> DEFINE sam == IF in.sam = AutoSam THEN UniqueName(UserSams(c)) ELSE in.sam
           ou == IF in.ou = AutoDn THEN DefaultAccountsOu(c, in.tier) ELSE in.ou
<1>1. sam \in SamSet \cup {""} /\ ou \in Dns(c) \cup {NoDn}
      BY WizardDefaultsFit, UniqueFits DEF AccountInputs
<1>2. AccountInput(c, in) = [in EXCEPT !.sam = sam, !.ou = ou]
      BY DEF AccountInput, AccountInputs
<1> HIDE DEF sam, ou
<1> QED BY <1>1, <1>2 DEF AccountInputs, KnownAccount

-----------------------------------------------------------------------------
\* A configuration that hangs together still does with one more OU, group, account,
\* delegation or link.
Good == {c \in Configs : HangsTogether(c)}

LEMMA SameOus ==
    ASSUME NEW c, NEW d, d.ous = c.ous
    PROVE  OusOf(d) = OusOf(c) /\ Dns(d) = Dns(c) /\ Targets(d) = Targets(c)
<1>1. OusOf(d) = OusOf(c)
      BY DEF OusOf
<1>2. Dns(d) = Dns(c)
      BY <1>1 DEF Dns
<1> QED BY <1>1, <1>2 DEF Targets

LEMMA OneMoreOu ==
    ASSUME NEW c \in Good, NEW o \in Ou, o.path \in Targets(c), Dn(o) \notin Dns(c),
           NEW d, d = [c EXCEPT !.ous = c.ous \o <<o>>]
    PROVE  d \in Good /\ Dns(d) = Dns(c) \cup {Dn(o)}
<1> DEFINE s == c.ous  t == <<o>>  r == s \o t
<1>1. s \in Seq(Ou) /\ Len(s) \in Nat /\ DOMAIN s = 1..Len(s) /\ c \in Configs
      BY PlacesFit DEF Good
<1>2. t \in Seq(Ou) /\ Len(t) = 1 /\ t[1] = o
      OBVIOUS
<1> HIDE DEF s, t
<1>3. /\ r \in Seq(Ou) /\ Len(r) = Len(s) + Len(t)
      /\ \A i \in 1..Len(s) + Len(t) : r[i] = IF i <= Len(s) THEN s[i] ELSE t[i - Len(s)]
      BY <1>1, <1>2, ConcatProperties
<1>4. d = [c EXCEPT !.ous = r]
      BY DEF s, t
<1> HIDE DEF r
<1>5. /\ d \in Configs /\ d.ous = r /\ d.groups = c.groups /\ d.users = c.users
      /\ d.acls = c.acls /\ d.links = c.links
      BY <1>1, <1>3, <1>4 DEF Configs
<1>6. DOMAIN r = 1..Len(s) + 1 /\ (\A i \in 1..Len(s) : r[i] = s[i]) /\ r[Len(s) + 1] = o
      BY <1>1, <1>2, <1>3
<1>7. OusOf(d) = OusOf(c) \cup {o}
  <2>1. /\ \A i \in DOMAIN r : r[i] \in {s[j] : j \in 1..Len(s)} \cup {o}
        /\ \A i \in 1..Len(s) : s[i] \in {r[j] : j \in DOMAIN r}
        /\ o \in {r[j] : j \in DOMAIN r}
    <3>1. \A i \in DOMAIN r : i \in 1..Len(s) \/ i = Len(s) + 1
          BY <1>1, <1>6
    <3>2. \A i \in 1..Len(s) : i \in DOMAIN r
          BY <1>1, <1>6
    <3>3. Len(s) + 1 \in DOMAIN r
          BY <1>1, <1>6
    <3> QED BY <1>6, <3>1, <3>2, <3>3
  <2>2. OusOf(c) = {s[j] : j \in 1..Len(s)}
        BY <1>1 DEF OusOf, s
  <2>3. OusOf(d) = {r[j] : j \in DOMAIN r}
        BY <1>5 DEF OusOf
  <2> QED BY <2>1, <2>2, <2>3
<1>8. Dns(d) = Dns(c) \cup {Dn(o)}
      BY <1>7 DEF Dns
<1>9. \A j, k \in DOMAIN r : j # k => Dn(r[j]) # Dn(r[k])
  <2>1. \A j \in 1..Len(s) : Dn(r[j]) \in Dns(c)
        BY <1>1, <1>6 DEF Dns, OusOf, s
  <2>2. \A j, k \in 1..Len(s) : j # k => Dn(r[j]) # Dn(r[k])
        BY <1>1, <1>6 DEF Good, HangsTogether, s
  <2>3. \A j \in DOMAIN r : j \in 1..Len(s) \/ (j = Len(s) + 1 /\ Dn(r[j]) = Dn(o))
        BY <1>1, <1>6
  <2> QED BY <2>1, <2>2, <2>3
<1>10. Targets(c) \subseteq Targets(d)
      BY <1>8 DEF Targets
<1>11. HangsTogether(d)
  <2>1. HangsTogether(c) /\ OusOf(d) = OusOf(c) \cup {o}
        BY <1>7 DEF Good
  <2>2. \A p \in OusOf(d) : p.path \in Targets(d)
        BY <1>10, <2>1 DEF HangsTogether
  <2>3. /\ \A g, h \in d.groups : g.sam = h.sam => g = h
        /\ \A u, v \in d.users : u.sam = v.sam => u = v
        BY <1>5, <2>1 DEF HangsTogether
  <2>4. /\ \A g \in d.groups \cup d.users : g.ou \in Targets(d)
        /\ \A a \in d.acls : a.target \in Targets(d)
        /\ \A l \in d.links : l.at \in Targets(d)
        BY <1>5, <1>10, <2>1 DEF HangsTogether
  <2>5. \A j, k \in DOMAIN d.ous : j # k => Dn(d.ous[j]) # Dn(d.ous[k])
        BY <1>5, <1>9
  <2> QED BY <2>2, <2>3, <2>4, <2>5 DEF HangsTogether
<1> QED BY <1>5, <1>8, <1>11 DEF Good

LEMMA OneMoreGroup ==
    ASSUME NEW c \in Good, NEW g \in [sam : SamSet, ou : Seq(Names), says : 0..NoTier],
           g.sam \notin GroupSams(c), g.ou \in Targets(c),
           NEW d, d = [c EXCEPT !.groups = c.groups \cup {g}]
    PROVE  d \in Good /\ Dns(d) = Dns(c)
<1>1. /\ d \in Configs /\ d.groups = c.groups \cup {g} /\ d.ous = c.ous /\ d.users = c.users
      /\ d.acls = c.acls /\ d.links = c.links
      BY DEF Good, Configs
<1>2. \A h \in c.groups : h.sam # g.sam
      BY DEF GroupSams
<1>3. HangsTogether(c) /\ OusOf(d) = OusOf(c) /\ Dns(d) = Dns(c) /\ Targets(d) = Targets(c)
      BY <1>1, SameOus DEF Good
<1>4. (\A i, j \in DOMAIN d.ous : i # j => Dn(d.ous[i]) # Dn(d.ous[j]))
      /\ (\A o \in OusOf(d) : o.path \in Targets(d))
      BY <1>1, <1>3 DEF HangsTogether
<1>5. /\ \A p, h \in d.groups : p.sam = h.sam => p = h
      /\ \A p, v \in d.users : p.sam = v.sam => p = v
      BY <1>1, <1>2, <1>3 DEF HangsTogether
<1>6. /\ \A p \in d.groups \cup d.users : p.ou \in Targets(d)
      /\ \A p \in d.acls : p.target \in Targets(d)
      /\ \A l \in d.links : l.at \in Targets(d)
      BY <1>1, <1>3 DEF HangsTogether
<1> QED BY <1>1, <1>3, <1>4, <1>5, <1>6 DEF Good, HangsTogether

LEMMA OneMoreUser ==
    ASSUME NEW c \in Good, NEW u \in [sam : SamSet, ou : Seq(Names), memberOf : SUBSET SamSet],
           u.sam \notin UserSams(c), u.ou \in Targets(c),
           NEW d, d = [c EXCEPT !.users = c.users \cup {u}]
    PROVE  d \in Good
<1>1. /\ d \in Configs /\ d.users = c.users \cup {u} /\ d.ous = c.ous /\ d.groups = c.groups
      /\ d.acls = c.acls /\ d.links = c.links
      BY DEF Good, Configs
<1>2. \A v \in c.users : v.sam # u.sam
      BY DEF UserSams
<1>3. HangsTogether(c) /\ OusOf(d) = OusOf(c) /\ Dns(d) = Dns(c) /\ Targets(d) = Targets(c)
      BY <1>1, SameOus DEF Good
<1>4. (\A i, j \in DOMAIN d.ous : i # j => Dn(d.ous[i]) # Dn(d.ous[j]))
      /\ (\A o \in OusOf(d) : o.path \in Targets(d))
      BY <1>1, <1>3 DEF HangsTogether
<1>5. /\ \A p, h \in d.groups : p.sam = h.sam => p = h
      /\ \A p, v \in d.users : p.sam = v.sam => p = v
      BY <1>1, <1>2, <1>3 DEF HangsTogether
<1>6. /\ \A p \in d.groups \cup d.users : p.ou \in Targets(d)
      /\ \A p \in d.acls : p.target \in Targets(d)
      /\ \A l \in d.links : l.at \in Targets(d)
      BY <1>1, <1>3 DEF HangsTogether
<1> QED BY <1>1, <1>3, <1>4, <1>5, <1>6 DEF Good, HangsTogether

LEMMA OneMoreAcl ==
    ASSUME NEW c \in Good, NEW a \in [target : Seq(Names), who : SamSet, allow : BOOLEAN],
           a.target \in Targets(c), NEW d, d = [c EXCEPT !.acls = c.acls \cup {a}]
    PROVE  d \in Good /\ Dns(d) = Dns(c)
<1>1. /\ d \in Configs /\ d.acls = c.acls \cup {a} /\ d.ous = c.ous /\ d.groups = c.groups
      /\ d.users = c.users /\ d.links = c.links
      BY DEF Good, Configs
<1>2. HangsTogether(c) /\ OusOf(d) = OusOf(c) /\ Dns(d) = Dns(c) /\ Targets(d) = Targets(c)
      BY <1>1, SameOus DEF Good
<1>3. (\A i, j \in DOMAIN d.ous : i # j => Dn(d.ous[i]) # Dn(d.ous[j]))
      /\ (\A o \in OusOf(d) : o.path \in Targets(d))
      BY <1>1, <1>2 DEF HangsTogether
<1>4. /\ \A p, h \in d.groups : p.sam = h.sam => p = h
      /\ \A p, v \in d.users : p.sam = v.sam => p = v
      BY <1>1, <1>2 DEF HangsTogether
<1>5. /\ \A p \in d.groups \cup d.users : p.ou \in Targets(d)
      /\ \A p \in d.acls : p.target \in Targets(d)
      /\ \A l \in d.links : l.at \in Targets(d)
      BY <1>1, <1>2 DEF HangsTogether
<1> QED BY <1>1, <1>2, <1>3, <1>4, <1>5 DEF Good, HangsTogether

LEMMA MoreLinks ==
    ASSUME NEW c \in Good, NEW L \in SUBSET [at : Seq(Names), gpo : {l.gpo : l \in Start.links}],
           \A l \in L : l.at \in Targets(c), NEW d, d = [c EXCEPT !.links = c.links \cup L]
    PROVE  d \in Good
<1>1. /\ d \in Configs /\ d.links = c.links \cup L /\ d.ous = c.ous /\ d.groups = c.groups
      /\ d.users = c.users /\ d.acls = c.acls
      BY DEF Good, Configs
<1>2. HangsTogether(c) /\ OusOf(d) = OusOf(c) /\ Dns(d) = Dns(c) /\ Targets(d) = Targets(c)
      BY <1>1, SameOus DEF Good
<1>3. (\A i, j \in DOMAIN d.ous : i # j => Dn(d.ous[i]) # Dn(d.ous[j]))
      /\ (\A o \in OusOf(d) : o.path \in Targets(d))
      BY <1>1, <1>2 DEF HangsTogether
<1>4. /\ \A p, h \in d.groups : p.sam = h.sam => p = h
      /\ \A p, v \in d.users : p.sam = v.sam => p = v
      BY <1>1, <1>2 DEF HangsTogether
<1>5. /\ \A p \in d.groups \cup d.users : p.ou \in Targets(d)
      /\ \A p \in d.acls : p.target \in Targets(d)
      /\ \A l \in d.links : l.at \in Targets(d)
      BY <1>1, <1>2 DEF HangsTogether
<1> QED BY <1>1, <1>2, <1>3, <1>4, <1>5 DEF Good, HangsTogether

-----------------------------------------------------------------------------
\* The plan of a server area adds an OU, one in it, a group, a delegation and links.
LEMMA ServerAreaFits ==
    ASSUME NEW c \in Good, NEW in \in KnownServer(c), ~ServerAreaPlan(c, in).blocked
    PROVE  LET next == ServerAreaPlan(c, in).next IN
           /\ next \in Good /\ next.users = c.users
           /\ \A a \in next.acls \ c.acls : ~AclViolates(next, a)
<1> DEFINE area == [name |-> in.name, path |-> AreaPath(in)]
           dn == AreaDn(in)
           inner == [name |-> "staging", path |-> dn]
           rest == IF in.staging THEN <<inner>> ELSE <<>>
           group == [sam |-> in.sam, ou |-> in.ou, says |-> in.says]
           acl == [target |-> dn, who |-> in.sam, allow |-> TRUE]
           links == IF in.gpos THEN GpoTarget(c, dn, GpoSources(c, in.tier, in.parent)) ELSE {}
           next == ServerAreaPlan(c, in).next
<1>1. /\ c \in Configs /\ HangsTogether(c) /\ in.name \in Names \cup {""}
      /\ in.parent \in Dns(c) \cup {NoDn} /\ in.staging \in BOOLEAN
      /\ in.sam \in SamSet \cup {""} /\ in.says \in 0..NoTier /\ in.ou \in Dns(c) \cup {NoDn}
      BY DEF Good, KnownServer
<1>2. next = [c EXCEPT !.ous = c.ous \o <<area>> \o rest, !.groups = c.groups \cup {group},
                       !.acls = c.acls \cup {acl}, !.links = c.links \cup links]
      BY <1>1 DEF ServerAreaPlan, Configs
<1>3. /\ in.name # "" /\ dn \notin Dns(c) /\ in.sam # "" /\ in.sam \notin GroupSams(c)
      /\ in.ou # NoDn /\ ~AclViolates(next, acl)
      BY DEF ServerAreaPlan, OuNameError, SamError
<1> HIDE DEF next
<1>4. area \in Ou /\ area.path \in Targets(c) /\ Dn(area) = dn
  <2>1. AreaPath(in) \in Targets(c)
        BY <1>1 DEF AreaPath, Targets
  <2>2. AreaPath(in) \in Seq(Names)
        BY <1>1, <2>1, PlacesFit DEF Paths
  <2> QED BY <1>1, <1>3, <2>1, <2>2 DEF Ou, Dn, AreaDn
<1>5. dn \in Paths /\ dn # <<>>
      BY <1>4, DnFits
<1> HIDE DEF area, dn
<1>6. PICK d_1 : d_1 = [c EXCEPT !.ous = c.ous \o <<area>>]
      OBVIOUS
<1>7. d_1 \in Good /\ Dns(d_1) = Dns(c) \cup {dn}
      BY <1>3, <1>4, <1>6, OneMoreOu
<1>8. inner \in Ou /\ inner.path = dn /\ Dn(inner) \notin Dns(d_1)
  <2>1. inner \in Ou /\ inner.path = dn
        BY <1>5, AssistantsAssumption DEF Ou, Paths
  <2>2. Dn(inner) # dn
    <3>1. Len(Dn(inner)) = Len(dn) + 1 /\ Len(dn) \in Nat
          BY <1>5, <2>1, DnFits DEF Paths
    <3> QED BY <3>1
  <2>3. Dn(inner) \notin Dns(c)
    <3> SUFFICES ASSUME Dn(inner) \in Dns(c) PROVE FALSE
        OBVIOUS
    <3>1. PICK o \in OusOf(c) : Dn(o) = Dn(inner)
          BY DEF Dns
    <3>2. o \in Ou
          BY <1>1, PlacesFit
    <3>3. o.path = dn
          BY <2>1, <3>1, <3>2, DnFits
    <3>4. dn \in Targets(c)
          BY <1>1, <3>3 DEF HangsTogether
    <3> QED BY <1>3, <1>5, <3>4 DEF Targets
  <2> QED BY <1>7, <2>1, <2>2, <2>3
<1> HIDE DEF inner
<1>9. PICK d_2 : d_2 = [d_1 EXCEPT !.ous = d_1.ous \o rest]
      OBVIOUS
<1>10. d_2 \in Good /\ Dns(c) \cup {dn} \subseteq Dns(d_2)
  <2>1. CASE in.staging
    <3>1. d_2 = [d_1 EXCEPT !.ous = d_1.ous \o <<inner>>]
          BY <1>9, <2>1
    <3>2. inner.path \in Targets(d_1)
          BY <1>7, <1>8 DEF Targets
    <3>3. d_2 \in Good /\ Dns(d_2) = Dns(d_1) \cup {Dn(inner)}
          BY <1>7, <1>8, <3>1, <3>2, OneMoreOu
    <3> QED BY <1>7, <3>3
  <2>2. CASE ~in.staging
    <3>1. d_1.ous \in Seq(Ou)
          BY <1>7 DEF Good, Configs
    <3>2. d_1.ous \o rest = d_1.ous
          BY <2>2, <3>1, ConcatEmptySeq
    <3>3. d_2 = [d_1 EXCEPT !.ous = d_1.ous]
          BY <1>9, <3>2
    <3>4. d_2 = d_1
          BY <1>7, <3>3 DEF Good, Configs
    <3> QED BY <1>7, <3>4
  <2> QED BY <2>1, <2>2
<1> HIDE DEF rest
<1>11. PICK d_3 : d_3 = [d_2 EXCEPT !.groups = d_2.groups \cup {group}]
      OBVIOUS
<1>12. PICK d_4 : d_4 = [d_3 EXCEPT !.acls = d_3.acls \cup {acl}]
      OBVIOUS
<1>13. PICK d_5 : d_5 = [d_4 EXCEPT !.links = d_4.links \cup links]
      OBVIOUS
<1>14. /\ d_1.groups = c.groups /\ d_1.users = c.users /\ d_1.acls = c.acls /\ d_1.links = c.links
       /\ d_2.groups = c.groups /\ d_2.users = c.users /\ d_2.acls = c.acls /\ d_2.links = c.links
  <2>1. d_1 \in Configs
        BY <1>7 DEF Good
  <2> QED BY <1>1, <1>6, <1>9, <2>1 DEF Configs
<1>15. group \in [sam : SamSet, ou : Seq(Names), says : 0..NoTier]
       /\ group.sam \notin GroupSams(d_2) /\ group.ou \in Targets(d_2)
  <2>1. in.ou \in Dns(c) /\ in.ou \in Seq(Names)
        BY <1>1, <1>3, PlacesFit DEF Paths
  <2>2. GroupSams(d_2) = GroupSams(c)
        BY <1>14 DEF GroupSams
  <2> QED BY <1>1, <1>3, <1>10, <2>1, <2>2 DEF Targets
<1>16. d_3 \in Good /\ Dns(d_3) = Dns(d_2)
      BY <1>10, <1>11, <1>15, OneMoreGroup
<1>17. /\ acl \in [target : Seq(Names), who : SamSet, allow : BOOLEAN]
       /\ acl.target = dn /\ acl.target \in Targets(d_3)
      BY <1>1, <1>3, <1>5, <1>10, <1>16 DEF Paths, Targets
<1> HIDE DEF group, acl
<1>18. d_4 \in Good /\ Dns(d_4) = Dns(d_2)
      BY <1>12, <1>16, <1>17, OneMoreAcl
<1>19. /\ links \in SUBSET [at : Seq(Names), gpo : {l.gpo : l \in Start.links}]
       /\ \A l \in links : l.at \in Targets(d_4)
  <2>1. \A l \in links : \E k \in c.links : l = [at |-> dn, gpo |-> k.gpo]
        BY DEF GpoTarget
  <2>2. \A k \in c.links : k.gpo \in {l.gpo : l \in Start.links}
        BY <1>1 DEF Configs
  <2> HIDE DEF links
  <2>3. \A l \in links : l \in [at : Seq(Names), gpo : {k.gpo : k \in Start.links}] /\ l.at = dn
        BY <1>5, <2>1, <2>2 DEF Paths
  <2> QED BY <1>10, <1>18, <2>3 DEF Targets
<1> HIDE DEF links
<1>20. d_5 \in Good
      BY <1>13, <1>18, <1>19, MoreLinks
<1>21. next = d_5
  <2>1. /\ d_3.acls = c.acls /\ d_3.links = c.links /\ d_4.links = c.links
    <3>1. d_2 \in Configs /\ d_3 \in Configs
          BY <1>10, <1>16 DEF Good
    <3> QED BY <1>11, <1>12, <1>14, <3>1 DEF Configs
  <2>2. d_1.ous = c.ous \o <<area>>
        BY <1>1, <1>6 DEF Configs
  <2>3. d_2 = [c EXCEPT !.ous = c.ous \o <<area>> \o rest]
        BY <1>1, <1>6, <1>9, <2>2 DEF Configs
  <2>4. d_3 = [d_2 EXCEPT !.groups = c.groups \cup {group}]
        BY <1>11, <1>14
  <2>5. d_4 = [d_3 EXCEPT !.acls = c.acls \cup {acl}]
        BY <1>12, <2>1
  <2>6. d_5 = [d_4 EXCEPT !.links = c.links \cup links]
        BY <1>13, <2>1
  <2> QED BY <1>1, <1>2, <2>3, <2>4, <2>5, <2>6 DEF Configs
<1>22. next.users = c.users /\ next.acls = c.acls \cup {acl}
      BY <1>1, <1>2 DEF Configs
<1>23. \A a \in next.acls \ c.acls : ~AclViolates(next, a)
      BY <1>3, <1>22
<1> QED BY <1>20, <1>21, <1>22, <1>23 DEF next

\* The account is the one thing its assistant adds, a delegation likewise.
LEMMA AccountFits ==
    ASSUME NEW c \in Good, NEW in \in KnownAccount(c), ~AdminAccountPlan(c, in).blocked
    PROVE  LET next == AdminAccountPlan(c, in).next IN
           /\ next \in Good /\ next.acls = c.acls
           /\ \A u \in next.users \ c.users : ~UserViolates(next, u)
<1> DEFINE user == [sam |-> in.sam, ou |-> in.ou, memberOf |-> in.memberOf]
           next == AdminAccountPlan(c, in).next
<1>1. /\ c \in Configs /\ in.sam \in SamSet \cup {""} /\ in.ou \in Dns(c) \cup {NoDn}
      /\ in.memberOf \in SUBSET SamSet
      BY DEF Good, KnownAccount
<1>2. next = [c EXCEPT !.users = c.users \cup {user}]
      BY <1>1 DEF AdminAccountPlan, Configs
<1>3. in.sam # "" /\ in.sam \notin UserSams(c) /\ in.ou # NoDn /\ ~UserViolates(c, user)
      BY DEF AdminAccountPlan, SamError
<1> HIDE DEF next
<1>4. in.ou \in Targets(c) /\ in.ou \in Seq(Names)
      BY <1>1, <1>3, PlacesFit DEF Paths, Targets
<1>5. /\ user \in [sam : SamSet, ou : Seq(Names), memberOf : SUBSET SamSet]
      /\ user.sam \notin UserSams(c) /\ user.ou \in Targets(c)
      BY <1>1, <1>3, <1>4
<1> HIDE DEF user
<1>6. next \in Good
      BY <1>2, <1>5, OneMoreUser
<1>7. next.groups = c.groups /\ next.users = c.users \cup {user} /\ next.acls = c.acls
      BY <1>1, <1>2 DEF Configs
<1>8. ~UserViolates(next, user)
      BY <1>3, <1>7 DEF UserViolates, PrincipalTier
<1> QED BY <1>6, <1>7, <1>8 DEF next

LEMMA DelegationFits ==
    ASSUME NEW c \in Good, NEW in \in DelegationInputs(c), ~DelegationPlan(c, in).blocked
    PROVE  LET next == DelegationPlan(c, in).next IN
           /\ next \in Good /\ next.users = c.users
           /\ \A a \in next.acls \ c.acls : ~AclViolates(next, a)
<1> DEFINE acl == [target |-> in.ou, who |-> in.who, allow |-> in.allow]
           next == DelegationPlan(c, in).next
<1>1. /\ c \in Configs /\ in.who \in SamSet \cup {""} /\ in.ou \in Dns(c) \cup {<<>>, NoDn}
      /\ in.allow \in BOOLEAN
      BY DEF Good, DelegationInputs
<1>2. next = [c EXCEPT !.acls = c.acls \cup {acl}]
      BY <1>1 DEF DelegationPlan, Configs
<1>3. in.who # "" /\ in.ou # NoDn /\ ~AclViolates(c, acl)
      BY DEF DelegationPlan
<1> HIDE DEF next
<1>4. in.ou \in Targets(c) /\ in.ou \in Seq(Names)
      BY <1>1, <1>3, PlacesFit DEF Paths, Targets
<1>5. acl \in [target : Seq(Names), who : SamSet, allow : BOOLEAN] /\ acl.target \in Targets(c)
      BY <1>1, <1>3, <1>4
<1> HIDE DEF acl
<1>6. next \in Good
      BY <1>2, <1>5, OneMoreAcl
<1>7. next.groups = c.groups /\ next.acls = c.acls \cup {acl} /\ next.users = c.users
      BY <1>1, <1>2 DEF Configs
<1>8. ~AclViolates(next, acl)
      BY <1>3, <1>7 DEF AclViolates, PrincipalTier
<1> QED BY <1>6, <1>7, <1>8 DEF next

-----------------------------------------------------------------------------
\* What holds of the configuration page: the draft hangs together, at most one of its
\* dialogs is open, an assistant holds what can be chosen in the draft, and the dialog
\* that renames knows every OU of the draft and a parent that is there.
Wizards(c) ==
    {NoWizard}
    \cup [kind : {"server"}, step : 1..5, input : ServerInputs(c), edits : Nat]
    \cup [kind : {"account"}, step : 1..3, input : AccountInputs(c), edits : Nat]
    \cup [kind : {"delegation"}, step : 1..4, input : DelegationInputs(c), edits : Nat]
Renames(c) ==
    {NoRename}
    \cup {r \in [state : {"open"}, index : Nat, then : Good, name : Names, path : Paths] :
            /\ r.index \in DOMAIN r.then.ous /\ r.path \in Targets(c)
            /\ OusOf(c) \subseteq OusOf(r.then)}
AssistInv ==
    /\ draft \in Good /\ edited \in BOOLEAN
    /\ wizard \in Wizards(draft) /\ rename \in Renames(draft)
    /\ wizard = NoWizard \/ rename = NoRename
    /\ wrote.on = "rename" => \E x : wrote.who = {x}

\* A wizard whose kind is known holds that kind's input.
LEMMA WizardIs ==
    ASSUME NEW c, NEW w \in Wizards(c), w # NoWizard
    PROVE  /\ w.edits \in Nat
           /\ \/ w.kind = "server" /\ w.step \in 1..5 /\ w.input \in ServerInputs(c)
              \/ w.kind = "account" /\ w.step \in 1..3 /\ w.input \in AccountInputs(c)
              \/ w.kind = "delegation" /\ w.step \in 1..4 /\ w.input \in DelegationInputs(c)
           /\ \A s \in 1..LastStep[w.kind] : [w EXCEPT !.step = s] \in Wizards(c)
<1>1. CASE w \in [kind : {"server"}, step : 1..5, input : ServerInputs(c), edits : Nat]
      BY <1>1 DEF Wizards, LastStep
<1>2. CASE w \in [kind : {"account"}, step : 1..3, input : AccountInputs(c), edits : Nat]
      BY <1>2 DEF Wizards, LastStep
<1>3. CASE w \in [kind : {"delegation"}, step : 1..4, input : DelegationInputs(c), edits : Nat]
      BY <1>3 DEF Wizards, LastStep
<1> QED BY <1>1, <1>2, <1>3 DEF Wizards

LEMMA OpenWizardKeeps ==
    ASSUME AssistInv, NEW kind \in {"server", "account", "delegation"}, OpenWizard(kind)
    PROVE  AssistInv'
<1>1. wizard' \in Wizards(draft)
  <2>1. wizard' = [kind |-> kind, step |-> 1, input |-> NewInput(kind), edits |-> 0]
        BY DEF OpenWizard
  <2>2. CASE kind = "server"
    <3>1. NewInput(kind) \in ServerInputs(draft)
          BY <2>2 DEF NewInput, ServerInputs, AutoTier
    <3> QED BY <2>1, <2>2, <3>1 DEF Wizards
  <2>3. CASE kind = "account"
    <3>1. NewInput(kind) \in AccountInputs(draft)
          BY <2>3 DEF NewInput, AccountInputs
    <3> QED BY <2>1, <2>3, <3>1 DEF Wizards
  <2>4. CASE kind = "delegation"
    <3>1. NewInput(kind) \in DelegationInputs(draft)
          BY <2>4 DEF NewInput, DelegationInputs
    <3> QED BY <2>1, <2>4, <3>1 DEF Wizards
  <2> QED BY <2>2, <2>3, <2>4
<1> QED BY <1>1 DEF OpenWizard, AssistInv

\* Every input that can be chosen fits the draft.
LEMMA EditsFit ==
    ASSUME AssistInv, wizard # NoWizard, NEW in \in Edits
    PROVE  \/ wizard.kind = "server" /\ in \in ServerInputs(draft)
           \/ wizard.kind = "account" /\ in \in AccountInputs(draft)
           \/ wizard.kind = "delegation" /\ in \in DelegationInputs(draft)
<1>1. draft \in Configs /\ GroupSams(draft) \subseteq SamSet
      BY DEF AssistInv, Good, Configs, GroupSams
<1>2. Sams[1] \in SamSet
  <2>1. Sams \in Seq(SamSet) /\ Sams # <<>>
        BY AssistantsAssumption
  <2> QED BY <2>1
<1>3. \A t : OuChoices(t) \subseteq Dns(draft)
      BY DEF OuChoices
<1>4. CASE wizard.kind = "server"
  <2>1. wizard.input \in ServerInputs(draft)
        BY <1>4, WizardIs DEF AssistInv
  <2>2. in \in ServerEdits(wizard.step, wizard.input)
        BY <1>4 DEF Edits
  <2> DEFINE w == wizard.input
  <2>3. CASE wizard.step = 1
    <3>1. \/ \E t \in 0..2 : in = [w EXCEPT !.tier = t, !.parent = AutoDn, !.ou = AutoDn, !.gpos = TRUE]
          \/ \E n \in Names : in = [w EXCEPT !.name = n]
          \/ \E d \in OuChoices(w.tier) : in = [w EXCEPT !.parent = d]
          \/ in = [w EXCEPT !.staging = ~w.staging]
          BY <2>1, <2>2, <2>3 DEF ServerEdits, TierSet
    <3>2. ASSUME NEW t \in 0..2,
                 in = [w EXCEPT !.tier = t, !.parent = AutoDn, !.ou = AutoDn, !.gpos = TRUE]
          PROVE  in \in ServerInputs(draft)
          BY <2>1, <3>2 DEF ServerInputs
    <3>3. ASSUME NEW n \in Names, in = [w EXCEPT !.name = n] PROVE in \in ServerInputs(draft)
          BY <2>1, <3>3 DEF ServerInputs
    <3>4. ASSUME NEW d \in OuChoices(w.tier), in = [w EXCEPT !.parent = d]
          PROVE  in \in ServerInputs(draft)
      <4>1. d \in Dns(draft)
            BY <1>3
      <4> QED BY <2>1, <3>4, <4>1 DEF ServerInputs
    <3>5. in = [w EXCEPT !.staging = ~w.staging] => in \in ServerInputs(draft)
          BY <2>1, ZenonT(40) DEF ServerInputs
    <3> QED BY <1>4, <3>1, <3>2, <3>3, <3>4, <3>5
  <2>4. CASE wizard.step = 2
    <3>1. \/ \E s \in {AutoSam, "", Sams[1]} : in = [w EXCEPT !.sam = s]
          \/ \E t \in {AutoTier, NoTier, 2} : in = [w EXCEPT !.says = t]
          \/ \E d \in OuChoices(w.tier) : in = [w EXCEPT !.ou = d]
      <4>1. in \in ServerEdits(2, w)
            BY <2>2, <2>4
      <4>2. \A x : ServerEdits(2, x) =
               {[x EXCEPT !.sam = s] : s \in {AutoSam, "", Sams[1]}}
                     \cup {[x EXCEPT !.says = t] : t \in {AutoTier, NoTier, 2}}
                     \cup {[x EXCEPT !.ou = d] : d \in OuChoices(x.tier)}
            BY DEF ServerEdits
      <4>3. in \in {[w EXCEPT !.sam = s] : s \in {AutoSam, "", Sams[1]}}
                     \cup {[w EXCEPT !.says = t] : t \in {AutoTier, NoTier, 2}}
                     \cup {[w EXCEPT !.ou = d] : d \in OuChoices(w.tier)}
            BY <4>1, <4>2
      <4> HIDE DEF w
      <4> QED BY <4>3
    <3>2. {AutoTier, NoTier, 2} \subseteq 0..AutoTier
          BY DEF AutoTier, NoTier
    <3>3. ASSUME NEW s \in {AutoSam, "", Sams[1]}, in = [w EXCEPT !.sam = s]
          PROVE  in \in ServerInputs(draft)
          BY <1>2, <2>1, <3>3 DEF ServerInputs
    <3>4. ASSUME NEW t \in {AutoTier, NoTier, 2}, in = [w EXCEPT !.says = t]
          PROVE  in \in ServerInputs(draft)
      <4>1. t \in 0..AutoTier
            BY <3>2
      <4> QED BY <2>1, <3>4, <4>1 DEF ServerInputs
    <3>5. ASSUME NEW d \in OuChoices(w.tier), in = [w EXCEPT !.ou = d]
          PROVE  in \in ServerInputs(draft)
      <4>1. d \in Dns(draft)
            BY <1>3
      <4> QED BY <2>1, <3>5, <4>1 DEF ServerInputs
    <3> QED BY <1>4, <3>1, <3>3, <3>4, <3>5
  <2>5. CASE wizard.step = 4
    <3>1. in = [w EXCEPT !.gpos = ~w.gpos]
          BY <2>1, <2>2, <2>5 DEF ServerEdits
    <3> QED BY <1>4, <2>1, <3>1 DEF ServerInputs
  <2>6. wizard.step \in {1, 2, 4}
        BY <2>2 DEF ServerEdits
  <2> QED BY <2>3, <2>4, <2>5, <2>6
<1>5. CASE wizard.kind = "account"
  <2>1. wizard.input \in AccountInputs(draft)
        BY <1>5, WizardIs DEF AssistInv
  <2>2. in \in AccountEdits(wizard.step, wizard.input)
        BY <1>5 DEF Edits
  <2> DEFINE w == wizard.input
  <2>3. CASE wizard.step = 1
    <3>1. \/ \E t \in 0..2 : in = [w EXCEPT !.tier = t, !.ou = AutoDn]
          \/ in = [w EXCEPT !.named = TRUE]
          \/ \E s \in {AutoSam, "", Sams[1]} : in = [w EXCEPT !.sam = s]
      <4>1. in \in AccountEdits(1, w)
            BY <2>2, <2>3
      <4>2. \A x : AccountEdits(1, x) =
               {TierSet("account", x, t) : t \in 0..2} \cup {[x EXCEPT !.named = TRUE]}
                     \cup {[x EXCEPT !.sam = s] : s \in {AutoSam, "", Sams[1]}}
            BY DEF AccountEdits
      <4>3. \A x, t : TierSet("account", x, t) = [x EXCEPT !.tier = t, !.ou = AutoDn]
            BY DEF TierSet
      <4> HIDE DEF w
      <4>4. in \in {TierSet("account", w, t) : t \in 0..2} \cup {[w EXCEPT !.named = TRUE]}
                     \cup {[w EXCEPT !.sam = s] : s \in {AutoSam, "", Sams[1]}}
            BY <4>1, <4>2
      <4>5. ASSUME NEW t \in 0..2, in = TierSet("account", w, t)
            PROVE  in = [w EXCEPT !.tier = t, !.ou = AutoDn]
            BY <4>3, <4>5, Zenon
      <4>6. \/ \E t \in 0..2 : in = TierSet("account", w, t)
            \/ in = [w EXCEPT !.named = TRUE]
            \/ \E s \in {AutoSam, "", Sams[1]} : in = [w EXCEPT !.sam = s]
            BY <4>4
      <4> QED BY <4>5, <4>6
    <3>2. ASSUME NEW t \in 0..2, in = [w EXCEPT !.tier = t, !.ou = AutoDn]
          PROVE  in \in AccountInputs(draft)
          BY <2>1, <3>2 DEF AccountInputs
    <3>3. in = [w EXCEPT !.named = TRUE] => in \in AccountInputs(draft)
          BY <2>1 DEF AccountInputs
    <3>4. ASSUME NEW s \in {AutoSam, "", Sams[1]}, in = [w EXCEPT !.sam = s]
          PROVE  in \in AccountInputs(draft)
          BY <1>2, <2>1, <3>4 DEF AccountInputs
    <3> QED BY <1>5, <3>1, <3>2, <3>3, <3>4
  <2>4. CASE wizard.step = 2
    <3>1. \/ \E d \in OuChoices(w.tier) : in = [w EXCEPT !.ou = d]
          \/ \E s \in GroupSams(draft) : in = [w EXCEPT !.memberOf = w.memberOf \cup {s}]
          BY <2>1, <2>2, <2>4 DEF AccountEdits
    <3>2. ASSUME NEW d \in OuChoices(w.tier), in = [w EXCEPT !.ou = d]
          PROVE  in \in AccountInputs(draft)
      <4>1. d \in Dns(draft)
            BY <1>3
      <4> QED BY <2>1, <3>2, <4>1 DEF AccountInputs
    <3>3. ASSUME NEW s \in GroupSams(draft), in = [w EXCEPT !.memberOf = w.memberOf \cup {s}]
          PROVE  in \in AccountInputs(draft)
      <4>1. w.memberOf \cup {s} \in SUBSET SamSet
            BY <1>1, <2>1 DEF AccountInputs
      <4> QED BY <2>1, <3>3, <4>1 DEF AccountInputs
    <3> QED BY <1>5, <3>1, <3>2, <3>3
  <2>5. wizard.step \in {1, 2}
        BY <2>2 DEF AccountEdits
  <2> QED BY <2>3, <2>4, <2>5
<1>6. CASE wizard.kind = "delegation"
  <2>1. wizard.input \in DelegationInputs(draft)
        BY <1>6, WizardIs DEF AssistInv
  <2>2. in \in DelegationEdits(wizard.step, wizard.input)
        BY <1>6 DEF Edits
  <2> DEFINE w == wizard.input
  <2>3. CASE wizard.step = 1
    <3>1. \E s \in GroupSams(draft) : in = [w EXCEPT !.who = s]
          BY <2>1, <2>2, <2>3 DEF DelegationEdits
    <3> QED BY <1>1, <1>6, <2>1, <3>1 DEF DelegationInputs
  <2>4. CASE wizard.step = 2
    <3>1. \/ in = [w EXCEPT !.allow = ~w.allow]
          \/ in = [w EXCEPT !.rights = ~w.rights]
          BY <2>1, <2>2, <2>4 DEF DelegationEdits
    <3> QED BY <1>6, <2>1, <3>1 DEF DelegationInputs
  <2>5. CASE wizard.step = 3
    <3>1. \E d \in Dns(draft) \cup {<<>>} : in = [w EXCEPT !.ou = d]
          BY <2>1, <2>2, <2>5 DEF DelegationEdits
    <3> QED BY <1>6, <2>1, <3>1 DEF DelegationInputs
  <2>6. wizard.step \in {1, 2, 3}
        BY <2>2 DEF DelegationEdits
  <2> QED BY <2>3, <2>4, <2>5, <2>6
<1> QED BY <1>4, <1>5, <1>6, WizardIs DEF AssistInv

LEMMA TakeInputKeeps ==
    ASSUME AssistInv, NEW in \in Edits, TakeInput(in)
    PROVE  AssistInv'
<1>1. wizard # NoWizard
      BY DEF Edits, NoWizard
<1>2. wizard' = [wizard EXCEPT !.input = in, !.edits = wizard.edits + 1]
      BY DEF TakeInput
<1>3. wizard.edits + 1 \in Nat
      BY <1>1, WizardIs DEF AssistInv
<1>4. wizard' \in Wizards(draft)
  <2>1. CASE wizard.kind = "server"
    <3>1. in \in ServerInputs(draft)
          BY <1>1, <2>1, EditsFit
    <3>2. wizard \in [kind : {"server"}, step : 1..5, input : ServerInputs(draft), edits : Nat]
          BY <1>1, <2>1 DEF AssistInv, Wizards
    <3> QED BY <1>2, <1>3, <3>1, <3>2 DEF Wizards
  <2>2. CASE wizard.kind = "account"
    <3>1. in \in AccountInputs(draft)
          BY <1>1, <2>2, EditsFit
    <3>2. wizard \in [kind : {"account"}, step : 1..3, input : AccountInputs(draft), edits : Nat]
          BY <1>1, <2>2 DEF AssistInv, Wizards
    <3> QED BY <1>2, <1>3, <3>1, <3>2 DEF Wizards
  <2>3. CASE wizard.kind = "delegation"
    <3>1. in \in DelegationInputs(draft)
          BY <1>1, <2>3, EditsFit
    <3>2. wizard \in [kind : {"delegation"}, step : 1..4, input : DelegationInputs(draft), edits : Nat]
          BY <1>1, <2>3 DEF AssistInv, Wizards
    <3> QED BY <1>2, <1>3, <3>1, <3>2 DEF Wizards
  <2> QED BY <1>1, <2>1, <2>2, <2>3, WizardIs DEF AssistInv
<1> QED BY <1>1, <1>4 DEF TakeInput, AssistInv

LEMMA GoToKeeps ==
    ASSUME AssistInv, NEW step \in 1..5, wizard # NoWizard, step <= LastStep[wizard.kind],
           GoTo(step)
    PROVE  AssistInv'
<1>1. step \in 1..LastStep[wizard.kind]
  <2>1. wizard.kind \in {"server", "account", "delegation"}
        BY WizardIs DEF AssistInv
  <2>2. LastStep[wizard.kind] \in {5, 3, 4}
        BY <2>1 DEF LastStep
  <2> QED BY <2>2
<1>2. wizard' \in Wizards(draft)
      BY <1>1, WizardIs DEF AssistInv, GoTo
<1> QED BY <1>2 DEF GoTo, AssistInv

LEMMA FinishKeeps ==
    ASSUME AssistInv, Finish
    PROVE  /\ AssistInv'
           /\ \A a \in draft'.acls \ draft.acls : ~AclViolates(draft', a)
           /\ \A u \in draft'.users \ draft.users : ~UserViolates(draft', u)
<1>1. /\ draft \in Good /\ wizard # NoWizard /\ rename = NoRename /\ draft' = Plan.next
      /\ ~Plan.blocked
      BY DEF AssistInv, Finish, MayFinish
<1>2. /\ draft' \in Good
      /\ \A a \in draft'.acls \ draft.acls : ~AclViolates(draft', a)
      /\ \A u \in draft'.users \ draft.users : ~UserViolates(draft', u)
  <2>1. CASE wizard.kind = "server"
    <3>1. wizard.input \in ServerInputs(draft) /\ draft \in Configs
          BY <1>1, <2>1, WizardIs DEF AssistInv, Good
    <3>2. PICK in : in = ServerInput(draft, wizard.input)
          OBVIOUS
    <3>3. in \in KnownServer(draft)
          BY <3>1, <3>2, ServerInputFits
    <3>4. Plan = ServerAreaPlan(draft, in)
          BY <2>1, <3>2 DEF Plan, PlanOf, Input, Known
    <3>5. ~ServerAreaPlan(draft, in).blocked /\ draft' = ServerAreaPlan(draft, in).next
          BY <1>1, <3>4
    <3> HIDE DEF Plan
    <3>6. /\ draft' \in Good /\ draft'.users = draft.users
          /\ \A a \in draft'.acls \ draft.acls : ~AclViolates(draft', a)
          BY <1>1, <3>3, <3>5, ServerAreaFits
    <3> QED BY <3>6
  <2>2. CASE wizard.kind = "account"
    <3>1. wizard.input \in AccountInputs(draft) /\ draft \in Configs
          BY <1>1, <2>2, WizardIs DEF AssistInv, Good
    <3>2. PICK in : in = AccountInput(draft, wizard.input)
          OBVIOUS
    <3>3. in \in KnownAccount(draft)
          BY <3>1, <3>2, AccountInputFits
    <3>4. Plan = AdminAccountPlan(draft, in)
          BY <2>2, <3>2 DEF Plan, PlanOf, Input, Known
    <3>5. ~AdminAccountPlan(draft, in).blocked /\ draft' = AdminAccountPlan(draft, in).next
          BY <1>1, <3>4
    <3>6. /\ draft' \in Good /\ draft'.acls = draft.acls
          /\ \A u \in draft'.users \ draft.users : ~UserViolates(draft', u)
          BY <1>1, <3>3, <3>5, AccountFits
    <3> QED BY <3>6
  <2>3. CASE wizard.kind = "delegation"
    <3>1. PICK in : in = wizard.input
          OBVIOUS
    <3>2. in \in DelegationInputs(draft)
          BY <1>1, <2>3, <3>1, WizardIs DEF AssistInv
    <3>3. Plan = DelegationPlan(draft, in)
          BY <2>3, <3>1 DEF Plan, PlanOf, Input, Known
    <3>4. ~DelegationPlan(draft, in).blocked /\ draft' = DelegationPlan(draft, in).next
          BY <1>1, <3>3
    <3>5. /\ draft' \in Good /\ draft'.users = draft.users
          /\ \A a \in draft'.acls \ draft.acls : ~AclViolates(draft', a)
          BY <1>1, <3>2, <3>4, DelegationFits
    <3> QED BY <3>5
  <2> QED BY <1>1, <2>1, <2>2, <2>3, WizardIs DEF AssistInv
<1>3. wizard' = NoWizard /\ rename' = NoRename /\ edited' \in BOOLEAN
      BY <1>1 DEF Finish, AssistInv
<1>4. wrote'.on # "rename"
  <2>1. wrote'.on = wizard.kind
        BY DEF Finish
  <2> QED BY <1>1, <2>1, WizardIs DEF AssistInv
<1> QED BY <1>2, <1>3, <1>4 DEF AssistInv, Wizards, Renames

LEMMA OpenRenameKeeps ==
    ASSUME AssistInv, NEW i \in DOMAIN draft.ous, OpenRename(i)
    PROVE  AssistInv'
<1>1. rename' = [state |-> "open", index |-> i, then |-> draft,
                 name |-> draft.ous[i].name, path |-> draft.ous[i].path]
      BY DEF OpenRename
<1>2. draft \in Configs /\ HangsTogether(draft) /\ i \in Nat
      BY PlacesFit DEF AssistInv, Good
<1>3. draft.ous[i] \in OusOf(draft) /\ draft.ous[i] \in Ou
      BY <1>2, PlacesFit DEF OusOf
<1>4. draft.ous[i].name \in Names /\ draft.ous[i].path \in Paths
      BY <1>3 DEF Ou, Paths
<1>5. draft.ous[i].path \in Targets(draft)
      BY <1>2, <1>3 DEF HangsTogether
<1>6. rename' \in Renames(draft)
      BY <1>1, <1>2, <1>4, <1>5 DEF Renames, AssistInv
<1> QED BY <1>6 DEF OpenRename, AssistInv

LEMMA TypeRenameKeeps ==
    ASSUME AssistInv, QuietRename, NEW name \in Names, NEW path \in RenameParents,
           TypeRename(name, path)
    PROVE  AssistInv'
<1>1. /\ rename \in [state : {"open"}, index : Nat, then : Good, name : Names, path : Paths]
      /\ rename.index \in DOMAIN rename.then.ous /\ OusOf(draft) \subseteq OusOf(rename.then)
      /\ rename # NoRename
      BY DEF AssistInv, Renames, RenameParents
<1>2. path \in Targets(draft)
      BY <1>1 DEF RenameParents, Targets
<1>3. path \in Paths
      BY <1>2, PlacesFit DEF AssistInv, Good
<1>4. rename' = [rename EXCEPT !.name = name, !.path = path]
      BY DEF TypeRename
<1>5. rename' \in Renames(draft)
      BY <1>1, <1>2, <1>3, <1>4 DEF Renames
<1> QED BY <1>1, <1>5 DEF TypeRename, AssistInv

LEMMA ApplyRenameKeeps ==
    ASSUME AssistInv, ApplyRename
    PROVE  AssistInv'
<1>1. CASE ~StillThere
      BY <1>1 DEF AssistInv, ApplyRename, Renames
<1>2. CASE StillThere
  <2> DEFINE i == rename.index  name == rename.name  path == rename.path
             was == rename.then.ous[i]  new == <<name>> \o path
  <2>1. /\ rename \in [state : {"open"}, index : Nat, then : Good, name : Names, path : Paths]
        /\ i \in DOMAIN rename.then.ous /\ path \in Targets(draft)
        /\ OusOf(draft) \subseteq OusOf(rename.then) /\ rename # NoRename
        BY DEF AssistInv, Renames, ApplyRename
  <2>2. /\ draft \in Configs /\ HangsTogether(draft)
        /\ i \in DOMAIN draft.ous /\ draft.ous[i] = was /\ name \in Names
        BY <1>2, <2>1 DEF AssistInv, Good, StillThere
  <2>3. /\ <<name, path>> # <<was.name, was.path>>
        /\ ~Duplicate(rename.then, i, new)
        BY DEF ApplyRename, MayApply
  <2>4. ~RenamePlan(draft, i, name, path).conflict
        /\ draft' = RenamePlan(draft, i, name, path).next
        BY <1>2 DEF ApplyRename
  <2>5. \A j \in DOMAIN draft.ous : Dn(draft.ous[j]) # new
    <3> SUFFICES ASSUME NEW j \in DOMAIN draft.ous, Dn(draft.ous[j]) = new PROVE FALSE
        OBVIOUS
    <3>1. draft.ous[j] \in OusOf(draft) /\ draft.ous[j] \in Ou
          BY <2>2, PlacesFit DEF OusOf
    <3>2. CASE j = i
      <4>1. PICK o : o = [name |-> name, path |-> path]
            OBVIOUS
      <4>2. o \in Ou /\ Dn(o) = new /\ o.name = name /\ o.path = path
            BY <2>1, <4>1 DEF Ou, Dn, Paths
      <4>3. was \in Ou /\ Dn(was) = new
            BY <2>2, <3>1, <3>2
      <4> HIDE DEF was, new
      <4>4. was.name = o.name /\ was.path = o.path
            BY <4>2, <4>3, DnFits
      <4> QED BY <2>3, <4>2, <4>4
    <3>3. CASE j # i
      <4>1. PICK k \in DOMAIN rename.then.ous : rename.then.ous[k] = draft.ous[j]
            BY <2>1, <3>1 DEF OusOf
      <4>2. Dn(draft.ous[j]) # Dn(draft.ous[i])
            BY <2>2, <3>3 DEF HangsTogether
      <4>3. k # i
            BY <2>2, <4>1, <4>2
      <4> QED BY <2>3, <3>3, <4>1, <4>3 DEF Duplicate
    <3> QED BY <3>2, <3>3
  <2>6. draft' \in Good
        BY <2>1, <2>2, <2>4, <2>5, RenameKeeps DEF Good
  <2>7. /\ wizard' = NoWizard /\ rename' = NoRename /\ edited' = TRUE
        /\ wrote' = [who |-> {was, draft.ous[i]}, on |-> "rename"]
        BY <1>2, <2>1 DEF ApplyRename, AssistInv
  <2>8. wrote'.who = {was}
        BY <2>2, <2>7
  <2> QED BY <2>6, <2>7, <2>8 DEF AssistInv, Wizards, Renames
<1> QED BY <1>1, <1>2

LEMMA OthersRemoveKeeps ==
    ASSUME AssistInv, QuietRename, NEW i \in DOMAIN draft.ous, OthersRemove(i)
    PROVE  AssistInv'
<1>1. /\ draft' \in Configs /\ HangsTogether(draft') /\ OusOf(draft') \subseteq OusOf(draft)
      /\ Targets(draft) \ {Dn(draft.ous[i])} \subseteq Targets(draft')
      BY RemoveKeeps DEF AssistInv, Good
<1>2. /\ wizard = NoWizard /\ rename # NoRename /\ rename.path # Dn(draft.ous[i])
      /\ UNCHANGED <<edited, wizard, rename, wrote>>
      BY DEF OthersRemove
<1>3. rename' \in Renames(draft')
      BY <1>1, <1>2 DEF AssistInv, Renames
<1>4. draft' \in Good
      BY <1>1 DEF Good
<1> QED BY <1>2, <1>3, <1>4 DEF AssistInv, Wizards

LEMMA AssistStep ==
    ASSUME AssistInv, QuietRename, [AssistantNext]_assistantVars
    PROVE  AssistInv'
<1>1. ASSUME NEW kind \in {"server", "account", "delegation"}, OpenWizard(kind) PROVE AssistInv'
      BY <1>1, OpenWizardKeeps
<1>2. ASSUME NEW in \in Edits, TakeInput(in) PROVE AssistInv'
      BY <1>2, TakeInputKeeps
<1>3. ASSUME NEW step \in 1..5, wizard # NoWizard, step <= LastStep[wizard.kind], GoTo(step)
      PROVE  AssistInv'
      BY <1>3, GoToKeeps
<1>4. CASE Finish
      BY <1>4, FinishKeeps
<1>5. CASE RequestClose
      BY <1>5 DEF RequestClose, AssistInv, Wizards
<1>6. ASSUME NEW i \in DOMAIN draft.ous, OpenRename(i) PROVE AssistInv'
      BY <1>6, OpenRenameKeeps
<1>7. ASSUME NEW name \in Names, NEW path \in RenameParents, TypeRename(name, path)
      PROVE  AssistInv'
      BY <1>7, TypeRenameKeeps
<1>8. CASE ApplyRename
      BY <1>8, ApplyRenameKeeps
<1>9. CASE CloseRename
      BY <1>9 DEF CloseRename, AssistInv, Renames
<1>10. ASSUME NEW i \in DOMAIN draft.ous, OthersRemove(i) PROVE AssistInv'
      BY <1>10, OthersRemoveKeeps
<1>11. CASE UNCHANGED assistantVars
      BY <1>11 DEF assistantVars, AssistInv
<1> QED BY <1>1, <1>2, <1>3, <1>4, <1>5, <1>6, <1>7, <1>8, <1>9, <1>10, <1>11 DEF AssistantNext

LEMMA AssistInitFits ==
    ASSUME AssistantInit, HangsTogether(Start)
    PROVE  AssistInv
<1>1. Start \in Good
      BY AssistantsAssumption DEF Good
<1> QED BY <1>1 DEF AssistantInit, AssistInv, Wizards, Renames

LEMMA AssistInvType ==
    ASSUME AssistInv
    PROVE  AssistantType /\ DraftHangsTogether /\ RenamesWhatWasOpened
<1>1. draft \in Configs /\ OusOf(draft) \subseteq Ou
      BY PlacesFit DEF AssistInv, Good
<1>2. wizard # NoWizard => wizard.step \in 1..LastStep[wizard.kind]
      BY WizardIs DEF AssistInv, LastStep
<1>3. rename # NoRename => rename.index \in DOMAIN rename.then.ous
      BY DEF AssistInv, Renames
<1>4. AssistantType
      BY <1>1, <1>2, <1>3 DEF AssistantType, AssistInv, Configs, Ou
<1>5. RenamesWhatWasOpened
      BY FS_Singleton DEF RenamesWhatWasOpened, AssistInv
<1> QED BY <1>4, <1>5 DEF AssistInv, Good, DraftHangsTogether

LEMMA TierStep ==
    ASSUME AssistInv, [AssistantNext]_assistantVars, changes' # changes, wrote'.on # "rename"
    PROVE  /\ \A a \in draft'.acls \ draft.acls : ~AclViolates(draft', a)
           /\ \A u \in draft'.users \ draft.users : ~UserViolates(draft', u)
<1>1. ASSUME NEW kind \in {"server", "account", "delegation"}, OpenWizard(kind) PROVE FALSE
      BY <1>1 DEF OpenWizard
<1>2. ASSUME NEW in \in Edits, TakeInput(in) PROVE FALSE
      BY <1>2 DEF TakeInput
<1>3. ASSUME NEW step \in 1..5, GoTo(step) PROVE FALSE
      BY <1>3 DEF GoTo
<1>4. CASE Finish
      BY <1>4, FinishKeeps
<1>5. CASE RequestClose
      BY <1>5 DEF RequestClose
<1>6. ASSUME NEW i \in DOMAIN draft.ous, OpenRename(i) PROVE FALSE
      BY <1>6 DEF OpenRename
<1>7. ASSUME NEW name \in Names, NEW path \in RenameParents, TypeRename(name, path) PROVE FALSE
      BY <1>7 DEF TypeRename
<1>8. CASE ApplyRename
      BY <1>8 DEF ApplyRename
<1>9. CASE CloseRename
      BY <1>9 DEF CloseRename
<1>10. ASSUME NEW i \in DOMAIN draft.ous, OthersRemove(i) PROVE FALSE
      BY <1>10 DEF OthersRemove
<1>11. CASE UNCHANGED assistantVars
      BY <1>11 DEF assistantVars
<1> QED BY <1>1, <1>2, <1>3, <1>4, <1>5, <1>6, <1>7, <1>8, <1>9, <1>10, <1>11 DEF AssistantNext

-----------------------------------------------------------------------------
(***************************************************************************)
(* The GPO editor.                                                         *)
(***************************************************************************)
\* A section, and the lists of its targets.
LEMMA GpoListFits ==
    ASSUME NEW c, IsSection(c), NEW t, NEW k \in Kinds
    PROVE  /\ GpoList(c, t, k) \in Seq(Gpos)
           /\ t \in DOMAIN c => c[t] \in [Kinds -> Seq(Gpos)] /\ t \in GpoTargets
           /\ GpoList(c, t, k) # <<>> => t \in DOMAIN c
<1>1. t \in DOMAIN c => c[t] \in [Kinds -> Seq(Gpos)] /\ t \in GpoTargets
      BY DEF IsSection
<1>2. <<>> \in Seq(Gpos)
      OBVIOUS
<1> QED BY <1>1, <1>2 DEF GpoList

LEMMA SetGpoListFits ==
    ASSUME NEW c, IsSection(c), NEW t \in DOMAIN c, NEW k \in Kinds, NEW s \in Seq(Gpos)
    PROVE  /\ IsSection(SetGpoList(c, t, k, s))
           /\ DOMAIN SetGpoList(c, t, k, s) = DOMAIN c
           /\ \A u : \A l \in Kinds : GpoList(SetGpoList(c, t, k, s), u, l) =
                 IF u = t /\ l = k THEN s ELSE GpoList(c, u, l)
<1> DEFINE d == SetGpoList(c, t, k, s)
<1>1. c \in [DOMAIN c -> [Kinds -> Seq(Gpos)]] /\ c[t] \in [Kinds -> Seq(Gpos)]
      BY DEF IsSection
<1>2. d = [c EXCEPT ![t] = [c[t] EXCEPT ![k] = s]]
      BY <1>1 DEF SetGpoList
<1>3. [c[t] EXCEPT ![k] = s] \in [Kinds -> Seq(Gpos)]
      BY <1>1
<1> HIDE DEF d
<1>4. d \in [DOMAIN c -> [Kinds -> Seq(Gpos)]] /\ DOMAIN d = DOMAIN c
      BY <1>1, <1>2, <1>3
<1>5. IsSection(d)
      BY <1>4 DEF IsSection
<1>6. \A u \in DOMAIN c : \A l \in Kinds : d[u][l] = IF u = t /\ l = k THEN s ELSE c[u][l]
      BY <1>1, <1>2, <1>3
<1>7. \A u : \A l \in Kinds : GpoList(d, u, l) = IF u = t /\ l = k THEN s ELSE GpoList(c, u, l)
      BY <1>4, <1>6 DEF GpoList
<1> QED BY <1>4, <1>5, <1>7 DEF d

LEMMA AddTargetFits ==
    ASSUME NEW c, IsSection(c), NEW t \in GpoTargets, t \notin DOMAIN c
    PROVE  /\ IsSection(AddTarget(c, t))
           /\ \A u : \A k \in Kinds : GpoList(AddTarget(c, t), u, k) = GpoList(c, u, k)
<1> DEFINE d == AddTarget(c, t)
           none == [k \in Kinds |-> <<>>]
<1>1. none \in [Kinds -> Seq(Gpos)] /\ c \in [DOMAIN c -> [Kinds -> Seq(Gpos)]]
      BY DEF IsSection
<1>2. d = [u \in DOMAIN c \cup {t} |-> IF u = t THEN none ELSE c[u]]
      BY DEF AddTarget
<1>3. \A k \in Kinds : none[k] = <<>>
      OBVIOUS
<1> HIDE DEF d, none
<1>4. DOMAIN d = DOMAIN c \cup {t} /\ d \in [DOMAIN d -> [Kinds -> Seq(Gpos)]]
      BY <1>1, <1>2
<1>5. \A u : \A k \in Kinds : GpoList(d, u, k) = GpoList(c, u, k)
      BY <1>2, <1>3, <1>4 DEF GpoList
<1> QED BY <1>4, <1>5 DEF d, IsSection

LEMMA RemoveTargetFits ==
    ASSUME NEW c, IsSection(c), NEW t
    PROVE  /\ IsSection(RemoveTarget(c, t))
           /\ \A u : \A k \in Kinds :
                 GpoList(RemoveTarget(c, t), u, k) = IF u = t THEN <<>> ELSE GpoList(c, u, k)
<1> DEFINE d == RemoveTarget(c, t)
<1>1. c \in [DOMAIN c -> [Kinds -> Seq(Gpos)]] /\ DOMAIN c \subseteq GpoTargets
      BY DEF IsSection
<1>2. d = [u \in DOMAIN c \ {t} |-> c[u]]
      BY DEF RemoveTarget
<1> HIDE DEF d
<1>3. DOMAIN d = DOMAIN c \ {t} /\ d \in [DOMAIN d -> [Kinds -> Seq(Gpos)]]
      BY <1>1, <1>2
<1>4. \A u : \A k \in Kinds : GpoList(d, u, k) = IF u = t THEN <<>> ELSE GpoList(c, u, k)
      BY <1>2, <1>3 DEF GpoList
<1> QED BY <1>1, <1>3, <1>4 DEF d, IsSection

-----------------------------------------------------------------------------
\* Two sections show the same when their lists hold the same GPOs, but for identity.
Alike(c, d) ==
    \A t : \A k \in Kinds :
        /\ DOMAIN GpoList(c, t, k) = DOMAIN GpoList(d, t, k)
        /\ \A i \in DOMAIN GpoList(c, t, k) :
              Value(GpoList(c, t, k)[i]) = Value(GpoList(d, t, k)[i])

LEMMA ValueIs ==
    ASSUME NEW g \in Gpos
    PROVE  Value(g).name = g.name /\ Value(g) \in Gpos
<1>1. MaxMade \in Nat
      BY GpoAssumption, Zenon
<1>2. 0 \in 0..MaxMade
      BY <1>1
<1> QED BY <1>2 DEF Value, Gpos

LEMMA ValuesAre ==
    ASSUME NEW c, NEW t \in DOMAIN c, NEW k \in Kinds
    PROVE  /\ DOMAIN Values(c)[t][k] = DOMAIN c[t][k]
           /\ \A i \in DOMAIN c[t][k] : Values(c)[t][k][i] = Value(c[t][k][i])
<1>1. Values(c)[t] = [l \in Kinds |-> [i \in DOMAIN c[t][l] |-> Value(c[t][l][i])]]
      BY DEF Values
<1>2. Values(c)[t][k] = [i \in DOMAIN c[t][k] |-> Value(c[t][k][i])]
      BY <1>1
<1> QED BY <1>2

LEMMA ValuesAlike ==
    ASSUME NEW c, NEW d, IsSection(c), IsSection(d), Values(c) = Values(d)
    PROVE  Alike(c, d) /\ DOMAIN c = DOMAIN d
<1>1. DOMAIN Values(c) = DOMAIN c /\ DOMAIN Values(d) = DOMAIN d
      BY DEF Values
<1>2. DOMAIN c = DOMAIN d
      BY <1>1
<1>3. \A t \in DOMAIN c : \A k \in Kinds :
         /\ DOMAIN c[t][k] = DOMAIN d[t][k]
         /\ \A i \in DOMAIN c[t][k] : Value(c[t][k][i]) = Value(d[t][k][i])
  <2> TAKE t \in DOMAIN c
  <2> TAKE k \in Kinds
  <2>1. DOMAIN Values(c)[t][k] = DOMAIN c[t][k] /\ DOMAIN Values(d)[t][k] = DOMAIN d[t][k]
        BY <1>2, ValuesAre
  <2>2. DOMAIN c[t][k] = DOMAIN d[t][k]
        BY <2>1
  <2>3. ASSUME NEW i \in DOMAIN c[t][k] PROVE Value(c[t][k][i]) = Value(d[t][k][i])
    <3>1. Values(c)[t][k][i] = Value(c[t][k][i])
          BY ValuesAre
    <3>2. Values(d)[t][k][i] = Value(d[t][k][i])
          BY <1>2, <2>2, ValuesAre
    <3> QED BY <3>1, <3>2
  <2> QED BY <2>2, <2>3
<1>4. Alike(c, d)
      BY <1>2, <1>3 DEF Alike, GpoList
<1> QED BY <1>2, <1>4

LEMMA AlikePlaced ==
    ASSUME NEW c, NEW d, Alike(c, d)
    PROVE  Placed(c) = Placed(d)
<1>1. \A t \in GpoTargets : \A k \in Kinds :
         {<<t, k, Value(g)>> : g \in ToSet(GpoList(c, t, k))}
       = {<<t, k, Value(g)>> : g \in ToSet(GpoList(d, t, k))}
  <2> TAKE t \in GpoTargets
  <2> TAKE k \in Kinds
  <2>1. PICK s : s = GpoList(c, t, k)
        OBVIOUS
  <2>2. PICK r : r = GpoList(d, t, k)
        OBVIOUS
  <2>3. DOMAIN s = DOMAIN r /\ \A i \in DOMAIN s : Value(s[i]) = Value(r[i])
        BY <2>1, <2>2 DEF Alike
  <2>4. {<<t, k, Value(g)>> : g \in ToSet(s)} = {<<t, k, Value(g)>> : g \in ToSet(r)}
        BY <2>3 DEF ToSet
  <2> QED BY <2>1, <2>2, <2>4
<1> QED BY <1>1 DEF Placed

\* No name twice in a target, said of its lists.
Unique(c) ==
    \A t : \A k, l \in Kinds : \A i \in DOMAIN GpoList(c, t, k), j \in DOMAIN GpoList(c, t, l) :
        GpoList(c, t, k)[i].name = GpoList(c, t, l)[j].name => k = l /\ i = j

LEMMA UniqueIs ==
    ASSUME NEW c, IsSection(c)
    PROVE  UniqueNames(c) <=> Unique(c)
<1>1. \A t : t \notin DOMAIN c => \A k \in Kinds : DOMAIN GpoList(c, t, k) = {}
      BY DEF GpoList
<1>2. \A t \in DOMAIN c : \A k \in Kinds : GpoList(c, t, k) = c[t][k]
      BY DEF GpoList
<1>3. ASSUME UniqueNames(c), NEW t, NEW k \in Kinds, NEW l \in Kinds,
             NEW i \in DOMAIN GpoList(c, t, k), NEW j \in DOMAIN GpoList(c, t, l),
             GpoList(c, t, k)[i].name = GpoList(c, t, l)[j].name
      PROVE  k = l /\ i = j
  <2>1. t \in DOMAIN c
        BY <1>1
  <2>2. ~TakesName(c, t, k, i, GpoList(c, t, k)[i].name)
        BY <1>2, <1>3, <2>1 DEF UniqueNames
  <2>3. <<l, j>> = <<k, i>>
        BY <1>3, <2>2 DEF TakesName
  <2> QED BY <2>3
<1>4. ASSUME Unique(c) PROVE UniqueNames(c)
      BY <1>2, <1>4 DEF UniqueNames, Unique, TakesName
<1> QED BY <1>3, <1>4 DEF Unique

LEMMA AlikeUnique ==
    ASSUME NEW c, NEW d, IsSection(c), IsSection(d), Alike(c, d), Unique(c)
    PROVE  Unique(d)
<1>1. \A t : \A k \in Kinds : \A i \in DOMAIN GpoList(d, t, k) :
         /\ i \in DOMAIN GpoList(c, t, k)
         /\ GpoList(d, t, k)[i].name = GpoList(c, t, k)[i].name
  <2> TAKE t
  <2> TAKE k \in Kinds
  <2> TAKE i \in DOMAIN GpoList(d, t, k)
  <2>1. PICK s : s = GpoList(c, t, k)
        OBVIOUS
  <2>2. PICK r : r = GpoList(d, t, k)
        OBVIOUS
  <2>3. s \in Seq(Gpos) /\ r \in Seq(Gpos) /\ i \in DOMAIN s /\ i \in DOMAIN r
        /\ Value(s[i]) = Value(r[i])
        BY <2>1, <2>2, GpoListFits DEF Alike
  <2>4. s[i] \in Gpos /\ r[i] \in Gpos
        BY <2>3
  <2>5. s[i].name = r[i].name
        BY <2>3, <2>4, ValueIs
  <2> QED BY <2>1, <2>2, <2>3, <2>5
<1> QED BY <1>1 DEF Unique

-----------------------------------------------------------------------------
\* What a change of one list leaves.
LEMMA PlacedIs ==
    ASSUME NEW c, IsSection(c), NEW t \in GpoTargets, NEW k \in Kinds, NEW v
    PROVE  <<t, k, v>> \in Placed(c) <=> \E i \in DOMAIN GpoList(c, t, k) : v = Value(GpoList(c, t, k)[i])
<1>1. ASSUME <<t, k, v>> \in Placed(c)
      PROVE  \E i \in DOMAIN GpoList(c, t, k) : v = Value(GpoList(c, t, k)[i])
  <2>1. PICK u \in GpoTargets, l \in Kinds :
           <<t, k, v>> \in {<<u, l, Value(g)>> : g \in ToSet(GpoList(c, u, l))}
        BY <1>1 DEF Placed
  <2>2. PICK g \in ToSet(GpoList(c, u, l)) : <<t, k, v>> = <<u, l, Value(g)>>
        BY <2>1
  <2>3. t = u /\ k = l /\ v = Value(g)
        BY <2>2
  <2> QED BY <2>2, <2>3 DEF ToSet
<1>2. ASSUME NEW i \in DOMAIN GpoList(c, t, k), v = Value(GpoList(c, t, k)[i])
      PROVE  <<t, k, v>> \in Placed(c)
  <2>1. GpoList(c, t, k)[i] \in ToSet(GpoList(c, t, k))
        BY DEF ToSet
  <2>2. <<t, k, v>> \in {<<t, k, Value(g)>> : g \in ToSet(GpoList(c, t, k))}
        BY <1>2, <2>1
  <2>3. PICK P : P = {<<t, k, Value(g)>> : g \in ToSet(GpoList(c, t, k))}
        OBVIOUS
  <2> DEFINE Q == {{<<u, l, Value(g)>> : g \in ToSet(GpoList(c, u, l))} : u \in GpoTargets, l \in Kinds}
  <2>4. P \in Q
        BY <2>3
  <2>5. Placed(c) = UNION Q
        BY DEF Placed
  <2> HIDE DEF Q
  <2>6. P \subseteq Placed(c)
        BY <2>4, <2>5
  <2> QED BY <2>2, <2>3, <2>6
<1> QED BY <1>1, <1>2

\* Only what is missing in a list is missing in the section.
KeepsBut(c, d, t, k, W) ==
    /\ \A u : \A l \in Kinds : ~(u = t /\ l = k) =>
          \A i \in DOMAIN GpoList(c, u, l) : \E j \in DOMAIN GpoList(d, u, l) :
             Value(GpoList(c, u, l)[i]) = Value(GpoList(d, u, l)[j])
    /\ \A i \in DOMAIN GpoList(c, t, k) :
          \/ Value(GpoList(c, t, k)[i]) \in W
          \/ \E j \in DOMAIN GpoList(d, t, k) :
                Value(GpoList(c, t, k)[i]) = Value(GpoList(d, t, k)[j])

LEMMA PlacedLoss ==
    ASSUME NEW c, NEW d, IsSection(c), IsSection(d), NEW t \in GpoTargets, NEW k \in Kinds, NEW W,
           KeepsBut(c, d, t, k, W)
    PROVE  \A p \in Placed(c) \ Placed(d) : \E v \in W : p = <<t, k, v>>
<1> SUFFICES ASSUME NEW p \in Placed(c), p \notin Placed(d)
             PROVE  \E v \in W : p = <<t, k, v>>
    OBVIOUS
<1>1. PICK u \in GpoTargets, l \in Kinds : p \in {<<u, l, Value(g)>> : g \in ToSet(GpoList(c, u, l))}
      BY DEF Placed
<1>2. PICK g \in ToSet(GpoList(c, u, l)) : p = <<u, l, Value(g)>>
      BY <1>1
<1>3. PICK i \in DOMAIN GpoList(c, u, l) : g = GpoList(c, u, l)[i]
      BY DEF ToSet
<1>4. PICK v : v = Value(g)
      OBVIOUS
<1>5. ~\E j \in DOMAIN GpoList(d, u, l) : v = Value(GpoList(d, u, l)[j])
      BY <1>2, <1>4, PlacedIs
<1>6. u = t /\ l = k
      BY <1>3, <1>4, <1>5 DEF KeepsBut
<1> QED BY <1>2, <1>3, <1>4, <1>5, <1>6 DEF KeepsBut

LEMMA ReplaceKeeps ==
    ASSUME NEW c, IsSection(c), NEW t \in DOMAIN c, NEW k \in Kinds,
           NEW i \in DOMAIN GpoList(c, t, k), NEW g \in Gpos
    PROVE  /\ IsSection(ReplaceGpo(c, t, k, i, g))
           /\ \A p \in Placed(c) \ Placed(ReplaceGpo(c, t, k, i, g)) :
                 p = <<t, k, Value(GpoList(c, t, k)[i])>>
           /\ Unique(c) /\ ~TakesName(c, t, k, i, g.name) => Unique(ReplaceGpo(c, t, k, i, g))
<1> DEFINE d == ReplaceGpo(c, t, k, i, g)
           s == GpoList(c, t, k)  r == [s EXCEPT ![i] = g]
<1>1. s \in Seq(Gpos) /\ t \in GpoTargets
      BY GpoListFits
<1>2. r \in Seq(Gpos) /\ DOMAIN r = DOMAIN s /\ r[i] = g /\ \A j \in DOMAIN s : j # i => r[j] = s[j]
      BY <1>1
<1>3. d = SetGpoList(c, t, k, r)
      BY DEF ReplaceGpo
<1> HIDE DEF d, r
<1>4. /\ IsSection(d)
      /\ \A u : \A l \in Kinds : GpoList(d, u, l) = IF u = t /\ l = k THEN r ELSE GpoList(c, u, l)
      BY <1>2, <1>3, SetGpoListFits
<1>5. \A p \in Placed(c) \ Placed(d) : p = <<t, k, Value(s[i])>>
  <2>1. PICK W : W = {Value(s[i])}
        OBVIOUS
  <2>2. \A u : \A l \in Kinds : ~(u = t /\ l = k) =>
              \A j \in DOMAIN GpoList(c, u, l) : \E h \in DOMAIN GpoList(d, u, l) :
                 Value(GpoList(c, u, l)[j]) = Value(GpoList(d, u, l)[h])
        BY <1>4
  <2>3. \A j \in DOMAIN GpoList(c, t, k) :
              \/ Value(GpoList(c, t, k)[j]) \in W
              \/ \E h \in DOMAIN GpoList(d, t, k) :
                    Value(GpoList(c, t, k)[j]) = Value(GpoList(d, t, k)[h])
    <3>1. GpoList(d, t, k) = r
          BY <1>4
    <3> QED BY <1>2, <2>1, <3>1
  <2>4. KeepsBut(c, d, t, k, W)
        BY <2>2, <2>3 DEF KeepsBut
  <2>5. \A p \in Placed(c) \ Placed(d) : \E v \in W : p = <<t, k, v>>
        BY <1>1, <1>4, <2>4, PlacedLoss
  <2> QED BY <2>1, <2>5
<1>6. ASSUME Unique(c), ~TakesName(c, t, k, i, g.name) PROVE Unique(d)
  <2>1. \A l \in Kinds : \A j \in DOMAIN GpoList(c, t, l) :
           <<l, j>> # <<k, i>> => GpoList(c, t, l)[j].name # g.name
        BY <1>6 DEF TakesName
  <2> SUFFICES ASSUME NEW u, NEW l \in Kinds, NEW m \in Kinds,
                      NEW a \in DOMAIN GpoList(d, u, l), NEW b \in DOMAIN GpoList(d, u, m),
                      GpoList(d, u, l)[a].name = GpoList(d, u, m)[b].name
               PROVE  l = m /\ a = b
      BY DEF Unique
  <2>2. CASE u # t
        BY <1>4, <1>6, <2>2 DEF Unique
  <2>3. CASE u = t
    <3>1. a \in DOMAIN GpoList(c, t, l) /\ b \in DOMAIN GpoList(c, t, m)
          BY <1>2, <1>4, <2>3
    <3>2. GpoList(d, u, l)[a] = IF l = k /\ a = i THEN g ELSE GpoList(c, t, l)[a]
          BY <1>2, <1>4, <2>3
    <3>3. GpoList(d, u, m)[b] = IF m = k /\ b = i THEN g ELSE GpoList(c, t, m)[b]
          BY <1>2, <1>4, <2>3
    <3> QED BY <1>6, <2>1, <3>1, <3>2, <3>3 DEF Unique
  <2> QED BY <2>2, <2>3
<1> QED BY <1>4, <1>5, <1>6 DEF d

LEMMA AppendKeeps ==
    ASSUME NEW c, IsSection(c), NEW t \in DOMAIN c, NEW k \in Kinds, NEW g \in Gpos
    PROVE  LET d == SetGpoList(c, t, k, Append(GpoList(c, t, k), g)) IN
           /\ IsSection(d) /\ \A p \in Placed(c) : p \in Placed(d)
           /\ Unique(c) /\ ~TakesName(c, t, k, 0, g.name) => Unique(d)
<1> DEFINE s == GpoList(c, t, k)  r == Append(s, g)  d == SetGpoList(c, t, k, r)
<1>1. s \in Seq(Gpos) /\ t \in GpoTargets /\ Len(s) \in Nat /\ DOMAIN s = 1..Len(s)
      BY GpoListFits
<1>2. /\ r \in Seq(Gpos) /\ Len(r) = Len(s) + 1 /\ r[Len(s) + 1] = g
      /\ \A j \in 1..Len(s) : r[j] = s[j]
      BY <1>1, AppendProperties
<1>3. DOMAIN r = 1..Len(s) + 1
      BY <1>1, <1>2
<1> HIDE DEF r
<1>4. /\ IsSection(d)
      /\ \A u : \A l \in Kinds : GpoList(d, u, l) = IF u = t /\ l = k THEN r ELSE GpoList(c, u, l)
      BY <1>2, SetGpoListFits
<1> HIDE DEF d
<1>5. \A p \in Placed(c) : p \in Placed(d)
  <2>1. \A u : \A l \in Kinds : ~(u = t /\ l = k) =>
              \A j \in DOMAIN GpoList(c, u, l) : \E h \in DOMAIN GpoList(d, u, l) :
                 Value(GpoList(c, u, l)[j]) = Value(GpoList(d, u, l)[h])
        BY <1>4
  <2>2. PICK W : W = {}
        OBVIOUS
  <2>3. \A j \in DOMAIN GpoList(c, t, k) :
              \/ Value(GpoList(c, t, k)[j]) \in W
              \/ \E h \in DOMAIN GpoList(d, t, k) :
                    Value(GpoList(c, t, k)[j]) = Value(GpoList(d, t, k)[h])
    <3>1. GpoList(d, t, k) = r
          BY <1>4
    <3>2. \A j \in DOMAIN s : j \in DOMAIN r /\ r[j] = s[j]
          BY <1>1, <1>2, <1>3
    <3> QED BY <3>1, <3>2
  <2>4. KeepsBut(c, d, t, k, W)
        BY <2>1, <2>3 DEF KeepsBut
  <2>5. \A p \in Placed(c) \ Placed(d) : \E v \in W : p = <<t, k, v>>
        BY <1>1, <1>4, <2>4, PlacedLoss
  <2> QED BY <2>2, <2>5
<1>6. ASSUME Unique(c), ~TakesName(c, t, k, 0, g.name) PROVE Unique(d)
  <2>1. \A l \in Kinds : \A j \in DOMAIN GpoList(c, t, l) : GpoList(c, t, l)[j].name # g.name
    <3> TAKE l \in Kinds
    <3> TAKE j \in DOMAIN GpoList(c, t, l)
    <3>1. GpoList(c, t, l) \in Seq(Gpos)
          BY GpoListFits
    <3>2. j # 0
          BY <3>1
    <3> QED BY <1>6, <3>2 DEF TakesName
  <2> SUFFICES ASSUME NEW u, NEW l \in Kinds, NEW m \in Kinds,
                      NEW a \in DOMAIN GpoList(d, u, l), NEW b \in DOMAIN GpoList(d, u, m),
                      GpoList(d, u, l)[a].name = GpoList(d, u, m)[b].name
               PROVE  l = m /\ a = b
      BY DEF Unique
  <2>2. CASE u # t
        BY <1>4, <1>6, <2>2 DEF Unique
  <2>3. CASE u = t
    <3>1. \/ a \in DOMAIN GpoList(c, t, l) /\ GpoList(d, u, l)[a] = GpoList(c, t, l)[a]
          \/ l = k /\ a = Len(s) + 1 /\ GpoList(d, u, l)[a] = g
          BY <1>1, <1>2, <1>3, <1>4, <2>3
    <3>2. \/ b \in DOMAIN GpoList(c, t, m) /\ GpoList(d, u, m)[b] = GpoList(c, t, m)[b]
          \/ m = k /\ b = Len(s) + 1 /\ GpoList(d, u, m)[b] = g
          BY <1>1, <1>2, <1>3, <1>4, <2>3
    <3> QED BY <1>6, <2>1, <3>1, <3>2 DEF Unique
  <2> QED BY <2>2, <2>3
<1> QED BY <1>4, <1>5, <1>6 DEF d, r

LEMMA RemovalKeeps ==
    ASSUME NEW c, IsSection(c), NEW t \in DOMAIN c, NEW k \in Kinds,
           NEW i \in DOMAIN GpoList(c, t, k)
    PROVE  LET d == SetGpoList(c, t, k, RemoveAt(GpoList(c, t, k), i)) IN
           /\ IsSection(d) /\ DOMAIN d = DOMAIN c
           /\ \A p \in Placed(c) \ Placed(d) : p = <<t, k, Value(GpoList(c, t, k)[i])>>
           /\ Unique(c) => Unique(d)
           /\ \A n : Unique(c) /\ n = GpoList(c, t, k)[i].name =>
                 \A l \in Kinds : \A j \in DOMAIN GpoList(d, t, l) : GpoList(d, t, l)[j].name # n
           /\ \A u : u # t => \A l \in Kinds : GpoList(d, u, l) = GpoList(c, u, l)
<1> DEFINE s == GpoList(c, t, k)  r == RemoveAt(s, i)  d == SetGpoList(c, t, k, r)
<1>1. s \in Seq(Gpos) /\ t \in GpoTargets /\ Len(s) \in Nat /\ DOMAIN s = 1..Len(s)
      BY GpoListFits
<1>2. /\ r \in Seq(Gpos) /\ Len(r) = Len(s) - 1
      /\ \A j \in 1..Len(s) - 1 : r[j] = IF j < i THEN s[j] ELSE s[j + 1]
      BY <1>1, RemoveAtOne
<1>3. DOMAIN r = 1..Len(s) - 1
      BY <1>2
<1> HIDE DEF r
<1> DEFINE old(j) == IF j < i THEN j ELSE j + 1
<1>4. \A j \in DOMAIN r : old(j) \in DOMAIN s /\ old(j) # i /\ r[j] = s[old(j)]
      BY <1>1, <1>2, <1>3
<1>5. \A j, h \in DOMAIN r : old(j) = old(h) => j = h
      BY <1>1, <1>3
<1>6. \A h \in DOMAIN s : h # i => \E j \in DOMAIN r : r[j] = s[h]
  <2> TAKE h \in DOMAIN s
  <2> HAVE h # i
  <2>1. CASE h < i
    <3>1. h \in 1..Len(s) - 1
          BY <1>1, <2>1
    <3> QED BY <1>2, <1>3, <2>1, <3>1
  <2>2. CASE h > i
    <3>1. h - 1 \in 1..Len(s) - 1 /\ h = (h - 1) + 1 /\ ~(h - 1 < i)
          BY <1>1, <2>2
    <3>2. PICK j \in 1..Len(s) - 1 : h = j + 1 /\ ~(j < i)
          BY <3>1
    <3> QED BY <1>2, <1>3, <3>2
  <2> QED BY <1>1, <2>1, <2>2
<1> HIDE DEF old
<1>7. /\ IsSection(d) /\ DOMAIN d = DOMAIN c
      /\ \A u : \A l \in Kinds : GpoList(d, u, l) = IF u = t /\ l = k THEN r ELSE GpoList(c, u, l)
      BY <1>2, SetGpoListFits
<1> HIDE DEF d
<1>8. \A p \in Placed(c) \ Placed(d) : p = <<t, k, Value(s[i])>>
  <2>1. PICK W : W = {Value(s[i])}
        OBVIOUS
  <2>2. \A u : \A l \in Kinds : ~(u = t /\ l = k) =>
              \A j \in DOMAIN GpoList(c, u, l) : \E h \in DOMAIN GpoList(d, u, l) :
                 Value(GpoList(c, u, l)[j]) = Value(GpoList(d, u, l)[h])
        BY <1>7
  <2>3. \A j \in DOMAIN GpoList(c, t, k) :
              \/ Value(GpoList(c, t, k)[j]) \in W
              \/ \E h \in DOMAIN GpoList(d, t, k) :
                    Value(GpoList(c, t, k)[j]) = Value(GpoList(d, t, k)[h])
    <3>1. GpoList(d, t, k) = r
          BY <1>7
    <3> QED BY <1>6, <2>1, <3>1
  <2>4. KeepsBut(c, d, t, k, W)
        BY <2>2, <2>3 DEF KeepsBut
  <2>5. \A p \in Placed(c) \ Placed(d) : \E v \in W : p = <<t, k, v>>
        BY <1>1, <1>7, <2>4, PlacedLoss
  <2> QED BY <2>1, <2>5
<1>9. ASSUME NEW l \in Kinds, NEW a \in DOMAIN GpoList(d, t, l)
      PROVE  \E h \in DOMAIN GpoList(c, t, l) :
                /\ GpoList(d, t, l)[a] = GpoList(c, t, l)[h] /\ ~(l = k /\ h = i)
                /\ l = k => h = old(a)
                /\ l # k => h = a
      BY <1>4, <1>7
<1>10. ASSUME Unique(c) PROVE Unique(d)
  <2> SUFFICES ASSUME NEW u, NEW l \in Kinds, NEW m \in Kinds,
                      NEW a \in DOMAIN GpoList(d, u, l), NEW b \in DOMAIN GpoList(d, u, m),
                      GpoList(d, u, l)[a].name = GpoList(d, u, m)[b].name
               PROVE  l = m /\ a = b
      BY DEF Unique
  <2>1. CASE u # t
        BY <1>7, <1>10, <2>1 DEF Unique
  <2>2. CASE u = t
    <3>1. PICK h \in DOMAIN GpoList(c, t, l) :
             /\ GpoList(d, t, l)[a] = GpoList(c, t, l)[h]
             /\ l = k => h = old(a)
             /\ l # k => h = a
          BY <1>9, <2>2
    <3>2. PICK e \in DOMAIN GpoList(c, t, m) :
             /\ GpoList(d, t, m)[b] = GpoList(c, t, m)[e]
             /\ m = k => e = old(b)
             /\ m # k => e = b
          BY <1>9, <2>2
    <3>3. l = m /\ h = e
          BY <1>10, <2>2, <3>1, <3>2 DEF Unique
    <3>4. l = k => a \in DOMAIN r /\ b \in DOMAIN r
          BY <1>7, <2>2, <3>3
    <3> QED BY <1>5, <3>1, <3>2, <3>3, <3>4
  <2> QED BY <2>1, <2>2
<1>11. ASSUME NEW n, Unique(c), n = s[i].name, NEW l \in Kinds, NEW j \in DOMAIN GpoList(d, t, l)
       PROVE  GpoList(d, t, l)[j].name # n
  <2>1. PICK h \in DOMAIN GpoList(c, t, l) :
           GpoList(d, t, l)[j] = GpoList(c, t, l)[h] /\ ~(l = k /\ h = i)
        BY <1>9
  <2> QED BY <1>11, <2>1 DEF Unique
<1> QED BY <1>7, <1>8, <1>10, <1>11 DEF d, r

-----------------------------------------------------------------------------
\* Orders, identities and fields.
LEMMA BoundsFit == MaxMade \in Nat /\ MaxTouched \in Nat /\ MaxOrder \in Nat \ {0}
BY GpoAssumption, Zenon

LEMMA OfferedFits == ASSUME NEW c \in GposOffered PROVE IsSection(c)
BY GpoAssumption, Zenon

LEMMA GposOfFits ==
    ASSUME NEW c, IsSection(c), NEW t
    PROVE  GposOf(c, t) \subseteq Gpos
<1>1. \A k \in Kinds : ToSet(GpoList(c, t, k)) \subseteq Gpos
  <2> TAKE k \in Kinds
  <2>1. PICK s : s = GpoList(c, t, k)
        OBVIOUS
  <2>2. s \in Seq(Gpos)
        BY <2>1, GpoListFits
  <2>3. ToSet(s) \subseteq Gpos
        BY <2>2 DEF ToSet
  <2> QED BY <2>1, <2>3
<1> QED BY <1>1 DEF GposOf

LEMMA NextOrderFits ==
    ASSUME NEW c, IsSection(c), NEW t
    PROVE  NextLinkOrder(c, t) \in Nat /\ NextLinkOrder(c, t) >= 1
<1> DEFINE S == {0} \cup {g.linkOrder : g \in GposOf(c, t)}
<1>1. \A g \in GposOf(c, t) : g.linkOrder \in 0..MaxOrder
  <2>1. \A g \in Gpos : g.linkOrder \in 0..MaxOrder
        BY DEF Gpos
  <2>2. GposOf(c, t) \subseteq Gpos
        BY GposOfFits
  <2> QED BY <2>1, <2>2
<1>2. S \subseteq Nat /\ S # {} /\ \A n \in S : n <= MaxOrder
      BY <1>1, BoundsFit
<1>3. NextLinkOrder(c, t) = 1 + Largest(S)
      BY DEF NextLinkOrder
<1> HIDE DEF S
<1>4. \E n \in S : \A m \in S : m <= n
      BY <1>2, BoundsFit, GreatestElement
<1>5. Largest(S) \in S
      BY <1>4 DEF Largest
<1>6. Largest(S) \in Nat
      BY <1>2, <1>5
<1> QED BY <1>3, <1>6

LEMMA RenewedFits ==
    ASSUME gposMade \in Nat, gposMade < MaxMade, NEW g \in Gpos
    PROVE  Renewed(g) \in Gpos /\ Value(Renewed(g)) = Value(g) /\ Renewed(g).name = g.name
<1>1. gposMade + 1 \in 0..MaxMade
      BY BoundsFit
<1> QED BY <1>1 DEF Renewed, Value, Gpos

\* An answer with the objects that are the same taken from the old one.
LEMMA SharedFits ==
    ASSUME gposMade \in Nat, gposMade < MaxMade, NEW new, NEW old, IsSection(new), IsSection(old)
    PROVE  IsSection(Shared(new, old)) /\ Alike(new, Shared(new, old))
<1> DEFINE e(t, k, i) ==
             IF i \in DOMAIN GpoList(old, t, k) /\ Value(GpoList(old, t, k)[i]) = Value(new[t][k][i])
             THEN GpoList(old, t, k)[i] ELSE Renewed(new[t][k][i])
           d == Shared(new, old)
<1>1. d = [t \in DOMAIN new |-> [k \in Kinds |-> [i \in DOMAIN new[t][k] |-> e(t, k, i)]]]
      BY DEF Shared
<1>2. \A t \in DOMAIN new : \A k \in Kinds : \A i \in DOMAIN new[t][k] :
         e(t, k, i) \in Gpos /\ Value(e(t, k, i)) = Value(new[t][k][i])
  <2> TAKE t \in DOMAIN new
  <2> TAKE k \in Kinds
  <2> TAKE i \in DOMAIN new[t][k]
  <2>1. new[t][k] \in Seq(Gpos) /\ GpoList(old, t, k) \in Seq(Gpos)
    <3>1. new[t] \in [Kinds -> Seq(Gpos)]
          BY DEF IsSection
    <3> QED BY <3>1, GpoListFits
  <2>2. new[t][k][i] \in Gpos
        BY <2>1
  <2>3. i \in DOMAIN GpoList(old, t, k) => GpoList(old, t, k)[i] \in Gpos
        BY <2>1
  <2>4. PICK g : g = new[t][k][i]
        OBVIOUS
  <2>5. Renewed(g) \in Gpos /\ Value(Renewed(g)) = Value(g)
        BY <2>2, <2>4, RenewedFits
  <2> QED BY <2>2, <2>3, <2>4, <2>5
<1> HIDE DEF e, d
<1>3. DOMAIN d = DOMAIN new
      BY <1>1
<1>4. \A t \in DOMAIN new : \A k \in Kinds :
         d[t][k] = [i \in DOMAIN new[t][k] |-> e(t, k, i)]
      BY <1>1
<1>5. \A t \in DOMAIN new : \A k \in Kinds : d[t][k] \in Seq(Gpos)
  <2> TAKE t \in DOMAIN new
  <2> TAKE k \in Kinds
  <2>1. new[t][k] \in Seq(Gpos)
    <3>1. new[t] \in [Kinds -> Seq(Gpos)]
          BY DEF IsSection
    <3> QED BY <3>1
  <2>2. Len(new[t][k]) \in Nat /\ DOMAIN new[t][k] = 1..Len(new[t][k])
        BY <2>1
  <2>3. [i \in DOMAIN new[t][k] |-> e(t, k, i)] \in [DOMAIN new[t][k] -> Gpos]
        BY <1>2
  <2>4. d[t][k] \in [1..Len(new[t][k]) -> Gpos]
        BY <1>4, <2>2, <2>3
  <2> QED BY <2>2, <2>4, SeqDef
<1>6. d \in [DOMAIN new -> [Kinds -> Seq(Gpos)]]
  <2>1. \A t \in DOMAIN new : d[t] \in [Kinds -> Seq(Gpos)]
    <3> TAKE t \in DOMAIN new
    <3>1. d[t] = [k \in Kinds |-> [i \in DOMAIN new[t][k] |-> e(t, k, i)]]
          BY <1>1
    <3>2. d[t] = [k \in Kinds |-> d[t][k]]
          BY <3>1
    <3> QED BY <1>5, <3>2
  <2>2. d = [t \in DOMAIN new |-> d[t]]
        BY <1>1
  <2> QED BY <2>1, <2>2
<1>7. IsSection(d)
      BY <1>3, <1>6 DEF IsSection
<1>8. Alike(new, d)
  <2>1. \A t \in DOMAIN new : \A k \in Kinds :
           /\ DOMAIN new[t][k] = DOMAIN d[t][k]
           /\ \A i \in DOMAIN new[t][k] : Value(new[t][k][i]) = Value(d[t][k][i])
    <3> TAKE t \in DOMAIN new
    <3> TAKE k \in Kinds
    <3>1. d[t][k] = [i \in DOMAIN new[t][k] |-> e(t, k, i)]
          BY <1>4
    <3>2. DOMAIN new[t][k] = DOMAIN d[t][k]
          BY <3>1
    <3>3. \A i \in DOMAIN new[t][k] : d[t][k][i] = e(t, k, i)
          BY <3>1
    <3> QED BY <1>2, <3>2, <3>3
  <2> QED BY <1>3, <2>1 DEF Alike, GpoList
<1> QED BY <1>7, <1>8 DEF d

\* Optional members.
LEMMA Optional ==
    /\ \A v : Has(v) # Missing /\ Has(v)[1] = v /\ Has(v) # EmptyArray
    /\ EmptyArray # Missing
    /\ \A v, w : Has(v) = Has(w) => v = w
<1>1. \A v : Len(Has(v)) = 1 /\ Has(v)[1] = v
      BY DEF Has
<1>2. Len(Missing) = 0 /\ Len(EmptyArray) = 2
      BY DEF Missing, EmptyArray
<1> QED BY <1>1, <1>2

DenyValues == {Missing} \cup {Has(s) : s \in SUBSET Principals}
RestrictedValues == {Missing, EmptyArray} \cup {Has(x) : x \in Groups}
RightsValues == {Missing} \cup {Has(s) : s \in SUBSET Rights}

LEMMA DenyFits ==
    ASSUME NEW old \in DenyValues, NEW v \in DenyApplySection(old)
    PROVE  v \in DenyValues /\ (old # Missing => v # Missing)
BY Optional DEF DenyApplySection, SetListKeep, PrincipalPicker, DenyValues

LEMMA RightsFit ==
    ASSUME NEW old \in RightsValues, NEW v \in UserRightsSection(old)
    PROVE  v \in RightsValues
<1> DEFINE has == IF old = Missing THEN {} ELSE old[1]
<1>1. has \in SUBSET Rights
      BY Optional DEF RightsValues
<1>2. \/ \E r \in UserRights : v = Has(has \cup {NewRight(r)})
      \/ \E x \in has : v = Has(has \ {x})
      \/ \E x \in has : \E y \in RightCard(x) \cup ConditionalGroups(x) : v = Has((has \ {x}) \cup {y})
      BY DEF UserRightsSection
<1> HIDE DEF has
<1>3. \A r \in UserRights : NewRight(r) \in Rights
      BY DEF NewRight, Rights, Fillings
<1>4. \A x \in Rights : RightCard(x) \cup ConditionalGroups(x) \subseteq Rights
  <2>1. \A x \in Rights : RightCard(x) \subseteq Rights
        BY DEF RightCard, Rights
  <2>2. \A x \in Rights : ConditionalGroups(x) \subseteq Rights
        BY DEF ConditionalGroups, Rights, Refilled
  <2> QED BY <2>1, <2>2
<1>5. \E w \in SUBSET Rights : v = Has(w)
  <2>1. ASSUME NEW r \in UserRights, v = Has(has \cup {NewRight(r)}) PROVE \E w \in SUBSET Rights : v = Has(w)
    <3>1. has \cup {NewRight(r)} \in SUBSET Rights
          BY <1>1, <1>3
    <3> QED BY <2>1, <3>1
  <2>2. ASSUME NEW x \in has, v = Has(has \ {x}) PROVE \E w \in SUBSET Rights : v = Has(w)
    <3>1. has \ {x} \in SUBSET Rights
          BY <1>1
    <3> QED BY <2>2, <3>1
  <2>3. ASSUME NEW x \in has, NEW y \in RightCard(x) \cup ConditionalGroups(x),
               v = Has((has \ {x}) \cup {y})
        PROVE  \E w \in SUBSET Rights : v = Has(w)
    <3>1. (has \ {x}) \cup {y} \in SUBSET Rights
          BY <1>1, <1>4
    <3> QED BY <2>3, <3>1
  <2> QED BY <1>2, <2>1, <2>2, <2>3
<1> QED BY <1>5 DEF RightsValues

LEMMA RestrictedFits ==
    ASSUME NEW old \in RestrictedValues, NEW v \in RestrictedGroupsSection(old)
    PROVE  v \in RestrictedValues /\ (v = old \/ \E x \in Groups : v = Has(x))
<1> DEFINE x == RestrictedAsObject(old)
<1>1. x \in Groups
      BY Optional DEF RestrictedAsObject, RestrictedValues, NoGroups, Groups, Fillings
<1>2. PICK y \in EmptyGroupsPicker(x) \cup MembershipRow(x) : v = SetRestricted(old, y)
      BY DEF RestrictedGroupsSection
<1> HIDE DEF x
<1>3. y \in Groups
  <2>1. EmptyGroupsPicker(x) \subseteq Groups
        BY <1>1 DEF EmptyGroupsPicker, PrincipalPicker, Groups
  <2>2. MembershipRow(x) \subseteq Groups
        BY <1>1 DEF MembershipRow, Refilled, Groups
  <2> QED BY <1>2, <2>1, <2>2
<1>4. v = old \/ v = Has(y)
      BY <1>2 DEF SetRestricted
<1> QED BY <1>3, <1>4 DEF RestrictedValues

LEMMA FieldsFit ==
    ASSUME NEW g \in Gpos, NEW k, NEW v \in ChangedFields(g, k)
    PROVE  /\ v \in Gpos /\ (g.deny # Missing => v.deny # Missing)
           /\ v.restricted = g.restricted \/ \E x \in Groups : v.restricted = Has(x)
<1> DEFINE Fits(w) ==
             /\ w \in Gpos /\ (g.deny # Missing => w.deny # Missing)
             /\ w.restricted = g.restricted \/ \E x \in Groups : w.restricted = Has(x)
<1>1. ASSUME NEW n \in GpoNames, v = [g EXCEPT !.name = n] PROVE Fits(v)
      BY <1>1 DEF Gpos
<1>2. ASSUME NEW m \in Modes, v = [g EXCEPT !.mode = m] PROVE Fits(v)
      BY <1>2 DEF Gpos
<1>3. ASSUME v = [g EXCEPT !.importPath = Has("backup")] PROVE Fits(v)
      BY <1>3 DEF Gpos
<1>4. ASSUME v = [g EXCEPT !.linkOrder = 1] PROVE Fits(v)
  <2>1. 1 \in 0..MaxOrder
        BY BoundsFit
  <2> QED BY <1>4, <2>1 DEF Gpos
<1>5. ASSUME v = [g EXCEPT !.linkEnabled = ~g.linkEnabled] PROVE Fits(v)
      BY <1>5 DEF Gpos
<1>6. ASSUME NEW w \in DenyApplySection(g.deny), v = [g EXCEPT !.deny = w] PROVE Fits(v)
  <2>1. g.deny \in DenyValues
        BY DEF Gpos, DenyValues
  <2>2. w \in DenyValues /\ (g.deny # Missing => w # Missing)
        BY <2>1, DenyFits
  <2> QED BY <1>6, <2>2 DEF Gpos, DenyValues
<1>7. ASSUME NEW w \in UserRightsSection(g.rights), v = [g EXCEPT !.rights = w] PROVE Fits(v)
  <2>1. g.rights \in RightsValues
        BY DEF Gpos, RightsValues
  <2>2. w \in RightsValues
        BY <2>1, RightsFit
  <2> QED BY <1>7, <2>2 DEF Gpos, RightsValues
<1>8. ASSUME NEW w \in RestrictedGroupsSection(g.restricted), v = [g EXCEPT !.restricted = w] PROVE Fits(v)
  <2>1. g.restricted \in RestrictedValues
        BY DEF Gpos, RestrictedValues
  <2>2. w \in RestrictedValues /\ (w = g.restricted \/ \E x \in Groups : w = Has(x))
        BY <2>1, RestrictedFits
  <2>3. v \in Gpos /\ v.deny = g.deny /\ v.restricted = w
        BY <1>8, <2>2 DEF Gpos, RestrictedValues
  <2> QED BY <2>2, <2>3
<1> HIDE DEF Fits
<1>9. v \in GeneralFields(g) => Fits(v)
      BY <1>1, <1>2, <1>3 DEF GeneralFields
<1>10. v \in LinkFields(g) => Fits(v)
      BY <1>4, <1>5 DEF LinkFields
<1>11. v \in Configuration(g) => Fits(v)
      BY <1>6, <1>7, <1>8 DEF Configuration
<1>12. v \in GeneralFields(g) \cup LinkFields(g) \cup Configuration(g)
      BY DEF ChangedFields
<1>13. Fits(v)
      BY <1>9, <1>10, <1>11, <1>12
<1> QED BY <1>13 DEF Fits

LEMMA FinalFits ==
    ASSUME NEW v \in Gpos, NEW r, r = Closed \/ r \in Gpos
    PROVE  Finalized(v, r) \in Gpos
<1> DEFINE path == IF v.mode = "create" /\ (r # Closed => r.mode # "create" \/ r.importPath = Missing)
                   THEN Missing ELSE v.importPath
           deny == IF r # Closed /\ r.deny = Missing /\ v.deny = Has({}) THEN Missing ELSE v.deny
           restricted == IF r # Closed /\ r.restricted \in {Missing, EmptyArray} /\ v.restricted = Has(NoGroups)
                         THEN r.restricted ELSE v.restricted
<1>1. Finalized(v, r) = [v EXCEPT !.importPath = path, !.deny = deny, !.restricted = restricted]
      BY DEF Finalized, Gpos
<1>2. path \in {Missing, Has(""), Has("backup")}
      BY DEF Gpos
<1>3. deny \in DenyValues
      BY DEF Gpos, DenyValues
<1>4. restricted \in RestrictedValues
      BY DEF Gpos, RestrictedValues
<1> HIDE DEF path, deny, restricted
<1> QED BY <1>1, <1>2, <1>3, <1>4 DEF Gpos, DenyValues, RestrictedValues


\* A sheet that shows the GPO as it was opened, but for empty lists, has nothing to apply.
LEMMA NothingToApply ==
    ASSUME NEW o \in Gpos, NEW v \in Gpos, o.deny # Missing => v.deny # Missing,
           v.restricted = o.restricted \/ \E x \in Groups : v.restricted = Has(x),
           SameButEmpty(v, o), o # Closed
    PROVE  Value(Finalized(v, o)) = Value(o)
<1> DEFINE path == IF v.mode = "create" /\ (o # Closed => o.mode # "create" \/ o.importPath = Missing)
                   THEN Missing ELSE v.importPath
           deny == IF o # Closed /\ o.deny = Missing /\ v.deny = Has({}) THEN Missing ELSE v.deny
           restricted == IF o # Closed /\ o.restricted \in {Missing, EmptyArray} /\ v.restricted = Has(NoGroups)
                         THEN o.restricted ELSE v.restricted
           a == [Value(v) EXCEPT !.deny = Missing, !.restricted = Missing]
           b == [Value(o) EXCEPT !.deny = Missing, !.restricted = Missing]
<1>1. Finalized(v, o) = [v EXCEPT !.importPath = path, !.deny = deny, !.restricted = restricted]
      BY DEF Finalized, Gpos
<1>2. a = b /\ Emptied(v.deny, Has({})) = Emptied(o.deny, Has({}))
      /\ Emptied(v.restricted, Has(NoGroups)) = Emptied(o.restricted, Has(NoGroups))
      BY DEF SameButEmpty
<1>3. v.mode = o.mode /\ v.importPath = o.importPath
  <2>1. a.mode = v.mode /\ a.importPath = v.importPath /\ b.mode = o.mode /\ b.importPath = o.importPath
        BY DEF Value, Gpos
  <2> QED BY <1>2, <2>1
<1>4. path = v.importPath
      BY <1>3
<1>5. deny = o.deny
  <2>1. v.deny \in DenyValues /\ o.deny \in DenyValues
        BY DEF Gpos, DenyValues
  <2> QED BY <1>2, <2>1, Optional DEF Emptied, DenyValues
<1>6. restricted = o.restricted
  <2>1. v.restricted \in RestrictedValues /\ o.restricted \in RestrictedValues
        BY DEF Gpos, RestrictedValues
  <2> QED BY <1>2, <2>1, Optional DEF Emptied, RestrictedValues
<1> HIDE DEF path, deny, restricted
<1>7. Finalized(v, o) = [v EXCEPT !.deny = o.deny, !.restricted = o.restricted]
  <2>1. [v EXCEPT !.importPath = v.importPath, !.deny = o.deny, !.restricted = o.restricted]
        = [v EXCEPT !.deny = o.deny, !.restricted = o.restricted]
        BY DEF Gpos
  <2> QED BY <1>1, <1>4, <1>5, <1>6, <2>1
<1>8. Value(Finalized(v, o)) = [a EXCEPT !.deny = o.deny, !.restricted = o.restricted]
      BY <1>7 DEF Value, Gpos
<1>9. Value(o) = [b EXCEPT !.deny = o.deny, !.restricted = o.restricted]
      BY DEF Value, Gpos
<1> HIDE DEF a, b
<1> QED BY <1>2, <1>8, <1>9

-----------------------------------------------------------------------------
\* What holds of the editor: the contents are sections, a dialog holds what it may,
\* and a sheet has not lost a list the GPO had.
GpoSheets ==
    {d \in [is : {"sheet"}, target : GpoTargets, kind : Kinds, index : Nat,
            opened : Gpos \cup {Closed}, reference : Gpos \cup {Closed}, value : Gpos, touched : Nat] :
       d.opened # Closed =>
          /\ d.opened \in Gpos /\ (d.opened.deny # Missing => d.value.deny # Missing)
          /\ \/ d.value.restricted = d.opened.restricted
             \/ \E x \in Groups : d.value.restricted = Has(x)}
GpoAsked == [is : {"remove"}, target : GpoTargets, kind : Kinds, index : Nat, opened : Gpos]
TargetAsked == [is : {"removeTarget"}, target : GpoTargets]
GpoMoves == [is : {"move"}, target : GpoTargets, kind : Kinds, index : Nat, opened : Gpos,
          dest : GpoTargets, into : Kinds]

GpoInv ==
    /\ IsSection(gposStored) /\ IsSection(gposBase) /\ IsSection(gpos)
    /\ gposMade \in Nat /\ gposMade <= MaxMade
    /\ gpoDialog \in {Closed} \cup GpoSheets \cup GpoAsked \cup TargetAsked \cup GpoMoves

UniqueInv == Unique(gposStored) /\ Unique(gposBase) /\ Unique(gpos)

\* While no answer comes in, the dialog that moves a GPO finds it at its place.
MoveInv ==
    gpoDialog.is = "move" =>
        /\ gpoDialog.index \in DOMAIN GpoList(gpos, gpoDialog.target, gpoDialog.kind)
        /\ GpoList(gpos, gpoDialog.target, gpoDialog.kind)[gpoDialog.index] = gpoDialog.opened

LEMMA NotClosed == ASSUME NEW g \in Gpos PROVE g # Closed
<1>1. DOMAIN g = {"name", "mode", "importPath", "linkOrder", "linkEnabled", "deny", "restricted",
                  "rights", "obj"}
      BY DEF Gpos
<1>2. DOMAIN Closed = {"is"}
      BY DEF Closed
<1> QED BY <1>1, <1>2

\* What is in a row.
LEMMA RowFits ==
    ASSUME GpoInv, NEW t \in GpoTargets, NEW k \in Kinds, NEW i \in DOMAIN GpoList(gpos, t, k)
    PROVE  GpoList(gpos, t, k)[i] \in Gpos /\ i \in Nat /\ t \in DOMAIN gpos
<1>1. GpoList(gpos, t, k) \in Seq(Gpos)
      BY GpoListFits DEF GpoInv
<1>2. GpoList(gpos, t, k) # <<>>
      OBVIOUS
<1>3. GpoList(gpos, t, k)[i] \in Gpos /\ i \in Nat
      BY <1>1
<1> QED BY <1>2, <1>3, GpoListFits DEF GpoInv

LEMMA OpenGpoKeeps ==
    ASSUME GpoInv, NEW t \in GpoTargets, NEW k \in Kinds, NEW i \in DOMAIN GpoList(gpos, t, k),
           OpenGpo(t, k, i)
    PROVE  gpoDialog' \in GpoSheets
<1> DEFINE g == GpoList(gpos, t, k)[i]
<1>1. g \in Gpos /\ i \in Nat
      BY RowFits
<1>2. Reference(t, k, g) \in Gpos
  <2> DEFINE entries == GpoList(gposBase, t, k)
             saved == {j \in DOMAIN entries : entries[j].name = g.name}
  <2>1. entries \in Seq(Gpos)
        BY GpoListFits DEF GpoInv
  <2>2. CASE saved = {}
        BY <1>1, <2>2 DEF Reference
  <2>3. CASE saved # {}
    <3>1. saved \subseteq Nat
          BY <2>1
    <3>2. \E j \in saved : \A h \in saved : j <= h
          BY <2>3, <3>1, LeastElement
    <3>3. PICK j \in saved : Reference(t, k, g) = entries[j]
          BY <2>3, <3>2 DEF Reference
    <3> QED BY <2>1, <3>3
  <2> QED BY <2>2, <2>3
<1>3. gpoDialog' = [is |-> "sheet", target |-> t, kind |-> k, index |-> i, opened |-> g,
                    reference |-> Reference(t, k, g), value |-> g, touched |-> 0]
      BY DEF OpenGpo, Sheet
<1> HIDE DEF g
<1> QED BY <1>1, <1>2, <1>3 DEF GpoSheets

LEMMA NewGpoKeeps ==
    ASSUME GpoInv, NEW t \in GpoTargets, NEW k \in Kinds, NewGpoFor(t, k)
    PROVE  gpoDialog' \in GpoSheets
<1> DEFINE ordinal == IF IsLinked(t) THEN NextLinkOrder(gpos, t) ELSE 0
           restricted == IF k = PostConfigure THEN Has(NoGroups) ELSE Missing
           rights == IF k = PostConfigure THEN Has({}) ELSE Missing
           g == NewGpo(gpos, t, k)
<1>1. ordinal \in 0..MaxOrder
  <2>1. NextLinkOrder(gpos, t) \in Nat /\ NextLinkOrder(gpos, t) <= MaxOrder
        BY NextOrderFits DEF GpoInv, NewGpoFor
  <2> QED BY <2>1, BoundsFit
<1>2. restricted \in RestrictedValues
      BY DEF RestrictedValues, NoGroups, Groups, Fillings
<1>3. rights \in RightsValues
      BY DEF RightsValues
<1>4. g = [name |-> "", mode |-> "createAndImport", importPath |-> Has(""), linkOrder |-> ordinal,
           linkEnabled |-> FALSE, deny |-> Missing, restricted |-> restricted, rights |-> rights, obj |-> 0]
      BY DEF NewGpo
<1>5. gpoDialog' = [is |-> "sheet", target |-> t, kind |-> k, index |-> 0, opened |-> Closed,
                    reference |-> Closed, value |-> g, touched |-> 0]
      BY DEF NewGpoFor, Sheet
<1>6. 0 \in 0..MaxMade
      BY BoundsFit
<1> HIDE DEF g, ordinal, restricted, rights
<1>7. g \in Gpos
      BY <1>1, <1>2, <1>3, <1>4, <1>6 DEF Gpos, RestrictedValues, RightsValues, Modes
<1> QED BY <1>5, <1>7 DEF GpoSheets

LEMMA DuplicateKeeps ==
    ASSUME GpoInv, NEW t \in GpoTargets, NEW k \in Kinds, NEW i \in DOMAIN GpoList(gpos, t, k),
           DuplicateGpo(t, k, i)
    PROVE  gpoDialog' \in GpoSheets
<1> DEFINE g == GpoList(gpos, t, k)[i]
           ordinal == IF IsLinked(t) /\ g.linkOrder # 0 THEN NextLinkOrder(gpos, t) ELSE g.linkOrder
<1>1. g \in Gpos
      BY RowFits
<1>2. ordinal \in 0..MaxOrder
  <2>1. NextLinkOrder(gpos, t) \in Nat /\ NextLinkOrder(gpos, t) <= MaxOrder
        BY NextOrderFits DEF GpoInv, DuplicateGpo
  <2>2. g.linkOrder \in 0..MaxOrder
        BY <1>1 DEF Gpos
  <2> QED BY <2>1, <2>2, BoundsFit
<1>3. PICK n \in GpoNames :
         gpoDialog' = [is |-> "sheet", target |-> t, kind |-> k, index |-> 0, opened |-> Closed,
                       reference |-> Closed, value |-> [g EXCEPT !.name = n, !.linkOrder = ordinal],
                       touched |-> 0]
      BY DEF DuplicateGpo, Sheet
<1> HIDE DEF g, ordinal
<1>4. [g EXCEPT !.name = n, !.linkOrder = ordinal] \in Gpos
      BY <1>1, <1>2 DEF Gpos
<1> QED BY <1>3, <1>4 DEF GpoSheets

LEMMA TouchKeeps ==
    ASSUME GpoInv, Touch
    PROVE  gpoDialog' \in GpoSheets
<1>1. gpoDialog \in GpoSheets
      BY DEF GpoInv, Touch, Closed, GpoAsked, TargetAsked, GpoMoves
<1>2. PICK v \in ChangedFields(gpoDialog.value, gpoDialog.kind) :
         gpoDialog' = [gpoDialog EXCEPT !.value = v, !.touched = gpoDialog.touched + 1]
      BY DEF Touch
<1>3. gpoDialog.value \in Gpos
      BY <1>1 DEF GpoSheets
<1>4. /\ v \in Gpos /\ (gpoDialog.value.deny # Missing => v.deny # Missing)
      /\ v.restricted = gpoDialog.value.restricted \/ \E x \in Groups : v.restricted = Has(x)
      BY <1>2, <1>3, FieldsFit
<1>5. PICK d : d = gpoDialog
      OBVIOUS
<1>6. PICK e : e = [d EXCEPT !.value = v, !.touched = d.touched + 1]
      OBVIOUS
<1>7. /\ d \in [is : {"sheet"}, target : GpoTargets, kind : Kinds, index : Nat,
               opened : Gpos \cup {Closed}, reference : Gpos \cup {Closed}, value : Gpos, touched : Nat]
      /\ d.opened # Closed =>
            /\ d.opened \in Gpos /\ (d.opened.deny # Missing => d.value.deny # Missing)
            /\ \/ d.value.restricted = d.opened.restricted
               \/ \E x \in Groups : d.value.restricted = Has(x)
      BY <1>1, <1>5 DEF GpoSheets
<1>8. d.touched + 1 \in Nat
      BY <1>7
<1>9. /\ e \in [is : {"sheet"}, target : GpoTargets, kind : Kinds, index : Nat,
               opened : Gpos \cup {Closed}, reference : Gpos \cup {Closed}, value : Gpos, touched : Nat]
      /\ e.opened = d.opened /\ e.value = v
      BY <1>4, <1>6, <1>7, <1>8
<1>10. e.opened # Closed =>
            /\ e.opened \in Gpos /\ (e.opened.deny # Missing => e.value.deny # Missing)
            /\ \/ e.value.restricted = e.opened.restricted
               \/ \E x \in Groups : e.value.restricted = Has(x)
  <2>1. /\ v.deny # Missing \/ d.value.deny = Missing
        /\ v.restricted = d.value.restricted \/ \E x \in Groups : v.restricted = Has(x)
        BY <1>4, <1>5
  <2> QED BY <2>1, <1>7, <1>9, Zenon
<1>11. e \in GpoSheets
      BY <1>9, <1>10, Zenon DEF GpoSheets
<1> QED BY <1>11, <1>2, <1>5, <1>6

-----------------------------------------------------------------------------
(***************************************************************************)
(* A change of the content: what it leaves, and that a draft equal to the  *)
(* saved version shows the same GPOs at the same places.                   *)
(***************************************************************************)
LEMMA SetContentKeeps ==
    ASSUME GpoInv, NEW c, IsSection(c), SetContent(c)
    PROVE  /\ IsSection(gposStored') /\ IsSection(gposBase') /\ IsSection(gpos')
           /\ gposMade' \in Nat /\ gposMade' <= MaxMade
           /\ Placed(gpos') = Placed(c)
           /\ UniqueInv /\ Unique(c) => UniqueInv'
<1>1. /\ gposMade' = gposMade + 1 /\ gposMade' \in Nat /\ gposMade' <= MaxMade
      /\ gposStored' = gposStored /\ gposBase' = gposBase
  <2>1. gposMade < MaxMade /\ gposMade' = gposMade + 1 /\ gposMade \in Nat
        BY DEF SetContent, GpoInv
  <2>2. gposStored' = gposStored /\ gposBase' = gposBase
        BY DEF SetContent
  <2> QED BY <2>1, <2>2, BoundsFit
<1>2. CASE Values(c) = Values(gposBase)
  <2>1. gpos' = gposBase
        BY <1>2 DEF SetContent, Draft
  <2>2. Alike(c, gposBase)
        BY <1>2, ValuesAlike DEF GpoInv
  <2>3. Placed(c) = Placed(gposBase)
        BY <2>2, AlikePlaced
  <2> QED BY <1>1, <2>1, <2>3 DEF GpoInv, UniqueInv
<1>3. CASE Values(c) # Values(gposBase)
  <2>1. gpos' = c
        BY <1>3 DEF SetContent, Draft
  <2> QED BY <1>1, <2>1 DEF GpoInv, UniqueInv
<1> QED BY <1>2, <1>3

\* The GPO a dialog was opened for is where it is looked up, or it is nowhere.
LEMMA PlaceIs ==
    ASSUME NEW entries, NEW d
    PROVE  \/ Place(entries, d) = 0
           \/ Place(entries, d) \in DOMAIN entries /\ entries[Place(entries, d)] = d.opened
<1> DEFINE spot == {i \in DOMAIN entries : entries[i] = d.opened}
<1>1. CASE d.index \in DOMAIN entries /\ entries[d.index] = d.opened
      BY <1>1 DEF Place
<1>2. CASE ~(d.index \in DOMAIN entries /\ entries[d.index] = d.opened) /\ spot = {}
      BY <1>2 DEF Place
<1>3. CASE ~(d.index \in DOMAIN entries /\ entries[d.index] = d.opened) /\ spot # {}
  <2>1. Place(entries, d) = CHOOSE i \in spot : TRUE
        BY <1>3 DEF Place
  <2>2. (CHOOSE i \in spot : TRUE) \in spot
        BY <1>3, Zenon
  <2> QED BY <2>1, <2>2
<1> QED BY <1>1, <1>2, <1>3

\* What every step shows of the section: its form, names, and which GPOs are gone.
Gone(p) ==
    /\ gpoDialog.is \in {"sheet", "remove", "move"} /\ gpoDialog.opened # Closed
    /\ p = <<gpoDialog.target, gpoDialog.kind, Value(gpoDialog.opened)>>
Sections ==
    /\ IsSection(gposStored') /\ IsSection(gposBase') /\ IsSection(gpos')
    /\ gposMade' \in Nat /\ gposMade' <= MaxMade
    /\ UniqueInv => UniqueInv'

LEMMA AddTargetKeeps ==
    ASSUME GpoInv, NEW t \in GpoTargets, AddTargetKey(t)
    PROVE  Sections
<1>1. t \notin DOMAIN gpos /\ SetContent(AddTarget(gpos, t)) /\ IsSection(gpos)
      BY DEF AddTargetKey, Addable, GpoInv
<1>2. PICK c : c = AddTarget(gpos, t)
      OBVIOUS
<1>3. IsSection(c) /\ \A u : \A k \in Kinds : GpoList(c, u, k) = GpoList(gpos, u, k)
      BY <1>1, <1>2, AddTargetFits
<1>4. Unique(gpos) => Unique(c)
      BY <1>3 DEF Unique
<1> QED BY <1>1, <1>2, <1>3, <1>4, SetContentKeeps DEF Sections, UniqueInv

LEMMA RemoveTargetKeyKeeps ==
    ASSUME GpoInv, RemoveTargetKey
    PROVE  Sections
<1>1. SetContent(RemoveTarget(gpos, gpoDialog.target)) /\ IsSection(gpos)
      BY DEF RemoveTargetKey, GpoInv
<1>2. PICK t : t = gpoDialog.target
      OBVIOUS
<1>3. PICK c : c = RemoveTarget(gpos, t)
      OBVIOUS
<1>4. IsSection(c) /\ \A u : \A k \in Kinds :
         GpoList(c, u, k) = IF u = t THEN <<>> ELSE GpoList(gpos, u, k)
      BY <1>1, <1>3, RemoveTargetFits
<1>5. Unique(gpos) => Unique(c)
      BY <1>4 DEF Unique
<1> QED BY <1>1, <1>2, <1>3, <1>4, <1>5, SetContentKeeps DEF Sections, UniqueInv

LEMMA ToggleLinkKeeps ==
    ASSUME GpoInv, NEW t \in GpoTargets, NEW k \in Kinds, NEW i \in DOMAIN GpoList(gpos, t, k),
           ToggleLink(t, k, i)
    PROVE  Sections
<1>1. PICK o : o = GpoList(gpos, t, k)[i]
      OBVIOUS
<1>2. o \in Gpos /\ i \in Nat /\ t \in DOMAIN gpos /\ IsSection(gpos) /\ gposMade \in Nat
      BY <1>1, RowFits DEF GpoInv
<1>3. PICK g : g = [o EXCEPT !.linkEnabled = ~@]
      OBVIOUS
<1>4. g \in Gpos /\ g.name = o.name
      BY <1>2, <1>3 DEF Gpos
<1>5. gposMade < MaxMade /\ SetContent(ReplaceGpo(gpos, t, k, i, Renewed(g)))
      BY <1>1, <1>3 DEF ToggleLink, SetContent
<1>6. PICK h : h = Renewed(g)
      OBVIOUS
<1>7. h \in Gpos /\ h.name = o.name
      BY <1>2, <1>4, <1>5, <1>6, RenewedFits
<1>8. PICK c : c = ReplaceGpo(gpos, t, k, i, h)
      OBVIOUS
<1>9. IsSection(c) /\ (Unique(gpos) /\ ~TakesName(gpos, t, k, i, h.name) => Unique(c))
      BY <1>2, <1>7, <1>8, ReplaceKeeps
<1>10. Unique(gpos) => ~TakesName(gpos, t, k, i, h.name)
      BY <1>1, <1>7 DEF Unique, TakesName
<1> QED BY <1>5, <1>6, <1>8, <1>9, <1>10, SetContentKeeps DEF Sections, UniqueInv
LEMMA SubmitGpoKeeps ==
    ASSUME GpoInv, SubmitGpo
    PROVE  Sections /\ \A p \in Placed(gpos) \ Placed(gpos') : Gone(p)
<1>1. gpoDialog \in GpoSheets
      BY DEF GpoInv, SubmitGpo, Closed, GpoAsked, TargetAsked, GpoMoves
<1>2. PICK d : d = gpoDialog
      OBVIOUS
<1>3. PICK t, k : t = d.target /\ k = d.kind
      OBVIOUS
<1>4. PICK entries : entries = GpoList(gpos, t, k)
      OBVIOUS
<1>5. PICK final : final = Finalized(d.value, d.reference)
      OBVIOUS
<1>6. PICK spot : spot = IF d.opened = Closed THEN 0 ELSE Place(entries, d)
      OBVIOUS
<1>7. /\ t \in DOMAIN gpos /\ k \in Kinds /\ final \in Gpos /\ IsSection(gpos) /\ gposMade \in Nat
      /\ d.is = "sheet" /\ (d.opened # Closed => d.opened \in Gpos)
  <2>1. t \in DOMAIN gpos
        BY <1>2, <1>3 DEF SubmitGpo
  <2>2. /\ d.value \in Gpos /\ k \in Kinds /\ d.reference \in Gpos \cup {Closed}
        /\ d.is = "sheet" /\ (d.opened # Closed => d.opened \in Gpos)
        BY <1>1, <1>2, <1>3 DEF GpoSheets
  <2>3. final \in Gpos
        BY <2>2, <1>5, FinalFits
  <2> QED BY <2>1, <2>2, <2>3 DEF GpoInv
<1>8. CASE d.opened # Closed /\ spot = 0
  <2>1. UNCHANGED <<gposStored, gposBase, gpos, gposMade>>
        BY <1>2, <1>3, <1>4, <1>6, <1>8 DEF SubmitGpo
  <2> QED BY <2>1 DEF Sections, GpoInv, UniqueInv, Unique, Placed, GpoList
<1>9. CASE ~(d.opened # Closed /\ spot = 0)
  <2>1. /\ ValidGpo(final, gpos, t, k, spot)
        /\ SetContent(IF d.opened = Closed
                      THEN SetGpoList(gpos, t, k, Append(entries, Renewed(final)))
                      ELSE ReplaceGpo(gpos, t, k, spot, Renewed(final)))
        BY <1>2, <1>3, <1>4, <1>5, <1>6, <1>9 DEF SubmitGpo
  <2>2. gposMade < MaxMade
        BY <2>1 DEF SetContent
  <2>3. PICK h : h = Renewed(final)
        OBVIOUS
  <2>4. h \in Gpos /\ h.name = final.name
        BY <1>7, <2>2, <2>3, RenewedFits
  <2>5. ~TakesName(gpos, t, k, spot, h.name)
        BY <2>1, <2>4 DEF ValidGpo
  <2>6. CASE d.opened = Closed
    <3>1. PICK c : c = SetGpoList(gpos, t, k, Append(GpoList(gpos, t, k), h))
          OBVIOUS
    <3>2. IsSection(c) /\ (\A p \in Placed(gpos) : p \in Placed(c))
          /\ (Unique(gpos) /\ ~TakesName(gpos, t, k, 0, h.name) => Unique(c))
          BY <1>7, <2>4, <3>1, AppendKeeps
    <3>3. SetContent(c)
          BY <1>4, <2>1, <2>3, <2>6, <3>1
    <3>4. spot = 0
          BY <1>6, <2>6
    <3> QED BY <2>5, <3>2, <3>3, <3>4, SetContentKeeps DEF Sections, UniqueInv
  <2>7. CASE d.opened # Closed
    <3>1. spot \in DOMAIN entries /\ entries[spot] = d.opened
          BY <1>6, <1>9, <2>7, PlaceIs
    <3>2. PICK c : c = ReplaceGpo(gpos, t, k, spot, h)
          OBVIOUS
    <3>3. /\ IsSection(c)
          /\ \A p \in Placed(gpos) \ Placed(c) : p = <<t, k, Value(GpoList(gpos, t, k)[spot])>>
          /\ Unique(gpos) /\ ~TakesName(gpos, t, k, spot, h.name) => Unique(c)
          BY <1>4, <1>7, <2>4, <3>1, <3>2, ReplaceKeeps
    <3>4. SetContent(c)
          BY <2>1, <2>3, <2>7, <3>2
    <3>5. \A p \in Placed(gpos) \ Placed(gpos') : p = <<t, k, Value(d.opened)>>
          BY <1>4, <3>1, <3>3, <3>4, SetContentKeeps
    <3>6. \A p \in Placed(gpos) \ Placed(gpos') : Gone(p)
          BY <1>2, <1>3, <1>7, <2>7, <3>5 DEF Gone
    <3> QED BY <2>5, <3>3, <3>4, <3>6, SetContentKeeps DEF Sections, UniqueInv
  <2> QED BY <2>6, <2>7
<1> QED BY <1>8, <1>9

LEMMA RemoveGpoKeeps ==
    ASSUME GpoInv, RemoveGpo
    PROVE  Sections /\ \A p \in Placed(gpos) \ Placed(gpos') : Gone(p)
<1>1. gpoDialog \in GpoAsked
      BY DEF GpoInv, RemoveGpo, Closed, GpoSheets, TargetAsked, GpoMoves
<1>2. PICK d : d = gpoDialog
      OBVIOUS
<1>3. PICK t, k : t = d.target /\ k = d.kind
      OBVIOUS
<1>4. PICK entries : entries = GpoList(gpos, t, k)
      OBVIOUS
<1>5. PICK spot : spot = Place(entries, d)
      OBVIOUS
<1>6. k \in Kinds /\ IsSection(gpos) /\ d.is = "remove" /\ d.opened \in Gpos /\ d.opened # Closed
      BY <1>1, <1>2, <1>3, NotClosed DEF GpoAsked, GpoInv
<1>7. CASE spot = 0
  <2>1. UNCHANGED <<gposStored, gposBase, gpos, gposMade>>
        BY <1>2, <1>3, <1>4, <1>5, <1>7 DEF RemoveGpo
  <2> QED BY <2>1 DEF Sections, GpoInv, UniqueInv, Unique, Placed, GpoList
<1>8. CASE spot # 0
  <2>1. spot \in DOMAIN entries /\ entries[spot] = d.opened
        BY <1>5, <1>8, PlaceIs
  <2>2. t \in DOMAIN gpos
    <3>1. entries # <<>>
          BY <2>1
    <3> QED BY <1>4, <1>6, <3>1, GpoListFits
  <2>3. PICK c : c = SetGpoList(gpos, t, k, RemoveAt(GpoList(gpos, t, k), spot))
        OBVIOUS
  <2>4. /\ IsSection(c) /\ (Unique(gpos) => Unique(c))
        /\ \A p \in Placed(gpos) \ Placed(c) : p = <<t, k, Value(GpoList(gpos, t, k)[spot])>>
        BY <1>4, <1>6, <2>1, <2>2, <2>3, RemovalKeeps
  <2>5. SetContent(c)
        BY <1>2, <1>3, <1>4, <1>5, <1>8, <2>3 DEF RemoveGpo
  <2>6. \A p \in Placed(gpos) \ Placed(gpos') : p = <<t, k, Value(d.opened)>>
        BY <1>4, <2>1, <2>4, <2>5, SetContentKeeps
  <2>7. \A p \in Placed(gpos) \ Placed(gpos') : Gone(p)
        BY <1>2, <1>3, <1>6, <2>6 DEF Gone
  <2> QED BY <2>4, <2>5, <2>7, SetContentKeeps DEF Sections, UniqueInv
<1> QED BY <1>7, <1>8

LEMMA MoveLoses ==
    ASSUME NEW c, NEW rest, NEW d, NEW u \in GpoTargets, NEW l \in Kinds, NEW v,
           \A p \in Placed(c) \ Placed(rest) : p = <<u, l, v>>, \A p \in Placed(rest) : p \in Placed(d)
    PROVE  \A p \in Placed(c) \ Placed(d) : p = <<u, l, v>>
OBVIOUS

LEMMA SubmitMoveKeeps ==
    ASSUME GpoInv, SubmitMove
    PROVE  Sections /\ (MoveInv => \A p \in Placed(gpos) \ Placed(gpos') : Gone(p))
<1>1. gpoDialog \in GpoMoves
      BY DEF GpoInv, SubmitMove, Closed, GpoSheets, TargetAsked, GpoAsked
<1>2. PICK d : d = gpoDialog
      OBVIOUS
<1>3. PICK t, k, u, l, i : t = d.target /\ k = d.kind /\ u = d.dest /\ l = d.into /\ i = d.index
      OBVIOUS
<1>4. PICK src : src = GpoList(gpos, t, k)
      OBVIOUS
<1>5. /\ k \in Kinds /\ l \in Kinds /\ u \in GpoTargets /\ IsSection(gpos) /\ d.is = "move"
      /\ d.opened \in Gpos /\ d.opened # Closed /\ gposMade \in Nat
      BY <1>1, <1>2, <1>3, NotClosed DEF GpoMoves, GpoInv
<1>6. i \in DOMAIN src /\ u \in DOMAIN gpos /\ ~Clash(src[i], d)
      BY <1>2, <1>3, <1>4 DEF SubmitMove
<1>7. t \in DOMAIN gpos /\ src[i] \in Gpos
  <2>1. src # <<>>
        BY <1>6
  <2>2. src \in Seq(Gpos) /\ t \in DOMAIN gpos
        BY <1>4, <1>5, <2>1, GpoListFits
  <2> QED BY <1>6, <2>2
<1>8. PICK ordinal : ordinal = NextLinkOrder(gpos, u)
      OBVIOUS
<1>9. PICK rest : rest = SetGpoList(gpos, t, k, RemoveAt(src, i))
      OBVIOUS
<1>10. PICK links : links <=> (u # t /\ IsLinked(u) /\ src[i].linkOrder = 0)
       BY Zenon
<1>11. PICK linked : linked = [src[i] EXCEPT !.linkEnabled = FALSE, !.linkOrder = ordinal]
       OBVIOUS
<1>12. PICK g : g = IF links THEN Renewed(linked) ELSE src[i]
       OBVIOUS
<1>13. (links => g.linkOrder <= MaxOrder) /\ gposMade < MaxMade
       /\ SetContent(SetGpoList(rest, u, l, Append(GpoList(rest, u, l), g)))
  <2>1. (links => g.linkOrder <= MaxOrder)
        /\ SetContent(SetGpoList(rest, u, l, Append(GpoList(rest, u, l), g)))
        BY <1>2, <1>3, <1>4, <1>8, <1>9, <1>10, <1>11, <1>12 DEF SubmitMove
  <2> QED BY <2>1 DEF SetContent
<1>14. g \in Gpos /\ g.name = src[i].name
  <2>1. CASE links
    <3>1. ordinal \in Nat
          BY <1>5, <1>8, NextOrderFits
    <3>2. g.linkOrder = ordinal
          BY <1>7, <1>11, <1>12, <2>1 DEF Renewed, Gpos
    <3>3. ordinal \in 0..MaxOrder
          BY <1>13, <2>1, <3>1, <3>2, BoundsFit
    <3>4. linked \in Gpos /\ linked.name = src[i].name
          BY <1>7, <1>11, <3>3 DEF Gpos
    <3> QED BY <1>5, <1>12, <1>13, <2>1, <3>4, RenewedFits
  <2>2. CASE ~links
        BY <1>7, <1>12, <2>2
  <2> QED BY <2>1, <2>2
<1>15. /\ IsSection(rest) /\ DOMAIN rest = DOMAIN gpos
       /\ \A p \in Placed(gpos) \ Placed(rest) : p = <<t, k, Value(src[i])>>
       /\ Unique(gpos) => Unique(rest)
       /\ Unique(gpos) =>
             \A m \in Kinds : \A j \in DOMAIN GpoList(rest, t, m) :
                GpoList(rest, t, m)[j].name # src[i].name
       /\ u # t => \A m \in Kinds : GpoList(rest, u, m) = GpoList(gpos, u, m)
       BY <1>4, <1>5, <1>6, <1>7, <1>9, RemovalKeeps
<1>16. Unique(gpos) => ~TakesName(rest, u, l, 0, g.name)
  <2>1. CASE u = t
        BY <1>14, <1>15, <2>1 DEF TakesName
  <2>2. CASE u # t
    <3>1. ~TakesName(gpos, u, k, 0, src[i].name)
          BY <1>3, <1>6, <2>2 DEF Clash
    <3>2. \A m \in Kinds : \A j \in DOMAIN GpoList(gpos, u, m) : j # 0
          BY <1>5, GpoListFits
    <3>3. \A m \in Kinds : \A j \in DOMAIN GpoList(gpos, u, m) :
             GpoList(gpos, u, m)[j].name # src[i].name
          BY <3>1, <3>2 DEF TakesName
    <3> QED BY <1>14, <1>15, <2>2, <3>3 DEF TakesName
  <2> QED BY <2>1, <2>2
<1>17. PICK c : c = SetGpoList(rest, u, l, Append(GpoList(rest, u, l), g))
       OBVIOUS
<1>18. /\ IsSection(c) /\ \A p \in Placed(rest) : p \in Placed(c)
       /\ Unique(rest) /\ ~TakesName(rest, u, l, 0, g.name) => Unique(c)
       BY <1>5, <1>6, <1>14, <1>15, <1>17, AppendKeeps
<1>19. Placed(gpos') = Placed(c)
       BY <1>13, <1>17, <1>18, SetContentKeeps
<1>20. \A p \in Placed(gpos) \ Placed(gpos') : p = <<t, k, Value(src[i])>>
       BY <1>15, <1>18, <1>19
<1>21. MoveInv => src[i] = d.opened
       BY <1>2, <1>3, <1>4, <1>5 DEF MoveInv
<1>22. MoveInv => \A p \in Placed(gpos) \ Placed(gpos') : Gone(p)
       BY <1>2, <1>3, <1>5, <1>20, <1>21 DEF Gone
<1> QED BY <1>13, <1>15, <1>16, <1>17, <1>18, <1>22, SetContentKeeps DEF Sections, UniqueInv

-----------------------------------------------------------------------------
(***************************************************************************)
(* The steps of the service.                                               *)
(***************************************************************************)
LEMMA OthersSaveKeeps ==
    ASSUME GpoInv, NEW c \in GposOffered, OthersSaveGpos(c)
    PROVE  /\ IsSection(gposStored') /\ UNCHANGED <<gposBase, gpos, gposMade>>
           /\ UniqueInv /\ UniqueNames(c) => UniqueInv'
<1>1. gposStored' = c /\ UNCHANGED <<gposBase, gpos, gposMade>> /\ IsSection(c)
      BY OfferedFits DEF OthersSaveGpos
<1> QED BY <1>1, UniqueIs DEF UniqueInv

LEMMA RefetchKeeps ==
    ASSUME GpoInv, Refetch
    PROVE  Sections
<1>1. PICK s : s = Shared(gposStored, gposBase)
      OBVIOUS
<1>2. /\ gposMade < MaxMade /\ gposMade' = gposMade + 1 /\ gposMade \in Nat
      /\ gposBase' = s /\ (gpos' = gpos \/ gpos' = s) /\ gposStored' = gposStored
      BY <1>1 DEF Refetch, GpoInv
<1>3. IsSection(s) /\ Alike(gposStored, s) /\ IsSection(gposStored)
      BY <1>1, <1>2, SharedFits DEF GpoInv
<1>4. Unique(gposStored) => Unique(s)
      BY <1>3, AlikeUnique
<1>5. gposMade' \in Nat /\ gposMade' <= MaxMade
      BY <1>2, BoundsFit
<1> QED BY <1>2, <1>3, <1>4, <1>5 DEF Sections, UniqueInv, GpoInv

LEMMA SaveGposKeeps ==
    ASSUME GpoInv, SaveGpos
    PROVE  Sections
<1>1. PICK s : s = Shared(gpos, gposBase)
      OBVIOUS
<1>2. /\ gposMade < MaxMade /\ gposMade' = gposMade + 1 /\ gposMade \in Nat
      /\ gposBase' = s /\ gpos' = s /\ gposStored' = gpos
      BY <1>1 DEF SaveGpos, GpoInv
<1>3. IsSection(s) /\ Alike(gpos, s) /\ IsSection(gpos)
      BY <1>1, <1>2, SharedFits DEF GpoInv
<1>4. Unique(gpos) => Unique(s)
      BY <1>3, AlikeUnique
<1>5. gposMade' \in Nat /\ gposMade' <= MaxMade
      BY <1>2, BoundsFit
<1> QED BY <1>2, <1>3, <1>4, <1>5 DEF Sections, UniqueInv

-----------------------------------------------------------------------------
(***************************************************************************)
(* Every step opens a dialog, changes it, closes it, changes the content   *)
(* with no dialog open, or is one of the service.                          *)
(***************************************************************************)
GpoDialogs == {Closed} \cup GpoSheets \cup GpoAsked \cup TargetAsked \cup GpoMoves
Same == UNCHANGED <<gposStored, gposBase, gpos, gposMade>>
OpensDialog == Quiet /\ Same /\ gpoDialog' \in GpoDialogs /\ gpoDialog'.is # "closed" /\ MoveInv'
AltersDialog ==
    /\ gpoDialog.is # "closed" /\ Same /\ gpoDialog' \in GpoDialogs /\ gpoDialog'.is = gpoDialog.is
    /\ MoveInv => MoveInv'
ClosesDialog ==
    /\ gpoDialog' = Closed /\ Sections
    /\ MoveInv /\ gpoDialog.is \in {"sheet", "remove", "move"} =>
          \A p \in Placed(gpos) \ Placed(gpos') : Gone(p)
EditsContent == Quiet /\ gpoDialog' = gpoDialog /\ Sections
AnswersCome ==
    /\ gpoDialog' = gpoDialog
    /\ Disturbs /\ Sections
OthersSaved ==
    \E c \in GposOffered :
        /\ UNCHANGED <<gposBase, gpos, gpoDialog, gposMade>> /\ IsSection(gposStored')
        /\ UniqueInv /\ UniqueNames(c) => UniqueInv'

\* What a dialog is called.
LEMMA GpoDialogIs ==
    /\ Closed.is = "closed"
    /\ \A d \in GpoSheets : d.is = "sheet"
    /\ \A d \in GpoAsked : d.is = "remove"
    /\ \A d \in TargetAsked : d.is = "removeTarget"
    /\ \A d \in GpoMoves : d.is = "move"
BY DEF Closed, GpoSheets, GpoAsked, TargetAsked, GpoMoves

LEMMA MoveKindOpens ==
    ASSUME GpoInv, NEW t \in GpoTargets, NEW k \in Kinds, NEW i \in DOMAIN GpoList(gpos, t, k),
           MoveKind(t, k, i)
    PROVE  OpensDialog
<1>1. PICK g : g = GpoList(gpos, t, k)[i]
      OBVIOUS
<1>2. g \in Gpos /\ i \in Nat
      BY <1>1, RowFits
<1>3. PICK l : l = IF k = ImportOnly THEN PostConfigure ELSE ImportOnly
      OBVIOUS
<1>4. l \in Kinds
      BY <1>3 DEF Kinds
<1>5. PICK d : d = [is |-> "move", target |-> t, kind |-> k, index |-> i, opened |-> g,
                    dest |-> t, into |-> l]
      OBVIOUS
<1>6. gpoDialog' = d /\ Quiet /\ Same
      BY <1>1, <1>3, <1>5 DEF MoveKind, OfGpo, MayChange, Same
<1>7. d \in GpoMoves
      BY <1>2, <1>4, <1>5 DEF GpoMoves
<1>8. MoveInv'
  <2>1. GpoList(gpos', t, k) = GpoList(gpos, t, k)
        BY <1>6 DEF Same
  <2>2. d.target = t /\ d.kind = k /\ d.index = i /\ d.opened = g
        BY <1>5
  <2> QED BY <1>1, <1>6, <2>1, <2>2 DEF MoveInv
<1> QED BY <1>6, <1>7, <1>8, GpoDialogIs DEF OpensDialog, GpoDialogs

LEMMA AskRemoveOpens ==
    ASSUME GpoInv, NEW t \in GpoTargets, NEW k \in Kinds, NEW i \in DOMAIN GpoList(gpos, t, k),
           AskRemove(t, k, i)
    PROVE  OpensDialog
<1>1. PICK g : g = GpoList(gpos, t, k)[i]
      OBVIOUS
<1>2. g \in Gpos /\ i \in Nat
      BY <1>1, RowFits
<1>3. PICK d : d = [is |-> "remove", target |-> t, kind |-> k, index |-> i, opened |-> g]
      OBVIOUS
<1>4. gpoDialog' = d /\ Quiet /\ Same
      BY <1>1, <1>3 DEF AskRemove, OfGpo, MayChange, Same
<1>5. d \in GpoAsked
      BY <1>2, <1>3 DEF GpoAsked
<1> QED BY <1>4, <1>5, GpoDialogIs DEF OpensDialog, GpoDialogs, MoveInv

LEMMA OpensSheet ==
    ASSUME Quiet, Same, gpoDialog' \in GpoSheets
    PROVE  OpensDialog
BY GpoDialogIs DEF OpensDialog, GpoDialogs, MoveInv

LEMMA ChooseAlters ==
    ASSUME GpoInv, NEW t \in GpoTargets, NEW k \in Kinds, ChooseDestination(t, k)
    PROVE  AltersDialog
<1>1. gpoDialog \in GpoMoves
      BY DEF GpoInv, ChooseDestination, Closed, GpoSheets, TargetAsked, GpoAsked
<1>2. PICK d : d = gpoDialog
      OBVIOUS
<1>3. PICK e : e = [d EXCEPT !.dest = t, !.into = k]
      OBVIOUS
<1>4. gpoDialog' = e /\ Same
      BY <1>2, <1>3 DEF ChooseDestination, Same
<1>5. /\ e \in GpoMoves /\ e.target = d.target /\ e.kind = d.kind /\ e.index = d.index
      /\ e.opened = d.opened
      BY <1>1, <1>2, <1>3 DEF GpoMoves
<1>6. MoveInv => MoveInv'
  <2>1. GpoList(gpos', e.target, e.kind) = GpoList(gpos, d.target, d.kind)
        BY <1>4, <1>5 DEF Same
  <2> QED BY <1>1, <1>2, <1>4, <1>5, <2>1, GpoDialogIs DEF MoveInv
<1> QED BY <1>1, <1>4, <1>5, <1>6, GpoDialogIs DEF AltersDialog, GpoDialogs

LEMMA TouchAlters ==
    ASSUME GpoInv, Touch
    PROVE  AltersDialog
<1>1. gpoDialog.is = "sheet" /\ Same
      BY DEF Touch, Same
<1>2. gpoDialog' \in GpoSheets
      BY TouchKeeps
<1>3. MoveInv'
      BY <1>2, GpoDialogIs DEF MoveInv
<1> QED BY <1>1, <1>2, <1>3, GpoDialogIs DEF AltersDialog, GpoDialogs

LEMMA NothingChanged ==
    ASSUME GpoInv, Same
    PROVE  Sections /\ \A p \in Placed(gpos) \ Placed(gpos') : Gone(p)
BY DEF Sections, GpoInv, UniqueInv, Unique, Placed, GpoList, Same

LEMMA GpoCases ==
    ASSUME GpoInv, GpoNext
    PROVE  OpensDialog \/ AltersDialog \/ ClosesDialog \/ EditsContent \/ AnswersCome \/ OthersSaved
<1>1. ASSUME NEW t \in GpoTargets, NEW k \in Kinds, NEW i \in DOMAIN GpoList(gpos, t, k),
             OpenGpo(t, k, i)
      PROVE  OpensDialog
      BY <1>1, OpenGpoKeeps, OpensSheet DEF OpenGpo, OfGpo, MayChange, Same
<1>2. ASSUME NEW t \in GpoTargets, NEW k \in Kinds, NEW i \in DOMAIN GpoList(gpos, t, k),
             DuplicateGpo(t, k, i)
      PROVE  OpensDialog
      BY <1>2, DuplicateKeeps, OpensSheet DEF DuplicateGpo, OfGpo, MayChange, Same
<1>3. ASSUME NEW t \in GpoTargets, NEW k \in Kinds, NEW i \in DOMAIN GpoList(gpos, t, k),
             ToggleLink(t, k, i)
      PROVE  EditsContent
      BY <1>3, ToggleLinkKeeps DEF EditsContent, ToggleLink
<1>4. ASSUME NEW t \in GpoTargets, NEW k \in Kinds, NewGpoFor(t, k)
      PROVE  OpensDialog
      BY <1>4, NewGpoKeeps, OpensSheet DEF NewGpoFor, OfTarget, MayChange, Same
<1>5. ASSUME NEW t \in GpoTargets, AddTargetKey(t)
      PROVE  EditsContent
      BY <1>5, AddTargetKeeps DEF EditsContent, AddTargetKey
<1>6. ASSUME NEW t \in GpoTargets, AskRemoveTarget(t)
      PROVE  OpensDialog
  <2>1. PICK d : d = [is |-> "removeTarget", target |-> t]
        OBVIOUS
  <2>2. gpoDialog' = d /\ Quiet /\ Same
        BY <1>6, <2>1 DEF AskRemoveTarget, OfTarget, MayChange, Same
  <2>3. d \in TargetAsked
        BY <2>1 DEF TargetAsked
  <2> QED BY <2>2, <2>3, GpoDialogIs DEF OpensDialog, GpoDialogs, MoveInv
<1>7. CASE SubmitGpo
  <2>1. gpoDialog' = Closed
        BY <1>7 DEF SubmitGpo
  <2> QED BY <1>7, <2>1, SubmitGpoKeeps DEF ClosesDialog
<1>8. CASE RemoveGpo
  <2>1. gpoDialog' = Closed
        BY <1>8 DEF RemoveGpo
  <2> QED BY <1>8, <2>1, RemoveGpoKeeps DEF ClosesDialog
<1>9. CASE SubmitMove
  <2>1. gpoDialog' = Closed
        BY <1>9 DEF SubmitMove
  <2> QED BY <1>9, <2>1, SubmitMoveKeeps DEF ClosesDialog
<1>10. CASE RemoveTargetKey
  <2>1. gpoDialog' = Closed /\ gpoDialog.is = "removeTarget"
        BY <1>10 DEF RemoveTargetKey
  <2> QED BY <1>10, <2>1, RemoveTargetKeyKeeps DEF ClosesDialog
<1>11. CASE CloseDialog
  <2>1. gpoDialog' = Closed /\ Same
        BY <1>11 DEF CloseDialog, Same
  <2> QED BY <2>1, NothingChanged DEF ClosesDialog
<1>12. ASSUME NEW c \in GposOffered, OthersSaveGpos(c)
       PROVE  OthersSaved
  <2>1. UNCHANGED gpoDialog
        BY <1>12 DEF OthersSaveGpos
  <2> QED BY <1>12, <2>1, OthersSaveKeeps DEF OthersSaved
<1>13. CASE Refetch
       BY <1>13, RefetchKeeps DEF AnswersCome, Refetch
<1>14. CASE SaveGpos
       BY <1>14, SaveGposKeeps DEF AnswersCome, SaveGpos
<1>15. CASE DiscardGpos
  <2>1. Quiet /\ gpos' = gposBase /\ UNCHANGED <<gposStored, gposBase, gpoDialog, gposMade>>
        BY <1>15 DEF DiscardGpos
  <2> QED BY <2>1 DEF EditsContent, Sections, GpoInv, UniqueInv
<1>16. ASSUME NEW t \in GpoTargets, NEW k \in Kinds, NEW i \in DOMAIN GpoList(gpos, t, k),
              OpenGpo(t, k, i) \/ DuplicateGpo(t, k, i) \/ ToggleLink(t, k, i)
                 \/ AskRemove(t, k, i) \/ MoveKind(t, k, i)
       PROVE  OpensDialog \/ EditsContent
       BY <1>16, <1>1, <1>2, <1>3, AskRemoveOpens, MoveKindOpens
<1>17. ASSUME NEW t \in GpoTargets, NEW k \in Kinds, ChooseDestination(t, k)
       PROVE  AltersDialog
       BY <1>17, ChooseAlters
<1>18. CASE Touch
       BY <1>18, TouchAlters
<1> QED BY <1>4, <1>5, <1>6, <1>7, <1>8, <1>9, <1>10, <1>11, <1>12, <1>13, <1>14, <1>15, <1>16,
           <1>17, <1>18 DEF GpoNext

\* The editor's invariant, for the names and for the move dialog as well.
LEMMA GpoStep ==
    ASSUME GpoInv, [GpoNext]_gpoVars
    PROVE  GpoInv'
<1>1. CASE GpoNext
  <2>1. GpoInv' <=> (/\ IsSection(gposStored') /\ IsSection(gposBase') /\ IsSection(gpos')
                     /\ gposMade' \in Nat /\ gposMade' <= MaxMade
                     /\ gpoDialog' \in GpoDialogs)
        BY DEF GpoInv, GpoDialogs
  <2>2. CASE OpensDialog
        BY <2>1, <2>2 DEF OpensDialog, Same, GpoInv
  <2>3. CASE AltersDialog
        BY <2>1, <2>3 DEF AltersDialog, Same, GpoInv
  <2>4. CASE ClosesDialog
        BY <2>1, <2>4 DEF ClosesDialog, Sections, GpoDialogs
  <2>5. CASE EditsContent
        BY <2>1, <2>5 DEF EditsContent, Sections, GpoInv, GpoDialogs
  <2>6. CASE AnswersCome
        BY <2>1, <2>6 DEF AnswersCome, Sections, GpoInv, GpoDialogs
  <2>7. CASE OthersSaved
        BY <2>1, <2>7 DEF OthersSaved, GpoInv, GpoDialogs
  <2> QED BY <1>1, <2>2, <2>3, <2>4, <2>5, <2>6, <2>7, GpoCases
<1>2. CASE UNCHANGED gpoVars
      BY <1>2 DEF GpoInv, gpoVars
<1> QED BY <1>1, <1>2

LEMMA UniqueStep ==
    ASSUME GpoInv, UniqueInv, \A c \in GposOffered : UniqueNames(c), [GpoNext]_gpoVars
    PROVE  UniqueInv'
<1>1. Same => UniqueInv'
      BY DEF Same, UniqueInv
<1>2. UNCHANGED gpoVars => Same
      BY DEF Same, gpoVars
<1> QED BY <1>1, <1>2, GpoCases DEF OpensDialog, AltersDialog, ClosesDialog, EditsContent, AnswersCome, OthersSaved, Sections

LEMMA MoveStep ==
    ASSUME QuietMoves, GpoInv, MoveInv, [GpoNext]_gpoVars
    PROVE  MoveInv'
<1>1. CASE gpoDialog'.is # "move"
      BY <1>1 DEF MoveInv
<1>2. CASE gpos' = gpos /\ gpoDialog' = gpoDialog
      BY <1>2 DEF MoveInv
<1>3. Closed.is = "closed"
      BY GpoDialogIs
<1>4. OpensDialog \/ AltersDialog => MoveInv'
      BY DEF OpensDialog, AltersDialog
<1>5. ClosesDialog \/ EditsContent => gpoDialog' = Closed
      BY DEF ClosesDialog, EditsContent, Quiet
<1>6. AnswersCome => gpoDialog'.is # "move"
      BY DEF AnswersCome, Disturbs
<1>7. OthersSaved \/ UNCHANGED gpoVars => gpos' = gpos /\ gpoDialog' = gpoDialog
      BY DEF OthersSaved, gpoVars
<1> QED BY <1>1, <1>2, <1>3, <1>4, <1>5, <1>6, <1>7, GpoCases

LEMMA OpenedStep ==
    ASSUME GpoInv, MoveInv, [GpoNext]_gpoVars,
           gpoDialog.is \in {"sheet", "remove", "move"}, gpoDialog' = Closed
    PROVE  \A p \in Placed(gpos) \ Placed(gpos') :
             /\ gpoDialog.opened # Closed
             /\ p = <<gpoDialog.target, gpoDialog.kind, Value(gpoDialog.opened)>>
<1>1. Closed.is = "closed"
      BY GpoDialogIs
<1>2. ClosesDialog
  <2>1. ~OpensDialog /\ ~AltersDialog /\ ~EditsContent
        BY <1>1 DEF OpensDialog, AltersDialog, EditsContent, Quiet
  <2>2. ~AnswersCome /\ ~OthersSaved /\ ~UNCHANGED gpoVars
        BY <1>1 DEF AnswersCome, OthersSaved, gpoVars
  <2> QED BY <2>1, <2>2, GpoCases
<1> QED BY <1>2 DEF ClosesDialog, Gone

LEMMA GpoInitFits ==
    ASSUME GpoInit
    PROVE  GpoInv /\ MoveInv /\ ((\A c \in GposOffered : UniqueNames(c)) => UniqueInv)
<1>1. /\ IsSection(gposStored) /\ gposBase = gposStored /\ gpos = gposStored
      /\ gpoDialog = Closed /\ gposMade = 0 /\ gposStored \in GposOffered
      BY OfferedFits DEF GpoInit
<1>2. GpoInv
      BY <1>1, BoundsFit DEF GpoInv
<1>3. MoveInv
      BY <1>1, GpoDialogIs DEF MoveInv
<1>4. (\A c \in GposOffered : UniqueNames(c)) => UniqueInv
      BY <1>1, UniqueIs DEF UniqueInv
<1> QED BY <1>2, <1>3, <1>4

\* What the editor's invariants say of the properties.
LEMMA GpoInvSays ==
    ASSUME GpoInv
    PROVE  GpoType /\ NothingNeedless /\ (UniqueInv => GposAreUnique)
<1>1. GpoType
  <2>1. gpoDialog.is \in {"closed", "sheet", "move", "remove", "removeTarget"}
        BY GpoDialogIs DEF GpoInv
  <2>2. gpoDialog.is = "sheet" => gpoDialog \in GpoSheets
        BY GpoDialogIs DEF GpoInv
  <2>3. gpoDialog.is = "sheet" => gpoDialog.value \in Gpos
        BY <2>2 DEF GpoSheets
  <2>4. gposMade \in 0..MaxMade
        BY BoundsFit DEF GpoInv
  <2> QED BY <2>1, <2>3, <2>4 DEF GpoInv, GpoType
<1>2. NothingNeedless
  <2>1. SUFFICES ASSUME gpoDialog.is = "sheet", gpoDialog.opened # Closed,
                        gpoDialog.reference = gpoDialog.opened,
                        SameButEmpty(gpoDialog.value, gpoDialog.opened)
                 PROVE  ~Changed(gpoDialog)
        BY DEF NothingNeedless
  <2>2. gpoDialog \in GpoSheets
        BY <2>1, GpoDialogIs DEF GpoInv
  <2>3. PICK o, v : o = gpoDialog.opened /\ v = gpoDialog.value
        OBVIOUS
  <2>4. /\ o \in Gpos /\ v \in Gpos /\ (o.deny # Missing => v.deny # Missing)
        /\ v.restricted = o.restricted \/ \E x \in Groups : v.restricted = Has(x)
        BY <2>1, <2>2, <2>3 DEF GpoSheets
  <2>5. Value(Finalized(v, o)) = Value(o)
        BY <2>1, <2>3, <2>4, NothingToApply
  <2> QED BY <2>1, <2>3, <2>5 DEF Changed
<1>3. UniqueInv => GposAreUnique
      BY UniqueIs DEF UniqueInv, GposAreUnique, GpoInv
<1> QED BY <1>1, <1>2, <1>3

-----------------------------------------------------------------------------
(***************************************************************************)
(* All pages together: a behaviour stays on the page it begins with, and   *)
(* what happens there is what the page's own module says.                  *)
(***************************************************************************)
\* What the service holds of the group policy section has no name twice in a target.
OffersAreUnique == \A c \in GposOffered : UniqueNames(c)

\* What the page that is visited keeps; of the deploy page when the domain is
\* not switched below an open question, of the assistants when no OU on the way to
\* the one that is renamed goes away, of the GPOs' move dialog when no answer comes in.
PagesInv ==
    /\ at = "run" => RunPageInv
    /\ at = "deploy" /\ QuietDialogs => DeployPageInv
    /\ at = "forms" => FormsInv
    /\ at = "lists" => ListsInv
    /\ at = "import" => ImportInv
    /\ at = "session" => SessionInv
    /\ at = "assistants" /\ QuietRename /\ HangsTogether(Start) => AssistInv
    /\ at = "gpos" => /\ GpoInv
                      /\ OffersAreUnique => UniqueInv
                      /\ QuietMoves => MoveInv

LEMMA PageStays == [WebNext]_webVars => at' = at
BY DEF WebNext, webVars

LEMMA RunSteps == at = "run" /\ [WebNext]_webVars => [RunPageNext]_runPageVars
BY DEF WebNext, webVars

LEMMA DeploySteps == at = "deploy" /\ [WebNext]_webVars => [DeployNext]_deployVars
BY DEF WebNext, webVars

LEMMA FormsSteps == at = "forms" /\ [WebNext]_webVars => [FormsNext]_formVars
BY DEF WebNext, webVars

LEMMA FormsRest == at # "forms" /\ [WebNext]_webVars => UNCHANGED formVars
BY DEF WebNext, webVars

LEMMA ListsSteps == at = "lists" /\ [WebNext]_webVars => [ListsNext]_listVars
BY DEF WebNext, webVars

LEMMA ImportSteps == at = "import" /\ [WebNext]_webVars => [ImportNext]_importVars
BY DEF WebNext, webVars

LEMMA SessionSteps == at = "session" /\ [WebNext]_webVars => [SessionNext]_sessionVars
BY DEF WebNext, webVars

LEMMA AssistantSteps == at = "assistants" /\ [WebNext]_webVars => [AssistantNext]_assistantVars
BY DEF WebNext, webVars

LEMMA AssistantsRest == at # "assistants" /\ [WebNext]_webVars => UNCHANGED assistantVars
BY DEF WebNext, webVars

LEMMA GpoSteps == at = "gpos" /\ [WebNext]_webVars => [GpoNext]_gpoVars
BY DEF WebNext, webVars

LEMMA GposRest == at # "gpos" /\ [WebNext]_webVars => UNCHANGED gpoVars
BY DEF WebNext, webVars

LEMMA PagesInvInit == WebInit => PagesInv
<1> SUFFICES ASSUME WebInit PROVE PagesInv
    OBVIOUS
<1>1. /\ at = "run" => RunPageInit
      /\ at = "deploy" => DeployInit
      /\ at = "forms" => FormsInit
      /\ at = "lists" => ListsInit
      /\ at = "import" => ImportInit
      /\ at = "session" => SessionInit
      /\ at = "assistants" => AssistantInit
      /\ at = "gpos" => GpoInit
      BY DEF WebInit
<1> QED BY <1>1, AssistInitFits, GpoInitFits, RunPageInvInit, DeployPageInvInit, FormsInvInit, ListsInvInit, ImportInvInit,
           SessionInvInit DEF PagesInv, OffersAreUnique

LEMMA PagesInvStep == PagesInv /\ [WebNext]_webVars => PagesInv'
<1> SUFFICES ASSUME PagesInv, [WebNext]_webVars PROVE PagesInv'
    OBVIOUS
<1>1. at' = at
      BY PageStays
<1>2. at = "run" => RunPageInv'
      BY RunSteps, RunPageInvStep DEF PagesInv
<1>3. at = "deploy" /\ QuietDialogs => DeployPageInv'
      BY DeploySteps, DeployPageInvStep DEF PagesInv
<1>4. at = "forms" => FormsInv'
      BY FormsSteps, FormsInvStep DEF PagesInv
<1>5. at = "lists" => ListsInv'
      BY ListsSteps, ListsInvStep DEF PagesInv
<1>6. at = "import" => ImportInv'
      BY ImportSteps, ImportInvStep DEF PagesInv
<1>7. at = "session" => SessionInv'
      BY SessionSteps, SessionInvStep DEF PagesInv
<1>8. at = "assistants" /\ QuietRename /\ HangsTogether(Start) => AssistInv'
      BY AssistantSteps, AssistStep DEF PagesInv
<1>9. at = "gpos" => GpoInv'
      BY GpoSteps, GpoStep DEF PagesInv
<1>10. at = "gpos" /\ OffersAreUnique => UniqueInv'
       BY GpoSteps, UniqueStep DEF PagesInv, OffersAreUnique
<1>11. at = "gpos" /\ QuietMoves => MoveInv'
       BY GpoSteps, MoveStep DEF PagesInv
<1> QED BY <1>1, <1>2, <1>3, <1>4, <1>5, <1>6, <1>7, <1>8, <1>9, <1>10, <1>11 DEF PagesInv

LEMMA PagesAlwaysFit == WebSpec => []PagesInv
<1> QED BY PagesInvInit, PagesInvStep, PTL DEF WebSpec

\* What the run page and the lists show is what the service has: the log is that of
\* the run, without a gap and complete at its end, however its pages, polls and the
\* navigation overtake one another, and a list with nothing on its way is up to date.
THEOREM PagesAlwaysCatchUp == WebSpec => []PagesCatchUp
<1>1. PagesInv => PagesCatchUp
      BY RunPageInvShows, ListsInvShows DEF PagesInv, PagesCatchUp
<1> QED BY PagesAlwaysFit, <1>1, PTL

\* A deployment is ordered with what the question named, for the domain it named,
\* and as a request the service can carry out, when the domain is not switched
\* below an open question.
THEOREM OrdersAsConfirmed == ASSUME QuietDialogs PROVE WebSpec => []DeployOrders
<1>1. PagesInv => DeployOrders
      BY DeployPageInvShows DEF PagesInv, DeployOrders
<1> QED BY PagesAlwaysFit, <1>1, PTL

\* An import replaces what was shown by what was shown, leaves out what was
\* unticked, and shows the problems of the selection.
THEOREM AlwaysShowsWhatItDoes == WebSpec => []ShowsWhatItDoes
<1>1. PagesInv => ShowsWhatItDoes
      BY ImportInvShows DEF PagesInv, ShowsWhatItDoes
<1> QED BY PagesAlwaysFit, <1>1, PTL

\* No session outlives the state of its account, and the token of the page is that
\* of its session.
THEOREM SessionsAlwaysFit == WebSpec => []SessionsFit
<1>1. PagesInv => SessionsFit
      BY SessionInvShows DEF PagesInv, SessionsFit
<1> QED BY PagesAlwaysFit, <1>1, PTL

\* A stored secret is kept, replaced or removed as the form showed when it was sent.
THEOREM SecretsAreSavedAsShown == WebSpec => SecretAsShown
<1>1. ASSUME PagesInv, [WebNext]_webVars
      PROVE  [sending # NotSending /\ sending' = NotSending /\ stored' # stored =>
                stored'.secret = Told(sending.shown, sending.type, stored.secret)]_formVars
  <2>1. CASE at = "forms"
        BY <1>1, <2>1, FormsSteps, SavesAsShown DEF PagesInv
  <2>2. CASE at # "forms"
        BY <1>1, <2>2, FormsRest
  <2> QED BY <2>1, <2>2
<1> QED BY PagesAlwaysFit, <1>1, PTL DEF WebSpec, SecretAsShown

\* The draft hangs together whatever the assistants add and whatever is renamed, and a
\* rename reaches the OU its dialog was opened for, when no OU on the way to it goes
\* away meanwhile; no target has two GPOs of one name, and a sheet that was filled and
\* emptied again has nothing to apply.
THEOREM DraftsAlwaysHangTogether ==
    ASSUME QuietRename, HangsTogether(Start), OffersAreUnique
    PROVE  WebSpec => []DraftsHangTogether
<1>1. PagesInv => DraftsHangTogether
      BY AssistInvType, GpoInvSays DEF PagesInv, DraftsHangTogether
<1> QED BY PagesAlwaysFit, <1>1, PTL

\* No assistant hands control of a tier to a less privileged one, whatever was added
\* or moved before, and whichever of its steps was changed again.
THEOREM AssistantsAlwaysKeepTiers ==
    ASSUME QuietRename, HangsTogether(Start)
    PROVE  WebSpec => AssistantsKeepTiers
<1>1. ASSUME PagesInv, [WebNext]_webVars
      PROVE  [changes' # changes /\ wrote'.on # "rename" =>
                /\ \A a \in draft'.acls \ draft.acls : ~AclViolates(draft', a)
                /\ \A u \in draft'.users \ draft.users : ~UserViolates(draft', u)]_assistantVars
  <2>1. CASE at = "assistants"
        BY <1>1, <2>1, AssistantSteps, TierStep DEF PagesInv
  <2>2. CASE at # "assistants"
        BY <1>1, <2>2, AssistantsRest
  <2> QED BY <2>1, <2>2
<1> QED BY PagesAlwaysFit, <1>1, PTL DEF WebSpec, AssistantsKeepTiers

\* What is confirmed in a dialog of the GPO editor takes away no GPO but the one the
\* dialog was opened for, whatever was saved elsewhere and read since; of the move
\* dialog, which keeps a place only, when no answer comes in while it is open.
THEOREM AlwaysEditsWhatWasOpened == ASSUME QuietMoves PROVE WebSpec => EditsWhatWasOpened
<1>1. ASSUME PagesInv, [WebNext]_webVars
      PROVE  [gpoDialog.is \in {"sheet", "remove", "move"} /\ gpoDialog' = Closed =>
                \A p \in Placed(gpos) \ Placed(gpos') :
                   /\ gpoDialog.opened # Closed
                   /\ p = <<gpoDialog.target, gpoDialog.kind, Value(gpoDialog.opened)>>]_gpoVars
  <2>1. CASE at = "gpos"
        BY <1>1, <2>1, GpoSteps, OpenedStep DEF PagesInv
  <2>2. CASE at # "gpos"
        BY <1>1, <2>2, GposRest
  <2> QED BY <2>1, <2>2
<1> QED BY PagesAlwaysFit, <1>1, PTL DEF WebSpec, EditsWhatWasOpened

\* The types of all pages, with the dialogs of two of them left in peace.
THEOREM WebTypes ==
    ASSUME QuietDialogs, QuietRename, HangsTogether(Start)
    PROVE  WebSpec => []WebType
<1>1. PagesInv => WebType
      BY RunPageInvShows, DeployPageInvShows, FormsInvShows, ListsInvShows, ImportInvShows,
         SessionInvShows, AssistInvType, GpoInvSays DEF PagesInv, WebType
<1> QED BY PagesAlwaysFit, <1>1, PTL
=============================================================================
