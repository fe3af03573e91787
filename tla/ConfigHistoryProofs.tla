------------------------- MODULE ConfigHistoryProofs -------------------------
(* Proofs about ConfigHistory, for every catalog, number of handlers and page size. *)
EXTENDS ConfigHistory, NaturalExtrema, FiniteSetTheorems, SequenceTheorems, TLAPS

-----------------------------------------------------------------------------
(* Entries of the log. *)

Entry == [id : Nat, prev : Seq(Items), item : Items]

\* Every entry of a set is linked to the one with the next lower number.
Linked(S) == \A e \in S : e.prev = LastHash({f \in S : f.id < e.id})
Numbered(S) == \A e, f \in S : e.id = f.id => e = f

\* A set with bounded numbers has an entry with the highest one.
LEMMA HighestEntry ==
    ASSUME NEW S \in SUBSET Entry, S # {}, NEW n \in Nat, \A e \in S : e.id <= n
    PROVE  \E e \in S : \A f \in S : f.id <= e.id
<1> DEFINE ids == {e.id : e \in S}
<1>1. ids \subseteq Nat /\ ids # {} /\ \A i \in ids : i <= n
  BY DEF Entry
<1>2. PICK m \in ids : \A i \in ids : i <= m
  BY <1>1, GreatestElement
<1> QED BY <1>2

LEMMA LastHashIs ==
    ASSUME NEW S \in SUBSET Entry, NEW e \in S, \A f \in S : f.id <= e.id, Numbered(S)
    PROVE  LastHash(S) = Hash(e)
<1> DEFINE last == CHOOSE x \in S : \A f \in S : f.id <= x.id
<1>1. last \in S /\ \A f \in S : f.id <= last.id
  OBVIOUS
<1>2. last.id = e.id
  BY <1>1 DEF Entry
<1>3. last = e
  BY <1>1, <1>2 DEF Numbered
<1> QED BY <1>3, S # {} DEF LastHash

LEMMA LastHashType ==
    ASSUME NEW S \in SUBSET Entry, NEW n \in Nat, \A e \in S : e.id <= n
    PROVE  LastHash(S) \in Seq(Items)
<1>1. CASE S = {}
  BY <1>1 DEF LastHash
<1>2. CASE S # {}
  <2>1. PICK e \in S : \A f \in S : f.id <= e.id
    BY <1>2, HighestEntry
  <2> DEFINE last == CHOOSE x \in S : \A f \in S : f.id <= x.id
  <2>2. last \in S
    BY <2>1
  <2>3. Hash(last) \in Seq(Items)
    BY <2>2 DEF Hash, Entry
  <2> QED BY <1>2, <2>3 DEF LastHash
<1> QED BY <1>1, <1>2

\* An entry with a new highest number and the hash of the last one keeps the chain.
LEMMA AppendEntry ==
    ASSUME NEW S \in SUBSET Entry, NEW e \in Entry, Linked(S), Numbered(S), IsFiniteSet(S),
           \A f \in S : f.id < e.id, e.prev = LastHash(S)
    PROVE  /\ Linked(S \cup {e}) /\ Numbered(S \cup {e}) /\ IsFiniteSet(S \cup {e})
           /\ LastHash(S \cup {e}) = Hash(e)
<1> DEFINE T == S \cup {e}
<1>1. Numbered(T)
  BY DEF Numbered, Entry
<1>2. IsFiniteSet(T)
  BY FS_AddElement
<1>3. {f \in T : f.id < e.id} = S
  BY DEF Entry
<1>4. ASSUME NEW g \in S PROVE {f \in T : f.id < g.id} = {f \in S : f.id < g.id}
  BY <1>4 DEF Entry
<1>5. Linked(T)
  BY <1>3, <1>4 DEF Linked
<1>6. \A f \in T : f.id <= e.id
  BY DEF Entry
<1>7. LastHash(T) = Hash(e)
  BY <1>1, <1>6, LastHashIs
<1> QED BY <1>1, <1>2, <1>5, <1>7

\* One or two items become one or two entries.
LEMMA ChainedEntries ==
    ASSUME NEW prev \in Seq(Items), NEW items \in Seq(Items), Len(items) \in 1..2, NEW id \in Nat \ {0}
    PROVE  LET first == [id |-> id, prev |-> prev, item |-> items[1]]
               second == [id |-> id + 1, prev |-> Append(prev, items[1]), item |-> items[2]]
           IN  Chained(prev, items, id) = IF Len(items) = 1 THEN {first} ELSE {first, second}
<1>1. prev \o SubSeq(items, 1, 1 - 1) = prev
  OBVIOUS
<1>2. prev \o SubSeq(items, 1, 2 - 1) = Append(prev, items[1])
  OBVIOUS
<1>3. DOMAIN items = 1..Len(items)
  OBVIOUS
<1> DEFINE entry(i) == [id |-> id + i - 1, prev |-> prev \o SubSeq(items, 1, i - 1), item |-> items[i]]
<1>4. Chained(prev, items, id) = {entry(i) : i \in 1..Len(items)}
  BY <1>3 DEF Chained
<1>5. /\ id + 1 - 1 = id /\ id + 2 - 1 = id + 1
      /\ 1..1 = {1} /\ 1..2 = {1, 2}
  OBVIOUS
<1>6. /\ entry(1) = [id |-> id, prev |-> prev, item |-> items[1]]
      /\ entry(2) = [id |-> id + 1, prev |-> Append(prev, items[1]), item |-> items[2]]
  BY <1>1, <1>2, <1>5
<1>7. CASE Len(items) = 1
  <2>1. Chained(prev, items, id) = {entry(1)}
    <3> HIDE DEF entry
    <3> QED BY <1>4, <1>5, <1>7
  <2> QED BY <2>1, <1>6, <1>7
<1>8. CASE Len(items) = 2
  <2>1. Chained(prev, items, id) = {entry(1), entry(2)}
    <3> HIDE DEF entry
    <3> QED BY <1>4, <1>5, <1>8
  <2> QED BY <2>1, <1>6, <1>8
<1> QED BY <1>7, <1>8

-----------------------------------------------------------------------------
(* The inductive invariant. *)

Writing == {"chain", "prev", "ids", "insert"}
Locked == {"prev", "ids", "insert"}

\* What is known of a request at each step of its transaction.
RequestOk(h) ==
    /\ At(h, "lock") => SavesSection(h) /\ Now(h).base # 0
    /\ At(h, "create") => SavesSection(h) /\ Now(h).base = 0
    /\ req[h].at \in Writing =>
          IF SavesSection(h) THEN req[h].items = <<Logged(Now(h).section, Now(h).base + 1)>>
          ELSE Len(req[h].items) \in 1..2 /\ \A i \in 1..Len(req[h].items) : req[h].items[i] = Other
    /\ req[h].at \in Writing /\ SavesSection(h) /\ Now(h).base # 0 =>
          rowLock[Now(h).section] = h /\ Current(Now(h).section) = Now(h).base
    /\ req[h].at \in Locked => chainLock = h
    /\ req[h].at \in {"ids", "insert"} => req[h].prev = LastHash(log)
    /\ At(h, "insert") =>
          /\ req[h].id # 0 /\ req[h].id + Len(req[h].items) <= nextId /\ check.after < req[h].id
          /\ \A e \in log : e.id < req[h].id

RequestsOk == \A h \in Handlers : RequestOk(h)

LogOk == IsFiniteSet(log) /\ Numbered(log) /\ ChainIntact

\* Sections that exist have at least their first version, all others have none logged.
SectionsOk ==
    /\ \A s \in Seeded : Current(s) # 0
    /\ NoLostUpdate /\ LogFollowsHistory

\* The verification carries the hash of the last entry it has read.
CheckOk == check.ok /\ check.prev = LastHash({e \in log : e.id <= check.after})

IInv == TypeOK /\ RequestsOk /\ LogOk /\ SectionsOk /\ CheckOk

ReqType == [at : Steps, todo : SUBSET Tasks, items : Seq(Items), prev : Seq(Items), id : Nat]

LEMMA IdleType == Idle \in ReqType
BY DEF Idle, ReqType, Steps

LEMMA FirstType ==
    ASSUME NEW todo \in SUBSET Tasks, todo # {}
    PROVE  First(todo) \in todo
<1> DEFINE places == {Position[t.section] : t \in todo}
<1>1. places \subseteq Nat
  BY CatalogAssumption DEF Tasks
<1>2. places # {}
  OBVIOUS
<1>3. PICK p \in places : \A q \in places : p <= q
  BY <1>1, <1>2, LeastElement
<1>4. \E t \in todo : \A u \in todo : Position[t.section] <= Position[u.section]
  BY <1>3
<1> QED BY <1>4 DEF First

LEMMA BeginType ==
    ASSUME NEW todo \in SUBSET Tasks
    PROVE  /\ Begin(todo) \in ReqType
           /\ Begin(todo).at \in {"idle", "lock", "create"}
           /\ Begin(todo).at # "idle" => Begin(todo).todo = todo /\ todo # {}
           /\ Begin(todo).at = "lock" => First(todo).base # 0
           /\ Begin(todo).at = "create" => First(todo).base = 0
BY IdleType DEF Begin, Idle, ReqType, Steps

LEMMA NowType ==
    ASSUME NEW h, req[h] \in ReqType, SavesSection(h)
    PROVE  /\ Now(h) \in Tasks /\ Now(h) \in req[h].todo
           /\ Now(h).section \in Sections /\ Now(h).base \in Nat /\ Now(h).content \in Contents
<1>1. req[h].todo \in SUBSET Tasks /\ req[h].todo # {}
  BY DEF ReqType, SavesSection
<1>2. Now(h) \in req[h].todo
  BY <1>1, FirstType DEF Now
<1> QED BY <1>1, <1>2 DEF Tasks

\* A request that begins a section, or has ended, has all it needs.
LEMMA BegunOk ==
    ASSUME NEW h \in Handlers, NEW todo \in SUBSET Tasks, req'[h] = Begin(todo)
    PROVE  RequestOk(h)'
BY BeginType DEF RequestOk, At, SavesSection, Now, Writing, Locked

LEMMA EndedOk ==
    ASSUME NEW h \in Handlers, req'[h] = Idle
    PROVE  RequestOk(h)'
BY DEF RequestOk, At, Idle, Writing, Locked

\* Nothing a request knows is disturbed by others while they hold other locks.
LEMMA OtherOk ==
    ASSUME NEW g \in Handlers, RequestOk(g), req'[g] = req[g],
           log' = log, versions' = versions, check' = check,
           nextId' \in Nat, nextId \in Nat, req[g] \in ReqType, nextId <= nextId',
           chainLock = g => chainLock' = g,
           \A s \in Sections : rowLock[s] = g => rowLock'[s] = g
    PROVE  RequestOk(g)'
<1>1. req[g].id + Len(req[g].items) <= nextId => req[g].id + Len(req[g].items) <= nextId'
  BY DEF ReqType
<1>2. SavesSection(g) => Now(g).section \in Sections
  BY NowType
<1> QED BY <1>1, <1>2 DEF RequestOk, At, SavesSection, Now, Current, Writing, Locked

-----------------------------------------------------------------------------
(* Steps that change neither the versions nor the log. *)

LEMMA QuietStep ==
    ASSUME IInv, TypeOK', NEW h \in Handlers, UNCHANGED <<versions, log, check>>, nextId <= nextId',
           \A g \in Handlers \ {h} :
               /\ req'[g] = req[g] /\ (chainLock = g => chainLock' = g)
               /\ \A s \in Sections : rowLock[s] = g => rowLock'[s] = g,
           RequestOk(h)'
    PROVE  IInv'
<1>1. RequestsOk'
  <2> SUFFICES ASSUME NEW g \in Handlers PROVE RequestOk(g)'
    BY DEF RequestsOk
  <2>1. CASE g = h
    BY <2>1
  <2>2. CASE g # h
    <3>1. req[g] \in ReqType /\ nextId \in Nat /\ nextId' \in Nat /\ RequestOk(g)
      BY DEF IInv, TypeOK, ReqType, RequestsOk
    <3> QED BY <2>2, <3>1, OtherOk
  <2> QED BY <2>1, <2>2
<1>2. LogOk' /\ SectionsOk' /\ CheckOk'
  BY DEF IInv, LogOk, ChainIntact, SectionsOk, NoLostUpdate, LogFollowsHistory, Current, CheckOk
<1> QED BY <1>1, <1>2 DEF IInv

LEMMA CurrentType ==
    ASSUME TypeOK, NEW s \in Sections
    PROVE  /\ versions[s] \in Seq(Version) /\ Current(s) \in Nat
           /\ \A v \in 1..Current(s) : versions[s][v] \in Version
BY DEF TypeOK, Current

LEMMA TaskType ==
    ASSUME NEW s \in Sections, NEW base \in Nat, NEW c \in Contents
    PROVE  Task(s, base, c) \in Tasks
BY DEF Task, Tasks

LEMMA StartStep ==
    ASSUME IInv, NEW h \in Handlers, NEW todo \in SUBSET Tasks, Start(h, todo)
    PROVE  IInv'
<1>1. Begin(todo) \in ReqType
  BY BeginType
<1>2. req \in [Handlers -> ReqType]
  BY DEF IInv, TypeOK, ReqType
<1>3. req' = [req EXCEPT ![h] = Begin(todo)]
  BY DEF Start
<1>4. req' \in [Handlers -> ReqType]
  BY <1>1, <1>2, <1>3
<1>5. TypeOK'
  BY <1>4, BoundsAssumption, SMTT(60) DEF IInv, TypeOK, ReqType, Start, locks
<1>6. req'[h] = Begin(todo) /\ \A g \in Handlers \ {h} : req'[g] = req[g]
  BY <1>2, <1>3
<1>7. RequestOk(h)'
  BY <1>6, BegunOk
<1>8. UNCHANGED <<versions, log, check, nextId, rowLock, chainLock>> /\ nextId \in Nat
  BY DEF Start, locks, IInv, TypeOK
<1> QED
  <2>1. nextId <= nextId'
    BY <1>8
  <2>2. \A g \in Handlers \ {h} :
            /\ req'[g] = req[g] /\ (chainLock = g => chainLock' = g)
            /\ \A s \in Sections : rowLock[s] = g => rowLock'[s] = g
    BY <1>6, <1>8
  <2> QED BY <1>5, <1>7, <1>8, <2>1, <2>2, QuietStep

LEMMA RequestStep ==
    ASSUME IInv, NEW h \in Handlers,
           PutSection(h) \/ RestoreVersion(h) \/ ApplyImport(h) \/ LogChange(h)
    PROVE  IInv'
<1>0. TypeOK
  BY DEF IInv
<1>1. CASE PutSection(h)
  <2>1. PICK s \in Sections, c \in Contents : \E base \in 1..Current(s) : Start(h, {Task(s, base, c)})
    BY <1>1 DEF PutSection
  <2>2. PICK base \in 1..Current(s) : Start(h, {Task(s, base, c)})
    BY <2>1
  <2>3. {Task(s, base, c)} \in SUBSET Tasks
    BY <1>0, CurrentType, TaskType
  <2> QED BY <2>2, <2>3, StartStep
<1>2. CASE RestoreVersion(h)
  <2>1. PICK s \in Sections : \E old \in 1..Current(s) :
            Start(h, {Task(s, Current(s), versions[s][old].content)})
    BY <1>2 DEF RestoreVersion
  <2>2. PICK old \in 1..Current(s) : Start(h, {Task(s, Current(s), versions[s][old].content)})
    BY <2>1
  <2>3. versions[s][old].content \in Contents
    BY <1>0, CurrentType DEF Version
  <2>4. {Task(s, Current(s), versions[s][old].content)} \in SUBSET Tasks
    BY <1>0, <2>3, CurrentType, TaskType
  <2> QED BY <2>2, <2>4, StartStep
<1>3. CASE ApplyImport(h)
  <2>1. PICK keys \in SUBSET Sections, c \in Contents : Start(h, {Task(s, Current(s), c) : s \in keys})
    BY <1>3 DEF ApplyImport
  <2>2. {Task(s, Current(s), c) : s \in keys} \in SUBSET Tasks
    BY <1>0, CurrentType, TaskType
  <2> QED BY <2>1, <2>2, StartStep
<1>4. CASE LogChange(h)
  <2>1. PICK n \in 1..2 :
            req' = [req EXCEPT ![h] = [Idle EXCEPT !.at = "chain", !.items = [i \in 1..n |-> Other]]]
    BY <1>4 DEF LogChange
  <2> DEFINE items == [i \in 1..n |-> Other]
  <2>2. items \in Seq(Items) /\ Len(items) = n /\ \A i \in 1..n : items[i] = Other
    BY DEF Items
  <2> HIDE DEF items
  <2> DEFINE new == [Idle EXCEPT !.at = "chain", !.items = items]
  <2>3. req \in [Handlers -> ReqType] /\ Idle.todo = {}
    BY DEF IInv, TypeOK, ReqType, Idle
  <2>4. new.at = "chain" /\ new.items = items /\ new.todo = {}
    BY <2>3, IdleType DEF ReqType
  <2>5. new \in ReqType
    BY <2>2, IdleType DEF ReqType, Steps
  <2>6. req' = [req EXCEPT ![h] = new]
    BY <2>1 DEF items
  <2> HIDE DEF new
  <2>7. req' \in [Handlers -> ReqType]
    BY <2>3, <2>5, <2>6
  <2>8. requests' \in 0..MaxRequests
    BY <1>4, BoundsAssumption, SMTT(60) DEF IInv, TypeOK, LogChange
  <2>9. UNCHANGED <<versions, log, check, nextId, rowLock, chainLock, aborts>> /\ nextId \in Nat
    BY <1>4 DEF LogChange, locks, IInv, TypeOK
  <2>10. TypeOK'
    BY <2>7, <2>8, <2>9 DEF IInv, TypeOK, ReqType
  <2>11. req'[h] = new /\ \A g \in Handlers \ {h} : req'[g] = req[g]
    BY <2>3, <2>6
  <2>12. RequestOk(h)'
    BY <2>2, <2>4, <2>11 DEF RequestOk, At, SavesSection, Writing, Locked
  <2>13. nextId <= nextId'
    BY <2>9
  <2>14. \A g \in Handlers \ {h} :
            /\ req'[g] = req[g] /\ (chainLock = g => chainLock' = g)
            /\ \A s \in Sections : rowLock[s] = g => rowLock'[s] = g
    BY <2>9, <2>11
  <2> QED BY <2>9, <2>10, <2>12, <2>13, <2>14, QuietStep
<1> QED BY <1>1, <1>2, <1>3, <1>4

-----------------------------------------------------------------------------
(* The steps of a transaction before its inserts. *)

LEMMA LockRowStep ==
    ASSUME IInv, NEW h \in Handlers, LockRow(h)
    PROVE  IInv'
<1> DEFINE s == Now(h).section
           b == Now(h).base
           items == <<Logged(s, b + 1)>>
<1>1. TypeOK /\ req \in [Handlers -> ReqType] /\ RequestOk(h) /\ At(h, "lock")
  BY DEF IInv, TypeOK, ReqType, RequestsOk, LockRow
<1>2. SavesSection(h) /\ b # 0
  BY <1>1 DEF RequestOk
<1>3. s \in Sections /\ b \in Nat
  BY <1>1, <1>2, NowType
<1>4. items \in Seq(Items)
  BY <1>3 DEF Items, Logged
<1> HIDE DEF items
<1>5. req' = [req EXCEPT ![h].at = "chain", ![h].items = items]
  BY DEF LockRow, items
<1>6. /\ req'[h].at = "chain" /\ req'[h].items = items /\ req'[h].todo = req[h].todo
      /\ \A g \in Handlers \ {h} : req'[g] = req[g]
      /\ req' \in [Handlers -> ReqType]
  BY <1>1, <1>4, <1>5 DEF ReqType, Steps
<1>7. /\ rowLock' \in [Sections -> Handlers \cup {NoOne}] /\ rowLock'[s] = h
      /\ \A t \in Sections, g \in Handlers : rowLock[t] = g => rowLock'[t] = g
  BY <1>1, <1>3, HandlersAssumption DEF TypeOK, LockRow, Free
<1>8. UNCHANGED <<versions, log, check, nextId, chainLock, requests, aborts>> /\ nextId <= nextId'
  BY <1>1 DEF LockRow, TypeOK
<1>9. TypeOK'
  BY <1>1, <1>6, <1>7, <1>8 DEF TypeOK, ReqType
<1>10. SavesSection(h)' /\ Now(h)' = Now(h) /\ Current(s)' = b
  BY <1>2, <1>6, <1>8 DEF SavesSection, Now, LockRow, Stale, Current
<1>11. RequestOk(h)'
  BY <1>2, <1>6, <1>7, <1>10 DEF RequestOk, At, Writing, Locked, items
<1>12. \A g \in Handlers \ {h} :
          /\ req'[g] = req[g] /\ (chainLock = g => chainLock' = g)
          /\ \A t \in Sections : rowLock[t] = g => rowLock'[t] = g
  BY <1>6, <1>7, <1>8
<1> QED BY <1>8, <1>9, <1>11, <1>12, QuietStep

\* The end of a request, or of one section of it, that writes nothing.
LEMMA EndStep ==
    ASSUME IInv, NEW h \in Handlers, req' = [req EXCEPT ![h] = Idle] \/ req' = [req EXCEPT ![h] = Continue(h)],
           UNCHANGED <<versions, log, check, nextId, requests>>, aborts' \in 0..MaxAbort,
           Release(h) \/ UNCHANGED locks
    PROVE  IInv'
<1>1. TypeOK /\ req \in [Handlers -> ReqType]
  BY DEF IInv, TypeOK, ReqType
<1>2. req[h].todo \ {Now(h)} \in SUBSET Tasks
  BY <1>1 DEF ReqType
<1>3. Continue(h) \in ReqType /\ Idle \in ReqType
  BY <1>2, BeginType, IdleType DEF Continue
<1>4. /\ req' \in [Handlers -> ReqType]
      /\ req'[h] \in {Idle, Continue(h)}
      /\ \A g \in Handlers \ {h} : req'[g] = req[g]
  BY <1>1, <1>3
<1>5. RequestOk(h)'
  <2>1. req'[h] = Idle \/ req'[h] = Begin(req[h].todo \ {Now(h)})
    BY <1>4 DEF Continue
  <2> QED BY <2>1, <1>2, BegunOk, EndedOk
<1>6. /\ rowLock' \in [Sections -> Handlers \cup {NoOne}] /\ chainLock' \in Handlers \cup {NoOne}
      /\ \A g \in Handlers \ {h} :
            (chainLock = g => chainLock' = g) /\ \A t \in Sections : rowLock[t] = g => rowLock'[t] = g
  BY <1>1 DEF TypeOK, Release, Unlocked, locks
<1>7. TypeOK'
  BY <1>1, <1>4, <1>6 DEF TypeOK, ReqType
<1>8. nextId <= nextId'
  BY <1>1 DEF TypeOK
<1> QED BY <1>4, <1>5, <1>6, <1>7, <1>8, QuietStep

LEMMA CreateStep ==
    ASSUME IInv, NEW h \in Handlers, Create(h)
    PROVE  IInv'
<1> DEFINE s == Now(h).section
           items == <<Logged(s, 1)>>
<1>1. TypeOK /\ req \in [Handlers -> ReqType] /\ RequestOk(h) /\ At(h, "create")
  BY DEF IInv, TypeOK, ReqType, RequestsOk, Create
<1>2. SavesSection(h) /\ Now(h).base = 0
  BY <1>1 DEF RequestOk
<1>3. s \in Sections
  BY <1>1, <1>2, NowType
<1>4. items \in Seq(Items)
  BY <1>3 DEF Items, Logged
<1> HIDE DEF items
<1>5. req' = [req EXCEPT ![h].at = "chain", ![h].items = items]
  BY DEF Create, items
<1>6. /\ req'[h].at = "chain" /\ req'[h].items = items /\ req'[h].todo = req[h].todo
      /\ \A g \in Handlers \ {h} : req'[g] = req[g]
      /\ req' \in [Handlers -> ReqType]
  BY <1>1, <1>4, <1>5, ZenonT(60) DEF ReqType, Steps
<1>7. UNCHANGED <<versions, log, check, nextId, rowLock, chainLock, requests, aborts>> /\ nextId <= nextId'
  BY <1>1 DEF Create, TypeOK, locks
<1>8. TypeOK'
  BY <1>1, <1>6, <1>7 DEF TypeOK, ReqType
<1>9. SavesSection(h)' /\ Now(h)' = Now(h)
  BY <1>2, <1>6 DEF SavesSection, Now
<1>10. items = <<Logged(s, Now(h).base + 1)>>
  BY <1>2 DEF items
<1>11. RequestOk(h)'
  BY <1>2, <1>6, <1>9, <1>10 DEF RequestOk, At, Writing, Locked
<1>12. \A g \in Handlers \ {h} :
          /\ req'[g] = req[g] /\ (chainLock = g => chainLock' = g)
          /\ \A t \in Sections : rowLock[t] = g => rowLock'[t] = g
  BY <1>6, <1>7
<1> QED BY <1>7, <1>8, <1>11, <1>12, QuietStep

\* The chain lock is taken, the last hash read and the numbers are taken.
LEMMA ChainStep ==
    ASSUME IInv, NEW h \in Handlers, TakeChainLock(h) \/ ReadPrev(h) \/ TakeIds(h)
    PROVE  IInv'
<1>1. TypeOK /\ req \in [Handlers -> ReqType] /\ RequestOk(h)
  BY DEF IInv, TypeOK, ReqType, RequestsOk
<1>2. /\ Len(req[h].items) \in Nat /\ nextId \in Nat /\ nextId # 0
      /\ \A e \in log : e.id < nextId /\ check.after < nextId
  BY <1>1, SMTT(60) DEF TypeOK, ReqType
<1>3. log \in SUBSET Entry
  BY <1>1 DEF TypeOK, Entry
<1>4. LastHash(log) \in Seq(Items)
  <2>1. \A e \in log : e.id <= nextId
    BY <1>1 DEF TypeOK
  <2> QED BY <1>2, <1>3, <2>1, LastHashType
<1>5. UNCHANGED <<versions, log, check, rowLock, requests, aborts>>
  BY DEF TakeChainLock, ReadPrev, TakeIds, locks
<1>6. CASE TakeChainLock(h)
  <2>1. /\ req'[h].at = "prev" /\ req'[h].items = req[h].items /\ req'[h].todo = req[h].todo
        /\ \A g \in Handlers \ {h} : req'[g] = req[g]
        /\ req' \in [Handlers -> ReqType]
    BY <1>1, <1>6 DEF TakeChainLock, GoTo, ReqType, Steps
  <2>2. chainLock = NoOne /\ chainLock' = h /\ UNCHANGED nextId /\ nextId <= nextId'
    BY <1>2, <1>6 DEF TakeChainLock, ChainFree
  <2>3. TypeOK'
    BY <1>1, <1>5, <2>1, <2>2 DEF TypeOK, ReqType
  <2>4. RequestOk(h)'
    BY <1>1, <1>5, <1>6, <2>1, <2>2 DEF RequestOk, At, SavesSection, Now, Current, Writing, Locked, TakeChainLock
  <2>5. \A g \in Handlers \ {h} :
            /\ req'[g] = req[g] /\ (chainLock = g => chainLock' = g)
            /\ \A t \in Sections : rowLock[t] = g => rowLock'[t] = g
    BY <1>5, <2>1, <2>2, HandlersAssumption
  <2> QED BY <1>5, <2>2, <2>3, <2>4, <2>5, QuietStep
<1>7. CASE ReadPrev(h)
  <2>1. /\ req'[h].at = "ids" /\ req'[h].items = req[h].items /\ req'[h].todo = req[h].todo
        /\ req'[h].prev = LastHash(log)
        /\ \A g \in Handlers \ {h} : req'[g] = req[g]
        /\ req' \in [Handlers -> ReqType]
    BY <1>1, <1>4, <1>7, ZenonT(60) DEF ReadPrev, ReqType, Steps
  <2>2. UNCHANGED <<chainLock, nextId>> /\ nextId <= nextId'
    BY <1>2, <1>7 DEF ReadPrev, locks
  <2>3. TypeOK'
    BY <1>1, <1>5, <2>1, <2>2 DEF TypeOK, ReqType
  <2>4. RequestOk(h)'
    BY <1>1, <1>5, <1>7, <2>1, <2>2 DEF RequestOk, At, SavesSection, Now, Current, Writing, Locked, ReadPrev
  <2>5. \A g \in Handlers \ {h} :
            /\ req'[g] = req[g] /\ (chainLock = g => chainLock' = g)
            /\ \A t \in Sections : rowLock[t] = g => rowLock'[t] = g
    BY <1>5, <2>1, <2>2
  <2> QED BY <1>5, <2>2, <2>3, <2>4, <2>5, QuietStep
<1>8. CASE TakeIds(h)
  <2>1. /\ req'[h].at = "insert" /\ req'[h].items = req[h].items /\ req'[h].todo = req[h].todo
        /\ req'[h].prev = req[h].prev /\ req'[h].id = nextId
        /\ \A g \in Handlers \ {h} : req'[g] = req[g]
        /\ req' \in [Handlers -> ReqType]
    BY <1>1, <1>2, <1>8, ZenonT(60) DEF TakeIds, ReqType, Steps
  <2>2. UNCHANGED chainLock /\ nextId' = nextId + Len(req[h].items) /\ nextId' \in Nat /\ nextId <= nextId'
    BY <1>2, <1>8 DEF TakeIds, locks
  <2>3. TypeOK'
    <3>1. log' \subseteq [id : 1..(nextId' - 1), prev : Seq(Items), item : Items]
      BY <1>1, <1>2, <1>5, <2>2, SMTT(60) DEF TypeOK
    <3>2. check' \in [walking : BOOLEAN, after : 0..(nextId' - 1), prev : Seq(Items), ok : BOOLEAN]
      BY <1>1, <1>2, <1>5, <2>2 DEF TypeOK
    <3> QED BY <1>1, <1>5, <2>1, <2>2, <3>1, <3>2 DEF TypeOK, ReqType
  <2>4. RequestOk(h)'
    <3>1. /\ req'[h].id # 0 /\ req'[h].id + Len(req'[h].items) <= nextId' /\ check'.after < req'[h].id
          /\ \A e \in log' : e.id < req'[h].id
      BY <1>1, <1>2, <1>5, <2>1, <2>2 DEF TypeOK
    <3> QED BY <1>1, <1>5, <1>8, <2>1, <2>2, <3>1
          DEF RequestOk, At, SavesSection, Now, Current, Writing, Locked, TakeIds
  <2>5. \A g \in Handlers \ {h} :
            /\ req'[g] = req[g] /\ (chainLock = g => chainLock' = g)
            /\ \A t \in Sections : rowLock[t] = g => rowLock'[t] = g
    BY <1>5, <2>1, <2>2
  <2> QED BY <1>5, <2>2, <2>3, <2>4, <2>5, QuietStep
<1> QED BY <1>6, <1>7, <1>8

-----------------------------------------------------------------------------
(* The inserts. *)

\* The log after the inserts of a request with one entry or two.
LEMMA InsertedEntries ==
    ASSUME NEW S \in SUBSET Entry, Linked(S), Numbered(S), IsFiniteSet(S),
           NEW items \in Seq(Items), Len(items) \in 1..2, NEW id \in Nat \ {0},
           \A e \in S : e.id < id, NEW prev \in Seq(Items), prev = LastHash(S),
           NEW new, new = Chained(prev, items, id)
    PROVE  /\ Linked(S \cup new) /\ Numbered(S \cup new) /\ IsFiniteSet(S \cup new)
           /\ \A e \in new : /\ e \in Entry /\ id <= e.id /\ e.id < id + Len(items)
                            /\ \E i \in 1..Len(items) : e.item = items[i]
           /\ Len(items) = 1 => new = {[id |-> id, prev |-> prev, item |-> items[1]]}
<1> DEFINE first == [id |-> id, prev |-> prev, item |-> items[1]]
           second == [id |-> id + 1, prev |-> Append(prev, items[1]), item |-> items[2]]
           T == S \cup {first}
<1>1. new = IF Len(items) = 1 THEN {first} ELSE {first, second}
  BY ChainedEntries
<1>2. /\ first \in Entry /\ first.id = id /\ first.prev = prev /\ first.item = items[1]
      /\ Hash(first) = Append(prev, items[1])
  BY DEF Entry, Hash
<1>3. Len(items) = 2 =>
          /\ second \in Entry /\ second.id = id + 1 /\ second.item = items[2]
          /\ second.prev = Append(prev, items[1])
  <2>1. Append(prev, items[1]) \in Seq(Items)
    OBVIOUS
  <2>2. Len(items) = 2 => items[2] \in Items
    <3>1. Len(items) = 2 => 2 \in 1..Len(items)
      OBVIOUS
    <3> QED BY <3>1, ElementOfSeq
  <2> QED BY <2>1, <2>2 DEF Entry
<1> HIDE DEF first, second
<1>4. Linked(T) /\ Numbered(T) /\ IsFiniteSet(T) /\ LastHash(T) = Hash(first)
  BY <1>2, AppendEntry
<1>5. CASE Len(items) = 1
  <2>1. new = {first} /\ 1 \in 1..Len(items) /\ first.id < id + Len(items)
    BY <1>1, <1>2, <1>5
  <2> QED BY <1>2, <1>4, <1>5, <2>1 DEF first
<1>6. CASE Len(items) = 2
  <2>1. new = {first, second} /\ S \cup new = T \cup {second}
    BY <1>1, <1>6
  <2>2. \A f \in T : f.id < second.id
    BY <1>2, <1>3, <1>6 DEF Entry
  <2>3. Linked(T \cup {second}) /\ Numbered(T \cup {second}) /\ IsFiniteSet(T \cup {second})
    <3>1. T \in SUBSET Entry /\ second \in Entry /\ second.prev = LastHash(T)
      BY <1>2, <1>3, <1>4, <1>6
    <3> HIDE DEF T
    <3> QED BY <1>4, <2>2, <3>1, AppendEntry
  <2>4. /\ id <= first.id /\ first.id < id + 2 /\ first.item = items[1]
        /\ id <= second.id /\ second.id < id + 2 /\ second.item = items[2]
        /\ 1 \in 1..2 /\ 2 \in 1..2
    BY <1>2, <1>3, <1>6
  <2>5. ASSUME NEW e \in new
        PROVE  /\ e \in Entry /\ id <= e.id /\ e.id < id + Len(items)
               /\ \E i \in 1..Len(items) : e.item = items[i]
    BY <1>2, <1>3, <1>6, <2>1, <2>4
  <2>6. Linked(S \cup new) /\ Numbered(S \cup new) /\ IsFiniteSet(S \cup new)
    <3> HIDE DEF T
    <3> QED BY <2>1, <2>3
  <2>7. Len(items) # 1
    BY <1>6
  <2> QED BY <2>5, <2>6, <2>7
<1> QED BY <1>5, <1>6

LEMMA InsertStep ==
    ASSUME IInv, NEW h \in Handlers, Insert(h)
    PROVE  IInv'
<1> DEFINE items == req[h].items
           id == req[h].id
           new == Chained(req[h].prev, items, id)
           s == Now(h).section
           b == Now(h).base
<1>1. /\ TypeOK /\ req \in [Handlers -> ReqType] /\ RequestOk(h) /\ At(h, "insert")
      /\ items \in Seq(Items) /\ id \in Nat /\ req[h].prev \in Seq(Items)
  BY DEF IInv, TypeOK, ReqType, RequestsOk, Insert
<1>2. /\ chainLock = h /\ req[h].prev = LastHash(log)
      /\ id # 0 /\ id + Len(items) <= nextId /\ check.after < id /\ \A e \in log : e.id < id
      /\ IF SavesSection(h) THEN items = <<Logged(s, b + 1)>>
         ELSE Len(items) \in 1..2 /\ \A i \in 1..Len(items) : items[i] = Other
  BY <1>1 DEF RequestOk, At, Writing, Locked
<1>3. log \in SUBSET Entry /\ Linked(log) /\ Numbered(log) /\ IsFiniteSet(log)
  BY <1>1 DEF IInv, LogOk, ChainIntact, Linked, TypeOK, Entry
<1>4. Len(items) \in 1..2 /\ (SavesSection(h) => Len(items) = 1 /\ items[1] = Logged(s, b + 1))
  <2> HIDE DEF items
  <2> QED BY <1>2
<1>5. /\ log' = log \cup new
      /\ Linked(log') /\ Numbered(log') /\ IsFiniteSet(log')
      /\ \A e \in new : /\ e \in Entry /\ id <= e.id /\ e.id < id + Len(items)
                       /\ \E i \in 1..Len(items) : e.item = items[i]
      /\ Len(items) = 1 => new = {[id |-> id, prev |-> req[h].prev, item |-> items[1]]}
  <2>1. log' = log \cup new
    BY DEF Insert
  <2>2. id \in Nat \ {0}
    BY <1>1, <1>2
  <2> DEFINE prev == req[h].prev
  <2> HIDE DEF items, id, prev
  <2>3. prev \in Seq(Items) /\ prev = LastHash(log) /\ new = Chained(prev, items, id)
    BY <1>1, <1>2 DEF prev
  <2> HIDE DEF new
  <2>4. \A e \in log : e.id < id
    BY <1>2
  <2>5. /\ Linked(log \cup new) /\ Numbered(log \cup new) /\ IsFiniteSet(log \cup new)
        /\ \A e \in new : /\ e \in Entry /\ id <= e.id /\ e.id < id + Len(items)
                         /\ \E i \in 1..Len(items) : e.item = items[i]
        /\ Len(items) = 1 => new = {[id |-> id, prev |-> prev, item |-> items[1]]}
    <3>1. items \in Seq(Items) /\ Len(items) \in 1..2
      BY <1>1, <1>4
    <3> QED BY <1>3, <2>2, <2>3, <2>4, <3>1, InsertedEntries
  <2> QED BY <2>1, <2>5 DEF prev
<1>6. LogOk'
  BY <1>5 DEF LogOk, ChainIntact, Linked
<1>7. UNCHANGED <<nextId, check, requests, aborts>> /\ nextId \in Nat /\ check.after \in Nat
  BY <1>1 DEF Insert, TypeOK
<1>8. CheckOk'
  <2>1. {e \in log' : e.id <= check.after} = {e \in log : e.id <= check.after}
    BY <1>1, <1>2, <1>5, <1>7 DEF Entry
  <2> QED BY <1>7, <2>1 DEF IInv, CheckOk
<1> DEFINE Kept == \A g \in Handlers \ {h}, t \in Sections :
                       rowLock[t] = g /\ Current(t) # 0 => Current(t)' = Current(t)
<1>9. ASSUME SavesSection(h)
      PROVE  SectionsOk' /\ versions' \in [Sections -> Seq(Version)] /\ Kept
  <2>1. s \in Sections /\ b \in Nat /\ Now(h).content \in Contents
    BY <1>1, <1>9, NowType
  <2>2. Current(s) = b /\ (b # 0 => rowLock[s] = h)
    BY <1>1, <1>9 DEF Insert, KeyIsTaken, Stale, RequestOk, At, Writing
  <2> DEFINE version == [content |-> Now(h).content, base |-> b]
  <2>3. versions' = [versions EXCEPT ![s] = Append(@, version)]
    BY <1>9 DEF Insert
  <2>4. version \in Version /\ version.base = b
    BY <2>1 DEF Version
  <2> HIDE DEF version
  <2>5. /\ versions[s] \in Seq(Version) /\ versions'[s] = Append(versions[s], version)
        /\ \A t \in Sections \ {s} : versions'[t] = versions[t]
        /\ versions' \in [Sections -> Seq(Version)]
    BY <1>1, <2>1, <2>3, <2>4, SMTT(60) DEF TypeOK
  <2>6. /\ Len(versions'[s]) = b + 1 /\ versions'[s][b + 1] = version
        /\ \A v \in 1..b : versions'[s][v] = versions[s][v]
        /\ \A t \in Sections \ {s} : Current(t)' = Current(t)
    <3>1. Len(versions[s]) = b
      BY <2>2 DEF Current
    <3>2. \A t \in Sections \ {s} : Current(t)' = Current(t)
      BY <2>5 DEF Current
    <3> HIDE DEF s, b
    <3> QED BY <2>1, <2>5, <3>1, <3>2
  <2>7. NoLostUpdate'
    <3> SUFFICES ASSUME NEW t \in Sections, NEW v \in 1..Len(versions'[t])
                 PROVE  versions'[t][v].base = v - 1
      BY DEF NoLostUpdate, Current
    <3>1. CASE t # s
      BY <2>5, <3>1 DEF IInv, SectionsOk, NoLostUpdate, Current
    <3>2. CASE t = s
      <4>1. CASE v = b + 1
        BY <2>1, <2>4, <2>6, <3>2, <4>1
      <4>2. CASE v \in 1..b
        BY <2>1, <2>2, <2>6, <3>2, <4>2 DEF IInv, SectionsOk, NoLostUpdate
      <4>3. v \in 1..(b + 1)
        BY <2>6, <3>2
      <4> HIDE DEF b
      <4> QED BY <2>1, <4>1, <4>2, <4>3
    <3> QED BY <3>1, <3>2
  <2>8. ASSUME NEW t \in Seeded PROVE Current(t)' # 0
    <3>1. t \in Sections /\ Current(t) # 0
      BY CatalogAssumption DEF IInv, SectionsOk
    <3>2. b + 1 # 0
      BY <2>1
    <3> QED BY <2>6, <3>1, <3>2 DEF Current
  <2> DEFINE e0 == [id |-> id, prev |-> req[h].prev, item |-> items[1]]
  <2>9. /\ new = {e0} /\ e0.id = id /\ e0.item = Logged(s, b + 1)
    <3> HIDE DEF items, id, new
    <3> QED BY <1>4, <1>5, <1>9 DEF e0
  <2> HIDE DEF e0
  <2>10. LogFollowsHistory'
    <3> SUFFICES ASSUME NEW t \in Sections
                 PROVE  LET entries == {e \in log' : e.item.section = t}
                            seeded == IF t \in Seeded THEN 1 ELSE 0
                        IN  /\ {e.item.version : e \in entries} = (seeded + 1)..Current(t)'
                            /\ \A e, f \in entries : e.id < f.id => e.item.version < f.item.version
      BY DEF LogFollowsHistory
    <3> DEFINE old == {e \in log : e.item.section = t}
               entries == {e \in log' : e.item.section = t}
               seeded == IF t \in Seeded THEN 1 ELSE 0
    <3>1. /\ {e.item.version : e \in old} = (seeded + 1)..Current(t)
          /\ \A e, f \in old : e.id < f.id => e.item.version < f.item.version
      BY DEF IInv, SectionsOk, LogFollowsHistory
    <3>2. CASE t # s
      <4>1. entries = old
        BY <1>5, <2>9, <3>2 DEF Logged
      <4> QED BY <2>6, <3>1, <3>2, <4>1
    <3>3. CASE t = s
      <4>1. entries = old \cup {e0} /\ e0.item.version = b + 1
        BY <1>5, <2>9, <3>3 DEF Logged
      <4>2. seeded \in 0..1 /\ seeded <= b
        BY <2>1, <2>2, <3>3 DEF IInv, SectionsOk
      <4>3. {e.item.version : e \in entries} = {e.item.version : e \in old} \cup {b + 1}
        BY <4>1
      <4>4. (seeded + 1)..b \cup {b + 1} = (seeded + 1)..(b + 1)
        <5> HIDE DEF seeded
        <5> QED BY <2>1, <4>2
      <4>5. {e.item.version : e \in entries} = (seeded + 1)..(b + 1)
        BY <2>2, <3>1, <3>3, <4>3, <4>4
      <4>6. \A e \in old : e.id \in Nat /\ e.id < id /\ e.item.version \in (seeded + 1)..b
        <5>1. \A e \in old : e.item.version \in {f.item.version : f \in old}
          OBVIOUS
        <5> QED BY <1>2, <1>3, <2>2, <3>1, <3>3, <5>1 DEF Entry
      <4>7. ASSUME NEW e \in entries, NEW f \in entries, e.id < f.id
            PROVE  e.item.version < f.item.version
        <5>1. CASE e \in old /\ f \in old
          BY <3>1, <4>7, <5>1
        <5>2. CASE e \in old /\ f = e0
          <6>1. e.item.version \in (seeded + 1)..b /\ f.item.version = b + 1
            BY <4>1, <4>6, <5>2
          <6> QED BY <2>1, <4>2, <6>1
        <5>3. CASE e = e0
          <6>1. e.id = id
            BY <2>9, <5>3
          <6>2. f = e0 \/ (f.id \in Nat /\ f.id < id)
            BY <4>1, <4>6
          <6> QED BY <1>1, <2>9, <4>7, <6>1, <6>2
        <5> QED BY <4>1, <5>1, <5>2, <5>3
      <4>8. Current(t)' = b + 1
        BY <2>6, <3>3 DEF Current
      <4> HIDE DEF s, b
      <4> QED BY <4>5, <4>7, <4>8
    <3> QED BY <3>2, <3>3
  <2>11. Kept
    BY <2>2, <2>6
  <2> QED BY <2>5, <2>7, <2>8, <2>10, <2>11 DEF SectionsOk
<1>10. ASSUME ~SavesSection(h)
       PROVE  SectionsOk' /\ versions' \in [Sections -> Seq(Version)] /\ Kept
  <2>1. versions' = versions
    BY <1>10 DEF Insert
  <2>2. \A e \in new : e.item = Other
    BY <1>2, <1>5, <1>10
  <2>3. ASSUME NEW t \in Sections
        PROVE  {e \in log' : e.item.section = t} = {e \in log : e.item.section = t}
    BY <1>5, <2>2, CatalogAssumption DEF Other
  <2>4. LogFollowsHistory'
    BY <2>1, <2>3 DEF IInv, SectionsOk, LogFollowsHistory, Current
  <2> QED BY <1>1, <2>1, <2>4 DEF IInv, SectionsOk, NoLostUpdate, Current, TypeOK
<1>11. SectionsOk' /\ versions' \in [Sections -> Seq(Version)] /\ Kept
  BY <1>9, <1>10
<1> HIDE DEF Kept
<1>12. /\ req' = [req EXCEPT ![h] = Continue(h)] /\ Continue(h) \in ReqType
       /\ Continue(h) = Idle \/ Continue(h) = Begin(req[h].todo \ {Now(h)})
       /\ req[h].todo \ {Now(h)} \in SUBSET Tasks
  <2>1. req[h].todo \ {Now(h)} \in SUBSET Tasks
    BY <1>1 DEF ReqType
  <2> QED BY <2>1, BeginType, IdleType DEF Insert, Continue
<1>13. /\ req' \in [Handlers -> ReqType] /\ req'[h] = Continue(h)
       /\ \A g \in Handlers \ {h} : req'[g] = req[g]
  BY <1>1, <1>12
<1>14. /\ rowLock' \in [Sections -> Handlers \cup {NoOne}] /\ chainLock' \in Handlers \cup {NoOne}
       /\ \A g \in Handlers \ {h}, t \in Sections : rowLock[t] = g => rowLock'[t] = g
  BY <1>1 DEF TypeOK, Insert, Release, Unlocked
<1>15. log' \subseteq [id : 1..(nextId' - 1), prev : Seq(Items), item : Items]
  <2>1. log \subseteq [id : 1..(nextId' - 1), prev : Seq(Items), item : Items]
    BY <1>1, <1>7 DEF TypeOK
  <2>2. \A e \in new : e \in Entry /\ e.id \in 1..(nextId' - 1)
    <3> HIDE DEF new
    <3> QED BY <1>1, <1>2, <1>5, <1>7 DEF Entry
  <2>3. \A e \in new : e \in [id : 1..(nextId' - 1), prev : Seq(Items), item : Items]
    <3> HIDE DEF new
    <3> QED BY <2>2 DEF Entry
  <2> QED BY <1>5, <2>1, <2>3
<1>16. TypeOK'
  BY <1>1, <1>7, <1>11, <1>13, <1>14, <1>15 DEF TypeOK, ReqType
<1>17. ASSUME NEW g \in Handlers PROVE RequestOk(g)'
  <2>1. CASE g = h
    BY <1>12, <1>13, <2>1, BegunOk, EndedOk
  <2>2. CASE g # h
    <3>1. RequestOk(g) /\ req[g] \in ReqType /\ req'[g] = req[g]
      BY <1>1, <1>13, <2>2 DEF IInv, RequestsOk
    <3>2. req[g].at \notin Locked
      BY <1>2, <2>2, <3>1 DEF RequestOk
    <3>3. SavesSection(g) => Now(g).section \in Sections
      BY <3>1, NowType
    <3>4. /\ SavesSection(g)' = SavesSection(g) /\ Now(g)' = Now(g)
          /\ \A step : At(g, step)' = At(g, step)
      BY <3>1 DEF SavesSection, Now, At
    <3>5. req[g].at \in Writing /\ SavesSection(g) /\ Now(g).base # 0 =>
              rowLock'[Now(g).section] = g /\ Len(versions'[Now(g).section]) = Now(g).base
      BY <1>11, <1>14, <2>2, <3>1, <3>3 DEF RequestOk, Kept, Current
    <3> QED BY <3>1, <3>2, <3>4, <3>5 DEF RequestOk, At, Locked, Current
  <2> QED BY <2>1, <2>2
<1> QED BY <1>6, <1>8, <1>11, <1>16, <1>17 DEF IInv, RequestsOk

-----------------------------------------------------------------------------
(* The verification. *)

CheckType == [walking : BOOLEAN, after : 0..(nextId - 1), prev : Seq(Items), ok : BOOLEAN]

LEMMA CheckOnly ==
    ASSUME IInv, UNCHANGED <<versions, log, nextId, locks, req, requests, aborts>>,
           check' \in CheckType, CheckOk',
           \A g \in Handlers : At(g, "insert") => check'.after < req[g].id
    PROVE  IInv'
<1>1. TypeOK'
  BY DEF IInv, TypeOK, CheckType, locks
<1>2. ASSUME NEW g \in Handlers PROVE RequestOk(g)'
  <2>1. RequestOk(g)
    BY DEF IInv, RequestsOk
  <2>2. At(g, "insert") => check'.after < req[g].id
    OBVIOUS
  <2>3. UNCHANGED <<versions, log, nextId, rowLock, chainLock, req>>
    BY DEF locks
  <2> QED BY <2>1, <2>2, <2>3 DEF RequestOk, At, SavesSection, Now, Current
<1>3. LogOk' /\ SectionsOk'
  BY DEF IInv, LogOk, ChainIntact, SectionsOk, NoLostUpdate, LogFollowsHistory, Current
<1> QED BY <1>1, <1>2, <1>3 DEF IInv, RequestsOk

\* A check that begins or ends has read nothing.
LEMMA NothingRead ==
    ASSUME IInv, UNCHANGED <<versions, log, nextId, locks, req, requests, aborts>>,
           NEW w \in BOOLEAN, check' = [walking |-> w, after |-> 0, prev |-> <<>>, ok |-> TRUE]
    PROVE  IInv'
<1>1. /\ check'.after = 0 /\ check'.prev = <<>> /\ check'.ok = TRUE /\ check' \in CheckType
  BY DEF IInv, TypeOK, CheckType
<1>2. {e \in log : e.id <= 0} = {}
  BY DEF IInv, TypeOK
<1>3. CheckOk'
  BY <1>1, <1>2 DEF CheckOk, LastHash
<1>4. ASSUME NEW g \in Handlers, At(g, "insert") PROVE check'.after < req[g].id
  <2>1. req[g].id \in Nat /\ req[g].id # 0
    BY <1>4 DEF IInv, TypeOK, RequestsOk, RequestOk
  <2> QED BY <1>1, <2>1
<1> QED BY <1>1, <1>3, <1>4, CheckOnly

\* A page is the beginning of what is left, so it has every entry below its own.
LEMMA PageIsPrefix ==
    ASSUME IsFiniteSet(log), log \in SUBSET Entry, NEW e \in Page, NEW f \in log,
           check.after < f.id, f.id < e.id, PageSize \in Nat
    PROVE  f \in Page
<1> DEFINE rest == {x \in log : x.id > check.after}
           below(x) == {y \in rest : y.id < x.id}
<1>1. e \in rest /\ f \in rest /\ Cardinality(below(e)) < PageSize
  BY DEF Page, Entry
<1>2. IsFiniteSet(rest)
  BY FS_Subset
<1>3. IsFiniteSet(below(e))
  BY <1>2, FS_Subset
<1>4. below(f) \subseteq below(e)
  <2>1. \A y \in rest : y.id \in Nat
    BY DEF Entry
  <2> SUFFICES ASSUME NEW y \in rest, y.id < f.id PROVE y.id < e.id
    OBVIOUS
  <2> HIDE DEF rest
  <2> QED BY <1>1, <2>1
<1>5. Cardinality(below(f)) <= Cardinality(below(e))
  BY <1>3, <1>4, FS_Subset
<1>6. Cardinality(below(f)) \in Nat /\ Cardinality(below(e)) \in Nat
  BY <1>3, <1>4, FS_Subset, FS_CardinalityType
<1>7. Cardinality(below(f)) < PageSize
  BY <1>1, <1>5, <1>6
<1> QED BY <1>1, <1>7 DEF Page

LEMMA ReadPageStep ==
    ASSUME IInv, ReadPage
    PROVE  IInv'
<1>1. /\ TypeOK /\ IsFiniteSet(log) /\ Numbered(log) /\ Linked(log)
      /\ check.ok /\ check.prev = LastHash({e \in log : e.id <= check.after})
      /\ check.after \in Nat /\ nextId \in Nat /\ PageSize \in Nat
  BY BoundsAssumption DEF IInv, LogOk, ChainIntact, Linked, CheckOk, TypeOK
<1>2. /\ log \in SUBSET Entry /\ Page \subseteq log /\ Page # {}
      /\ \A e \in log : e.id \in Nat /\ e.id < nextId
      /\ \A e \in Page : check.after < e.id
  <2>1. log \in SUBSET Entry /\ \A e \in log : e.id \in Nat /\ e.id < nextId
    BY <1>1, SMTT(60) DEF TypeOK, Entry
  <2>2. Page \subseteq log /\ \A e \in Page : e.id > check.after
    BY DEF Page
  <2>3. Page # {}
    BY DEF ReadPage
  <2>4. \A e \in Page : e.id \in Nat
    BY <2>1, <2>2
  <2>5. \A e \in Page : check.after < e.id
    BY <1>1, <2>2, <2>4
  <2> QED BY <2>1, <2>2, <2>3, <2>5
<1>3. PICK last \in Page : \A f \in Page : f.id <= last.id
  <2>1. \A e \in Page : e.id <= nextId
    BY <1>1, <1>2
  <2>2. Page \in SUBSET Entry
    BY <1>2
  <2> QED BY <1>1, <1>2, <2>1, <2>2, HighestEntry
<1>4. Max({e.id : e \in Page}) = last.id
  <2> DEFINE ids == {e.id : e \in Page}
             m == CHOOSE x \in ids : \A y \in ids : x >= y
  <2>1. last.id \in ids /\ \A y \in ids : y \in Nat /\ last.id >= y
    BY <1>2, <1>3
  <2>2. m \in ids /\ \A y \in ids : m >= y
    <3> HIDE DEF ids
    <3> QED BY <2>1
  <2>3. m = last.id
    <3> HIDE DEF ids, m
    <3> QED BY <2>1, <2>2
  <2> QED BY <2>3 DEF Max
<1>5. LastHash(Page) = Hash(last)
  <2>1. Numbered(Page) /\ Page \in SUBSET Entry
    BY <1>1, <1>2 DEF Numbered
  <2> QED BY <1>3, <2>1, LastHashIs
<1>6. LastHash({e \in log : e.id <= last.id}) = Hash(last)
  <2> DEFINE S == {e \in log : e.id <= last.id}
  <2>1. S \in SUBSET Entry /\ Numbered(S) /\ last \in S /\ \A f \in S : f.id <= last.id
    BY <1>1, <1>2 DEF Numbered
  <2>2. LastHash(S) = Hash(last)
    <3> HIDE DEF S
    <3> QED BY <2>1, LastHashIs
  <2> QED BY <2>2
<1>7. ASSUME NEW e \in Page PROVE Links(Page, e)
  <2> DEFINE B == Before(Page, e)
             S == {f \in log : f.id < e.id}
  <2>1. e.prev = LastHash(S)
    BY <1>1, <1>2 DEF Linked
  <2>2. ASSUME NEW f \in S, check.after < f.id PROVE f \in B
    BY <1>1, <1>2, <2>2, PageIsPrefix DEF Before
  <2>3. CASE B = {}
    <3>1. S = {f \in log : f.id <= check.after}
      BY <1>1, <1>2, <2>2, <2>3
    <3> QED BY <1>1, <2>1, <2>3, <3>1 DEF Links
  <2>4. CASE B # {}
    <3>1. B \in SUBSET Entry /\ Numbered(B) /\ S \in SUBSET Entry /\ Numbered(S) /\ B \subseteq S
      BY <1>1, <1>2 DEF Before, Numbered
    <3>2. \A f \in B : f.id <= nextId /\ check.after < f.id
      BY <1>1, <1>2 DEF Before
    <3>3. PICK b \in B : \A f \in B : f.id <= b.id
      <4> HIDE DEF B
      <4> QED BY <1>1, <2>4, <3>1, <3>2, HighestEntry
    <3>4. \A f \in S : f.id <= b.id
      <4>1. b.id \in Nat /\ check.after < b.id
        BY <3>1, <3>2, <3>3 DEF Entry
      <4>2. \A f \in S : f.id \in Nat
        BY <1>2
      <4> HIDE DEF B, S
      <4> QED BY <1>1, <2>2, <3>3, <4>1, <4>2
    <3>5. LastHash(B) = Hash(b) /\ LastHash(S) = Hash(b)
      <4> HIDE DEF B, S
      <4> QED BY <3>1, <3>3, <3>4, LastHashIs
    <3> QED BY <2>1, <2>4, <3>5 DEF Links
  <2> QED BY <2>3, <2>4
<1>8. LastHash(Page) \in Seq(Items)
  <2>1. Page \in SUBSET Entry /\ \A e \in Page : e.id <= nextId
    BY <1>1, <1>2
  <2> QED BY <1>1, <2>1, LastHashType
<1>9. /\ check'.after = last.id /\ check'.prev = Hash(last) /\ check'.ok = TRUE
      /\ check' \in CheckType
  <2>1. last.id \in 0..(nextId - 1)
    BY <1>1, <1>2
  <2>2. check' = [walking |-> TRUE, after |-> last.id, prev |-> Hash(last), ok |-> TRUE]
    BY <1>4, <1>5, <1>7 DEF ReadPage
  <2> QED BY <1>5, <1>8, <2>1, <2>2 DEF CheckType
<1>10. UNCHANGED <<versions, log, nextId, locks, req, requests, aborts>>
  BY DEF ReadPage
<1>11. CheckOk'
  BY <1>6, <1>9, <1>10 DEF CheckOk
<1>12. ASSUME NEW g \in Handlers, At(g, "insert") PROVE check'.after < req[g].id
  BY <1>2, <1>9, <1>12 DEF IInv, RequestsOk, RequestOk
<1> QED BY <1>9, <1>10, <1>11, <1>12, CheckOnly

-----------------------------------------------------------------------------
(* The theorems. *)

LEMMA Initially == Init => IInv
<1> SUFFICES ASSUME Init PROVE IInv
  OBVIOUS
<1>1. versions \in [Sections -> Seq(Version)]
  <2>1. ASSUME NEW c \in Contents PROVE <<[content |-> c, base |-> 0]>> \in Seq(Version)
    <3>1. [content |-> c, base |-> 0] \in Version
      BY DEF Version
    <3>2. \A v \in Version : <<v>> \in Seq(Version)
      OBVIOUS
    <3> QED BY <3>1, <3>2
  <2>2. <<>> \in Seq(Version)
    OBVIOUS
  <2>3. {<<>>} \cup {<<[content |-> c, base |-> 0]>> : c \in Contents} \subseteq Seq(Version)
    BY <2>1, <2>2
  <2> QED BY <2>3 DEF Init
<1>2. TypeOK
  BY <1>1, IdleType, BoundsAssumption DEF Init, TypeOK, NotWalking, ReqType
<1>3. RequestsOk
  BY DEF Init, RequestsOk, RequestOk, At, Idle, Writing, Locked
<1>4. LogOk
  BY FS_EmptySet DEF Init, LogOk, Numbered, ChainIntact
<1>5. \A s \in Sections : /\ Current(s) = IF s \in Seeded THEN 1 ELSE 0
                         /\ \A v \in 1..Current(s) : versions[s][v].base = 0
  BY DEF Init, Current
<1>6. SectionsOk
  <2>1. \A s \in Seeded : Current(s) # 0
    BY <1>5, CatalogAssumption
  <2>2. NoLostUpdate
    BY <1>5 DEF NoLostUpdate
  <2>3. LogFollowsHistory
    BY <1>5 DEF Init, LogFollowsHistory
  <2> QED BY <2>1, <2>2, <2>3 DEF SectionsOk
<1>7. CheckOk
  BY DEF Init, CheckOk, NotWalking, LastHash
<1> QED BY <1>2, <1>3, <1>4, <1>6, <1>7 DEF IInv

LEMMA Inductive == IInv /\ [Next]_vars => IInv'
<1> SUFFICES ASSUME IInv, [Next]_vars PROVE IInv'
  OBVIOUS
<1>1. CASE UNCHANGED vars
  BY <1>1, SMTT(60) DEF vars, locks, IInv, TypeOK, RequestsOk, RequestOk, At, SavesSection, Now, Current,
      LogOk, ChainIntact, SectionsOk, NoLostUpdate, LogFollowsHistory, CheckOk
<1>2. ASSUME NEW h \in Handlers,
             PutSection(h) \/ RestoreVersion(h) \/ ApplyImport(h) \/ LogChange(h)
      PROVE  IInv'
  BY <1>2, RequestStep
<1>3. ASSUME NEW h \in Handlers, Transaction(h) PROVE IInv'
  <2>1. CASE LockRow(h)
    BY <2>1, LockRowStep
  <2>2. CASE Conflict(h) \/ NothingNew(h)
    <3>1. aborts' \in 0..MaxAbort
      BY <2>2 DEF Conflict, NothingNew, IInv, TypeOK
    <3>2. /\ req' = [req EXCEPT ![h] = Idle] \/ req' = [req EXCEPT ![h] = Continue(h)]
          /\ UNCHANGED <<versions, log, check, nextId, requests>> /\ UNCHANGED locks
      BY <2>2 DEF Conflict, NothingNew
    <3> QED BY <3>1, <3>2, EndStep
  <2>3. CASE Create(h)
    BY <2>3, CreateStep
  <2>4. CASE TakeChainLock(h) \/ ReadPrev(h) \/ TakeIds(h)
    BY <2>4, ChainStep
  <2>5. CASE Insert(h)
    BY <2>5, InsertStep
  <2>6. CASE KeyTaken(h)
    <3>1. aborts' \in 0..MaxAbort
      BY <2>6 DEF KeyTaken, IInv, TypeOK
    <3> QED BY <2>6, <3>1, EndStep DEF KeyTaken
  <2> QED BY <1>3, <2>1, <2>2, <2>3, <2>4, <2>5, <2>6 DEF Transaction
<1>4. ASSUME NEW h \in Handlers, Abort(h) PROVE IInv'
  <2>1. aborts' \in 0..MaxAbort
    BY <1>4, BoundsAssumption DEF Abort, IInv, TypeOK
  <2> QED BY <1>4, <2>1, EndStep DEF Abort
<1>5. CASE StartCheck
  <2>1. check' = [walking |-> TRUE, after |-> 0, prev |-> <<>>, ok |-> TRUE]
    BY <1>5 DEF StartCheck, NotWalking
  <2> QED BY <1>5, <2>1, NothingRead DEF StartCheck
<1>6. CASE ReadPage
  BY <1>6, ReadPageStep
<1>7. CASE EndCheck
  <2>1. check' = [walking |-> FALSE, after |-> 0, prev |-> <<>>, ok |-> TRUE]
    BY <1>7 DEF EndCheck, NotWalking, IInv, CheckOk, TypeOK
  <2> QED BY <1>7, <2>1, NothingRead DEF EndCheck
<1> QED BY <1>1, <1>2, <1>3, <1>4, <1>5, <1>6, <1>7 DEF Next

LEMMA Invariant == Spec => []IInv
BY Initially, Inductive, PTL DEF Spec

\* Every variable keeps its type, for any number of sections, handlers and
\* requests and any size of a page.
THEOREM TypeCorrect == Spec => []TypeOK
<1>1. IInv => TypeOK
  BY DEF IInv
<1> QED BY <1>1, Invariant, PTL

\* "the chain order always equals the Id order, also for concurrent writers"
\* (ChangeLogChain): no interleaving of saves, imports, other changes and
\* failures breaks the hash chain.
THEOREM ChainStaysIntact == Spec => []ChainIntact
<1>1. IInv => ChainIntact
  BY DEF IInv, LogOk
<1> QED BY <1>1, Invariant, PTL

\* A verification that reads the chain page by page while others write reports
\* no break (ChangeLogChain.VerifyAsync).
THEOREM NoFalseAlarm == Spec => []VerifyFindsNoBreak
<1>1. IInv => VerifyFindsNoBreak
  BY DEF IInv, CheckOk, VerifyFindsNoBreak
<1> QED BY <1>1, Invariant, PTL

\* A save never replaces a version its author had not seen (ConfigService.SaveAsync).
THEOREM NoUpdateIsLost == Spec => []NoLostUpdate
<1>1. IInv => NoLostUpdate
  BY DEF IInv, SectionsOk
<1> QED BY <1>1, Invariant, PTL

\* Every version after the seed has its entry in the log, in the order of the versions.
THEOREM LogTellsHistory == Spec => []LogFollowsHistory
<1>1. IInv => LogFollowsHistory
  BY DEF IInv, SectionsOk
<1> QED BY <1>1, Invariant, PTL
=============================================================================
