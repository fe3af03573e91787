---------------------------- MODULE ConfigHistory ----------------------------
(***************************************************************************)
(* The versions of the configuration and the change log: concurrent saves, *)
(* restores, imports and other logged changes (ConfigService,              *)
(* ImportService), which write their entries into one hash chain           *)
(* (ChangeLogChain.SaveChainedAsync), and the verification that walks the  *)
(* chain meanwhile.                                                        *)
(*                                                                         *)
(* A transaction is read committed: each statement sees what is committed, *)
(* locks are released by commit or rollback, and numbers taken from the    *)
(* sequence are not given back.  The hash of an entry is the sequence of   *)
(* all items from the first entry to it, so different histories have       *)
(* different hashes.                                                       *)
(***************************************************************************)
EXTENDS Naturals, Sequences, SequencesExt, FiniteSets, FiniteSetsExt

CONSTANTS Sections,     \* keys of ConfigCatalog
          Seeded,       \* those that exist from the start
          Position,     \* the place of each key in the catalog
          Contents,     \* contents a section may have
          Handlers,     \* concurrent request handlers
          NoOne,        \* holder of a free lock
          PageSize,     \* entries the verification reads at once (2000)
          MaxRequests,  \* bound: requests
          MaxAbort      \* bound: transactions that fail

ASSUME CatalogAssumption ==
    /\ Seeded \subseteq Sections /\ "other" \notin Sections
    /\ Position \in [Sections -> Nat]
    /\ \A s, t \in Sections : Position[s] = Position[t] => s = t
ASSUME HandlersAssumption == NoOne \notin Handlers
ASSUME BoundsAssumption == PageSize \in Nat \ {0} /\ {MaxRequests, MaxAbort} \subseteq Nat

VARIABLES versions,   \* per section its config_versions, the last one the current
          log,        \* the rows of change_log
          nextId,     \* its sequence
          rowLock,    \* per section who holds its row (FOR UPDATE)
          chainLock,  \* who holds the advisory lock of the chain
          req,        \* per handler its request and open transaction
          check,      \* the verification that is running
          requests,   \* history: requests so far
          aborts      \* history: failed transactions so far

locks == <<rowLock, chainLock>>
vars == <<versions, log, nextId, locks, req, check, requests, aborts>>

Current(s) == Len(versions[s])      \* 0: the section does not exist
Version == [content : Contents, base : Nat]
Other == [section |-> "other"]
Logged(s, v) == [section |-> s, version |-> v]

Hash(e) == Append(e.prev, e.item)

\* The entry with the highest Id.
LastHash(entries) ==
    IF entries = {} THEN <<>>
    ELSE Hash(CHOOSE e \in entries : \A f \in entries : f.id <= e.id)

NumberedAfter(prev, items, id) ==    \* mutant
    {[id |-> id + i, prev |-> prev \o SubSeq(items, 1, i - 1), item |-> items[i]] :
        i \in DOMAIN items}

\* New entries with the numbers from id on, each linked to the one before it.
Chained(prev, items, id) ==
    {[id |-> id + i - 1, prev |-> prev \o SubSeq(items, 1, i - 1), item |-> items[i]] :
        i \in DOMAIN items}

Task(s, base, content) == [section |-> s, base |-> base, content |-> content]
Tasks == [section : Sections, base : Nat, content : Contents]
Idle == [at |-> "idle", todo |-> {}, items |-> <<>>, prev |-> <<>>, id |-> 0]
NotWalking == [walking |-> FALSE, after |-> 0, prev |-> <<>>, ok |-> TRUE]

Init ==
    /\ versions \in [Sections -> {<<>>} \cup {<<[content |-> c, base |-> 0]>> : c \in Contents}]
    /\ \A s \in Sections : versions[s] # <<>> <=> s \in Seeded
    /\ log = {} /\ nextId = 1
    /\ rowLock = [s \in Sections |-> NoOne] /\ chainLock = NoOne
    /\ req = [h \in Handlers |-> Idle]
    /\ check = NotWalking
    /\ requests = 0 /\ aborts = 0

-----------------------------------------------------------------------------
(* Requests *)

At(h, step) == req[h].at = step
GoTo(h, step) == req' = [req EXCEPT ![h].at = step]

\* The sections of an import follow in the order of the catalog.
First(todo) == CHOOSE t \in todo : \A u \in todo : Position[t.section] <= Position[u.section]

Begin(todo) ==
    IF todo = {} THEN Idle
    ELSE [Idle EXCEPT !.at = IF First(todo).base = 0 THEN "create" ELSE "lock", !.todo = todo]

Start(h, todo) ==
    /\ At(h, "idle") /\ requests < MaxRequests
    /\ requests' = requests + 1
    /\ req' = [req EXCEPT ![h] = Begin(todo)]
    /\ UNCHANGED <<versions, log, nextId, locks, check, aborts>>

\* A person saves what they made of a version they loaded some time ago.
PutSection(h) ==
    \E s \in Sections, c \in Contents : \E base \in 1..Current(s) :
        Start(h, {Task(s, base, c)})

\* An old version is saved on top of the current one.
RestoreVersion(h) ==
    \E s \in Sections : \E old \in 1..Current(s) :
        Start(h, {Task(s, Current(s), versions[s][old].content)})

\* The base versions of the preview, which offers what is new or changed, were
\* found unchanged.
ApplyImport(h) ==
    \E keys \in SUBSET Sections \ {{}}, c \in Contents :
        /\ \A s \in keys : Current(s) # 0 => Last(versions[s]).content # c
        /\ Start(h, {Task(s, Current(s), c) : s \in keys})

\* Any other change that is logged, with one or two entries.
LogChange(h) ==
    /\ At(h, "idle") /\ requests < MaxRequests
    /\ requests' = requests + 1
    /\ \E n \in 1..2 : req' = [req EXCEPT ![h] =
            [Idle EXCEPT !.at = "chain", !.items = [i \in 1..n |-> Other]]]
    /\ UNCHANGED <<versions, log, nextId, locks, check, aborts>>

-----------------------------------------------------------------------------
(* The transaction of a request *)

Now(h) == First(req[h].todo)

SavesSection(h) == req[h].todo # {}

\* The request after the section it is at: the next section, or its end.
Continue(h) == IF SavesSection(h) THEN Begin(req[h].todo \ {Now(h)}) ELSE Idle

Stale(h) == Now(h).base # Current(Now(h).section)
Same(h) == Last(versions[Now(h).section]).content = Now(h).content
NoRowLock(s) == TRUE    \* mutant
Free(s) == rowLock[s] = NoOne

\* SELECT ... FOR UPDATE waits for the lock and then reads the row.
LockRow(h) ==
    /\ At(h, "lock") /\ Free(Now(h).section)
    /\ ~Stale(h) /\ ~Same(h)
    /\ rowLock' = [rowLock EXCEPT ![Now(h).section] = h]
    /\ req' = [req EXCEPT ![h].at = "chain",
                          ![h].items = <<Logged(Now(h).section, Now(h).base + 1)>>]
    /\ UNCHANGED <<versions, log, nextId, chainLock, check, requests, aborts>>

\* ConfigConflictException: also the end of an import.
Conflict(h) ==
    /\ \/ At(h, "lock") /\ Free(Now(h).section)
       \/ At(h, "create")
    /\ Stale(h)
    /\ req' = [req EXCEPT ![h] = Idle]
    /\ UNCHANGED <<versions, log, nextId, locks, check, requests, aborts>>

NothingNew(h) ==
    /\ At(h, "lock") /\ Free(Now(h).section)
    /\ ~Stale(h) /\ Same(h)
    /\ req' = [req EXCEPT ![h] = Continue(h)]
    /\ UNCHANGED <<versions, log, nextId, locks, check, requests, aborts>>

\* The section does not exist yet; no row can be locked.
Create(h) ==
    /\ At(h, "create") /\ ~Stale(h)
    /\ req' = [req EXCEPT ![h].at = "chain", ![h].items = <<Logged(Now(h).section, 1)>>]
    /\ UNCHANGED <<versions, log, nextId, locks, check, requests, aborts>>

NoChainLock == TRUE    \* mutant
ChainFree == chainLock = NoOne

TakeChainLock(h) ==
    /\ At(h, "chain") /\ ChainFree
    /\ chainLock' = h
    /\ GoTo(h, "prev")
    /\ UNCHANGED <<versions, log, nextId, rowLock, check, requests, aborts>>

ReadPrev(h) ==
    /\ At(h, "prev")
    /\ req' = [req EXCEPT ![h].at = "ids", ![h].prev = LastHash(log)]
    /\ UNCHANGED <<versions, log, nextId, locks, check, requests, aborts>>

TakeIds(h) ==
    /\ At(h, "ids")
    /\ nextId' = nextId + Len(req[h].items)
    /\ req' = [req EXCEPT ![h].at = "insert", ![h].id = nextId]
    /\ UNCHANGED <<versions, log, locks, check, requests, aborts>>

KeepLocks(h) == rowLock    \* mutant
Unlocked(h) == [s \in Sections |-> IF rowLock[s] = h THEN NoOne ELSE rowLock[s]]

Release(h) ==
    /\ rowLock' = Unlocked(h)
    /\ chainLock' = IF chainLock = h THEN NoOne ELSE chainLock

NeverTaken(h) == FALSE    \* mutant
KeyIsTaken(h) == SavesSection(h) /\ Now(h).base = 0 /\ Stale(h)

\* The inserts and the commit.
Insert(h) ==
    /\ At(h, "insert")
    /\ ~KeyIsTaken(h)
    /\ log' = log \cup Chained(req[h].prev, req[h].items, req[h].id)
    /\ versions' = IF SavesSection(h)
                   THEN [versions EXCEPT ![Now(h).section] =
                            Append(@, [content |-> Now(h).content, base |-> Now(h).base])]
                   ELSE versions
    /\ Release(h)
    /\ req' = [req EXCEPT ![h] = Continue(h)]
    /\ UNCHANGED <<nextId, check, requests, aborts>>

\* Another request created the section first: the key is taken.
KeyTaken(h) ==
    /\ At(h, "insert") /\ KeyIsTaken(h)
    /\ Release(h)
    /\ req' = [req EXCEPT ![h] = Idle]
    /\ UNCHANGED <<versions, log, nextId, check, requests, aborts>>

\* The database, the connection or the service fails, or the client is gone.
Abort(h) ==
    /\ ~At(h, "idle") /\ aborts < MaxAbort
    /\ aborts' = aborts + 1
    /\ Release(h)
    /\ req' = [req EXCEPT ![h] = Idle]
    /\ UNCHANGED <<versions, log, nextId, check, requests>>

Transaction(h) ==
    \/ LockRow(h) \/ Conflict(h) \/ NothingNew(h) \/ Create(h)
    \/ TakeChainLock(h) \/ ReadPrev(h) \/ TakeIds(h) \/ Insert(h) \/ KeyTaken(h)

-----------------------------------------------------------------------------
(* The verification, one at a time *)

StartCheck ==
    /\ ~check.walking
    /\ check' = [NotWalking EXCEPT !.walking = TRUE]
    /\ UNCHANGED <<versions, log, nextId, locks, req, requests, aborts>>

\* The next rows by Id, as one query sees them.
Page == LET rest == {e \in log : e.id > check.after}
        IN  {e \in rest : Cardinality({f \in rest : f.id < e.id}) < PageSize}

Before(page, e) == {f \in page : f.id < e.id}
LinksInPage(page, e) == e.prev = LastHash(Before(page, e))    \* mutant
Links(page, e) == e.prev = IF Before(page, e) = {} THEN check.prev ELSE LastHash(Before(page, e))

ReadPage ==
    /\ check.walking /\ check.ok /\ Page # {}
    /\ check' = [walking |-> TRUE, after |-> Max({e.id : e \in Page}), prev |-> LastHash(Page),
                 ok |-> \A e \in Page : Links(Page, e)]
    /\ UNCHANGED <<versions, log, nextId, locks, req, requests, aborts>>

EndCheck ==
    /\ check.walking /\ (Page = {} \/ ~check.ok)
    /\ check' = [NotWalking EXCEPT !.ok = check.ok]
    /\ UNCHANGED <<versions, log, nextId, locks, req, requests, aborts>>

Next ==
    \/ \E h \in Handlers :
          \/ PutSection(h) \/ RestoreVersion(h) \/ ApplyImport(h) \/ LogChange(h)
          \/ Transaction(h) \/ Abort(h)
    \/ StartCheck \/ ReadPage \/ EndCheck

Spec == Init /\ [][Next]_vars

\* A started request goes on; a waiter gets a lock that stays free.
FairSpec == Spec /\ \A h \in Handlers : WF_vars(Transaction(h))

-----------------------------------------------------------------------------
(* Properties *)

Items == {Other} \cup [section : Sections, version : Nat]
Steps == {"idle", "lock", "create", "chain", "prev", "ids", "insert"}

\* Every variable keeps its type, and the sequence is ahead of the log.
TypeOK ==
    /\ versions \in [Sections -> Seq(Version)]
    /\ log \subseteq [id : 1..(nextId - 1), prev : Seq(Items), item : Items] /\ nextId \in Nat
    /\ rowLock \in [Sections -> Handlers \cup {NoOne}]
    /\ chainLock \in Handlers \cup {NoOne}
    /\ req \in [Handlers -> [at : Steps, todo : SUBSET Tasks, items : Seq(Items),
                             prev : Seq(Items), id : Nat]]
    /\ check \in [walking : BOOLEAN, after : 0..(nextId - 1), prev : Seq(Items), ok : BOOLEAN]
    /\ requests \in 0..MaxRequests /\ aborts \in 0..MaxAbort

\* "the chain order always equals the Id order, also for concurrent writers"
\* (ChangeLogChain): every entry is linked to the one with the next lower Id.
ChainIntact ==
    \A e \in log : e.prev = LastHash({f \in log : f.id < e.id})

\* The verification, page by page while others write, never reports a break in
\* a log nobody tampered with.
VerifyFindsNoBreak == check.ok

\* "Row lock serialises concurrent saves of the same section" (SaveAsync): each
\* version was made by somebody who had seen the one before it.
NoLostUpdate ==
    \A s \in Sections : \A v \in 1..Current(s) : versions[s][v].base = v - 1

\* The log tells the history of a section in its order: the entries of its
\* versions have ascending Ids, and every version after the seed has one.
LogFollowsHistory ==
    \A s \in Sections :
        LET entries == {e \in log : e.item.section = s}
            seeded == IF s \in Seeded THEN 1 ELSE 0
        IN  /\ {e.item.version : e \in entries} = (seeded + 1)..Current(s)
            /\ \A e, f \in entries : e.id < f.id => e.item.version < f.item.version

\* No order of locks and failures leaves a request waiting for ever.
RequestsEnd == \A h \in Handlers : ~At(h, "idle") ~> At(h, "idle")
=============================================================================
