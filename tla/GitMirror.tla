------------------------------ MODULE GitMirror ------------------------------
(***************************************************************************)
(* The mirror of the configuration in a Git repository: the saves and the  *)
(* administrators' requests that fill GitSyncQueue, the GitSyncWorker that *)
(* empties it (GitSyncService.ProcessAsync), its local clone               *)
(* (GitRepositorySync) and the remote repository, which other people       *)
(* change too.  The database, the state row and the clone survive a crash  *)
(* of the service; queue, deferred versions and retry timer do not.        *)
(*                                                                         *)
(* A commit is the tree it stores: per section the version of the file and *)
(* the version versions.json lists, and a count of the changes to other    *)
(* paths of the repository.  Nobody rewrites the remote's history.         *)
(***************************************************************************)
EXTENDS Naturals, Sequences, SequencesExt

CONSTANTS Sections,     \* keys of the configuration's sections
          Handlers,     \* concurrent request handlers
          Foreign,      \* content of a section's file somebody else wrote
          Capacity,     \* GitSyncQueue.Capacity (1000)
          BatchSize,    \* requests the worker takes at once (200)
          MaxVersion,   \* bound: versions of a section
          MaxAdmin,     \* bound: requests of administrators
          MaxForeign,   \* bound: commits of other people
          MaxFail,      \* bound: failures of the network or the clone
          MaxBreak      \* bound: crashes and database errors in the worker

ASSUME ForeignAssumption == Foreign \notin Nat
ASSUME BoundsAssumption ==
    /\ {Capacity, BatchSize, MaxVersion} \subseteq Nat \ {0}
    /\ {MaxAdmin, MaxForeign, MaxFail, MaxBreak} \subseteq Nat

VARIABLES db,         \* current version of every section
          settings,   \* enabled, pushOnSave
          row,        \* gitState: synced (LastSyncAt), conflict, error
          proc,       \* per handler the request it is about to enqueue
          queue,      \* GitSyncQueue
          deferred,   \* GitSyncStatus.Deferred
          needsFull,  \* GitSyncStatus.NeedsFull
          retry,      \* GitSyncStatus.NextRetryAt is set
          sync,       \* the worker and the locals of ProcessAsync
          local,      \* history of the local clone
          tracked,    \* history of refs/remotes/origin
          remote,     \* history of the remote branch
          owed,       \* history: the versions a full export was begun for, until one is committed
          count       \* history: how often each bounded thing happened

stored == <<db, settings, row>>
memory == <<queue, deferred, needsFull, retry>>
clone == <<local, tracked>>
vars == <<stored, proc, memory, sync, clone, remote, owed, count>>

Versions == 0..MaxVersion       \* 0: the section has no file
Tree == [file : [Sections -> Versions \cup {Foreign}],
         listed : [Sections -> Versions], other : Nat]
NoTree == [file |-> [s \in Sections |-> 0], listed |-> [s \in Sections |-> 0], other |-> 0]

SectionRequest(s, v) == [kind |-> "Section", section |-> s, version |-> v]
Full == [kind |-> "Full"]
TakeRemote == [kind |-> "TakeRemote"]
SectionRequests == {SectionRequest(s, v) : s \in Sections, v \in Versions}
Requests == SectionRequests \cup {Full, TakeRemote}
NoRequest == [kind |-> "None"]
AnyRequest(r) == TRUE    \* mutant
IsSection(r) == r.kind = "Section"

\* The requests of a batch that name a section, in their order.
SectionsOf(batch) ==
    LET among[n \in 0..Len(batch)] ==
            IF n = 0 THEN <<>>
            ELSE IF IsSection(batch[n]) THEN Append(among[n - 1], batch[n]) ELSE among[n - 1]
    IN  among[Len(batch)]

Row == [synced : BOOLEAN, conflict : BOOLEAN, error : BOOLEAN]
Steps == {"idle", "fetch", "commit", "push", "save", "finish"}
Idle == [at |-> "idle", row |-> [synced |-> FALSE, conflict |-> FALSE, error |-> FALSE],
         take |-> FALSE, full |-> FALSE, todo |-> <<>>, again |-> FALSE]

Counted == {"admin", "foreign", "fail", "break"}
Happens(what, bound) == /\ count[what] < bound
                        /\ count' = [count EXCEPT ![what] = @ + 1]

Init ==
    /\ db = [s \in Sections |-> 1]
    /\ settings \in [enabled : BOOLEAN, pushOnSave : BOOLEAN]
    /\ row = Idle.row
    /\ proc = [h \in Handlers |-> NoRequest]
    /\ queue = <<>> /\ deferred = <<>> /\ needsFull = FALSE /\ retry = FALSE
    /\ sync = Idle
    /\ local = <<>> /\ tracked = <<>> /\ remote = <<>>
    /\ owed = NoTree.listed
    /\ count = [c \in Counted |-> 0]

-----------------------------------------------------------------------------
(* Histories *)

Tip(history) == IF history = <<>> THEN NoTree ELSE Last(history)

\* Length of the common history of two branches.
MergeBase(a, b) == Len(LongestCommonPrefix({a, b}))

\* Commits of the clone that are not on the remote branch.
Ahead(a, b) == SubSeq(a, MergeBase(a, b) + 1, Len(a))

TouchesOurPaths(from, to) == from.file # to.file \/ from.listed # to.listed

KeepListing(onto, tree) == [onto EXCEPT !.file = tree.file]    \* mutant
WholeTree(onto, tree) == tree                                 \* mutant

\* A commit on top of another tree: that tree with our paths replaced.
ReplacePath(onto, tree) == [onto EXCEPT !.file = tree.file, !.listed = tree.listed]

BothMoved(a, b) == ~IsPrefix(a, b) /\ ~IsPrefix(b, a)

InConflict(a, b) ==
    /\ BothMoved(a, b)
    /\ TouchesOurPaths(Tip(SubSeq(b, 1, MergeBase(a, b))), Tip(b))

Integrate(a, b) ==
    LET ours == Ahead(a, b)
    IN  b \o [i \in 1..Len(ours) |-> ReplacePath(Tip(b), ours[i])]

\* The clone after it caught up with the fetched branch, without a conflict.
CatchUp(a, b) ==
    IF b = <<>> \/ IsPrefix(b, a) THEN a
    ELSE IF IsPrefix(a, b) THEN b ELSE Integrate(a, b)

Commit(tree) == local' = IF tree = Tip(local) THEN local ELSE Append(local, tree)

-----------------------------------------------------------------------------
(* Request handlers *)

Save(h, s) ==
    /\ proc[h] = NoRequest
    /\ db[s] < MaxVersion
    /\ db' = [db EXCEPT ![s] = @ + 1]
    /\ proc' = [proc EXCEPT ![h] = SectionRequest(s, db[s] + 1)]
    /\ UNCHANGED <<settings, row, memory, sync, clone, remote, owed, count>>

SyncNow(h) ==
    /\ proc[h] = NoRequest
    /\ settings.enabled /\ ~row.conflict
    /\ Happens("admin", MaxAdmin)
    /\ proc' = [proc EXCEPT ![h] = Full]
    /\ UNCHANGED <<stored, memory, sync, clone, remote, owed>>

Resolve(h) ==
    /\ proc[h] = NoRequest
    /\ settings.enabled
    /\ Happens("admin", MaxAdmin)
    /\ proc' = [proc EXCEPT ![h] = TakeRemote]
    /\ UNCHANGED <<stored, memory, sync, clone, remote, owed>>

\* The repository, its branch and its folder stay as they are.
SaveSettings(h) ==
    /\ proc[h] = NoRequest
    /\ Happens("admin", MaxAdmin)
    /\ \E next \in [enabled : BOOLEAN, pushOnSave : BOOLEAN] :
          /\ next # settings
          /\ settings' = next
          /\ proc' = IF next.enabled THEN [proc EXCEPT ![h] = Full] ELSE proc
    /\ UNCHANGED <<db, row, memory, sync, clone, remote, owed>>

\* A full channel drops the written request and reports success.
Enqueue(h) ==
    /\ proc[h] # NoRequest
    /\ queue' = IF Len(queue) < Capacity THEN Append(queue, proc[h]) ELSE queue
    /\ proc' = [proc EXCEPT ![h] = NoRequest]
    /\ UNCHANGED <<stored, deferred, needsFull, retry, sync, clone, remote, owed, count>>

-----------------------------------------------------------------------------
(* The worker *)

Batch == SubSeq(queue, 1, IF Len(queue) < BatchSize THEN Len(queue) ELSE BatchSize)
Taken == SubSeq(queue, Len(Batch) + 1, Len(queue))
Asks(kind) == \E i \in DOMAIN Batch : Batch[i].kind = kind
Wakes == sync.at = "idle" /\ (queue # <<>> \/ retry)

SkippedWhenOff == ~settings.enabled    \* mutant
Skipped == ~settings.enabled \/ (row.conflict /\ ~Asks("TakeRemote"))

\* The mirror is off, or a conflict waits for an administrator.
SkipBatch ==
    /\ Wakes /\ Skipped
    /\ queue' = Taken
    /\ sync' = [Idle EXCEPT !.at = "finish"]
    /\ UNCHANGED <<stored, proc, deferred, needsFull, retry, clone, remote, owed, count>>

Begin ==
    /\ Wakes /\ ~Skipped
    /\ LET full == Asks("TakeRemote") \/ needsFull \/ Asks("Full") \/ ~row.synced
       IN  /\ sync' = [Idle EXCEPT !.at = "fetch", !.row = row, !.full = full,
                         !.take = Asks("TakeRemote"),
                         !.todo = IF settings.pushOnSave
                                  THEN deferred \o SectionsOf(Batch) ELSE <<>>]
           /\ owed' = IF full THEN db ELSE owed
    /\ queue' = Taken
    /\ deferred' = <<>>
    /\ UNCHANGED <<stored, proc, needsFull, retry, clone, remote, count>>

Fetched == IF sync.full \/ sync.todo # <<>> THEN "commit" ELSE "push"

ResetToRemote ==
    /\ sync.at = "fetch" /\ sync.take
    /\ tracked' = remote /\ local' = remote
    /\ sync' = [sync EXCEPT !.at = "commit", !.row.conflict = FALSE]
    /\ UNCHANGED <<stored, proc, memory, remote, owed, count>>

Fetch ==
    /\ sync.at = "fetch" /\ ~sync.take
    /\ ~InConflict(local, remote)
    /\ tracked' = remote /\ local' = CatchUp(local, remote)
    /\ sync' = [sync EXCEPT !.at = Fetched]
    /\ UNCHANGED <<stored, proc, memory, remote, owed, count>>

\* The sections of the batch are not kept: an export of everything follows.
FetchConflict ==
    /\ sync.at = "fetch" /\ ~sync.take
    /\ InConflict(local, remote)
    /\ tracked' = remote
    /\ sync' = [sync EXCEPT !.at = "save", !.row.conflict = TRUE, !.row.error = TRUE, !.todo = <<>>]
    /\ UNCHANGED <<stored, proc, memory, local, remote, owed, count>>

CommitAll ==
    /\ sync.at = "commit" /\ sync.full
    /\ Commit([Tip(local) EXCEPT !.file = db, !.listed = db])
    /\ needsFull' = FALSE
    /\ owed' = NoTree.listed
    /\ sync' = [sync EXCEPT !.at = "push", !.todo = <<>>]
    /\ UNCHANGED <<stored, proc, queue, deferred, retry, tracked, remote, count>>

WithSection(tree, r) ==
    [tree EXCEPT !.file[r.section] = r.version, !.listed[r.section] = r.version]

CommitSection ==
    /\ sync.at = "commit" /\ ~sync.full
    /\ Commit(WithSection(Tip(local), Head(sync.todo)))
    /\ sync' = [sync EXCEPT !.todo = Tail(@), !.at = IF Tail(sync.todo) = <<>> THEN "push" ELSE @]
    /\ UNCHANGED <<stored, proc, memory, tracked, remote, owed, count>>

Succeeded == [synced |-> TRUE, conflict |-> sync.row.conflict, error |-> FALSE]

NothingToPush ==
    /\ sync.at = "push" /\ Ahead(local, tracked) = <<>>
    /\ retry' = FALSE
    /\ sync' = [sync EXCEPT !.at = "save", !.row = Succeeded]
    /\ UNCHANGED <<stored, proc, queue, deferred, needsFull, clone, remote, owed, count>>

Push ==
    /\ sync.at = "push" /\ Ahead(local, tracked) # <<>>
    /\ IsPrefix(remote, local)
    /\ remote' = local /\ tracked' = local
    /\ retry' = FALSE
    /\ sync' = [sync EXCEPT !.at = "save", !.row = Succeeded]
    /\ UNCHANGED <<stored, proc, queue, deferred, needsFull, local, owed, count>>

Rejected == sync.at = "push" /\ Ahead(local, tracked) # <<>> /\ ~IsPrefix(remote, local)

\* Not a fast-forward: fetch, catch up and push once more.
PushAgain ==
    /\ Rejected /\ ~sync.again /\ ~InConflict(local, remote)
    /\ tracked' = remote /\ local' = CatchUp(local, remote)
    /\ sync' = [sync EXCEPT !.again = TRUE]
    /\ UNCHANGED <<stored, proc, memory, remote, owed, count>>

PushConflict ==
    /\ Rejected /\ (sync.again \/ InConflict(local, remote))
    /\ tracked' = IF sync.again THEN tracked ELSE remote
    /\ sync' = [sync EXCEPT !.at = "save", !.row.conflict = TRUE, !.row.error = TRUE]
    /\ UNCHANGED <<stored, proc, memory, local, remote, owed, count>>

\* The answer to a push is an error or is lost; the remote may have taken it.
PushFails ==
    /\ sync.at = "push" /\ Ahead(local, tracked) # <<>>
    /\ Happens("fail", MaxFail)
    /\ remote' \in {remote} \cup (IF IsPrefix(remote, local) THEN {local} ELSE {})
    /\ sync' = [sync EXCEPT !.at = "save", !.row.error = TRUE]
    /\ UNCHANGED <<stored, proc, memory, clone, owed>>

NothingRemains == <<>>    \* mutant
Remaining == deferred \o sync.todo

\* An expected exception while fetching or committing.
SyncFails ==
    /\ sync.at \in {"fetch", "commit"} \/ (Rejected /\ ~sync.again)
    /\ Happens("fail", MaxFail)
    /\ IF Len(Remaining) > Capacity
       THEN needsFull' = TRUE /\ UNCHANGED deferred
       ELSE deferred' = Remaining /\ UNCHANGED needsFull
    /\ sync' = [sync EXCEPT !.at = "save", !.row.error = TRUE, !.todo = <<>>]
    /\ UNCHANGED <<stored, proc, queue, retry, clone, remote, owed>>

SaveState ==
    /\ sync.at = "save"
    /\ row' = sync.row
    /\ sync' = [Idle EXCEPT !.at = "finish"]
    /\ UNCHANGED <<db, settings, proc, memory, clone, remote, owed, count>>

Finish ==
    /\ sync.at = "finish"
    /\ retry' = (settings.enabled /\ ~row.conflict /\ row.error)
    /\ sync' = Idle
    /\ UNCHANGED <<stored, proc, queue, deferred, needsFull, clone, remote, owed, count>>

\* The database fails: the batch is forgotten, the next attempt follows in a minute.
WorkerError ==
    /\ sync.at \notin {"idle", "push"}
    /\ Happens("break", MaxBreak)
    /\ retry' = TRUE
    /\ sync' = Idle
    /\ UNCHANGED <<stored, proc, queue, deferred, needsFull, clone, remote, owed>>

-----------------------------------------------------------------------------
(* The surroundings *)

ForeignCommit ==
    /\ Happens("foreign", MaxForeign)
    /\ \/ remote' = Append(remote, [Tip(remote) EXCEPT !.other = @ + 1])
       \/ \E s \in Sections :
             /\ Tip(remote).file[s] # Foreign
             /\ remote' = Append(remote, [Tip(remote) EXCEPT !.file[s] = Foreign])
    /\ UNCHANGED <<stored, proc, memory, sync, clone, owed>>

Crash ==
    /\ Happens("break", MaxBreak)
    /\ proc' = [h \in Handlers |-> NoRequest]
    /\ queue' = <<>> /\ deferred' = <<>> /\ needsFull' = FALSE /\ retry' = FALSE
    /\ sync' = Idle
    /\ UNCHANGED <<stored, clone, remote, owed>>

WorkerStep ==
    \/ SkipBatch \/ Begin
    \/ ResetToRemote \/ Fetch \/ FetchConflict
    \/ CommitAll \/ CommitSection
    \/ NothingToPush \/ Push \/ PushAgain \/ PushConflict
    \/ PushFails \/ SyncFails
    \/ SaveState \/ Finish

Next ==
    \/ \E h \in Handlers : \/ \E s \in Sections : Save(h, s)
                           \/ SyncNow(h) \/ Resolve(h) \/ SaveSettings(h) \/ Enqueue(h)
    \/ WorkerStep \/ WorkerError
    \/ ForeignCommit \/ Crash

Spec == Init /\ [][Next]_vars

\* The worker's loop and a handler's last statement go on; nothing else must happen.
FairSpec ==
    /\ Spec
    /\ WF_vars(WorkerStep)
    /\ \A h \in Handlers : WF_vars(Enqueue(h))

-----------------------------------------------------------------------------
(* Properties *)

Bound == [admin |-> MaxAdmin, foreign |-> MaxForeign, fail |-> MaxFail, break |-> MaxBreak]

\* Every variable keeps its type; a batch and what it left behind are section requests.
TypeOK ==
    /\ db \in [Sections -> Versions]
    /\ settings \in [enabled : BOOLEAN, pushOnSave : BOOLEAN]
    /\ row \in Row
    /\ proc \in [Handlers -> Requests \cup {NoRequest}]
    /\ queue \in Seq(Requests) /\ Len(queue) <= Capacity
    /\ deferred \in Seq(SectionRequests) /\ Len(deferred) <= Capacity
    /\ {needsFull, retry} \subseteq BOOLEAN
    /\ owed \in [Sections -> Versions]
    /\ sync \in [at : Steps, row : Row, take : BOOLEAN, full : BOOLEAN,
                 todo : Seq(SectionRequests), again : BOOLEAN]
    /\ {local, tracked, remote} \subseteq Seq(Tree)
    /\ count \in [Counted -> Nat] /\ \A c \in Counted : count[c] <= Bound[c]

\* In every commit on either side versions.json names the version each section's
\* file has, however commits of both sides were replayed, exported and repeated.
FilesMatchListing ==
    \A history \in {local, remote} : \A i \in DOMAIN history, s \in Sections :
        history[i].file[s] \in {history[i].listed[s], Foreign}

\* "other content of the repository is never touched" (GitRepositorySync.Integrate):
\* no commit on the branch takes back what an earlier one changed in other paths.
OthersUntouched ==
    \A i, j \in DOMAIN remote : i < j => remote[i].other <= remote[j].other

WorkerPushes == remote' # remote /\ count'.foreign = count.foreign

\* Once a conflict is reported nothing is pushed before an administrator chose
\* to take over the remote, across batches, retries and restarts of the service.
ConflictStopsPushing == [][WorkerPushes /\ row.conflict => sync.take]_vars

Mirrored(s, v) == Tip(remote).file[s] \in v..MaxVersion
MirrorOn == settings.enabled /\ settings.pushOnSave

\* With pushing on save every saved version reaches the remote in time, whatever
\* fails on the way, or the state tells why not: a conflict, a foreign file, a
\* full export that is still owed.  What a crash or a database error loses is
\* excused, and so is what is saved while the mirror is off.
EverySaveMirrored ==
    \A s \in Sections, v \in 2..MaxVersion :
        MirrorOn /\ db[s] = v
            ~> \/ Mirrored(s, v)
               \/ row.conflict \/ Tip(remote).file[s] = Foreign \/ owed # NoTree.listed
               \/ ~MirrorOn \/ count.break > 0
=============================================================================
