------------------------------ MODULE JitAccess ------------------------------
(***************************************************************************)
(* Just-in-time access: requests for a membership that ends by itself, the *)
(* handlers that create, decide, withdraw and revoke them, the grant and   *)
(* revoke runs the RunWorker executes for them, the JitWorker's periodic   *)
(* maintenance, and the directory that removes a membership when its time  *)
(* to live is over.                                                        *)
(*                                                                         *)
(* A target is an account in a group.  A handler, the maintenance and the  *)
(* completion of a run read rows, await, and then write the columns they   *)
(* changed: an ExecuteUpdate with a Where on the status is conditional,    *)
(* SaveChanges of a tracked row is not.  A run is seen here from its       *)
(* insert to its outcome only; RunLifecycle has the pipeline.              *)
(***************************************************************************)
EXTENDS Naturals, FiniteSets

CONSTANTS
    People,           \* accounts of the service: they request, decide, revoke
    NoOne,            \* null in DecidedBy
    Targets,          \* accounts in groups that may be requested
    Handlers,         \* request handlers that can be in flight at once
    Maintainer,       \* the JitWorker, a BackgroundService of its own
    ApprovalSettings, \* values of JitGroup.RequiresApproval
    ApprovalTimeout,  \* ApprovalTimeoutHours, in clock units
    Duration,         \* requested minutes, in clock units
    MaxRequests,      \* bound: rows of jit_requests
    MaxRuns,          \* bound: runs of kind Jit
    MaxTime,          \* bound: the clock
    MaxCrash,         \* bound: crashes of the service
    MaxFail           \* bound: completions the database refuses

None == 0
RequestIds == 1..MaxRequests
RunIds == 1..MaxRuns
Times == 1..MaxTime
Dates == 0..(MaxTime + ApprovalTimeout + Duration)
Procs == Handlers \cup {Maintainer}

ASSUME JitBoundsAssumption ==
    /\ MaxRequests \in Nat \ {0} /\ MaxRuns \in Nat \ {0} /\ MaxTime \in Nat \ {0}
    /\ MaxCrash \in Nat /\ MaxFail \in Nat
    /\ ApprovalTimeout \in Nat \ {0} /\ Duration \in Nat \ {0}
ASSUME JitNamesAssumption ==
    NoOne \notin People /\ Maintainer \notin Handlers /\ ApprovalSettings \subseteq BOOLEAN
ASSUME JitTargetsAssumption == Targets # {}

JitStatus == {"Pending", "Approved", "Rejected", "Active", "Expired", "Revoked", "Failed", "Cancelled"}
JitEnds == {"Rejected", "Expired", "Revoked", "Failed", "Cancelled"}
OpenStatus == {"Pending", "Approved", "Active"}
RunStatus == {"None", "Queued", "Running", "Succeeded", "Failed", "Cancelled"}
Actions == {"Grant", "Revoke"}

Request == [status : JitStatus \cup {"None"}, by : People \cup {NoOne}, target : Targets,
            approvalRequired : BOOLEAN, approvalExpires : Dates,
            decidedBy : People \cup {NoOne}, decidedAt : Dates,
            expiresAt : Dates, runId : 0..MaxRuns, revokeRunId : 0..MaxRuns]
Run == [status : RunStatus, action : Actions, request : RequestIds]

NoRequest == [status |-> "None", by |-> NoOne, target |-> CHOOSE t \in Targets : TRUE,
              approvalRequired |-> FALSE, approvalExpires |-> None,
              decidedBy |-> NoOne, decidedAt |-> None,
              expiresAt |-> None, runId |-> None, revokeRunId |-> None]
NoRun == [status |-> "None", action |-> "Grant", request |-> 1]

VARIABLES
    now,         \* the clock
    requests,    \* table jit_requests
    lastRequest, \* last id of that table
    runs,        \* runs of kind Jit: id -> row
    lastRun,     \* last id of those
    proc,        \* what each handler and the JitWorker is doing
    worker,      \* what the RunWorker is doing with a run of kind Jit
    script,      \* run -> what its PowerShell process has done so far
    members,     \* the directory: target -> request that put it in, and until when
    faults       \* crashes and refused completions so far, for the bounds

vars == <<now, requests, lastRequest, runs, lastRun, proc, worker, script, members, faults>>
tables == <<requests, lastRequest, runs, lastRun>>
execution == <<worker, script, members>>

Sets == [expired : SUBSET RequestIds, overdue : SUBSET RequestIds,
         stuck : SUBSET RequestIds, stuckRevoke : SUBSET RequestIds]
NoSets == [expired |-> {}, overdue |-> {}, stuck |-> {}, stuckRevoke |-> {}]

ProcPc == {"idle", "store", "autoApprove", "decide", "overdue", "insertRun", "linkRun", "maintain"}
ProcType == [pc : ProcPc, id : 0..MaxRequests, row : Request, action : Actions,
             run : 0..MaxRuns, sets : Sets]
Idle == [pc |-> "idle", id |-> None, row |-> NoRequest, action |-> "Grant",
         run |-> None, sets |-> NoSets]

WorkerPc == {"down", "recover", "loop", "executing", "ended", "saved", "completing"}
WorkerType == [pc : WorkerPc, run : 0..MaxRuns, result : RunStatus, until : Dates, row : Request]
WorkerAt(pc) == [pc |-> pc, run |-> None, result |-> "None", until |-> None, row |-> NoRequest]

\* What a PowerShell process has done, and the end of the membership it read back.
ScriptState == [did : {"none", "started", "done", "failed"}, until : Dates]
Script(did) == [did |-> did, until |-> None]
NoMember == [by |-> None, until |-> None]

TypeOK ==
    /\ now \in Times
    /\ requests \in [RequestIds -> Request]
    /\ lastRequest \in 0..MaxRequests
    /\ runs \in [RunIds -> Run]
    /\ lastRun \in 0..MaxRuns
    /\ proc \in [Procs -> ProcType]
    /\ worker \in WorkerType
    /\ script \in [RunIds -> ScriptState]
    /\ members \in [Targets -> [by : 0..MaxRequests, until : Dates]]
    /\ faults \in [crash : 0..MaxCrash, fail : 0..MaxFail]

Init ==
    /\ now = 1
    /\ requests = [r \in RequestIds |-> NoRequest]
    /\ lastRequest = 0
    /\ runs = [r \in RunIds |-> NoRun]
    /\ lastRun = 0
    /\ proc = [p \in Procs |-> Idle]
    /\ worker = WorkerAt("recover")
    /\ script = [r \in RunIds |-> Script("none")]
    /\ members = [t \in Targets |-> NoMember]
    /\ faults = [crash |-> 0, fail |-> 0]

-----------------------------------------------------------------------------
(* Creating a request. *)

Up == worker.pc # "down"
Become(p, state) == proc' = [proc EXCEPT ![p] = state]
Begin(p) == Up /\ p \in Handlers /\ proc[p].pc = "idle"

\* Bounds: ids that handlers in flight will still take.
RequestsLeft == lastRequest + Cardinality({p \in Procs : proc[p].pc = "store"}) < MaxRequests
RunsLeft ==
    lastRun + Cardinality({p \in Procs : proc[p].pc \in {"store", "autoApprove", "decide", "insertRun"}})
        < MaxRuns

Duplicate(target) == \E r \in RequestIds : requests[r].target = target /\ requests[r].status \in OpenStatus

\* Mutant: ApprovalTimeoutHours taken for days.
DeadlineInDays(approval) == IF approval THEN now + 24 * ApprovalTimeout ELSE None
Deadline(approval) == IF approval THEN now + ApprovalTimeout ELSE None

\* CreateAsync up to its first SaveChanges: the row is not stored yet.
Create(p, user, target, approval) ==
    /\ Begin(p)
    /\ RequestsLeft /\ RunsLeft
    /\ now + ApprovalTimeout <= MaxTime
    /\ ~Duplicate(target)
    /\ Become(p, [Idle EXCEPT !.pc = "store",
           !.row = [NoRequest EXCEPT !.status = "Pending", !.by = user, !.target = target,
                                     !.approvalRequired = approval,
                                     !.approvalExpires = Deadline(approval)]])
    /\ UNCHANGED <<now, tables, execution, faults>>

Store(p) ==
    LET r == lastRequest + 1
    IN  /\ proc[p].pc = "store"
        /\ lastRequest < MaxRequests
        /\ lastRequest' = r
        /\ requests' = [requests EXCEPT ![r] = proc[p].row]
        /\ Become(p, IF proc[p].row.approvalRequired THEN Idle
                     ELSE [Idle EXCEPT !.pc = "autoApprove", !.id = r])
        /\ UNCHANGED <<now, runs, lastRun, execution, faults>>

\* The group needs no approval: SaveChanges of the tracked row.
AutoApprove(p) ==
    /\ proc[p].pc = "autoApprove"
    /\ requests' = [requests EXCEPT ![proc[p].id].status = "Approved", ![proc[p].id].decidedAt = now]
    /\ Become(p, [proc[p] EXCEPT !.pc = "insertRun"])
    /\ UNCHANGED <<now, lastRequest, runs, lastRun, execution, faults>>

-----------------------------------------------------------------------------
(* Deciding, withdrawing, revoking. *)

\* Mutant: the requester may decide.
AnyPerson(r, user) == TRUE
SecondPerson(r, user) == user # requests[r].by

ApprovalOverdue(r) == requests[r].approvalExpires # None /\ requests[r].approvalExpires <= now

\* DecideAsync up to its conditional write.
Decide(p, user, r, approve) ==
    /\ Begin(p)
    /\ RunsLeft
    /\ requests[r].status = "Pending"
    /\ SecondPerson(r, user)
    /\ Become(p, IF ApprovalOverdue(r) THEN [Idle EXCEPT !.pc = "overdue", !.id = r]
                 ELSE [Idle EXCEPT !.pc = "decide", !.id = r,
                           !.row = [requests[r] EXCEPT
                               !.status = IF approve THEN "Approved" ELSE "Rejected",
                               !.decidedBy = user, !.decidedAt = now]])
    /\ UNCHANGED <<now, tables, execution, faults>>

SaveDecision(p) ==
    LET r == proc[p].id
        row == proc[p].row
    IN  /\ proc[p].pc = "decide"
        /\ IF requests[r].status = "Pending"
           THEN /\ requests' = [requests EXCEPT ![r].status = row.status,
                                    ![r].decidedBy = row.decidedBy, ![r].decidedAt = row.decidedAt]
                /\ Become(p, IF row.status = "Approved" THEN [Idle EXCEPT !.pc = "insertRun", !.id = r]
                             ELSE Idle)
           ELSE Become(p, Idle) /\ UNCHANGED requests
        /\ UNCHANGED <<now, lastRequest, runs, lastRun, execution, faults>>

ExpireApproval(p) ==
    LET r == proc[p].id
    IN  /\ proc[p].pc = "overdue"
        /\ requests' = IF requests[r].status = "Pending"
                       THEN [requests EXCEPT ![r].status = "Rejected"]
                       ELSE requests
        /\ Become(p, Idle)
        /\ UNCHANGED <<now, lastRequest, runs, lastRun, execution, faults>>

\* One conditional write; the requester only.
Withdraw(p, r) ==
    /\ Begin(p)
    /\ requests[r].status = "Pending"
    /\ requests' = [requests EXCEPT ![r].status = "Cancelled"]
    /\ UNCHANGED <<now, lastRequest, runs, lastRun, proc, execution, faults>>

Revocable(r) == requests[r].status = "Active" /\ requests[r].revokeRunId = None

Revoke(p, r) ==
    /\ Begin(p)
    /\ RunsLeft
    /\ Revocable(r)
    /\ Become(p, [Idle EXCEPT !.pc = "insertRun", !.id = r, !.action = "Revoke"])
    /\ UNCHANGED <<now, tables, execution, faults>>

-----------------------------------------------------------------------------
(* StartRunAsync: insert the run, then link it to its request. *)

InsertRun(p) ==
    /\ proc[p].pc = "insertRun"
    /\ lastRun < MaxRuns
    /\ lastRun' = lastRun + 1
    /\ runs' = [runs EXCEPT ![lastRun + 1] =
                   [status |-> "Queued", action |-> proc[p].action, request |-> proc[p].id]]
    /\ Become(p, [proc[p] EXCEPT !.pc = "linkRun", !.run = lastRun + 1])
    /\ UNCHANGED <<now, requests, lastRequest, execution, faults>>

LinkRun(p) ==
    /\ proc[p].pc = "linkRun"
    /\ requests' = IF proc[p].action = "Grant"
                   THEN [requests EXCEPT ![proc[p].id].runId = proc[p].run]
                   ELSE [requests EXCEPT ![proc[p].id].revokeRunId = proc[p].run]
    /\ Become(p, Idle)
    /\ UNCHANGED <<now, lastRequest, runs, lastRun, execution, faults>>

\* RunService.CancelAsync of a run that has not started.
CancelRun(p, run) ==
    /\ Begin(p)
    /\ runs[run].status = "Queued"
    /\ runs' = [runs EXCEPT ![run].status = "Cancelled"]
    /\ UNCHANGED <<now, requests, lastRequest, lastRun, proc, execution, faults>>

-----------------------------------------------------------------------------
(* The RunWorker and the script it starts. *)

Recover ==
    /\ worker.pc = "recover"
    /\ runs' = [run \in RunIds |-> IF runs[run].status = "Running"
                                   THEN [runs[run] EXCEPT !.status = "Failed"] ELSE runs[run]]
    /\ worker' = WorkerAt("loop")
    /\ UNCHANGED <<now, requests, lastRequest, lastRun, proc, script, members, faults>>

Claim(run) ==
    /\ worker.pc = "loop"
    /\ runs[run].status = "Queued"
    /\ \A q \in RunIds : runs[q].status = "Queued" => run <= q
    /\ runs' = [runs EXCEPT ![run].status = "Running"]
    /\ worker' = [WorkerAt("executing") EXCEPT !.run = run]
    /\ script' = [script EXCEPT ![run] = Script("started")]
    /\ UNCHANGED <<now, requests, lastRequest, lastRun, proc, members, faults>>

TargetOf(run) == requests[runs[run].request].target
IsMember(t) == members[t] # NoMember

MayAdd(t) == ~IsMember(t)

\* Grant-TierModelJitAccess: refuses an existing membership, adds, verifies.
ScriptGrants(run) ==
    LET t == TargetOf(run)
    IN  /\ script[run].did = "started" /\ runs[run].action = "Grant"
        /\ IF MayAdd(t)
           THEN /\ members' = [members EXCEPT ![t] = [by |-> runs[run].request, until |-> now + Duration]]
                /\ \E did \in {"done", "failed"} :
                       script' = [script EXCEPT ![run] = [did |-> did, until |-> now + Duration]]
           ELSE script' = [script EXCEPT ![run] = Script("failed")] /\ UNCHANGED members
        /\ UNCHANGED <<now, tables, proc, worker, faults>>

\* Mutant: the script reports the removal without removing.
LeaveMember(t) == members
RemoveMember(t) == [members EXCEPT ![t] = NoMember]

\* Revoke-TierModelJitAccess: a membership that is gone already is a success too.
ScriptRevokes(run) ==
    /\ script[run].did = "started" /\ runs[run].action = "Revoke"
    /\ members' = RemoveMember(TargetOf(run))
    /\ \E did \in {"done", "failed"} : script' = [script EXCEPT ![run] = Script(did)]
    /\ UNCHANGED <<now, tables, proc, worker, faults>>

\* No domain controller, no right, prerequisites not met, ...
ScriptFails(run) ==
    /\ script[run].did = "started"
    /\ script' = [script EXCEPT ![run] = Script("failed")]
    /\ UNCHANGED <<now, tables, proc, worker, members, faults>>

\* RunPowerShellAsync returns the exit code and JitRunResult.Read finds the result file ...
ScriptExits ==
    LET done == script[worker.run].did = "done"
    IN  /\ worker.pc = "executing"
        /\ script[worker.run].did \in {"done", "failed"}
        /\ worker' = [worker EXCEPT !.pc = "ended", !.result = IF done THEN "Succeeded" ELSE "Failed",
                                    !.until = script[worker.run].until]
        /\ script' = [script EXCEPT ![worker.run] = Script("none")]
        /\ UNCHANGED <<now, tables, proc, members, faults>>

\* ... or the process is killed, by a user, the timeout or the stop of the service: no result.
ScriptKilled ==
    /\ worker.pc = "executing"
    /\ \E result \in {"Cancelled", "Failed"} : worker' = [worker EXCEPT !.pc = "ended", !.result = result]
    /\ script' = [script EXCEPT ![worker.run] = Script("none")]
    /\ UNCHANGED <<now, tables, proc, members, faults>>

SaveResult ==
    /\ worker.pc = "ended"
    /\ runs' = [runs EXCEPT ![worker.run].status = worker.result]
    /\ worker' = [worker EXCEPT !.pc = "saved"]
    /\ UNCHANGED <<now, requests, lastRequest, lastRun, proc, script, members, faults>>

\* CompleteRunAsync reloads the request ...
CompleteRead ==
    /\ worker.pc = "saved"
    /\ worker' = [worker EXCEPT !.pc = "completing", !.row = requests[runs[worker.run].request]]
    /\ UNCHANGED <<now, tables, proc, script, members, faults>>

\* ... and writes what the outcome changes in it.
CompleteSave ==
    LET run == worker.run
        r == runs[run].request
        done == worker.result = "Succeeded"
    IN  /\ worker.pc = "completing"
        /\ requests' =
             IF runs[run].action = "Grant" /\ worker.row.status = "Approved"
             THEN IF done THEN [requests EXCEPT ![r].status = "Active", ![r].expiresAt = worker.until]
                  ELSE [requests EXCEPT ![r].status = "Failed"]
             ELSE IF runs[run].action = "Revoke" /\ worker.row.revokeRunId = run
             THEN IF ~done THEN [requests EXCEPT ![r].revokeRunId = None]
                  ELSE IF worker.row.status = "Active" THEN [requests EXCEPT ![r].status = "Revoked"]
                  ELSE requests
             ELSE requests
        /\ worker' = WorkerAt("loop")
        /\ UNCHANGED <<now, lastRequest, runs, lastRun, proc, script, members, faults>>

\* The database refuses; the worker logs it and goes on.
CompleteFails ==
    /\ worker.pc \in {"saved", "completing"}
    /\ faults.fail < MaxFail
    /\ faults' = [faults EXCEPT !.fail = @ + 1]
    /\ worker' = WorkerAt("loop")
    /\ UNCHANGED <<now, tables, proc, script, members>>

-----------------------------------------------------------------------------
(* The JitWorker. *)

Elapsed == {r \in RequestIds : requests[r].status = "Active" /\ requests[r].expiresAt <= now}
Overdue == {r \in RequestIds : requests[r].status = "Pending" /\ ApprovalOverdue(r)}

\* Mutant: a run that was cancelled is not looked for.
FailedOnly(run) == run # None /\ runs[run].status = "Failed"
Unprocessed(run) == run # None /\ runs[run].status \in {"Failed", "Cancelled"}

\* MaintainAsync: its four queries, seen as one ...
MaintainRead ==
    LET sets == [expired |-> Elapsed, overdue |-> Overdue,
                 stuck |-> {r \in RequestIds :
                     requests[r].status = "Approved" /\ Unprocessed(requests[r].runId)},
                 stuckRevoke |-> {r \in RequestIds :
                     requests[r].status = "Active" /\ Unprocessed(requests[r].revokeRunId)}]
    IN  /\ Up
        /\ proc[Maintainer].pc = "idle"
        /\ sets # NoSets
        /\ Become(Maintainer, [Idle EXCEPT !.pc = "maintain", !.sets = sets])
        /\ UNCHANGED <<now, tables, execution, faults>>

\* ... and one SaveChanges for all of it, whatever became of those rows meanwhile.
MaintainSave ==
    LET sets == proc[Maintainer].sets
        NewStatus(r) == IF r \in sets.expired THEN "Expired"
                        ELSE IF r \in sets.overdue THEN "Rejected"
                        ELSE IF r \in sets.stuck THEN "Failed" ELSE requests[r].status
    IN  /\ proc[Maintainer].pc = "maintain"
        /\ requests' = [r \in RequestIds |->
               [requests[r] EXCEPT !.status = NewStatus(r),
                                   !.revokeRunId = IF r \in sets.stuckRevoke THEN None ELSE @]]
        /\ Become(Maintainer, Idle)
        /\ UNCHANGED <<now, lastRequest, runs, lastRun, execution, faults>>

-----------------------------------------------------------------------------
(* The environment. *)

\* Active Directory removes a membership whose time to live is over.
Tick ==
    /\ now < MaxTime
    /\ now' = now + 1
    /\ members' = [t \in Targets |-> IF members[t].until <= now' THEN NoMember ELSE members[t]]
    /\ UNCHANGED <<tables, proc, worker, script, faults>>

Crash ==
    /\ Up
    /\ faults.crash < MaxCrash
    /\ faults' = [faults EXCEPT !.crash = @ + 1]
    /\ worker' = WorkerAt("down")
    /\ proc' = [p \in Procs |-> Idle]
    /\ UNCHANGED <<now, tables, script, members>>

Restart ==
    /\ worker.pc = "down"
    /\ worker' = WorkerAt("recover")
    /\ UNCHANGED <<now, tables, proc, script, members, faults>>

\* A process that outlived the service ends; nobody reads its result.
OrphanEnds(run) ==
    /\ script[run].did # "none"
    /\ ~(worker.pc = "executing" /\ worker.run = run)
    /\ script' = [script EXCEPT ![run] = Script("none")]
    /\ UNCHANGED <<now, tables, proc, worker, members, faults>>

\* Nothing left to do within the bounds.
Rest ==
    /\ worker.pc = "loop"
    /\ now = MaxTime
    /\ \A p \in Procs : proc[p].pc = "idle"
    /\ UNCHANGED vars

-----------------------------------------------------------------------------

HandlerRequest(p) ==
    \/ \E u \in People, t \in Targets, a \in ApprovalSettings : Create(p, u, t, a)
    \/ \E u \in People, r \in RequestIds, approve \in BOOLEAN : Decide(p, u, r, approve)
    \/ \E r \in RequestIds : Withdraw(p, r) \/ Revoke(p, r)
    \/ \E run \in RunIds : CancelRun(p, run)

HandlerStep(p) ==
    Store(p) \/ AutoApprove(p) \/ SaveDecision(p) \/ ExpireApproval(p) \/ InsertRun(p) \/ LinkRun(p)

WorkerStep ==
    \/ Recover \/ (\E run \in RunIds : Claim(run))
    \/ ScriptExits \/ ScriptKilled \/ SaveResult \/ CompleteRead \/ CompleteSave \/ CompleteFails

ScriptStep(run) == ScriptGrants(run) \/ ScriptRevokes(run) \/ ScriptFails(run)

Environment == Tick \/ Crash \/ Restart \/ (\E run \in RunIds : OrphanEnds(run)) \/ Rest

Next ==
    \/ \E p \in Handlers : HandlerRequest(p) \/ HandlerStep(p)
    \/ MaintainRead \/ MaintainSave
    \/ WorkerStep
    \/ \E run \in RunIds : ScriptStep(run)
    \/ Environment

Spec == Init /\ [][Next]_vars

\* Requests in flight are run, the two background services loop, a script acts or
\* fails, the service is restarted, time passes.
Fairness ==
    /\ \A p \in Handlers : WF_vars(HandlerStep(p))
    /\ WF_vars(MaintainRead \/ MaintainSave)
    /\ WF_vars(WorkerStep)
    /\ \A run \in RunIds : WF_vars(ScriptStep(run))
    /\ WF_vars(Restart) /\ WF_vars(Tick)

FairSpec == Spec /\ Fairness

-----------------------------------------------------------------------------
(* Properties. *)

\* Nobody is in a group whose access needs approval unless a person other than the
\* requester approved it before the deadline (DecideAsync), whatever is decided,
\* withdrawn, expired or retried at the same time.
FourEyesGrant ==
    \A t \in Targets : IsMember(t) /\ requests[members[t].by].approvalRequired =>
        LET r == requests[members[t].by]
        IN  r.decidedBy \notin {NoOne, r.by} /\ r.decidedAt < r.approvalExpires

\* A request called expired or revoked has no membership left in the directory, and an
\* active one ends when the directory ends it (CompleteRunAsync, MaintainAsync).
DirectoryAgrees ==
    \A t \in Targets : IsMember(t) =>
        LET r == requests[members[t].by]
        IN  /\ r.status \notin {"Expired", "Revoked"}
            /\ r.status = "Active" => r.expiresAt = members[t].until

\* Every request ends, decided, expired, failed or revoked, whatever becomes of its runs
\* (MaintainAsync), unless its membership outlasts the clock's bound.
OutlastsClock(r) == requests[r].status = "Active" /\ requests[r].expiresAt > MaxTime
EveryRequestEnds ==
    \A r \in RequestIds :
        requests[r].status # "None" ~> requests[r].status \in JitEnds \/ OutlastsClock(r)

\* A rejected request gives no access: it became Rejected instead of Approved
\* (JitEntities.cs:4, DecideAsync, MaintainAsync).
RejectedHasNoAccess ==
    \A t \in Targets : IsMember(t) => requests[members[t].by].status # "Rejected"
=============================================================================
