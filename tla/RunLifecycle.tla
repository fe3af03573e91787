---------------------------- MODULE RunLifecycle ----------------------------
(***************************************************************************)
(* The run pipeline of the service: the table "runs", the request handlers *)
(* that submit, decide and cancel runs and that change the maintenance     *)
(* calendar, the ScheduleWorker's loop, and the one RunWorker that claims  *)
(* a queued run, starts PowerShell for it and records how it ended.        *)
(*                                                                         *)
(* A handler is split wherever the code awaits the database between what   *)
(* it read and what it writes: the row it holds in memory meanwhile is     *)
(* proc[p].row.  An ExecuteUpdate with a Where on the status is one atomic *)
(* conditional write; SaveChanges of a tracked row is an unconditional     *)
(* write of the changed columns.                                           *)
(***************************************************************************)
EXTENDS Naturals, FiniteSets

CONSTANTS
    Users,            \* accounts that may operate runs
    NoUser,           \* null in ApprovedBy
    Handlers,         \* request handlers that can be in flight at once
    Scheduler,        \* the ScheduleWorker, a BackgroundService of its own
    Offered,          \* kinds of runs users submit
    Calendars,        \* maintenance calendars administrators may configure
    ApprovalSettings, \* values of the setting RequireApproval
    ApprovalTimeout,  \* ApprovalTimeoutHours, in clock units
    PlanMaxAge,       \* PlanMaxAgeHours, in clock units
    MaxRuns,          \* bound: rows of the table "runs"
    MaxTime,          \* bound: the clock
    MaxVersion,       \* bound: edits of the configuration
    MaxCalendar,      \* bound: edits of the maintenance calendar
    MaxCrash          \* bound: crashes of the service

None == 0             \* null id, null time, null version
RunIds == 1..MaxRuns
Times == 1..MaxTime
Versions == 1..MaxVersion
Procs == Handlers \cup {Scheduler}

(* A calendar is known by the moments inside a window and inside a freeze. *)
CalendarType == [windows : SUBSET Times, freezes : SUBSET Times]

ASSUME BoundsAssumption ==
    /\ MaxRuns \in Nat /\ MaxTime \in Nat \ {0} /\ MaxVersion \in Nat \ {0}
    /\ MaxCalendar \in Nat /\ MaxCrash \in Nat
ASSUME SettingsAssumption ==
    /\ ApprovalSettings \subseteq BOOLEAN
    /\ ApprovalTimeout \in Nat \ {0} /\ PlanMaxAge \in Nat \ {0}
ASSUME OfferedAssumption == Offered \subseteq {"Plan", "Apply", "Other"}
ASSUME NamesAssumption == NoUser \notin Users /\ Scheduler \notin Handlers
ASSUME CalendarAssumption == Calendars \subseteq CalendarType /\ Calendars # {}

Pending == {"AwaitingApproval", "Scheduled", "Queued"}
Final == {"Succeeded", "Failed", "Cancelled", "Rejected"}
Status == Pending \cup Final \cup {"None", "Running"}
Kinds == {"Plan", "Apply", "Other"}   \* Other: audit, monitor and JIT runs

DateType == 0..(MaxTime + ApprovalTimeout)   \* the farthest date is an approval deadline

RunRow == [kind : Kinds, status : Status, by : Users \cup {NoUser},
           plan : 0..MaxRuns, version : 0..MaxVersion,
           approvalRequired : BOOLEAN, approvalExpires : DateType,
           approvedBy : Users \cup {NoUser}, approvedAt : DateType,
           scheduledFor : DateType, finishedAt : DateType]

NoRow == [kind |-> "Other", status |-> "None", by |-> NoUser,
          plan |-> None, version |-> None,
          approvalRequired |-> FALSE, approvalExpires |-> None,
          approvedBy |-> NoUser, approvedAt |-> None,
          scheduledFor |-> None, finishedAt |-> None]

VARIABLES
    now,        \* the clock
    runs,       \* table "runs": id -> row, NoRow before the insert
    lastId,     \* last id the table handed out
    config,     \* current configuration version (all sections as one)
    calendar,   \* tables of maintenance windows and freeze periods
    proc,       \* what each handler and the ScheduleWorker is doing
    worker,     \* what the RunWorker is doing
    queue,      \* RunQueue: registered runs, their cancelled tokens, pendingCancel
    ad,         \* runs whose PowerShell process is alive
    cancelled,  \* running runs whose cancellation was confirmed to a user
    lost,       \* runs whose outcome could not be written to the database
    edits       \* calendar edits and crashes so far, for the bounds

vars == <<now, runs, lastId, config, calendar, proc, worker, queue, ad, cancelled, lost, edits>>
table == <<runs, lastId>>
context == <<now, config, calendar, edits>>
memory == <<worker, queue, ad, lost>>

\* Only a planning run's FinishedAt is read again, so only that one is kept.
Ended(row, status) ==
    [row EXCEPT !.status = status, !.finishedAt = IF row.kind = "Plan" THEN now ELSE None]

ProcPc == {"idle", "insert", "decide", "expire", "cancel", "lookup", "cts",
           "reschedule", "saveStart", "due", "promote"}
ProcType == [pc : ProcPc, id : 0..MaxRuns, row : RunRow, todo : SUBSET RunIds,
             at : DateType, start : DateType]
Idle == [pc |-> "idle", id |-> None, row |-> NoRow, todo |-> {}, at |-> None, start |-> None]

WorkerPc == {"down", "recover", "loop", "claim", "claimed", "registered",
             "executing", "ended", "unregistered", "markFailed"}
WorkerType == [pc : WorkerPc, id : 0..MaxRuns, start : DateType, result : Status]
Busy == {"claimed", "registered", "executing", "ended", "unregistered", "markFailed"}
WorkerAt(pc) == [pc |-> pc, id |-> None, start |-> None, result |-> "None"]

QueueType == [active : SUBSET RunIds, signalled : SUBSET RunIds, pending : SUBSET RunIds]
EmptyQueue == [active |-> {}, signalled |-> {}, pending |-> {}]

TypeOK ==
    /\ now \in Times
    /\ runs \in [RunIds -> RunRow]
    /\ lastId \in 0..MaxRuns
    /\ config \in Versions
    /\ calendar \in Calendars
    /\ proc \in [Procs -> ProcType]
    /\ worker \in WorkerType
    /\ queue \in QueueType
    /\ ad \in SUBSET RunIds
    /\ cancelled \in SUBSET RunIds
    /\ lost \in SUBSET RunIds
    /\ edits \in [calendar : 0..MaxCalendar, crash : 0..MaxCrash]

Init ==
    /\ now = 1
    /\ runs = [r \in RunIds |-> NoRow]
    /\ lastId = 0
    /\ config = 1
    /\ calendar \in Calendars
    /\ proc = [p \in Procs |-> Idle]
    /\ worker = WorkerAt("recover")
    /\ queue = EmptyQueue
    /\ ad = {}
    /\ cancelled = {}
    /\ lost = {}
    /\ edits = [calendar |-> 0, crash |-> 0]

-----------------------------------------------------------------------------
(* The maintenance calendar. *)

Allows(cal, t) == t \in cal.windows \ cal.freezes

\* The first allowed moment from t on, or None within the modelled horizon.
NextAllowedStart(cal, t) ==
    LET open == {u \in t..MaxTime : Allows(cal, u)}
    IN  IF open = {} THEN None ELSE CHOOSE u \in open : \A v \in open : u <= v

\* When an apply asked for at t may start; without a window, look again a day later.
StartAt(cal, t) ==
    IF NextAllowedStart(cal, t) = None THEN t + 1 ELSE NextAllowedStart(cal, t)

\* StartStatusAsync writes these two columns.
WithStartStatus(row, cal, t) ==
    IF Allows(cal, t)
    THEN [row EXCEPT !.status = "Queued", !.scheduledFor = None]
    ELSE [row EXCEPT !.status = "Scheduled", !.scheduledFor = StartAt(cal, t)]

CheckApplyRequest(cal, t) == t \notin cal.freezes /\ NextAllowedStart(cal, t) # None

-----------------------------------------------------------------------------
(* Submitting a run. *)

Up == worker.pc # "down"
Begin(p) == Up /\ p \in Handlers /\ proc[p].pc = "idle"
Become(p, state) == proc' = [proc EXCEPT ![p] = state]

\* Mutant: the plan need not have succeeded.
PlanOfAnyStatus(plan) ==
    /\ runs[plan].kind = "Plan"
    /\ runs[plan].finishedAt + PlanMaxAge > now
    /\ runs[plan].version = config

\* The parameters (scope, domain controller, language) are those of the plan.
PlanApplicable(plan) ==
    /\ runs[plan].kind = "Plan"
    /\ runs[plan].status = "Succeeded"
    /\ runs[plan].finishedAt + PlanMaxAge > now
    /\ runs[plan].version = config

\* None: the setting RequirePlanBeforeApply is off and no plan was named.
CheckPlanForApply(plan) == plan # None => PlanApplicable(plan)

NewRow(user, kind, plan, approval) ==
    LET row == [NoRow EXCEPT !.kind = kind, !.status = "Queued", !.by = user, !.plan = plan,
                             !.version = IF plan = None THEN None ELSE runs[plan].version]
    IN  IF kind # "Apply" THEN row
        ELSE IF approval
        THEN [row EXCEPT !.status = "AwaitingApproval",
                         !.approvalRequired = TRUE,
                         !.approvalExpires = now + ApprovalTimeout,
                         !.version = IF @ = None THEN config ELSE @]
        ELSE WithStartStatus(row, calendar, now)

\* The endpoint's checks and every read of EnqueueAsync; the row is not stored yet.
Submit(p, user, kind, plan, approval) ==
    /\ Begin(p)
    /\ now + ApprovalTimeout <= MaxTime
    /\ lastId + Cardinality({q \in Handlers : proc[q].pc = "insert"}) < MaxRuns
    /\ kind # "Apply" => plan = None /\ ~approval
    /\ kind = "Apply" =>
         /\ CheckPlanForApply(plan)
         /\ CheckApplyRequest(calendar, now)
    /\ Become(p, [Idle EXCEPT !.pc = "insert", !.row = NewRow(user, kind, plan, approval)])
    /\ UNCHANGED <<table, context, memory, cancelled>>

Insert(p) ==
    /\ proc[p].pc = "insert"
    /\ lastId < MaxRuns
    /\ lastId' = lastId + 1
    /\ runs' = [runs EXCEPT ![lastId + 1] = proc[p].row]
    /\ Become(p, Idle)
    /\ UNCHANGED <<context, memory, cancelled>>

-----------------------------------------------------------------------------
(* Approving, rejecting and expiring a request for approval. *)

\* Mutant: the requester may decide.
AnyPerson(r, user) == TRUE
SecondPerson(r, user) == user # runs[r].by

\* Mutant: the write does not check that the run still waits.
Undecided(r) == TRUE
AwaitsDecision(r) == runs[r].status = "AwaitingApproval"

\* DecideAsync up to its conditional write: the decision is in the tracked row only.
Decide(p, user, r, approve) ==
    LET decided == [runs[r] EXCEPT !.approvedBy = user, !.approvedAt = now]
    IN  /\ Begin(p)
        /\ runs[r].status = "AwaitingApproval"
        /\ SecondPerson(r, user)
        /\ IF runs[r].approvalExpires <= now
           THEN Become(p, [Idle EXCEPT !.pc = "expire", !.todo = {r}])
           ELSE Become(p, [Idle EXCEPT !.pc = "decide", !.id = r,
                    !.row = IF approve THEN WithStartStatus(decided, calendar, now)
                            ELSE Ended(decided, "Rejected")])
        /\ UNCHANGED <<table, context, memory, cancelled>>

SaveDecision(p) ==
    LET r == proc[p].id
        row == proc[p].row
    IN  /\ proc[p].pc = "decide"
        /\ runs' = IF AwaitsDecision(r)
                   THEN [runs EXCEPT ![r] = [@ EXCEPT
                            !.status = row.status, !.scheduledFor = row.scheduledFor,
                            !.approvedBy = row.approvedBy, !.approvedAt = row.approvedAt,
                            !.finishedAt = row.finishedAt]]
                   ELSE runs
        /\ Become(p, Idle)
        /\ UNCHANGED <<lastId, context, memory, cancelled>>

Overdue == {r \in RunIds : runs[r].status = "AwaitingApproval" /\ runs[r].approvalExpires <= now}

ExpireOverdue ==
    /\ Up
    /\ proc[Scheduler].pc = "idle"
    /\ Overdue # {}
    /\ Become(Scheduler, [Idle EXCEPT !.pc = "expire", !.todo = Overdue])
    /\ UNCHANGED <<table, context, memory, cancelled>>

\* What a loop over todo does next: the following run, or back to idle.
Continue(p, r) ==
    Become(p, IF proc[p].todo = {r} THEN Idle ELSE [proc[p] EXCEPT !.todo = @ \ {r}])

Expire(p) ==
    /\ proc[p].pc = "expire"
    /\ \E r \in proc[p].todo :
         /\ runs' = IF runs[r].status = "AwaitingApproval"
                    THEN [runs EXCEPT ![r] = Ended(@, "Rejected")]
                    ELSE runs
         /\ Continue(p, r)
    /\ UNCHANGED <<lastId, context, memory, cancelled>>

-----------------------------------------------------------------------------
(* Cancelling a run. *)

\* Mutant: the write also hits a run that is being executed.
NotEnded(r) == runs[r].status \in Pending \cup {"Running"}
NotStarted(r) == runs[r].status \in Pending

CancelPending(p, r) ==
    /\ Begin(p)
    /\ NotStarted(r)
    /\ runs' = [runs EXCEPT ![r] = Ended(@, "Cancelled")]
    /\ UNCHANGED <<lastId, proc, context, memory, cancelled>>

\* The conditional write hit no row and the run is not finished.
CancelMissed(p, r) ==
    /\ Begin(p)
    /\ runs[r].status = "Running"
    /\ Become(p, [Idle EXCEPT !.pc = "cancel", !.id = r])
    /\ UNCHANGED <<table, context, memory, cancelled>>

CancelCheck(p) ==
    /\ proc[p].pc = "cancel"
    /\ Become(p, IF runs[proc[p].id].status = "Running" THEN [proc[p] EXCEPT !.pc = "lookup"] ELSE Idle)
    /\ UNCHANGED <<table, context, memory, cancelled>>

\* RunQueue.Cancel: the lookup, and the pending entry under the same lock ...
CancelLookup(p) ==
    LET r == proc[p].id
    IN  /\ proc[p].pc = "lookup"
        /\ IF r \in queue.active
           THEN /\ Become(p, [proc[p] EXCEPT !.pc = "cts"])
                /\ UNCHANGED <<queue, cancelled>>
           ELSE /\ queue' = [queue EXCEPT !.pending = @ \cup {r}]
                /\ cancelled' = cancelled \cup {r}
                /\ Become(p, Idle)
        /\ UNCHANGED <<table, context, worker, ad, lost>>

\* ... and the signal.  Unregister takes no lock: when it came first, the token
\* source is disposed (the request fails) or about to be (the signal is lost).
CancelSignal(p) ==
    LET r == proc[p].id
    IN  /\ proc[p].pc = "cts"
        /\ \/ /\ r \in queue.active
              /\ queue' = [queue EXCEPT !.signalled = @ \cup {r}]
              /\ cancelled' = cancelled \cup {r}
           \/ /\ r \notin queue.active
              /\ cancelled' \in {cancelled, cancelled \cup {r}}
              /\ UNCHANGED queue
        /\ Become(p, Idle)
        /\ UNCHANGED <<table, context, worker, ad, lost>>

-----------------------------------------------------------------------------
(* Changing the maintenance calendar, and releasing scheduled runs. *)

Scheduled == {r \in RunIds : runs[r].status = "Scheduled"}
Due(at) == {r \in Scheduled : runs[r].scheduledFor <= at}

SaveCalendar(p, cal) ==
    /\ Begin(p)
    /\ edits.calendar < MaxCalendar
    /\ cal # calendar
    /\ calendar' = cal
    /\ edits' = [edits EXCEPT !.calendar = @ + 1]
    /\ Become(p, [Idle EXCEPT !.pc = "reschedule"])
    /\ UNCHANGED <<table, now, config, memory, cancelled>>

\* RescheduleAllAsync computes the new start of the tracked rows ...
Reschedule(p) ==
    /\ proc[p].pc = "reschedule"
    /\ Become(p, IF Scheduled = {} THEN Idle
                 ELSE [proc[p] EXCEPT !.pc = "saveStart", !.todo = Scheduled,
                                      !.at = now, !.start = StartAt(calendar, now)])
    /\ UNCHANGED <<table, context, memory, cancelled>>

\* ... and writes it whatever became of those runs meanwhile.
SaveStart(p) ==
    /\ proc[p].pc = "saveStart"
    /\ runs' = [r \in RunIds |-> IF r \in proc[p].todo
                                 THEN [runs[r] EXCEPT !.scheduledFor = proc[p].start]
                                 ELSE runs[r]]
    /\ Become(p, [proc[p] EXCEPT !.pc = "due", !.todo = {}])
    /\ UNCHANGED <<lastId, context, memory, cancelled>>

\* PromoteDueAsync reads the due runs and the calendar once, for one moment "at".
ReadDue(p, at) ==
    /\ Become(p, IF Due(at) = {} THEN Idle
                 ELSE [Idle EXCEPT !.pc = "promote", !.todo = Due(at),
                                   !.at = at, !.start = StartAt(calendar, at)])
    /\ UNCHANGED <<table, context, memory, cancelled>>

ReadDueAfterEdit(p) == proc[p].pc = "due" /\ ReadDue(p, proc[p].at)

PromoteScheduled == Up /\ proc[Scheduler].pc = "idle" /\ Due(now) # {} /\ ReadDue(Scheduler, now)

\* The calendar allows "at" exactly when a start at that moment is the next one.
Promote(p) ==
    /\ proc[p].pc = "promote"
    /\ \E r \in proc[p].todo :
         /\ \A q \in proc[p].todo : r <= q
         /\ runs' = IF runs[r].status # "Scheduled" THEN runs
                    ELSE IF proc[p].start = proc[p].at
                    THEN [runs EXCEPT ![r].status = "Queued"]
                    ELSE [runs EXCEPT ![r].scheduledFor = proc[p].start]
         /\ Continue(p, r)
    /\ UNCHANGED <<lastId, context, memory, cancelled>>

-----------------------------------------------------------------------------
(* The RunWorker. *)

Goto(pc) == worker' = [worker EXCEPT !.pc = pc]

\* Mutant: the queued runs instead of the running ones.
InterruptedQueued == {r \in RunIds : runs[r].status = "Queued"}
Interrupted == {r \in RunIds : runs[r].status = "Running"}

Recover ==
    /\ worker.pc = "recover"
    /\ runs' = [r \in RunIds |-> IF r \in Interrupted
                                 THEN Ended(runs[r], "Failed")
                                 ELSE runs[r]]
    /\ lost' = {}
    /\ Goto("loop")
    /\ UNCHANGED <<lastId, context, proc, queue, ad, cancelled>>

Queued == {r \in RunIds : runs[r].status = "Queued"}

\* ClaimNextAsync up to its conditional write; start # None means "not now".
ReadQueue(r) ==
    /\ worker.pc = "loop"
    /\ r \in Queued /\ \A q \in Queued : r <= q
    /\ worker' = [worker EXCEPT !.pc = "claim", !.id = r,
                     !.start = IF runs[r].kind = "Apply" /\ ~Allows(calendar, now)
                               THEN StartAt(calendar, now) ELSE None]
    /\ UNCHANGED <<table, context, proc, queue, ad, cancelled, lost>>

Defer ==
    /\ worker.pc = "claim" /\ worker.start # None
    /\ runs' = IF worker.id \notin Queued THEN runs
               ELSE [runs EXCEPT ![worker.id].status = "Scheduled",
                                 ![worker.id].scheduledFor = worker.start]
    /\ worker' = WorkerAt("loop")
    /\ UNCHANGED <<lastId, context, proc, queue, ad, cancelled, lost>>

Claim ==
    /\ worker.pc = "claim" /\ worker.start = None
    /\ IF worker.id \in Queued
       THEN runs' = [runs EXCEPT ![worker.id].status = "Running"] /\ Goto("claimed")
       ELSE runs' = runs /\ worker' = WorkerAt("loop")
    /\ UNCHANGED <<lastId, context, proc, queue, ad, cancelled, lost>>

\* Mutant: a cancellation that came before the registration is not looked for.
RegisteredOnly(r) == [queue EXCEPT !.active = @ \cup {r}]
\* RunQueue.Register applies a cancellation that came before it.
Registered(r) ==
    [active |-> queue.active \cup {r},
     signalled |-> queue.signalled \cup (queue.pending \cap {r}),
     pending |-> queue.pending \ {r}]

Register ==
    /\ worker.pc = "claimed"
    /\ queue' = Registered(worker.id)
    /\ Goto("registered")
    /\ UNCHANGED <<table, context, proc, ad, cancelled, lost>>

\* Mutants: always the newest version; the version after the newest.
NewestVersion(r) == config
FollowingVersion(r) == IF runs[r].version = None THEN config + 1 ELSE runs[r].version
\* The pinned configuration, else the newest one; the version used is stored in the row.
UsedVersion(r) == IF runs[r].version = None THEN config ELSE runs[r].version

End(result) == worker' = [worker EXCEPT !.pc = "ended", !.result = result]

StartProcess ==
    LET r == worker.id
    IN  /\ worker.pc = "registered"
        /\ r \notin queue.signalled
        /\ runs' = [runs EXCEPT ![r].version = UsedVersion(r)]
        /\ ad' = ad \cup {r}
        /\ Goto("executing")
        /\ UNCHANGED <<lastId, context, proc, queue, cancelled, lost>>

\* Validation errors, no framework, no PowerShell, or a failing database.
PrepareFails ==
    /\ worker.pc = "registered"
    /\ worker.id \notin queue.signalled
    /\ runs' \in {runs, [runs EXCEPT ![worker.id].version = UsedVersion(worker.id)]}
    /\ End("Failed")
    /\ UNCHANGED <<lastId, context, proc, queue, ad, cancelled, lost>>

CancelledBeforeStart ==
    /\ worker.pc = "registered"
    /\ worker.id \in queue.signalled
    /\ End("Cancelled")
    /\ UNCHANGED <<table, context, proc, queue, ad, cancelled, lost>>

\* Mutant: a cancellation leaves the process running.
AfterExitUnlessCancelled(r) == IF r \in queue.signalled THEN ad ELSE ad \ {r}
AfterExit(r) == ad \ {r}

\* The process exited or was killed: by the user, the timeout or the service's stop.
ProcessExits ==
    /\ worker.pc = "executing"
    /\ \/ worker.id \in queue.signalled /\ End("Cancelled")
       \/ worker.id \notin queue.signalled /\ \E result \in {"Succeeded", "Failed"} : End(result)
    /\ ad' = AfterExit(worker.id)
    /\ UNCHANGED <<table, context, proc, queue, cancelled, lost>>

Unregister ==
    LET r == worker.id
    IN  /\ worker.pc = "ended"
        /\ queue' = [queue EXCEPT !.active = @ \ {r}, !.signalled = @ \ {r}]
        /\ Goto("unregistered")
        /\ UNCHANGED <<table, context, proc, ad, cancelled, lost>>

\* SaveChanges of the tracked row: unconditional.
SaveResult ==
    /\ worker.pc = "unregistered"
    /\ runs' = [runs EXCEPT ![worker.id] = Ended(@, worker.result)]
    /\ worker' = WorkerAt("loop")
    /\ UNCHANGED <<lastId, context, proc, queue, ad, cancelled, lost>>

\* The database fails the load of the row, or five attempts to store the result.
DatabaseFails ==
    /\ worker.pc \in {"claimed", "unregistered"}
    /\ Goto("markFailed")
    /\ UNCHANGED <<table, context, proc, queue, ad, cancelled, lost>>

MarkFailed ==
    /\ worker.pc = "markFailed"
    /\ \/ /\ runs' = IF runs[worker.id].status \in {"Running", "Queued"}
                     THEN [runs EXCEPT ![worker.id] = Ended(@, "Failed")]
                     ELSE runs
          /\ UNCHANGED lost
       \/ /\ lost' = lost \cup {worker.id}   \* best effort: the failure is only logged
          /\ UNCHANGED runs
    /\ worker' = WorkerAt("loop")
    /\ UNCHANGED <<lastId, context, proc, queue, ad, cancelled>>

-----------------------------------------------------------------------------
(* The environment: time, edits of the configuration, crashes. *)

Tick ==
    /\ now < MaxTime
    /\ now' = now + 1
    /\ UNCHANGED <<table, config, calendar, edits, proc, memory, cancelled>>

EditConfig ==
    /\ Up
    /\ config < MaxVersion
    /\ config' = config + 1
    /\ UNCHANGED <<table, now, calendar, edits, proc, memory, cancelled>>

\* What was in memory is gone; nothing ties a PowerShell process to the service's life.
Crash ==
    /\ Up
    /\ edits.crash < MaxCrash
    /\ edits' = [edits EXCEPT !.crash = @ + 1]
    /\ worker' = WorkerAt("down")
    /\ proc' = [p \in Procs |-> Idle]
    /\ queue' = EmptyQueue
    /\ ad' \in SUBSET ad
    /\ UNCHANGED <<table, now, config, calendar, cancelled, lost>>

Restart ==
    /\ worker.pc = "down"
    /\ Goto("recover")
    /\ UNCHANGED <<table, context, proc, queue, ad, cancelled, lost>>

OrphanExits(r) ==
    /\ r \in ad
    /\ ~(worker.pc = "executing" /\ worker.id = r)
    /\ ad' = ad \ {r}
    /\ UNCHANGED <<table, context, proc, worker, queue, cancelled, lost>>

\* Nothing left to do within the bounds: a service without work rests.
Rest ==
    /\ worker.pc = "loop"
    /\ \A p \in Procs : proc[p].pc = "idle"
    /\ \A r \in RunIds : runs[r].status \in Final \cup {"None", "Running"}
    /\ now = MaxTime
    /\ UNCHANGED vars

-----------------------------------------------------------------------------

Request(p) ==
    \/ \E u \in Users, k \in Offered, plan \in RunIds \cup {None}, a \in ApprovalSettings :
          Submit(p, u, k, plan, a)
    \/ \E u \in Users, r \in RunIds, approve \in BOOLEAN : Decide(p, u, r, approve)
    \/ \E r \in RunIds : CancelPending(p, r) \/ CancelMissed(p, r)
    \/ \E cal \in Calendars : SaveCalendar(p, cal)

HandlerStep(p) ==
    \/ Insert(p) \/ SaveDecision(p) \/ Expire(p)
    \/ CancelCheck(p) \/ CancelLookup(p) \/ CancelSignal(p)
    \/ Reschedule(p) \/ SaveStart(p) \/ ReadDueAfterEdit(p) \/ Promote(p)

SchedulerStep == ExpireOverdue \/ PromoteScheduled

WorkerStep ==
    \/ Recover \/ (\E r \in RunIds : ReadQueue(r)) \/ Defer \/ Claim \/ Register
    \/ StartProcess \/ PrepareFails \/ CancelledBeforeStart \/ ProcessExits
    \/ Unregister \/ SaveResult \/ DatabaseFails \/ MarkFailed

Environment ==
    Tick \/ EditConfig \/ Crash \/ Restart \/ (\E r \in RunIds : OrphanExits(r)) \/ Rest

Next ==
    \/ \E p \in Procs : Request(p) \/ HandlerStep(p)
    \/ SchedulerStep \/ WorkerStep \/ Environment

Spec == Init /\ [][Next]_vars

\* The thread pool runs every request that is in flight, the hosted services
\* loop until the service stops, the service control manager restarts it, time passes.
Fairness ==
    /\ \A p \in Procs : WF_vars(HandlerStep(p))
    /\ WF_vars(ExpireOverdue) /\ WF_vars(PromoteScheduled)
    /\ WF_vars(WorkerStep) /\ WF_vars(Restart) /\ WF_vars(Tick)

FairSpec == Spec /\ Fairness

-----------------------------------------------------------------------------
(* Properties the code keeps. *)

\* Once an outcome is stored it stays (RunService.cs: every status change is
\* conditional, except the worker's own last write): no decision, cancellation,
\* promotion or late result changes a run that has ended.
FinalIsFinal ==
    [][\A r \in RunIds : runs[r].status \in Final => runs'[r].status = runs[r].status]_vars

\* Four-eyes principle (DecideAsync, CancelAsync, ExpireAsync): a run that needs
\* approval gets past the request only by a decision another person took in time.
Approved(row) ==
    /\ row.approvedBy \notin {NoUser, row.by}
    /\ row.approvedAt < row.approvalExpires
FourEyes ==
    \A r \in RunIds :
        (runs[r].approvalRequired /\ runs[r].status \in {"Scheduled", "Queued", "Running", "Succeeded", "Failed"})
            => Approved(runs[r])

\* RunWorker "executes queued runs one at a time": a row says Running only while
\* the worker is busy with it, or its outcome was lost, or the worker starts up.
OneAtATime ==
    \A r \in RunIds : runs[r].status = "Running" =>
        worker.id = r \/ r \in lost \/ worker.pc \in {"down", "recover"}

\* No process changes the directory for a run that is not recorded as running,
\* and there is one process at most, as long as the service does not crash.
DirectoryExclusive ==
    edits.crash = 0 => \A r \in ad : runs[r].status = "Running" /\ ad = {r}

\* A cancellation that came between claim and registration (RunQueue._pendingCancel)
\* is delivered: the process never runs while the cancellation is still pending.
EarlyCancelDelivered ==
    worker.pc = "executing" => worker.id \notin queue.pending

\* An apply that names a plan has the configuration of that plan, which succeeded, and
\* one under review has a configuration (DeployPlan.Check, RunService.EnqueueAsync).
ReviewedConfiguration ==
    /\ \A r \in RunIds : runs[r].plan # None =>
           runs[runs[r].plan].status = "Succeeded" /\ runs[r].version = runs[runs[r].plan].version
    /\ \A r \in RunIds : runs[r].approvalRequired => runs[r].version # None

\* A run that has its configuration keeps it until it has ended, whatever is edited
\* meanwhile (RunWorker.ExecuteRunAsync).
PinnedConfiguration ==
    [][\A r \in RunIds : runs[r].version # None => runs'[r].version = runs[r].version]_vars

\* Every run ends: a request for approval is decided or expires, a scheduled run
\* is released once the calendar allows it, a queued run is executed.
EveryRunEnds ==
    \A r \in RunIds : runs[r].status # "None" ~> runs[r].status \in Final \/ r \in lost

-----------------------------------------------------------------------------
(* What comments and documents claim and the code does not keep. *)

\* CancelAsync answers true for "a queued or running run", false "if it has already
\* finished" (RunService.cs:184): a confirmed cancellation and a success exclude each other.
ConfirmedCancelHolds == \A r \in cancelled : runs[r].status # "Succeeded"
=============================================================================
