------------------------- MODULE RunLifecycleProofs -------------------------
(* Proofs about RunLifecycle, for every number of users, handlers and runs: the *)
(* inductive invariant, what it says of the directory, of cancellations and of  *)
(* the configuration a run is executed with, and that RunLifecycle implements   *)
(* RunContract.                                                                 *)
EXTENDS RunRefinement, NaturalExtrema, TLAPS

-----------------------------------------------------------------------------
(* The calendar's operators stay within the dates. *)

\* The next allowed start is a moment from t on at which the calendar allows an
\* apply, and no earlier moment is (NextAllowedStart of the calendar).
LEMMA NextAllowedStartFound ==
    ASSUME NEW cal, NEW t \in Times, NextAllowedStart(cal, t) # None
    PROVE  /\ NextAllowedStart(cal, t) \in t..MaxTime
           /\ Allows(cal, NextAllowedStart(cal, t))
           /\ \A v \in t..MaxTime : Allows(cal, v) => NextAllowedStart(cal, t) <= v
<1> DEFINE open == {u \in t..MaxTime : Allows(cal, u)}
<1>1. open # {}
  BY DEF NextAllowedStart
<1>2. open \subseteq Nat
  BY BoundsAssumption DEF Times
<1>3. \E u \in open : \A v \in open : u <= v
  BY <1>1, <1>2, LeastElement
<1>4. NextAllowedStart(cal, t) = CHOOSE u \in open : \A v \in open : u <= v
  BY <1>1 DEF NextAllowedStart
<1>5. /\ NextAllowedStart(cal, t) \in open
      /\ \A v \in open : NextAllowedStart(cal, t) <= v
  BY <1>3, <1>4
<1> QED BY <1>5

LEMMA StartAtType ==
    ASSUME NEW cal, NEW t \in Times
    PROVE  StartAt(cal, t) \in DateType
<1>1. CASE NextAllowedStart(cal, t) = None
  BY <1>1, BoundsAssumption, SettingsAssumption DEF StartAt, Times, DateType
<1>2. CASE NextAllowedStart(cal, t) # None
  BY <1>2, NextAllowedStartFound, BoundsAssumption, SettingsAssumption
     DEF StartAt, Times, DateType
<1> QED BY <1>1, <1>2

-----------------------------------------------------------------------------
(* Rows stay rows. *)

LEMMA DateTypeFacts ==
    /\ Times \subseteq DateType
    /\ None \in DateType
    /\ DateType \subseteq Nat
    /\ \A t \in Times : t + ApprovalTimeout <= MaxTime => t + ApprovalTimeout \in DateType
BY BoundsAssumption, SettingsAssumption DEF Times, DateType, None

LEMMA NoRowType == NoRow \in RunRow
BY DateTypeFacts, BoundsAssumption DEF NoRow, RunRow, Kinds, Status, Pending, Final, None

LEMMA IdleType == Idle \in ProcType
BY NoRowType, DateTypeFacts, BoundsAssumption DEF Idle, ProcType, ProcPc, None

LEMMA WithStartStatusType ==
    ASSUME NEW row \in RunRow, NEW cal, NEW t \in Times
    PROVE  WithStartStatus(row, cal, t) \in RunRow
BY StartAtType, DateTypeFacts DEF WithStartStatus, RunRow, Status, Pending

LEMMA EndedType ==
    ASSUME NEW row \in RunRow, NEW s \in Status, now \in Times
    PROVE  Ended(row, s) \in RunRow
BY DateTypeFacts DEF Ended, RunRow

LEMMA WorkerAtType ==
    ASSUME NEW pc \in WorkerPc
    PROVE  WorkerAt(pc) \in WorkerType
BY DateTypeFacts, BoundsAssumption DEF WorkerAt, WorkerType, Status, None

-----------------------------------------------------------------------------
(* The inductive invariant. *)

\* What a handler carries from what it read to what it writes.
HandlerOk(h, rows) ==
    /\ h.pc \in {"decide", "cancel", "lookup", "cts"} => h.id \in RunIds
    /\ h.pc \in {"saveStart", "due", "promote"} => h.at \in Times
    /\ h.pc = "insert" =>
          /\ h.row.status \in Pending
          /\ h.row.approvalRequired => h.row.status = "AwaitingApproval"
    /\ h.pc = "decide" =>
          /\ rows[h.id].status # "None"
          /\ h.row.status \in {"Rejected", "Scheduled", "Queued"}
          /\ h.row.approvedBy \notin {NoUser, rows[h.id].by}
          /\ h.row.approvedAt < rows[h.id].approvalExpires

HandlerInv == \A p \in Procs : HandlerOk(proc[p], runs)

\* The worker executes a run of the table that says Running, until it stores the outcome.
WorkerInv ==
    /\ worker.pc = "claim" => worker.id \in RunIds
    /\ worker.pc \in Busy => worker.id \in RunIds /\ runs[worker.id].status = "Running"
    /\ worker.pc \in {"ended", "unregistered"} => worker.result \in {"Succeeded", "Failed", "Cancelled"}

\* A run is Running while the worker executes it, or its outcome was lost, or the
\* service has not recovered yet.
RunningInv ==
    \A r \in RunIds : runs[r].status = "Running" =>
        \/ worker.pc \in Busy /\ worker.id = r
        \/ r \in lost
        \/ worker.pc \in {"down", "recover"}

\* Ids are handed out in order.
FreshInv == \A r \in RunIds : r > lastId => runs[r].status = "None"

Protocol == HandlerInv /\ WorkerInv /\ RunningInv /\ FreshInv /\ FourEyes

IInv == TypeOK /\ Protocol

-----------------------------------------------------------------------------
(* Type correctness. *)

LEMMA TypeInit == Init => TypeOK
<1> SUFFICES ASSUME Init PROVE TypeOK
  OBVIOUS
<1>1. now \in Times /\ config \in Versions /\ lastId \in 0..MaxRuns
  BY BoundsAssumption DEF Init, Times, Versions
<1>2. runs \in [RunIds -> RunRow] /\ proc \in [Procs -> ProcType]
  BY NoRowType, IdleType DEF Init
<1>3. worker \in WorkerType /\ queue \in QueueType
  BY WorkerAtType DEF Init, WorkerPc, EmptyQueue, QueueType
<1>4. edits \in [calendar : 0..MaxCalendar, crash : 0..MaxCrash]
  BY BoundsAssumption DEF Init
<1> QED BY <1>1, <1>2, <1>3, <1>4 DEF Init, TypeOK

LEMMA SubmitType ==
    ASSUME TypeOK, NEW p \in Procs, NEW user \in Users, NEW kind \in Offered,
           NEW plan \in RunIds \cup {None}, NEW approval \in ApprovalSettings,
           Submit(p, user, kind, plan, approval)
    PROVE  TypeOK'
<1> DEFINE row == [NoRow EXCEPT !.kind = kind, !.status = "Queued", !.by = user, !.plan = plan,
                           !.version = IF plan = None THEN None ELSE runs[plan].version]
<1>1. row \in RunRow
  <2>1. kind \in Kinds
    BY OfferedAssumption DEF Kinds
  <2>2. plan \in 0..MaxRuns
    BY BoundsAssumption DEF RunIds, None
  <2>3. (IF plan = None THEN None ELSE runs[plan].version) \in 0..MaxVersion
    BY BoundsAssumption DEF TypeOK, RunRow, None
  <2> QED BY <2>1, <2>2, <2>3, NoRowType DEF RunRow, Status, Pending
<1>2. WithStartStatus(row, calendar, now) \in RunRow
  BY <1>1, WithStartStatusType DEF TypeOK
<1>3. [row EXCEPT !.status = "AwaitingApproval", !.approvalRequired = TRUE,
                  !.approvalExpires = now + ApprovalTimeout,
                  !.version = IF @ = None THEN config ELSE @] \in RunRow
  <2> HIDE DEF row
  <2>1. now + ApprovalTimeout \in DateType
    BY DateTypeFacts DEF TypeOK, Submit
  <2>2. config \in 0..MaxVersion
    BY BoundsAssumption DEF TypeOK, Versions
  <2> QED BY <1>1, <2>1, <2>2 DEF RunRow, Status, Pending
<1>4. NewRow(user, kind, plan, approval) \in RunRow
  BY <1>1, <1>2, <1>3 DEF NewRow
<1>5. [Idle EXCEPT !.pc = "insert", !.row = NewRow(user, kind, plan, approval)] \in ProcType
  BY <1>4, IdleType DEF ProcType, ProcPc
<1> QED BY <1>5 DEF Submit, Become, TypeOK, table, context, memory

LEMMA DecideType ==
    ASSUME TypeOK, NEW p \in Procs, NEW user \in Users, NEW r \in RunIds, NEW approve \in BOOLEAN,
           Decide(p, user, r, approve)
    PROVE  TypeOK'
<1> DEFINE decided == [runs[r] EXCEPT !.approvedBy = user, !.approvedAt = now]
           row == IF approve THEN WithStartStatus(decided, calendar, now) ELSE Ended(decided, "Rejected")
<1>1. decided \in RunRow
  BY DateTypeFacts, ZenonT(60) DEF TypeOK, RunRow
<1>2. row \in RunRow
  BY <1>1, WithStartStatusType, EndedType DEF TypeOK, Status, Final
<1>3. r \in 0..MaxRuns
  BY BoundsAssumption DEF RunIds
<1>4. [Idle EXCEPT !.pc = "decide", !.id = r, !.row = row] \in ProcType
  <2> HIDE DEF row
  <2> QED BY <1>2, <1>3, IdleType DEF ProcType, ProcPc
<1>5. [Idle EXCEPT !.pc = "expire", !.todo = {r}] \in ProcType
  BY IdleType DEF ProcType, ProcPc
<1>6. proc' \in [Procs -> ProcType]
  BY <1>4, <1>5 DEF Decide, Become, TypeOK
<1> QED BY <1>6 DEF Decide, TypeOK, table, context, memory

LEMMA SaveDecisionType ==
    ASSUME TypeOK, NEW p \in Procs, SaveDecision(p)
    PROVE  TypeOK'
<1> DEFINE r == proc[p].id
           row == proc[p].row
<1>1. row \in RunRow
  BY DEF TypeOK, ProcType
<1>2. ASSUME r \in RunIds
      PROVE  [runs[r] EXCEPT !.status = row.status, !.scheduledFor = row.scheduledFor,
                  !.approvedBy = row.approvedBy, !.approvedAt = row.approvedAt,
                  !.finishedAt = row.finishedAt] \in RunRow
  BY <1>1, <1>2 DEF TypeOK, RunRow
<1>3. runs' \in [RunIds -> RunRow]
  <2>1. CASE r \in RunIds
    BY <1>2, <2>1 DEF SaveDecision, TypeOK
  <2>2. CASE r \notin RunIds
    BY <2>2 DEF SaveDecision, TypeOK
  <2> QED BY <2>1, <2>2
<1> QED BY <1>3, IdleType DEF SaveDecision, Become, TypeOK, context, memory

LEMMA ContinueType ==
    ASSUME TypeOK, NEW p \in Procs, NEW r, Continue(p, r)
    PROVE  proc' \in [Procs -> ProcType]
BY IdleType DEF Continue, Become, TypeOK, ProcType

LEMMA ExpireType ==
    ASSUME TypeOK, NEW p \in Procs, Expire(p)
    PROVE  TypeOK'
<1>1. PICK r \in proc[p].todo :
         /\ runs' = IF runs[r].status = "AwaitingApproval"
                    THEN [runs EXCEPT ![r] = Ended(@, "Rejected")] ELSE runs
         /\ Continue(p, r)
  BY DEF Expire
<1>2. r \in RunIds
  BY DEF TypeOK, ProcType
<1>3. Ended(runs[r], "Rejected") \in RunRow
  BY <1>2, EndedType DEF TypeOK, Status, Final
<1>4. runs' \in [RunIds -> RunRow]
  BY <1>1, <1>2, <1>3 DEF TypeOK
<1> QED BY <1>1, <1>4, ContinueType DEF Expire, TypeOK, context, memory

LEMMA ExpireOverdueType ==
    ASSUME TypeOK, ExpireOverdue
    PROVE  TypeOK'
<1>1. [Idle EXCEPT !.pc = "expire", !.todo = Overdue] \in ProcType
  BY IdleType DEF ProcType, ProcPc, Overdue
<1> QED BY <1>1 DEF ExpireOverdue, Become, TypeOK, Procs, table, context, memory

LEMMA CancelType ==
    ASSUME TypeOK, NEW p \in Procs, NEW r \in RunIds,
           CancelPending(p, r) \/ CancelMissed(p, r)
    PROVE  TypeOK'
<1>1. CASE CancelPending(p, r)
  <2>1. Ended(runs[r], "Cancelled") \in RunRow
    BY EndedType DEF TypeOK, Status, Final
  <2>2. runs' \in [RunIds -> RunRow]
    BY <1>1, <2>1 DEF CancelPending, TypeOK
  <2> QED BY <1>1, <2>2 DEF CancelPending, TypeOK, context, memory
<1>2. CASE CancelMissed(p, r)
  <2>1. [Idle EXCEPT !.pc = "cancel", !.id = r] \in ProcType
    <3>1. r \in 0..MaxRuns
      BY BoundsAssumption DEF RunIds
    <3> QED BY <3>1, IdleType DEF ProcType, ProcPc
  <2> QED BY <1>2, <2>1 DEF CancelMissed, Become, TypeOK, table, context, memory
<1> QED BY <1>1, <1>2

LEMMA CancelStepType ==
    ASSUME TypeOK, NEW p \in Procs,
           CancelCheck(p) \/ CancelLookup(p) \/ CancelSignal(p),
           proc[p].pc \in {"cancel", "lookup", "cts"} => proc[p].id \in RunIds
    PROVE  TypeOK'
<1>1. CASE CancelCheck(p)
  <2>1. [proc[p] EXCEPT !.pc = "lookup"] \in ProcType
    BY DEF TypeOK, ProcType, ProcPc
  <2> QED BY <1>1, <2>1, IdleType DEF CancelCheck, Become, TypeOK, table, context, memory
<1>2. CASE CancelLookup(p)
  <2>1. [proc[p] EXCEPT !.pc = "cts"] \in ProcType
    BY DEF TypeOK, ProcType, ProcPc
  <2>2. proc' \in [Procs -> ProcType]
    BY <1>2, <2>1, IdleType DEF CancelLookup, Become, TypeOK
  <2>3. queue' \in QueueType /\ cancelled' \in SUBSET RunIds
    BY <1>2 DEF CancelLookup, TypeOK, QueueType
  <2> QED BY <1>2, <2>2, <2>3 DEF CancelLookup, TypeOK, table, context
<1>3. CASE CancelSignal(p)
  <2>1. proc' \in [Procs -> ProcType]
    BY <1>3, IdleType DEF CancelSignal, Become, TypeOK
  <2>2. queue' \in QueueType /\ cancelled' \in SUBSET RunIds
    BY <1>3 DEF CancelSignal, TypeOK, QueueType
  <2> QED BY <1>3, <2>1, <2>2 DEF CancelSignal, TypeOK, table, context
<1> QED BY <1>1, <1>2, <1>3

LEMMA CalendarEditType ==
    ASSUME TypeOK, NEW p \in Procs
    PROVE  /\ \A cal \in Calendars : SaveCalendar(p, cal) => TypeOK'
           /\ Reschedule(p) => TypeOK'
           /\ SaveStart(p) => TypeOK'
<1>1. ASSUME NEW cal \in Calendars, SaveCalendar(p, cal)
      PROVE  TypeOK'
  <2>1. [Idle EXCEPT !.pc = "reschedule"] \in ProcType
    BY IdleType DEF ProcType, ProcPc
  <2>2. edits' \in [calendar : 0..MaxCalendar, crash : 0..MaxCrash]
    BY <1>1, BoundsAssumption DEF SaveCalendar, TypeOK
  <2> QED BY <1>1, <2>1, <2>2 DEF SaveCalendar, Become, TypeOK, table, memory
<1>2. ASSUME Reschedule(p)
      PROVE  TypeOK'
  <2>1. [proc[p] EXCEPT !.pc = "saveStart", !.todo = Scheduled, !.at = now,
                        !.start = StartAt(calendar, now)] \in ProcType
    BY StartAtType, DateTypeFacts DEF TypeOK, ProcType, ProcPc, Scheduled
  <2> QED BY <1>2, <2>1, IdleType DEF Reschedule, Become, TypeOK, table, context, memory
<1>3. ASSUME SaveStart(p)
      PROVE  TypeOK'
  <2>1. \A r \in RunIds : [runs[r] EXCEPT !.scheduledFor = proc[p].start] \in RunRow
    BY ZenonT(60) DEF TypeOK, ProcType, RunRow
  <2>2. runs' \in [RunIds -> RunRow]
    BY <1>3, <2>1 DEF SaveStart, TypeOK
  <2>3. [proc[p] EXCEPT !.pc = "due", !.todo = {}] \in ProcType
    BY DEF TypeOK, ProcType, ProcPc
  <2> QED BY <1>3, <2>2, <2>3 DEF SaveStart, Become, TypeOK, context, memory
<1> QED BY <1>1, <1>2, <1>3

LEMMA ReadDueType ==
    ASSUME TypeOK, NEW p \in Procs, NEW at \in Times, ReadDue(p, at)
    PROVE  TypeOK'
<1>1. [Idle EXCEPT !.pc = "promote", !.todo = Due(at), !.at = at, !.start = StartAt(calendar, at)] \in ProcType
  BY IdleType, StartAtType, DateTypeFacts DEF ProcType, ProcPc, Due, Scheduled
<1> QED BY <1>1, IdleType DEF ReadDue, Become, TypeOK, table, context, memory

LEMMA PromoteType ==
    ASSUME TypeOK, NEW p \in Procs, Promote(p)
    PROVE  TypeOK'
<1>1. PICK r \in proc[p].todo :
         /\ runs' = IF runs[r].status # "Scheduled" THEN runs
                    ELSE IF proc[p].start = proc[p].at
                    THEN [runs EXCEPT ![r].status = "Queued"]
                    ELSE [runs EXCEPT ![r].scheduledFor = proc[p].start]
         /\ Continue(p, r)
  BY DEF Promote
<1>2. r \in RunIds
  BY DEF TypeOK, ProcType
<1>3. /\ [runs[r] EXCEPT !.status = "Queued"] \in RunRow
      /\ [runs[r] EXCEPT !.scheduledFor = proc[p].start] \in RunRow
  BY <1>2, SMTT(60) DEF TypeOK, RunRow, ProcType, Status, Pending
<1>4. runs' \in [RunIds -> RunRow]
  BY <1>1, <1>2, <1>3 DEF TypeOK
<1> QED BY <1>1, <1>4, ContinueType DEF Promote, TypeOK, context, memory

LEMMA RecoverType ==
    ASSUME TypeOK, Recover
    PROVE  TypeOK'
<1>1. \A r \in RunIds : Ended(runs[r], "Failed") \in RunRow
  BY EndedType DEF TypeOK, Status, Final
<1>2. runs' \in [RunIds -> RunRow]
  BY <1>1 DEF Recover, TypeOK
<1>3. worker' \in WorkerType
  BY DEF Recover, Goto, TypeOK, WorkerType, WorkerPc
<1> QED BY <1>2, <1>3 DEF Recover, TypeOK, context

LEMMA ClaimType ==
    ASSUME TypeOK, WorkerInv,
           (\E r \in RunIds : ReadQueue(r)) \/ Defer \/ Claim
    PROVE  TypeOK'
<1>1. ASSUME NEW r \in RunIds, ReadQueue(r)
      PROVE  TypeOK'
  <2>1. r \in 0..MaxRuns
    BY BoundsAssumption DEF RunIds
  <2>2. StartAt(calendar, now) \in DateType /\ None \in DateType
    BY StartAtType, DateTypeFacts DEF TypeOK
  <2>3. worker' \in WorkerType
    BY <1>1, <2>1, <2>2 DEF ReadQueue, TypeOK, WorkerType, WorkerPc
  <2> QED BY <1>1, <2>3 DEF ReadQueue, TypeOK, table, context
<1>2. CASE Defer
  <2>1. worker.id \in RunIds /\ worker.start \in DateType
    BY <1>2 DEF Defer, WorkerInv, TypeOK, WorkerType
  <2>2. [runs[worker.id] EXCEPT !.status = "Scheduled", !.scheduledFor = worker.start] \in RunRow
    <3>1. runs[worker.id] \in RunRow
      BY <2>1 DEF TypeOK
    <3> QED BY <2>1, <3>1 DEF RunRow, Status, Pending
  <2>3. runs' \in [RunIds -> RunRow]
    BY <1>2, <2>1, <2>2 DEF Defer, TypeOK
  <2>4. worker' \in WorkerType
    BY <1>2, WorkerAtType DEF Defer, WorkerPc
  <2> QED BY <1>2, <2>3, <2>4 DEF Defer, TypeOK, context
<1>3. CASE Claim
  <2>1. worker.id \in RunIds
    BY <1>3 DEF Claim, WorkerInv
  <2>2. [runs[worker.id] EXCEPT !.status = "Running"] \in RunRow
    BY <2>1 DEF TypeOK, RunRow, Status
  <2>3. runs' \in [RunIds -> RunRow]
    BY <1>3, <2>1, <2>2 DEF Claim, TypeOK
  <2>4. worker' \in WorkerType
    BY <1>3, WorkerAtType DEF Claim, Goto, TypeOK, WorkerType, WorkerPc
  <2> QED BY <1>3, <2>3, <2>4 DEF Claim, TypeOK, context
<1> QED BY <1>1, <1>2, <1>3

LEMMA ExecuteType ==
    ASSUME TypeOK, WorkerInv,
           \/ Register \/ StartProcess \/ PrepareFails \/ CancelledBeforeStart
           \/ ProcessExits \/ Unregister
    PROVE  TypeOK'
<1>1. worker.id \in RunIds
  BY DEF Register, StartProcess, PrepareFails, CancelledBeforeStart, ProcessExits, Unregister,
         WorkerInv, Busy
<1>2. UsedVersion(worker.id) \in 0..MaxVersion
  BY <1>1, BoundsAssumption DEF UsedVersion, TypeOK, RunRow, Versions
<1>3. [runs[worker.id] EXCEPT !.version = UsedVersion(worker.id)] \in RunRow
  BY <1>1, <1>2 DEF TypeOK, RunRow
<1>4. runs' \in [RunIds -> RunRow]
  BY <1>1, <1>3 DEF Register, StartProcess, PrepareFails, CancelledBeforeStart, ProcessExits,
                    Unregister, TypeOK, table
<1>5. worker' \in WorkerType
  BY ZenonT(60) DEF Register, StartProcess, PrepareFails, CancelledBeforeStart, ProcessExits, Unregister,
         Goto, End, TypeOK, WorkerType, WorkerPc, Status, Final
<1>6. queue' \in QueueType
  <2>1. Registered(worker.id) \in QueueType
    BY <1>1 DEF Registered, TypeOK, QueueType
  <2>2. [queue EXCEPT !.active = @ \ {worker.id}, !.signalled = @ \ {worker.id}] \in QueueType
    BY DEF TypeOK, QueueType
  <2> QED BY <2>1, <2>2 DEF Register, StartProcess, PrepareFails, CancelledBeforeStart,
             ProcessExits, Unregister, TypeOK
<1>7. ad' \in SUBSET RunIds
  BY <1>1 DEF Register, StartProcess, PrepareFails, CancelledBeforeStart, ProcessExits,
              AfterExit, Unregister, TypeOK
<1> QED BY <1>4, <1>5, <1>6, <1>7 DEF Register, StartProcess, PrepareFails, CancelledBeforeStart,
           ProcessExits, Unregister, TypeOK, table, context

LEMMA ResultType ==
    ASSUME TypeOK, WorkerInv, SaveResult \/ DatabaseFails \/ MarkFailed
    PROVE  TypeOK'
<1>1. worker.id \in RunIds
  BY DEF SaveResult, DatabaseFails, MarkFailed, WorkerInv, Busy
<1>2. Ended(runs[worker.id], worker.result) \in RunRow /\ Ended(runs[worker.id], "Failed") \in RunRow
  BY <1>1, EndedType DEF TypeOK, WorkerType, Status, Final
<1>3. runs' \in [RunIds -> RunRow]
  BY <1>1, <1>2 DEF SaveResult, DatabaseFails, MarkFailed, TypeOK, table
<1>4. worker' \in WorkerType
  BY WorkerAtType DEF SaveResult, DatabaseFails, MarkFailed, Goto, TypeOK, WorkerType, WorkerPc
<1> QED BY <1>1, <1>3, <1>4 DEF SaveResult, DatabaseFails, MarkFailed, TypeOK, table, context

LEMMA EnvironmentType ==
    ASSUME TypeOK, Environment
    PROVE  TypeOK'
<1>1. CASE Tick
  BY <1>1, BoundsAssumption DEF Tick, TypeOK, Times, table, memory
<1>2. CASE EditConfig
  BY <1>2, BoundsAssumption DEF EditConfig, TypeOK, Versions, table, memory
<1>3. CASE Crash
  <2>1. edits' \in [calendar : 0..MaxCalendar, crash : 0..MaxCrash]
    BY <1>3, BoundsAssumption DEF Crash, TypeOK
  <2>2. worker' \in WorkerType /\ queue' \in QueueType
    BY <1>3, WorkerAtType DEF Crash, WorkerPc, EmptyQueue, QueueType
  <2>3. ad' \in SUBSET RunIds
    BY <1>3 DEF Crash, TypeOK
  <2> QED BY <1>3, <2>1, <2>2, <2>3, IdleType DEF Crash, TypeOK, table
<1>4. CASE Restart
  BY <1>4 DEF Restart, Goto, TypeOK, WorkerType, WorkerPc, table, context
<1>5. CASE \E r \in RunIds : OrphanExits(r)
  BY <1>5 DEF OrphanExits, TypeOK, table, context
<1>6. CASE Rest
  BY <1>6 DEF Rest, vars, TypeOK
<1> QED BY <1>1, <1>2, <1>3, <1>4, <1>5, <1>6 DEF Environment

\* Every step keeps the types, given what the handlers and the worker carry.
LEMMA TypeStep == TypeOK /\ HandlerInv /\ WorkerInv /\ [Next]_vars => TypeOK'
<1> SUFFICES ASSUME TypeOK, HandlerInv, WorkerInv, [Next]_vars
             PROVE  TypeOK'
  OBVIOUS
<1>1. ASSUME NEW p \in Procs, Request(p)
      PROVE  TypeOK'
  BY <1>1, SubmitType, DecideType, CancelType, CalendarEditType DEF Request
<1>2. ASSUME NEW p \in Procs, HandlerStep(p)
      PROVE  TypeOK'
  <2>1. CASE Insert(p)
    <3>1. lastId' \in 0..MaxRuns
      BY <2>1, BoundsAssumption DEF Insert, TypeOK
    <3>2. runs' \in [RunIds -> RunRow]
      BY <2>1 DEF Insert, TypeOK, ProcType
    <3> QED BY <2>1, <3>1, <3>2, IdleType DEF Insert, Become, TypeOK, context, memory
  <2>2. CASE CancelCheck(p) \/ CancelLookup(p) \/ CancelSignal(p)
    BY <2>2, CancelStepType DEF HandlerInv, HandlerOk
  <2>3. CASE ReadDueAfterEdit(p)
    BY <2>3, ReadDueType DEF ReadDueAfterEdit, HandlerInv, HandlerOk
  <2> QED BY <1>2, <2>1, <2>2, <2>3, SaveDecisionType, ExpireType, CalendarEditType, PromoteType
         DEF HandlerStep
<1>3. CASE SchedulerStep
  <2>1. Scheduler \in Procs /\ now \in Times
    BY DEF Procs, TypeOK
  <2> QED BY <1>3, <2>1, ExpireOverdueType, ReadDueType DEF SchedulerStep, PromoteScheduled
<1>4. CASE WorkerStep
  BY <1>4, RecoverType, ClaimType, ExecuteType, ResultType DEF WorkerStep
<1>5. CASE Environment
  BY <1>5, EnvironmentType
<1>6. CASE UNCHANGED vars
  BY <1>6 DEF vars, TypeOK
<1> QED BY <1>1, <1>2, <1>3, <1>4, <1>5, <1>6 DEF Next

-----------------------------------------------------------------------------
(* What a step may do to a row. *)

Past == {"Scheduled", "Queued", "Running", "Succeeded", "Failed"}

\* The row of a run that exists keeps its requester and deadline, and an end stays.
RowKept(a, b) ==
    /\ b.by = a.by /\ b.approvalRequired = a.approvalRequired /\ b.approvalExpires = a.approvalExpires
    /\ (a.status = "None") <=> (b.status = "None")
    /\ a.status \in Final => b.status = a.status

\* Besides, the step neither approves the run nor lets it past an approval.
RowStep(a, b) ==
    /\ RowKept(a, b)
    /\ b.approvedBy = a.approvedBy /\ b.approvedAt = a.approvedAt
    /\ b.status \in Past => a.status \in Past

\* Besides, the step does not touch whether the run is Running.
RowWaits(a, b) == RowStep(a, b) /\ (a.status = "Running" <=> b.status = "Running")

LEMMA SameRow == \A a : RowWaits(a, a)
BY DEF RowWaits, RowStep, RowKept

LEMMA EndedRow ==
    ASSUME NEW a \in RunRow, NEW s \in Final, a.status \notin Final \cup {"None"}, now \in Times
    PROVE  /\ RowKept(a, Ended(a, s))
           /\ s \in {"Cancelled", "Rejected"} => RowStep(a, Ended(a, s))
           /\ a.status = "Running" => RowStep(a, Ended(a, s))
           /\ Ended(a, s).status = s
BY DEF Ended, RowStep, RowKept, RunRow, Past, Final

LEMMA HandlerOkKept ==
    ASSUME TypeOK, NEW p \in Procs, HandlerOk(proc[p], runs),
           \A r \in RunIds : runs[r].status # "None" => RowKept(runs[r], runs'[r])
    PROVE  HandlerOk(proc[p], runs')
BY DEF HandlerOk, RowKept

LEMMA HandlerInvKept ==
    ASSUME TypeOK, HandlerInv, NEW p \in Procs, NEW h,
           proc' = [proc EXCEPT ![p] = h], HandlerOk(h, runs'),
           \A r \in RunIds : runs[r].status # "None" => RowKept(runs[r], runs'[r])
    PROVE  HandlerInv'
BY HandlerOkKept DEF HandlerInv, TypeOK

LEMMA HandlerInvSame ==
    ASSUME TypeOK, HandlerInv, proc' = proc,
           \A r \in RunIds : runs[r].status # "None" => RowKept(runs[r], runs'[r])
    PROVE  HandlerInv'
BY HandlerOkKept DEF HandlerInv, TypeOK

LEMMA IdleOk == \A rows : HandlerOk(Idle, rows)
BY DEF HandlerOk, Idle

LEMMA FourEyesKept ==
    ASSUME TypeOK, FourEyes, \A r \in RunIds : RowStep(runs[r], runs'[r])
    PROVE  FourEyes'
BY DEF FourEyes, Approved, RowStep, RowKept, Past

LEMMA FreshKept ==
    ASSUME FreshInv, lastId' = lastId, \A r \in RunIds : RowKept(runs[r], runs'[r])
    PROVE  FreshInv'
BY DEF FreshInv, RowKept

\* A step that leaves the Running rows and the worker alone keeps what ties them.
LEMMA WorkerKept ==
    ASSUME WorkerInv, RunningInv, worker' = worker, lost' = lost,
           \A r \in RunIds : runs[r].status = "Running" <=> runs'[r].status = "Running"
    PROVE  WorkerInv' /\ RunningInv'
BY DEF WorkerInv, RunningInv

\* The invariants about rows, for a step of a handler that changes rows no more than RowWaits.
LEMMA WaitingStep ==
    ASSUME IInv, lastId' = lastId, worker' = worker, lost' = lost,
           \A r \in RunIds : RowWaits(runs[r], runs'[r])
    PROVE  /\ WorkerInv' /\ RunningInv' /\ FreshInv' /\ FourEyes'
           /\ \A r \in RunIds : RowKept(runs[r], runs'[r])
BY WorkerKept, FreshKept, FourEyesKept DEF IInv, Protocol, RowWaits, RowStep

-----------------------------------------------------------------------------
(* Every step keeps the invariant. *)

\* What every step owes: the invariant afterwards, and the rows that exist kept.
StepOk ==
    /\ Protocol'
    /\ \A r \in RunIds : runs[r].status # "None" => RowKept(runs[r], runs'[r])

\* A step of a handler that changes rows no more than RowWaits.
LEMMA HandlerWaits ==
    ASSUME IInv, NEW p \in Procs, NEW h,
           proc' = [proc EXCEPT ![p] = h], HandlerOk(h, runs),
           lastId' = lastId, worker' = worker, lost' = lost,
           \A r \in RunIds : RowWaits(runs[r], runs'[r])
    PROVE  StepOk
<1>1. \A r \in RunIds : RowKept(runs[r], runs'[r])
  BY WaitingStep
<1>2. HandlerOk(h, runs')
  BY <1>1 DEF HandlerOk, RowKept
<1>3. HandlerInv'
  BY <1>1, <1>2, HandlerInvKept DEF IInv, Protocol
<1> QED BY <1>1, <1>3, WaitingStep DEF StepOk, Protocol

\* A step of a handler that only reads the table.
LEMMA HandlerReads ==
    ASSUME IInv, NEW p \in Procs, NEW h,
           proc' = [proc EXCEPT ![p] = h], HandlerOk(h, runs),
           UNCHANGED <<table, worker, lost>>
    PROVE  StepOk
BY HandlerWaits, SameRow DEF table

LEMMA RequestStep ==
    ASSUME IInv, NEW p \in Procs, Request(p)
    PROVE  StepOk
<1>1. ASSUME NEW user \in Users, NEW kind \in Offered, NEW plan \in RunIds \cup {None},
             NEW approval \in ApprovalSettings, Submit(p, user, kind, plan, approval)
      PROVE  StepOk
  <2> DEFINE row == NewRow(user, kind, plan, approval)
             h == [Idle EXCEPT !.pc = "insert", !.row = row]
  <2>1. row.status \in Pending /\ (row.approvalRequired => row.status = "AwaitingApproval")
    BY DEF NewRow, WithStartStatus, NoRow, Pending
  <2>2. HandlerOk(h, runs)
    <3> HIDE DEF row
    <3> QED BY <2>1 DEF HandlerOk, Idle
  <2> QED BY <1>1, <2>2, HandlerReads DEF Submit, Become, memory
<1>2. ASSUME NEW user \in Users, NEW r \in RunIds, NEW approve \in BOOLEAN,
             Decide(p, user, r, approve)
      PROVE  StepOk
  <2> DEFINE decided == [runs[r] EXCEPT !.approvedBy = user, !.approvedAt = now]
             row == IF approve THEN WithStartStatus(decided, calendar, now)
                    ELSE Ended(decided, "Rejected")
             h == [Idle EXCEPT !.pc = "decide", !.id = r, !.row = row]
             late == [Idle EXCEPT !.pc = "expire", !.todo = {r}]
  <2>1. runs[r] \in RunRow /\ now \in Nat
    BY BoundsAssumption DEF IInv, TypeOK, Times
  <2>2. /\ row.status \in {"Rejected", "Scheduled", "Queued"}
        /\ row.approvedBy = user /\ row.approvedAt = now
    BY <2>1 DEF WithStartStatus, Ended, RunRow
  <2>3. CASE ~(runs[r].approvalExpires <= now)
    <3>1. HandlerOk(h, runs)
      <4> HIDE DEF row
      <4>1. user \notin {NoUser, runs[r].by}
        BY <1>2, NamesAssumption DEF Decide, SecondPerson
      <4>2. runs[r].approvalExpires \in Nat
        <5>1. runs[r].approvalExpires \in DateType
          BY <2>1 DEF RunRow
        <5> QED BY <5>1, DateTypeFacts
      <4>3. now < runs[r].approvalExpires
        BY <2>1, <2>3, <4>2
      <4>4. runs[r].status # "None"
        BY <1>2 DEF Decide
      <4> QED BY <2>2, <4>1, <4>3, <4>4 DEF HandlerOk, Idle
    <3> QED BY <1>2, <2>3, <3>1, HandlerReads DEF Decide, Become, memory
  <2>4. CASE runs[r].approvalExpires <= now
    <3>1. HandlerOk(late, runs)
      BY DEF HandlerOk, Idle
    <3> QED BY <1>2, <2>4, <3>1, HandlerReads DEF Decide, Become, memory
  <2> QED BY <2>3, <2>4
<1>3. ASSUME NEW r \in RunIds, CancelPending(p, r)
      PROVE  StepOk
  <2>1. RowWaits(runs[r], Ended(runs[r], "Cancelled"))
    BY <1>3, EndedRow DEF CancelPending, NotStarted, IInv, TypeOK, RowWaits, Pending, Final
  <2>2. \A q \in RunIds : RowWaits(runs[q], runs'[q])
    BY <1>3, <2>1, SameRow DEF CancelPending, IInv, TypeOK
  <2>3. /\ WorkerInv' /\ RunningInv' /\ FreshInv' /\ FourEyes'
        /\ \A q \in RunIds : RowKept(runs[q], runs'[q])
    BY <1>3, <2>2, WaitingStep DEF CancelPending, memory
  <2>4. HandlerInv'
    BY <1>3, <2>3, HandlerInvSame DEF CancelPending, IInv, Protocol
  <2> QED BY <2>3, <2>4 DEF StepOk, Protocol
<1>4. ASSUME NEW r \in RunIds, CancelMissed(p, r)
      PROVE  StepOk
  <2>1. HandlerOk([Idle EXCEPT !.pc = "cancel", !.id = r], runs)
    BY DEF HandlerOk, Idle
  <2> QED BY <1>4, <2>1, HandlerReads DEF CancelMissed, Become, memory
<1>5. ASSUME NEW cal \in Calendars, SaveCalendar(p, cal)
      PROVE  StepOk
  <2>1. HandlerOk([Idle EXCEPT !.pc = "reschedule"], runs)
    BY DEF HandlerOk, Idle
  <2> QED BY <1>5, <2>1, HandlerReads DEF SaveCalendar, Become, memory
<1> QED BY <1>1, <1>2, <1>3, <1>4, <1>5 DEF Request

LEMMA InsertStep ==
    ASSUME IInv, NEW p \in Procs, Insert(p)
    PROVE  StepOk
<1> DEFINE n == lastId + 1
<1>1. n \in RunIds /\ lastId \in Nat
  BY BoundsAssumption DEF Insert, IInv, TypeOK, RunIds
<1>2. runs[n].status = "None"
  BY <1>1 DEF IInv, Protocol, FreshInv
<1>3. /\ runs'[n] = proc[p].row
      /\ \A r \in RunIds : r # n => runs'[r] = runs[r]
  BY <1>1 DEF Insert, IInv, TypeOK
<1>4. /\ proc[p].row.status \in Pending
      /\ proc[p].row.approvalRequired => proc[p].row.status = "AwaitingApproval"
  BY DEF Insert, IInv, Protocol, HandlerInv, HandlerOk
<1>5. \A r \in RunIds : runs[r].status # "None" => RowKept(runs[r], runs'[r])
  BY <1>2, <1>3, SameRow DEF RowWaits, RowStep
<1>6. HandlerInv'
  BY <1>5, HandlerInvKept, IdleOk DEF Insert, Become, IInv, Protocol
<1>7. WorkerInv' /\ RunningInv'
  BY <1>1, <1>2, <1>3, <1>4, WorkerKept DEF Insert, memory, IInv, Protocol, Pending
<1>8. FreshInv'
  BY <1>1, <1>3 DEF Insert, IInv, Protocol, FreshInv, RunIds
<1>9. FourEyes'
  <2> SUFFICES ASSUME NEW r \in RunIds, runs'[r].approvalRequired,
                      runs'[r].status \in {"Scheduled", "Queued", "Running", "Succeeded", "Failed"}
               PROVE  Approved(runs'[r])
    BY DEF FourEyes
  <2>1. r # n
    BY <1>3, <1>4
  <2> QED BY <1>3, <2>1 DEF IInv, Protocol, FourEyes
<1> QED BY <1>5, <1>6, <1>7, <1>8, <1>9 DEF StepOk, Protocol

LEMMA SaveDecisionStep ==
    ASSUME IInv, NEW p \in Procs, SaveDecision(p)
    PROVE  StepOk
<1> DEFINE r == proc[p].id
           row == proc[p].row
<1>1. /\ r \in RunIds
      /\ row.status \in {"Rejected", "Scheduled", "Queued"}
      /\ row.approvedBy \notin {NoUser, runs[r].by}
      /\ row.approvedAt < runs[r].approvalExpires
  BY DEF SaveDecision, IInv, Protocol, HandlerInv, HandlerOk
<1>2. CASE ~AwaitsDecision(r)
  <2>1. UNCHANGED <<table, worker, lost>> /\ proc' = [proc EXCEPT ![p] = Idle]
    BY <1>2 DEF SaveDecision, Become, memory, table
  <2> QED BY <2>1, IdleOk, HandlerReads
<1>3. CASE AwaitsDecision(r)
  <2>1. /\ runs'[r] = [runs[r] EXCEPT
              !.status = row.status, !.scheduledFor = row.scheduledFor,
              !.approvedBy = row.approvedBy, !.approvedAt = row.approvedAt,
              !.finishedAt = row.finishedAt]
        /\ \A q \in RunIds : q # r => runs'[q] = runs[q]
    BY <1>1, <1>3 DEF SaveDecision, IInv, TypeOK
  <2>2. runs[r] \in RunRow /\ runs[r].status = "AwaitingApproval"
    BY <1>1, <1>3 DEF IInv, TypeOK, AwaitsDecision
  <2>3. /\ runs'[r].status = row.status /\ runs'[r].by = runs[r].by
        /\ runs'[r].approvalRequired = runs[r].approvalRequired
        /\ runs'[r].approvalExpires = runs[r].approvalExpires
        /\ runs'[r].approvedBy = row.approvedBy /\ runs'[r].approvedAt = row.approvedAt
    BY <2>1, <2>2 DEF RunRow
  <2>4. \A q \in RunIds : RowKept(runs[q], runs'[q])
    BY <1>1, <2>1, <2>2, <2>3, SameRow DEF RowKept, RowWaits, RowStep, Final
  <2>5. HandlerInv'
    BY <2>4, HandlerInvKept, IdleOk DEF SaveDecision, Become, IInv, Protocol
  <2>6. WorkerInv' /\ RunningInv'
    BY <1>1, <2>1, <2>2, <2>3, WorkerKept DEF SaveDecision, memory, IInv, Protocol
  <2>7. FreshInv'
    BY <2>4, FreshKept DEF SaveDecision, IInv, Protocol
  <2>8. Approved(runs'[r])
    BY <1>1, <2>3 DEF Approved
  <2>9. FourEyes'
    BY <2>1, <2>8 DEF IInv, Protocol, FourEyes
  <2> QED BY <2>4, <2>5, <2>6, <2>7, <2>9 DEF StepOk, Protocol
<1> QED BY <1>2, <1>3

\* What a loop over todo does next is what a handler may carry.
LEMMA ContinueOk ==
    ASSUME IInv, NEW p \in Procs, NEW r, Continue(p, r), proc[p].pc \in {"expire", "promote"}
    PROVE  \E h : proc' = [proc EXCEPT ![p] = h] /\ HandlerOk(h, runs)
<1> DEFINE h == [proc[p] EXCEPT !.todo = @ \ {r}]
<1>1. proc[p] \in ProcType /\ HandlerOk(proc[p], runs)
  BY DEF IInv, TypeOK, Protocol, HandlerInv
<1>2. h.pc = proc[p].pc /\ h.at = proc[p].at
  BY <1>1 DEF ProcType
<1>3. HandlerOk(h, runs)
  <2> HIDE DEF h
  <2> QED BY <1>1, <1>2 DEF HandlerOk
<1>4. CASE proc[p].todo = {r}
  BY <1>4, IdleOk DEF Continue, Become
<1>5. CASE proc[p].todo # {r}
  BY <1>3, <1>5 DEF Continue, Become
<1> QED BY <1>4, <1>5

LEMMA ReadDueStep ==
    ASSUME IInv, NEW p \in Procs, NEW at \in Times, ReadDue(p, at)
    PROVE  StepOk
<1> DEFINE h == [Idle EXCEPT !.pc = "promote", !.todo = Due(at), !.at = at,
                             !.start = StartAt(calendar, at)]
<1>1. HandlerOk(h, runs)
  BY DEF HandlerOk, Idle
<1>2. \E k : proc' = [proc EXCEPT ![p] = k] /\ HandlerOk(k, runs)
  BY <1>1, IdleOk DEF ReadDue, Become
<1> QED BY <1>2, HandlerReads DEF ReadDue, memory

LEMMA LoopStep ==
    ASSUME IInv, NEW p \in Procs, Expire(p) \/ Promote(p)
    PROVE  StepOk
<1>1. CASE Expire(p)
  <2>1. PICK r \in proc[p].todo :
           /\ runs' = IF runs[r].status = "AwaitingApproval"
                      THEN [runs EXCEPT ![r] = Ended(@, "Rejected")] ELSE runs
           /\ Continue(p, r)
    BY <1>1 DEF Expire
  <2>2. r \in RunIds
    BY DEF IInv, TypeOK, ProcType
  <2>3. CASE runs[r].status = "AwaitingApproval"
    <3>1. RowWaits(runs[r], Ended(runs[r], "Rejected"))
      BY <2>2, <2>3, EndedRow DEF IInv, TypeOK, RowWaits, Final
    <3>2. \A q \in RunIds : RowWaits(runs[q], runs'[q])
      BY <2>1, <2>2, <2>3, <3>1, SameRow DEF IInv, TypeOK
    <3> QED BY <1>1, <2>1, <3>2, ContinueOk, HandlerWaits DEF Expire, memory
  <2>4. CASE runs[r].status # "AwaitingApproval"
    BY <1>1, <2>1, <2>4, SameRow, ContinueOk, HandlerWaits DEF Expire, memory
  <2> QED BY <2>3, <2>4
<1>2. CASE Promote(p)
  <2>1. PICK r \in proc[p].todo :
           /\ runs' = IF runs[r].status # "Scheduled" THEN runs
                      ELSE IF proc[p].start = proc[p].at
                      THEN [runs EXCEPT ![r].status = "Queued"]
                      ELSE [runs EXCEPT ![r].scheduledFor = proc[p].start]
           /\ Continue(p, r)
    BY <1>2 DEF Promote
  <2>2. r \in RunIds /\ runs[r] \in RunRow
    BY DEF IInv, TypeOK, ProcType
  <2>3. /\ runs[r].status = "Scheduled" => RowWaits(runs[r], [runs[r] EXCEPT !.status = "Queued"])
        /\ RowWaits(runs[r], [runs[r] EXCEPT !.scheduledFor = proc[p].start])
    BY <2>2 DEF RowWaits, RowStep, RowKept, RunRow, Past, Final
  <2>4. RowWaits(runs[r], runs'[r]) /\ \A q \in RunIds : q # r => runs'[q] = runs[q]
    BY <2>1, <2>2, <2>3, SameRow DEF IInv, TypeOK
  <2>5. \A q \in RunIds : RowWaits(runs[q], runs'[q])
    BY <2>4, SameRow
  <2> QED BY <1>2, <2>1, <2>5, ContinueOk, HandlerWaits DEF Promote, memory
<1> QED BY <1>1, <1>2

LEMMA CancelStep ==
    ASSUME IInv, NEW p \in Procs, CancelCheck(p) \/ CancelLookup(p) \/ CancelSignal(p)
    PROVE  StepOk
<1>1. proc[p] \in ProcType /\ HandlerOk(proc[p], runs)
  BY DEF IInv, TypeOK, Protocol, HandlerInv
<1>2. ASSUME NEW pc \in {"lookup", "cts"}, proc[p].pc \in {"cancel", "lookup"}
      PROVE  HandlerOk([proc[p] EXCEPT !.pc = pc], runs)
  BY <1>1, <1>2 DEF HandlerOk, ProcType
<1>3. \E h : proc' = [proc EXCEPT ![p] = h] /\ HandlerOk(h, runs)
  <2>1. CASE CancelCheck(p)
    BY <2>1, <1>2, IdleOk DEF CancelCheck, Become
  <2>2. CASE CancelLookup(p)
    BY <2>2, <1>2, IdleOk DEF CancelLookup, Become
  <2>3. CASE CancelSignal(p)
    BY <2>3, IdleOk DEF CancelSignal, Become
  <2> QED BY <2>1, <2>2, <2>3
<1>4. UNCHANGED <<table, worker, lost>>
  BY DEF CancelCheck, CancelLookup, CancelSignal, memory
<1> QED BY <1>3, <1>4, HandlerReads

LEMMA RescheduleStep ==
    ASSUME IInv, NEW p \in Procs, Reschedule(p) \/ SaveStart(p)
    PROVE  StepOk
<1>1. proc[p] \in ProcType /\ HandlerOk(proc[p], runs) /\ now \in Times
  BY DEF IInv, TypeOK, Protocol, HandlerInv
<1>2. CASE Reschedule(p)
  <2> DEFINE h == [proc[p] EXCEPT !.pc = "saveStart", !.todo = Scheduled, !.at = now,
                                  !.start = StartAt(calendar, now)]
  <2>1. HandlerOk(h, runs)
    BY <1>1 DEF HandlerOk, ProcType
  <2>2. \E k : proc' = [proc EXCEPT ![p] = k] /\ HandlerOk(k, runs)
    BY <1>2, <2>1, IdleOk DEF Reschedule, Become
  <2> QED BY <1>2, <2>2, HandlerReads DEF Reschedule, memory
<1>3. CASE SaveStart(p)
  <2>1. HandlerOk([proc[p] EXCEPT !.pc = "due", !.todo = {}], runs)
    BY <1>1, <1>3 DEF HandlerOk, ProcType, SaveStart
  <2>2. ASSUME NEW r \in RunIds
        PROVE  RowWaits(runs[r], [runs[r] EXCEPT !.scheduledFor = proc[p].start])
    <3>1. runs[r] \in RunRow
      BY DEF IInv, TypeOK
    <3> QED BY <3>1 DEF RowWaits, RowStep, RowKept, RunRow
  <2>3. \A r \in RunIds : RowWaits(runs[r], runs'[r])
    BY <1>3, <2>2, SameRow DEF SaveStart
  <2> QED BY <1>3, <2>1, <2>3, HandlerWaits DEF SaveStart, Become, memory
<1> QED BY <1>2, <1>3

LEMMA HandlerStepOk ==
    ASSUME IInv, NEW p \in Procs, HandlerStep(p)
    PROVE  StepOk
<1>1. ReadDueAfterEdit(p) => proc[p].at \in Times
  BY DEF ReadDueAfterEdit, IInv, Protocol, HandlerInv, HandlerOk
<1> QED BY <1>1, InsertStep, SaveDecisionStep, LoopStep, CancelStep, RescheduleStep, ReadDueStep
       DEF HandlerStep, ReadDueAfterEdit

LEMMA SchedulerStepOk ==
    ASSUME IInv, SchedulerStep
    PROVE  StepOk
<1>1. Scheduler \in Procs /\ now \in Times
  BY DEF Procs, IInv, TypeOK
<1>2. CASE ExpireOverdue
  <2>1. HandlerOk([Idle EXCEPT !.pc = "expire", !.todo = Overdue], runs)
    BY DEF HandlerOk, Idle
  <2> QED BY <1>1, <1>2, <2>1, HandlerReads DEF ExpireOverdue, Become, memory
<1>3. CASE PromoteScheduled
  BY <1>1, <1>3, ReadDueStep DEF PromoteScheduled
<1> QED BY <1>2, <1>3 DEF SchedulerStep

\* A step of the worker leaves the handlers alone: what is left to show is about rows and worker.
LEMMA WorkerRows ==
    ASSUME IInv, proc' = proc, lastId' = lastId, WorkerInv', RunningInv',
           \A r \in RunIds : RowStep(runs[r], runs'[r])
    PROVE  StepOk
<1>1. \A r \in RunIds : RowKept(runs[r], runs'[r])
  BY DEF RowStep
<1>2. HandlerInv'
  BY <1>1, HandlerInvSame DEF IInv, Protocol
<1>3. FreshInv' /\ FourEyes'
  BY <1>1, FreshKept, FourEyesKept DEF IInv, Protocol
<1> QED BY <1>1, <1>2, <1>3 DEF StepOk, Protocol

LEMMA RecoverStep ==
    ASSUME IInv, Recover
    PROVE  StepOk
<1>1. ASSUME NEW r \in RunIds
      PROVE  RowStep(runs[r], runs'[r]) /\ runs'[r].status # "Running"
  <2>1. runs[r] \in RunRow /\ now \in Times
    BY DEF IInv, TypeOK
  <2>2. CASE r \in Interrupted
    <3>1. runs'[r] = Ended(runs[r], "Failed") /\ runs[r].status = "Running"
      BY <2>2 DEF Recover, Interrupted
    <3> QED BY <2>1, <3>1, EndedRow DEF Final
  <2>3. CASE r \notin Interrupted
    BY <2>3, SameRow DEF Recover, Interrupted, RowWaits
  <2> QED BY <2>2, <2>3
<1>2. worker'.pc = "loop"
  BY DEF Recover, Goto, IInv, TypeOK, WorkerType
<1>3. WorkerInv' /\ RunningInv'
  BY <1>1, <1>2 DEF WorkerInv, RunningInv, Busy
<1> QED BY <1>1, <1>3, WorkerRows DEF Recover

LEMMA ClaimStep ==
    ASSUME IInv, (\E r \in RunIds : ReadQueue(r)) \/ Defer \/ Claim
    PROVE  StepOk
<1>1. worker \in WorkerType /\ WorkerInv /\ RunningInv
  BY DEF IInv, TypeOK, Protocol
<1>2. ASSUME NEW r \in RunIds, ReadQueue(r)
      PROVE  StepOk
  <2>1. worker'.pc = "claim" /\ worker'.id = r /\ worker.pc = "loop"
    BY <1>1, <1>2 DEF ReadQueue, WorkerType
  <2>2. runs' = runs /\ lastId' = lastId /\ proc' = proc /\ lost' = lost
    BY <1>2 DEF ReadQueue, table
  <2>3. WorkerInv' /\ RunningInv'
    BY <1>1, <2>1, <2>2 DEF WorkerInv, RunningInv, Busy
  <2> QED BY <2>2, <2>3, SameRow, WorkerRows DEF RowWaits
<1>3. CASE Defer
  <2>1. worker.id \in RunIds /\ worker.pc = "claim" /\ runs[worker.id] \in RunRow
    BY <1>1, <1>3 DEF Defer, WorkerInv, IInv, TypeOK
  <2>2. \A r \in RunIds : RowWaits(runs[r], runs'[r])
    <3>1. CASE worker.id \notin Queued
      BY <1>3, <3>1, SameRow DEF Defer
    <3>2. CASE worker.id \in Queued
      <4>1. /\ runs'[worker.id] = [runs[worker.id] EXCEPT !.status = "Scheduled", !.scheduledFor = worker.start]
            /\ \A r \in RunIds : r # worker.id => runs'[r] = runs[r]
        BY <1>3, <2>1, <3>2 DEF Defer, IInv, TypeOK
      <4>2. runs[worker.id].status = "Queued"
        BY <3>2 DEF Queued
      <4>3. RowWaits(runs[worker.id], runs'[worker.id])
        <5>1. \A a \in RunRow : a.status = "Queued" =>
                 RowWaits(a, [a EXCEPT !.status = "Scheduled", !.scheduledFor = worker.start])
          BY DEF RowWaits, RowStep, RowKept, RunRow, Past, Final
        <5> QED BY <2>1, <4>1, <4>2, <5>1
      <4> QED BY <4>1, <4>3, SameRow
    <3> QED BY <3>1, <3>2
  <2>3. worker' = WorkerAt("loop") /\ lastId' = lastId /\ proc' = proc /\ lost' = lost
    BY <1>3 DEF Defer
  <2>4. WorkerInv' /\ RunningInv'
    BY <1>1, <2>1, <2>2, <2>3 DEF WorkerInv, RunningInv, Busy, WorkerAt, RowWaits
  <2> QED BY <2>2, <2>3, <2>4, WorkerRows DEF RowWaits
<1>4. CASE Claim
  <2>1. worker.id \in RunIds /\ worker.pc = "claim" /\ runs[worker.id] \in RunRow
    BY <1>1, <1>4 DEF Claim, WorkerInv, IInv, TypeOK
  <2>2. lastId' = lastId /\ proc' = proc /\ lost' = lost
    BY <1>4 DEF Claim
  <2>3. CASE worker.id \notin Queued
    <3>1. runs' = runs /\ worker' = WorkerAt("loop")
      BY <1>4, <2>3 DEF Claim
    <3>2. WorkerInv' /\ RunningInv'
      BY <1>1, <2>1, <2>2, <3>1 DEF WorkerInv, RunningInv, Busy, WorkerAt
    <3> QED BY <2>2, <3>1, <3>2, SameRow, WorkerRows DEF RowWaits
  <2>4. CASE worker.id \in Queued
    <3>1. /\ runs'[worker.id] = [runs[worker.id] EXCEPT !.status = "Running"]
          /\ \A r \in RunIds : r # worker.id => runs'[r] = runs[r]
          /\ worker'.pc = "claimed" /\ worker'.id = worker.id
      BY <1>1, <1>4, <2>1, <2>4 DEF Claim, Goto, IInv, TypeOK, WorkerType
    <3>2. runs[worker.id].status = "Queued"
      BY <2>4 DEF Queued
    <3>3. RowStep(runs[worker.id], runs'[worker.id]) /\ runs'[worker.id].status = "Running"
      BY <2>1, <3>1, <3>2 DEF RowStep, RowKept, RunRow, Past, Final
    <3>4. \A r \in RunIds : RowStep(runs[r], runs'[r])
      BY <3>1, <3>3, SameRow DEF RowWaits
    <3>5. WorkerInv' /\ RunningInv'
      BY <1>1, <2>1, <2>2, <3>1, <3>3 DEF WorkerInv, RunningInv, Busy
    <3> QED BY <2>2, <3>4, <3>5, WorkerRows
  <2> QED BY <2>3, <2>4
<1> QED BY <1>2, <1>3, <1>4

LEMMA ExecuteStep ==
    ASSUME IInv,
           \/ Register \/ StartProcess \/ PrepareFails \/ CancelledBeforeStart
           \/ ProcessExits \/ Unregister \/ DatabaseFails
    PROVE  StepOk
<1>1. /\ worker \in WorkerType /\ WorkerInv /\ RunningInv
      /\ worker.pc \in Busy /\ worker.id \in RunIds
  BY DEF IInv, TypeOK, Protocol, WorkerInv, Busy, Register, StartProcess, PrepareFails,
         CancelledBeforeStart, ProcessExits, Unregister, DatabaseFails
<1>2. /\ worker'.pc \in Busy /\ worker'.id = worker.id
      /\ worker'.pc \in {"ended", "unregistered"} => worker'.result \in {"Succeeded", "Failed", "Cancelled"}
  BY <1>1 DEF WorkerInv, WorkerType, Busy, Goto, End, Register, StartProcess, PrepareFails,
              CancelledBeforeStart, ProcessExits, Unregister, DatabaseFails
<1>3. proc' = proc /\ lastId' = lastId /\ lost' = lost
  BY DEF table, Register, StartProcess, PrepareFails, CancelledBeforeStart, ProcessExits,
         Unregister, DatabaseFails
<1>4. runs' = runs \/ runs' = [runs EXCEPT ![worker.id].version = UsedVersion(worker.id)]
  BY DEF table, Register, StartProcess, PrepareFails, CancelledBeforeStart, ProcessExits,
         Unregister, DatabaseFails
<1>5. \A r \in RunIds : RowWaits(runs[r], runs'[r])
  <2>1. \A a \in RunRow : \A v : RowWaits(a, [a EXCEPT !.version = v])
    BY DEF RowWaits, RowStep, RowKept, RunRow
  <2> QED BY <1>1, <1>4, <2>1, SameRow DEF IInv, TypeOK
<1>6. WorkerInv' /\ RunningInv'
  BY <1>1, <1>2, <1>3, <1>5 DEF WorkerInv, RunningInv, Busy, RowWaits
<1> QED BY <1>3, <1>5, <1>6, WorkerRows DEF RowWaits

LEMMA ResultStep ==
    ASSUME IInv, SaveResult \/ MarkFailed
    PROVE  StepOk
<1>1. /\ WorkerInv /\ RunningInv /\ now \in Times
      /\ worker.id \in RunIds /\ runs[worker.id] \in RunRow
      /\ runs[worker.id].status = "Running" /\ worker.pc \notin {"down", "recover"}
  BY DEF IInv, TypeOK, Protocol, WorkerInv, Busy, SaveResult, MarkFailed
<1>2. worker' = WorkerAt("loop") /\ proc' = proc /\ lastId' = lastId
  BY DEF SaveResult, MarkFailed
<1>3. ASSUME NEW s \in {"Succeeded", "Failed", "Cancelled"}, lost' = lost,
             runs' = [runs EXCEPT ![worker.id] = Ended(@, s)]
      PROVE  StepOk
  <2>1. /\ runs'[worker.id] = Ended(runs[worker.id], s)
        /\ \A r \in RunIds : r # worker.id => runs'[r] = runs[r]
    BY <1>1, <1>3 DEF IInv, TypeOK
  <2>2. RowStep(runs[worker.id], runs'[worker.id]) /\ runs'[worker.id].status = s
    BY <1>1, <2>1, EndedRow DEF Final
  <2>3. \A r \in RunIds : RowStep(runs[r], runs'[r])
    BY <2>1, <2>2, SameRow DEF RowWaits
  <2>4. WorkerInv' /\ RunningInv'
    BY <1>1, <1>2, <1>3, <2>1, <2>2 DEF WorkerInv, RunningInv, Busy, WorkerAt
  <2> QED BY <1>2, <2>3, <2>4, WorkerRows
<1>4. ASSUME lost' = lost \cup {worker.id}, runs' = runs
      PROVE  StepOk
  <2>1. WorkerInv' /\ RunningInv'
    BY <1>1, <1>2, <1>4 DEF WorkerInv, RunningInv, Busy, WorkerAt
  <2> QED BY <1>2, <1>4, <2>1, SameRow, WorkerRows DEF RowWaits
<1>5. CASE SaveResult
  <2>1. worker.result \in {"Succeeded", "Failed", "Cancelled"}
    BY <1>1, <1>5 DEF SaveResult, WorkerInv
  <2> QED BY <1>3, <1>5, <2>1 DEF SaveResult
<1>6. CASE MarkFailed
  BY <1>1, <1>3, <1>4, <1>6 DEF MarkFailed
<1> QED BY <1>5, <1>6

LEMMA EnvironmentStep ==
    ASSUME IInv, Environment \/ UNCHANGED vars
    PROVE  StepOk
<1>1. CASE Crash
  <2>1. /\ worker' = WorkerAt("down") /\ runs' = runs /\ lastId' = lastId
        /\ proc' = [p \in Procs |-> Idle]
    BY <1>1 DEF Crash, table
  <2>2. HandlerInv'
    BY <2>1, IdleOk DEF HandlerInv
  <2>3. WorkerInv' /\ RunningInv'
    BY <2>1 DEF WorkerInv, RunningInv, WorkerAt, Busy
  <2>4. FreshInv' /\ FourEyes'
    BY <2>1 DEF IInv, Protocol, FreshInv, FourEyes
  <2>5. \A r \in RunIds : RowKept(runs[r], runs'[r])
    BY <2>1, SameRow DEF RowWaits, RowStep
  <2> QED BY <2>2, <2>3, <2>4, <2>5 DEF StepOk, Protocol
<1>2. CASE Restart
  <2>1. worker'.pc = "recover" /\ runs' = runs /\ lastId' = lastId /\ proc' = proc
    BY <1>2 DEF Restart, Goto, IInv, TypeOK, WorkerType, table
  <2>2. WorkerInv' /\ RunningInv'
    BY <2>1 DEF WorkerInv, RunningInv, Busy
  <2> QED BY <2>1, <2>2, SameRow, WorkerRows DEF RowWaits
<1>3. CASE ~Crash /\ ~Restart
  <2>1. UNCHANGED <<table, proc, worker, lost>>
    BY <1>3 DEF Environment, Tick, EditConfig, OrphanExits, Rest, vars, table, memory
  <2>2. WorkerInv' /\ RunningInv'
    BY <2>1 DEF IInv, Protocol, WorkerInv, RunningInv, table
  <2> QED BY <2>1, <2>2, SameRow, WorkerRows DEF RowWaits, table
<1> QED BY <1>1, <1>2, <1>3

LEMMA EveryStep ==
    ASSUME IInv, [Next]_vars
    PROVE  StepOk
BY RequestStep, HandlerStepOk, SchedulerStepOk, RecoverStep, ClaimStep, ExecuteStep, ResultStep,
   EnvironmentStep DEF Next, WorkerStep

-----------------------------------------------------------------------------
(* The theorems. *)

LEMMA IInit == Init => IInv
<1> SUFFICES ASSUME Init PROVE IInv
  OBVIOUS
<1>1. \A p \in Procs : HandlerOk(proc[p], runs)
  BY IdleOk DEF Init
<1>2. \A r \in RunIds : runs[r] = NoRow
  BY DEF Init
<1>3. WorkerInv /\ RunningInv
  BY <1>2 DEF Init, WorkerInv, RunningInv, WorkerAt, Busy, NoRow
<1>4. FreshInv /\ FourEyes
  BY <1>2 DEF FreshInv, FourEyes, NoRow
<1> QED BY TypeInit, <1>1, <1>3, <1>4 DEF IInv, Protocol, HandlerInv

LEMMA IStep == IInv /\ [Next]_vars => IInv'
BY TypeStep, EveryStep DEF IInv, Protocol, StepOk

LEMMA Invariance == Spec => []IInv
BY IInit, IStep, PTL DEF Spec

\* In every reachable state the table, what the handlers and the worker carry, and
\* the queue have their types (the entities of Runs and what the code keeps in memory).
THEOREM TypeCorrect == Spec => []TypeOK
<1>1. IInv => TypeOK
  BY DEF IInv
<1> QED BY Invariance, <1>1, PTL

\* Four-eyes principle: whatever number of people decide, cancel and submit at once, no
\* run that needs approval is scheduled, queued or executed unless a person other than
\* the requester approved it before the deadline (DecideAsync, ExpireAsync).
THEOREM FourEyesHolds == Spec => []FourEyes
<1>1. IInv => FourEyes
  BY DEF IInv, Protocol
<1> QED BY Invariance, <1>1, PTL

\* A row says Running only while the one worker executes that run, or its outcome was
\* lost, or the service has not recovered (RunWorker.ExecuteAsync, RecoverInterruptedRunsAsync).
THEOREM OneAtATimeHolds == Spec => []OneAtATime
<1>1. IInv => OneAtATime
  BY DEF IInv, Protocol, RunningInv, OneAtATime
<1> QED BY Invariance, <1>1, PTL

\* No decision, expiry, cancellation, promotion or late result changes the outcome of a
\* run that has ended, in whatever order they are written.
THEOREM EndsAreFinal == Spec => FinalIsFinal
<1>1. ASSUME IInv, [Next]_vars
      PROVE  [\A r \in RunIds : runs[r].status \in Final => runs'[r].status = runs[r].status]_vars
  <2>1. \A r \in RunIds : runs[r].status # "None" => RowKept(runs[r], runs'[r])
    BY <1>1, EveryStep DEF StepOk
  <2> QED BY <2>1 DEF RowKept, Final
<1> QED BY Invariance, <1>1, PTL DEF Spec, FinalIsFinal

-----------------------------------------------------------------------------
(***************************************************************************)
(* The directory, early cancellations, the configuration of a run.         *)
(***************************************************************************)
(* The process and the registration of the run that is executed. *)

\* Until the service crashes, a process that is alive is that of the run the worker executes.
ProcessInv ==
    edits.crash = 0 => \A r \in ad : worker.pc = "executing" /\ worker.id = r

\* From Register to Unregister the run is known to the queue, and no cancellation of
\* it waits to be applied.
QueueInv ==
    worker.pc \in {"registered", "executing", "ended"} =>
        worker.id \in queue.active /\ worker.id \notin queue.pending

ExecutionInv == IInv /\ ProcessInv /\ QueueInv

LEMMA ProcessStep ==
    ASSUME IInv, ProcessInv, [Next]_vars
    PROVE  ProcessInv'
<1>1. worker \in WorkerType /\ edits \in [calendar : 0..MaxCalendar, crash : 0..MaxCrash]
  BY DEF IInv, TypeOK
<1>2. ASSUME ad' \in SUBSET ad, edits'.crash = edits.crash,
             worker.pc = "executing" => worker' = worker
      PROVE  ProcessInv'
  BY <1>2 DEF ProcessInv
<1>3. ASSUME NEW p \in Procs, Request(p) \/ HandlerStep(p)
      PROVE  ProcessInv'
  <2>1. ad' = ad /\ worker' = worker /\ edits'.crash = edits.crash
    BY <1>1, <1>3 DEF Request, Submit, Decide, CancelPending, CancelMissed, SaveCalendar,
       HandlerStep, Insert, SaveDecision, Expire, CancelCheck, CancelLookup, CancelSignal,
       Reschedule, SaveStart, ReadDueAfterEdit, ReadDue, Promote, memory, context
  <2> QED BY <1>2, <2>1
<1>4. CASE SchedulerStep
  BY <1>2, <1>4 DEF SchedulerStep, ExpireOverdue, PromoteScheduled, ReadDue, memory, context
<1>5. CASE WorkerStep
  <2>1. CASE StartProcess
    <3>1. ad' = ad \cup {worker.id} /\ worker'.pc = "executing" /\ worker'.id = worker.id
      BY <1>1, <2>1 DEF StartProcess, Goto, WorkerType
    <3>2. edits' = edits /\ worker.pc = "registered"
      BY <2>1 DEF StartProcess, context
    <3> QED BY <3>1, <3>2 DEF ProcessInv
  <2>2. CASE ProcessExits
    <3>1. ad' = ad \ {worker.id} /\ edits' = edits
      BY <2>2 DEF ProcessExits, AfterExit, context
    <3> QED BY <3>1 DEF ProcessInv
  <2>3. CASE ~StartProcess /\ ~ProcessExits
    <3>1. ad' = ad /\ edits' = edits /\ worker.pc # "executing"
      BY <1>5, <2>3 DEF WorkerStep, Recover, ReadQueue, Defer, Claim, Register, PrepareFails,
         CancelledBeforeStart, Unregister, SaveResult, DatabaseFails, MarkFailed, context
    <3> QED BY <1>2, <3>1
  <2> QED BY <2>1, <2>2, <2>3
<1>6. CASE Crash
  BY <1>1, <1>6 DEF Crash, ProcessInv
<1>7. CASE (Environment /\ ~Crash) \/ UNCHANGED vars
  BY <1>2, <1>7 DEF Environment, Tick, EditConfig, Restart, OrphanExits, Rest, vars, memory, context
<1> QED BY <1>3, <1>4, <1>5, <1>6, <1>7 DEF Next

LEMMA QueueStep ==
    ASSUME IInv, QueueInv, [Next]_vars
    PROVE  QueueInv'
<1>1. worker \in WorkerType /\ queue \in QueueType
  BY DEF IInv, TypeOK
<1>2. ASSUME worker' = worker, queue'.active = queue.active, queue'.pending = queue.pending
      PROVE  QueueInv'
  BY <1>2 DEF QueueInv
<1>3. ASSUME NEW p \in Procs, Request(p) \/ HandlerStep(p)
      PROVE  QueueInv'
  <2>1. CASE CancelLookup(p)
    <3>1. CASE proc[p].id \in queue.active
      BY <1>2, <2>1, <3>1 DEF CancelLookup
    <3>2. CASE proc[p].id \notin queue.active
      <4>1. /\ worker' = worker /\ queue'.active = queue.active
            /\ queue'.pending = queue.pending \cup {proc[p].id}
        BY <1>1, <2>1, <3>2 DEF CancelLookup, QueueType
      <4> QED BY <3>2, <4>1 DEF QueueInv
    <3> QED BY <3>1, <3>2
  <2>2. CASE CancelSignal(p)
    BY <1>1, <1>2, <2>2 DEF CancelSignal, QueueType
  <2>3. CASE ~CancelLookup(p) /\ ~CancelSignal(p)
    <3>1. worker' = worker /\ queue' = queue
      BY <1>3, <2>3 DEF Request, Submit, Decide, CancelPending, CancelMissed, SaveCalendar,
         HandlerStep, Insert, SaveDecision, Expire, CancelCheck,
         Reschedule, SaveStart, ReadDueAfterEdit, ReadDue, Promote, memory
    <3> QED BY <1>2, <3>1
  <2> QED BY <2>1, <2>2, <2>3
<1>4. CASE SchedulerStep
  BY <1>2, <1>4 DEF SchedulerStep, ExpireOverdue, PromoteScheduled, ReadDue, memory
<1>5. CASE WorkerStep
  <2>1. CASE Register
    <3>1. worker'.id = worker.id /\ queue' = Registered(worker.id)
      BY <1>1, <2>1 DEF Register, Goto, WorkerType
    <3> QED BY <3>1 DEF QueueInv, Registered
  <2>2. CASE StartProcess \/ PrepareFails \/ CancelledBeforeStart \/ ProcessExits
    <3>1. /\ worker'.id = worker.id /\ queue' = queue
          /\ worker.pc \in {"registered", "executing"}
      BY <1>1, <2>2 DEF StartProcess, PrepareFails, CancelledBeforeStart, ProcessExits, Goto, End,
         WorkerType
    <3> QED BY <3>1 DEF QueueInv
  <2>3. CASE Unregister
    BY <1>1, <2>3 DEF Unregister, Goto, WorkerType, QueueInv
  <2>4. CASE Recover \/ (\E r \in RunIds : ReadQueue(r)) \/ Defer \/ Claim \/ SaveResult
             \/ DatabaseFails \/ MarkFailed
    <3>1. \A r \in RunIds : ReadQueue(r) => worker'.pc = "claim"
      BY <1>1 DEF ReadQueue, WorkerType
    <3>2. Recover \/ DatabaseFails => worker'.pc \in {"loop", "markFailed"}
      BY <1>1 DEF Recover, DatabaseFails, Goto, WorkerType
    <3>3. Claim => worker'.pc \in {"loop", "claimed"}
      BY <1>1 DEF Claim, Goto, WorkerAt, WorkerType
    <3>4. Defer \/ SaveResult \/ MarkFailed => worker'.pc = "loop"
      BY DEF Defer, SaveResult, MarkFailed, WorkerAt
    <3> QED BY <2>4, <3>1, <3>2, <3>3, <3>4 DEF QueueInv
  <2> QED BY <1>5, <2>1, <2>2, <2>3, <2>4 DEF WorkerStep
<1>6. CASE Crash \/ Restart
  BY <1>1, <1>6 DEF Crash, Restart, Goto, WorkerAt, WorkerType, QueueInv
<1>7. CASE (Environment /\ ~Crash /\ ~Restart) \/ UNCHANGED vars
  BY <1>2, <1>7 DEF Environment, Tick, EditConfig, OrphanExits, Rest, vars, memory
<1> QED BY <1>3, <1>4, <1>5, <1>6, <1>7 DEF Next

LEMMA ExecutionInvariance == Spec => []ExecutionInv
<1>1. Init => ExecutionInv
  BY IInit DEF Init, ExecutionInv, ProcessInv, QueueInv, WorkerAt
<1>2. ExecutionInv /\ [Next]_vars => ExecutionInv'
  BY IStep, ProcessStep, QueueStep DEF ExecutionInv
<1> QED BY <1>1, <1>2, PTL DEF Spec

\* Two processes never change the directory at once, and none does so for a run that is
\* not recorded as running, until the service crashes (RunWorker.ExecuteRunAsync).
THEOREM DirectoryIsExclusive == Spec => []DirectoryExclusive
<1>1. ExecutionInv => DirectoryExclusive
  <2> SUFFICES ASSUME ExecutionInv, edits.crash = 0, NEW r \in ad
               PROVE  runs[r].status = "Running" /\ ad = {r}
    BY DEF DirectoryExclusive
  <2>1. \A q \in ad : worker.pc = "executing" /\ worker.id = q
    BY DEF ExecutionInv, ProcessInv
  <2>2. runs[worker.id].status = "Running"
    BY <2>1 DEF ExecutionInv, IInv, Protocol, WorkerInv, Busy
  <2> QED BY <2>1, <2>2
<1> QED BY ExecutionInvariance, <1>1, PTL

\* A cancellation that comes between the claim of a run and its registration does not
\* wait while the process runs, however many cancellations come at once (RunQueue).
THEOREM EarlyCancelIsDelivered == Spec => []EarlyCancelDelivered
<1>1. ExecutionInv => EarlyCancelDelivered
  BY DEF ExecutionInv, QueueInv, EarlyCancelDelivered
<1> QED BY ExecutionInvariance, <1>1, PTL

-----------------------------------------------------------------------------
(* The configuration of a run. *)

\* What a step may do to the columns about the configuration of a row.
RowPinned(a, b) ==
    /\ b.plan = a.plan /\ b.approvalRequired = a.approvalRequired
    /\ b.version = a.version \/ (a.version = None /\ a.status = "Running")

\* A run that names a plan has the configuration of that plan, which succeeded;
\* one that needs approval has one as well.
PlanOk(row, rows) ==
    /\ row.plan # None =>
          /\ row.plan \in RunIds /\ row.version # None
          /\ rows[row.plan].status = "Succeeded" /\ rows[row.plan].version = row.version
    /\ row.approvalRequired => row.version # None

PlanInv ==
    /\ \A r \in RunIds : PlanOk(runs[r], runs)
    /\ \A p \in Procs : proc[p].pc = "insert" => PlanOk(proc[p].row, runs)
    /\ \A r \in RunIds : r > lastId => runs[r].version = None

ConfigurationInv == IInv /\ PlanInv

\* Assignments to other columns pin the row.
LEMMA OtherColumns ==
    ASSUME NEW a \in RunRow
    PROVE  /\ RowPinned(a, a)
           /\ \A s : RowPinned(a, Ended(a, s))
           /\ \A s : RowPinned(a, [a EXCEPT !.status = s])
           /\ \A t : RowPinned(a, [a EXCEPT !.scheduledFor = t])
           /\ \A s, t : RowPinned(a, [a EXCEPT !.status = s, !.scheduledFor = t])
           /\ \A s, t, u, v, w : RowPinned(a, [a EXCEPT !.status = s, !.scheduledFor = t,
                                               !.approvedBy = u, !.approvedAt = v, !.finishedAt = w])
BY DEF RowPinned, Ended, RunRow

\* A write of one row pins all of them when it pins that one.
LEMMA OneRowPinned ==
    ASSUME runs \in [RunIds -> RunRow], NEW r \in RunIds, NEW b, RowPinned(runs[r], b),
           runs' = [runs EXCEPT ![r] = b]
    PROVE  \A q \in RunIds : RowPinned(runs[q], runs'[q])
<1>1. runs'[r] = b /\ \A q \in RunIds : q # r => runs'[q] = runs[q]
  OBVIOUS
<1> QED BY <1>1, OtherColumns

LEMMA HandlerPins ==
    ASSUME IInv, NEW p \in Procs, Request(p) \/ (HandlerStep(p) /\ ~Insert(p))
    PROVE  lastId' = lastId /\ \A r \in RunIds : RowPinned(runs[r], runs'[r])
<1>1. runs \in [RunIds -> RunRow] /\ proc[p] \in ProcType
  BY DEF IInv, TypeOK
<1>2. CASE runs' = runs /\ lastId' = lastId
  BY <1>1, <1>2, OtherColumns
<1>3. ASSUME NEW r \in RunIds, CancelPending(p, r)
      PROVE  lastId' = lastId /\ \A q \in RunIds : RowPinned(runs[q], runs'[q])
  BY <1>1, <1>3, OtherColumns DEF CancelPending
<1>4. CASE SaveDecision(p)
  BY <1>1, <1>4, OtherColumns DEF SaveDecision
<1>5. CASE Expire(p)
  <2>1. PICK r \in proc[p].todo :
           runs' = runs \/ runs' = [runs EXCEPT ![r] = Ended(runs[r], "Rejected")]
    BY <1>5 DEF Expire
  <2>2. r \in RunIds /\ lastId' = lastId
    BY <1>1, <1>5 DEF Expire, ProcType
  <2>3. RowPinned(runs[r], Ended(runs[r], "Rejected"))
    BY <1>1, <2>2, OtherColumns
  <2> QED BY <1>1, <1>2, <2>1, <2>2, <2>3, OneRowPinned
<1>6. CASE SaveStart(p)
  BY <1>1, <1>6, OtherColumns DEF SaveStart
<1>7. CASE Promote(p)
  <2>1. PICK r \in proc[p].todo :
           runs' = IF runs[r].status # "Scheduled" THEN runs
                   ELSE IF proc[p].start = proc[p].at
                   THEN [runs EXCEPT ![r].status = "Queued"]
                   ELSE [runs EXCEPT ![r].scheduledFor = proc[p].start]
    BY <1>7 DEF Promote
  <2>2. r \in RunIds
    BY <1>1 DEF ProcType
  <2> QED BY <1>1, <1>7, <2>1, <2>2, OtherColumns DEF Promote
<1> QED BY <1>2, <1>3, <1>4, <1>5, <1>6, <1>7 DEF Request, Submit, Decide, CancelMissed,
           SaveCalendar, HandlerStep, CancelCheck, CancelLookup, CancelSignal, Reschedule,
           ReadDueAfterEdit, ReadDue, table

LEMMA WorkerPins ==
    ASSUME IInv, WorkerStep
    PROVE  lastId' = lastId /\ \A r \in RunIds : RowPinned(runs[r], runs'[r])
<1>1. /\ runs \in [RunIds -> RunRow]
      /\ worker.pc = "claim" => worker.id \in RunIds
      /\ worker.pc \in Busy => worker.id \in RunIds /\ runs[worker.id].status = "Running"
  BY DEF IInv, TypeOK, Protocol, WorkerInv
<1>2. CASE runs' = runs /\ lastId' = lastId
  BY <1>1, <1>2, OtherColumns
<1>3. CASE Recover
  BY <1>1, <1>3, OtherColumns DEF Recover
<1>4. CASE Defer
  <2>1. runs' = runs \/ runs' = [runs EXCEPT ![worker.id] =
                                   [@ EXCEPT !.status = "Scheduled", !.scheduledFor = worker.start]]
    BY <1>1, <1>4 DEF Defer
  <2> QED BY <1>1, <1>4, <2>1, OtherColumns DEF Defer
<1>5. CASE Claim
  <2>1. lastId' = lastId /\ worker.id \in RunIds
    BY <1>1, <1>5 DEF Claim
  <2>2. runs' = runs \/ runs' = [runs EXCEPT ![worker.id] = [@ EXCEPT !.status = "Running"]]
    BY <1>5 DEF Claim
  <2>3. RowPinned(runs[worker.id], [runs[worker.id] EXCEPT !.status = "Running"])
    BY <1>1, <2>1, OtherColumns
  <2> QED BY <1>1, <1>2, <2>1, <2>2, <2>3, OneRowPinned
<1>6. CASE StartProcess \/ PrepareFails
  <2>1. /\ worker.id \in RunIds /\ runs[worker.id].status = "Running" /\ lastId' = lastId
        /\ \/ runs' = runs
           \/ runs' = [runs EXCEPT ![worker.id].version = UsedVersion(worker.id)]
    BY <1>1, <1>6 DEF StartProcess, PrepareFails, Busy
  <2>2. \A a \in RunRow : \A v : a.status = "Running" /\ (a.version # None => v = a.version)
                               => RowPinned(a, [a EXCEPT !.version = v])
    BY DEF RowPinned, RunRow
  <2>3. runs[worker.id].version # None => UsedVersion(worker.id) = runs[worker.id].version
    BY DEF UsedVersion
  <2>4. RowPinned(runs[worker.id], [runs[worker.id] EXCEPT !.version = UsedVersion(worker.id)])
    BY <1>1, <2>1, <2>2, <2>3
  <2>5. CASE runs' = runs
    BY <1>2, <2>1, <2>5
  <2>6. CASE runs' = [runs EXCEPT ![worker.id] =
                        [runs[worker.id] EXCEPT !.version = UsedVersion(worker.id)]]
    BY <1>1, <2>1, <2>4, <2>6, OneRowPinned
  <2> QED BY <2>1, <2>5, <2>6
<1>7. CASE SaveResult
  BY <1>1, <1>7, OtherColumns DEF SaveResult, Busy
<1>8. CASE MarkFailed
  <2>1. lastId' = lastId /\ worker.id \in RunIds
    BY <1>1, <1>8 DEF MarkFailed, Busy
  <2>2. runs' = runs \/ runs' = [runs EXCEPT ![worker.id] = Ended(runs[worker.id], "Failed")]
    BY <1>8 DEF MarkFailed
  <2>3. RowPinned(runs[worker.id], Ended(runs[worker.id], "Failed"))
    BY <1>1, <2>1, OtherColumns
  <2> QED BY <1>1, <1>2, <2>1, <2>2, <2>3, OneRowPinned
<1> QED BY <1>2, <1>3, <1>4, <1>5, <1>6, <1>7, <1>8 DEF WorkerStep, ReadQueue, Register,
           CancelledBeforeStart, ProcessExits, Unregister, DatabaseFails, table

\* Only the insert of a new row touches these columns otherwise.
LEMMA RowsPinned ==
    ASSUME IInv, [Next]_vars, ~\E p \in Procs : Insert(p)
    PROVE  lastId' = lastId /\ \A r \in RunIds : RowPinned(runs[r], runs'[r])
<1>1. CASE runs' = runs /\ lastId' = lastId
  BY <1>1, OtherColumns DEF IInv, TypeOK
<1>2. CASE SchedulerStep \/ Environment \/ UNCHANGED vars
  BY <1>1, <1>2 DEF SchedulerStep, ExpireOverdue, PromoteScheduled, ReadDue, Environment, Tick,
     EditConfig, Crash, Restart, OrphanExits, Rest, vars, table
<1> QED BY <1>2, HandlerPins, WorkerPins DEF Next

\* Reading the due runs is not the way to an insert.
LEMMA AtReadDue ==
    ASSUME NEW p, NEW at, ReadDue(p, at)
    PROVE  \E h : proc' = [proc EXCEPT ![p] = h] /\ h.pc # "insert"
<1>1. Idle.pc # "insert"
  BY DEF Idle
<1>2. [Idle EXCEPT !.pc = "promote", !.todo = Due(at),
                   !.at = at, !.start = StartAt(calendar, at)].pc # "insert"
  BY IdleType DEF ProcType
<1>3. \/ proc' = [proc EXCEPT ![p] = Idle]
      \/ proc' = [proc EXCEPT ![p] = [Idle EXCEPT !.pc = "promote", !.todo = Due(at),
                                          !.at = at, !.start = StartAt(calendar, at)]]
  BY DEF ReadDue, Become
<1> QED BY <1>1, <1>2, <1>3

\* What is carried to an insert was put there by Submit.
LEMMA RowsOnTheirWay ==
    ASSUME IInv, [Next]_vars, NEW q \in Procs, proc'[q].pc = "insert"
    PROVE  \/ proc[q].pc = "insert" /\ proc'[q].row = proc[q].row
           \/ \E u \in Users, k \in Offered, plan \in RunIds \cup {None}, a \in ApprovalSettings :
                 Submit(q, u, k, plan, a)
<1>1. proc \in [Procs -> ProcType]
  BY DEF IInv, TypeOK
<1>2. ASSUME NEW p \in Procs, NEW h, proc' = [proc EXCEPT ![p] = h], h.pc # "insert"
      PROVE  proc[q].pc = "insert" /\ proc'[q].row = proc[q].row
  BY <1>1, <1>2
<1>3. Idle.pc # "insert" /\ Idle \in ProcType
  BY IdleType DEF Idle
<1>4. ASSUME NEW p \in Procs, Request(p)
      PROVE  \/ proc[q].pc = "insert" /\ proc'[q].row = proc[q].row
             \/ \E u \in Users, k \in Offered, plan \in RunIds \cup {None}, a \in ApprovalSettings :
                   Submit(q, u, k, plan, a)
  <2>1. ASSUME NEW u \in Users, NEW k \in Offered, NEW plan \in RunIds \cup {None},
               NEW a \in ApprovalSettings, Submit(p, u, k, plan, a)
        PROVE  p = q \/ (proc[q].pc = "insert" /\ proc'[q].row = proc[q].row)
    BY <1>1, <2>1 DEF Submit, Become
  <2>2. ASSUME NEW u \in Users, NEW r \in RunIds, NEW approve \in BOOLEAN, Decide(p, u, r, approve)
        PROVE  \E h : proc' = [proc EXCEPT ![p] = h] /\ h.pc # "insert"
    <3> DEFINE row(x) == [Idle EXCEPT !.pc = "decide", !.id = r, !.row = x]
               late == [Idle EXCEPT !.pc = "expire", !.todo = {r}]
    <3>1. late.pc # "insert" /\ \A x : row(x).pc # "insert"
      BY <1>3 DEF ProcType
    <3>2. proc' = [proc EXCEPT ![p] = late] \/ \E x : proc' = [proc EXCEPT ![p] = row(x)]
      BY <2>2 DEF Decide, Become
    <3> QED BY <3>1, <3>2
  <2>3. ASSUME NEW r \in RunIds, CancelPending(p, r) \/ CancelMissed(p, r)
        PROVE  proc' = proc \/ \E h : proc' = [proc EXCEPT ![p] = h] /\ h.pc # "insert"
    <3>1. CancelPending(p, r) => proc' = proc
      BY DEF CancelPending
    <3>2. CancelMissed(p, r) => proc' = [proc EXCEPT ![p] = [Idle EXCEPT !.pc = "cancel", !.id = r]]
      BY DEF CancelMissed, Become
    <3>3. [Idle EXCEPT !.pc = "cancel", !.id = r].pc # "insert"
      BY <1>3 DEF ProcType
    <3> QED BY <2>3, <3>1, <3>2, <3>3
  <2>4. ASSUME NEW cal \in Calendars, SaveCalendar(p, cal)
        PROVE  \E h : proc' = [proc EXCEPT ![p] = h] /\ h.pc # "insert"
    <3>1. [Idle EXCEPT !.pc = "reschedule"].pc # "insert"
      BY <1>3 DEF ProcType
    <3> QED BY <2>4, <3>1 DEF SaveCalendar, Become
  <2> QED BY <1>2, <1>4, <2>1, <2>2, <2>3, <2>4 DEF Request
<1>5. ASSUME NEW p \in Procs, HandlerStep(p)
      PROVE  proc[q].pc = "insert" /\ proc'[q].row = proc[q].row
  <2>1. proc[p] \in ProcType
    BY <1>1
  <2>2. /\ Insert(p) \/ SaveDecision(p) => proc' = [proc EXCEPT ![p] = Idle]
        /\ CancelLookup(p) \/ CancelSignal(p) =>
              \E h : proc' = [proc EXCEPT ![p] = h] /\ h.pc # "insert"
    BY <1>3, <2>1 DEF Insert, SaveDecision, CancelLookup, CancelSignal, Become, ProcType
  <2>3. CancelCheck(p) \/ Reschedule(p) \/ SaveStart(p) =>
            \E h : proc' = [proc EXCEPT ![p] = h] /\ h.pc # "insert"
    <3>1. CancelCheck(p) => proc' = [proc EXCEPT ![p] = Idle]
                         \/ proc' = [proc EXCEPT ![p] = [proc[p] EXCEPT !.pc = "lookup"]]
      BY DEF CancelCheck, Become
    <3>2. Reschedule(p) => proc' = [proc EXCEPT ![p] = Idle]
                        \/ proc' = [proc EXCEPT ![p] =
                             [proc[p] EXCEPT !.pc = "saveStart", !.todo = Scheduled,
                                             !.at = now, !.start = StartAt(calendar, now)]]
      BY DEF Reschedule, Become
    <3>3. SaveStart(p) => proc' = [proc EXCEPT ![p] = [proc[p] EXCEPT !.pc = "due", !.todo = {}]]
      BY DEF SaveStart, Become
    <3>4. /\ [proc[p] EXCEPT !.pc = "lookup"].pc # "insert"
          /\ [proc[p] EXCEPT !.pc = "saveStart", !.todo = Scheduled,
                             !.at = now, !.start = StartAt(calendar, now)].pc # "insert"
          /\ [proc[p] EXCEPT !.pc = "due", !.todo = {}].pc # "insert"
      BY <2>1 DEF ProcType
    <3> QED BY <1>3, <3>1, <3>2, <3>3, <3>4
  <2>4. Expire(p) \/ Promote(p) => \E h : proc' = [proc EXCEPT ![p] = h] /\ h.pc # "insert"
    BY <1>3, <2>1 DEF Expire, Promote, Continue, Become, ProcType
  <2>5. ReadDueAfterEdit(p) => \E h : proc' = [proc EXCEPT ![p] = h] /\ h.pc # "insert"
    BY AtReadDue DEF ReadDueAfterEdit
  <2> QED BY <1>2, <1>3, <1>5, <2>2, <2>3, <2>4, <2>5 DEF HandlerStep
<1>6. CASE SchedulerStep
  <2>1. \E h : proc' = [proc EXCEPT ![Scheduler] = h] /\ h.pc # "insert"
    <3>1. ExpireOverdue => proc' = [proc EXCEPT ![Scheduler] =
                                      [Idle EXCEPT !.pc = "expire", !.todo = Overdue]]
      BY DEF ExpireOverdue, Become
    <3>2. [Idle EXCEPT !.pc = "expire", !.todo = Overdue].pc # "insert"
      BY <1>3 DEF ProcType
    <3> QED BY <1>6, <3>1, <3>2, AtReadDue DEF SchedulerStep, PromoteScheduled
  <2> QED BY <1>2, <2>1 DEF Procs
<1>7. CASE Crash
  BY <1>3, <1>7 DEF Crash
<1>8. CASE WorkerStep \/ (Environment /\ ~Crash) \/ UNCHANGED vars
  <2>1. proc' = proc
    BY <1>8 DEF WorkerStep, Recover, ReadQueue, Defer, Claim, Register, StartProcess, PrepareFails,
       CancelledBeforeStart, ProcessExits, Unregister, SaveResult, DatabaseFails, MarkFailed,
       Environment, Tick, EditConfig, Restart, OrphanExits, Rest, vars
  <2> QED BY <2>1
<1> QED BY <1>4, <1>5, <1>6, <1>7, <1>8 DEF Next

\* The row Submit makes: the plan is checked, and its configuration is never None.
LEMMA SubmittedRow ==
    ASSUME IInv, NEW q \in Procs, NEW u \in Users, NEW k \in Offered,
           NEW plan \in RunIds \cup {None}, NEW a \in ApprovalSettings, Submit(q, u, k, plan, a)
    PROVE  PlanOk(NewRow(u, k, plan, a), runs)
<1>1. config # None /\ config \in Versions
  BY BoundsAssumption DEF IInv, TypeOK, Versions, None
<1>2. plan # None =>
        plan \in RunIds /\ runs[plan].status = "Succeeded" /\ runs[plan].version = config
  BY DEF Submit, CheckPlanForApply, PlanApplicable
<1> DEFINE row == [NoRow EXCEPT !.kind = k, !.status = "Queued", !.by = u, !.plan = plan,
                           !.version = IF plan = None THEN None ELSE runs[plan].version]
<1>3. /\ row.plan = plan /\ row.version = (IF plan = None THEN None ELSE runs[plan].version)
      /\ row.approvalRequired = FALSE
  BY DEF NoRow
<1>4. PlanOk(row, runs)
  <2> HIDE DEF row
  <2> QED BY <1>1, <1>2, <1>3 DEF PlanOk
<1>5. \A cal, t : PlanOk(WithStartStatus(row, cal, t), runs)
  <2>1. \A cal, t : /\ WithStartStatus(row, cal, t).plan = row.plan
                    /\ WithStartStatus(row, cal, t).version = row.version
                    /\ WithStartStatus(row, cal, t).approvalRequired = row.approvalRequired
    BY DEF WithStartStatus, NoRow
  <2> HIDE DEF row
  <2> QED BY <1>4, <2>1 DEF PlanOk
<1>6. PlanOk([row EXCEPT !.status = "AwaitingApproval", !.approvalRequired = TRUE,
                         !.approvalExpires = now + ApprovalTimeout,
                         !.version = IF @ = None THEN config ELSE @], runs)
  <2>1. /\ [row EXCEPT !.status = "AwaitingApproval", !.approvalRequired = TRUE,
                       !.approvalExpires = now + ApprovalTimeout,
                       !.version = IF @ = None THEN config ELSE @].plan = plan
        /\ [row EXCEPT !.status = "AwaitingApproval", !.approvalRequired = TRUE,
                       !.approvalExpires = now + ApprovalTimeout,
                       !.version = IF @ = None THEN config ELSE @].version = config
    BY <1>2 DEF NoRow
  <2> QED BY <1>1, <1>2, <2>1 DEF PlanOk
<1> QED BY <1>4, <1>5, <1>6 DEF NewRow

LEMMA PlanStep ==
    ASSUME IInv, PlanInv, [Next]_vars
    PROVE  PlanInv'
<1>1. \A r \in RunIds : runs[r].status \in Final => runs'[r].status = runs[r].status
  BY EveryStep DEF StepOk, RowKept, Final
<1>2. \A r \in RunIds : r > lastId => runs[r].status = "None"
  BY DEF IInv, Protocol, FreshInv
<1>3. CASE ~\E p \in Procs : Insert(p)
  <2>1. lastId' = lastId /\ \A r \in RunIds : RowPinned(runs[r], runs'[r])
    BY <1>3, RowsPinned
  <2>2. \A row : PlanOk(row, runs) => PlanOk(row, runs')
    BY <1>1, <2>1 DEF PlanOk, RowPinned, Final
  <2>3. \A r \in RunIds : PlanOk(runs[r], runs') => PlanOk(runs'[r], runs')
    BY <2>1 DEF PlanOk, RowPinned
  <2>4. ASSUME NEW q \in Procs, proc'[q].pc = "insert"
        PROVE  PlanOk(proc'[q].row, runs')
    <3>1. CASE proc[q].pc = "insert" /\ proc'[q].row = proc[q].row
      BY <2>2, <3>1 DEF PlanInv
    <3>2. ASSUME NEW u \in Users, NEW k \in Offered, NEW plan \in RunIds \cup {None},
                 NEW a \in ApprovalSettings, Submit(q, u, k, plan, a)
          PROVE  PlanOk(proc'[q].row, runs')
      <4>1. proc'[q].row = NewRow(u, k, plan, a)
        BY <3>2 DEF Submit, Become, Idle, IInv, TypeOK
      <4> QED BY <2>2, <3>2, <4>1, SubmittedRow
    <3> QED BY <2>4, <3>1, <3>2, RowsOnTheirWay
  <2>5. \A r \in RunIds : r > lastId' => runs'[r].version = None
    BY <1>2, <2>1 DEF PlanInv, RowPinned
  <2> QED BY <2>2, <2>3, <2>4, <2>5 DEF PlanInv
<1>4. ASSUME NEW p \in Procs, Insert(p)
      PROVE  PlanInv'
  <2> DEFINE n == lastId + 1
  <2>1. n \in RunIds /\ lastId \in Nat /\ lastId' = n
    BY <1>4, BoundsAssumption DEF Insert, IInv, TypeOK, RunIds
  <2>2. /\ runs'[n] = proc[p].row /\ PlanOk(proc[p].row, runs)
        /\ \A r \in RunIds : r # n => runs'[r] = runs[r]
    BY <1>4, <2>1 DEF Insert, PlanInv, IInv, TypeOK
  <2>3. \A row : PlanOk(row, runs) => PlanOk(row, runs')
    BY <1>2, <2>1, <2>2 DEF PlanOk
  <2>4. \A q \in Procs : proc'[q].pc = "insert" => proc[q].pc = "insert" /\ proc'[q] = proc[q]
    BY <1>4 DEF Insert, Become, Idle, IInv, TypeOK
  <2>5. \A r \in RunIds : r > n => r > lastId /\ r # n
    BY <2>1 DEF RunIds
  <2> QED BY <2>1, <2>2, <2>3, <2>4, <2>5 DEF PlanInv
<1> QED BY <1>3, <1>4

LEMMA ConfigurationInvariance == Spec => []ConfigurationInv
<1>1. Init => ConfigurationInv
  BY IInit DEF Init, ConfigurationInv, PlanInv, PlanOk, NoRow, Idle
<1>2. ConfigurationInv /\ [Next]_vars => ConfigurationInv'
  BY IStep, PlanStep DEF ConfigurationInv
<1> QED BY <1>1, <1>2, PTL DEF Spec

\* An apply that names a plan has the configuration of that plan, which has succeeded, and
\* one that is under review has a configuration (DeployPlan.Check, RunService.EnqueueAsync).
THEOREM ConfigurationIsReviewed == Spec => []ReviewedConfiguration
<1>1. ConfigurationInv => ReviewedConfiguration
  BY DEF ConfigurationInv, PlanInv, PlanOk, ReviewedConfiguration
<1> QED BY ConfigurationInvariance, <1>1, PTL

\* A run that has its configuration keeps it, whoever edits the configuration meanwhile
\* (RunWorker.ExecuteRunAsync).
THEOREM ConfigurationIsPinned == Spec => PinnedConfiguration
<1>1. ASSUME ConfigurationInv, [Next]_vars
      PROVE  [\A r \in RunIds : runs[r].version # None => runs'[r].version = runs[r].version]_vars
  <2>1. CASE ~\E p \in Procs : Insert(p)
    BY <1>1, <2>1, RowsPinned DEF ConfigurationInv, RowPinned
  <2>2. ASSUME NEW p \in Procs, Insert(p)
        PROVE  \A r \in RunIds : runs[r].version # None => runs'[r].version = runs[r].version
    <3>1. lastId \in Nat /\ \A r \in RunIds : r # lastId + 1 => runs'[r] = runs[r]
      BY <1>1, <2>2, BoundsAssumption DEF Insert, ConfigurationInv, IInv, TypeOK
    <3>2. \A r \in RunIds : r = lastId + 1 => runs[r].version = None
      BY <1>1, <3>1 DEF ConfigurationInv, PlanInv
    <3> QED BY <3>1, <3>2
  <2> QED BY <2>1, <2>2
<1> QED BY ConfigurationInvariance, <1>1, PTL DEF Spec, PinnedConfiguration

-----------------------------------------------------------------------------
(***************************************************************************)
(* RunLifecycle implements RunContract.                                    *)
(***************************************************************************)
\* What the contract sees of the table and of the worker.
StatusView == [r \in RunIds |-> runs[r].status]
ExecutingView == IF worker.pc \in Busy THEN worker.id ELSE None
ViewKept == UNCHANGED <<StatusView, ExecutingView>>

\* A step of the contract, or one it does not see.
ContractStep == Contract!CNext \/ ViewKept

LEMMA ViewMoved ==
    ASSUME NEW r \in RunIds, NEW s, runs'[r].status = s,
           \A q \in RunIds : q # r => runs'[q].status = runs[q].status
    PROVE  StatusView' = [StatusView EXCEPT ![r] = s]
BY DEF StatusView

\* A step that moves one run while the worker goes on with what it does.
LEMMA ContractMove ==
    ASSUME NEW r \in RunIds, NEW s, runs'[r].status = s, worker' = worker,
           \A q \in RunIds : q # r => runs'[q].status = runs[q].status,
           \/ runs[r].status = "None" /\ s \in Pending
           \/ runs[r].status = "AwaitingApproval" /\ s \in {"Scheduled", "Queued", "Rejected"}
           \/ runs[r].status \in Pending /\ s = "Cancelled"
           \/ runs[r].status = "Scheduled" /\ s = "Queued"
    PROVE  ContractStep
<1>1. StatusView' = [StatusView EXCEPT ![r] = s] /\ StatusView[r] = runs[r].status
  BY ViewMoved DEF StatusView
<1>2. UNCHANGED ExecutingView
  BY DEF ExecutingView
<1> QED BY <1>1, <1>2 DEF ContractStep, StatusView, ExecutingView, Pending, Contract!CNext,
        Contract!CSubmit, Contract!CApprove, Contract!CReject, Contract!CCancel, Contract!CRelease,
        Contract!Move, Contract!Waiting

\* A step that neither moves a run nor changes what the worker executes.
LEMMA ContractStutter ==
    ASSUME \A r \in RunIds : runs'[r].status = runs[r].status,
           \/ worker' = worker
           \/ worker.pc \notin Busy /\ worker'.pc \notin Busy
           \/ worker.pc \in Busy /\ worker'.pc \in Busy /\ worker'.id = worker.id
    PROVE  ContractStep
BY DEF ContractStep, ViewKept, StatusView, ExecutingView

LEMMA RequestContract ==
    ASSUME IInv, NEW p \in Procs, Request(p)
    PROVE  ContractStep
<1>1. CASE \E r \in RunIds : CancelPending(p, r)
  <2>1. PICK r \in RunIds : CancelPending(p, r)
    BY <1>1
  <2>2. /\ runs'[r].status = "Cancelled" /\ runs[r].status \in Pending
        /\ \A q \in RunIds : q # r => runs'[q] = runs[q]
    BY <2>1, EndedRow, ZenonT(60) DEF CancelPending, NotStarted, Ended, IInv, TypeOK, Pending, Final
  <2> QED BY <2>1, <2>2, ContractMove DEF CancelPending, memory
<1>2. CASE ~\E r \in RunIds : CancelPending(p, r)
  <2>1. UNCHANGED <<runs, worker>>
    BY <1>2 DEF Request, Submit, Decide, CancelMissed, SaveCalendar, table, memory
  <2> QED BY <2>1, ContractStutter
<1> QED BY <1>1, <1>2

LEMMA DecisionContract ==
    ASSUME IInv, NEW p \in Procs, Insert(p) \/ SaveDecision(p)
    PROVE  ContractStep
<1>1. CASE Insert(p)
  <2>1. lastId + 1 \in RunIds /\ lastId + 1 > lastId
    BY <1>1, BoundsAssumption DEF Insert, IInv, TypeOK, RunIds
  <2>2. runs[lastId + 1].status = "None" /\ proc[p].row.status \in Pending
    BY <1>1, <2>1 DEF Insert, IInv, Protocol, FreshInv, HandlerInv, HandlerOk
  <2>3. /\ runs'[lastId + 1].status = proc[p].row.status
        /\ \A q \in RunIds : q # lastId + 1 => runs'[q] = runs[q]
    BY <1>1, <2>1 DEF Insert, IInv, TypeOK
  <2> QED BY <1>1, <2>1, <2>2, <2>3, ContractMove DEF Insert, memory
<1>2. CASE SaveDecision(p)
  <2> DEFINE r == proc[p].id
             s == proc[p].row.status
  <2>1. r \in RunIds /\ s \in {"Rejected", "Scheduled", "Queued"}
    BY <1>2 DEF SaveDecision, IInv, Protocol, HandlerInv, HandlerOk
  <2>2. CASE AwaitsDecision(r)
    <3>1. runs[r] \in RunRow /\ runs[r].status = "AwaitingApproval"
      BY <2>1, <2>2 DEF IInv, TypeOK, AwaitsDecision
    <3>2. /\ runs'[r].status = s
          /\ \A q \in RunIds : q # r => runs'[q] = runs[q]
      BY <1>2, <2>1, <2>2, <3>1 DEF SaveDecision, IInv, TypeOK, RunRow
    <3> QED BY <1>2, <2>1, <3>1, <3>2, ContractMove DEF SaveDecision, memory
  <2>3. CASE ~AwaitsDecision(r)
    BY <1>2, <2>3, ContractStutter DEF SaveDecision, memory
  <2> QED BY <2>2, <2>3
<1> QED BY <1>1, <1>2

LEMMA LoopContract ==
    ASSUME IInv, NEW p \in Procs, Expire(p) \/ Promote(p)
    PROVE  ContractStep
<1>1. worker' = worker
  BY DEF Expire, Promote, memory
<1>2. CASE Expire(p)
  <2>1. PICK r \in proc[p].todo :
           runs' = IF runs[r].status = "AwaitingApproval"
                   THEN [runs EXCEPT ![r] = Ended(@, "Rejected")] ELSE runs
    BY <1>2 DEF Expire
  <2>2. r \in RunIds /\ runs[r] \in RunRow
    BY DEF IInv, TypeOK, ProcType
  <2>3. CASE runs[r].status = "AwaitingApproval"
    <3>1. /\ runs'[r].status = "Rejected"
          /\ \A q \in RunIds : q # r => runs'[q] = runs[q]
      BY <2>1, <2>2, <2>3 DEF IInv, TypeOK, Ended, RunRow
    <3> QED BY <1>1, <2>2, <2>3, <3>1, ContractMove
  <2>4. CASE runs[r].status # "AwaitingApproval"
    BY <1>1, <2>1, <2>4, ContractStutter
  <2> QED BY <2>3, <2>4
<1>3. CASE Promote(p)
  <2>1. PICK r \in proc[p].todo :
           runs' = IF runs[r].status # "Scheduled" THEN runs
                   ELSE IF proc[p].start = proc[p].at
                   THEN [runs EXCEPT ![r].status = "Queued"]
                   ELSE [runs EXCEPT ![r].scheduledFor = proc[p].start]
    BY <1>3 DEF Promote
  <2>2. r \in RunIds /\ runs[r] \in RunRow
    BY DEF IInv, TypeOK, ProcType
  <2>3. CASE runs[r].status = "Scheduled" /\ proc[p].start = proc[p].at
    <3>1. /\ runs'[r].status = "Queued"
          /\ \A q \in RunIds : q # r => runs'[q] = runs[q]
      BY <2>1, <2>2, <2>3 DEF IInv, TypeOK, RunRow
    <3> QED BY <1>1, <2>2, <2>3, <3>1, ContractMove
  <2>4. CASE ~(runs[r].status = "Scheduled" /\ proc[p].start = proc[p].at)
    <3>1. [runs[r] EXCEPT !.scheduledFor = proc[p].start].status = runs[r].status
      BY <2>2 DEF RunRow
    <3>2. \A q \in RunIds : runs'[q].status = runs[q].status
      BY <2>1, <2>2, <2>4, <3>1 DEF IInv, TypeOK
    <3> QED BY <1>1, <3>2, ContractStutter
  <2> QED BY <2>3, <2>4
<1> QED BY <1>2, <1>3

LEMMA HandlerContract ==
    ASSUME IInv, NEW p \in Procs, HandlerStep(p)
    PROVE  ContractStep
<1>1. CASE CancelCheck(p) \/ CancelLookup(p) \/ CancelSignal(p) \/ Reschedule(p) \/ ReadDueAfterEdit(p)
  <2>1. UNCHANGED <<runs, worker>>
    BY <1>1 DEF CancelCheck, CancelLookup, CancelSignal, Reschedule, ReadDueAfterEdit, ReadDue,
                table, memory
  <2> QED BY <2>1, ContractStutter
<1>2. CASE SaveStart(p)
  <2>1. \A r \in RunIds : [runs[r] EXCEPT !.scheduledFor = proc[p].start].status = runs[r].status
    BY DEF IInv, TypeOK, RunRow
  <2> QED BY <1>2, <2>1, ContractStutter DEF SaveStart, memory
<1> QED BY <1>1, <1>2, DecisionContract, LoopContract DEF HandlerStep

LEMMA WorkerContract ==
    ASSUME IInv, WorkerStep
    PROVE  ContractStep
<1>1. worker \in WorkerType /\ WorkerInv
  BY DEF IInv, TypeOK, Protocol
<1>2. CASE Recover
  <2>1. ASSUME NEW r \in RunIds
        PROVE  runs'[r].status = IF runs[r].status = "Running" THEN "Failed" ELSE runs[r].status
    <3>1. Ended(runs[r], "Failed").status = "Failed"
      BY DEF Ended, IInv, TypeOK, RunRow
    <3> QED BY <1>2, <3>1 DEF Recover, Interrupted
  <2>2. worker.pc = "recover" /\ worker'.pc = "loop"
    BY <1>1, <1>2 DEF Recover, Goto, WorkerType
  <2> QED BY <2>1, <2>2 DEF ContractStep, Contract!CNext, Contract!CRecover, Busy
<1>3. CASE (\E r \in RunIds : ReadQueue(r)) \/ Defer
  <2>1. CASE \E r \in RunIds : ReadQueue(r)
    BY <1>1, <2>1, ContractStutter DEF ReadQueue, table, WorkerType, Busy
  <2>2. CASE Defer
    <3>1. worker.id \in RunIds /\ runs[worker.id] \in RunRow /\ worker.pc = "claim"
      BY <1>1, <2>2 DEF Defer, WorkerInv, IInv, TypeOK
    <3>2. worker'.pc \notin Busy
      BY <2>2 DEF Defer, WorkerAt, Busy
    <3>3. CASE worker.id \notin Queued
      BY <2>2, <3>1, <3>2, <3>3, ContractStutter DEF Defer, Busy
    <3>4. CASE worker.id \in Queued
      <4>1. /\ runs[worker.id].status = "Queued" /\ runs'[worker.id].status = "Scheduled"
            /\ \A q \in RunIds : q # worker.id => runs'[q] = runs[q]
        BY <2>2, <3>1, <3>4 DEF Defer, Queued, IInv, TypeOK, RunRow
      <4>2. StatusView' = [StatusView EXCEPT ![worker.id] = "Scheduled"]
        BY <3>1, <4>1, ViewMoved
      <4>3. UNCHANGED ExecutingView
        BY <3>1, <3>2 DEF ExecutingView, Busy
      <4> QED BY <3>1, <4>1, <4>2, <4>3 DEF ContractStep, StatusView, ExecutingView,
              Contract!CNext, Contract!CDefer, Contract!Move
    <3> QED BY <3>3, <3>4
  <2> QED BY <1>3, <2>1, <2>2
<1>4. CASE Claim
  <2>1. worker.id \in RunIds /\ runs[worker.id] \in RunRow /\ worker.pc = "claim"
    BY <1>1, <1>4 DEF Claim, WorkerInv, IInv, TypeOK
  <2>2. CASE worker.id \notin Queued
    BY <1>4, <2>1, <2>2, ContractStutter DEF Claim, WorkerAt, Busy
  <2>3. CASE worker.id \in Queued
    <3>1. /\ runs[worker.id].status = "Queued" /\ runs'[worker.id].status = "Running"
          /\ \A q \in RunIds : q # worker.id => runs'[q] = runs[q]
      BY <1>4, <2>1, <2>3 DEF Claim, Queued, IInv, TypeOK, RunRow
    <3>2. StatusView' = [StatusView EXCEPT ![worker.id] = "Running"]
      BY <2>1, <3>1, ViewMoved
    <3>3. ExecutingView = None /\ ExecutingView' = worker.id
      BY <1>1, <1>4, <2>1, <2>3 DEF Claim, Goto, ExecutingView, Busy, WorkerType
    <3> QED BY <2>1, <3>1, <3>2, <3>3 DEF ContractStep, StatusView, ExecutingView,
            Contract!CNext, Contract!CStart, Contract!Move
  <2> QED BY <2>2, <2>3
<1>5. CASE Register \/ StartProcess \/ PrepareFails \/ CancelledBeforeStart
           \/ ProcessExits \/ Unregister \/ DatabaseFails
  <2>1. worker.pc \in Busy /\ worker'.pc \in Busy /\ worker'.id = worker.id
    BY <1>1, <1>5 DEF Register, StartProcess, PrepareFails, CancelledBeforeStart, ProcessExits,
       Unregister, DatabaseFails, Goto, End, WorkerType, Busy
  <2>2. runs' = runs \/ runs' = [runs EXCEPT ![worker.id].version = UsedVersion(worker.id)]
    BY <1>5 DEF table, Register, StartProcess, PrepareFails, CancelledBeforeStart, ProcessExits,
       Unregister, DatabaseFails
  <2>3. \A r \in RunIds : runs'[r].status = runs[r].status
    <3>1. \A a \in RunRow : \A v : [a EXCEPT !.version = v].status = a.status
      BY DEF RunRow
    <3> SUFFICES ASSUME NEW r \in RunIds PROVE runs'[r].status = runs[r].status
      OBVIOUS
    <3>2. runs[r] \in RunRow
      BY DEF IInv, TypeOK
    <3>3. CASE r = worker.id /\ runs' # runs
      <4>1. runs'[r] = [runs[r] EXCEPT !.version = UsedVersion(r)]
        BY <2>2, <3>3 DEF IInv, TypeOK
      <4> QED BY <3>1, <3>2, <4>1
    <3>4. CASE ~(r = worker.id /\ runs' # runs)
      BY <2>2, <3>4 DEF IInv, TypeOK
    <3> QED BY <3>3, <3>4
  <2> QED BY <2>1, <2>3, ContractStutter
<1>6. CASE SaveResult \/ MarkFailed
  <2>1. /\ worker.id \in RunIds /\ runs[worker.id] \in RunRow
        /\ runs[worker.id].status = "Running" /\ worker.pc \in Busy
        /\ worker' = WorkerAt("loop")
    BY <1>1, <1>6 DEF SaveResult, MarkFailed, WorkerInv, IInv, TypeOK, Busy
  <2>2. ExecutingView = worker.id /\ ExecutingView' = None /\ worker.id # None
    BY <2>1 DEF ExecutingView, WorkerAt, Busy, RunIds, None
  <2>3. ASSUME NEW s \in {"Succeeded", "Failed", "Cancelled"},
               runs' = [runs EXCEPT ![worker.id] = Ended(@, s)]
        PROVE  ContractStep
    <3>1. /\ runs'[worker.id].status = s
          /\ \A q \in RunIds : q # worker.id => runs'[q] = runs[q]
      BY <2>1, <2>3 DEF Ended, IInv, TypeOK, RunRow
    <3>2. StatusView' = [StatusView EXCEPT ![worker.id] = s]
      BY <2>1, <3>1, ViewMoved
    <3> QED BY <2>1, <2>2, <3>1, <3>2 DEF ContractStep, StatusView, ExecutingView,
            Contract!CNext, Contract!CFinish, Contract!Move
  <2>4. ASSUME runs' = runs
        PROVE  ContractStep
    BY <2>2, <2>4 DEF ContractStep, StatusView, ExecutingView, Contract!CNext, Contract!CLose
  <2>5. CASE SaveResult
    BY <1>1, <2>3, <2>5 DEF SaveResult, WorkerInv
  <2>6. CASE MarkFailed
    BY <2>1, <2>3, <2>4, <2>6 DEF MarkFailed
  <2> QED BY <1>6, <2>5, <2>6
<1> QED BY <1>2, <1>3, <1>4, <1>5, <1>6 DEF WorkerStep

LEMMA EnvironmentContract ==
    ASSUME IInv, Environment \/ SchedulerStep \/ UNCHANGED vars
    PROVE  ContractStep
<1>1. CASE Crash
  <2>1. runs' = runs /\ worker'.pc = "down"
    BY <1>1 DEF Crash, table, WorkerAt
  <2>2. CASE worker.pc \in Busy
    <3>1. worker.id # None
      BY <2>2 DEF IInv, Protocol, WorkerInv, RunIds, None
    <3> QED BY <2>1, <2>2, <3>1 DEF ContractStep, Contract!CNext, Contract!CLose, Busy
  <2>3. CASE worker.pc \notin Busy
    BY <2>1, <2>3, ContractStutter DEF Busy
  <2> QED BY <2>2, <2>3
<1>2. CASE Restart
  <2>1. runs' = runs /\ worker.pc = "down" /\ worker'.pc = "recover"
    BY <1>2 DEF Restart, Goto, table, IInv, TypeOK, WorkerType
  <2> QED BY <2>1, ContractStutter DEF Busy
<1>3. CASE ~Crash /\ ~Restart
  <2>1. UNCHANGED <<runs, worker>>
    BY <1>3 DEF Environment, Tick, EditConfig, OrphanExits, Rest, SchedulerStep, ExpireOverdue,
                PromoteScheduled, ReadDue, vars, table, memory
  <2> QED BY <2>1, ContractStutter
<1> QED BY <1>1, <1>2, <1>3

\* The run pipeline implements the life of a run that the manual tells: every step of
\* handlers, ScheduleWorker and RunWorker is a step RunContract allows or a stutter.
THEOREM ContractHolds == Spec => ImplementsContract
<1>1. Init => Contract!CInit
  BY DEF Init, NoRow, WorkerAt, Busy, Contract!CInit
<1>2. IInv /\ [Next]_vars => [Contract!CNext]_(Contract!cvars)
  <2>1. IInv /\ [Next]_vars => ContractStep
    BY RequestContract, HandlerContract, WorkerContract, EnvironmentContract DEF Next
  <2> QED BY <2>1 DEF ContractStep, ViewKept, StatusView, ExecutingView, Contract!cvars
<1> QED BY Invariance, <1>1, <1>2, PTL DEF Spec, ImplementsContract, Contract!CSpec
=============================================================================
