-------------------------- MODULE JitAccessProofs --------------------------
(* Theorems about JitAccess: its types, that nobody becomes a member without   *)
(* the approval a request needs, and that requests and directory agree.        *)
EXTENDS JitAccess, TLAPS

-----------------------------------------------------------------------------
(* The inductive invariant for types and approvals. *)

Undecided == {"None", "Pending"}

\* A request that a second person approved in time, if it needs approval.
Granted(row) ==
    /\ row.status \notin Undecided
    /\ row.approvalRequired =>
          row.decidedBy \notin {NoOne, row.by} /\ row.decidedAt < row.approvalExpires

\* What a handler carries from a read to a write.
WithRow == {"autoApprove", "decide", "overdue", "insertRun", "linkRun"}
ProcOk(h, rows) ==
    /\ h.pc = "store" => /\ h.row.status = "Pending"
                         /\ h.row.approvalRequired => h.row.approvalExpires # None
    /\ h.pc \in WithRow => h.id \in RequestIds /\ rows[h.id].status # "None"
    /\ h.pc = "autoApprove" => ~rows[h.id].approvalRequired
    /\ h.pc = "decide" => /\ h.row.status \in {"Approved", "Rejected"}
                          /\ h.row.decidedBy \notin {NoOne, rows[h.id].by}
                          /\ rows[h.id].approvalRequired => h.row.decidedAt < rows[h.id].approvalExpires
    /\ h.pc \in {"insertRun", "linkRun"} => Granted(rows[h.id])
    /\ h.pc = "maintain" => \A r \in RequestIds : rows[r].status = "None" =>
          r \notin h.sets.expired \cup h.sets.overdue \cup h.sets.stuck \cup h.sets.stuckRevoke

ProcInv == \A p \in Procs : ProcOk(proc[p], requests)

RequestInv ==
    /\ \A r \in RequestIds : r > lastRequest => requests[r].status = "None"
    /\ \A r \in RequestIds : requests[r].status = "Active" => Granted(requests[r])
    /\ \A r \in RequestIds : requests[r].approvalRequired => requests[r].approvalExpires # None

RunInv ==
    /\ \A run \in RunIds : run > lastRun => runs[run].status = "None"
    /\ \A run \in RunIds : runs[run].status # "None" => Granted(requests[runs[run].request])

\* A script belongs to a run that was claimed, and so does what the worker is busy with.
Claimed(run) == runs[run].status \notin {"None", "Queued"}
Ended == {"ended", "saved", "completing"}
Busy == Ended \cup {"executing"}
ScriptInv == \A run \in RunIds : script[run].did # "none" => Claimed(run)
WorkerInv ==
    /\ worker.pc \in Busy => worker.run \in RunIds /\ Claimed(worker.run)
    /\ worker.pc \in Ended => /\ worker.result \in {"Succeeded", "Failed", "Cancelled"}
                              /\ script[worker.run].did = "none"

MemberInv ==
    \A t \in Targets : IsMember(t) =>
        /\ members[t].by \in RequestIds /\ members[t].until > now
        /\ Granted(requests[members[t].by])
        /\ requests[members[t].by].target = t

GrantInv == ProcInv /\ RequestInv /\ RunInv /\ ScriptInv /\ WorkerInv /\ MemberInv
IInv == TypeOK /\ GrantInv

-----------------------------------------------------------------------------
(* The invariant for the agreement of requests and directory. *)

Inserts(p, r) == proc[p].pc = "insertRun" /\ proc[p].action = "Grant" /\ proc[p].id = r
Revokes(p, r) == proc[p].pc \in {"insertRun", "linkRun"} /\ proc[p].action = "Revoke" /\ proc[p].id = r
RunOf(run, action, r) ==
    runs[run].status # "None" /\ runs[run].action = action /\ runs[run].request = r

\* There is one run at most that grants the request.
OneGrant(r) ==
    /\ \A p, q \in Procs : Inserts(p, r) /\ Inserts(q, r) => p = q
    /\ \A p \in Procs, run \in RunIds : ~(Inserts(p, r) /\ RunOf(run, "Grant", r))
    /\ \A x, y \in RunIds : RunOf(x, "Grant", r) /\ RunOf(y, "Grant", r) => x = y

\* Nothing can put the request's target into the group any more.
OffDuty(run) ==
    /\ runs[run].status # "Queued" /\ script[run].did = "none"
    /\ ~(worker.pc \in Busy /\ worker.run = run)
Settled(r) ==
    /\ requests[r].status \notin Undecided
    /\ \A p \in Procs : ~Inserts(p, r)
    /\ \A run \in RunIds : RunOf(run, "Grant", r) => OffDuty(run)

MemberUntil(r, until) == \A t \in Targets : IsMember(t) /\ members[t].by = r => members[t].until = until
Gone(r) == \A t \in Targets : IsMember(t) => members[t].by # r

\* What a script has done, and the worker has read, is what the directory says.
OutcomeInv(r) ==
    /\ \A run \in RunIds : script[run].did = "done" =>
          /\ RunOf(run, "Grant", r) => MemberUntil(r, script[run].until)
          /\ RunOf(run, "Revoke", r) => Gone(r)
    /\ worker.pc \in Ended /\ worker.result = "Succeeded" =>
          /\ RunOf(worker.run, "Grant", r) => MemberUntil(r, worker.until)
          /\ RunOf(worker.run, "Revoke", r) => Gone(r)

\* A revocation, an expiry and an active request come after the grant is settled.
Expiring(r) == proc[Maintainer].pc = "maintain" /\ r \in proc[Maintainer].sets.expired
SettledInv(r) ==
    /\ (\E p \in Procs : Revokes(p, r)) \/ (\E run \in RunIds : RunOf(run, "Revoke", r)) => Settled(r)
    /\ requests[r].status = "Active" => Settled(r) /\ MemberUntil(r, requests[r].expiresAt)
    /\ requests[r].status \in {"Expired", "Revoked"} \/ Expiring(r) => Settled(r) /\ Gone(r)

AgreeInv ==
    \A r \in RequestIds : requests[r].approvalRequired => OneGrant(r) /\ OutcomeInv(r) /\ SettledInv(r)

\* The directory agrees with the requests that need approval.
ApprovedAgree ==
    \A t \in Targets : IsMember(t) =>
        LET r == requests[members[t].by]
        IN  r.approvalRequired => /\ r.status \notin {"Expired", "Revoked"}
                                  /\ r.status = "Active" => r.expiresAt = members[t].until

-----------------------------------------------------------------------------
(* Types. *)

LEMMA RowTypes ==
    /\ NoRequest \in Request /\ NoRequest.status = "None" /\ NoRequest.approvalRequired = FALSE
    /\ NoRun \in Run /\ NoRun.status = "None"
    /\ Idle \in ProcType /\ Idle.pc = "idle" /\ Idle.action = "Grant"
<1>1. RequestIds # {} /\ 1 \in RequestIds /\ None \in Dates /\ None \in 0..MaxRuns /\ None \in 0..MaxRequests
  BY JitBoundsAssumption DEF RequestIds, None, Dates
<1>2. NoRequest \in Request /\ NoRequest.status = "None" /\ NoRequest.approvalRequired = FALSE
  BY <1>1, JitTargetsAssumption DEF NoRequest, Request
<1>3. NoRun \in Run /\ NoRun.status = "None"
  BY <1>1 DEF NoRun, Run, RunStatus, Actions
<1>4. NoSets \in Sets
  BY DEF NoSets, Sets
<1>5. Idle \in ProcType /\ Idle.pc = "idle" /\ Idle.action = "Grant"
  BY <1>1, <1>2, <1>4 DEF Idle, ProcType, ProcPc, Actions
<1> QED BY <1>2, <1>3, <1>5

LEMMA WorkerAtType ==
    ASSUME NEW pc \in WorkerPc
    PROVE  WorkerAt(pc) \in WorkerType /\ WorkerAt(pc).pc = pc /\ WorkerAt(pc).until = None
BY RowTypes, JitBoundsAssumption DEF WorkerAt, WorkerType, RunStatus, None, Dates

LEMMA DateFacts ==
    ASSUME NEW t \in Times
    PROVE  /\ t \in Nat /\ t \in Dates /\ t # None
           /\ t + Duration \in Dates /\ t + Duration > t /\ t + Duration # None
           /\ t + ApprovalTimeout \in Dates /\ t + ApprovalTimeout # None
           /\ None \in Dates /\ Dates \subseteq Nat
BY JitBoundsAssumption DEF Times, Dates, None

LEMMA TypeInit == Init => TypeOK
<1> SUFFICES ASSUME Init
             PROVE  TypeOK
  OBVIOUS
<1>1. /\ now \in Times /\ lastRequest \in 0..MaxRequests /\ lastRun \in 0..MaxRuns
      /\ faults \in [crash : 0..MaxCrash, fail : 0..MaxFail]
  BY JitBoundsAssumption DEF Init, Times
<1>2. NoMember \in [by : 0..MaxRequests, until : Dates] /\ Script("none") \in ScriptState
  BY JitBoundsAssumption DEF NoMember, Script, ScriptState, None, Dates
<1>3. worker \in WorkerType
  BY WorkerAtType DEF Init, WorkerPc
<1> QED BY <1>1, <1>2, <1>3, RowTypes DEF Init, TypeOK

\* The steps of a handler.
LEMMA RequestType ==
    ASSUME TypeOK, NEW p \in Procs, HandlerRequest(p)
    PROVE  TypeOK'
<1> USE RowTypes, DateFacts
<1>1. ASSUME NEW u \in People, NEW t \in Targets, NEW a \in ApprovalSettings, Create(p, u, t, a)
      PROVE  TypeOK'
  <2> DEFINE row == [NoRequest EXCEPT !.status = "Pending", !.by = u, !.target = t,
                                      !.approvalRequired = a, !.approvalExpires = Deadline(a)]
             h == [Idle EXCEPT !.pc = "store", !.row = row]
  <2>1. a \in BOOLEAN /\ Deadline(a) \in Dates
    BY JitNamesAssumption DEF Deadline, TypeOK
  <2>2. row \in Request
    BY <2>1 DEF Request, JitStatus
  <2>3. h \in ProcType
    BY <2>2 DEF ProcType, ProcPc
  <2> QED BY <1>1, <2>3 DEF Create, Become, TypeOK, tables, execution
<1>2. ASSUME NEW u \in People, NEW r \in RequestIds, NEW approve \in BOOLEAN, Decide(p, u, r, approve)
      PROVE  TypeOK'
  <2> DEFINE row == [requests[r] EXCEPT !.status = IF approve THEN "Approved" ELSE "Rejected",
                                        !.decidedBy = u, !.decidedAt = now]
             late == [Idle EXCEPT !.pc = "overdue", !.id = r]
             h == [Idle EXCEPT !.pc = "decide", !.id = r, !.row = row]
  <2>1. row \in Request
    BY ZenonT(60) DEF Request, JitStatus, TypeOK
  <2>2. r \in 0..MaxRequests
    BY JitBoundsAssumption DEF RequestIds
  <2>3. late \in ProcType /\ h \in ProcType
    BY <2>1, <2>2 DEF ProcType, ProcPc
  <2>4. proc' = [proc EXCEPT ![p] = late] \/ proc' = [proc EXCEPT ![p] = h]
    BY <1>2 DEF Decide, Become
  <2> QED BY <1>2, <2>3, <2>4 DEF Decide, TypeOK, tables, execution
<1>3. ASSUME NEW r \in RequestIds, Withdraw(p, r)
      PROVE  TypeOK'
  <2>1. requests' \in [RequestIds -> Request]
    <3>1. requests \in [RequestIds -> Request] /\ requests[r] \in Request
      BY DEF TypeOK
    <3>2. [requests[r] EXCEPT !.status = "Cancelled"] \in Request
      BY <3>1 DEF Request, JitStatus
    <3> QED BY <1>3, <3>1, <3>2 DEF Withdraw
  <2> QED BY <1>3, <2>1 DEF Withdraw, TypeOK, execution
<1>4. ASSUME NEW r \in RequestIds, Revoke(p, r)
      PROVE  TypeOK'
  <2>1. r \in 0..MaxRequests
    BY JitBoundsAssumption DEF RequestIds
  <2>2. [Idle EXCEPT !.pc = "insertRun", !.id = r, !.action = "Revoke"] \in ProcType
    BY <2>1 DEF ProcType, ProcPc, Actions
  <2> QED BY <1>4, <2>2 DEF Revoke, Become, TypeOK, tables, execution
<1>5. ASSUME NEW run \in RunIds, CancelRun(p, run)
      PROVE  TypeOK'
  <2>1. runs' \in [RunIds -> Run]
    BY <1>5 DEF CancelRun, TypeOK, Run, RunStatus
  <2> QED BY <1>5, <2>1 DEF CancelRun, TypeOK, execution
<1> QED BY <1>1, <1>2, <1>3, <1>4, <1>5 DEF HandlerRequest

LEMMA HandlerStepType ==
    ASSUME TypeOK, ProcInv, NEW p \in Procs, HandlerStep(p)
    PROVE  TypeOK'
<1> USE RowTypes, DateFacts
<1>1. /\ proc \in [Procs -> ProcType] /\ proc[p] \in ProcType
      /\ requests \in [RequestIds -> Request] /\ runs \in [RunIds -> Run]
      /\ lastRequest \in 0..MaxRequests /\ lastRun \in 0..MaxRuns /\ now \in Times
  BY DEF TypeOK
<1>2. proc[p].pc \in WithRow => proc[p].id \in RequestIds
  BY DEF ProcInv, ProcOk
<1>3. CASE Store(p)
  <2>1. lastRequest' = lastRequest + 1 /\ lastRequest' \in 0..MaxRequests /\ lastRequest' \in RequestIds
    BY <1>1, <1>3, JitBoundsAssumption, SMTT(60) DEF Store, RequestIds
  <2>2. requests' \in [RequestIds -> Request]
    BY <1>1, <1>3, <2>1 DEF Store, ProcType
  <2>3. [Idle EXCEPT !.pc = "autoApprove", !.id = lastRequest + 1] \in ProcType
    BY <2>1 DEF ProcType, ProcPc
  <2>4. proc' = [proc EXCEPT ![p] = Idle]
        \/ proc' = [proc EXCEPT ![p] = [Idle EXCEPT !.pc = "autoApprove", !.id = lastRequest + 1]]
    BY <1>3 DEF Store, Become
  <2> QED BY <1>3, <2>1, <2>2, <2>3, <2>4 DEF Store, TypeOK, execution
<1>4. CASE AutoApprove(p)
  <2>1. requests' \in [RequestIds -> Request]
    BY <1>1, <1>2, <1>4 DEF AutoApprove, WithRow, Request, JitStatus
  <2>2. [proc[p] EXCEPT !.pc = "insertRun"] \in ProcType
    BY <1>1 DEF ProcType, ProcPc
  <2> QED BY <1>4, <2>1, <2>2 DEF AutoApprove, Become, TypeOK, execution
<1>5. CASE SaveDecision(p)
  <2>1. requests' \in [RequestIds -> Request]
    <3>1. /\ proc[p].id \in RequestIds
          /\ proc[p].row.status \in JitStatus
          /\ proc[p].row.decidedBy \in People \cup {NoOne} /\ proc[p].row.decidedAt \in Dates
      BY <1>1, <1>2, <1>5 DEF SaveDecision, WithRow, ProcInv, ProcOk, ProcType, Request, JitStatus
    <3> QED BY <1>1, <1>5, <3>1 DEF SaveDecision, Request
  <2>2. [Idle EXCEPT !.pc = "insertRun", !.id = proc[p].id] \in ProcType
    BY <1>1 DEF ProcType, ProcPc
  <2>3. proc' = [proc EXCEPT ![p] = Idle]
        \/ proc' = [proc EXCEPT ![p] = [Idle EXCEPT !.pc = "insertRun", !.id = proc[p].id]]
    BY <1>5 DEF SaveDecision, Become
  <2> QED BY <1>5, <2>1, <2>2, <2>3 DEF SaveDecision, TypeOK, execution
<1>6. CASE ExpireApproval(p)
  <2>1. requests' \in [RequestIds -> Request]
    BY <1>1, <1>2, <1>6 DEF ExpireApproval, WithRow, Request, JitStatus
  <2> QED BY <1>6, <2>1 DEF ExpireApproval, Become, TypeOK, execution
<1>7. CASE InsertRun(p)
  <2>1. lastRun' = lastRun + 1 /\ lastRun' \in 0..MaxRuns
    BY <1>1, <1>7, JitBoundsAssumption DEF InsertRun
  <2>2. [status |-> "Queued", action |-> proc[p].action, request |-> proc[p].id] \in Run
    BY <1>1, <1>2, <1>7 DEF InsertRun, WithRow, Run, RunStatus, ProcType
  <2>3. runs' \in [RunIds -> Run]
    BY <1>1, <1>7, <2>2 DEF InsertRun
  <2>4. [proc[p] EXCEPT !.pc = "linkRun", !.run = lastRun + 1] \in ProcType
    BY <1>1, <2>1 DEF ProcType, ProcPc
  <2> QED BY <1>7, <2>1, <2>3, <2>4 DEF InsertRun, Become, TypeOK, execution
<1>8. CASE LinkRun(p)
  <2>1. requests' \in [RequestIds -> Request]
    <3>1. proc[p].id \in RequestIds /\ proc[p].run \in 0..MaxRuns /\ requests[proc[p].id] \in Request
      BY <1>1, <1>2, <1>8 DEF LinkRun, WithRow, ProcType
    <3>2. /\ [requests[proc[p].id] EXCEPT !.runId = proc[p].run] \in Request
          /\ [requests[proc[p].id] EXCEPT !.revokeRunId = proc[p].run] \in Request
      BY <3>1 DEF Request
    <3> QED BY <1>1, <1>8, <3>1, <3>2 DEF LinkRun
  <2> QED BY <1>8, <2>1 DEF LinkRun, Become, TypeOK, execution
<1> QED BY <1>3, <1>4, <1>5, <1>6, <1>7, <1>8 DEF HandlerStep

LEMMA WorkerStepType ==
    ASSUME TypeOK, WorkerInv, WorkerStep
    PROVE  TypeOK'
<1> USE RowTypes, DateFacts
<1>1. /\ worker \in WorkerType /\ script \in [RunIds -> ScriptState]
      /\ requests \in [RequestIds -> Request] /\ runs \in [RunIds -> Run]
      /\ worker.pc \in Busy => worker.run \in RunIds
  BY DEF TypeOK, WorkerInv
<1>2. \A did \in {"none", "started", "done", "failed"} : Script(did) \in ScriptState
  BY JitBoundsAssumption DEF Script, ScriptState, None, Dates
<1>3. WorkerAt("loop") \in WorkerType /\ WorkerAt("executing") \in WorkerType
  BY WorkerAtType DEF WorkerPc
<1>4. CASE Recover
  <2>1. \A run \in RunIds : [runs[run] EXCEPT !.status = "Failed"] \in Run
    BY <1>1 DEF Run, RunStatus
  <2>2. runs' \in [RunIds -> Run]
    BY <1>1, <1>4, <2>1 DEF Recover
  <2> QED BY <1>3, <1>4, <2>2 DEF Recover, TypeOK
<1>5. ASSUME NEW run \in RunIds, Claim(run)
      PROVE  TypeOK'
  <2>1. [runs[run] EXCEPT !.status = "Running"] \in Run
    BY <1>1 DEF Run, RunStatus
  <2>2. runs' \in [RunIds -> Run]
    BY <1>1, <1>5, <2>1 DEF Claim
  <2>3. run \in 0..MaxRuns
    BY JitBoundsAssumption DEF RunIds
  <2>4. [WorkerAt("executing") EXCEPT !.run = run] \in WorkerType
    BY <1>3, <2>3 DEF WorkerType
  <2>5. script' \in [RunIds -> ScriptState]
    BY <1>1, <1>2, <1>5 DEF Claim
  <2> QED BY <1>5, <2>2, <2>4, <2>5 DEF Claim, TypeOK
<1>6. CASE ScriptExits \/ ScriptKilled
  <2>1. worker.run \in RunIds /\ script' = [script EXCEPT ![worker.run] = Script("none")]
    BY <1>1, <1>6 DEF ScriptExits, ScriptKilled, Busy
  <2>2. script' \in [RunIds -> ScriptState] /\ script[worker.run].until \in Dates
    BY <1>1, <1>2, <2>1 DEF ScriptState
  <2>3. worker' \in WorkerType
    <3>1. \A result \in RunStatus :
             /\ [worker EXCEPT !.pc = "ended", !.result = result] \in WorkerType
             /\ [worker EXCEPT !.pc = "ended", !.result = result,
                               !.until = script[worker.run].until] \in WorkerType
      BY <1>1, <2>2 DEF WorkerType, WorkerPc
    <3> QED BY <1>6, <3>1 DEF ScriptExits, ScriptKilled, RunStatus
  <2> QED BY <1>6, <2>2, <2>3 DEF ScriptExits, ScriptKilled, TypeOK, tables
<1>7. CASE SaveResult
  <2>1. worker.run \in RunIds /\ [runs[worker.run] EXCEPT !.status = worker.result] \in Run
    BY <1>1, <1>7 DEF SaveResult, Busy, Ended, WorkerType, Run
  <2>2. runs' \in [RunIds -> Run]
    BY <1>1, <1>7, <2>1 DEF SaveResult
  <2>3. [worker EXCEPT !.pc = "saved"] \in WorkerType
    BY <1>1 DEF WorkerType, WorkerPc
  <2> QED BY <1>7, <2>2, <2>3 DEF SaveResult, TypeOK
<1>8. CASE CompleteRead
  <2>1. requests[runs[worker.run].request] \in Request
    BY <1>1, <1>8 DEF CompleteRead, Busy, Ended, Run
  <2>2. worker' \in WorkerType
    BY <1>1, <1>8, <2>1 DEF CompleteRead, WorkerType, WorkerPc
  <2> QED BY <1>8, <2>2 DEF CompleteRead, TypeOK, tables
<1>9. CASE CompleteSave
  <2> DEFINE r == runs[worker.run].request
  <2>1. r \in RequestIds /\ worker.until \in Dates
    BY <1>1, <1>9 DEF CompleteSave, Busy, Ended, Run, WorkerType
  <2>2. \A s \in JitStatus, d \in Dates :
           /\ [requests[r] EXCEPT !.status = s] \in Request
           /\ [requests[r] EXCEPT !.status = s, !.expiresAt = d] \in Request
           /\ [requests[r] EXCEPT !.revokeRunId = None] \in Request
    <3>1. requests[r] \in Request /\ None \in 0..MaxRuns
      BY <1>1, <2>1, JitBoundsAssumption DEF None
    <3> HIDE DEF r
    <3> QED BY <3>1 DEF Request
  <2>3. \/ requests' = requests
        \/ requests' = [requests EXCEPT ![r] = [requests[r] EXCEPT !.status = "Active", !.expiresAt = worker.until]]
        \/ \E s \in {"Failed", "Revoked"} : requests' = [requests EXCEPT ![r] = [requests[r] EXCEPT !.status = s]]
        \/ requests' = [requests EXCEPT ![r] = [requests[r] EXCEPT !.revokeRunId = None]]
    BY <1>1, <1>9, <2>1 DEF CompleteSave
  <2>4. requests' \in [RequestIds -> Request]
    BY <1>1, <2>1, <2>2, <2>3, ZenonT(60) DEF JitStatus
  <2> QED BY <1>3, <1>9, <2>4 DEF CompleteSave, TypeOK
<1>10. CASE CompleteFails
  <2>1. faults' \in [crash : 0..MaxCrash, fail : 0..MaxFail]
    BY <1>10, JitBoundsAssumption DEF CompleteFails, TypeOK
  <2> QED BY <1>3, <1>10, <2>1 DEF CompleteFails, TypeOK, tables
<1> QED BY <1>4, <1>5, <1>6, <1>7, <1>8, <1>9, <1>10 DEF WorkerStep

LEMMA ScriptStepType ==
    ASSUME TypeOK, ScriptInv, NEW run \in RunIds, ScriptStep(run)
    PROVE  TypeOK'
<1>1. /\ script \in [RunIds -> ScriptState] /\ runs \in [RunIds -> Run]
      /\ members \in [Targets -> [by : 0..MaxRequests, until : Dates]] /\ now \in Times
      /\ requests \in [RequestIds -> Request]
  BY DEF TypeOK
<1>2. TargetOf(run) \in Targets /\ runs[run].request \in 0..MaxRequests
  BY <1>1, JitBoundsAssumption DEF TargetOf, Run, Request, RequestIds
<1>3. \A did \in {"none", "started", "done", "failed"} :
         Script(did) \in ScriptState /\ [did |-> did, until |-> now + Duration] \in ScriptState
  BY <1>1, DateFacts DEF Script, ScriptState, None
<1>4. script' \in [RunIds -> ScriptState]
  BY <1>1, <1>3 DEF ScriptStep, ScriptGrants, ScriptRevokes, ScriptFails
<1>5. members' \in [Targets -> [by : 0..MaxRequests, until : Dates]]
  <2>1. /\ [by |-> runs[run].request, until |-> now + Duration] \in [by : 0..MaxRequests, until : Dates]
        /\ NoMember \in [by : 0..MaxRequests, until : Dates]
    BY <1>1, <1>2, DateFacts, JitBoundsAssumption DEF NoMember, None
  <2> QED BY <1>1, <1>2, <2>1 DEF ScriptStep, ScriptGrants, ScriptRevokes, ScriptFails, RemoveMember
<1> QED BY <1>4, <1>5 DEF ScriptStep, ScriptGrants, ScriptRevokes, ScriptFails, TypeOK, tables

LEMMA MaintenanceType ==
    ASSUME TypeOK, MaintainRead \/ MaintainSave
    PROVE  TypeOK'
<1>1. Maintainer \in Procs /\ proc \in [Procs -> ProcType] /\ requests \in [RequestIds -> Request]
  BY DEF Procs, TypeOK
<1>2. CASE MaintainRead
  <2>1. PICK sets \in Sets : proc' = [proc EXCEPT ![Maintainer] = [Idle EXCEPT !.pc = "maintain", !.sets = sets]]
    BY <1>2 DEF MaintainRead, Become, Sets, Elapsed, Overdue
  <2>2. [Idle EXCEPT !.pc = "maintain", !.sets = sets] \in ProcType
    BY RowTypes DEF ProcType, ProcPc
  <2> QED BY <1>1, <1>2, <2>1, <2>2 DEF MaintainRead, TypeOK, tables, execution
<1>3. CASE MaintainSave
  <2>1. \A r \in RequestIds, s \in JitStatus \cup {"None"}, v \in 0..MaxRuns :
           [requests[r] EXCEPT !.status = s, !.revokeRunId = v] \in Request
    BY <1>1, ZenonT(60) DEF Request
  <2>2. \A r \in RequestIds : requests[r].status \in JitStatus \cup {"None"} /\ requests[r].revokeRunId \in 0..MaxRuns
    BY <1>1 DEF Request
  <2>3. requests' \in [RequestIds -> Request]
    <3>1. None \in 0..MaxRuns
      BY JitBoundsAssumption DEF None
    <3>2. \A r \in RequestIds : \E s \in JitStatus \cup {"None"}, v \in 0..MaxRuns :
             requests'[r] = [requests[r] EXCEPT !.status = s, !.revokeRunId = v]
      BY <1>3, <2>2, <3>1 DEF MaintainSave, JitStatus
    <3>3. requests' = [r \in RequestIds |-> requests'[r]]
      BY <1>3 DEF MaintainSave
    <3>4. \A r \in RequestIds : requests'[r] \in Request
      <4> SUFFICES ASSUME NEW r \in RequestIds
                   PROVE  requests'[r] \in Request
        OBVIOUS
      <4>1. PICK s \in JitStatus \cup {"None"}, v \in 0..MaxRuns :
               requests'[r] = [requests[r] EXCEPT !.status = s, !.revokeRunId = v]
        BY <3>2
      <4>2. [requests[r] EXCEPT !.status = s, !.revokeRunId = v] \in Request
        BY <2>1
      <4> QED BY <4>1, <4>2
    <3> QED BY <3>3, <3>4
  <2> QED BY <1>1, <1>3, <2>3, RowTypes DEF MaintainSave, Become, TypeOK, execution
<1> QED BY <1>2, <1>3

LEMMA EnvironmentType ==
    ASSUME TypeOK, Environment
    PROVE  TypeOK'
<1>1. NoMember \in [by : 0..MaxRequests, until : Dates] /\ Script("none") \in ScriptState
  BY JitBoundsAssumption DEF NoMember, Script, ScriptState, None, Dates
<1>2. CASE Tick
  <2>1. now' \in Times
    BY <1>2, JitBoundsAssumption DEF Tick, TypeOK, Times
  <2>2. members' \in [Targets -> [by : 0..MaxRequests, until : Dates]]
    BY <1>1, <1>2 DEF Tick, TypeOK
  <2> QED BY <1>2, <2>1, <2>2 DEF Tick, TypeOK, tables
<1>3. CASE Crash
  <2>1. faults' \in [crash : 0..MaxCrash, fail : 0..MaxFail]
    BY <1>3, JitBoundsAssumption DEF Crash, TypeOK
  <2>2. worker' \in WorkerType /\ proc' \in [Procs -> ProcType]
    BY <1>3, RowTypes, WorkerAtType DEF Crash, WorkerPc
  <2> QED BY <1>3, <2>1, <2>2 DEF Crash, TypeOK, tables
<1>4. CASE Restart
  BY <1>4, WorkerAtType DEF Restart, WorkerPc, TypeOK, tables
<1>5. ASSUME NEW run \in RunIds, OrphanEnds(run)
      PROVE  TypeOK'
  BY <1>1, <1>5 DEF OrphanEnds, TypeOK, tables
<1>6. CASE Rest
  BY <1>6 DEF Rest, vars, TypeOK
<1> QED BY <1>2, <1>3, <1>4, <1>5, <1>6 DEF Environment

LEMMA TypeStep == IInv /\ [Next]_vars => TypeOK'
<1> SUFFICES ASSUME IInv, [Next]_vars
             PROVE  TypeOK'
  OBVIOUS
<1>1. CASE UNCHANGED vars
  BY <1>1 DEF vars, IInv, TypeOK
<1> QED BY <1>1, RequestType, HandlerStepType, WorkerStepType, ScriptStepType, MaintenanceType, EnvironmentType
        DEF Next, IInv, GrantInv, Procs

-----------------------------------------------------------------------------
(* What a step may do to a request that exists. *)

Kept(a, b) ==
    /\ b.by = a.by /\ b.target = a.target
    /\ b.approvalRequired = a.approvalRequired /\ b.approvalExpires = a.approvalExpires
    /\ a.status # "None" => b.status # "None"
    /\ a.status \notin Undecided =>
          /\ b.status \notin Undecided
          /\ a.approvalRequired => b.decidedBy = a.decidedBy /\ b.decidedAt = a.decidedAt

\* A step that stores no new request keeps all of them, and what is no request yet.
AllKept ==
    \A r \in RequestIds : /\ requests[r].status # "None" => Kept(requests[r], requests'[r])
                          /\ requests[r].status = "None" => requests'[r] = requests[r]

LEMMA KeptFacts ==
    /\ \A a : Kept(a, a)
    /\ \A a, b : Kept(a, b) /\ Granted(a) => Granted(b)
    /\ \A h, rows, next :
          ProcOk(h, rows) /\ (\A r \in RequestIds : rows[r].status # "None" => Kept(rows[r], next[r]))
             => ProcOk(h, next)
BY DEF Kept, Granted, ProcOk, Undecided, WithRow

\* Assignments to a status and to the columns about the runs.
LEMMA OtherColumns ==
    ASSUME NEW a \in Request
    PROVE  /\ \A s \in JitEnds \cup {"Active"} : Kept(a, [a EXCEPT !.status = s])
           /\ \A d : Kept(a, [a EXCEPT !.status = "Active", !.expiresAt = d])
           /\ \A v : Kept(a, [a EXCEPT !.runId = v])
           /\ \A v : Kept(a, [a EXCEPT !.revokeRunId = v])
           /\ \A s \in JitEnds : \A v : Kept(a, [a EXCEPT !.status = s, !.revokeRunId = v])
           /\ \A v : Kept(a, [a EXCEPT !.status = a.status, !.revokeRunId = v])
BY DEF Kept, Request, Undecided, JitEnds

\* Writes of a decision: to a request that waits, or to one that needs none.
LEMMA DecisionColumns ==
    ASSUME NEW a \in Request, NEW s \in {"Approved", "Rejected"}, NEW u, NEW t
    PROVE  /\ a.status = "Pending" => Kept(a, [a EXCEPT !.status = s, !.decidedBy = u, !.decidedAt = t])
           /\ ~a.approvalRequired => Kept(a, [a EXCEPT !.status = s, !.decidedAt = t])
BY DEF Kept, Request, Undecided

LEMMA OneRowKept ==
    ASSUME TypeOK, NEW r \in RequestIds, requests[r].status # "None", NEW b, Kept(requests[r], b),
           requests' = [requests EXCEPT ![r] = b]
    PROVE  AllKept
BY KeptFacts DEF AllKept, TypeOK

\* No step of any actor changes who asked for what under which deadline, or undoes a decision.
LEMMA RequestsKept ==
    ASSUME IInv, [Next]_vars, \A p \in Procs : ~Store(p)
    PROVE  AllKept
<1>1. TypeOK /\ requests \in [RequestIds -> Request] /\ proc \in [Procs -> ProcType]
  BY DEF IInv, TypeOK
<1>2. CASE requests' = requests
  BY <1>2, KeptFacts DEF AllKept
<1>3. ASSUME NEW p \in Procs, HandlerStep(p) \/ HandlerRequest(p)
      PROVE  AllKept
  <2>1. proc[p].pc \in WithRow => /\ proc[p].id \in RequestIds /\ requests[proc[p].id] \in Request
                                  /\ requests[proc[p].id].status # "None"
    BY <1>1 DEF IInv, GrantInv, ProcInv, ProcOk
  <2>3. CASE AutoApprove(p)
    <3>1. /\ proc[p].id \in RequestIds /\ ~requests[proc[p].id].approvalRequired
          /\ requests[proc[p].id] \in Request /\ requests[proc[p].id].status # "None"
      BY <2>1, <2>3 DEF AutoApprove, WithRow, IInv, GrantInv, ProcInv, ProcOk
    <3>2. requests' = [requests EXCEPT ![proc[p].id] =
                         [requests[proc[p].id] EXCEPT !.status = "Approved", !.decidedAt = now]]
      BY <1>1, <2>3, <3>1 DEF AutoApprove
    <3> QED BY <1>1, <3>1, <3>2, DecisionColumns, OneRowKept, ZenonT(60)
  <2>4. CASE SaveDecision(p)
    <3>1. /\ proc[p].id \in RequestIds /\ proc[p].row.status \in {"Approved", "Rejected"}
          /\ requests[proc[p].id] \in Request /\ requests[proc[p].id].status # "None"
      BY <2>1, <2>4 DEF SaveDecision, WithRow, IInv, GrantInv, ProcInv, ProcOk
    <3>2. \/ requests' = requests
          \/ /\ requests[proc[p].id].status = "Pending"
             /\ requests' = [requests EXCEPT ![proc[p].id] =
                   [requests[proc[p].id] EXCEPT !.status = proc[p].row.status,
                      !.decidedBy = proc[p].row.decidedBy, !.decidedAt = proc[p].row.decidedAt]]
      BY <1>1, <2>4, <3>1 DEF SaveDecision
    <3>3. requests[proc[p].id].status = "Pending" =>
             Kept(requests[proc[p].id], [requests[proc[p].id] EXCEPT !.status = proc[p].row.status,
                      !.decidedBy = proc[p].row.decidedBy, !.decidedAt = proc[p].row.decidedAt])
      BY <3>1, DecisionColumns
    <3> QED BY <1>1, <1>2, <3>1, <3>2, <3>3, OneRowKept
  <2>5. CASE ExpireApproval(p)
    <3>1. proc[p].id \in RequestIds /\ requests[proc[p].id] \in Request /\ requests[proc[p].id].status # "None"
      BY <2>1, <2>5 DEF ExpireApproval, WithRow
    <3>2. requests' = requests
          \/ requests' = [requests EXCEPT ![proc[p].id] = [requests[proc[p].id] EXCEPT !.status = "Rejected"]]
      BY <2>5 DEF ExpireApproval
    <3>3. Kept(requests[proc[p].id], [requests[proc[p].id] EXCEPT !.status = "Rejected"])
      BY <3>1, OtherColumns DEF JitEnds
    <3> QED BY <1>1, <1>2, <3>1, <3>2, <3>3, OneRowKept
  <2>6. CASE LinkRun(p)
    <3>1. proc[p].id \in RequestIds /\ requests[proc[p].id] \in Request /\ requests[proc[p].id].status # "None"
      BY <2>1, <2>6 DEF LinkRun, WithRow
    <3>2. \/ requests' = [requests EXCEPT ![proc[p].id] = [requests[proc[p].id] EXCEPT !.runId = proc[p].run]]
          \/ requests' = [requests EXCEPT ![proc[p].id] = [requests[proc[p].id] EXCEPT !.revokeRunId = proc[p].run]]
      BY <2>6 DEF LinkRun
    <3>3. /\ Kept(requests[proc[p].id], [requests[proc[p].id] EXCEPT !.runId = proc[p].run])
          /\ Kept(requests[proc[p].id], [requests[proc[p].id] EXCEPT !.revokeRunId = proc[p].run])
      BY <3>1, OtherColumns
    <3> QED BY <1>1, <3>1, <3>2, <3>3, OneRowKept
  <2>7. ASSUME NEW r \in RequestIds, Withdraw(p, r)
        PROVE  AllKept
    <3>1. /\ requests' = [requests EXCEPT ![r] = [requests[r] EXCEPT !.status = "Cancelled"]]
          /\ requests[r].status # "None"
      BY <2>7 DEF Withdraw
    <3>2. Kept(requests[r], [requests[r] EXCEPT !.status = "Cancelled"])
      BY <1>1, OtherColumns DEF JitEnds
    <3> QED BY <1>1, <3>1, <3>2, OneRowKept
  <2> QED BY <1>2, <1>3, <2>3, <2>4, <2>5, <2>6, <2>7 DEF HandlerStep, HandlerRequest, InsertRun,
             Create, Decide, Revoke, CancelRun, tables
<1>4. CASE CompleteSave
  <2> DEFINE r == runs[worker.run].request
  <2>1. r \in RequestIds /\ requests[r] \in Request /\ requests[r].status # "None"
    BY <1>1, <1>4 DEF CompleteSave, Busy, Ended, Run, IInv, GrantInv, WorkerInv, RunInv, Claimed, Granted,
       Undecided, TypeOK
  <2>2. \/ requests' = requests
        \/ requests' = [requests EXCEPT ![r] = [requests[r] EXCEPT !.status = "Active", !.expiresAt = worker.until]]
        \/ \E s \in {"Failed", "Revoked"} : requests' = [requests EXCEPT ![r] = [requests[r] EXCEPT !.status = s]]
        \/ requests' = [requests EXCEPT ![r] = [requests[r] EXCEPT !.revokeRunId = None]]
    BY <1>1, <1>4, <2>1 DEF CompleteSave
  <2> HIDE DEF r
  <2>3. /\ Kept(requests[r], [requests[r] EXCEPT !.status = "Active", !.expiresAt = worker.until])
        /\ Kept(requests[r], [requests[r] EXCEPT !.revokeRunId = None])
        /\ \A s \in {"Failed", "Revoked"} : Kept(requests[r], [requests[r] EXCEPT !.status = s])
    BY <2>1, OtherColumns DEF JitEnds
  <2> QED BY <1>1, <1>2, <2>1, <2>2, <2>3, OneRowKept
<1>5. CASE MaintainSave
  <2>1. \A r \in RequestIds : \E v :
           \/ \E s \in JitEnds : requests'[r] = [requests[r] EXCEPT !.status = s, !.revokeRunId = v]
           \/ requests'[r] = [requests[r] EXCEPT !.status = requests[r].status, !.revokeRunId = v]
    BY <1>1, <1>5 DEF MaintainSave, JitEnds
  <2> SUFFICES ASSUME NEW r \in RequestIds
               PROVE  /\ Kept(requests[r], requests'[r])
                      /\ requests[r].status = "None" => requests'[r] = requests[r]
    BY DEF AllKept
  <2>2. PICK v :
           \/ \E s \in JitEnds : requests'[r] = [requests[r] EXCEPT !.status = s, !.revokeRunId = v]
           \/ requests'[r] = [requests[r] EXCEPT !.status = requests[r].status, !.revokeRunId = v]
    BY <2>1
  <2>3. /\ \A s \in JitEnds : Kept(requests[r], [requests[r] EXCEPT !.status = s, !.revokeRunId = v])
        /\ Kept(requests[r], [requests[r] EXCEPT !.status = requests[r].status, !.revokeRunId = v])
    BY <1>1, OtherColumns
  <2>4. requests[r].status = "None" => requests'[r] = requests[r]
    <3>1. ASSUME requests[r].status = "None"
          PROVE  r \notin proc[Maintainer].sets.expired \cup proc[Maintainer].sets.overdue
                       \cup proc[Maintainer].sets.stuck \cup proc[Maintainer].sets.stuckRevoke
      BY <1>5, <3>1 DEF MaintainSave, IInv, GrantInv, ProcInv, ProcOk, Procs
    <3>2. requests[r].status = "None" =>
            requests'[r] = [requests[r] EXCEPT !.status = requests[r].status, !.revokeRunId = requests[r].revokeRunId]
      BY <1>1, <1>5, <3>1 DEF MaintainSave
    <3>3. requests[r] = [requests[r] EXCEPT !.status = requests[r].status, !.revokeRunId = requests[r].revokeRunId]
      BY <1>1 DEF Request
    <3> QED BY <3>2, <3>3
  <2> QED BY <2>2, <2>3, <2>4
<1> QED BY <1>2, <1>3, <1>4, <1>5 DEF Next, WorkerStep, Recover, Claim, ScriptExits, ScriptKilled, SaveResult,
           CompleteRead, CompleteFails, ScriptStep, ScriptGrants, ScriptRevokes, ScriptFails, MaintainRead,
           Environment, Tick, Crash, Restart, OrphanEnds, Rest, vars, tables, Procs

\* A new request is stored under an id nothing refers to yet.
LEMMA StoreStep ==
    ASSUME IInv, NEW p \in Procs, Store(p)
    PROVE  LET n == lastRequest + 1
           IN  /\ n \in RequestIds /\ lastRequest' = n /\ lastRequest \in Nat
               /\ requests[n].status = "None" /\ requests'[n] = proc[p].row
               /\ \A r \in RequestIds : r # n => requests'[r] = requests[r]
<1>1. /\ lastRequest \in 0..MaxRequests /\ lastRequest < MaxRequests
      /\ requests \in [RequestIds -> Request]
  BY DEF Store, IInv, TypeOK
<1>2. lastRequest + 1 \in RequestIds /\ lastRequest + 1 > lastRequest
  BY <1>1, JitBoundsAssumption DEF RequestIds
<1>3. requests[lastRequest + 1].status = "None"
  BY <1>2 DEF IInv, GrantInv, RequestInv
<1> QED BY <1>1, <1>2, <1>3 DEF Store

LEMMA ExistingKept ==
    ASSUME IInv, [Next]_vars
    PROVE  \A r \in RequestIds : requests[r].status # "None" => Kept(requests[r], requests'[r])
<1>1. CASE \A p \in Procs : ~Store(p)
  BY <1>1, RequestsKept DEF AllKept
<1>2. ASSUME NEW p \in Procs, Store(p)
      PROVE  \A r \in RequestIds : requests[r].status # "None" => Kept(requests[r], requests'[r])
  BY <1>2, StoreStep, KeptFacts
<1> QED BY <1>1, <1>2

-----------------------------------------------------------------------------
(* What a step may do to a run. *)

RunKept(a, b) ==
    /\ b.action = a.action /\ b.request = a.request
    /\ a.status = "None" <=> b.status = "None"
    /\ b.status = "Queued" => a.status = "Queued"

AllRunsKept == lastRun' = lastRun /\ \A run \in RunIds : RunKept(runs[run], runs'[run])

LEMMA RunsKept ==
    ASSUME IInv, [Next]_vars, \A p \in Procs : ~InsertRun(p)
    PROVE  AllRunsKept
<1>1. runs \in [RunIds -> Run]
  BY DEF IInv, TypeOK
<1>2. \A a \in Run : /\ RunKept(a, a)
                     /\ a.status # "None" => \A s \in RunStatus \ {"None", "Queued"} : RunKept(a, [a EXCEPT !.status = s])
  BY DEF RunKept, Run
<1>3. ASSUME NEW run \in RunIds, runs[run].status # "None", NEW s \in RunStatus \ {"None", "Queued"},
             runs' = [runs EXCEPT ![run].status = s], lastRun' = lastRun
      PROVE  AllRunsKept
  <2>1. \A q \in RunIds : runs'[q] = IF q = run THEN [runs[q] EXCEPT !.status = s] ELSE runs[q]
    BY <1>1, <1>3
  <2>2. RunKept(runs[run], [runs[run] EXCEPT !.status = s])
    BY <1>1, <1>2, <1>3
  <2> QED BY <1>1, <1>2, <1>3, <2>1, <2>2 DEF AllRunsKept
<1>4. CASE UNCHANGED <<runs, lastRun>>
  BY <1>1, <1>2, <1>4 DEF AllRunsKept
<1>5. ASSUME NEW p \in Handlers, HandlerRequest(p) \/ HandlerStep(p)
      PROVE  AllRunsKept
  <2>1. ASSUME NEW run \in RunIds, CancelRun(p, run)
        PROVE  AllRunsKept
    BY <1>3, <2>1 DEF CancelRun, RunStatus
  <2> QED BY <1>4, <1>5, <2>1 DEF HandlerRequest, HandlerStep, Create, Decide, Withdraw, Revoke, Store, AutoApprove,
             SaveDecision, ExpireApproval, LinkRun, Procs, tables
<1>6. CASE WorkerStep
  <2>1. CASE Recover
    <3>1. lastRun' = lastRun /\ \A run \in RunIds : runs'[run] = runs[run]
             \/ (runs[run].status = "Running" /\ runs'[run] = [runs[run] EXCEPT !.status = "Failed"])
      BY <1>1, <2>1 DEF Recover
    <3>2. \A run \in RunIds : runs[run].status = "Running" => RunKept(runs[run], [runs[run] EXCEPT !.status = "Failed"])
      BY <1>1, <1>2 DEF RunStatus
    <3> QED BY <1>1, <1>2, <3>1, <3>2 DEF AllRunsKept
  <2>2. ASSUME NEW run \in RunIds, Claim(run)
        PROVE  AllRunsKept
    BY <1>3, <2>2 DEF Claim, RunStatus
  <2>3. CASE SaveResult
    <3>1. /\ worker.run \in RunIds /\ runs[worker.run].status # "None"
          /\ worker.result \in RunStatus \ {"None", "Queued"}
      BY <2>3 DEF SaveResult, IInv, GrantInv, WorkerInv, Busy, Ended, Claimed, RunStatus
    <3> QED BY <1>3, <2>3, <3>1 DEF SaveResult
  <2> QED BY <1>4, <1>6, <2>1, <2>2, <2>3 DEF WorkerStep, ScriptExits, ScriptKilled, CompleteRead, CompleteSave,
             CompleteFails, tables
<1>7. CASE MaintainRead \/ MaintainSave \/ (\E run \in RunIds : ScriptStep(run)) \/ Environment \/ UNCHANGED vars
  BY <1>4, <1>7 DEF MaintainRead, MaintainSave, ScriptStep, ScriptGrants, ScriptRevokes, ScriptFails, Environment,
     Tick, Crash, Restart, OrphanEnds, Rest, vars, tables
<1> QED BY <1>5, <1>6, <1>7 DEF Next

LEMMA InsertRunStep ==
    ASSUME IInv, NEW p \in Procs, InsertRun(p)
    PROVE  LET n == lastRun + 1
           IN  /\ n \in RunIds /\ lastRun' = n /\ lastRun \in Nat /\ runs[n].status = "None"
               /\ runs'[n] = [status |-> "Queued", action |-> proc[p].action, request |-> proc[p].id]
               /\ \A run \in RunIds : run # n => runs'[run] = runs[run]
<1>1. lastRun \in 0..MaxRuns /\ lastRun < MaxRuns /\ runs \in [RunIds -> Run]
  BY DEF InsertRun, IInv, TypeOK
<1>2. lastRun + 1 \in RunIds /\ lastRun + 1 > lastRun
  BY <1>1, JitBoundsAssumption DEF RunIds
<1>3. runs[lastRun + 1].status = "None"
  BY <1>2 DEF IInv, GrantInv, RunInv
<1> QED BY <1>1, <1>2, <1>3 DEF InsertRun

LEMMA ExistingRunsKept ==
    ASSUME IInv, [Next]_vars
    PROVE  \A run \in RunIds : runs[run].status # "None" => RunKept(runs[run], runs'[run])
<1>1. CASE \A p \in Procs : ~InsertRun(p)
  BY <1>1, RunsKept DEF AllRunsKept
<1>2. ASSUME NEW p \in Procs, InsertRun(p)
      PROVE  \A run \in RunIds : runs[run].status # "None" => RunKept(runs[run], runs'[run])
  BY <1>2, InsertRunStep DEF RunKept
<1> QED BY <1>1, <1>2

-----------------------------------------------------------------------------
(* Types and approvals: every part of the invariant is kept. *)

LEMMA LastRequestKept ==
    ASSUME [Next]_vars, \A p \in Procs : ~Store(p)
    PROVE  lastRequest' = lastRequest
BY DEF Next, HandlerRequest, HandlerStep, Create, Decide, Withdraw, Revoke, CancelRun, AutoApprove, SaveDecision,
       ExpireApproval, InsertRun, LinkRun, MaintainRead, MaintainSave, WorkerStep, Recover, Claim, ScriptExits,
       ScriptKilled, SaveResult, CompleteRead, CompleteSave, CompleteFails, ScriptStep, ScriptGrants, ScriptRevokes,
       ScriptFails, Environment, Tick, Crash, Restart, OrphanEnds, Rest, vars, tables, Procs

\* Only the completion of a run and the maintenance activate, revoke or expire a request.
LEMMA OutcomeKept ==
    ASSUME IInv, [Next]_vars, ~CompleteSave, ~MaintainSave, NEW r \in RequestIds,
           requests'[r].status \in {"Active", "Expired", "Revoked"}
    PROVE  requests[r].status = requests'[r].status /\ requests[r].expiresAt = requests'[r].expiresAt
<1>1. requests \in [RequestIds -> Request] /\ proc \in [Procs -> ProcType]
  BY DEF IInv, TypeOK
<1>2. CASE requests' = requests
  BY <1>2
<1>3. ASSUME NEW p \in Procs, HandlerStep(p)
      PROVE  requests[r].status = requests'[r].status /\ requests[r].expiresAt = requests'[r].expiresAt
  <2>1. proc[p].pc = "decide" => proc[p].row.status \in {"Approved", "Rejected"}
    BY DEF IInv, GrantInv, ProcInv, ProcOk
  <2>2. proc[p].pc = "store" => proc[p].row.status = "Pending"
    BY DEF IInv, GrantInv, ProcInv, ProcOk
  <2>3. CASE Store(p)
    BY <2>2, <2>3, StoreStep DEF Store
  <2>4. CASE AutoApprove(p)
    BY <1>1, <2>4 DEF AutoApprove
  <2>5. CASE SaveDecision(p)
    <3>1. requests' = requests
          \/ requests' = [requests EXCEPT ![proc[p].id] =
                [requests[proc[p].id] EXCEPT !.status = proc[p].row.status,
                    !.decidedBy = proc[p].row.decidedBy, !.decidedAt = proc[p].row.decidedAt]]
      BY <1>1, <2>5 DEF SaveDecision
    <3>2. r # proc[p].id => requests'[r] = requests[r]
      BY <1>1, <3>1
    <3>3. r = proc[p].id => requests'[r] = requests[r] \/ requests'[r].status = proc[p].row.status
      BY <1>1, <3>1 DEF Request
    <3> QED BY <2>1, <2>5, <3>2, <3>3 DEF SaveDecision
  <2>6. CASE ExpireApproval(p)
    BY <1>1, <2>6 DEF ExpireApproval
  <2>7. CASE LinkRun(p)
    BY <1>1, <2>7 DEF LinkRun
  <2> QED BY <1>2, <1>3, <2>3, <2>4, <2>5, <2>6, <2>7 DEF HandlerStep, InsertRun
<1>4. ASSUME NEW p \in Procs, HandlerRequest(p)
      PROVE  requests[r].status = requests'[r].status /\ requests[r].expiresAt = requests'[r].expiresAt
  <2>1. ASSUME NEW q \in RequestIds, Withdraw(p, q)
        PROVE  requests[r].status = requests'[r].status /\ requests[r].expiresAt = requests'[r].expiresAt
    BY <1>1, <2>1 DEF Withdraw
  <2> QED BY <1>2, <1>4, <2>1 DEF HandlerRequest, Create, Decide, Revoke, CancelRun, tables
<1> QED BY <1>2, <1>3, <1>4 DEF Next, WorkerStep, Recover, Claim, ScriptExits, ScriptKilled, SaveResult,
           CompleteRead, CompleteFails, ScriptStep, ScriptGrants, ScriptRevokes, ScriptFails, MaintainRead,
           Environment, Tick, Crash, Restart, OrphanEnds, Rest, vars, tables, Procs

LEMMA RequestInvStep == IInv /\ [Next]_vars => RequestInv'
<1> SUFFICES ASSUME IInv, [Next]_vars
             PROVE  RequestInv'
  OBVIOUS
<1>1. /\ requests \in [RequestIds -> Request] /\ runs \in [RunIds -> Run]
      /\ \A r \in RequestIds : r > lastRequest => requests[r].status = "None"
      /\ \A r \in RequestIds : requests[r].status = "Active" => Granted(requests[r])
      /\ \A r \in RequestIds : requests[r].approvalRequired => requests[r].approvalExpires # None
  BY DEF IInv, TypeOK, GrantInv, RequestInv
<1>2. /\ \A r \in RequestIds : r > lastRequest' => requests'[r].status = "None"
      /\ \A r \in RequestIds : requests'[r].approvalRequired => requests'[r].approvalExpires # None
  <2>1. CASE \A p \in Procs : ~Store(p)
    BY <1>1, <2>1, LastRequestKept, RequestsKept DEF AllKept, Kept
  <2>2. ASSUME NEW p \in Procs, Store(p)
        PROVE  /\ \A r \in RequestIds : r > lastRequest' => requests'[r].status = "None"
               /\ \A r \in RequestIds : requests'[r].approvalRequired => requests'[r].approvalExpires # None
    <3>1. proc[p].row.approvalRequired => proc[p].row.approvalExpires # None
      BY <2>2 DEF Store, IInv, GrantInv, ProcInv, ProcOk
    <3>2. RequestIds \subseteq Nat
      BY DEF RequestIds
    <3> QED BY <1>1, <2>2, <3>1, <3>2, StoreStep
  <2> QED BY <2>1, <2>2
<1>3. ASSUME NEW r \in RequestIds, requests'[r].status = "Active"
      PROVE  Granted(requests'[r])
  <2>1. requests[r].status # "None" /\ Granted(requests[r])
    <3>1. CASE ~CompleteSave /\ ~MaintainSave
      BY <1>1, <1>3, <3>1, OutcomeKept
    <3>2. CASE CompleteSave
      <4>1. worker.run \in RunIds /\ runs[worker.run].status # "None"
        BY <3>2 DEF CompleteSave, IInv, GrantInv, WorkerInv, Busy, Ended, Claimed
      <4>2. Granted(requests[runs[worker.run].request])
        BY <4>1 DEF IInv, GrantInv, RunInv
      <4>3. r = runs[worker.run].request \/ requests[r].status = "Active"
        BY <1>1, <1>3, <3>2 DEF CompleteSave
      <4> QED BY <1>1, <4>2, <4>3 DEF Granted, Undecided
    <3>3. CASE MaintainSave
      <4>1. requests'[r].status \in {"Expired", "Rejected", "Failed", requests[r].status}
        BY <1>1, <3>3 DEF MaintainSave, Request
      <4> QED BY <1>1, <1>3, <4>1
    <3> QED BY <1>1, <3>1, <3>2, <3>3
  <2> QED BY <2>1, ExistingKept, KeptFacts
<1> QED BY <1>2, <1>3 DEF RequestInv

LEMMA ProcInvStep == IInv /\ [Next]_vars => ProcInv'
<1> SUFFICES ASSUME IInv, [Next]_vars
             PROVE  ProcInv'
  OBVIOUS
<1> USE RowTypes
<1>1. /\ requests \in [RequestIds -> Request] /\ proc \in [Procs -> ProcType] /\ now \in Times
      /\ \A q \in Procs : ProcOk(proc[q], requests)
      /\ RequestInv
  BY DEF IInv, TypeOK, GrantInv, ProcInv
<1>2. \A q \in Procs : ProcOk(proc[q], requests')
  BY <1>1, ExistingKept, KeptFacts
<1>3. ProcOk(Idle, requests')
  BY DEF ProcOk, WithRow
<1>4. CASE proc' = proc
  BY <1>2, <1>4 DEF ProcInv
<1>5. ASSUME NEW p \in Procs, NEW h, ProcOk(h, requests'), Become(p, h)
      PROVE  ProcInv'
  BY <1>1, <1>2, <1>5 DEF ProcInv, Become
<1>6. ASSUME NEW p \in Handlers, HandlerRequest(p)
      PROVE  ProcInv'
  <2>0. p \in Procs
    BY DEF Procs
  <2>1. ASSUME NEW u \in People, NEW t \in Targets, NEW a \in ApprovalSettings, Create(p, u, t, a)
        PROVE  ProcInv'
    <3> DEFINE row == [NoRequest EXCEPT !.status = "Pending", !.by = u, !.target = t,
                                        !.approvalRequired = a, !.approvalExpires = Deadline(a)]
               h == [Idle EXCEPT !.pc = "store", !.row = row]
    <3>1. row.status = "Pending" /\ (row.approvalRequired => row.approvalExpires # None)
      BY <1>1, DateFacts DEF Request, Deadline
    <3>2. h.pc = "store" /\ h.row = row
      BY DEF ProcType
    <3>3. ProcOk(h, requests')
      BY <3>1, <3>2 DEF ProcOk, WithRow
    <3>4. Become(p, h)
      BY <2>1 DEF Create
    <3> HIDE DEF h
    <3> QED BY <1>5, <2>0, <3>3, <3>4
  <2>2. ASSUME NEW u \in People, NEW r \in RequestIds, NEW approve \in BOOLEAN, Decide(p, u, r, approve)
        PROVE  ProcInv'
    <3> DEFINE row == [requests[r] EXCEPT !.status = IF approve THEN "Approved" ELSE "Rejected",
                                          !.decidedBy = u, !.decidedAt = now]
               late == [Idle EXCEPT !.pc = "overdue", !.id = r]
               h == [Idle EXCEPT !.pc = "decide", !.id = r, !.row = row]
    <3>1. requests' = requests /\ requests[r].status = "Pending" /\ u \notin {NoOne, requests[r].by}
      BY <2>2, JitNamesAssumption DEF Decide, SecondPerson, tables
    <3>2. late.pc = "overdue" /\ late.id = r
      BY DEF ProcType
    <3>3. ProcOk(late, requests')
      BY <3>1, <3>2 DEF ProcOk, WithRow
    <3>4. row.status \in {"Approved", "Rejected"} /\ row.decidedBy = u /\ row.decidedAt = now
      BY <1>1 DEF Request
    <3>5. h.pc = "decide" /\ h.id = r /\ h.row = row
      BY DEF ProcType
    <3>6. ~ApprovalOverdue(r) /\ requests[r].approvalRequired => now < requests[r].approvalExpires
      BY <1>1, DateFacts DEF RequestInv, ApprovalOverdue, Request
    <3> HIDE DEF row
    <3>7. ~ApprovalOverdue(r) => ProcOk(h, requests')
      BY <3>1, <3>4, <3>5, <3>6 DEF ProcOk, WithRow
    <3>8. IF ApprovalOverdue(r) THEN Become(p, late) ELSE Become(p, h)
      BY <2>2 DEF Decide, Become, row
    <3> HIDE DEF h, late
    <3> QED BY <1>5, <2>0, <3>3, <3>7, <3>8
  <2>3. ASSUME NEW r \in RequestIds, Revoke(p, r)
        PROVE  ProcInv'
    <3> DEFINE h == [Idle EXCEPT !.pc = "insertRun", !.id = r, !.action = "Revoke"]
    <3>1. h.pc = "insertRun" /\ h.id = r
      BY DEF ProcType
    <3>2. requests' = requests /\ Granted(requests[r])
      BY <1>1, <2>3 DEF Revoke, Revocable, RequestInv, tables
    <3>3. Become(p, h)
      BY <2>3 DEF Revoke
    <3> HIDE DEF h
    <3>4. ProcOk(h, requests')
      BY <3>1, <3>2 DEF ProcOk, WithRow, Granted, Undecided
    <3> QED BY <1>5, <2>0, <3>3, <3>4
  <2> QED BY <1>4, <1>6, <2>1, <2>2, <2>3 DEF HandlerRequest, Withdraw, CancelRun
<1>7. ASSUME NEW p \in Handlers, HandlerStep(p)
      PROVE  ProcInv'
  <2>0. p \in Procs /\ proc[p] \in ProcType /\ ProcOk(proc[p], requests)
    BY <1>1 DEF Procs
  <2>1. ASSUME Become(p, Idle)
        PROVE  ProcInv'
    BY <1>3, <1>5, <2>0, <2>1
  <2>2. CASE Store(p)
    <3> DEFINE h == [Idle EXCEPT !.pc = "autoApprove", !.id = lastRequest + 1]
    <3>1. h.pc = "autoApprove" /\ h.id = lastRequest + 1
      BY DEF ProcType
    <3>2. /\ lastRequest + 1 \in RequestIds /\ requests'[lastRequest + 1] = proc[p].row
          /\ proc[p].row.status = "Pending"
      BY <2>0, <2>2, StoreStep DEF Store, ProcOk
    <3>3. Become(p, Idle) \/ (~proc[p].row.approvalRequired /\ Become(p, h))
      BY <2>2 DEF Store, Become
    <3> HIDE DEF h
    <3>4. ~proc[p].row.approvalRequired => ProcOk(h, requests')
      BY <3>1, <3>2 DEF ProcOk, WithRow
    <3> QED BY <1>5, <2>0, <2>1, <3>3, <3>4
  <2>3. CASE AutoApprove(p)
    <3> DEFINE h == [proc[p] EXCEPT !.pc = "insertRun"]
    <3>1. h.pc = "insertRun" /\ h.id = proc[p].id
      BY <2>0 DEF ProcType
    <3>2. proc[p].id \in RequestIds /\ ~requests[proc[p].id].approvalRequired
      BY <2>0, <2>3 DEF AutoApprove, ProcOk, WithRow
    <3>3. requests'[proc[p].id].status = "Approved" /\ ~requests'[proc[p].id].approvalRequired
      BY <1>1, <2>3, <3>2 DEF AutoApprove, Request
    <3>4. Become(p, h)
      BY <2>3 DEF AutoApprove
    <3> HIDE DEF h
    <3>5. ProcOk(h, requests')
      BY <3>1, <3>2, <3>3 DEF ProcOk, WithRow, Granted, Undecided
    <3> QED BY <1>5, <2>0, <3>4, <3>5
  <2>4. CASE SaveDecision(p)
    <3> DEFINE h == [Idle EXCEPT !.pc = "insertRun", !.id = proc[p].id]
               r == proc[p].id
    <3>1. h.pc = "insertRun" /\ h.id = proc[p].id
      BY DEF ProcType
    <3>2. /\ r \in RequestIds /\ requests[r] \in Request
          /\ proc[p].row.decidedBy \notin {NoOne, requests[r].by}
          /\ requests[r].approvalRequired => proc[p].row.decidedAt < requests[r].approvalExpires
      BY <1>1, <2>0, <2>4 DEF SaveDecision, ProcOk, WithRow
    <3>3. \/ Become(p, Idle)
          \/ /\ requests' = [requests EXCEPT ![r] = [requests[r] EXCEPT !.status = "Approved",
                                !.decidedBy = proc[p].row.decidedBy, !.decidedAt = proc[p].row.decidedAt]]
             /\ Become(p, h)
      BY <1>1, <2>4, <3>2 DEF SaveDecision, Become
    <3>4. ASSUME requests' = [requests EXCEPT ![r] = [requests[r] EXCEPT !.status = "Approved",
                                !.decidedBy = proc[p].row.decidedBy, !.decidedAt = proc[p].row.decidedAt]]
          PROVE  Granted(requests'[r]) /\ requests'[r].status # "None"
      BY <1>1, <3>2, <3>4 DEF Request, Granted, Undecided
    <3> HIDE DEF h, r
    <3>5. Granted(requests'[r]) /\ requests'[r].status # "None" => ProcOk(h, requests')
      BY <3>1, <3>2 DEF ProcOk, WithRow, r
    <3> QED BY <1>5, <2>0, <2>1, <3>3, <3>4, <3>5
  <2>5. CASE InsertRun(p)
    <3> DEFINE h == [proc[p] EXCEPT !.pc = "linkRun", !.run = lastRun + 1]
    <3>1. h.pc = "linkRun" /\ h.id = proc[p].id
      BY <2>0 DEF ProcType
    <3>2. requests' = requests /\ Become(p, h) /\ proc[p].pc = "insertRun"
      BY <2>5 DEF InsertRun
    <3> HIDE DEF h
    <3>3. ProcOk(h, requests')
      BY <2>0, <3>1, <3>2 DEF ProcOk, WithRow
    <3> QED BY <1>5, <2>0, <3>2, <3>3
  <2>6. CASE ExpireApproval(p) \/ LinkRun(p)
    BY <2>1, <2>6 DEF ExpireApproval, LinkRun
  <2> QED BY <1>7, <2>2, <2>3, <2>4, <2>5, <2>6 DEF HandlerStep
<1>8. CASE MaintainRead
  <2> DEFINE sets == [expired |-> Elapsed, overdue |-> Overdue,
                 stuck |-> {r \in RequestIds :
                     requests[r].status = "Approved" /\ Unprocessed(requests[r].runId)},
                 stuckRevoke |-> {r \in RequestIds :
                     requests[r].status = "Active" /\ Unprocessed(requests[r].revokeRunId)}]
             h == [Idle EXCEPT !.pc = "maintain", !.sets = sets]
  <2>1. Maintainer \in Procs /\ Become(Maintainer, h) /\ requests' = requests
    BY <1>8 DEF MaintainRead, Procs, tables
  <2>2. h.pc = "maintain" /\ h.sets = sets
    BY DEF ProcType
  <2>3. \A r \in sets.expired \cup sets.overdue \cup sets.stuck \cup sets.stuckRevoke : requests[r].status # "None"
    BY DEF Elapsed, Overdue
  <2> HIDE DEF sets
  <2>4. ProcOk(h, requests')
    BY <2>1, <2>2, <2>3 DEF ProcOk, WithRow
  <2> HIDE DEF h
  <2> QED BY <1>5, <2>1, <2>4
<1>9. CASE MaintainSave
  BY <1>3, <1>5, <1>9 DEF MaintainSave, Procs
<1>10. CASE Crash
  BY <1>3, <1>10 DEF Crash, ProcInv
<1> QED BY <1>4, <1>6, <1>7, <1>8, <1>9, <1>10 DEF Next, WorkerStep, Recover, Claim, ScriptExits, ScriptKilled,
           SaveResult, CompleteRead, CompleteSave, CompleteFails, ScriptStep, ScriptGrants, ScriptRevokes, ScriptFails,
           Environment, Tick, Restart, OrphanEnds, Rest, vars

LEMMA RunInvStep == IInv /\ [Next]_vars => RunInv'
<1> SUFFICES ASSUME IInv, [Next]_vars
             PROVE  RunInv'
  OBVIOUS
<1>1. /\ \A run \in RunIds : run > lastRun => runs[run].status = "None"
      /\ \A run \in RunIds : runs[run].status # "None" => Granted(requests[runs[run].request])
      /\ requests \in [RequestIds -> Request] /\ runs \in [RunIds -> Run] /\ proc \in [Procs -> ProcType]
  BY DEF IInv, TypeOK, GrantInv, RunInv
<1>2. \A r \in RequestIds : Granted(requests[r]) => Granted(requests'[r])
  BY ExistingKept, KeptFacts DEF Granted, Undecided
<1>3. \A run \in RunIds : runs[run].request \in RequestIds
  BY <1>1 DEF Run
<1>4. CASE \A p \in Procs : ~InsertRun(p)
  BY <1>1, <1>2, <1>3, <1>4, RunsKept DEF RunInv, AllRunsKept, RunKept
<1>5. ASSUME NEW p \in Procs, InsertRun(p)
      PROVE  RunInv'
  <2>1. requests' = requests /\ proc[p].id \in RequestIds /\ Granted(requests[proc[p].id])
    BY <1>5 DEF InsertRun, IInv, GrantInv, ProcInv, ProcOk, WithRow
  <2>2. RunIds \subseteq Nat
    BY DEF RunIds
  <2>3. /\ lastRun \in Nat /\ lastRun' = lastRun + 1
        /\ runs'[lastRun + 1] = [status |-> "Queued", action |-> proc[p].action, request |-> proc[p].id]
        /\ \A run \in RunIds : run # lastRun + 1 => runs'[run] = runs[run]
    <3>1. LET n == lastRun + 1
          IN  /\ n \in RunIds /\ lastRun' = n /\ lastRun \in Nat /\ runs[n].status = "None"
              /\ runs'[n] = [status |-> "Queued", action |-> proc[p].action, request |-> proc[p].id]
              /\ \A run \in RunIds : run # n => runs'[run] = runs[run]
      BY <1>5, InsertRunStep
    <3> QED BY <3>1
  <2>4. \A run \in RunIds : run > lastRun' => runs'[run].status = "None"
    BY <1>1, <2>2, <2>3
  <2>5. \A run \in RunIds : runs'[run].status # "None" => Granted(requests'[runs'[run].request])
    BY <1>1, <2>1, <2>3
  <2> QED BY <2>4, <2>5 DEF RunInv
<1> QED BY <1>4, <1>5

LEMMA ClaimedKept ==
    ASSUME IInv, [Next]_vars, NEW run \in RunIds, Claimed(run)
    PROVE  Claimed(run)'
BY ExistingRunsKept DEF Claimed, RunKept

\* A script starts with the claim of its run.
LEMMA ScriptStarts ==
    ASSUME IInv, [Next]_vars, NEW run \in RunIds, script'[run].did # "none"
    PROVE  script[run].did # "none" \/ Claim(run)
<1>1. /\ script \in [RunIds -> ScriptState] /\ \A did : Script(did).did = did
      /\ worker.pc = "executing" => worker.run \in RunIds
  BY DEF IInv, TypeOK, GrantInv, WorkerInv, Busy, Script
<1>2. CASE script' = script
  BY <1>2
<1>3. CASE WorkerStep
  <2>1. ASSUME NEW q \in RunIds, Claim(q), q # run
        PROVE  script'[run] = script[run]
    BY <1>1, <2>1 DEF Claim
  <2>2. CASE ScriptExits \/ ScriptKilled
    BY <1>1, <2>2 DEF ScriptExits, ScriptKilled
  <2> QED BY <1>2, <1>3, <2>1, <2>2 DEF WorkerStep, Recover, SaveResult, CompleteRead, CompleteSave, CompleteFails
<1>4. ASSUME NEW q \in RunIds, ScriptStep(q)
      PROVE  script[run].did # "none"
  BY <1>1, <1>4 DEF ScriptStep, ScriptGrants, ScriptRevokes, ScriptFails
<1>5. ASSUME NEW q \in RunIds, OrphanEnds(q)
      PROVE  script[run].did # "none"
  BY <1>1, <1>5 DEF OrphanEnds
<1> QED BY <1>2, <1>3, <1>4, <1>5 DEF Next, HandlerRequest, HandlerStep, Create, Decide, Withdraw, Revoke, CancelRun,
           Store, AutoApprove, SaveDecision, ExpireApproval, InsertRun, LinkRun, MaintainRead, MaintainSave,
           Environment, Tick, Crash, Restart, Rest, vars, execution

LEMMA ScriptInvStep == IInv /\ [Next]_vars => ScriptInv'
<1> SUFFICES ASSUME IInv, [Next]_vars, NEW run \in RunIds, script'[run].did # "none"
             PROVE  Claimed(run)'
  BY DEF ScriptInv
<1>1. CASE script[run].did # "none"
  BY <1>1, ClaimedKept DEF IInv, GrantInv, ScriptInv
<1>2. CASE Claim(run)
  <2>1. runs'[run].status = "Running"
    BY <1>2 DEF Claim, IInv, TypeOK, Run
  <2> QED BY <2>1 DEF Claimed
<1> QED BY <1>1, <1>2, ScriptStarts

LEMMA WorkerInvStep == IInv /\ [Next]_vars => WorkerInv'
<1> SUFFICES ASSUME IInv, [Next]_vars
             PROVE  WorkerInv'
  OBVIOUS
<1>1. /\ script \in [RunIds -> ScriptState] /\ worker \in WorkerType /\ runs \in [RunIds -> Run] /\ WorkerInv
      /\ \A did : Script(did).did = did
  BY DEF IInv, TypeOK, GrantInv, Script
<1>2. \A run \in RunIds : Claimed(run) => Claimed(run)'
  BY ClaimedKept
<1>3. ASSUME UNCHANGED worker
      PROVE  WorkerInv'
  <2>1. worker.pc \in Ended => script'[worker.run].did = "none"
    BY <1>1, <1>3, ScriptStarts DEF WorkerInv, Ended, Busy, Claim
  <2> QED BY <1>1, <1>2, <1>3, <2>1 DEF WorkerInv, Ended, Busy
<1>4. ASSUME NEW pc \in {"down", "recover", "loop"}, worker' = WorkerAt(pc)
      PROVE  WorkerInv'
  BY <1>4 DEF WorkerInv, WorkerAt, Busy, Ended
<1>5. CASE WorkerStep
  <2>1. ASSUME NEW run \in RunIds, Claim(run)
        PROVE  WorkerInv'
    <3>1. worker'.pc = "executing" /\ worker'.run = run
      BY <2>1, WorkerAtType DEF Claim, WorkerPc, WorkerType
    <3>2. runs'[run].status = "Running"
      BY <1>1, <2>1 DEF Claim, Run
    <3> QED BY <3>1, <3>2 DEF WorkerInv, Claimed, Busy, Ended
  <2>2. CASE ScriptExits \/ ScriptKilled
    <3>1. worker.run \in RunIds /\ Claimed(worker.run)
      BY <1>1, <2>2 DEF ScriptExits, ScriptKilled, WorkerInv, Busy
    <3>2. worker'.pc = "ended" /\ worker'.run = worker.run /\ worker'.result \in {"Succeeded", "Failed", "Cancelled"}
      BY <1>1, <2>2 DEF ScriptExits, ScriptKilled, WorkerType
    <3>3. script'[worker.run].did = "none"
      BY <1>1, <2>2, <3>1 DEF ScriptExits, ScriptKilled
    <3> QED BY <1>2, <3>1, <3>2, <3>3 DEF WorkerInv
  <2>3. CASE SaveResult \/ CompleteRead
    <3>1. /\ worker'.pc \in Ended /\ worker'.run = worker.run /\ worker'.result = worker.result
          /\ worker.pc \in Ended /\ script' = script
      BY <1>1, <2>3 DEF SaveResult, CompleteRead, WorkerType, Ended
    <3> QED BY <1>1, <1>2, <3>1 DEF WorkerInv, Busy
  <2>4. CASE Recover \/ CompleteSave \/ CompleteFails
    BY <1>4, <2>4 DEF Recover, CompleteSave, CompleteFails
  <2> QED BY <1>5, <2>1, <2>2, <2>3, <2>4 DEF WorkerStep
<1> QED BY <1>3, <1>4, <1>5, ZenonT(60) DEF Next, HandlerRequest, HandlerStep, Create, Decide, Withdraw, Revoke, CancelRun,
           Store, AutoApprove, SaveDecision, ExpireApproval, InsertRun, LinkRun, MaintainRead, MaintainSave, ScriptStep,
           ScriptGrants, ScriptRevokes, ScriptFails, Environment, Tick, Crash, Restart, OrphanEnds, Rest, vars, execution

\* Who becomes a member, and who stays one.
LEMMA MembersStep ==
    ASSUME IInv, [Next]_vars, NEW t \in Targets, IsMember(t)'
    PROVE  \/ /\ IsMember(t) /\ members'[t] = members[t] /\ members'[t].until > now'
           \/ /\ now' = now /\ requests' = requests /\ runs' = runs
              /\ \E run \in RunIds : ScriptGrants(run) /\ t = TargetOf(run)
                     /\ members'[t] = [by |-> runs[run].request, until |-> now + Duration]
<1>1. /\ members \in [Targets -> [by : 0..MaxRequests, until : Dates]] /\ now \in Times
      /\ IsMember(t) => members[t].until > now
      /\ Times \subseteq Nat /\ Dates \subseteq Nat
  BY DateFacts DEF IInv, TypeOK, GrantInv, MemberInv, Times
<1>2. CASE UNCHANGED <<members, now>>
  BY <1>1, <1>2 DEF IsMember
<1>3. ASSUME NEW run \in RunIds, ScriptGrants(run)
      PROVE  \/ IsMember(t) /\ members'[t] = members[t] /\ now' = now
             \/ /\ now' = now /\ requests' = requests /\ runs' = runs /\ t = TargetOf(run)
                /\ members'[t] = [by |-> runs[run].request, until |-> now + Duration]
  BY <1>1, <1>3 DEF ScriptGrants, IsMember, tables
<1>4. ASSUME NEW run \in RunIds, ScriptRevokes(run)
      PROVE  IsMember(t) /\ members'[t] = members[t] /\ now' = now
  BY <1>1, <1>4 DEF ScriptRevokes, RemoveMember, IsMember
<1>5. CASE Tick
  <2>1. members'[t] = IF members[t].until <= now' THEN NoMember ELSE members[t]
    BY <1>5 DEF Tick
  <2>2. now' \in Nat /\ members[t].until \in Nat
    <3>1. now' = now + 1 /\ members[t] \in [by : 0..MaxRequests, until : Dates]
      BY <1>1, <1>5 DEF Tick
    <3>2. now \in Nat /\ members[t].until \in Dates
      BY <1>1, <3>1
    <3>3. members[t].until \in Nat
      BY <1>1, <3>2
    <3> QED BY <3>1, <3>2, <3>3
  <2> QED BY <2>1, <2>2 DEF IsMember
<1> QED BY <1>1, <1>2, <1>3, <1>4, <1>5, ZenonT(60) DEF Next, HandlerRequest, HandlerStep, Create, Decide, Withdraw, Revoke,
           CancelRun, Store, AutoApprove, SaveDecision, ExpireApproval, InsertRun, LinkRun, MaintainRead, MaintainSave,
           WorkerStep, Recover, Claim, ScriptExits, ScriptKilled, SaveResult, CompleteRead, CompleteSave, CompleteFails,
           ScriptStep, ScriptFails, Environment, Crash, Restart, OrphanEnds, Rest, vars, execution

LEMMA MemberInvStep == IInv /\ [Next]_vars => MemberInv'
<1> SUFFICES ASSUME IInv, [Next]_vars, NEW t \in Targets, IsMember(t)'
             PROVE  /\ members'[t].by \in RequestIds /\ members'[t].until > now'
                    /\ Granted(requests'[members'[t].by])
                    /\ requests'[members'[t].by].target = t
  BY DEF MemberInv, IsMember
<1>1. CASE IsMember(t) /\ members'[t] = members[t] /\ members'[t].until > now'
  <2>1. /\ members[t].by \in RequestIds /\ Granted(requests[members[t].by])
        /\ requests[members[t].by].target = t
    BY <1>1 DEF IInv, GrantInv, MemberInv
  <2>2. Kept(requests[members[t].by], requests'[members[t].by])
    BY <2>1, ExistingKept DEF Granted, Undecided
  <2> QED BY <1>1, <2>1, <2>2, KeptFacts DEF Kept
<1>2. ASSUME now' = now, requests' = requests, runs' = runs,
             NEW run \in RunIds, ScriptGrants(run), t = TargetOf(run),
             members'[t] = [by |-> runs[run].request, until |-> now + Duration]
      PROVE  /\ members'[t].by \in RequestIds /\ members'[t].until > now'
             /\ Granted(requests'[members'[t].by])
             /\ requests'[members'[t].by].target = t
  <2>1. members'[t].by = runs[run].request /\ members'[t].until = now + Duration
    BY <1>2
  <2>2. runs[run].request \in RequestIds /\ now + Duration > now
    BY DateFacts DEF IInv, TypeOK, Run
  <2>3. Claimed(run)
    BY <1>2 DEF ScriptGrants, IInv, GrantInv, ScriptInv
  <2>4. Granted(requests[runs[run].request])
    BY <2>3 DEF Claimed, IInv, GrantInv, RunInv
  <2> QED BY <1>2, <2>1, <2>2, <2>4 DEF TargetOf
<1> QED BY <1>1, <1>2, MembersStep

LEMMA GrantInit == Init => GrantInv
<1> SUFFICES ASSUME Init
             PROVE  GrantInv
  OBVIOUS
<1>1. ProcInv
  BY RowTypes DEF Init, ProcInv, ProcOk, WithRow
<1>2. RequestInv
  BY RowTypes DEF Init, RequestInv
<1>3. RunInv
  BY RowTypes DEF Init, RunInv
<1>4. ScriptInv /\ WorkerInv /\ MemberInv
  BY WorkerAtType DEF Init, ScriptInv, Script, WorkerInv, Busy, Ended, WorkerPc, MemberInv, IsMember
<1> QED BY <1>1, <1>2, <1>3, <1>4 DEF GrantInv

\* Every reachable state is well typed, and every grant in it was approved.
THEOREM GrantsApproved == Spec => []IInv
<1>1. Init => IInv
  BY TypeInit, GrantInit DEF IInv
<1>2. IInv /\ [Next]_vars => IInv'
  BY TypeStep, ProcInvStep, RequestInvStep, RunInvStep, ScriptInvStep, WorkerInvStep, MemberInvStep DEF IInv, GrantInv
<1> QED BY <1>1, <1>2, PTL DEF Spec

\* Tables, runs, handlers, worker, scripts and directory have their types in every reachable state.
THEOREM TypeCorrect == Spec => []TypeOK
<1>1. IInv => TypeOK
  BY DEF IInv
<1> QED BY <1>1, GrantsApproved, PTL

\* Nobody is in a group whose access needs approval unless a second person approved it in
\* time (DecideAsync), for any number of people, handlers, requests, runs, crashes and failures.
THEOREM FourEyesGrantHolds == Spec => []FourEyesGrant
<1>1. IInv => FourEyesGrant
  BY DEF IInv, GrantInv, MemberInv, Granted, FourEyesGrant
<1> QED BY <1>1, GrantsApproved, PTL

-----------------------------------------------------------------------------
(* The agreement of requests and directory: what a step does to its parts. *)

\* Who comes to insert or to link a run of a request that needs approval.
LEMMA RunBegins ==
    ASSUME IInv, [Next]_vars, NEW r \in RequestIds, requests[r].approvalRequired, NEW q \in Procs,
           proc'[q].pc \in {"insertRun", "linkRun"}, proc'[q].id = r
    PROVE  \/ proc'[q] = proc[q]
           \/ /\ requests[r].status = "Pending" /\ runs' = runs
              /\ proc'[q].pc = "insertRun" /\ proc'[q].action = "Grant"
              /\ \A p \in Procs \ {q} : proc'[p] = proc[p]
           \/ proc'[q].action = "Revoke" /\ requests[r].status = "Active"
           \/ /\ InsertRun(q) /\ proc'[q].pc = "linkRun"
              /\ proc'[q].action = proc[q].action /\ proc'[q].id = proc[q].id
<1> USE RowTypes
<1>1. /\ proc \in [Procs -> ProcType] /\ proc[q] \in ProcType /\ ProcOk(proc[q], requests)
  BY DEF IInv, TypeOK, GrantInv, ProcInv
<1>2. ASSUME NEW p \in Procs, NEW h, Become(p, h)
      PROVE  /\ p # q => proc'[q] = proc[q]
             /\ p = q => proc'[q] = h /\ \A o \in Procs \ {q} : proc'[o] = proc[o]
  BY <1>1, <1>2 DEF Become
<1>3. ASSUME NEW p \in Procs, Become(p, Idle)
      PROVE  proc'[q] = proc[q]
  BY <1>2, <1>3
<1>4. ASSUME NEW p \in Handlers, HandlerRequest(p)
      PROVE  proc'[q] = proc[q] \/ (proc'[q].action = "Revoke" /\ requests[r].status = "Active")
  <2>0. p \in Procs
    BY DEF Procs
  <2>1. ASSUME NEW u \in People, NEW t \in Targets, NEW a \in ApprovalSettings, Create(p, u, t, a)
        PROVE  proc'[q] = proc[q]
    <3>1. PICK h \in ProcType : h.pc = "store" /\ Become(p, h)
      <4> DEFINE row == [NoRequest EXCEPT !.status = "Pending", !.by = u, !.target = t,
                                          !.approvalRequired = a, !.approvalExpires = Deadline(a)]
      <4>1. Become(p, [Idle EXCEPT !.pc = "store", !.row = row])
        BY <2>1 DEF Create
      <4>2. row \in Request
        BY <2>1, JitNamesAssumption, DateFacts DEF Request, JitStatus, Deadline, IInv, TypeOK
      <4> HIDE DEF row
      <4>3. [Idle EXCEPT !.pc = "store", !.row = row] \in ProcType
        BY <4>2 DEF ProcType, ProcPc
      <4>4. [Idle EXCEPT !.pc = "store", !.row = row].pc = "store"
        BY DEF ProcType
      <4> QED BY <4>1, <4>3, <4>4
    <3> QED BY <1>2, <2>0, <3>1
  <2>2. ASSUME NEW u \in People, NEW x \in RequestIds, NEW approve \in BOOLEAN, Decide(p, u, x, approve)
        PROVE  proc'[q] = proc[q]
    <3> DEFINE row == [requests[x] EXCEPT !.status = IF approve THEN "Approved" ELSE "Rejected",
                                          !.decidedBy = u, !.decidedAt = now]
               late == [Idle EXCEPT !.pc = "overdue", !.id = x]
               h == [Idle EXCEPT !.pc = "decide", !.id = x, !.row = row]
    <3>1. Become(p, late) \/ Become(p, h)
      BY <2>2 DEF Decide, Become
    <3> HIDE DEF row
    <3>2. late.pc = "overdue" /\ h.pc = "decide"
      BY DEF ProcType
    <3> HIDE DEF late, h
    <3> QED BY <1>2, <2>0, <3>1, <3>2
  <2>3. ASSUME NEW x \in RequestIds, Revoke(p, x)
        PROVE  proc'[q] = proc[q] \/ (proc'[q].action = "Revoke" /\ requests[r].status = "Active")
    <3> DEFINE h == [Idle EXCEPT !.pc = "insertRun", !.id = x, !.action = "Revoke"]
    <3>1. h.id = x /\ h.action = "Revoke"
      BY DEF ProcType
    <3>2. Become(p, h) /\ requests[x].status = "Active"
      BY <2>3 DEF Revoke, Revocable
    <3> HIDE DEF h
    <3> QED BY <1>2, <2>0, <3>1, <3>2
  <2> QED BY <1>4, <2>1, <2>2, <2>3 DEF HandlerRequest, Withdraw, CancelRun
<1>5. ASSUME NEW p \in Handlers, HandlerStep(p), proc'[q] # proc[q]
      PROVE  \/ /\ requests[r].status = "Pending" /\ runs' = runs
                /\ proc'[q].pc = "insertRun" /\ proc'[q].action = "Grant"
                /\ \A o \in Procs \ {q} : proc'[o] = proc[o]
             \/ /\ InsertRun(q) /\ proc'[q].pc = "linkRun"
                /\ proc'[q].action = proc[q].action /\ proc'[q].id = proc[q].id
  <2>0. p \in Procs
    BY DEF Procs
  <2>1. ~Become(p, Idle)
    BY <1>3, <1>5, <2>0
  <2>2. ~Store(p)
    <3> DEFINE h == [Idle EXCEPT !.pc = "autoApprove", !.id = lastRequest + 1]
    <3>1. h.pc = "autoApprove"
      BY DEF ProcType
    <3>2. Store(p) => Become(p, Idle) \/ Become(p, h)
      BY DEF Store, Become
    <3> HIDE DEF h
    <3> QED BY <1>2, <1>5, <2>0, <2>1, <3>1, <3>2
  <2>3. ~AutoApprove(p)
    <3> SUFFICES ASSUME AutoApprove(p)
                 PROVE  FALSE
      OBVIOUS
    <3>1. Become(p, [proc[p] EXCEPT !.pc = "insertRun"]) /\ proc[p].pc = "autoApprove"
      BY DEF AutoApprove
    <3>2. p = q /\ [proc[q] EXCEPT !.pc = "insertRun"].id = proc[q].id
      BY <1>1, <1>2, <1>5, <2>0, <3>1 DEF ProcType
    <3>3. proc[q].id = r
      BY <1>2, <2>0, <3>1, <3>2
    <3> QED BY <1>1, <3>1, <3>2, <3>3 DEF ProcOk
  <2>4. CASE SaveDecision(p)
    <3> DEFINE h == [Idle EXCEPT !.pc = "insertRun", !.id = proc[p].id]
    <3>1. h.pc = "insertRun" /\ h.id = proc[p].id /\ h.action = "Grant"
      BY DEF ProcType
    <3>2. Become(p, h) /\ requests[proc[p].id].status = "Pending" /\ runs' = runs
      BY <2>1, <2>4 DEF SaveDecision, Become
    <3> HIDE DEF h
    <3> QED BY <1>2, <1>5, <2>0, <3>1, <3>2
  <2>5. CASE InsertRun(p)
    <3> DEFINE h == [proc[p] EXCEPT !.pc = "linkRun", !.run = lastRun + 1]
    <3>1. proc[p] \in ProcType
      BY <1>1, <2>0
    <3>2. h.pc = "linkRun" /\ h.id = proc[p].id /\ h.action = proc[p].action
      BY <3>1 DEF ProcType
    <3>3. Become(p, h)
      BY <2>5 DEF InsertRun
    <3> HIDE DEF h
    <3> QED BY <1>2, <1>5, <2>0, <2>5, <3>2, <3>3
  <2> QED BY <1>5, <2>1, <2>2, <2>3, <2>4, <2>5 DEF HandlerStep, ExpireApproval, LinkRun
<1>6. CASE MaintainRead
  <2>1. PICK sets \in Sets : Become(Maintainer, [Idle EXCEPT !.pc = "maintain", !.sets = sets])
    BY <1>6 DEF MaintainRead, Become, Sets, Elapsed, Overdue
  <2>2. [Idle EXCEPT !.pc = "maintain", !.sets = sets].pc = "maintain"
    BY DEF ProcType
  <2> QED BY <1>2, <2>1, <2>2 DEF Procs
<1>7. CASE MaintainSave
  BY <1>3, <1>7 DEF MaintainSave, Procs
<1>8. CASE Crash
  BY <1>8 DEF Crash
<1>9. CASE proc' = proc
  BY <1>9
<1> QED BY <1>4, <1>5, <1>6, <1>7, <1>8, <1>9 DEF Next, WorkerStep, Recover, Claim, ScriptExits, ScriptKilled,
           SaveResult, CompleteRead, CompleteSave, CompleteFails, ScriptStep, ScriptGrants, ScriptRevokes, ScriptFails,
           Environment, Tick, Restart, OrphanEnds, Rest, vars

\* Where a run comes from.
LEMMA RunOfStep ==
    ASSUME IInv, [Next]_vars, NEW run \in RunIds, NEW action, NEW r, RunOf(run, action, r)'
    PROVE  \/ RunOf(run, action, r)
           \/ \E p \in Procs : /\ InsertRun(p) /\ proc[p].pc = "insertRun"
                               /\ proc[p].action = action /\ proc[p].id = r
                               /\ run = lastRun + 1 /\ runs[run].status = "None"
<1>1. CASE \A p \in Procs : ~InsertRun(p)
  BY <1>1, RunsKept DEF AllRunsKept, RunKept, RunOf
<1>2. ASSUME NEW p \in Procs, InsertRun(p)
      PROVE  \/ RunOf(run, action, r)
             \/ /\ proc[p].pc = "insertRun" /\ proc[p].action = action /\ proc[p].id = r
                /\ run = lastRun + 1 /\ runs[run].status = "None"
  <2>1. proc[p].pc = "insertRun"
    BY <1>2 DEF InsertRun
  <2>2. LET n == lastRun + 1
        IN  /\ n \in RunIds /\ lastRun' = n /\ lastRun \in Nat /\ runs[n].status = "None"
            /\ runs'[n] = [status |-> "Queued", action |-> proc[p].action, request |-> proc[p].id]
            /\ \A x \in RunIds : x # n => runs'[x] = runs[x]
    BY <1>2, InsertRunStep
  <2> QED BY <2>1, <2>2 DEF RunOf
<1> QED BY <1>1, <1>2

LEMMA RunOfKept ==
    ASSUME IInv, [Next]_vars, NEW run \in RunIds, NEW action, NEW r, runs[run].status # "None"
    PROVE  RunOf(run, action, r)' <=> RunOf(run, action, r)
BY ExistingRunsKept DEF RunKept, RunOf

\* A request that waits has no run, and nobody about to insert one.
LEMMA UndecidedHasNone ==
    ASSUME IInv, NEW r \in RequestIds, requests[r].status \in Undecided
    PROVE  /\ \A p \in Procs : ~Inserts(p, r) /\ ~Revokes(p, r)
           /\ \A run \in RunIds, action \in Actions : ~RunOf(run, action, r)
BY DEF IInv, GrantInv, ProcInv, ProcOk, RunInv, Granted, Inserts, Revokes, RunOf

\* What the worker is busy with, and the outcome it has read.
LEMMA WorkerBusy ==
    ASSUME IInv, [Next]_vars, worker'.pc \in Busy
    PROVE  \/ worker.pc \in Busy /\ worker'.run = worker.run
           \/ worker'.run \in RunIds /\ Claim(worker'.run) /\ worker'.pc = "executing"
<1> USE DEF Busy, Ended
<1>1. worker \in WorkerType
  BY DEF IInv, TypeOK
<1>2. CASE worker' = worker
  BY <1>2
<1>3. ASSUME NEW pc \in {"down", "recover", "loop"}, worker' = WorkerAt(pc)
      PROVE  FALSE
  BY <1>3 DEF WorkerAt
<1>4. ASSUME NEW run \in RunIds, Claim(run)
      PROVE  worker'.run = run /\ worker'.pc = "executing"
  BY <1>4, WorkerAtType DEF Claim, WorkerPc, WorkerType
<1>5. CASE ScriptExits \/ ScriptKilled \/ SaveResult \/ CompleteRead
  BY <1>1, <1>5 DEF ScriptExits, ScriptKilled, SaveResult, CompleteRead, WorkerType
<1> QED BY <1>2, <1>3, <1>4, <1>5 DEF Next, HandlerRequest, HandlerStep, Create, Decide, Withdraw, Revoke, CancelRun,
           Store, AutoApprove, SaveDecision, ExpireApproval, InsertRun, LinkRun, MaintainRead, MaintainSave, WorkerStep,
           Recover, CompleteSave, CompleteFails, ScriptStep, ScriptGrants, ScriptRevokes, ScriptFails, Environment,
           Tick, Crash, Restart, OrphanEnds, Rest, vars, execution

LEMMA WorkerOutcome ==
    ASSUME IInv, [Next]_vars, worker'.pc \in Ended, worker'.result = "Succeeded"
    PROVE  \/ /\ worker.pc \in Ended /\ worker'.run = worker.run
              /\ worker'.result = worker.result /\ worker'.until = worker.until
           \/ /\ worker'.run = worker.run /\ worker.run \in RunIds /\ script[worker.run].did = "done"
              /\ worker'.until = script[worker.run].until
              /\ members' = members /\ runs' = runs
<1> USE DEF Ended
<1>1. worker \in WorkerType /\ (worker.pc = "executing" => worker.run \in RunIds)
  BY DEF IInv, TypeOK, GrantInv, WorkerInv, Busy
<1>2. CASE worker' = worker
  BY <1>2
<1>3. ASSUME NEW pc \in {"down", "recover", "loop"}, worker' = WorkerAt(pc)
      PROVE  FALSE
  BY <1>3 DEF WorkerAt
<1>4. ASSUME NEW run \in RunIds, Claim(run)
      PROVE  FALSE
  BY <1>4, WorkerAtType DEF Claim, WorkerPc, WorkerType
<1>5. CASE ScriptExits
  BY <1>1, <1>5 DEF ScriptExits, WorkerType, tables
<1>6. CASE ScriptKilled
  BY <1>1, <1>6 DEF ScriptKilled, WorkerType
<1>7. CASE SaveResult \/ CompleteRead
  BY <1>1, <1>7 DEF SaveResult, CompleteRead, WorkerType
<1> QED BY <1>2, <1>3, <1>4, <1>5, <1>6, <1>7, ZenonT(60) DEF Next, HandlerRequest, HandlerStep, Create, Decide, Withdraw, Revoke,
           CancelRun, Store, AutoApprove, SaveDecision, ExpireApproval, InsertRun, LinkRun, MaintainRead, MaintainSave,
           WorkerStep, Recover, CompleteSave, CompleteFails, ScriptStep, ScriptGrants, ScriptRevokes, ScriptFails,
           Environment, Tick, Crash, Restart, OrphanEnds, Rest, vars, execution

LEMMA ScriptOutcome ==
    ASSUME IInv, [Next]_vars, NEW run \in RunIds, script'[run].did = "done"
    PROVE  script'[run] = script[run] \/ ScriptGrants(run) \/ ScriptRevokes(run)
<1>1. /\ script \in [RunIds -> ScriptState] /\ \A did : Script(did).did = did
      /\ worker.pc = "executing" => worker.run \in RunIds
  BY DEF IInv, TypeOK, GrantInv, WorkerInv, Busy, Script
<1>2. CASE script' = script
  BY <1>2
<1>3. ASSUME NEW q \in RunIds, Claim(q) \/ ScriptFails(q) \/ OrphanEnds(q)
      PROVE  script'[run] = script[run]
  BY <1>1, <1>3 DEF Claim, ScriptFails, OrphanEnds
<1>4. CASE ScriptExits \/ ScriptKilled
  BY <1>1, <1>4 DEF ScriptExits, ScriptKilled
<1>5. ASSUME NEW q \in RunIds, q # run, ScriptGrants(q) \/ ScriptRevokes(q)
      PROVE  script'[run] = script[run]
  BY <1>1, <1>5 DEF ScriptGrants, ScriptRevokes
<1> QED BY <1>2, <1>3, <1>4, <1>5, ZenonT(60) DEF Next, HandlerRequest, HandlerStep, Create, Decide, Withdraw, Revoke, CancelRun,
           Store, AutoApprove, SaveDecision, ExpireApproval, InsertRun, LinkRun, MaintainRead, MaintainSave, WorkerStep,
           Recover, SaveResult, CompleteRead, CompleteSave, CompleteFails, ScriptStep, Environment,
           Tick, Crash, Restart, Rest, vars, execution

-----------------------------------------------------------------------------
(* The agreement of requests and directory: every part of the invariant is kept. *)

LEMMA OneGrantStep ==
    ASSUME IInv, [Next]_vars, NEW r \in RequestIds, requests[r].approvalRequired, OneGrant(r)
    PROVE  OneGrant(r)'
<1>1. ASSUME NEW p \in Procs, Inserts(p, r)', ~Inserts(p, r)
      PROVE  /\ requests[r].status \in Undecided /\ runs' = runs
             /\ \A q \in Procs \ {p} : proc'[q] = proc[q]
  BY <1>1, RunBegins DEF Inserts, Undecided
<1>2. \A p \in Procs : Inserts(p, r)' => ~InsertRun(p)
  <2>1. ASSUME NEW p \in Procs, InsertRun(p)
        PROVE  proc'[p].pc = "linkRun"
    BY <2>1 DEF InsertRun, Become, IInv, TypeOK, ProcType
  <2> QED BY <2>1 DEF Inserts
<1>3. ASSUME NEW p \in Procs, NEW q \in Procs, Inserts(p, r)', Inserts(q, r)', p # q
      PROVE  FALSE
  <2>1. CASE Inserts(p, r) /\ Inserts(q, r)
    BY <1>3, <2>1 DEF OneGrant
  <2>2. CASE ~Inserts(p, r)
    BY <1>1, <1>3, <2>2, UndecidedHasNone DEF Inserts
  <2>3. CASE ~Inserts(q, r)
    BY <1>1, <1>3, <2>3, UndecidedHasNone DEF Inserts
  <2> QED BY <2>1, <2>2, <2>3
<1>4. ASSUME NEW run \in RunIds, RunOf(run, "Grant", r)', ~RunOf(run, "Grant", r)
      PROVE  \E p \in Procs : InsertRun(p) /\ Inserts(p, r) /\ run = lastRun + 1
  BY <1>4, RunOfStep DEF Inserts
<1>5. ASSUME NEW p \in Procs, NEW run \in RunIds, Inserts(p, r)', RunOf(run, "Grant", r)'
      PROVE  FALSE
  <2>1. CASE ~Inserts(p, r)
    <3>1. RunOf(run, "Grant", r)
      BY <1>1, <1>5, <2>1 DEF RunOf
    <3> QED BY <1>1, <1>5, <2>1, <3>1, UndecidedHasNone DEF Actions
  <2>2. CASE Inserts(p, r) /\ RunOf(run, "Grant", r)
    BY <2>2 DEF OneGrant
  <2>3. CASE Inserts(p, r) /\ ~RunOf(run, "Grant", r)
    BY <1>2, <1>4, <1>5, <2>3 DEF OneGrant
  <2> QED BY <2>1, <2>2, <2>3
<1>6. ASSUME NEW x \in RunIds, NEW y \in RunIds, RunOf(x, "Grant", r)', RunOf(y, "Grant", r)'
      PROVE  x = y
  BY <1>4, <1>6 DEF OneGrant
<1> QED BY <1>3, <1>5, <1>6 DEF OneGrant

LEMMA OffDutyKept ==
    ASSUME IInv, [Next]_vars, NEW run \in RunIds, runs[run].status # "None", OffDuty(run)
    PROVE  OffDuty(run)'
<1>1. ~Claim(run) /\ runs'[run].status # "Queued"
  BY ExistingRunsKept DEF OffDuty, Claim, RunKept
<1>2. script'[run].did = "none"
  BY <1>1, ScriptStarts DEF OffDuty
<1>3. ~(worker'.pc \in Busy /\ worker'.run = run)
  BY <1>1, WorkerBusy DEF OffDuty
<1> QED BY <1>1, <1>2, <1>3 DEF OffDuty

LEMMA SettledKept ==
    ASSUME IInv, [Next]_vars, NEW r \in RequestIds, requests[r].approvalRequired, Settled(r)
    PROVE  Settled(r)'
<1>1. requests'[r].status \notin Undecided
  BY ExistingKept DEF Settled, Kept, Undecided
<1>2. ASSUME NEW p \in Procs, Inserts(p, r)'
      PROVE  FALSE
  BY <1>2, RunBegins DEF Inserts, Settled, Undecided
<1>3. ASSUME NEW run \in RunIds, RunOf(run, "Grant", r)'
      PROVE  OffDuty(run)'
  <2>1. RunOf(run, "Grant", r)
    BY <1>3, RunOfStep DEF Settled, Inserts
  <2> QED BY <2>1, OffDutyKept DEF RunOf, Settled
<1> QED BY <1>1, <1>2, <1>3 DEF Settled

\* Who gets in does so by a grant run whose script is at work.
LEMMA NewMember ==
    ASSUME IInv, [Next]_vars, NEW t \in Targets, IsMember(t)', NEW r \in RequestIds, members'[t].by = r
    PROVE  \/ IsMember(t) /\ members'[t] = members[t]
           \/ \E run \in RunIds : RunOf(run, "Grant", r) /\ ScriptGrants(run)
<1>1. ASSUME NEW run \in RunIds, ScriptGrants(run),
             members'[t] = [by |-> runs[run].request, until |-> now + Duration]
      PROVE  RunOf(run, "Grant", r)
  <2>1. Claimed(run) /\ runs[run].action = "Grant"
    BY <1>1 DEF ScriptGrants, IInv, GrantInv, ScriptInv
  <2>2. runs[run].request = r
    BY <1>1
  <2> QED BY <2>1, <2>2 DEF RunOf, Claimed
<1> QED BY <1>1, MembersStep

LEMMA MembersKept ==
    ASSUME IInv, [Next]_vars, NEW r \in RequestIds,
           \A run \in RunIds : RunOf(run, "Grant", r) => script[run].did # "started"
    PROVE  /\ Gone(r) => Gone(r)'
           /\ \A until : MemberUntil(r, until) => MemberUntil(r, until)'
<1>1. \A t \in Targets : IsMember(t)' /\ members'[t].by = r => IsMember(t) /\ members'[t] = members[t]
  BY NewMember DEF ScriptGrants
<1> QED BY <1>1 DEF Gone, MemberUntil

LEMMA SettledMembers ==
    ASSUME IInv, [Next]_vars, NEW r \in RequestIds, Settled(r)
    PROVE  /\ Gone(r) => Gone(r)'
           /\ \A until : MemberUntil(r, until) => MemberUntil(r, until)'
BY MembersKept DEF Settled, OffDuty

LEMMA OutcomeInvStep ==
    ASSUME IInv, [Next]_vars, NEW r \in RequestIds, requests[r].approvalRequired,
           OneGrant(r), OutcomeInv(r), SettledInv(r)
    PROVE  OutcomeInv(r)'
<1>0. /\ script \in [RunIds -> ScriptState] /\ runs \in [RunIds -> Run]
      /\ members \in [Targets -> [by : 0..MaxRequests, until : Dates]]
      /\ requests \in [RequestIds -> Request]
  BY DEF IInv, TypeOK
<1>1. \A t \in Targets : IsMember(t) /\ members[t].by = r => requests[r].target = t
  BY DEF IInv, GrantInv, MemberInv
<1>2. ASSUME NEW run \in RunIds, runs[run].status # "None", script[run].did # "started", RunOf(run, "Grant", r)
      PROVE  \A u : MemberUntil(r, u) => MemberUntil(r, u)'
  <2>1. \A x \in RunIds : RunOf(x, "Grant", r) => x = run
    BY <1>2 DEF OneGrant
  <2> QED BY <1>2, <2>1, MembersKept
<1>3. ASSUME NEW run \in RunIds, RunOf(run, "Revoke", r), Gone(r)
      PROVE  Gone(r)'
  BY <1>3, SettledMembers DEF SettledInv
<1>4. ASSUME NEW run \in RunIds, script'[run].did = "done", NEW until, until = script'[run].until
      PROVE  /\ RunOf(run, "Grant", r)' => MemberUntil(r, until)'
             /\ RunOf(run, "Revoke", r)' => Gone(r)'
  <2>1. CASE script'[run] = script[run]
    <3>1. script[run].did = "done" /\ Claimed(run)
      BY <1>4, <2>1 DEF IInv, GrantInv, ScriptInv
    <3>2. /\ RunOf(run, "Grant", r)' => RunOf(run, "Grant", r)
          /\ RunOf(run, "Revoke", r)' => RunOf(run, "Revoke", r)
      BY <3>1, RunOfKept DEF Claimed
    <3>3. /\ RunOf(run, "Grant", r) => MemberUntil(r, until)
          /\ RunOf(run, "Revoke", r) => Gone(r)
      BY <1>4, <2>1, <3>1 DEF OutcomeInv
    <3>4. RunOf(run, "Grant", r) => MemberUntil(r, until)'
      BY <1>2, <3>1, <3>3 DEF RunOf
    <3> QED BY <1>3, <3>2, <3>3, <3>4
  <2>2. CASE ScriptGrants(run)
    <3>1. /\ runs' = runs /\ runs[run].action = "Grant"
          /\ members' = [members EXCEPT ![TargetOf(run)] = [by |-> runs[run].request, until |-> now + Duration]]
          /\ until = now + Duration
      <4>1. /\ \A did : Script(did).did = did
            /\ runs' = runs /\ runs[run].action = "Grant"
        BY <2>2 DEF ScriptGrants, Script, tables
      <4> QED BY <1>0, <1>4, <2>2, <4>1 DEF ScriptGrants
    <3>2. ~RunOf(run, "Revoke", r)'
      BY <3>1 DEF RunOf
    <3>3. RunOf(run, "Grant", r)' => MemberUntil(r, until)'
      <4> SUFFICES ASSUME RunOf(run, "Grant", r)', NEW t \in Targets, IsMember(t)', members'[t].by = r
                   PROVE  members'[t].until = until
        BY DEF MemberUntil
      <4>1. TargetOf(run) = requests[r].target
        BY <3>1 DEF RunOf, TargetOf
      <4>2. t # TargetOf(run) => members'[t] = members[t]
        BY <1>0, <3>1
      <4>3. t = TargetOf(run)
        BY <1>1, <4>1, <4>2 DEF IsMember
      <4> QED BY <1>0, <3>1, <4>3
    <3> QED BY <3>2, <3>3
  <2>3. CASE ScriptRevokes(run)
    <3>1. /\ runs' = runs /\ runs[run].action = "Revoke"
          /\ members' = [members EXCEPT ![TargetOf(run)] = NoMember]
      BY <2>3 DEF ScriptRevokes, RemoveMember, tables
    <3>2. ~RunOf(run, "Grant", r)'
      BY <3>1 DEF RunOf
    <3>3. RunOf(run, "Revoke", r)' => Gone(r)'
      <4> SUFFICES ASSUME RunOf(run, "Revoke", r)', NEW t \in Targets, IsMember(t)', members'[t].by = r
                   PROVE  FALSE
        BY DEF Gone, IsMember
      <4>1. TargetOf(run) = requests[r].target
        BY <3>1 DEF RunOf, TargetOf
      <4>2. t # TargetOf(run)
        BY <1>0, <3>1 DEF IsMember
      <4> QED BY <1>0, <1>1, <3>1, <4>1, <4>2 DEF IsMember
    <3> QED BY <3>2, <3>3
  <2> QED BY <1>4, <2>1, <2>2, <2>3, ScriptOutcome
<1>5. ASSUME worker'.pc \in Ended, worker'.result = "Succeeded",
             NEW run, run = worker'.run, NEW until, until = worker'.until
      PROVE  /\ RunOf(run, "Grant", r)' => MemberUntil(r, until)'
             /\ RunOf(run, "Revoke", r)' => Gone(r)'
  <2>1. CASE /\ worker.pc \in Ended /\ worker'.run = worker.run
             /\ worker'.result = worker.result /\ worker'.until = worker.until
    <3>1. run \in RunIds /\ Claimed(run) /\ script[run].did = "none"
      BY <1>5, <2>1 DEF IInv, GrantInv, WorkerInv, Busy
    <3>2. /\ RunOf(run, "Grant", r)' => RunOf(run, "Grant", r)
          /\ RunOf(run, "Revoke", r)' => RunOf(run, "Revoke", r)
      BY <3>1, RunOfKept DEF Claimed
    <3>3. /\ RunOf(run, "Grant", r) => MemberUntil(r, until)
          /\ RunOf(run, "Revoke", r) => Gone(r)
      BY <1>5, <2>1 DEF OutcomeInv
    <3>4. RunOf(run, "Grant", r) => MemberUntil(r, until)'
      BY <1>2, <3>1, <3>3 DEF RunOf
    <3>5. RunOf(run, "Revoke", r) => Gone(r)'
      BY <1>3, <3>1, <3>3
    <3> QED BY <3>2, <3>4, <3>5
  <2>2. CASE /\ worker'.run = worker.run /\ worker.run \in RunIds /\ script[worker.run].did = "done"
             /\ worker'.until = script[worker.run].until
             /\ members' = members /\ runs' = runs
    <3>1. run \in RunIds /\ script[run].did = "done" /\ until = script[run].until
      BY <1>5, <2>2
    <3>2. /\ RunOf(run, "Grant", r) => MemberUntil(r, until)
          /\ RunOf(run, "Revoke", r) => Gone(r)
      BY <3>1 DEF OutcomeInv
    <3> QED BY <2>2, <3>2 DEF RunOf, MemberUntil, Gone, IsMember
  <2> QED BY <1>5, <2>1, <2>2, WorkerOutcome
<1> QED BY <1>4, <1>5 DEF OutcomeInv

\* The completion of a run, with the row it writes and the row it wrote.
LEMMA CompletionStep ==
    ASSUME IInv, [Next]_vars, CompleteSave, NEW r \in RequestIds
    PROVE  \/ requests'[r].status = requests[r].status /\ requests'[r].expiresAt = requests[r].expiresAt
           \/ requests'[r].status = "Failed"
           \/ /\ worker.run \in RunIds /\ worker.pc \in Ended /\ worker.result = "Succeeded"
              /\ \/ /\ RunOf(worker.run, "Grant", r) /\ requests'[r].status = "Active"
                    /\ requests'[r].expiresAt = worker.until
                 \/ RunOf(worker.run, "Revoke", r) /\ requests'[r].status = "Revoked"
<1> DEFINE q == runs[worker.run].request
<1>1. /\ requests \in [RequestIds -> Request] /\ requests[r] \in Request
      /\ worker.run \in RunIds /\ worker.pc \in Ended /\ runs[worker.run].status # "None"
  BY DEF CompleteSave, IInv, TypeOK, GrantInv, WorkerInv, Busy, Ended, Claimed
<1>2. \/ requests' = requests
      \/ /\ worker.result = "Succeeded" /\ runs[worker.run].action = "Grant"
         /\ requests' = [requests EXCEPT ![q] = [requests[q] EXCEPT !.status = "Active", !.expiresAt = worker.until]]
      \/ /\ worker.result = "Succeeded" /\ runs[worker.run].action = "Revoke"
         /\ requests' = [requests EXCEPT ![q] = [requests[q] EXCEPT !.status = "Revoked"]]
      \/ requests' = [requests EXCEPT ![q] = [requests[q] EXCEPT !.status = "Failed"]]
      \/ requests' = [requests EXCEPT ![q] = [requests[q] EXCEPT !.revokeRunId = None]]
  BY <1>1 DEF CompleteSave
<1>3. CASE r # q
  BY <1>1, <1>2, <1>3
<1>4. CASE r = q
  <2>1. RunOf(worker.run, runs[worker.run].action, r)
    BY <1>1, <1>4 DEF RunOf
  <2> HIDE DEF q
  <2> QED BY <1>1, <1>2, <1>4, <2>1, ZenonT(60) DEF Request
<1> QED BY <1>3, <1>4

LEMMA MaintenanceStep ==
    ASSUME IInv, MaintainSave, NEW r \in RequestIds
    PROVE  \/ requests'[r].status = requests[r].status /\ requests'[r].expiresAt = requests[r].expiresAt
           \/ Expiring(r) /\ requests'[r].status = "Expired"
           \/ requests'[r].status \in {"Rejected", "Failed"}
<1>1. requests \in [RequestIds -> Request] /\ requests[r] \in Request
  BY DEF IInv, TypeOK
<1>2. requests'[r].expiresAt = requests[r].expiresAt
  BY <1>1 DEF MaintainSave, Request
<1>3. \/ requests'[r].status = requests[r].status
      \/ Expiring(r) /\ requests'[r].status = "Expired"
      \/ requests'[r].status \in {"Rejected", "Failed"}
  BY <1>1 DEF MaintainSave, Expiring, Request
<1> QED BY <1>2, <1>3

LEMMA MaintainerStep ==
    ASSUME IInv, [Next]_vars, NEW r \in RequestIds, Expiring(r)'
    PROVE  \/ Expiring(r)
           \/ requests[r].status = "Active" /\ requests[r].expiresAt <= now
<1> USE RowTypes
<1>1. Maintainer \in Procs /\ Maintainer \notin Handlers /\ proc \in [Procs -> ProcType]
  BY JitNamesAssumption DEF IInv, TypeOK, Procs
<1>2. CASE proc'[Maintainer] = proc[Maintainer]
  BY <1>2 DEF Expiring
<1>3. ASSUME NEW p \in Handlers, NEW h, Become(p, h)
      PROVE  proc'[Maintainer] = proc[Maintainer]
  BY <1>1, <1>3 DEF Become
<1>4. ASSUME NEW p \in Handlers, HandlerRequest(p) \/ HandlerStep(p)
      PROVE  proc'[Maintainer] = proc[Maintainer]
  BY <1>1, <1>4 DEF HandlerRequest, HandlerStep, Create, Decide, Withdraw, Revoke, CancelRun, Store, AutoApprove,
     SaveDecision, ExpireApproval, InsertRun, LinkRun, Become
<1>5. CASE MaintainRead
  <2>1. PICK sets \in Sets : /\ Become(Maintainer, [Idle EXCEPT !.pc = "maintain", !.sets = sets])
                             /\ sets.expired = Elapsed
    <3> DEFINE s == [expired |-> Elapsed, overdue |-> Overdue,
                     stuck |-> {x \in RequestIds :
                         requests[x].status = "Approved" /\ Unprocessed(requests[x].runId)},
                     stuckRevoke |-> {x \in RequestIds :
                         requests[x].status = "Active" /\ Unprocessed(requests[x].revokeRunId)}]
    <3>1. s \in Sets /\ s.expired = Elapsed
      BY DEF Sets, Elapsed, Overdue
    <3>2. Become(Maintainer, [Idle EXCEPT !.pc = "maintain", !.sets = s])
      BY <1>5 DEF MaintainRead
    <3> HIDE DEF s
    <3> QED BY <3>1, <3>2
  <2>2. [Idle EXCEPT !.pc = "maintain", !.sets = sets].sets = sets
    BY DEF ProcType
  <2>3. proc'[Maintainer].sets = sets
    BY <1>1, <2>1, <2>2 DEF Become
  <2> QED BY <2>1, <2>3 DEF Expiring, Elapsed
<1>6. CASE MaintainSave \/ Crash
  <2>1. proc'[Maintainer] = Idle
    BY <1>1, <1>6 DEF MaintainSave, Crash, Become
  <2> QED BY <2>1 DEF Expiring
<1> QED BY <1>2, <1>4, <1>5, <1>6 DEF Next, WorkerStep, Recover, Claim, ScriptExits, ScriptKilled, SaveResult,
           CompleteRead, CompleteSave, CompleteFails, ScriptStep, ScriptGrants, ScriptRevokes, ScriptFails,
           Environment, Tick, Restart, OrphanEnds, Rest, vars

LEMMA SettledInvStep ==
    ASSUME IInv, [Next]_vars, NEW r \in RequestIds, requests[r].approvalRequired,
           OneGrant(r), OutcomeInv(r), SettledInv(r)
    PROVE  SettledInv(r)'
<1>1. Settled(r) => Settled(r)'
  BY SettledKept
<1>2. Settled(r) => /\ Gone(r) => Gone(r)'
                    /\ \A until : MemberUntil(r, until) => MemberUntil(r, until)'
  BY SettledMembers
<1>3. ASSUME NEW p \in Procs, Revokes(p, r)'
      PROVE  Settled(r)
  BY <1>3, RunBegins DEF Revokes, InsertRun, SettledInv
<1>4. ASSUME NEW run \in RunIds, RunOf(run, "Revoke", r)'
      PROVE  Settled(r)
  BY <1>4, RunOfStep DEF Revokes, SettledInv
<1>5. ASSUME requests'[r].status = "Active", NEW until, until = requests'[r].expiresAt
      PROVE  Settled(r)' /\ MemberUntil(r, until)'
  <2>1. CASE requests[r].status = "Active" /\ requests[r].expiresAt = until
    BY <1>1, <1>2, <2>1 DEF SettledInv
  <2>2. ASSUME CompleteSave, worker.run \in RunIds, worker.pc \in Ended, worker.result = "Succeeded",
               RunOf(worker.run, "Grant", r), until = worker.until
        PROVE  Settled(r)' /\ MemberUntil(r, until)'
    <3>1. MemberUntil(r, until)'
      BY <2>2 DEF OutcomeInv, MemberUntil, IsMember, CompleteSave
    <3>2. \A run \in RunIds : RunOf(run, "Grant", r)' => OffDuty(run)'
      <4>1. ASSUME NEW run \in RunIds, RunOf(run, "Grant", r)'
            PROVE  OffDuty(run)'
        <5>1. run = worker.run
          BY <2>2, <4>1 DEF CompleteSave, RunOf, OneGrant
        <5>2. runs'[run].status # "Queued" /\ script'[run].did = "none"
          BY <2>2, <5>1 DEF CompleteSave, IInv, GrantInv, WorkerInv, Claimed, Busy
        <5>3. worker'.pc \notin Busy
          BY <2>2, WorkerAtType DEF CompleteSave, WorkerPc, Busy, Ended
        <5> QED BY <5>2, <5>3 DEF OffDuty
      <4> QED BY <4>1
    <3>3. \A p \in Procs : ~Inserts(p, r)'
      BY <2>2 DEF CompleteSave, Inserts, OneGrant
    <3> QED BY <1>5, <3>1, <3>2, <3>3 DEF Settled, Undecided
  <2>3. CASE CompleteSave
    BY <1>5, <2>1, <2>2, <2>3, CompletionStep
  <2>4. CASE MaintainSave
    BY <1>5, <2>1, <2>4, MaintenanceStep
  <2> QED BY <1>5, <2>1, <2>3, <2>4, OutcomeKept
<1>6. ASSUME requests'[r].status \in {"Expired", "Revoked"}
      PROVE  Settled(r) /\ Gone(r)
  <2>1. CASE requests[r].status \in {"Expired", "Revoked"} \/ Expiring(r)
    BY <2>1 DEF SettledInv
  <2>2. CASE CompleteSave
    BY <1>6, <2>1, <2>2, CompletionStep DEF OutcomeInv, SettledInv
  <2>3. CASE MaintainSave
    BY <1>6, <2>1, <2>3, MaintenanceStep
  <2> QED BY <1>6, <2>1, <2>2, <2>3, OutcomeKept
<1>7. ASSUME Expiring(r)'
      PROVE  Settled(r) /\ Gone(r)
  <2>1. CASE Expiring(r)
    BY <2>1 DEF SettledInv
  <2>2. CASE requests[r].status = "Active" /\ requests[r].expiresAt <= now
    <3>1. Settled(r) /\ MemberUntil(r, requests[r].expiresAt)
      BY <2>2 DEF SettledInv
    <3>2. \A t \in Targets : IsMember(t) => members[t].until > now /\ members[t].until \in Nat
      BY DateFacts DEF IInv, TypeOK, GrantInv, MemberInv
    <3>3. now \in Nat /\ requests[r].expiresAt \in Nat
      BY DateFacts DEF IInv, TypeOK, Request
    <3> QED BY <2>2, <3>1, <3>2, <3>3 DEF MemberUntil, Gone
  <2> QED BY <1>7, <2>1, <2>2, MaintainerStep
<1> QED BY <1>1, <1>2, <1>3, <1>4, <1>5, <1>6, <1>7 DEF SettledInv

LEMMA AgreeStep == IInv /\ AgreeInv /\ [Next]_vars => AgreeInv'
<1> SUFFICES ASSUME IInv, AgreeInv, [Next]_vars, NEW r \in RequestIds, requests'[r].approvalRequired
             PROVE  OneGrant(r)' /\ OutcomeInv(r)' /\ SettledInv(r)'
  BY DEF AgreeInv
<1>1. CASE requests[r].approvalRequired
  BY <1>1, OneGrantStep, OutcomeInvStep, SettledInvStep DEF AgreeInv
<1>2. ASSUME NEW p \in Procs, Store(p), r = lastRequest + 1
      PROVE  OneGrant(r)' /\ OutcomeInv(r)' /\ SettledInv(r)'
  <2>1. /\ requests[r].status = "None" /\ requests'[r].status = "Pending"
        /\ UNCHANGED <<runs, worker, script, members>>
    BY <1>2, StoreStep DEF Store, IInv, GrantInv, ProcInv, ProcOk, execution
  <2>2. /\ \A q \in Procs : ~Inserts(q, r) /\ ~Revokes(q, r)
        /\ \A run \in RunIds, action \in Actions : ~RunOf(run, action, r)
        /\ ~Expiring(r)
    BY <2>1, UndecidedHasNone DEF Undecided, Expiring, IInv, GrantInv, ProcInv, ProcOk, Procs
  <2>3. \A q \in Procs : proc'[q] = proc[q] \/ proc'[q].pc \in {"idle", "autoApprove"}
    BY <1>2, RowTypes DEF Store, Become, IInv, TypeOK, ProcType
  <2>4. /\ \A q \in Procs : ~Inserts(q, r)' /\ ~Revokes(q, r)'
        /\ \A run \in RunIds, action \in Actions : ~RunOf(run, action, r)'
        /\ ~Expiring(r)'
    BY <2>1, <2>2, <2>3 DEF Inserts, Revokes, RunOf, Expiring, Procs
  <2>5. worker'.pc \in Ended => worker'.run \in RunIds
    BY <2>1 DEF IInv, GrantInv, WorkerInv, Busy
  <2> QED BY <2>1, <2>4, <2>5 DEF OneGrant, OutcomeInv, SettledInv, Actions
<1>3. CASE ~requests[r].approvalRequired
  <2>1. CASE \A p \in Procs : ~Store(p)
    BY <1>3, <2>1, RequestsKept DEF AllKept, Kept
  <2>2. ASSUME NEW p \in Procs, Store(p), r # lastRequest + 1
        PROVE  requests'[r] = requests[r]
    BY <2>2, StoreStep
  <2> QED BY <1>2, <1>3, <2>1, <2>2
<1> QED BY <1>1, <1>3

LEMMA AgreeInit == Init => AgreeInv
BY RowTypes DEF Init, AgreeInv

\* A request that needs approval has one grant run at most, and is active, expired or revoked
\* only after that run and its script are over.
THEOREM ApprovedSettled == Spec => []AgreeInv
BY GrantsApproved, AgreeInit, AgreeStep, PTL DEF Spec

\* A request that needed approval and is called expired or revoked has no membership left in
\* the directory, and an active one ends when the directory ends it (CompleteRunAsync,
\* MaintainAsync), in every interleaving, crash and failure.
THEOREM ApprovedRequestsAgree == Spec => []ApprovedAgree
<1>1. IInv /\ AgreeInv => ApprovedAgree
  BY DEF IInv, GrantInv, MemberInv, AgreeInv, SettledInv, MemberUntil, Gone, ApprovedAgree
<1> QED BY <1>1, GrantsApproved, ApprovedSettled, PTL

-----------------------------------------------------------------------------
(* When every group asks for approval, the property holds of every request. *)

ApprovalInv ==
    /\ \A p \in Procs : proc[p].pc = "store" => proc[p].row.approvalRequired
    /\ \A r \in RequestIds : requests[r].status # "None" => requests[r].approvalRequired

LEMMA ApprovalStep ==
    ASSUME FALSE \notin ApprovalSettings
    PROVE  IInv /\ ApprovalInv /\ [Next]_vars => ApprovalInv'
<1> SUFFICES ASSUME IInv, ApprovalInv, [Next]_vars
             PROVE  ApprovalInv'
  OBVIOUS
<1> USE RowTypes
<1>1. requests \in [RequestIds -> Request] /\ proc \in [Procs -> ProcType]
  BY DEF IInv, TypeOK
<1>2. \A r \in RequestIds : requests'[r].status # "None" => requests'[r].approvalRequired
  <2>1. CASE \A p \in Procs : ~Store(p)
    BY <2>1, RequestsKept DEF AllKept, Kept, ApprovalInv
  <2>2. ASSUME NEW p \in Procs, Store(p), NEW r \in RequestIds, requests'[r].status # "None"
        PROVE  requests'[r].approvalRequired
    <3>1. proc[p].row.approvalRequired
      BY <2>2 DEF Store, ApprovalInv
    <3> QED BY <2>2, <3>1, StoreStep DEF ApprovalInv
  <2> QED BY <2>1, <2>2
<1>3. ASSUME NEW p \in Procs, NEW h, h.pc = "store" => h.row.approvalRequired, Become(p, h)
      PROVE  \A q \in Procs : proc'[q].pc = "store" => proc'[q].row.approvalRequired
  BY <1>1, <1>3 DEF Become, ApprovalInv
<1>4. CASE proc' = proc
  BY <1>2, <1>4 DEF ApprovalInv
<1>5. ASSUME NEW p \in Handlers, HandlerRequest(p)
      PROVE  \A q \in Procs : proc'[q].pc = "store" => proc'[q].row.approvalRequired
  <2>0. p \in Procs
    BY DEF Procs
  <2>1. ASSUME NEW u \in People, NEW t \in Targets, NEW a \in ApprovalSettings, Create(p, u, t, a)
        PROVE  \A q \in Procs : proc'[q].pc = "store" => proc'[q].row.approvalRequired
    <3> DEFINE row == [NoRequest EXCEPT !.status = "Pending", !.by = u, !.target = t,
                                        !.approvalRequired = a, !.approvalExpires = Deadline(a)]
               h == [Idle EXCEPT !.pc = "store", !.row = row]
    <3>1. row.approvalRequired = TRUE
      BY JitNamesAssumption DEF Request
    <3>2. Become(p, h)
      BY <2>1 DEF Create
    <3> HIDE DEF row
    <3>3. h.row = row
      BY DEF ProcType
    <3> HIDE DEF h
    <3> QED BY <1>3, <2>0, <3>1, <3>2, <3>3
  <2>2. ASSUME NEW u \in People, NEW r \in RequestIds, NEW approve \in BOOLEAN, Decide(p, u, r, approve)
        PROVE  \A q \in Procs : proc'[q].pc = "store" => proc'[q].row.approvalRequired
    <3> DEFINE row == [requests[r] EXCEPT !.status = IF approve THEN "Approved" ELSE "Rejected",
                                          !.decidedBy = u, !.decidedAt = now]
               late == [Idle EXCEPT !.pc = "overdue", !.id = r]
               h == [Idle EXCEPT !.pc = "decide", !.id = r, !.row = row]
    <3>1. Become(p, late) \/ Become(p, h)
      BY <2>2 DEF Decide, Become
    <3> HIDE DEF row
    <3>2. late.pc = "overdue" /\ h.pc = "decide"
      BY DEF ProcType
    <3> HIDE DEF late, h
    <3> QED BY <1>3, <2>0, <3>1, <3>2
  <2>3. ASSUME NEW r \in RequestIds, Revoke(p, r)
        PROVE  \A q \in Procs : proc'[q].pc = "store" => proc'[q].row.approvalRequired
    <3> DEFINE h == [Idle EXCEPT !.pc = "insertRun", !.id = r, !.action = "Revoke"]
    <3>1. Become(p, h) /\ h.pc = "insertRun"
      BY <2>3 DEF Revoke, ProcType
    <3> HIDE DEF h
    <3> QED BY <1>3, <2>0, <3>1
  <2> QED BY <1>5, <2>1, <2>2, <2>3 DEF HandlerRequest, Withdraw, CancelRun, ApprovalInv
<1>6. ASSUME NEW p \in Handlers, HandlerStep(p)
      PROVE  \A q \in Procs : proc'[q].pc = "store" => proc'[q].row.approvalRequired
  <2>1. p \in Procs /\ proc[p] \in ProcType
    BY <1>1 DEF Procs
  <2>2. /\ [Idle EXCEPT !.pc = "autoApprove", !.id = lastRequest + 1].pc = "autoApprove"
        /\ [proc[p] EXCEPT !.pc = "insertRun"].pc = "insertRun"
        /\ [Idle EXCEPT !.pc = "insertRun", !.id = proc[p].id].pc = "insertRun"
        /\ [proc[p] EXCEPT !.pc = "linkRun", !.run = lastRun + 1].pc = "linkRun"
    BY <2>1 DEF ProcType
  <2>3. \/ Become(p, Idle)
        \/ Become(p, [Idle EXCEPT !.pc = "autoApprove", !.id = lastRequest + 1])
        \/ Become(p, [proc[p] EXCEPT !.pc = "insertRun"])
        \/ Become(p, [Idle EXCEPT !.pc = "insertRun", !.id = proc[p].id])
        \/ Become(p, [proc[p] EXCEPT !.pc = "linkRun", !.run = lastRun + 1])
    BY <1>6 DEF HandlerStep, Store, AutoApprove, SaveDecision, ExpireApproval, InsertRun, LinkRun, Become
  <2> QED BY <1>3, <2>1, <2>2, <2>3
<1>7. ASSUME MaintainRead \/ MaintainSave
      PROVE  \A q \in Procs : proc'[q].pc = "store" => proc'[q].row.approvalRequired
  <2>1. PICK sets : Become(Maintainer, Idle) \/ Become(Maintainer, [Idle EXCEPT !.pc = "maintain", !.sets = sets])
    BY <1>7 DEF MaintainRead, MaintainSave
  <2>2. [Idle EXCEPT !.pc = "maintain", !.sets = sets].pc = "maintain"
    BY DEF ProcType
  <2> QED BY <1>3, <2>1, <2>2 DEF Procs
<1>8. ASSUME Crash
      PROVE  \A q \in Procs : proc'[q].pc = "store" => proc'[q].row.approvalRequired
  BY <1>8 DEF Crash
<1> QED BY <1>2, <1>4, <1>5, <1>6, <1>7, <1>8 DEF ApprovalInv, Next, WorkerStep, Recover, Claim, ScriptExits, ScriptKilled,
           SaveResult, CompleteRead, CompleteSave, CompleteFails, ScriptStep, ScriptGrants, ScriptRevokes, ScriptFails,
           Environment, Tick, Restart, OrphanEnds, Rest, vars

\* Where every group requires approval, requests and directory agree about every membership.
THEOREM DirectoryAgreement ==
    ASSUME FALSE \notin ApprovalSettings
    PROVE  Spec => []DirectoryAgrees
<1>1. Init => ApprovalInv
  BY RowTypes DEF Init, ApprovalInv
<1>2. IInv /\ ApprovalInv /\ [Next]_vars => ApprovalInv'
  BY ApprovalStep
<1>3. IInv /\ ApprovalInv /\ ApprovedAgree => DirectoryAgrees
  BY DEF IInv, GrantInv, MemberInv, Granted, Undecided, ApprovalInv, ApprovedAgree, DirectoryAgrees
<1> QED BY <1>1, <1>2, <1>3, GrantsApproved, ApprovedRequestsAgree, PTL DEF Spec

=============================================================================
