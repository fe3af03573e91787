----------------------------- MODULE RunContract -----------------------------
(***************************************************************************)
(* What the run pipeline promises, without requests, queues and workers:   *)
(* the life of a run as the user manual tells it (bedienung.md, states of  *)
(* a run), with at most one run being executed and every end final.        *)
(***************************************************************************)
CONSTANTS
    Runs,       \* ids of runs
    Nobody      \* no id

VARIABLES
    status,     \* state of each run
    executing   \* the run being executed, or Nobody
cvars == <<status, executing>>

Waiting == {"AwaitingApproval", "Scheduled", "Queued"}
Ends == {"Succeeded", "Failed", "Cancelled", "Rejected"}

CInit == status = [r \in Runs |-> "None"] /\ executing = Nobody

Move(r, from, to) == status[r] \in from /\ status' = [status EXCEPT ![r] = to]

CSubmit(r) == (\E s \in Waiting : Move(r, {"None"}, s)) /\ UNCHANGED executing
CApprove(r) == (\E s \in {"Scheduled", "Queued"} : Move(r, {"AwaitingApproval"}, s)) /\ UNCHANGED executing
CReject(r) == Move(r, {"AwaitingApproval"}, "Rejected") /\ UNCHANGED executing
CCancel(r) == Move(r, Waiting, "Cancelled") /\ UNCHANGED executing
CDefer(r) == Move(r, {"Queued"}, "Scheduled") /\ UNCHANGED executing
CRelease(r) == Move(r, {"Scheduled"}, "Queued") /\ UNCHANGED executing
CStart(r) == executing = Nobody /\ Move(r, {"Queued"}, "Running") /\ executing' = r
CFinish(r) ==
    /\ executing = r
    /\ \E s \in {"Succeeded", "Failed", "Cancelled"} : Move(r, {"Running"}, s)
    /\ executing' = Nobody
\* The service lost track of the run: it crashed, or could not store the outcome.
CLose == executing # Nobody /\ executing' = Nobody /\ UNCHANGED status
\* On start every run still called running is one nobody executes.
CRecover ==
    /\ executing = Nobody
    /\ status' = [r \in Runs |-> IF status[r] = "Running" THEN "Failed" ELSE status[r]]
    /\ UNCHANGED executing

CNext ==
    \/ \E r \in Runs : \/ CSubmit(r) \/ CApprove(r) \/ CReject(r) \/ CCancel(r)
                       \/ CDefer(r) \/ CRelease(r) \/ CStart(r) \/ CFinish(r)
    \/ CLose \/ CRecover

CSpec == CInit /\ [][CNext]_cvars
=============================================================================
