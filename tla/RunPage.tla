------------------------------ MODULE RunPage ------------------------------
(***************************************************************************)
(* The page of a run in the browser (features/runs): the query of the run, *)
(* which is read again from time to time, the poller of its log, the       *)
(* dialogs in which a run is cancelled, approved or rejected, and what the *)
(* service does to the run meanwhile.  One instance of the page shows one  *)
(* run after another when a link leads from run to run.                    *)
(***************************************************************************)
EXTENDS Naturals, Sequences, FiniteSets

CONSTANTS Runs, NoRun,
          Mine,       \* the runs the user asked for (sameUser)
          OpenHours,  \* an approved or queued run may start at any time
          Watched,    \* the run was looked up before its page is opened
          Chatty,     \* bound: the runs that write a log
          QuietPages, \* bound: no page is left while a question is open
          PageSize,   \* log lines in an answer
          MaxLog,     \* bound: log lines of a run
          MaxSteps    \* bound: steps of the user

ASSUME RunPageAssumption ==
    /\ NoRun \notin Runs /\ Mine \subseteq Runs /\ Chatty \subseteq Runs
    /\ {OpenHours, Watched, QuietPages} \subseteq BOOLEAN
    /\ PageSize \in Nat \ {0} /\ {MaxLog, MaxSteps} \subseteq Nat

VARIABLES run,      \* the service: status and number of log lines of each run
          id,       \* the run the page shows
          cache,    \* the query of each run: its status, or "none"
          reading,  \* answers to these queries, on their way
          log,      \* useRunLog: lines, the last one's number, status, loaded
          awaits,   \* the poller pauses, for the run awaits its approval
          poll,     \* the poller: "idle", "timer" or "asked"
          question, \* the confirmation that is open, and whom it will hit
          decision, \* the dialog of the approval panel
          orders,   \* answers to mutations, on their way
          steps     \* history: steps of the user

runPageVars == <<run, id, cache, reading, log, awaits, poll, question, decision, orders, steps>>
looks == <<log, awaits, poll>>
dialogs == <<question, decision>>

Statuses == {"AwaitingApproval", "Scheduled", "Queued", "Running",
             "Finished", "Cancelled", "Rejected"}
Active == {"Queued", "Running"}
Ends == {"Finished", "Cancelled", "Rejected"}
NoDetail == Statuses \cup {"none"}

\* Twice the rank of the page, which puts Scheduled halfway.
StatusRank(s) ==
    CASE s = "AwaitingApproval" -> 0 [] s = "Scheduled" -> 1 [] s = "Queued" -> 2
      [] s = "Running" -> 4 [] s \in Ends -> 6

NoQuestion == [op |-> "none", named |-> NoRun, hits |-> NoRun, asker |-> FALSE]
NoPoll == [at |-> "idle", status |-> "none", least |-> 0]
Line == [of : Runs, seq : 1..MaxLog]

RunPageType ==
    /\ run \in [Runs -> [status : Statuses, log : 0..MaxLog]]
    /\ id \in Runs \cup {NoRun}
    /\ cache \in [Runs -> NoDetail]
    /\ reading \subseteq [of : Runs, status : Statuses]
    /\ log.lines \in Seq(Line) /\ log.after \in 0..MaxLog
    /\ log.status \in NoDetail /\ log.loaded \in BOOLEAN
    /\ awaits \in BOOLEAN
    /\ poll \in [at : {"idle", "timer", "asked"}, status : NoDetail, least : 0..MaxLog]
    /\ question.named \in Runs \cup {NoRun} /\ question.hits \in Runs \cup {NoRun}
    /\ decision \in {"none", "approve", "reject"}
    /\ \A o \in orders : o.of \in Runs /\ o.status \in Statuses
    /\ steps \in 0..MaxSteps

Asked(r) == [at |-> "asked", status |-> run[r].status, least |-> run[r].log]
EmptyLog(s) == [lines |-> <<>>, after |-> 0, status |-> s, loaded |-> FALSE]

RunPageInit ==
    /\ run \in [Runs -> {[status |-> s, log |-> 0] : s \in {"AwaitingApproval", "Queued"}}]
    /\ id = NoRun
    /\ cache = [r \in Runs |-> IF Watched THEN run[r].status ELSE "none"]
    /\ reading = {} /\ orders = {}
    /\ log = EmptyLog("none") /\ awaits = FALSE /\ poll = NoPoll
    /\ question = NoQuestion /\ decision = "none" /\ steps = 0

\* What the page shows: the poller sees changes earlier than the query, but
\* only a later state is believed.
Shown ==
    IF log.status # "none" /\ cache[id] # "none" /\ StatusRank(log.status) > StatusRank(cache[id])
    THEN log.status ELSE cache[id]

-----------------------------------------------------------------------------
\* The service.

AfterApproval == IF OpenHours THEN {"Queued"} ELSE {"Queued", "Scheduled"}

MovesOn(s) ==
    CASE s = "AwaitingApproval" -> AfterApproval \cup {"Rejected", "Cancelled"}
      [] s = "Scheduled" -> {"Queued", "Cancelled"}
      [] s = "Queued" -> {"Running", "Cancelled"} \cup (IF OpenHours THEN {} ELSE {"Scheduled"})
      [] s = "Running" -> Ends \ {"Rejected"}
      [] OTHER -> {}

ServiceMoves(r, s) ==
    /\ s \in MovesOn(run[r].status)
    /\ run' = [run EXCEPT ![r].status = s]
    /\ UNCHANGED <<id, cache, reading, looks, dialogs, orders, steps>>

WritesLine(r) ==
    /\ r \in Chatty /\ run[r].status = "Running" /\ run[r].log < MaxLog
    /\ run' = [run EXCEPT ![r].log = @ + 1]
    /\ UNCHANGED <<id, cache, reading, looks, dialogs, orders, steps>>

-----------------------------------------------------------------------------
(***************************************************************************)
(* The effects of the page after its run or the query of its run changed.  *)
(* The poller starts anew with another run, and when the run begins or     *)
(* ceases to await its approval; else it goes on as it is.                 *)
(***************************************************************************)
KeptLog(r) == log    \* mutant

LogOf(r) == IF r = id THEN log ELSE EmptyLog(log.status)

Looks(r, known) ==
    LET awaiting == known = "AwaitingApproval"
    IN /\ awaits' = awaiting
       /\ IF r = id /\ awaiting = awaits THEN UNCHANGED <<log, poll>>
          ELSE IF awaiting
          THEN /\ log' = [LogOf(r) EXCEPT !.status = "AwaitingApproval", !.loaded = TRUE]
               /\ poll' = NoPoll
          ELSE log' = LogOf(r) /\ poll' = Asked(r)

\* A query that is invalidated is read anew; a run of it on its way is dropped.
Refreshed(r) == {d \in reading : d.of # r} \cup
                (IF r = id THEN {[of |-> r, status |-> run[r].status]} ELSE {})

Open(r) ==
    /\ r # id /\ steps < MaxSteps /\ steps' = steps + 1
    /\ QuietPages => question = NoQuestion /\ decision = "none"
    /\ id' = r
    /\ IF id = NoRun
       THEN /\ awaits' = (cache[r] = "AwaitingApproval")
            /\ log' = [EmptyLog(cache[r]) EXCEPT !.loaded = awaits']
            /\ poll' = IF awaits' THEN NoPoll ELSE Asked(r)
            /\ UNCHANGED question
       ELSE /\ Looks(r, cache[r])
            /\ question' = IF question.asker THEN [question EXCEPT !.hits = r] ELSE question
    /\ decision' = IF cache[r] = "AwaitingApproval" THEN decision ELSE "none"
    /\ UNCHANGED <<run, cache, reading, orders>>

Leave ==
    /\ id # NoRun /\ (QuietPages => question = NoQuestion)
    /\ id' = NoRun /\ awaits' = FALSE /\ log' = EmptyLog("none") /\ poll' = NoPoll
    /\ question' = [question EXCEPT !.asker = FALSE] /\ decision' = "none"
    /\ UNCHANGED <<run, cache, reading, orders, steps>>

ReadDetail ==
    /\ id # NoRun /\ reading = {}
    /\ reading' = reading \cup {[of |-> id, status |-> run[id].status]}
    /\ UNCHANGED <<run, id, cache, looks, dialogs, orders, steps>>

\* The panel goes away with the status it is for.
KnowsStatus(r, s) ==
    /\ cache' = [cache EXCEPT ![r] = s]
    /\ IF r = id
       THEN Looks(id, s) /\ decision' = IF s = "AwaitingApproval" THEN decision ELSE "none"
       ELSE UNCHANGED <<looks, decision>>

DetailArrives(d) ==
    /\ reading' = reading \ {d}
    /\ KnowsStatus(d.of, d.status)
    /\ UNCHANGED <<run, id, question, orders, steps>>

DetailFails(d) ==
    /\ reading' = reading \ {d}
    /\ UNCHANGED <<run, id, cache, looks, dialogs, orders, steps>>

-----------------------------------------------------------------------------
(***************************************************************************)
(* The poller.  The service reads the status before the lines; an answer   *)
(* that is full is followed by the next request at once, and the status    *)
(* counts only when the log is drained.                                    *)
(***************************************************************************)
Least2(a, b) == IF a < b THEN a ELSE b

AnswerIsFull(n) == n >= PageSize

PollArrives(upto) ==
    /\ poll.at = "asked"
    /\ upto \in poll.least..run[id].log
    /\ LET last == Least2(upto, log.after + PageSize)
           more == AnswerIsFull(last - log.after)
           lines == log.lines \o
                      [i \in 1..(last - log.after) |-> [of |-> id, seq |-> log.after + i]]
           ended == ~more /\ log.status \in Active /\ poll.status \notin Active
       IN /\ last >= log.after
          /\ log' = [lines |-> lines, after |-> last,
                     status |-> IF more THEN log.status ELSE poll.status,
                     loaded |-> log.loaded \/ ~more]
          /\ poll' = IF more THEN Asked(id)
                     ELSE IF poll.status \in Active THEN [NoPoll EXCEPT !.at = "timer"] ELSE NoPoll
          /\ reading' = IF ended THEN Refreshed(id) ELSE reading
    /\ UNCHANGED <<run, id, cache, awaits, dialogs, orders, steps>>

PollFails ==
    /\ poll.at = "asked"
    /\ poll' = [NoPoll EXCEPT !.at = "timer"]
    /\ log' = [log EXCEPT !.loaded = TRUE]
    /\ UNCHANGED <<run, id, cache, reading, awaits, dialogs, orders, steps>>

TimerFires ==
    /\ poll.at = "timer" /\ poll' = Asked(id)
    /\ UNCHANGED <<run, id, cache, reading, log, awaits, dialogs, orders, steps>>

-----------------------------------------------------------------------------
(***************************************************************************)
(* The user cancels a run, withdraws a request or decides one.  A question *)
(* is asked above all pages; its answer starts the mutation of the page    *)
(* that asked, which takes the run that page shows by then.                *)
(***************************************************************************)
CanCancel == Shown \in Active \cup {"Scheduled"}
CanWithdraw == Shown = "AwaitingApproval" /\ id \in Mine
CanDecide == Shown = "AwaitingApproval" /\ id \notin Mine

Ask ==
    /\ id # NoRun /\ cache[id] # "none" /\ (CanCancel \/ CanWithdraw)
    /\ question = NoQuestion /\ decision = "none" /\ steps < MaxSteps /\ steps' = steps + 1
    /\ question' = [op |-> "cancel", named |-> id, hits |-> id, asker |-> TRUE]
    /\ UNCHANGED <<run, id, cache, reading, looks, decision, orders>>

Dismiss ==
    /\ question # NoQuestion /\ question' = NoQuestion
    /\ UNCHANGED <<run, id, cache, reading, looks, decision, orders, steps>>

\* What the service makes of an order, and the answer on its way.
Carries(op, r, s) ==
    \/ /\ s \in MovesOn(run[r].status)
       /\ run' = [run EXCEPT ![r].status = s]
       /\ \E reply \in {"done", "lost"} :
             orders' = orders \cup {[op |-> op, of |-> r, reply |-> reply, status |-> s]}
    \/ /\ s \notin MovesOn(run[r].status)
       /\ orders' = orders \cup
                       {[op |-> op, of |-> r, reply |-> "refused", status |-> run[r].status]}
       /\ UNCHANGED run

ConfirmQuestion ==
    /\ question # NoQuestion /\ question' = NoQuestion
    /\ \A o \in orders : o.op # "cancel"
    /\ Carries("cancel", question.hits, "Cancelled")
    /\ UNCHANGED <<id, cache, reading, looks, decision, steps>>

OpenDecision(d) ==
    /\ id # NoRun /\ cache[id] # "none" /\ CanDecide
    /\ decision = "none" /\ question = NoQuestion /\ steps < MaxSteps /\ steps' = steps + 1
    /\ decision' = d
    /\ UNCHANGED <<run, id, cache, reading, looks, question, orders>>

CloseDecision ==
    /\ decision # "none" /\ decision' = "none"
    /\ UNCHANGED <<run, id, cache, reading, looks, question, orders, steps>>

Decide ==
    /\ decision # "none" /\ \A o \in orders : o.op # "decide"
    /\ \E s \in IF decision = "approve" THEN AfterApproval ELSE {"Rejected"} :
          IF run[id].status = "AwaitingApproval" THEN Carries("decide", id, s)
          ELSE /\ orders' = orders \cup {[op |-> "decide", of |-> id, reply |-> "refused",
                                          status |-> run[id].status]}
               /\ UNCHANGED run
    /\ UNCHANGED <<id, cache, reading, looks, dialogs, steps>>

\* The answer to a decision is merged into the query before it is read anew.
OrderAnswered(o) ==
    /\ orders' = orders \ {o}
    /\ CASE o.reply = "lost" -> UNCHANGED <<cache, reading, looks, decision>>
         [] o.reply = "refused" /\ o.op = "cancel" -> UNCHANGED <<cache, reading, looks, decision>>
         [] o.reply = "refused" /\ o.op = "decide" ->
                /\ reading' = Refreshed(o.of) /\ decision' = "none" /\ UNCHANGED <<cache, looks>>
         [] o.reply = "done" /\ o.op = "cancel" ->
                reading' = Refreshed(o.of) /\ UNCHANGED <<cache, looks, decision>>
         [] o.reply = "done" /\ o.op = "decide" ->
                /\ reading' = Refreshed(o.of)
                /\ IF cache[o.of] = "none" THEN UNCHANGED <<cache, looks, decision>>
                   ELSE KnowsStatus(o.of, o.status)
    /\ UNCHANGED <<run, id, question, steps>>

-----------------------------------------------------------------------------
RunPageNext ==
    \/ \E r \in Runs, s \in Statuses : ServiceMoves(r, s)
    \/ \E r \in Runs : WritesLine(r) \/ Open(r)
    \/ Leave \/ ReadDetail
    \/ \E d \in reading : DetailArrives(d) \/ DetailFails(d)
    \/ \E upto \in 0..MaxLog : PollArrives(upto)
    \/ PollFails \/ TimerFires
    \/ Ask \/ Dismiss \/ ConfirmQuestion
    \/ \E d \in {"approve", "reject"} : OpenDecision(d)
    \/ CloseDecision \/ Decide
    \/ \E o \in orders : OrderAnswered(o)

RunPageSpec == RunPageInit /\ [][RunPageNext]_runPageVars

-----------------------------------------------------------------------------
\* The lines on the screen are the first lines of the run that is shown, each
\* once and in order, whichever answers came late, failed or were given up.
LogIsItsOwn ==
    id # NoRun => /\ Len(log.lines) = log.after /\ log.after <= run[id].log
                  /\ \A i \in 1..log.after : log.lines[i] = [of |-> id, seq |-> i]

\* When the poller reports that the run has ended, no line is missing: it
\* stops, and what it has not shown by then would never be shown.
EndIsComplete ==
    poll.at = "idle" /\ log.after > 0 /\ log.status \in Ends => log.after = run[id].log

\* "Polls every second while the run is active" (run-log.tsx).
PollsWhileActive ==
    id # NoRun /\ cache[id] \in Active => poll.at # "idle" \/ log.status \in Ends

\* A confirmed question cancels the run it named.
CancelsWhatWasAsked == question.named = question.hits
=============================================================================
