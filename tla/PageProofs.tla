----------------------------- MODULE PageProofs -----------------------------
(* What the pages of the web interface keep, for every size of their constants: *)
(* the run page, the deploy page, the forms of the settings, the lists, the     *)
(* session and the import page.                                                 *)
EXTENDS RunPage, DeployPage, SettingsForms, AdminLists, Session, ConfigImport,
        NaturalExtrema, FiniteSetTheorems, SequenceTheorems, TLAPS

-----------------------------------------------------------------------------
(***************************************************************************)
(* The run page.                                                           *)
(***************************************************************************)
\* The types; a question that is open is about a run, and a decision is open
\* only on the page of a run.
RunTypes ==
    /\ run \in [Runs -> [status : Statuses, log : 0..MaxLog]]
    /\ id \in Runs \cup {NoRun}
    /\ cache \in [Runs -> NoDetail]
    /\ reading \subseteq [of : Runs, status : Statuses]
    /\ log \in [lines : Seq(Line), after : 0..MaxLog, status : NoDetail, loaded : BOOLEAN]
    /\ awaits \in BOOLEAN
    /\ poll \in [at : {"idle", "timer", "asked"}, status : NoDetail, least : 0..MaxLog]
    /\ question \in [op : {"none", "cancel"}, named : Runs \cup {NoRun},
                     hits : Runs \cup {NoRun}, asker : BOOLEAN]
    /\ decision \in {"none", "approve", "reject"}
    /\ orders \subseteq [op : {"cancel", "decide"}, of : Runs, reply : {"done", "lost", "refused"},
                         status : Statuses]
    /\ steps \in 0..MaxSteps
    /\ question # NoQuestion => question.hits \in Runs
    /\ decision # "none" => id # NoRun

\* What the poller was told when it asked: of a run that had ended, all there
\* will be.
PollInv ==
    poll.at # "idle" => /\ id # NoRun
                        /\ poll.at = "asked" =>
                             /\ poll.least <= run[id].log
                             /\ poll.status \in Ends =>
                                  run[id].status \in Ends /\ poll.least = run[id].log

\* The log of a run that has ended stays complete, for the run writes no more.
EndInv ==
    poll.at = "idle" /\ log.after > 0 /\ log.status \in Ends =>
        id # NoRun /\ run[id].status \in Ends /\ log.after = run[id].log

NothingShown == id = NoRun => log.after = 0

RunPageInv == RunTypes /\ LogIsItsOwn /\ PollInv /\ EndInv /\ NothingShown

LEMMA RunPageInvInit == RunPageInit => RunPageInv
<1> SUFFICES ASSUME RunPageInit PROVE RunPageInv
    OBVIOUS
<1> USE RunPageAssumption
<1>1. 0 \in 0..MaxLog /\ 0 \in 0..MaxSteps
      OBVIOUS
<1>2. run \in [Runs -> [status : Statuses, log : 0..MaxLog]]
      BY <1>1 DEF RunPageInit, Statuses
<1>3. cache \in [Runs -> NoDetail]
      BY <1>2 DEF RunPageInit, NoDetail
<1>4. log \in [lines : Seq(Line), after : 0..MaxLog, status : NoDetail, loaded : BOOLEAN]
      BY <1>1 DEF RunPageInit, EmptyLog, NoDetail
<1>5. poll \in [at : {"idle", "timer", "asked"}, status : NoDetail, least : 0..MaxLog]
      BY <1>1 DEF RunPageInit, NoPoll, NoDetail
<1>6. RunTypes
      BY <1>1, <1>2, <1>3, <1>4, <1>5 DEF RunPageInit, RunTypes, NoQuestion
<1> QED BY <1>6 DEF RunPageInit, RunPageInv, LogIsItsOwn, PollInv, EndInv, NothingShown, NoPoll, EmptyLog

-----------------------------------------------------------------------------
\* What the service does to a run only moves it on.
Moved ==
    /\ run' \in [Runs -> [status : Statuses, log : 0..MaxLog]]
    /\ \A r \in Runs : /\ run[r].log <= run'[r].log
                       /\ run[r].status \in Ends => run'[r] = run[r]

LEMMA MovedKeeps ==
    ASSUME RunPageInv, Moved, RunTypes', UNCHANGED <<id, log, poll>>
    PROVE  RunPageInv'
<1> USE DEF RunPageInv
<1>1. id # NoRun => id \in Runs
      BY DEF RunTypes
<1>2. id # NoRun => run[id].log \in Nat /\ run'[id].log \in Nat /\ run[id].log <= run'[id].log
      BY <1>1 DEF RunTypes, Moved
<1>3. log.after \in Nat /\ poll.least \in Nat
      BY DEF RunTypes
<1>4. LogIsItsOwn'
      BY <1>2, <1>3 DEF LogIsItsOwn
<1>5. PollInv'
      BY <1>1, <1>2, <1>3 DEF PollInv, Moved
<1>6. EndInv'
      BY <1>1, <1>2, <1>3 DEF EndInv, Moved
<1> QED BY <1>4, <1>5, <1>6 DEF NothingShown

LEMMA StatusMoves ==
    ASSUME RunTypes, NEW r \in Runs, NEW s \in Statuses, s \in MovesOn(run[r].status),
           run' = [run EXCEPT ![r].status = s]
    PROVE  Moved
<1>1. run[r].status \notin Ends
      BY DEF MovesOn, Ends
<1>2. run[r] \in [status : Statuses, log : 0..MaxLog]
      BY DEF RunTypes
<1>3. [run[r] EXCEPT !.status = s] \in [status : Statuses, log : 0..MaxLog]
      /\ [run[r] EXCEPT !.status = s].log = run[r].log
      BY <1>2
<1>4. run' = [run EXCEPT ![r] = [run[r] EXCEPT !.status = s]]
      BY DEF RunTypes
<1>5. \A q \in Runs : run'[q] = IF q = r THEN [run[r] EXCEPT !.status = s] ELSE run[q]
      BY <1>4 DEF RunTypes
<1>6. \A q \in Runs : run[q].log \in Nat
      BY RunPageAssumption DEF RunTypes
<1>7. run' \in [Runs -> [status : Statuses, log : 0..MaxLog]]
      BY <1>3, <1>4 DEF RunTypes
<1> QED BY <1>1, <1>3, <1>5, <1>6, <1>7 DEF Moved

LEMMA LineMoves ==
    ASSUME RunTypes, NEW r \in Runs, WritesLine(r)
    PROVE  Moved
<1>1. run[r] \in [status : Statuses, log : 0..MaxLog] /\ run[r].log < MaxLog
      /\ run[r].status \notin Ends
      BY DEF RunTypes, WritesLine, Ends
<1> DEFINE new == [run[r] EXCEPT !.log = @ + 1]
<1>2. new \in [status : Statuses, log : 0..MaxLog] /\ run[r].log <= new.log
      BY <1>1, RunPageAssumption
<1>3. run' = [run EXCEPT ![r] = new]
      BY DEF RunTypes, WritesLine
<1> HIDE DEF new
<1>4. \A q \in Runs : run'[q] = IF q = r THEN new ELSE run[q]
      BY <1>3 DEF RunTypes
<1>5. \A q \in Runs : run[q].log \in Nat
      BY RunPageAssumption DEF RunTypes
<1>6. run' \in [Runs -> [status : Statuses, log : 0..MaxLog]]
      BY <1>2, <1>3 DEF RunTypes
<1> QED BY <1>1, <1>2, <1>4, <1>5, <1>6 DEF Moved

LEMMA NothingMoves == ASSUME RunTypes, UNCHANGED run PROVE Moved
<1>1. \A r \in Runs : run[r].log \in Nat
      BY RunPageAssumption DEF RunTypes
<1> QED BY <1>1 DEF Moved, RunTypes

-----------------------------------------------------------------------------
\* The effects of the page.
LEMMA AskedFits ==
    ASSUME RunTypes, NEW r \in Runs
    PROVE  /\ Asked(r) \in [at : {"idle", "timer", "asked"}, status : NoDetail, least : 0..MaxLog]
           /\ Asked(r).at = "asked" /\ Asked(r).status = run[r].status
           /\ Asked(r).least = run[r].log /\ run[r].log \in Nat
BY RunPageAssumption DEF RunTypes, Asked, NoDetail

LEMMA LogOfFits ==
    ASSUME RunTypes, NEW r \in Runs
    PROVE  /\ LogOf(r) \in [lines : Seq(Line), after : 0..MaxLog, status : NoDetail, loaded : BOOLEAN]
           /\ LogOf(r).lines = (IF r = id THEN log.lines ELSE <<>>)
           /\ LogOf(r).after = (IF r = id THEN log.after ELSE 0)
BY RunPageAssumption DEF RunTypes, LogOf, EmptyLog

LEMMA NoPollFits ==
    NoPoll \in [at : {"idle", "timer", "asked"}, status : NoDetail, least : 0..MaxLog]
    /\ NoPoll.at = "idle"
BY RunPageAssumption DEF NoPoll, NoDetail

\* The page shows a run and knows a status of it.
LEMMA LooksFit ==
    ASSUME RunPageInv, NEW r \in Runs, NEW known \in NoDetail, Looks(r, known), id' = r,
           UNCHANGED run
    PROVE  /\ log' \in [lines : Seq(Line), after : 0..MaxLog, status : NoDetail, loaded : BOOLEAN]
           /\ poll' \in [at : {"idle", "timer", "asked"}, status : NoDetail, least : 0..MaxLog]
           /\ awaits' \in BOOLEAN
           /\ LogIsItsOwn' /\ PollInv' /\ EndInv' /\ NothingShown'
<1> USE DEF RunPageInv
<1>1. r # NoRun /\ run[r].log \in Nat /\ Len(<<>>) = 0
      BY RunPageAssumption, AskedFits
<1>2. CASE r = id /\ (known = "AwaitingApproval") = awaits
  <2>1. UNCHANGED <<id, run, log, poll, awaits>>
        BY <1>2 DEF Looks
  <2> QED BY <2>1 DEF RunTypes, LogIsItsOwn, PollInv, EndInv, NothingShown
<1>3. CASE ~(r = id /\ (known = "AwaitingApproval") = awaits)
  <2>1. awaits' \in BOOLEAN
        BY DEF Looks
  <2>2. CASE known = "AwaitingApproval"
    <3>1. /\ log' = [LogOf(r) EXCEPT !.status = "AwaitingApproval", !.loaded = TRUE]
          /\ poll' = NoPoll
          BY <1>3, <2>2 DEF Looks
    <3>2. /\ log' \in [lines : Seq(Line), after : 0..MaxLog, status : NoDetail, loaded : BOOLEAN]
          /\ log'.lines = LogOf(r).lines /\ log'.after = LogOf(r).after
          /\ log'.status = "AwaitingApproval"
          BY <3>1, LogOfFits DEF NoDetail, Statuses
    <3>3. LogIsItsOwn'
          BY <1>1, <3>2, LogOfFits DEF LogIsItsOwn
    <3> QED BY <1>1, <2>1, <3>1, <3>2, <3>3, NoPollFits DEF PollInv, EndInv, NothingShown, Ends
  <2>3. CASE known # "AwaitingApproval"
    <3>1. log' = LogOf(r) /\ poll' = Asked(r)
          BY <1>3, <2>3 DEF Looks
    <3>2. LogIsItsOwn'
          BY <1>1, <3>1, LogOfFits DEF LogIsItsOwn
    <3>3. PollInv'
          BY <1>1, <3>1, AskedFits DEF PollInv
    <3> QED BY <1>1, <2>1, <3>1, <3>2, <3>3, LogOfFits, AskedFits DEF EndInv, NothingShown
  <2> QED BY <2>2, <2>3
<1> QED BY <1>2, <1>3

LEMMA KnowsFits ==
    ASSUME RunPageInv, NEW r \in Runs, NEW s \in Statuses, KnowsStatus(r, s), UNCHANGED <<id, run>>
    PROVE  /\ cache' \in [Runs -> NoDetail] /\ decision' \in {decision, "none"}
           /\ log' \in [lines : Seq(Line), after : 0..MaxLog, status : NoDetail, loaded : BOOLEAN]
           /\ poll' \in [at : {"idle", "timer", "asked"}, status : NoDetail, least : 0..MaxLog]
           /\ awaits' \in BOOLEAN
           /\ LogIsItsOwn' /\ PollInv' /\ EndInv' /\ NothingShown'
<1>1. cache' \in [Runs -> NoDetail] /\ s \in NoDetail
      BY DEF KnowsStatus, RunPageInv, RunTypes, NoDetail
<1>2. CASE r = id
      BY <1>1, <1>2, LooksFit DEF KnowsStatus
<1>3. CASE r # id
      BY <1>1, <1>3
      DEF KnowsStatus, looks, RunPageInv, RunTypes, LogIsItsOwn, PollInv, EndInv, NothingShown
<1> QED BY <1>2, <1>3

-----------------------------------------------------------------------------
LEMMA OpenKeeps == ASSUME RunPageInv, NEW r \in Runs, Open(r) PROVE RunPageInv'
<1> USE DEF RunPageInv
<1>1. cache[r] \in NoDetail /\ steps' \in 0..MaxSteps /\ r # NoRun
      BY RunPageAssumption DEF RunTypes, Open
<1>2. /\ question' \in [op : {"none", "cancel"}, named : Runs \cup {NoRun},
                         hits : Runs \cup {NoRun}, asker : BOOLEAN]
      /\ question' # NoQuestion => question'.hits \in Runs
  <2>1. CASE UNCHANGED question
        BY <2>1 DEF RunTypes
  <2>2. CASE question' = [question EXCEPT !.hits = r]
        BY <2>2 DEF RunTypes
  <2> QED BY <2>1, <2>2 DEF Open
<1>3. /\ log' \in [lines : Seq(Line), after : 0..MaxLog, status : NoDetail, loaded : BOOLEAN]
      /\ poll' \in [at : {"idle", "timer", "asked"}, status : NoDetail, least : 0..MaxLog]
      /\ awaits' \in BOOLEAN
      /\ LogIsItsOwn' /\ PollInv' /\ EndInv' /\ NothingShown'
  <2>1. CASE id = NoRun
    <3>1. /\ id' = r /\ run' = run /\ log' = [EmptyLog(cache[r]) EXCEPT !.loaded = awaits']
          /\ awaits' \in BOOLEAN /\ poll' \in {NoPoll, Asked(r)}
          BY <2>1 DEF Open
    <3>2. /\ log' \in [lines : Seq(Line), after : 0..MaxLog, status : NoDetail, loaded : BOOLEAN]
          /\ log'.lines = <<>> /\ log'.after = 0
      <4> DEFINE e == EmptyLog(cache[r])
      <4>1. /\ e \in [lines : Seq(Line), after : 0..MaxLog, status : NoDetail, loaded : BOOLEAN]
            /\ e.lines = <<>> /\ e.after = 0
            BY <1>1, RunPageAssumption DEF EmptyLog
      <4>2. log' = [e EXCEPT !.loaded = awaits']
            BY <3>1
      <4> HIDE DEF e
      <4> QED BY <3>1, <4>1, <4>2
    <3>3. Len(<<>>) = 0 /\ run[r].log \in Nat
          BY AskedFits
    <3>4. LogIsItsOwn'
          BY <3>1, <3>2, <3>3 DEF LogIsItsOwn
    <3>5. PollInv'
          BY <1>1, <3>1, <3>3, AskedFits, NoPollFits DEF PollInv
    <3> QED BY <3>1, <3>2, <3>4, <3>5, AskedFits, NoPollFits DEF EndInv, NothingShown
  <2>2. CASE id # NoRun
        BY <1>1, <2>2, LooksFit DEF Open
  <2> QED BY <2>1, <2>2
<1>4. RunTypes'
      BY <1>1, <1>2, <1>3 DEF RunTypes, Open
<1> QED BY <1>3, <1>4

LEMMA LeaveKeeps == RunPageInv /\ Leave => RunPageInv'
<1> SUFFICES ASSUME RunPageInv, Leave PROVE RunPageInv'
    OBVIOUS
<1> USE DEF RunPageInv
<1>1. /\ question' \in [op : {"none", "cancel"}, named : Runs \cup {NoRun},
                         hits : Runs \cup {NoRun}, asker : BOOLEAN]
      /\ question' # NoQuestion => question'.hits \in Runs
  <2>1. question' = [question EXCEPT !.asker = FALSE] /\ question'.hits = question.hits
        BY DEF Leave, RunTypes
  <2>2. question = NoQuestion => question' = NoQuestion
    <3>1. [NoQuestion EXCEPT !.asker = NoQuestion.asker] = NoQuestion /\ NoQuestion.asker = FALSE
          BY DEF NoQuestion
    <3>2. [NoQuestion EXCEPT !.asker = FALSE] = NoQuestion
          BY <3>1
    <3> QED BY <2>1, <3>2
  <2> QED BY <2>1, <2>2 DEF RunTypes
<1>2. /\ log' \in [lines : Seq(Line), after : 0..MaxLog, status : NoDetail, loaded : BOOLEAN]
      /\ log'.after = 0
      BY RunPageAssumption DEF Leave, EmptyLog, NoDetail
<1>3. RunTypes'
      BY <1>1, <1>2, NoPollFits DEF Leave, RunTypes
<1> QED BY <1>2, <1>3, NoPollFits DEF Leave, LogIsItsOwn, PollInv, EndInv, NothingShown

\* Queries read and fail, questions and decisions are opened and closed.
LEMMA QuietKeeps ==
    ASSUME RunPageInv, RunTypes', UNCHANGED <<run, id, log, poll>>
    PROVE  RunPageInv'
BY MovedKeeps, NothingMoves DEF RunPageInv

LEMMA DialogsFit ==
    ASSUME RunPageInv,
           \/ ReadDetail \/ Ask \/ Dismiss \/ CloseDecision
           \/ \E d \in {"approve", "reject"} : OpenDecision(d)
           \/ \E d \in reading : DetailFails(d)
    PROVE  RunPageInv'
<1> USE DEF RunPageInv
<1>1. UNCHANGED <<run, id, log, poll>>
      BY DEF ReadDetail, Ask, Dismiss, CloseDecision, OpenDecision, DetailFails, looks
<1>2. CASE ReadDetail
  <2>1. [of |-> id, status |-> run[id].status] \in [of : Runs, status : Statuses]
        BY <1>2 DEF ReadDetail, RunTypes
  <2>2. RunTypes'
        BY <1>2, <2>1 DEF ReadDetail, RunTypes, looks, dialogs
  <2> QED BY <1>1, <2>2, QuietKeeps
<1>3. CASE Ask
  <2>1. id \in Runs /\ question' = [op |-> "cancel", named |-> id, hits |-> id, asker |-> TRUE]
        BY <1>3 DEF Ask, RunTypes
  <2>2. question' \in [op : {"none", "cancel"}, named : Runs \cup {NoRun},
                       hits : Runs \cup {NoRun}, asker : BOOLEAN] /\ question'.hits \in Runs
        BY <2>1
  <2>3. RunTypes'
        BY <1>3, <2>2, RunPageAssumption DEF Ask, RunTypes, looks
  <2> QED BY <1>1, <2>3, QuietKeeps
<1>4. CASE Dismiss
  <2>1. RunTypes'
        BY <1>4 DEF Dismiss, RunTypes, looks, NoQuestion
  <2> QED BY <1>1, <2>1, QuietKeeps
<1>5. CASE CloseDecision \/ \E d \in {"approve", "reject"} : OpenDecision(d)
  <2>1. RunTypes'
        BY <1>5, RunPageAssumption DEF CloseDecision, OpenDecision, RunTypes, looks
  <2> QED BY <1>1, <2>1, QuietKeeps
<1>6. ASSUME NEW d \in reading, DetailFails(d) PROVE RunPageInv'
  <2>1. RunTypes'
        BY <1>6 DEF DetailFails, RunTypes, looks, dialogs
  <2> QED BY <1>1, <2>1, QuietKeeps
<1> QED BY <1>2, <1>3, <1>4, <1>5, <1>6

LEMMA DetailKeeps == ASSUME RunPageInv, NEW d \in reading, DetailArrives(d) PROVE RunPageInv'
<1>1. d \in [of : Runs, status : Statuses]
      BY DEF RunPageInv, RunTypes
<1>2. /\ cache' \in [Runs -> NoDetail] /\ decision' \in {decision, "none"}
      /\ log' \in [lines : Seq(Line), after : 0..MaxLog, status : NoDetail, loaded : BOOLEAN]
      /\ poll' \in [at : {"idle", "timer", "asked"}, status : NoDetail, least : 0..MaxLog]
      /\ awaits' \in BOOLEAN
      /\ LogIsItsOwn' /\ PollInv' /\ EndInv' /\ NothingShown'
      BY <1>1, KnowsFits DEF DetailArrives
<1>3. RunTypes'
      BY <1>2 DEF RunPageInv, RunTypes, DetailArrives
<1> QED BY <1>2, <1>3 DEF RunPageInv

-----------------------------------------------------------------------------
\* The poller.
LEMMA RefreshedFits ==
    ASSUME RunTypes, NEW r \in Runs PROVE Refreshed(r) \subseteq [of : Runs, status : Statuses]
BY DEF RunTypes, Refreshed

LEMMA PollArrivesKeeps ==
    ASSUME RunPageInv, NEW upto \in 0..MaxLog, PollArrives(upto)
    PROVE  RunPageInv'
<1> USE DEF RunPageInv
<1> DEFINE last == Least2(upto, log.after + PageSize)
           more == AnswerIsFull(last - log.after)
           new == [i \in 1..(last - log.after) |-> [of |-> id, seq |-> log.after + i]]
<1>1. id \in Runs /\ id # NoRun /\ poll.at = "asked"
      BY DEF PollArrives, PollInv, RunTypes
<1>2. /\ upto \in Nat /\ log.after \in Nat /\ PageSize \in Nat \ {0} /\ run[id].log \in Nat
      /\ poll.least \in Nat /\ poll.least <= upto /\ upto <= run[id].log /\ run[id].log <= MaxLog
      /\ MaxLog \in Nat
      BY <1>1, RunPageAssumption DEF PollArrives, RunTypes
<1>3. /\ last \in Nat /\ last >= log.after /\ last <= upto
      /\ ~more => last = upto
      BY <1>2 DEF PollArrives, Least2, AnswerIsFull
<1>4. /\ log' = [lines |-> log.lines \o new, after |-> last,
                 status |-> IF more THEN log.status ELSE poll.status,
                 loaded |-> log.loaded \/ ~more]
      /\ poll' = IF more THEN Asked(id)
                 ELSE IF poll.status \in Active THEN [NoPoll EXCEPT !.at = "timer"] ELSE NoPoll
      /\ reading' \in {Refreshed(id), reading}
      /\ UNCHANGED <<run, id, cache, awaits, dialogs, orders, steps>>
      BY DEF PollArrives
<1> HIDE DEF last, more
<1>5. new \in Seq(Line) /\ Len(new) = last - log.after
      /\ \A i \in 1..(last - log.after) : new[i] = [of |-> id, seq |-> log.after + i]
  <2>1. last - log.after \in Nat /\ \A i \in 1..(last - log.after) : log.after + i \in 1..MaxLog
        BY <1>2, <1>3
  <2>2. \A i \in 1..(last - log.after) : [of |-> id, seq |-> log.after + i] \in Line
        BY <1>1, <2>1 DEF Line
  <2> QED BY <2>1, <2>2
<1> HIDE DEF new
<1>6. log.lines \in Seq(Line) /\ Len(log.lines) = log.after
      /\ \A i \in 1..log.after : log.lines[i] = [of |-> id, seq |-> i]
      BY <1>1 DEF RunTypes, LogIsItsOwn
<1>7. /\ log'.lines = log.lines \o new /\ log'.after = last
      /\ log'.status = IF more THEN log.status ELSE poll.status
      BY <1>4
<1> DEFINE old == log.lines
<1>8. /\ old \o new \in Seq(Line) /\ Len(old \o new) = Len(old) + Len(new)
      /\ \A i \in 1..Len(old) + Len(new) :
            (old \o new)[i] = IF i <= Len(old) THEN old[i] ELSE new[i - Len(old)]
      <2>1. old \in Seq(Line)
            BY <1>6
      <2> HIDE DEF old
      <2> QED BY <1>5, <2>1, ConcatProperties
<1>9. Len(old) = log.after /\ log'.lines = old \o new
       /\ \A i \in 1..log.after : old[i] = [of |-> id, seq |-> i]
       BY <1>6, <1>7
<1> HIDE DEF old
<1>10. /\ log'.lines \in Seq(Line) /\ Len(log'.lines) = last
      /\ \A i \in 1..last : log'.lines[i] = [of |-> id, seq |-> i]
  <2>1. log'.lines \in Seq(Line) /\ Len(log'.lines) = last
        BY <1>2, <1>3, <1>5, <1>8, <1>9
  <2>2. ASSUME NEW i \in 1..last PROVE log'.lines[i] = [of |-> id, seq |-> i]
    <3>1. CASE i <= log.after
          BY <1>2, <1>3, <1>5, <1>8, <1>9, <3>1
    <3>2. CASE i > log.after
      <4>1. i - log.after \in 1..(last - log.after) /\ log.after + (i - log.after) = i
            BY <1>2, <1>3, <3>2
      <4>2. log'.lines[i] = new[i - log.after]
            BY <1>2, <1>3, <1>5, <1>8, <1>9, <3>2, SMTT(30)
      <4> QED BY <4>1, <4>2, <1>5
    <3> QED BY <1>2, <1>3, <3>1, <3>2
  <2> QED BY <2>1, <2>2
<1>11. log' \in [lines : Seq(Line), after : 0..MaxLog, status : NoDetail, loaded : BOOLEAN]
  <2>1. last \in 0..MaxLog /\ log.status \in NoDetail /\ poll.status \in NoDetail
        /\ (log.loaded \/ ~more) \in BOOLEAN /\ log.lines \o new \in Seq(Line)
        BY <1>2, <1>3, <1>7, <1>10 DEF RunTypes
  <2> QED BY <1>4, <2>1
<1>12. [NoPoll EXCEPT !.at = "timer"] \in [at : {"idle", "timer", "asked"}, status : NoDetail,
                                           least : 0..MaxLog]
       /\ [NoPoll EXCEPT !.at = "timer"].at = "timer"
       BY NoPollFits
<1>13. RunTypes'
       BY <1>1, <1>4, <1>11, <1>12, AskedFits, NoPollFits, RefreshedFits, ZenonT(40) DEF RunTypes, dialogs
<1>14. LogIsItsOwn'
       BY <1>1, <1>2, <1>3, <1>4, <1>7, <1>10 DEF LogIsItsOwn
<1>15. PollInv'
       BY <1>1, <1>2, <1>4, <1>12, AskedFits, NoPollFits DEF PollInv
<1>16. EndInv'
  <2> SUFFICES ASSUME poll'.at = "idle", log'.status \in Ends
               PROVE  run[id].status \in Ends /\ last = run[id].log
      BY <1>1, <1>4, <1>7 DEF EndInv
  <2>1. ~more
        BY <1>1, <1>4, AskedFits
  <2>2. poll.status \in Ends
        BY <1>7, <2>1
  <2> QED BY <1>1, <1>2, <1>3, <2>1, <2>2 DEF PollInv
<1> QED BY <1>1, <1>4, <1>13, <1>14, <1>15, <1>16 DEF NothingShown

LEMMA PollerKeeps == RunPageInv /\ (PollFails \/ TimerFires) => RunPageInv'
<1> SUFFICES ASSUME RunPageInv, PollFails \/ TimerFires PROVE RunPageInv'
    OBVIOUS
<1> USE DEF RunPageInv
<1>1. id \in Runs /\ id # NoRun
      BY DEF PollFails, TimerFires, PollInv, RunTypes
<1>2. CASE PollFails
  <2>1. poll' \in [at : {"idle", "timer", "asked"}, status : NoDetail, least : 0..MaxLog]
        /\ poll'.at = "timer"
        BY <1>2, NoPollFits DEF PollFails
  <2>2. log' \in [lines : Seq(Line), after : 0..MaxLog, status : NoDetail, loaded : BOOLEAN]
        /\ log'.lines = log.lines /\ log'.after = log.after
        BY <1>2 DEF PollFails, RunTypes
  <2>3. RunTypes'
        BY <1>2, <2>1, <2>2 DEF PollFails, RunTypes, dialogs
  <2> QED BY <1>1, <1>2, <2>1, <2>2, <2>3
          DEF PollFails, LogIsItsOwn, PollInv, EndInv, NothingShown
<1>3. CASE TimerFires
  <2>1. RunTypes'
        BY <1>1, <1>3, AskedFits DEF TimerFires, RunTypes, dialogs
  <2>2. PollInv'
        BY <1>1, <1>3, AskedFits DEF TimerFires, PollInv
  <2> QED BY <1>1, <1>3, <2>1, <2>2, AskedFits DEF TimerFires, LogIsItsOwn, EndInv, NothingShown
<1> QED BY <1>2, <1>3

-----------------------------------------------------------------------------
\* Mutations.
LEMMA MovesOnFits == \A s \in Statuses : MovesOn(s) \subseteq Statuses
BY DEF MovesOn, Statuses, AfterApproval, Ends

LEMMA CarriesFits ==
    ASSUME RunTypes, NEW op \in {"cancel", "decide"}, NEW r \in Runs, NEW s \in Statuses,
           Carries(op, r, s)
    PROVE  /\ Moved
           /\ orders' \subseteq [op : {"cancel", "decide"}, of : Runs,
                                 reply : {"done", "lost", "refused"}, status : Statuses]
<1>1. CASE s \in MovesOn(run[r].status)
  <2>1. run' = [run EXCEPT ![r].status = s]
        BY <1>1 DEF Carries
  <2>2. PICK reply \in {"done", "lost"} :
             orders' = orders \cup {[op |-> op, of |-> r, reply |-> reply, status |-> s]}
        BY <1>1 DEF Carries
  <2>3. [op |-> op, of |-> r, reply |-> reply, status |-> s]
        \in [op : {"cancel", "decide"}, of : Runs, reply : {"done", "lost", "refused"},
             status : Statuses]
        BY <2>2
  <2> QED BY <1>1, <2>1, <2>2, <2>3, StatusMoves DEF RunTypes
<1>2. CASE s \notin MovesOn(run[r].status)
  <2>1. run[r].status \in Statuses /\ UNCHANGED run
        BY <1>2 DEF Carries, RunTypes
  <2>2. [op |-> op, of |-> r, reply |-> "refused", status |-> run[r].status]
        \in [op : {"cancel", "decide"}, of : Runs, reply : {"done", "lost", "refused"},
             status : Statuses]
        BY <2>1
  <2>3. orders' = orders \cup {[op |-> op, of |-> r, reply |-> "refused", status |-> run[r].status]}
        BY <1>2 DEF Carries
  <2> QED BY <2>1, <2>2, <2>3, NothingMoves DEF RunTypes
<1> QED BY <1>1, <1>2

LEMMA ConfirmKeeps == RunPageInv /\ ConfirmQuestion => RunPageInv'
<1> SUFFICES ASSUME RunPageInv, ConfirmQuestion PROVE RunPageInv'
    OBVIOUS
<1>1. question.hits \in Runs /\ "Cancelled" \in Statuses
      BY DEF RunPageInv, RunTypes, ConfirmQuestion, Statuses
<1>2. /\ Moved
      /\ orders' \subseteq [op : {"cancel", "decide"}, of : Runs,
                            reply : {"done", "lost", "refused"}, status : Statuses]
      BY <1>1, CarriesFits DEF RunPageInv, ConfirmQuestion
<1>3. RunTypes'
      BY <1>2 DEF RunPageInv, RunTypes, ConfirmQuestion, Moved, NoQuestion, looks
<1> QED BY <1>2, <1>3, MovedKeeps DEF ConfirmQuestion, looks

LEMMA DecideKeeps == RunPageInv /\ Decide => RunPageInv'
<1> SUFFICES ASSUME RunPageInv, Decide PROVE RunPageInv'
    OBVIOUS
<1>1. id \in Runs /\ run[id].status \in Statuses
      BY DEF RunPageInv, RunTypes, Decide
<1>2. /\ Moved
      /\ orders' \subseteq [op : {"cancel", "decide"}, of : Runs,
                            reply : {"done", "lost", "refused"}, status : Statuses]
  <2>1. CASE run[id].status = "AwaitingApproval"
    <3>1. PICK s \in Statuses : Carries("decide", id, s)
          BY <2>1 DEF Decide, AfterApproval, Statuses
    <3> QED BY <1>1, <3>1, CarriesFits DEF RunPageInv
  <2>2. CASE run[id].status # "AwaitingApproval"
    <3>1. /\ orders' = orders \cup {[op |-> "decide", of |-> id, reply |-> "refused",
                                    status |-> run[id].status]}
          /\ UNCHANGED run
          BY <2>2 DEF Decide
    <3>2. [op |-> "decide", of |-> id, reply |-> "refused", status |-> run[id].status]
          \in [op : {"cancel", "decide"}, of : Runs, reply : {"done", "lost", "refused"},
               status : Statuses]
          BY <1>1
    <3> QED BY <3>1, <3>2, NothingMoves DEF RunPageInv, RunTypes
  <2> QED BY <2>1, <2>2
<1>3. RunTypes'
      BY <1>2 DEF RunPageInv, RunTypes, Decide, Moved, looks, dialogs
<1> QED BY <1>2, <1>3, MovedKeeps DEF Decide, looks

LEMMA AnswerKeeps == ASSUME RunPageInv, NEW o \in orders, OrderAnswered(o) PROVE RunPageInv'
<1> USE DEF RunPageInv
<1>1. o.of \in Runs /\ o.status \in Statuses /\ o.op \in {"cancel", "decide"}
      /\ o.reply \in {"done", "lost", "refused"}
      BY DEF RunTypes
<1>2. UNCHANGED <<run, id, question, steps>> /\ orders' \subseteq orders
      BY DEF OrderAnswered
<1>3. reading' \subseteq [of : Runs, status : Statuses]
  <2>1. reading' = reading \/ reading' = Refreshed(o.of)
        BY <1>1 DEF OrderAnswered
  <2> QED BY <1>1, <2>1, RefreshedFits DEF RunTypes
<1>4. CASE UNCHANGED <<cache, looks>>
  <2>1. decision' \in {decision, "none"}
    <3>1. decision' = decision \/ decision' = "none" \/ KnowsStatus(o.of, o.status)
          BY <1>1 DEF OrderAnswered
    <3> QED BY <3>1 DEF KnowsStatus
  <2>2. RunTypes'
        BY <1>2, <1>3, <1>4, <2>1 DEF RunTypes, looks
  <2> QED BY <1>2, <1>4, <2>2, QuietKeeps DEF looks
<1>5. CASE KnowsStatus(o.of, o.status)
  <2>1. /\ cache' \in [Runs -> NoDetail] /\ decision' \in {decision, "none"}
        /\ log' \in [lines : Seq(Line), after : 0..MaxLog, status : NoDetail, loaded : BOOLEAN]
        /\ poll' \in [at : {"idle", "timer", "asked"}, status : NoDetail, least : 0..MaxLog]
        /\ awaits' \in BOOLEAN
        /\ LogIsItsOwn' /\ PollInv' /\ EndInv' /\ NothingShown'
        BY <1>1, <1>2, <1>5, KnowsFits
  <2>2. RunTypes'
        BY <1>2, <1>3, <2>1 DEF RunTypes
  <2> QED BY <2>1, <2>2
<1>6. UNCHANGED <<cache, looks>> \/ KnowsStatus(o.of, o.status)
      BY <1>1 DEF OrderAnswered
<1> QED BY <1>4, <1>5, <1>6

-----------------------------------------------------------------------------
LEMMA RunPageInvStep == RunPageInv /\ [RunPageNext]_runPageVars => RunPageInv'
<1> SUFFICES ASSUME RunPageInv, [RunPageNext]_runPageVars PROVE RunPageInv'
    OBVIOUS
<1>1. ASSUME NEW r \in Runs, NEW s \in Statuses, ServiceMoves(r, s) PROVE RunPageInv'
  <2>1. Moved /\ UNCHANGED <<id, log, poll>>
        BY <1>1, StatusMoves DEF RunPageInv, ServiceMoves, looks
  <2>2. RunTypes'
        BY <1>1, <2>1 DEF RunPageInv, RunTypes, ServiceMoves, Moved, looks, dialogs
  <2> QED BY <2>1, <2>2, MovedKeeps
<1>2. ASSUME NEW r \in Runs, WritesLine(r) PROVE RunPageInv'
  <2>1. Moved /\ UNCHANGED <<id, log, poll>>
        BY <1>2, LineMoves DEF RunPageInv, WritesLine, looks
  <2>2. RunTypes'
        BY <1>2, <2>1 DEF RunPageInv, RunTypes, WritesLine, Moved, looks, dialogs
  <2> QED BY <2>1, <2>2, MovedKeeps
<1>3. CASE UNCHANGED runPageVars
  <2>1. RunTypes'
        BY <1>3 DEF RunPageInv, RunTypes, runPageVars
  <2> QED BY <1>3, <2>1, QuietKeeps DEF runPageVars
<1> QED
  BY <1>1, <1>2, <1>3, OpenKeeps, LeaveKeeps, DialogsFit, DetailKeeps, PollArrivesKeeps,
     PollerKeeps, ConfirmKeeps, DecideKeeps, AnswerKeeps
  DEF RunPageNext

LEMMA RunPageInvShows == RunPageInv => RunPageType /\ LogIsItsOwn /\ EndIsComplete
<1> SUFFICES ASSUME RunPageInv PROVE RunPageType /\ LogIsItsOwn /\ EndIsComplete
    OBVIOUS
<1>1. RunPageType
      BY DEF RunPageInv, RunTypes, RunPageType
<1> QED BY <1>1 DEF RunPageInv, EndInv, EndIsComplete

-----------------------------------------------------------------------------
(***************************************************************************)
(* The deploy page.                                                        *)
(***************************************************************************)
DeployForms == [mode : {"plan", "apply"}, req : Requests, filled : BOOLEAN]

\* What a question was asked about, and an offer was made for.
AskFits ==
    asks.op = "apply" =>
       /\ asks.goes = asks.named \/ (asks.goes = NoDomain /\ asks.named = here)
       /\ asks.plan # NoPlan => asks.plan = [req |-> asks.req, domain |-> asks.named]

OfferFits == offer # NoPlan => offer = [req |-> form.req, domain |-> here]

DeployPageInv ==
    DeployType /\ AskFits /\ OfferFits /\ AppliesWhatWasConfirmed /\ RequestIsPossible
      /\ (valid => plan \in Plans)

Possible(r) == (r.addOns => IncludesAllowed(r.scope)) /\ (r.scope = "none" => r.addOns)

LEMMA DeployBasics ==
    /\ NoPlan \notin Plans /\ NoDomain \notin Domains
    /\ NoAsk.op = "none" /\ NoOrder.op = "none"
    /\ NewForm \in DeployForms /\ Possible(NewForm.req)
BY DeployPageAssumption
   DEF NoPlan, Plans, NoAsk, NoOrder, NewForm, DeployForms, EmptyRequest, Requests, Possible,
       IncludesAllowed

LEMMA DefaultsFit ==
    ASSUME NEW f \in DeployForms, Possible(f.req)
    PROVE  WithDefaults(f) \in DeployForms /\ Possible(WithDefaults(f).req)
<1> DEFINE r == [scope |-> f.req.scope, addOns |-> f.req.addOns, lang |-> "de",
                 dc |-> IF f.req.dc = "" THEN "dc" ELSE f.req.dc]
           f1 == [f EXCEPT !.filled = TRUE]
           r2 == [f1.req EXCEPT !.lang = "de"]
           f2 == [f1 EXCEPT !.req = r2]
           dc == IF f2.req.dc = "" THEN "dc" ELSE f2.req.dc
           r3 == [f2.req EXCEPT !.dc = dc]
           f3 == [f2 EXCEPT !.req = r3]
<1>1. WithDefaults(f) = f3
      BY DEF WithDefaults, DeployForms, Requests
<1>2. f1 \in DeployForms /\ f1.req = f.req /\ f1.req \in Requests
      BY DEF DeployForms
<1> HIDE DEF f1
<1>3. r2 \in Requests /\ r2.scope = f.req.scope /\ r2.addOns = f.req.addOns
      BY <1>2 DEF Requests
<1> HIDE DEF r2
<1>4. f2 \in DeployForms /\ f2.req = r2
      BY <1>2, <1>3 DEF DeployForms
<1> HIDE DEF f2
<1>5. dc \in {"", "dc"}
      BY <1>3, <1>4 DEF Requests
<1> HIDE DEF dc
<1>6. r3 \in Requests /\ r3.scope = f.req.scope /\ r3.addOns = f.req.addOns
      BY <1>3, <1>4, <1>5 DEF Requests
<1> HIDE DEF r3
<1>7. f3 \in DeployForms /\ f3.req = r3
      BY <1>4, <1>6 DEF DeployForms
<1> HIDE DEF f3
<1> QED BY <1>1, <1>6, <1>7 DEF Possible

\* Every choice leads from a possible request to a possible one.
LEMMA ChosenFits ==
    ASSUME NEW r \in Requests, Possible(r), NEW q \in Chosen(r)
    PROVE  q \in Requests /\ Possible(q)
<1>1. ASSUME NEW s \in {"Full", "Part", "none"}, s = "none" => r.addOns, q = ScopeChosen(r, s)
      PROVE  q \in Requests /\ Possible(q)
  <2> DEFINE on == r.addOns /\ IncludesAllowed(s)
  <2>1. on \in BOOLEAN /\ (on => IncludesAllowed(s)) /\ (s = "none" => on)
        BY <1>1 DEF Requests, IncludesAllowed
  <2>2. q = [r EXCEPT !.scope = s, !.addOns = on]
        BY <1>1 DEF ScopeChosen, Requests
  <2> HIDE DEF on
  <2>3. q \in Requests /\ q.scope = s /\ q.addOns = on
        BY <2>1, <2>2 DEF Requests
  <2> QED BY <2>1, <2>3 DEF Possible
<1>2. ASSUME NEW on \in BOOLEAN, IncludesAllowed(r.scope), q = AddOnsSwitched(r, on)
      PROVE  q \in Requests /\ Possible(q)
  <2> DEFINE s == IF ~on /\ r.scope = "none" THEN "Full" ELSE r.scope
  <2>1. s \in {"Full", "Part", "none"} /\ IncludesAllowed(s) /\ (s = "none" => on)
        BY <1>2 DEF Requests, IncludesAllowed
  <2>2. q = [r EXCEPT !.addOns = on, !.scope = s]
        BY <1>2 DEF AddOnsSwitched, Requests
  <2> HIDE DEF s
  <2>3. q \in Requests /\ q.scope = s /\ q.addOns = on
        BY <2>1, <2>2 DEF Requests
  <2> QED BY <2>1, <2>3 DEF Possible
<1>3. CASE q = [r EXCEPT !.dc = "dc"] \/ q = [r EXCEPT !.lang = ""]
      BY <1>3 DEF Requests, Possible
<1>4. \/ \E s \in {"Full", "Part", "none"} : (s = "none" => r.addOns) /\ q = ScopeChosen(r, s)
      \/ \E on \in BOOLEAN : IncludesAllowed(r.scope) /\ q = AddOnsSwitched(r, on)
      \/ q = [r EXCEPT !.dc = "dc"] \/ q = [r EXCEPT !.lang = ""]
      BY DEF Chosen
<1> QED BY <1>1, <1>2, <1>3, <1>4

-----------------------------------------------------------------------------
LEMMA DeployPageInvInit == DeployInit => DeployPageInv
<1> SUFFICES ASSUME DeployInit PROVE DeployPageInv
    OBVIOUS
<1> QED BY DeployBasics
        DEF DeployInit, DeployPageInv, DeployType, AskFits, OfferFits, AppliesWhatWasConfirmed,
            RequestIsPossible, Possible, DeployForms

LEMMA FormKeeps ==
    ASSUME DeployPageInv, form' \in DeployForms, Possible(form'.req), offer' \in {offer, NoPlan},
           offer' # NoPlan => form'.req = form.req,
           UNCHANGED <<rules, plan, valid, here, drafts, page, asks, order>>, settings' \in BOOLEAN
    PROVE  DeployPageInv'
BY DEF DeployPageInv, DeployType, DeployForms, AskFits, OfferFits, AppliesWhatWasConfirmed,
       RequestIsPossible, Possible

LEMMA ChoicesKeep ==
    ASSUME DeployPageInv,
           \/ SettingsArrive
           \/ \E m \in {"plan", "apply"} : SelectMode(m)
           \/ \E r \in Chosen(form.req) : Choose(r)
    PROVE  DeployPageInv'
<1>1. form \in DeployForms /\ form.req \in Requests /\ Possible(form.req) /\ settings \in BOOLEAN
      BY DEF DeployPageInv, DeployType, DeployForms, RequestIsPossible, Possible
<1>2. CASE SettingsArrive
  <2>1. form' \in DeployForms /\ Possible(form'.req)
        BY <1>1, <1>2, DefaultsFit DEF SettingsArrive
  <2>2. /\ offer' \in {offer, NoPlan} /\ (offer' # NoPlan => form'.req = form.req)
        /\ settings' \in BOOLEAN
        BY <1>2 DEF SettingsArrive
  <2> QED BY <1>2, <2>1, <2>2, FormKeeps DEF SettingsArrive
<1>3. ASSUME NEW m \in {"plan", "apply"}, SelectMode(m) PROVE DeployPageInv'
  <2>1. form' \in DeployForms /\ form'.req = form.req
        BY <1>1, <1>3 DEF SelectMode, DeployForms
  <2> QED BY <1>1, <1>3, <2>1, FormKeeps DEF SelectMode
<1>4. ASSUME NEW r \in Chosen(form.req), Choose(r) PROVE DeployPageInv'
  <2>1. r \in Requests /\ Possible(r)
        BY <1>1, ChosenFits
  <2>2. form' \in DeployForms /\ form'.req = r
        BY <1>1, <1>4, <2>1 DEF Choose, DeployForms
  <2> QED BY <1>1, <1>4, <2>1, <2>2, FormKeeps DEF Choose
<1> QED BY <1>2, <1>3, <1>4

LEMMA OffersKeep == DeployPageInv /\ (OfferArrives \/ ConfigurationSaved \/ Cancelled) => DeployPageInv'
<1> SUFFICES ASSUME DeployPageInv, OfferArrives \/ ConfigurationSaved \/ Cancelled
             PROVE  DeployPageInv'
    OBVIOUS
<1>1. CASE OfferArrives
  <2>1. offer' \in Plans /\ offer' = [req |-> form.req, domain |-> here]
        /\ UNCHANGED <<rules, plan, valid, here, drafts, page, form, settings, asks, order>>
        BY <1>1 DEF OfferArrives, DeployPageInv
  <2> QED BY <2>1
          DEF DeployPageInv, DeployType, AskFits, OfferFits, AppliesWhatWasConfirmed,
              RequestIsPossible
<1>2. CASE ConfigurationSaved
  <2>1. valid' = FALSE /\ UNCHANGED <<rules, plan, here, drafts, page, form, settings, offer, asks, order>>
        BY <1>2 DEF ConfigurationSaved
  <2>2. {valid', drafts', settings'} \subseteq BOOLEAN
        BY <2>1 DEF DeployPageInv, DeployType
  <2>3. DeployType'
        BY <2>1, <2>2 DEF DeployPageInv, DeployType
  <2> QED BY <2>1, <2>3
          DEF DeployPageInv, AskFits, OfferFits, AppliesWhatWasConfirmed, RequestIsPossible
<1>3. CASE Cancelled
      BY <1>3, DeployBasics
      DEF DeployPageInv, DeployType, AskFits, OfferFits, AppliesWhatWasConfirmed, RequestIsPossible,
          Cancelled
<1> QED BY <1>1, <1>2, <1>3

\* A question that is asked.
LEMMA AskingKeeps ==
    ASSUME DeployPageInv, NEW r \in Requests, NEW p \in Plans \cup {NoPlan}, NEW named \in Domains,
           NEW goes \in Domains \cup {NoDomain}, Asking(r, p, named, goes),
           goes = named \/ (goes = NoDomain /\ named = here),
           p # NoPlan => p = [req |-> r, domain |-> named],
           UNCHANGED <<rules, plan, valid, here, drafts, page, form, settings, offer, order>>
    PROVE  DeployPageInv'
<1>1. /\ asks' \in Deployments /\ asks'.op = "apply" /\ asks'.req = r /\ asks'.plan = p
      /\ asks'.named = named /\ asks'.goes = goes
      BY DEF Asking, Deployments
<1> QED BY <1>1
        DEF DeployPageInv, DeployType, AskFits, OfferFits, AppliesWhatWasConfirmed, RequestIsPossible

LEMMA SubmitKeeps == DeployPageInv /\ (Submit \/ ApplyThisPlan) => DeployPageInv'
<1> SUFFICES ASSUME DeployPageInv, Submit \/ ApplyThisPlan PROVE DeployPageInv'
    OBVIOUS
<1>1. here \in Domains /\ form.req \in Requests /\ offer \in Plans \cup {NoPlan}
      BY DEF DeployPageInv, DeployType
<1>2. CASE Submit /\ form.mode = "plan"
  <2>1. order' = [op |-> "plan", req |-> form.req, goes |-> here]
        /\ UNCHANGED <<rules, plan, valid, here, drafts, page, form, settings, offer, asks>>
        BY <1>2 DEF Submit
  <2>2. order' \in [op : {"plan"}, req : Requests, goes : Domains] /\ order'.op = "plan"
        BY <1>1, <2>1
  <2> QED BY <2>1, <2>2
          DEF DeployPageInv, DeployType, AskFits, OfferFits, AppliesWhatWasConfirmed,
              RequestIsPossible
<1>3. CASE Submit /\ form.mode # "plan"
  <2>1. Asking(form.req, Offered, here, NoDomain)
        /\ UNCHANGED <<rules, plan, valid, here, drafts, page, form, settings, offer, order>>
        BY <1>3 DEF Submit
  <2>2. Offered \in Plans \cup {NoPlan}
        /\ (Offered # NoPlan => Offered = [req |-> form.req, domain |-> here])
        BY <1>1 DEF Offered, DeployPageInv, OfferFits
  <2> QED BY <1>1, <2>1, <2>2, AskingKeeps
<1>4. CASE ApplyThisPlan
  <2>1. plan \in Plans /\ plan.req \in Requests /\ plan.domain \in Domains
        BY <1>4 DEF ApplyThisPlan, DeployPageInv, Plans
  <2>2. plan = [req |-> plan.req, domain |-> plan.domain]
        BY <2>1 DEF Plans
  <2> QED BY <1>4, <2>1, <2>2, AskingKeeps DEF ApplyThisPlan
<1> QED BY <1>2, <1>3, <1>4

LEMMA DeployConfirmKeeps == DeployPageInv /\ ConfirmApply => DeployPageInv'
<1> SUFFICES ASSUME DeployPageInv, ConfirmApply PROVE DeployPageInv'
    OBVIOUS
<1>1. asks \in Deployments /\ here \in Domains
      BY DeployBasics DEF ConfirmApply, DeployPageInv, DeployType
<1> DEFINE goes == IF asks.goes = NoDomain THEN here ELSE asks.goes
<1>2. goes \in Domains /\ goes = asks.named
      BY <1>1, DeployBasics DEF Deployments, ConfirmApply, DeployPageInv, AskFits
<1>3. order' = [asks EXCEPT !.goes = goes]
      BY <1>1 DEF ConfirmApply, Ordered, Deployments
<1> HIDE DEF goes
<1>4. /\ order' \in Deployments /\ order'.goes = goes /\ order'.named = asks.named
      /\ order'.plan = asks.plan /\ order'.req = asks.req
      BY <1>1, <1>2, <1>3 DEF Deployments
<1>5. asks' = NoAsk /\ UNCHANGED <<rules, plan, valid, here, drafts, page, form, settings, offer>>
      BY DEF ConfirmApply
<1> QED BY <1>2, <1>4, <1>5, DeployBasics
        DEF ConfirmApply, DeployPageInv, DeployType, AskFits, OfferFits, AppliesWhatWasConfirmed,
            RequestIsPossible

\* The page that follows an answer is new.
LEMMA AnswersKeep == DeployPageInv /\ (PlanAnswered \/ ApplyAnswered \/ OrderRefused) => DeployPageInv'
<1> SUFFICES ASSUME DeployPageInv, PlanAnswered \/ ApplyAnswered \/ OrderRefused PROVE DeployPageInv'
    OBVIOUS
<1>1. order' = NoOrder /\ offer' = NoPlan /\ UNCHANGED <<rules, here, drafts, settings, asks>>
      BY DEF PlanAnswered, ApplyAnswered, OrderRefused, Arrives
<1>2. form' \in DeployForms /\ Possible(form'.req)
      BY DeployBasics
      DEF PlanAnswered, ApplyAnswered, OrderRefused, Arrives, DeployPageInv, DeployType, DeployForms,
          RequestIsPossible, Possible
<1>3. plan' \in Plans \cup {NoPlan} /\ (valid' => plan' \in Plans) /\ valid' \in BOOLEAN
  <2>1. CASE PlanAnswered
    <3>1. order.req \in Requests /\ order.goes \in Domains
          BY <2>1, DeployBasics DEF PlanAnswered, DeployPageInv, DeployType, Deployments
    <3>2. plan' = [req |-> order.req, domain |-> order.goes] /\ valid' = TRUE
          BY <2>1 DEF PlanAnswered
    <3> QED BY <3>1, <3>2 DEF Plans
  <2>2. CASE ApplyAnswered \/ OrderRefused
        BY <2>2 DEF ApplyAnswered, OrderRefused, DeployPageInv, DeployType
  <2> QED BY <2>1, <2>2
<1>4. page' \in [at : {"deploy", "plan", "other"}]
  <2>1. page' = page \/ page' = [at |-> "plan"] \/ page' = [at |-> "other"]
        BY DEF PlanAnswered, ApplyAnswered, OrderRefused, Arrives
  <2> QED BY <2>1 DEF DeployPageInv, DeployType
<1> QED BY <1>1, <1>2, <1>3, <1>4, DeployBasics
        DEF DeployPageInv, DeployType, DeployForms, AskFits, OfferFits, AppliesWhatWasConfirmed,
            RequestIsPossible, Possible

LEMMA PageKeeps ==
    ASSUME DeployPageInv, NEW at \in {"deploy", "other"}, OpenPage(at) PROVE DeployPageInv'
<1>1. form' \in DeployForms /\ Possible(form'.req)
      BY DeployBasics, DefaultsFit DEF OpenPage
<1>2. page' \in [at : {"deploy", "plan", "other"}] /\ offer' = NoPlan
      BY DEF OpenPage
<1> QED BY <1>1, <1>2
        DEF OpenPage, DeployPageInv, DeployType, DeployForms, AskFits, OfferFits, AppliesWhatWasConfirmed,
            RequestIsPossible, Possible

\* Where no other domain can be chosen while a question is open, no domain is
\* switched under it.
LEMMA SwitchKeeps ==
    ASSUME QuietDialogs, DeployPageInv, NEW d \in Domains, SwitchTo(d) \/ ConfirmSwitch
    PROVE  DeployPageInv'
<1>1. CASE SwitchTo(d) /\ drafts
  <2>1. asks' = [op |-> "switch", to |-> d]
        /\ UNCHANGED <<rules, plan, valid, here, drafts, page, form, settings, offer, order>>
        BY <1>1 DEF SwitchTo
  <2>2. asks' \in [op : {"switch"}, to : Domains] /\ asks'.op = "switch"
        BY <2>1
  <2> QED BY <2>1, <2>2
          DEF DeployPageInv, DeployType, AskFits, OfferFits, AppliesWhatWasConfirmed,
              RequestIsPossible
<1>2. CASE (SwitchTo(d) /\ ~drafts) \/ ConfirmSwitch
  <2>1. PICK to \in Domains : SwitchedHere(to)
        BY <1>2, DeployBasics DEF SwitchTo, ConfirmSwitch, DeployPageInv, DeployType, Deployments
  <2>2. asks' = NoAsk
        BY <1>2 DEF SwitchTo, ConfirmSwitch
  <2>3. /\ here' \in Domains /\ offer' = NoPlan /\ settings' = FALSE /\ form' = NewForm
        /\ UNCHANGED <<rules, plan, valid, drafts, page, order>>
        BY <2>1 DEF SwitchedHere
  <2>4. DeployType'
        BY <2>2, <2>3, DeployBasics DEF DeployPageInv, DeployType, DeployForms
  <2>5. AskFits' /\ OfferFits' /\ RequestIsPossible'
        BY <2>2, <2>3, DeployBasics DEF AskFits, OfferFits, RequestIsPossible, Possible
  <2> QED BY <2>3, <2>4, <2>5 DEF DeployPageInv, AppliesWhatWasConfirmed
<1> QED BY <1>1, <1>2

LEMMA DeployPageInvStep ==
    QuietDialogs /\ DeployPageInv /\ [DeployNext]_deployVars => DeployPageInv'
<1> SUFFICES ASSUME QuietDialogs, DeployPageInv, [DeployNext]_deployVars PROVE DeployPageInv'
    OBVIOUS
<1>1. CASE UNCHANGED deployVars
      BY <1>1 DEF deployVars, DeployPageInv, DeployType, AskFits, OfferFits,
                  AppliesWhatWasConfirmed, RequestIsPossible
<1>2. ASSUME ConfirmSwitch PROVE DeployPageInv'
  <2>1. here \in Domains
        BY DEF DeployPageInv, DeployType
  <2> QED BY <1>2, <2>1, SwitchKeeps
<1> QED BY <1>1, <1>2, ChoicesKeep, OffersKeep, SubmitKeeps, DeployConfirmKeeps, AnswersKeep, PageKeeps,
           SwitchKeeps
        DEF DeployNext

LEMMA DeployPageInvShows ==
    DeployPageInv => DeployType /\ AppliesWhatWasConfirmed /\ RequestIsPossible
BY DEF DeployPageInv

-----------------------------------------------------------------------------
(***************************************************************************)
(* The forms of the settings.                                              *)
(***************************************************************************)
Docs == [v : 1..MaxValue, type : Types, secret : Secret]
SaveAnswers == [v : 1..MaxValue, type : Types, has : BOOLEAN, mail : 0..MaxSecret]
FormSet == [v : 1..MaxValue, type : Types, typed : 0..MaxSecret, act : {"keep", "set", "clear"}]
Bodies == [how : {"form", "toggle"}, v : 1..MaxValue, type : Types,
           secret : 0..MaxSecret + 1, shown : 0..MaxSecret + 1]

\* Only the forms with a switch to remove the secret know that state, and none
\* of them holds a typed secret with it.
FormFits(f) ==
    /\ f \in FormSet
    /\ card = "smtp" /\ f.act = "keep" => f.typed = 0
    /\ f.act = "set" => card = "smtp" /\ f.typed # 0
    /\ f.act = "clear" => card \in {"smtp", "git"} /\ f.typed = 0

\* Only channels have types: elsewhere nothing ever changes it.
OneType ==
    card # "channel" => /\ stored.type = "Teams"
                        /\ seen # NotSeen => seen.type = "Teams"
                        /\ inputs # NoInputs => inputs.type = "Teams" /\ seen # NotSeen
                        /\ sending # NotSending => sending.type = "Teams"

FormsInv ==
    /\ card \in Cards /\ stored \in Docs /\ saves \in 0..MaxSaves
    /\ seen = NotSeen \/ seen \in SaveAnswers
    /\ opened = NotSeen \/ opened \in SaveAnswers
    /\ inputs = NoInputs \/ FormFits(inputs)
    /\ sending = NotSending \/ (sending \in Bodies /\ sending.secret = sending.shown)
    /\ OneType /\ SecretFitsType

LEMMA FormBounds == /\ MaxValue \in Nat /\ MaxSecret \in Nat /\ 1 \in 1..MaxValue
                    /\ MaxSecret \in 1..MaxSecret /\ MaxSaves \in Nat
                    /\ {"Email", "Teams"} \subseteq Types
BY SettingsFormsAssumption

LEMMA SecretFits ==
    ASSUME NEW s \in Secret PROVE s.n \in 0..MaxSecret
BY FormBounds DEF Secret, NoSecret

\* An answer tells the type of the document.
LEMMA VisibleFits ==
    ASSUME NEW doc \in Docs
    PROVE  Visible(doc) \in SaveAnswers /\ Visible(doc).type = doc.type /\ Visible(doc) # NotSeen
<1>1. doc.v \in 1..MaxValue /\ doc.type \in Types /\ doc.secret \in Secret
      BY DEF Docs
<1>2. (IF doc.type = "Email" THEN doc.secret.n ELSE 0) \in 0..MaxSecret
      BY <1>1, SecretFits, FormBounds
<1>3. (doc.secret # NoSecret) \in BOOLEAN
      OBVIOUS
<1>4. Visible(doc) \in SaveAnswers /\ Visible(doc).type = doc.type
      BY <1>1, <1>2, <1>3 DEF Visible, SaveAnswers
<1>5. NotSeen \notin SaveAnswers
      BY FormBounds DEF NotSeen, SaveAnswers
<1> QED BY <1>4, <1>5

\* A new form holds no secret, but the recipients of a channel.
LEMMA ToFormFits ==
    ASSUME NEW a \in SaveAnswers
    PROVE  FormFits(ToForm(a)) /\ ToForm(a).type = a.type
<1>1. a.v \in 1..MaxValue /\ a.type \in Types /\ a.mail \in 0..MaxSecret /\ 0 \in 0..MaxSecret
      BY FormBounds DEF SaveAnswers
<1>2. /\ ToForm(a) \in FormSet /\ ToForm(a).type = a.type /\ ToForm(a).act = "keep"
      /\ card # "channel" => ToForm(a).typed = 0
      BY <1>1 DEF ToForm, FormSet
<1> QED BY <1>2 DEF FormFits

LEMMA NoFormAtAll == NoInputs \notin FormSet
BY FormBounds DEF NoInputs, FormSet

-----------------------------------------------------------------------------
LEMMA FormsInvInit == FormsInit => FormsInv
<1> SUFFICES ASSUME FormsInit PROVE FormsInv
    OBVIOUS
<1>1. stored \in Docs /\ (card # "channel" => stored.type = "Teams")
      BY FormBounds DEF FormsInit, Docs
<1> QED BY <1>1, FormBounds DEF FormsInit, FormsInv, OneType, SecretFitsType

\* Changes of the form.
LEMMA FormChanges ==
    ASSUME FormsInv, FormShown, FormFits(inputs'),
           card = "channel" \/ inputs'.type = inputs.type,
           UNCHANGED <<card, stored, seen, opened, sending, saves>>
    PROVE  FormsInv'
BY DEF FormsInv, FormFits, OneType, SecretFitsType, FormShown

LEMMA FieldsKeep == FormsInv /\ Fields => FormsInv'
<1> SUFFICES ASSUME FormsInv, NEW v \in 1..MaxValue, SetField(v) PROVE FormsInv'
    BY DEF Fields
<1>1. FormFits(inputs) /\ inputs' = [inputs EXCEPT !.v = v]
      BY DEF FormsInv, SetField, FormShown
<1>2. FormFits(inputs') /\ inputs'.type = inputs.type
      BY <1>1 DEF FormFits, FormSet, SetField
<1> QED BY <1>2, FormChanges DEF SetField

LEMMA SecretFieldKeeps == FormsInv /\ SecretField => FormsInv'
<1> SUFFICES ASSUME FormsInv, NEW n \in 0..MaxSecret, TypeSecret(n) PROVE FormsInv'
    BY DEF SecretField
<1> DEFINE act == IF card = "smtp" /\ n # 0 THEN "set" ELSE "keep"
<1>1. FormFits(inputs) /\ inputs' = [inputs EXCEPT !.typed = n, !.act = act]
      BY DEF FormsInv, TypeSecret, FormShown
<1>2. act \in {"set", "keep"} /\ (act = "set" <=> card = "smtp" /\ n # 0)
      OBVIOUS
<1> HIDE DEF act
<1>3. inputs' \in FormSet /\ inputs'.typed = n /\ inputs'.act = act /\ inputs'.type = inputs.type
      BY <1>1, <1>2 DEF FormFits, FormSet
<1>4. FormFits(inputs')
      BY <1>2, <1>3 DEF FormFits, TypeSecret
<1> QED BY <1>3, <1>4, FormChanges DEF TypeSecret

LEMMA ClearKeeps == FormsInv /\ ClearSecret => FormsInv'
<1> SUFFICES ASSUME FormsInv, ClearSecret PROVE FormsInv'
    OBVIOUS
<1> DEFINE act == IF inputs.act = "clear" THEN "keep" ELSE "clear"
<1>1. FormFits(inputs) /\ inputs' = [inputs EXCEPT !.act = act, !.typed = 0]
      BY DEF FormsInv, ClearSecret, FormShown, ClearToggled
<1>2. act \in {"keep", "clear"} /\ 0 \in 0..MaxSecret
      BY FormBounds
<1> HIDE DEF act
<1>3. inputs' \in FormSet /\ inputs'.typed = 0 /\ inputs'.act = act /\ inputs'.type = inputs.type
      BY <1>1, <1>2 DEF FormFits, FormSet
<1>4. FormFits(inputs')
      BY <1>2, <1>3 DEF FormFits, ClearSecret
<1> QED BY <1>3, <1>4, FormChanges DEF ClearSecret

LEMMA TypeChoiceKeeps == FormsInv /\ TypeChoice => FormsInv'
<1> SUFFICES ASSUME FormsInv, NEW t \in Types, SetType(t) PROVE FormsInv'
    BY DEF TypeChoice
<1> DEFINE new == IF t = "Email" /\ opened.type = "Email" THEN opened.mail ELSE 0
<1>1. FormFits(inputs) /\ inputs' = [inputs EXCEPT !.type = t, !.typed = new]
      BY DEF FormsInv, SetType, FormShown
<1>2. new \in 0..MaxSecret
      BY FormBounds DEF FormsInv, SaveAnswers, NotSeen
<1> HIDE DEF new
<1>3. inputs' \in FormSet /\ inputs'.act = inputs.act
      BY <1>1, <1>2 DEF FormFits, FormSet
<1>4. FormFits(inputs')
      BY <1>1, <1>3 DEF FormFits, SetType
<1> QED BY <1>4, FormChanges DEF SetType

LEMMA ResetKeeps == FormsInv /\ Reset => FormsInv'
<1> SUFFICES ASSUME FormsInv, Reset PROVE FormsInv'
    OBVIOUS
<1>1. seen \in SaveAnswers /\ seen.type = "Teams" /\ inputs.type = "Teams"
      BY DEF FormsInv, OneType, Reset, FormShown
<1> QED BY <1>1, ToFormFits, FormChanges DEF Reset

LEMMA SheetKeeps == FormsInv /\ (ChannelCard \/ NotificationsPage) => FormsInv'
<1> SUFFICES ASSUME FormsInv, ChannelCard \/ NotificationsPage PROVE FormsInv'
    OBVIOUS
<1>1. CASE ChannelCard
  <2>1. seen \in SaveAnswers
        BY <1>1 DEF FormsInv, ChannelCard
  <2> QED BY <1>1, <2>1, ToFormFits
          DEF FormsInv, FormFits, OneType, SecretFitsType, ChannelCard
<1>2. CASE NotificationsPage
      BY <1>2 DEF FormsInv, FormFits, OneType, SecretFitsType, NotificationsPage
<1> QED BY <1>1, <1>2

-----------------------------------------------------------------------------
\* What is sent of the secret is what the form says.
LEMMA SentAsShownByTheForm ==
    ASSUME FormFits(inputs)
    PROVE  SentSecret = ShownSecret /\ SentSecret \in 0..MaxSecret + 1
<1>1. inputs.typed \in 0..MaxSecret + 1 /\ KeepIt \in 0..MaxSecret + 1
      /\ RemoveIt \in 0..MaxSecret + 1 /\ inputs.act \in {"keep", "set", "clear"}
      BY FormBounds DEF FormFits, FormSet, KeepIt, RemoveIt
<1> QED BY <1>1 DEF FormFits, SentSecret, ShownSecret, KeepIt

LEMMA FormsSubmitKeeps == FormsInv /\ SubmitForm => FormsInv'
<1> SUFFICES ASSUME FormsInv, SubmitForm PROVE FormsInv'
    OBVIOUS
<1>1. FormFits(inputs) /\ saves' \in 0..MaxSaves
      BY FormBounds DEF FormsInv, SubmitForm, FormShown, Send
<1>2. sending' = [how |-> "form", v |-> inputs.v, type |-> inputs.type,
                  secret |-> SentSecret, shown |-> ShownSecret]
      BY DEF SubmitForm, Send
<1>3. sending' \in Bodies /\ sending'.secret = sending'.shown /\ sending'.type = inputs.type
      BY <1>1, <1>2, SentAsShownByTheForm DEF FormFits, FormSet, Bodies
<1> QED BY <1>1, <1>3 DEF FormsInv, FormFits, OneType, SecretFitsType, SubmitForm, FormShown

LEMMA FormsToggleKeeps == FormsInv /\ ToggleChannel => FormsInv'
<1> SUFFICES ASSUME FormsInv, ToggleChannel PROVE FormsInv'
    OBVIOUS
<1>1. seen \in SaveAnswers /\ saves' \in 0..MaxSaves
      BY FormBounds DEF FormsInv, ToggleChannel, Send
<1>2. seen.mail \in 0..MaxSecret + 1
      BY <1>1, FormBounds DEF SaveAnswers
<1>3. sending' = [how |-> "toggle", v |-> seen.v, type |-> seen.type, secret |-> seen.mail,
                  shown |-> seen.mail]
      BY DEF ToggleChannel, Send
<1>4. sending' \in Bodies /\ sending'.secret = sending'.shown
      BY <1>1, <1>2, <1>3 DEF SaveAnswers, Bodies
<1> QED BY <1>1, <1>4 DEF FormsInv, FormFits, OneType, SecretFitsType, ToggleChannel

-----------------------------------------------------------------------------
\* The service.
LEMMA ReceivedFits ==
    ASSUME FormsInv, sending # NotSending, AcceptsSave(sending)
    PROVE  /\ Received(sending) \in Docs /\ Received(sending).type = sending.type
           /\ Received(sending).secret.of \in {sending.type, "none"}
           /\ Received(sending).secret = Told(sending.shown, sending.type, stored.secret)
<1>1. /\ sending.v \in 1..MaxValue /\ sending.type \in Types /\ sending.secret \in 0..MaxSecret + 1
      /\ sending.secret = sending.shown
      BY DEF FormsInv, Bodies
<1> DEFINE secret == CASE sending.secret = KeepIt -> stored.secret
                       [] sending.secret = RemoveIt -> NoSecret
                       [] OTHER -> [of |-> sending.type, n |-> sending.secret]
<1>2. secret \in Secret /\ secret.of \in {sending.type, "none"}
  <2>1. CASE sending.secret = KeepIt
    <3>1. secret = stored.secret /\ stored.secret \in Secret
          BY <2>1, FormBounds DEF FormsInv, Docs, KeepIt, RemoveIt
    <3>2. sending.type = stored.type
          BY <2>1 DEF FormsInv, OneType, AcceptsSave
    <3> QED BY <3>1, <3>2 DEF FormsInv, SecretFitsType
  <2>2. CASE sending.secret # KeepIt /\ sending.secret = RemoveIt
        BY <2>2 DEF Secret, NoSecret
  <2>3. CASE sending.secret # KeepIt /\ sending.secret # RemoveIt
    <3>1. sending.secret \in 1..MaxSecret
          BY <1>1, <2>3, FormBounds DEF KeepIt, RemoveIt
    <3>2. secret = [of |-> sending.type, n |-> sending.secret]
          BY <2>3
    <3> QED BY <1>1, <3>1, <3>2 DEF Secret
  <2> QED BY <2>1, <2>2, <2>3
<1>3. secret = Told(sending.shown, sending.type, stored.secret)
      BY <1>1 DEF Told
<1>4. Received(sending) = [v |-> sending.v, type |-> sending.type, secret |-> secret]
      BY DEF Received
<1> HIDE DEF secret
<1> QED BY <1>1, <1>2, <1>3, <1>4 DEF Docs

LEMMA FormsAnsweredKeeps == FormsInv /\ SaveAnswered => FormsInv'
<1> SUFFICES ASSUME FormsInv, SaveAnswered PROVE FormsInv'
    OBVIOUS
<1>1. /\ stored' \in Docs /\ stored'.type = sending.type
      /\ stored'.secret.of \in {sending.type, "none"} /\ sending # NotSending
      BY ReceivedFits DEF SaveAnswered
<1>2. SecretFitsType' /\ (card # "channel" => stored'.type = "Teams")
      BY <1>1 DEF FormsInv, OneType, SecretFitsType
<1>3. /\ Visible(stored') \in SaveAnswers /\ Visible(stored').type = stored'.type
      /\ Visible(stored') # NotSeen
      BY <1>1, VisibleFits
<1>4. /\ FormFits(ToForm(Visible(stored'))) /\ ToForm(Visible(stored')).type = stored'.type
      BY <1>3, ToFormFits
<1>5. /\ seen' = seen \/ seen' = Visible(stored')
      /\ inputs' \in {inputs, NoInputs, ToForm(Visible(stored'))}
      /\ card # "channel" => seen' = Visible(stored')
      /\ UNCHANGED <<card, opened, saves>> /\ sending' = NotSending
      BY DEF SaveAnswered, Seen
<1>6. inputs' = NoInputs \/ FormFits(inputs)'
      BY <1>4, <1>5 DEF FormsInv, FormFits
<1>7. OneType'
      BY <1>2, <1>3, <1>4, <1>5 DEF FormsInv, OneType
<1> QED BY <1>1, <1>2, <1>3, <1>5, <1>6, <1>7 DEF FormsInv

LEMMA QueryKeeps == FormsInv /\ QueryArrives => FormsInv'
<1> SUFFICES ASSUME FormsInv, QueryArrives PROVE FormsInv'
    OBVIOUS
<1>1. /\ Visible(stored) \in SaveAnswers /\ Visible(stored).type = stored.type
      /\ Visible(stored) # NotSeen
      BY VisibleFits DEF FormsInv
<1>2. FormFits(ToForm(Visible(stored))) /\ ToForm(Visible(stored)).type = stored.type
      BY <1>1, ToFormFits
<1>3. /\ seen' = Visible(stored) /\ inputs' \in {inputs, ToForm(Visible(stored))}
      /\ card = "channel" => inputs' = inputs
      /\ UNCHANGED <<card, stored, opened, sending, saves>>
      BY DEF QueryArrives, Seen
<1> QED BY <1>1, <1>2, <1>3 DEF FormsInv, FormFits, OneType, SecretFitsType

LEMMA FormsOthersKeep ==
    ASSUME FormsInv, NEW doc \in OtherDocs, OthersSave(doc) PROVE FormsInv'
<1>1. saves' \in 0..MaxSaves /\ stored' = doc /\ UNCHANGED <<card, seen, inputs, opened, sending>>
      BY FormBounds DEF OthersSave, FormsInv
<1>2. stored \in Docs
      BY DEF FormsInv
<1>3. /\ doc \in Docs /\ doc.secret.of \in {doc.type, "none"}
      /\ card # "channel" => doc.type = stored.type
  <2>1. CASE doc = [stored EXCEPT !.v = IF @ < MaxValue THEN @ + 1 ELSE 1]
    <3> DEFINE v == IF stored.v < MaxValue THEN stored.v + 1 ELSE 1
    <3>1. v \in 1..MaxValue
          BY <1>2, FormBounds DEF Docs
    <3>2. doc = [stored EXCEPT !.v = v]
          BY <2>1
    <3> HIDE DEF v
    <3> QED BY <1>2, <3>1, <3>2 DEF Docs, FormsInv, SecretFitsType
  <2>2. CASE doc = [stored EXCEPT !.secret = NoSecret]
    <3>1. NoSecret \in Secret /\ NoSecret.of = "none"
          BY DEF Secret, NoSecret
    <3> QED BY <1>2, <2>2, <3>1 DEF Docs
  <2>3. ASSUME NEW t \in Types, card = "channel",
               doc = [stored EXCEPT !.type = t, !.secret = [of |-> t, n |-> MaxSecret]]
        PROVE  doc \in Docs /\ doc.secret.of = doc.type
    <3> DEFINE s == [of |-> t, n |-> MaxSecret]
    <3>1. s \in Secret /\ s.of = t
          BY FormBounds DEF Secret
    <3>2. doc = [stored EXCEPT !.type = t, !.secret = s]
          BY <2>3
    <3> HIDE DEF s
    <3> QED BY <1>2, <3>1, <3>2 DEF Docs
  <2>4. \/ doc = [stored EXCEPT !.v = IF @ < MaxValue THEN @ + 1 ELSE 1]
        \/ doc = [stored EXCEPT !.secret = NoSecret]
        \/ card = "channel" /\ \E t \in Types :
              doc = [stored EXCEPT !.type = t, !.secret = [of |-> t, n |-> MaxSecret]]
        BY DEF OtherDocs
  <2> QED BY <2>1, <2>2, <2>3, <2>4
<1> QED BY <1>1, <1>3 DEF FormsInv, FormFits, OneType, SecretFitsType

-----------------------------------------------------------------------------
LEMMA FormsInvStep == FormsInv /\ [FormsNext]_formVars => FormsInv'
<1> SUFFICES ASSUME FormsInv, [FormsNext]_formVars PROVE FormsInv'
    OBVIOUS
<1>1. CASE UNCHANGED formVars
      BY <1>1 DEF FormsInv, FormFits, OneType, SecretFitsType, formVars
<1>2. CASE SaveRefused
      BY <1>2 DEF FormsInv, FormFits, OneType, SecretFitsType, SaveRefused
<1>3. CASE \E doc \in OtherDocs : OthersSave(doc)
      BY <1>3, FormsOthersKeep
<1>4. CASE QueryArrives \/ SaveAnswered
      BY <1>4, QueryKeeps, FormsAnsweredKeeps
<1>5. CASE Fields \/ SecretField \/ ClearSecret \/ Reset \/ TypeChoice
      BY <1>5, FieldsKeep, SecretFieldKeeps, ClearKeeps, ResetKeeps, TypeChoiceKeeps
<1>6. CASE SubmitForm \/ ToggleChannel
      BY <1>6, FormsSubmitKeeps, FormsToggleKeeps
<1>7. CASE ChannelCard \/ NotificationsPage
      BY <1>7, SheetKeeps
<1> QED
  BY <1>1, <1>2, <1>3, <1>4, <1>5, <1>6, <1>7
  DEF FormsNext, SettingsPage, SaveSettings, GitSettingsCard, SaveGit, SmtpCard, SaveSmtp,
      WindowsAuthPage, RoleGroupsRow, SaveWindows, EntraAuthPage, RoleRow, SaveEntra,
      ChannelSheet, SaveChannel

\* Only the answer to a save makes a save end with another document.
LEMMA SavesAsShown ==
    ASSUME FormsInv, [FormsNext]_formVars, sending # NotSending, sending' = NotSending,
           stored' # stored
    PROVE  stored'.secret = Told(sending.shown, sending.type, stored.secret)
<1>1. SaveAnswered
  <2> USE DEF Fields, SetField, SecretField, TypeSecret, ClearSecret, Reset, SetType, SubmitForm, Send
  <2>1. ~UNCHANGED stored /\ ~UNCHANGED sending
        OBVIOUS
  <2> QED BY <2>1
          DEF FormsNext, formVars, SettingsPage, SaveSettings, GitSettingsCard, SaveGit, SmtpCard,
              SaveSmtp, WindowsAuthPage, RoleGroupsRow, SaveWindows, EntraAuthPage, RoleRow, SaveEntra,
              ChannelSheet, SaveChannel, TypeChoice, ToggleChannel, NotificationsPage, ChannelCard,
              OthersSave, QueryArrives, SaveRefused
<1> QED BY <1>1, ReceivedFits DEF SaveAnswered

LEMMA FormsInvShows == FormsInv => FormsType /\ SecretFitsType
BY DEF FormsInv, FormsType, FormFits, FormSet, Docs

-----------------------------------------------------------------------------
(***************************************************************************)
(* The lists of the administration.                                        *)
(***************************************************************************)
Changes == {"toggle", "remove", "save", "create", "unlock", "password", "check", "decide"}
ListCalls == [op : Changes, id : Rows, row : Row, state : {"sent", "done", "gone", "failed", "read"},
          n : 0..MaxCalls, prev : Table]
Sheets == {"none", "edit", "new", "password", "decide", "token"}
Dialogs == [of : Sheets, id : Rows \cup {0}, row : Row, complete : BOOLEAN]
Questions == [op : {"none", "remove", "disable", "check"}, id : Rows \cup {0}]

\* What the user has open, and has sent; what is edited or asked about is a row.
HandsInv ==
    /\ calls \subseteq ListCalls /\ sent \in 0..MaxCalls
    /\ dialog \in Dialogs /\ (dialog.of \in {"edit", "password", "decide"} => dialog.id \in Rows)
    /\ ask \in Questions /\ (ask.op # "none" => ask.id \in Rows)

ShownInv ==
    /\ list \in Lists /\ items \in Table /\ rows \in Table
    /\ fetch \in [state : {"none", "asked", "read"}, data : Table]
    /\ strange \in BOOLEAN

\* A change on its way that will have the rows read anew when it is answered.
Owing == \E c \in calls : c.state = "done" \/ AheadOfAnswer(c.op)

\* What is shown, or has been read and is about to be shown, is what the
\* service has, but for what such a change or others have made of it.
FreshInv ==
    /\ ~strange /\ ~Owing =>
         /\ fetch.state = "none" => rows = items
         /\ fetch.state = "read" => fetch.data = items
    /\ \A c \in calls : c.state = "read" => list \in {"domains", "instances"}

ListsInv == HandsInv /\ ShownInv /\ FreshInv

LEMMA ListsInvInit == ListsInit => ListsInv
<1> SUFFICES ASSUME ListsInit PROVE ListsInv
    OBVIOUS
<1> USE AdminListsAssumption
<1>1. Absent \in Row /\ EmptyTable \in Table
      BY DEF Absent, Row, EmptyTable, Table
<1>2. items \in Table
      BY DEF ListsInit, Row, Table
<1>3. HandsInv
      BY <1>1 DEF ListsInit, HandsInv, NoDialog, NotAsked, Dialogs, Sheets, Questions
<1>4. ShownInv
      BY <1>1, <1>2 DEF ListsInit, ShownInv, Reading
<1>5. FreshInv
      BY DEF ListsInit, FreshInv, Reading
<1> QED BY <1>3, <1>4, <1>5 DEF ListsInv

\* A step of the user's: the rows, the query and what others did stay, and
\* changes are only sent.
OnlySends ==
    /\ calls \subseteq calls' /\ \A c \in calls' \ calls : c.state = "sent"
    /\ UNCHANGED <<service, view>> /\ HandsInv'

LEMMA OnlySendsKeeps == ListsInv /\ OnlySends => ListsInv'
<1> SUFFICES ASSUME ListsInv, OnlySends PROVE ListsInv'
    OBVIOUS
<1>1. ShownInv'
      BY DEF ListsInv, ShownInv, OnlySends, service, view
<1>2. FreshInv'
      BY DEF ListsInv, FreshInv, OnlySends, Owing, service, view, AheadOfAnswer
<1> QED BY <1>1, <1>2 DEF ListsInv, OnlySends

LEMMA SendsSends ==
    ASSUME ListsInv, NEW op \in Changes, NEW i \in Rows, NEW row \in Row, Sends(op, i, row)
    PROVE  /\ calls \subseteq calls' /\ \A c \in calls' \ calls : c.state = "sent"
           /\ calls' \subseteq ListCalls /\ sent' \in 0..MaxCalls
<1> DEFINE new == [op |-> op, id |-> i, row |-> row, state |-> "sent", n |-> sent,
                   prev |-> IF AheadOfAnswer(op) THEN rows ELSE EmptyTable]
<1>1. EmptyTable \in Table /\ rows \in Table
      BY DEF EmptyTable, Table, Absent, Row, ListsInv, ShownInv
<1>2. sent \in 0..MaxCalls /\ sent < MaxCalls
      BY DEF ListsInv, HandsInv, Sends
<1>3. new \in ListCalls
      BY <1>1, <1>2 DEF ListCalls
<1>4. new.state = "sent" /\ calls' = calls \cup {new} /\ sent' = sent + 1
      BY DEF Sends
<1> QED BY <1>2, <1>3, <1>4, AdminListsAssumption DEF ListsInv, HandsInv

LEMMA RowIsRow == ASSUME ListsInv, NEW i \in Rows PROVE rows[i] \in Row /\ Toggled(i) \in Row
<1>1. rows[i] \in Row
      BY DEF ListsInv, ShownInv, Table
<1> QED BY <1>1 DEF Toggled, Row

\* Sending while no dialog and no question changes.
LEMMA SentOnly ==
    ASSUME ListsInv, NEW op \in Changes, NEW i \in Rows, NEW row \in Row, Sends(op, i, row),
           UNCHANGED <<service, view, dialog, ask>>
    PROVE  OnlySends
BY SendsSends DEF OnlySends, HandsInv, ListsInv

LEMMA SaveSends == ListsInv /\ Save => OnlySends
<1> SUFFICES ASSUME ListsInv, Save PROVE OnlySends
    OBVIOUS
<1>1. dialog.row \in Row /\ (dialog.of = "edit" => dialog.id \in Rows)
      BY DEF ListsInv, HandsInv, Dialogs
<1>2. CASE DialogIs("edit") /\ Sends("save", dialog.id, dialog.row)
      BY <1>1, <1>2, SentOnly DEF Changes, Save, DialogIs
<1>3. ASSUME NEW i \in Free, Sends("create", i, dialog.row) PROVE OnlySends
      BY <1>1, <1>3, SentOnly DEF Changes, Save, Free
<1> QED BY <1>2, <1>3 DEF Save

LEMMA OpenedSends ==
    ASSUME ListsInv, NEW of \in Sheets, NEW i \in Rows \cup {0}, NEW row \in Row,
           NEW complete \in BOOLEAN, Opened(of, i, row, complete),
           of = "new" \/ i \in Rows
    PROVE  OnlySends
<1>1. dialog' = [of |-> of, id |-> i, row |-> row, complete |-> complete]
      /\ UNCHANGED <<service, view, calls, ask, sent>>
      BY DEF Opened
<1>2. dialog' \in Dialogs /\ dialog'.of = of /\ dialog'.id = i
      BY <1>1 DEF Dialogs
<1> QED BY <1>1, <1>2 DEF OnlySends, HandsInv, ListsInv

LEMMA AskedSends ==
    ASSUME ListsInv, ask' \in Questions, ask'.op # "none" => ask'.id \in Rows,
           UNCHANGED <<service, view, calls, dialog, sent>>
    PROVE  OnlySends
BY DEF OnlySends, HandsInv, ListsInv

LEMMA RowsSend ==
    ASSUME ListsInv, NEW i \in Rows,
           \/ Edit(i) \/ AskToRemove(i) \/ SendToggled(i) \/ UnlockUser(i) \/ CheckInstance(i)
           \/ AskDelete(i)
    PROVE  OnlySends
<1>1. CASE Edit(i)
      BY <1>1, OpenedSends, RowIsRow DEF Edit, Sheets
<1>2. CASE AskToRemove(i)
      BY <1>2, AskedSends DEF AskToRemove, Questions
<1>3. CASE AskDelete(i)
      BY <1>3, AskedSends DEF AskDelete, Questions
<1>4. CASE SendToggled(i) \/ UnlockUser(i) \/ CheckInstance(i)
      BY <1>4, SentOnly, RowIsRow DEF Changes, SendToggled, UnlockUser, CheckInstance
<1> QED BY <1>1, <1>2, <1>3, <1>4

LEMMA AddSends == ListsInv /\ Add => OnlySends
<1>1. [on |-> TRUE, changed |-> FALSE] \in Row
      BY DEF Row
<1> QED BY <1>1, OpenedSends DEF Sheets, Add

LEMMA SheetSends ==
    ASSUME ListsInv, Close \/ SwitchRow \/ \E b \in BOOLEAN : Fill(b)
    PROVE  OnlySends
<1>1. dialog \in Dialogs /\ dialog.row \in Row
      BY DEF ListsInv, HandsInv, Dialogs
<1>2. DialogOnly
      BY DEF Close, SwitchRow, Fill
<1>3. /\ dialog' \in Dialogs
      /\ dialog'.of \in {"edit", "password", "decide"} => dialog'.id \in Rows
  <2>1. CASE Close
        BY <2>1 DEF Close, NoDialog, Dialogs, Sheets, Absent, Row
  <2>2. CASE SwitchRow
    <3>1. [dialog.row EXCEPT !.on = ~@] \in Row
          BY <1>1 DEF Row
    <3>2. dialog' = [dialog EXCEPT !.row = [dialog.row EXCEPT !.on = ~@]]
          BY <1>1, <2>2 DEF SwitchRow, Dialogs, Row
    <3> QED BY <1>1, <3>1, <3>2 DEF Dialogs, ListsInv, HandsInv
  <2>3. ASSUME NEW b \in BOOLEAN, Fill(b)
        PROVE  /\ dialog' \in Dialogs
               /\ dialog'.of \in {"edit", "password", "decide"} => dialog'.id \in Rows
    <3>1. [dialog.row EXCEPT !.changed = TRUE] \in Row
          BY <1>1 DEF Row
    <3>2. dialog' = [dialog EXCEPT !.row = [dialog.row EXCEPT !.changed = TRUE], !.complete = b]
          BY <1>1, <2>3 DEF Fill, Dialogs, Row
    <3> QED BY <1>1, <3>1, <3>2 DEF Dialogs, ListsInv, HandsInv
  <2> QED BY <2>1, <2>2, <2>3
<1> QED BY <1>2, <1>3 DEF DialogOnly, OnlySends, HandsInv, ListsInv

LEMMA AnswersSend ==
    ASSUME ListsInv, NEW b \in BOOLEAN, Confirmed(b) \/ DeletionAnswered(b)
    PROVE  OnlySends
<1>1. ask \in Questions /\ (ask.op # "none" => ask.id \in Rows)
      BY DEF ListsInv, HandsInv
<1>2. NotAsked \in Questions /\ NotAsked.op = "none" /\ Absent \in Row
      BY DEF NotAsked, Questions, Absent, Row
<1>3. CASE Confirmed(b)
  <2>1. ask.id \in Rows /\ ask' = NotAsked /\ UNCHANGED <<service, view, dialog>>
        BY <1>1, <1>3 DEF Confirmed
  <2>2. CASE ~b
        BY <1>2, <1>3, <2>1, <2>2, AskedSends DEF Confirmed
  <2>3. CASE b
    <3>1. \/ Sends("remove", ask.id, Absent) \/ Sends("toggle", ask.id, Toggled(ask.id))
          BY <1>3, <2>3 DEF Confirmed
    <3>2. /\ calls \subseteq calls' /\ \A c \in calls' \ calls : c.state = "sent"
          /\ calls' \subseteq ListCalls /\ sent' \in 0..MaxCalls
          BY <3>1, <2>1, <1>2, SendsSends, RowIsRow DEF Changes
    <3> QED BY <1>2, <2>1, <3>2 DEF OnlySends, HandsInv, ListsInv
  <2> QED BY <2>2, <2>3
<1>4. CASE DeletionAnswered(b)
      BY <1>1, <1>2, <1>4, AskedSends DEF DeletionAnswered, Questions
<1> QED BY <1>3, <1>4

\* Everything the user does but the switch of a schedule.
PagesAct ==
    \/ \E yes \in BOOLEAN : Confirmed(yes)
    \/ UsersPage \/ SaveUser \/ UserSheet \/ ResetPasswordDialog
    \/ WindowsCard \/ SaveWindow \/ WindowSheet \/ FreezesCard \/ SaveFreeze \/ FreezeSheet
    \/ Schedules \/ AuditsPage \/ SaveSchedule \/ ScheduleSheet
    \/ DomainRow \/ SaveDomain \/ DomainSheet
    \/ ApiTokens \/ CreateToken \/ CreateTokenDialog
    \/ JitGroupsAdmin \/ SaveJitGroup \/ GroupSheet
    \/ \E i \in Rows : OpenCard(i) \/ ActiveCard(i)
    \/ \E approve \in BOOLEAN : DecisionDialog(approve)
    \/ CreateRequest \/ RequestDialog
    \/ RemoteInstancePicker \/ InstanceDialog

LEMMA PagesSend == ListsInv /\ PagesAct => OnlySends
<1> SUFFICES ASSUME ListsInv, PagesAct PROVE OnlySends
    OBVIOUS
<1>1. (\E yes \in BOOLEAN : Confirmed(yes)) => OnlySends
      BY AnswersSend
<1>2. UsersPage \/ UserSheet => OnlySends
  <2>1. \A i \in Rows : There(i) /\ Opened("password", i, rows[i], TRUE) => OnlySends
        BY OpenedSends, RowIsRow DEF Sheets
  <2> QED BY <2>1, RowsSend, AddSends, SheetSends DEF UsersPage, UserSheet
<1>3. dialog \in Dialogs /\ dialog.row \in Row
      /\ (dialog.of \in {"password", "decide"} => dialog.id \in Rows)
      BY DEF ListsInv, HandsInv, Dialogs
<1>4. ResetPasswordDialog => OnlySends
      BY <1>3, SentOnly DEF Changes, ResetPasswordDialog, DialogIs
<1>5. \/ SaveUser \/ SaveWindow \/ SaveFreeze \/ SaveSchedule \/ SaveDomain \/ CreateToken
      \/ SaveJitGroup \/ CreateRequest
      => OnlySends
      BY SaveSends DEF SaveUser, SaveWindow, SaveFreeze, SaveSchedule, SaveDomain, CreateToken,
           SaveJitGroup, CreateRequest, SaveComplete
<1>6. WindowsCard \/ WindowSheet \/ FreezesCard \/ FreezeSheet => OnlySends
      BY RowsSend, AddSends, SheetSends DEF WindowsCard, WindowSheet, FreezesCard, FreezeSheet
<1>7. Schedules \/ AuditsPage \/ ScheduleSheet => OnlySends
      BY RowsSend, AddSends, SheetSends DEF Schedules, AuditsPage, ScheduleSheet
<1>8. DomainRow \/ DomainSheet => OnlySends
      BY RowsSend, AddSends, SheetSends, AnswersSend DEF DomainRow, DomainSheet
<1>9. ApiTokens \/ CreateTokenDialog \/ JitGroupsAdmin \/ GroupSheet => OnlySends
      BY RowsSend, AddSends, SheetSends DEF ApiTokens, CreateTokenDialog, JitGroupsAdmin, GroupSheet
<1>10. (\E i \in Rows : OpenCard(i) \/ ActiveCard(i)) => OnlySends
  <2>1. \A i \in Rows : Opened("decide", i, rows[i], FALSE) => OnlySends
        BY OpenedSends, RowIsRow DEF Sheets
  <2> QED BY <2>1, RowsSend DEF OpenCard, ActiveCard
<1>11. (\E approve \in BOOLEAN : DecisionDialog(approve)) => OnlySends
  <2>1. [dialog.row EXCEPT !.on = FALSE] \in Row /\ Absent \in Row
        BY <1>3 DEF Row, Absent
  <2> QED BY <1>3, <2>1, SentOnly DEF Changes, DecisionDialog, DialogIs
<1>12. RequestDialog \/ RemoteInstancePicker \/ InstanceDialog => OnlySends
      BY RowsSend, AddSends, SheetSends, SaveSends
      DEF RequestDialog, RemoteInstancePicker, InstanceDialog, SaveComplete
<1> QED BY <1>1, <1>2, <1>4, <1>5, <1>6, <1>7, <1>8, <1>9, <1>10, <1>11, <1>12 DEF PagesAct

\* The service makes something of a change, and its answer arrives.
LEMMA HandlesKeeps ==
    ASSUME ListsInv, NEW c \in calls, NEW accepts \in BOOLEAN, Handles(c, accepts)
    PROVE  ListsInv'
<1> DEFINE gone == c.op # "create" /\ items[c.id] = Absent
           done == accepts /\ ~gone
           state == CASE done -> "done" [] gone -> "gone" [] OTHER -> "failed"
           answer == [c EXCEPT !.state = state]
<1>1. /\ calls' = (calls \ {c}) \cup {answer}
      /\ c.state = "sent" /\ UNCHANGED <<list, fetch, rows, strange, dialog, ask, sent>>
      BY DEF Handles, view
<1>2. /\ ~done => items' = items
      /\ items' = items \/ items' = [items EXCEPT ![c.id] = c.row]
      BY DEF Handles
<1>3. state \in {"done", "gone", "failed"} /\ (done => state = "done")
      OBVIOUS
<1> HIDE DEF done, state
<1>4. c \in ListCalls /\ c.row \in Row /\ c.id \in Rows
      BY DEF ListsInv, HandsInv, ListCalls
<1>5. answer \in ListCalls /\ answer.op = c.op /\ answer.state = state
      BY <1>3, <1>4 DEF ListCalls
<1> HIDE DEF answer
<1>6. ~Owing' => ~Owing /\ ~done
      BY <1>1, <1>3, <1>5 DEF Owing, AheadOfAnswer
<1>7. FreshInv'
      BY <1>1, <1>2, <1>3, <1>5, <1>6 DEF FreshInv, ListsInv
<1>8. ShownInv'
      BY <1>1, <1>2, <1>4 DEF ListsInv, ShownInv, Table
<1>9. HandsInv'
      BY <1>1, <1>5 DEF ListsInv, HandsInv
<1> QED BY <1>7, <1>8, <1>9 DEF ListsInv

LEMMA AnsweredKeeps ==
    ASSUME ListsInv, NEW c \in calls, Answered(c)
    PROVE  ListsInv'
<1>1. c \in ListCalls /\ c.prev \in Table
      BY DEF ListsInv, HandsInv, ListCalls
<1>2. Reading \in [state : {"none", "asked", "read"}, data : Table]
      BY DEF Reading, EmptyTable, Table, Absent, Row
<1>3. \A d \in calls' : d \in calls \/ (ClosesLate(c) /\ d \in ListCalls)
      BY <1>1 DEF Answered, ListCalls
<1>4. \A d \in calls' : d.state = "read" => list' \in {"domains", "instances"}
      BY <1>3 DEF Answered, service, ListsInv, FreshInv, ClosesLate
<1>5. FreshInv'
  <2>1. CASE Refetched(c)
        BY <2>1, <1>4 DEF Answered, FreshInv, Reading
  <2>2. CASE ~Refetched(c)
    <3>1. c.state # "done" /\ ~AheadOfAnswer(c.op)
          BY <2>2 DEF Refetched
    <3>2. UNCHANGED <<list, items, strange, fetch, rows>> /\ calls \ {c} \subseteq calls'
          BY <2>2, <3>1 DEF Answered, service
    <3> QED BY <3>1, <3>2, <1>4 DEF ListsInv, FreshInv, Owing, AheadOfAnswer
  <2> QED BY <2>1, <2>2
<1>6. ShownInv'
      BY <1>1, <1>2 DEF Answered, ListsInv, ShownInv, service
<1>7. HandsInv'
  <2>1. NoDialog \in Dialogs /\ NoDialog.of = "none"
        BY DEF NoDialog, Dialogs, Sheets, Absent, Row
  <2>2. [dialog EXCEPT !.of = "token"] \in Dialogs /\ [dialog EXCEPT !.of = "token"].of = "token"
        BY DEF ListsInv, HandsInv, Dialogs, Sheets
  <2>3. dialog' \in {dialog, NoDialog, [dialog EXCEPT !.of = "token"]}
        BY DEF Answered
  <2> QED BY <1>3, <2>1, <2>2, <2>3 DEF Answered, ListsInv, HandsInv
<1> QED BY <1>5, <1>6, <1>7 DEF ListsInv

\* The query, others, and the switch of a schedule, which is shown at once.
LEMMA ViewKeeps ==
    ASSUME ListsInv, FetchRead \/ FetchAnswered \/ Poll
    PROVE  ListsInv'
<1>1. Reading \in [state : {"none", "asked", "read"}, data : Table]
      /\ NoFetch \in [state : {"none", "asked", "read"}, data : Table]
      BY DEF Reading, NoFetch, EmptyTable, Table, Absent, Row
<1>2. CASE FetchRead
  <2>1. FreshInv'
        BY <1>2 DEF FetchRead, ListsInv, FreshInv
  <2> QED BY <1>2, <2>1 DEF FetchRead, ListsInv, ShownInv, HandsInv
<1>3. CASE FetchAnswered
  <2>1. FreshInv'
        BY <1>3 DEF FetchAnswered, ListsInv, FreshInv, Owing, AheadOfAnswer, NoFetch, service
  <2> QED BY <1>1, <1>3, <2>1 DEF FetchAnswered, ListsInv, ShownInv, HandsInv, service
<1>4. CASE Poll
  <2>1. FreshInv'
        BY <1>4 DEF Poll, ListsInv, FreshInv, Reading, service
  <2> QED BY <1>1, <1>4, <2>1 DEF Poll, ListsInv, ShownInv, HandsInv, service
<1> QED BY <1>2, <1>3, <1>4

LEMMA OthersKeep ==
    ASSUME ListsInv, NEW i \in Rows, OthersChange(i)
    PROVE  ListsInv'
<1>1. items[i] \in Row /\ Absent \in Row
      BY DEF ListsInv, ShownInv, Table, Absent, Row
<1>2. [items[i] EXCEPT !.changed = TRUE] \in Row
      BY <1>1 DEF Row
<1>3. items' \in Table
      BY <1>1, <1>2, ZenonT(40) DEF OthersChange, ListsInv, ShownInv, Table
<1>4. HandsInv'
      BY AdminListsAssumption DEF OthersChange, ListsInv, HandsInv
<1> QED BY <1>3, <1>4 DEF OthersChange, ListsInv, ShownInv, FreshInv, view

LEMMA ToggleKeeps ==
    ASSUME ListsInv, NEW i \in Rows, ToggleSchedule(i)
    PROVE  ListsInv'
<1> DEFINE new == [op |-> "toggle", id |-> i, row |-> Toggled(i), state |-> "sent", n |-> sent,
                   prev |-> IF AheadOfAnswer("toggle") THEN rows ELSE EmptyTable]
<1>1. new \in calls' /\ new.op = "toggle"
      BY DEF ToggleSchedule, Sends
<1> HIDE DEF new
<1>2. Owing'
      BY <1>1 DEF ToggleSchedule, Owing, AheadOfAnswer, service
<1>3. Toggled(i) \in Row /\ NoFetch \in [state : {"none", "asked", "read"}, data : Table]
      BY RowIsRow DEF NoFetch, EmptyTable, Table, Absent, Row
<1>4. /\ \A c \in calls' \ calls : c.state = "sent"
      /\ calls' \subseteq ListCalls /\ sent' \in 0..MaxCalls
      BY <1>3, SendsSends DEF Changes, ToggleSchedule
<1>5. FreshInv'
      BY <1>2, <1>4 DEF FreshInv, ListsInv, ToggleSchedule, service
<1>6. ShownInv'
      BY <1>3 DEF ListsInv, ShownInv, ToggleSchedule, service, Table
<1>7. HandsInv'
      BY <1>4 DEF ListsInv, HandsInv, ToggleSchedule
<1> QED BY <1>5, <1>6, <1>7 DEF ListsInv

LEMMA ListsInvStep == ListsInv /\ [ListsNext]_listVars => ListsInv'
<1> SUFFICES ASSUME ListsInv, [ListsNext]_listVars PROVE ListsInv'
    OBVIOUS
<1>1. ASSUME NEW c \in calls, ClosedLate(c) PROVE ListsInv'
  <2>1. HandsInv' /\ UNCHANGED <<service, view>>
        BY <1>1 DEF ClosedLate, ListsInv, HandsInv, NoDialog, Dialogs, Sheets, Absent, Row
  <2>2. ShownInv'
        BY <2>1 DEF ListsInv, ShownInv, service, view
  <2>3. FreshInv'
        BY <1>1 DEF ClosedLate, ListsInv, FreshInv, Owing, AheadOfAnswer, service, view
  <2> QED BY <2>1, <2>2, <2>3 DEF ListsInv
<1>2. CASE PagesAct
      BY <1>2, PagesSend, OnlySendsKeeps
<1>3. CASE UNCHANGED listVars
      BY <1>3, OnlySendsKeeps DEF OnlySends, HandsInv, ListsInv, listVars, service, view
<1> QED
  BY <1>1, <1>2, <1>3, ViewKeeps, OthersKeep, HandlesKeeps, AnsweredKeeps, ToggleKeeps
  DEF ListsNext, PagesAct

LEMMA ListsInvShows == ListsInv => ListsType /\ ListCatchesUp
<1> SUFFICES ASSUME ListsInv PROVE ListsType /\ ListCatchesUp
    OBVIOUS
<1>1. ListsType
      BY DEF ListsInv, HandsInv, ShownInv, ListsType, ListCalls, Dialogs, Questions
<1>2. ListCatchesUp
      BY DEF ListsInv, FreshInv, ListCatchesUp, Owing
<1> QED BY <1>1, <1>2

-----------------------------------------------------------------------------
(***************************************************************************)
(* The session.                                                            *)
(***************************************************************************)
AccountStates == [role : Levels, active : BOOLEAN, mustChange : BOOLEAN, stamp : 0..MaxStamp]
MeAnswers == {SignedOut} \cup [user : Accounts, known : {TRUE}, role : Levels, mustChange : BOOLEAN]
FlightKinds == {"me", "login", "change", "read", "write", "logout"}
Codes == {0, 200, 204, 400, 401, 403}
Tokens == Accounts \cup {Nobody, "keep"}
MaybeCookies == Cookies \cup {NoCookie}
Flights ==
    [kind : FlightKinds, for : Accounts \cup {Nobody}, cookie : MaybeCookies, token : Tokens,
     status : Codes, sets : BOOLEAN, me : MeAnswers]

\* A cookie says what its account is, or is older than the account's last change.
Fresh(c) ==
    c = NoCookie \/ (c \in Cookies /\ (c = Principal(c.user) \/ c.stamp < account[c.user].stamp))

\* The answers that begin a session; no other sets a cookie but to take it away.
Opens(f) == (f.kind = "login" /\ f.status = 200) \/ (f.kind = "change" /\ f.status = 204)

AnswerFits(f) ==
    /\ f.status = 0 => ~f.sets
    /\ Opens(f) => f.cookie # NoCookie /\ f.token = f.cookie.user
    /\ ~Opens(f) /\ f.sets => f.cookie = NoCookie
    /\ ~Opens(f) /\ f.status # 0 /\ f.kind \in {"login", "change"} => f.token = "keep"
    /\ f.kind = "me" /\ f.status # 0 /\ f.me.user # Nobody =>
          ~f.sets /\ f.cookie # NoCookie /\ f.token = f.cookie.user

\* While auth/me is asked, the tab has the session it asked with, or none.
FlightFits(f) ==
    /\ Fresh(f.cookie) /\ AnswerFits(f)
    /\ f.kind = "me" /\ ~f.sets => cookie \in {f.cookie, NoCookie}

FlightsInv == flights \subseteq Flights /\ \A f \in flights : FlightFits(f)

CountInv == IsFiniteSet(flights) /\ Cardinality(flights) <= MaxSent + 1

PlacesInv ==
    /\ place \in Places /\ leadsTo \in Places \ {"/login"}
    /\ signIn \in {"idle", "pending", "settling"} /\ notice \in {"none", "refused", "elsewhere"}
    /\ signIn = "pending" => place = "/login"
    /\ me \in MeAnswers \cup {MeUnknown}

\* Whoever the page takes for signed in has the token of the session.
TokenInv == me.known /\ me.user # Nobody /\ cookie # NoCookie => token = cookie.user

CookieInv == account \in [Accounts -> AccountStates] /\ Fresh(cookie) /\ token \in Accounts \cup {Nobody}

SessionInv == CookieInv /\ FlightsInv /\ CountInv /\ PlacesInv /\ TokenInv

-----------------------------------------------------------------------------
LEMMA SessionBasics ==
    /\ NoCookie \notin Cookies /\ NoCookie.user = Nobody /\ Nobody \notin Accounts
    /\ SignedOut.user = Nobody /\ ~MeUnknown.known
    /\ MaxStamp \in Nat /\ MaxSent \in Nat /\ "keep" \notin Accounts \cup {Nobody}
BY SessionAssumption DEF NoCookie, Cookies, SignedOut, MeUnknown

LEMMA PrincipalFits ==
    ASSUME account \in [Accounts -> AccountStates], NEW u \in Accounts
    PROVE  Principal(u) \in Cookies /\ Principal(u).user = u /\ Fresh(Principal(u))
           /\ Principal(u) # NoCookie
BY SessionBasics DEF Principal, Cookies, AccountStates, Fresh

LEMMA ReplyFits ==
    ASSUME NEW f \in Flights, NEW status \in Codes, NEW sets \in BOOLEAN, NEW c \in MaybeCookies,
           NEW t \in Tokens, NEW u \in MeAnswers, NEW r, r = Reply(f, status, sets, c, t, u)
    PROVE  /\ r \in Flights /\ r.kind = f.kind /\ r.status = status /\ r.sets = sets
           /\ r.cookie = c /\ r.token = t /\ r.me = u
<1> DEFINE r1 == [f EXCEPT !.status = status]
           r2 == [r1 EXCEPT !.sets = sets]
           r3 == [r2 EXCEPT !.cookie = c]
           r4 == [r3 EXCEPT !.token = t]
           r5 == [r4 EXCEPT !.me = u]
<1>1. r = r5
      BY DEF Reply
<1>2. r1 \in Flights /\ r1.kind = f.kind /\ r1.status = status
      BY DEF Flights
<1> HIDE DEF r1
<1>3. r2 \in Flights /\ r2.kind = f.kind /\ r2.status = status /\ r2.sets = sets
      BY <1>2 DEF Flights
<1> HIDE DEF r2
<1>4. /\ r3 \in Flights /\ r3.kind = f.kind /\ r3.status = status /\ r3.sets = sets
      /\ r3.cookie = c
      BY <1>3 DEF Flights
<1> HIDE DEF r3
<1>5. /\ r4 \in Flights /\ r4.kind = f.kind /\ r4.status = status /\ r4.sets = sets
      /\ r4.cookie = c /\ r4.token = t
      BY <1>4 DEF Flights
<1> HIDE DEF r4
<1>6. /\ r5 \in Flights /\ r5.kind = f.kind /\ r5.status = status /\ r5.sets = sets
      /\ r5.cookie = c /\ r5.token = t /\ r5.me = u
      BY <1>5 DEF Flights
<1> HIDE DEF r5
<1> QED BY <1>1, <1>6

\* What the service makes of the session of a request.
LEMMA ServiceFits ==
    ASSUME account \in [Accounts -> AccountStates], NEW c, Fresh(c)
    PROVE  /\ c \in MaybeCookies /\ (c # NoCookie => c.user \in Accounts)
           /\ UserOf(c) \in Accounts \cup {Nobody}
           /\ UserOf(c) # Nobody => c # NoCookie /\ UserOf(c) = c.user /\ CookieAfter(c) = c
           /\ CookieAfter(c) \in {c, NoCookie} /\ Fresh(CookieAfter(c))
           /\ MeOf(UserOf(c)) \in MeAnswers /\ MeOf(UserOf(c)).user = UserOf(c)
           /\ c # NoCookie /\ ~Valid(c) => CookieAfter(c) = NoCookie /\ UserOf(c) = Nobody
           /\ ~(c # NoCookie /\ ~Valid(c)) => CookieAfter(c) = c
<1>1. c \in MaybeCookies /\ (c # NoCookie => c.user \in Accounts)
      BY DEF Fresh, Cookies, MaybeCookies
<1>2. ASSUME NEW u \in Accounts \cup {Nobody} PROVE MeOf(u) \in MeAnswers /\ MeOf(u).user = u
  <2>1. CASE u = Nobody
        BY <2>1, SessionBasics DEF MeOf, MeAnswers
  <2>2. CASE u # Nobody
    <3>1. /\ u \in Accounts /\ account[u].role \in Levels /\ account[u].mustChange \in BOOLEAN
          BY <2>2 DEF AccountStates
    <3>2. MeOf(u) = [user |-> u, known |-> TRUE, role |-> account[u].role,
                     mustChange |-> account[u].mustChange]
          BY <2>2 DEF MeOf
    <3> QED BY <3>1, <3>2 DEF MeAnswers
  <2> QED BY <2>1, <2>2
<1>3. UserOf(c) \in Accounts \cup {Nobody}
      BY <1>1 DEF UserOf, Valid
<1>4. Fresh(NoCookie)
      BY DEF Fresh
<1> QED BY <1>1, <1>2, <1>3, <1>4, SessionBasics DEF UserOf, Valid, CookieAfter

-----------------------------------------------------------------------------
\* A change of an account makes its cookies old, and no other.
LEMMA FreshStays ==
    ASSUME account \in [Accounts -> AccountStates], NEW u \in Accounts, NEW a \in AccountStates,
           a.stamp = account[u].stamp + 1, account' = [account EXCEPT ![u] = a],
           NEW c, Fresh(c)
    PROVE  Fresh(c)'
<1>1. CASE c = NoCookie
      BY <1>1 DEF Fresh
<1>2. CASE c # NoCookie
  <2>1. c \in Cookies /\ c.user \in Accounts /\ c.stamp \in Nat
        BY <1>2, SessionBasics DEF Fresh, Cookies
  <2>2. account[u].stamp \in Nat /\ account[c.user].stamp \in Nat
        BY <2>1, SessionBasics DEF AccountStates
  <2>3. CASE c.user # u
    <3>1. account'[c.user] = account[c.user]
          BY <2>1, <2>3
    <3> QED BY <1>2, <2>1, <3>1 DEF Fresh, Principal
  <2>4. CASE c.user = u
    <3>1. account'[u] = a
          OBVIOUS
    <3>2. c.stamp <= account[u].stamp
          BY <1>2, <2>1, <2>2, <2>4 DEF Fresh, Principal
    <3> QED BY <2>1, <2>2, <2>4, <3>1, <3>2 DEF Fresh
  <2> QED BY <2>3, <2>4
<1> QED BY <1>1, <1>2

LEMMA FreshSame ==
    ASSUME UNCHANGED account, NEW c, Fresh(c) PROVE Fresh(c)'
BY DEF Fresh, Principal

\* The session goes, or stays: requests and answers on their way fit as before.
LEMMA FewerFit ==
    ASSUME FlightsInv, flights' \subseteq flights, UNCHANGED account, cookie' \in {cookie, NoCookie}
    PROVE  FlightsInv'
BY FreshSame DEF FlightsInv, FlightFits, AnswerFits, Opens

\* A new session: no question of who is signed in is asked with another.
LEMMA OtherFit ==
    ASSUME FlightsInv, flights' \subseteq {f \in flights : f.kind # "me"}, UNCHANGED account
    PROVE  FlightsInv'
BY FreshSame DEF FlightsInv, FlightFits, AnswerFits, Opens

LEMMA SentFits ==
    ASSUME SessionInv, NEW kind \in FlightKinds,
           NEW u \in Accounts \cup {Nobody}, SendRequest(kind, u), UNCHANGED <<account, cookie>>
    PROVE  FlightsInv'
<1>1. cookie \in MaybeCookies /\ token \in Accounts \cup {Nobody} /\ SignedOut \in MeAnswers
      BY ServiceFits DEF SessionInv, CookieInv, MeAnswers
<1>2. PICK f \in Flights : f = [kind |-> kind, for |-> u, cookie |-> cookie, token |-> token,
                                status |-> 0, sets |-> FALSE, me |-> SignedOut]
  <2>1. [kind |-> kind, for |-> u, cookie |-> cookie, token |-> token,
         status |-> 0, sets |-> FALSE, me |-> SignedOut] \in Flights
        BY <1>1 DEF Flights, FlightKinds, Codes, Tokens
  <2> QED BY <2>1
<1>3. flights' = flights \cup {f} /\ f.status = 0 /\ ~f.sets /\ f.cookie = cookie
      BY <1>2 DEF SendRequest
<1>4. FlightFits(f)'
      BY <1>3, FreshSame DEF FlightFits, AnswerFits, Opens, SessionInv, CookieInv
<1>5. \A g \in flights : FlightFits(g)'
      BY FreshSame DEF SessionInv, FlightsInv, FlightFits, AnswerFits, Opens
<1> QED BY <1>2, <1>3, <1>4, <1>5 DEF SessionInv, FlightsInv

-----------------------------------------------------------------------------
\* The number of requests.
LEMMA CountSent ==
    ASSUME CountInv, Cardinality(flights) < MaxSent, NEW f, flights' = flights \cup {f}
    PROVE  CountInv'
<1>1. /\ IsFiniteSet(flights') /\ Cardinality(flights) \in Nat
      /\ Cardinality(flights') \in {Cardinality(flights), Cardinality(flights) + 1}
      BY FS_AddElement, FS_CardinalityType DEF CountInv
<1> QED BY <1>1, SessionBasics DEF CountInv

LEMMA CountFewer ==
    ASSUME CountInv, flights' \subseteq flights PROVE CountInv'
<1>1. /\ IsFiniteSet(flights') /\ Cardinality(flights') <= Cardinality(flights)
      /\ Cardinality(flights) \in Nat /\ Cardinality(flights') \in Nat
      BY FS_Subset, FS_CardinalityType DEF CountInv
<1> QED BY <1>1, SessionBasics DEF CountInv

LEMMA CountExchanged ==
    ASSUME CountInv, NEW f \in flights, NEW r, NEW T, T \subseteq flights \ {f}, flights' = T \cup {r}
    PROVE  CountInv'
<1>1. IsFiniteSet(flights) /\ Cardinality(flights) \in Nat /\ Cardinality(flights) <= MaxSent + 1
      BY FS_CardinalityType DEF CountInv
<1>2. /\ IsFiniteSet(flights \ {f}) /\ Cardinality(flights \ {f}) = Cardinality(flights) - 1
      BY <1>1, FS_RemoveElement
<1>3. /\ IsFiniteSet(T) /\ Cardinality(T) \in Nat
      /\ Cardinality(T) <= Cardinality(flights \ {f})
      BY <1>2, FS_Subset, FS_CardinalityType
<1>4. /\ IsFiniteSet(T \cup {r})
      /\ Cardinality(T \cup {r}) \in {Cardinality(T), Cardinality(T) + 1}
      BY <1>3, FS_AddElement
<1> QED BY <1>1, <1>2, <1>3, <1>4, SessionBasics DEF CountInv

-----------------------------------------------------------------------------
LEMMA SessionInvInit == SessionInit => SessionInv
<1> SUFFICES ASSUME SessionInit PROVE SessionInv
    OBVIOUS
<1>1. account \in [Accounts -> AccountStates]
  <2>1. ASSUME NEW u \in Accounts PROVE account[u] \in AccountStates
    <3>1. account[u] \in [role : Levels, active : {TRUE}, mustChange : BOOLEAN, stamp : {0}]
          BY DEF SessionInit
    <3>2. TRUE \in BOOLEAN /\ 0 \in 0..MaxStamp
          BY SessionBasics
    <3> QED BY <3>1, <3>2 DEF AccountStates
  <2> QED BY <2>1 DEF SessionInit
<1>2. CountInv
      BY FS_EmptySet, SessionBasics DEF SessionInit, CountInv
<1>3. PlacesInv
      BY DEF SessionInit, PlacesInv, Places
<1> QED BY <1>1, <1>2, <1>3, SessionBasics
        DEF SessionInit, SessionInv, CookieInv, Fresh, FlightsInv, TokenInv

-----------------------------------------------------------------------------
\* The answers of the service.
LEMMA RepliesFit ==
    ASSUME SessionInv, NEW f \in flights, f.status = 0, f.kind # "change", NEW r \in Replies(f)
    PROVE  r \in Flights /\ FlightFits(r)
<1> DEFINE c == f.cookie
<1>1. f \in Flights /\ FlightFits(f) /\ Fresh(c) /\ account \in [Accounts -> AccountStates]
      BY DEF SessionInv, CookieInv, FlightsInv, FlightFits
<1>2. /\ c \in MaybeCookies
      /\ UserOf(c) \in Accounts \cup {Nobody}
      /\ UserOf(c) # Nobody => c # NoCookie /\ UserOf(c) = c.user /\ CookieAfter(c) = c
      /\ CookieAfter(c) \in MaybeCookies /\ Fresh(CookieAfter(c))
      /\ MeOf(UserOf(c)) \in MeAnswers /\ MeOf(UserOf(c)).user = UserOf(c)
      /\ Rejects(f) => CookieAfter(c) = NoCookie /\ UserOf(c) = Nobody
      /\ ~Rejects(f) => CookieAfter(c) = c
      /\ Rejects(f) \in BOOLEAN /\ SignedOut \in MeAnswers
  <2> HIDE DEF c
  <2>1. Rejects(f) <=> c # NoCookie /\ ~Valid(c)
        BY DEF Rejects, c
  <2>2. Rejects(f) \in BOOLEAN /\ SignedOut \in MeAnswers
        BY DEF Rejects, MeAnswers
  <2> QED BY <1>1, <2>1, <2>2, ServiceFits
<1>3. ~f.sets /\ (f.kind = "me" => cookie \in {c, NoCookie})
      BY <1>1 DEF FlightFits, AnswerFits
<1> HIDE DEF c
<1>4. ASSUME NEW status \in {200, 400, 401, 403}, r = Plain(f, status), f.kind # "me",
             f.kind = "login" => status # 200
      PROVE  r \in Flights /\ FlightFits(r)
  <2>1. r = Reply(f, status, Rejects(f), CookieAfter(c), "keep", SignedOut)
        BY <1>4 DEF Plain, c
  <2>2. /\ r \in Flights /\ r.kind = f.kind /\ r.status = status /\ r.sets = Rejects(f)
        /\ r.cookie = CookieAfter(c) /\ r.token = "keep"
    <3>1. status \in Codes /\ "keep" \in Tokens
          BY DEF Codes, Tokens
    <3> QED BY <1>1, <1>2, <2>1, <3>1, ReplyFits
  <2> QED BY <1>2, <1>4, <2>2 DEF FlightFits, AnswerFits, Opens
<1>5. CASE f.kind = "me"
  <2>1. r = Reply(f, 200, Rejects(f), CookieAfter(c), UserOf(c), MeOf(UserOf(c)))
        BY <1>5 DEF Replies, c
  <2>2. UserOf(c) \in Tokens /\ 200 \in Codes
        BY <1>2 DEF Tokens, Codes
  <2>3. /\ r \in Flights /\ r.kind = f.kind /\ r.status = 200 /\ r.sets = Rejects(f)
        /\ r.cookie = CookieAfter(c) /\ r.token = UserOf(c) /\ r.me = MeOf(UserOf(c))
        BY <1>1, <1>2, <2>1, <2>2, ReplyFits
  <2> QED BY <1>2, <1>3, <1>5, <2>3 DEF FlightFits, AnswerFits, Opens
<1>6. CASE f.kind = "login"
  <2>1. CASE r = Plain(f, 400) \/ r = Plain(f, 401)
        BY <1>4, <1>6, <2>1
  <2>2. CASE \E u \in Accounts : r = Reply(f, 200, TRUE, Principal(u), TokenAfterSignIn(f, u), MeOf(u))
    <3>1. PICK u \in Accounts : r = Reply(f, 200, TRUE, Principal(u), u, MeOf(u))
          BY <2>2 DEF TokenAfterSignIn
    <3>2. MeOf(u) \in MeAnswers
      <4>1. /\ account[u].role \in Levels /\ account[u].mustChange \in BOOLEAN /\ u # Nobody
            BY <1>1, SessionBasics DEF AccountStates
      <4> QED BY <4>1 DEF MeOf, MeAnswers
    <3>3. /\ Principal(u) \in Cookies /\ Principal(u).user = u /\ Fresh(Principal(u))
          /\ Principal(u) # NoCookie
          BY <1>1, PrincipalFits
    <3>4. /\ r \in Flights /\ r.kind = f.kind /\ r.status = 200 /\ r.sets = TRUE
          /\ r.cookie = Principal(u) /\ r.token = u
      <4>1. PICK yes \in BOOLEAN : yes = TRUE
            OBVIOUS
      <4>2. /\ r = Reply(f, 200, yes, Principal(u), u, MeOf(u))
            BY <3>1, <4>1
      <4>3. Principal(u) \in MaybeCookies /\ u \in Tokens /\ 200 \in Codes
            BY <3>3 DEF MaybeCookies, Tokens, Codes
      <4>4. /\ r \in Flights /\ r.kind = f.kind /\ r.status = 200 /\ r.sets = yes
            /\ r.cookie = Principal(u) /\ r.token = u
            BY <1>1, <3>2, <4>2, <4>3, ReplyFits
      <4> QED BY <4>1, <4>4
    <3> QED BY <1>6, <3>3, <3>4 DEF FlightFits, AnswerFits, Opens
  <2> QED BY <1>6, <2>1, <2>2, ZenonT(40) DEF Replies
<1>7. CASE f.kind \in {"read", "write"}
  <2>1. r = Plain(f, IF f.kind = "write" /\ ~TokenFits(f) THEN 400
                     ELSE IF ~Valid(f.cookie) THEN 401
                     ELSE IF f.cookie.mustChange THEN 403 ELSE 200)
        BY <1>7 DEF Replies
  <2> QED BY <1>4, <1>7, <2>1
<1>8. CASE f.kind = "logout"
  <2>1. r = Plain(f, 400) \/ r = Reply(f, 204, TRUE, NoCookie, Nobody, SignedOut)
        BY <1>8 DEF Replies
  <2>2. CASE r = Reply(f, 204, TRUE, NoCookie, Nobody, SignedOut)
    <3>1. /\ r \in Flights /\ r.kind = f.kind /\ r.status = 204 /\ r.sets = TRUE
          /\ r.cookie = NoCookie
      <4>1. PICK yes \in BOOLEAN : yes = TRUE
            OBVIOUS
      <4>2. r = Reply(f, 204, yes, NoCookie, Nobody, SignedOut)
            BY <2>2, <4>1
      <4>3. NoCookie \in MaybeCookies /\ Nobody \in Tokens /\ 204 \in Codes
            BY DEF MaybeCookies, Tokens, Codes
      <4>4. /\ r \in Flights /\ r.kind = f.kind /\ r.status = 204 /\ r.sets = yes
            /\ r.cookie = NoCookie
            BY <1>1, <1>2, <4>2, <4>3, ReplyFits
      <4> QED BY <4>1, <4>4
    <3> QED BY <1>8, <3>1 DEF FlightFits, AnswerFits, Opens, Fresh
  <2> QED BY <1>4, <1>8, <2>1, <2>2, ZenonT(40)
<1> QED BY <1>1, <1>5, <1>6, <1>7, <1>8 DEF Flights, FlightKinds

LEMMA ExchangedFits ==
    ASSUME FlightsInv, NEW f \in flights, NEW r \in Flights, FlightFits(r),
           flights' = (flights \ {f}) \cup {r}, UNCHANGED <<account, cookie>>
    PROVE  FlightsInv'
BY FreshSame DEF FlightsInv, FlightFits, AnswerFits, Opens

LEMMA HandleKeeps == ASSUME SessionInv, NEW f \in flights, Handle(f) PROVE SessionInv'
<1>1. PICK r \in Replies(f) : flights' = (flights \ {f}) \cup {r}
      BY DEF Handle
<1>2. UNCHANGED <<account, cookie, token, place, leadsTo, me, signIn, notice>>
      BY DEF Handle, loginVars
<1>3. FlightsInv'
  <2>1. r \in Flights /\ FlightFits(r)
        BY RepliesFit DEF Handle
  <2> QED BY <1>1, <1>2, <2>1, ExchangedFits DEF SessionInv
<1>4. CountInv'
      BY <1>1, CountExchanged DEF SessionInv
<1> QED BY <1>2, <1>3, <1>4, FreshSame DEF SessionInv, CookieInv, PlacesInv, TokenInv

\* A new stamp.
LEMMA NewStampFits ==
    ASSUME NEW a \in AccountStates, a.stamp < MaxStamp
    PROVE  NewStamp(a) \in AccountStates /\ NewStamp(a).stamp = a.stamp + 1
<1>1. a.stamp + 1 \in 0..MaxStamp
      BY SessionBasics DEF AccountStates
<1> QED BY <1>1 DEF NewStamp, AccountStates

\* The account changes; where the tab is, it stays.
LEMMA AccountKeeps ==
    ASSUME SessionInv, NEW u \in Accounts, NEW a \in AccountStates, a.stamp = account[u].stamp,
           a.stamp < MaxStamp, account' = [account EXCEPT ![u] = NewStamp(a)]
    PROVE  /\ account' \in [Accounts -> AccountStates]
           /\ \A c : Fresh(c) => Fresh(c)'
<1>1. NewStamp(a) \in AccountStates /\ NewStamp(a).stamp = account[u].stamp + 1
      BY NewStampFits
<1>2. account \in [Accounts -> AccountStates]
      BY DEF SessionInv, CookieInv
<1> QED BY <1>1, <1>2, FreshStays

LEMMA UserKeeps ==
    ASSUME SessionInv, NEW u \in Accounts,
           \/ ResetPassword(u)
           \/ \E role \in Levels, active \in BOOLEAN : UpdateUser(u, role, active)
    PROVE  SessionInv'
<1>1. account[u] \in AccountStates /\ account[u].stamp < MaxStamp
      BY DEF SessionInv, CookieInv, ResetPassword, UpdateUser
<1>2. PICK a \in AccountStates : /\ a.stamp = account[u].stamp
                                 /\ account' = [account EXCEPT ![u] = NewStamp(a)]
  <2>1. CASE ResetPassword(u)
    <3>1. /\ [account[u] EXCEPT !.mustChange = TRUE] \in AccountStates
          /\ [account[u] EXCEPT !.mustChange = TRUE].stamp = account[u].stamp
          BY <1>1 DEF AccountStates
    <3> QED BY <2>1, <3>1 DEF ResetPassword, SessionInv, CookieInv
  <2>2. ASSUME NEW role \in Levels, NEW active \in BOOLEAN, UpdateUser(u, role, active)
        PROVE  \E a \in AccountStates : /\ a.stamp = account[u].stamp
                                        /\ account' = [account EXCEPT ![u] = NewStamp(a)]
    <3>1. /\ [account[u] EXCEPT !.role = role, !.active = active] \in AccountStates
          /\ [account[u] EXCEPT !.role = role, !.active = active].stamp = account[u].stamp
          BY <1>1 DEF AccountStates
    <3> QED BY <2>2, <3>1 DEF UpdateUser, SessionInv, CookieInv
  <2> QED BY <2>1, <2>2
<1>3. account' \in [Accounts -> AccountStates] /\ \A c : Fresh(c) => Fresh(c)'
      BY <1>1, <1>2, AccountKeeps
<1>4. UNCHANGED <<cookie, token, flights, place, leadsTo, me, signIn, notice>>
      BY DEF ResetPassword, UpdateUser, tabVars, loginVars
<1>5. FlightsInv'
      BY <1>3, <1>4 DEF SessionInv, FlightsInv, FlightFits, AnswerFits, Opens
<1> QED BY <1>3, <1>4, <1>5 DEF SessionInv, CookieInv, CountInv, PlacesInv, TokenInv

LEMMA HandleChangeKeeps == ASSUME SessionInv, NEW f \in flights, HandleChange(f) PROVE SessionInv'
<1>1. UNCHANGED <<cookie, token, place, leadsTo, me, signIn, notice>> /\ f.kind = "change"
      BY DEF HandleChange, loginVars
<1>2. f \in Flights /\ FlightFits(f) /\ Fresh(f.cookie) /\ account \in [Accounts -> AccountStates]
      BY DEF SessionInv, CookieInv, FlightsInv, FlightFits
<1>3. CASE UNCHANGED account
      /\ \E status \in {400, 401} : flights' = (flights \ {f}) \cup {Plain(f, status)}
  <2>1. PICK status \in {400, 401} : flights' = (flights \ {f}) \cup {Plain(f, status)}
        BY <1>3
  <2> DEFINE r == Plain(f, status)
             c == f.cookie
  <2>2. /\ c \in MaybeCookies
        /\ CookieAfter(c) \in MaybeCookies /\ Fresh(CookieAfter(c))
        /\ Rejects(f) => CookieAfter(c) = NoCookie
        /\ Rejects(f) \in BOOLEAN /\ SignedOut \in MeAnswers
    <3>1. (Rejects(f) <=> c # NoCookie /\ ~Valid(c)) /\ Rejects(f) \in BOOLEAN /\ SignedOut \in MeAnswers
          BY DEF Rejects, MeAnswers
    <3>2. Fresh(c)
          BY <1>2
    <3> HIDE DEF c
    <3> QED BY <1>2, <3>1, <3>2, ServiceFits
  <2>3. r = Reply(f, status, Rejects(f), CookieAfter(c), "keep", SignedOut)
        BY DEF Plain
  <2> HIDE DEF r, c
  <2>4. /\ r \in Flights /\ r.kind = f.kind /\ r.status = status /\ r.sets = Rejects(f)
        /\ r.cookie = CookieAfter(c) /\ r.token = "keep"
    <3>1. status \in Codes /\ "keep" \in Tokens
          BY DEF Codes, Tokens
    <3> QED BY <1>2, <2>2, <2>3, <3>1, ReplyFits
  <2>5. FlightFits(r)
        BY <1>1, <2>2, <2>4 DEF FlightFits, AnswerFits, Opens
  <2>6. flights' = (flights \ {f}) \cup {r}
        BY <2>1 DEF r
  <2>7. FlightsInv' /\ CountInv'
        BY <1>1, <1>3, <2>4, <2>5, <2>6, ExchangedFits, CountExchanged, ZenonT(40) DEF SessionInv
  <2> QED BY <1>1, <1>3, <2>7, FreshSame DEF SessionInv, CookieInv, PlacesInv, TokenInv
<1>4. CASE /\ Valid(f.cookie) /\ account[f.cookie.user].stamp < MaxStamp
           /\ account' = [account EXCEPT ![f.cookie.user] =
                                               NewStamp([@ EXCEPT !.mustChange = FALSE])]
           /\ flights' = (flights \ {f}) \cup
                {Reply(f, 204, TRUE, Principal(f.cookie.user)', f.cookie.user, SignedOut)}
  <2> DEFINE u == f.cookie.user
             a == [account[u] EXCEPT !.mustChange = FALSE]
  <2>1. u \in Accounts
        BY <1>2, <1>4 DEF Fresh, Valid, Cookies
  <2>2. a \in AccountStates /\ a.stamp = account[u].stamp
        BY <1>2, <2>1 DEF AccountStates
  <2>3. account' = [account EXCEPT ![u] = NewStamp(a)] /\ a.stamp < MaxStamp
        BY <1>2, <1>4, <2>1, <2>2
  <2> HIDE DEF a
  <2>4. account' \in [Accounts -> AccountStates] /\ \A c : Fresh(c) => Fresh(c)'
        BY <2>1, <2>2, <2>3, AccountKeeps
  <2>5. [user |-> u, role |-> account'[u].role, mustChange |-> account'[u].mustChange,
         stamp |-> account'[u].stamp] \in Cookies
    <3>1. account'[u] \in AccountStates
          BY <2>1, <2>4
    <3> QED BY <2>1, <3>1 DEF Cookies, AccountStates
  <2>6. PICK p \in Cookies : p = [user |-> u, role |-> account'[u].role,
                                  mustChange |-> account'[u].mustChange,
                                  stamp |-> account'[u].stamp]
        BY <2>5
  <2>7. p.user = u /\ p = Principal(p.user)'
        BY <2>6 DEF Principal
  <2>8. p # NoCookie /\ Fresh(p)'
        BY <2>7, SessionBasics DEF Fresh
  <2>9. PICK yes \in BOOLEAN : yes = TRUE
        OBVIOUS
  <2>10. SignedOut \in MeAnswers /\ p \in MaybeCookies /\ u \in Tokens /\ 204 \in Codes
         BY <2>1 DEF MeAnswers, MaybeCookies, Tokens, Codes
  <2>11. PICK r \in Flights : r = Reply(f, 204, yes, p, u, SignedOut)
    <3>1. Reply(f, 204, yes, p, u, SignedOut) \in Flights
          BY <1>2, <2>10, ReplyFits
    <3> QED BY <3>1
  <2>12. /\ r \in Flights /\ r.kind = f.kind /\ r.status = 204 /\ r.sets = yes
         /\ r.cookie = p /\ r.token = u
         BY <1>2, <2>10, <2>11, ReplyFits
  <2>13. flights' = (flights \ {f}) \cup {r}
         BY <1>4, <2>6, <2>9, <2>11 DEF Principal
  <2>14. FlightFits(r)'
         BY <1>1, <2>7, <2>8, <2>9, <2>12 DEF FlightFits, AnswerFits, Opens
  <2>15. \A g \in flights : FlightFits(g)'
         BY <1>1, <2>4 DEF SessionInv, FlightsInv, FlightFits, AnswerFits, Opens
  <2>16. FlightsInv' /\ CountInv'
         BY <2>13, <2>14, <2>15, CountExchanged DEF SessionInv, FlightsInv
  <2> QED BY <1>1, <2>4, <2>16 DEF SessionInv, CookieInv, PlacesInv, TokenInv
<1>5. \/ UNCHANGED account
         /\ \E status \in {400, 401} : flights' = (flights \ {f}) \cup {Plain(f, status)}
      \/ /\ Valid(f.cookie) /\ account[f.cookie.user].stamp < MaxStamp
         /\ account' = [account EXCEPT ![f.cookie.user] =
                                             NewStamp([@ EXCEPT !.mustChange = FALSE])]
         /\ flights' = (flights \ {f}) \cup
              {Reply(f, 204, TRUE, Principal(f.cookie.user)', f.cookie.user, SignedOut)}
      BY ZenonT(40) DEF HandleChange
<1> QED BY <1>3, <1>4, <1>5

-----------------------------------------------------------------------------
\* The tab.
LEMMA LoadKeeps ==
    ASSUME SessionInv, NEW p \in Places, FullLoad(p), leadsTo' \in Places \ {"/login"},
           CookieInv'
    PROVE  SessionInv'
<1>1. flights' = {} /\ place' = p /\ me' = MeUnknown /\ signIn' = "idle" /\ notice' = "none"
      BY DEF FullLoad
<1>2. FlightsInv' /\ CountInv'
      BY <1>1, FS_EmptySet, SessionBasics DEF FlightsInv, CountInv
<1> QED BY <1>1, <1>2, SessionBasics DEF SessionInv, PlacesInv, TokenInv

\* The tab gives its session up, or keeps it.
LEMMA SessionGoes ==
    ASSUME SessionInv, UNCHANGED account, cookie' \in {cookie, NoCookie},
           token' \in Accounts \cup {Nobody}
    PROVE  CookieInv'
BY FreshSame DEF SessionInv, CookieInv, Fresh

LEMMA RoutedFits ==
    ASSUME NEW p \in Places, NEW m PROVE Routed(p, m) \in Places /\ Routed("/login", m) = "/login"
BY DEF Routed, Places

LEMMA SendKeeps ==
    ASSUME SessionInv, NEW kind \in FlightKinds, NEW u \in Accounts \cup {Nobody}, MaySend,
           SendRequest(kind, u), UNCHANGED <<account, cookie, token>>, PlacesInv', UNCHANGED me
    PROVE  SessionInv'
<1>1. FlightsInv' /\ CountInv'
      BY SentFits, CountSent DEF SessionInv, MaySend, SendRequest
<1> QED BY <1>1, FreshSame DEF SessionInv, CookieInv, TokenInv

LEMMA QuestionsKeep ==
    ASSUME SessionInv,
           \/ AskMe \/ ChangePassword \/ SignOut
           \/ \E u \in Accounts : SubmitLogin(u)
           \/ \E kind \in {"read", "write"} : AskService(kind)
    PROVE  SessionInv'
<1>1. CASE AskMe \/ ChangePassword \/ SignOut \/ \E kind \in {"read", "write"} : AskService(kind)
  <2>1. UNCHANGED <<account, cookie, token, place, leadsTo, me, signIn, notice>> /\ MaySend
        BY <1>1 DEF AskMe, ChangePassword, SignOut, AskService, loginVars
  <2>2. \E kind \in FlightKinds : SendRequest(kind, Nobody)
        BY <1>1 DEF AskMe, ChangePassword, SignOut, AskService, FlightKinds
  <2>3. PlacesInv'
        BY <2>1 DEF SessionInv, PlacesInv
  <2> QED BY <2>1, <2>2, <2>3, SendKeeps
<1>2. CASE \E u \in Accounts : SubmitLogin(u)
  <2>1. PICK u \in Accounts : SubmitLogin(u)
        BY <1>2
  <2>2. PlacesInv' /\ "login" \in FlightKinds
        BY <2>1 DEF SessionInv, PlacesInv, SubmitLogin, FlightKinds
  <2> QED BY <2>1, <2>2, SendKeeps DEF SubmitLogin
<1> QED BY <1>1, <1>2

\* An answer that begins no session.
LEMMA TakesFits ==
    ASSUME SessionInv, NEW f \in flights, ~Opens(f), Takes(f), UNCHANGED account
    PROVE  /\ cookie' \in {cookie, NoCookie} /\ (f.sets => cookie' = NoCookie)
           /\ CookieInv' /\ FlightsInv' /\ CountInv'
<1>1. f \in Flights /\ AnswerFits(f)
      BY DEF SessionInv, FlightsInv, FlightFits
<1>2. cookie' \in {cookie, NoCookie} /\ (f.sets => cookie' = NoCookie)
      BY <1>1 DEF AnswerFits, Takes
<1>3. token' \in Accounts \cup {Nobody}
      BY <1>1 DEF Takes, Flights, Tokens, SessionInv, CookieInv
<1>4. flights' \subseteq flights
      BY DEF Takes
<1> QED BY <1>2, <1>3, <1>4, SessionGoes, FewerFit, CountFewer DEF SessionInv

LEMMA MeArrivesKeeps == ASSUME SessionInv, NEW f \in flights, MeArrives(f) PROVE SessionInv'
<1>1. f \in Flights /\ FlightFits(f) /\ f.kind = "me" /\ f.status = 200 /\ ~Opens(f)
      BY DEF SessionInv, FlightsInv, MeArrives, Opens
<1>2. /\ cookie' \in {cookie, NoCookie} /\ (f.sets => cookie' = NoCookie)
      /\ CookieInv' /\ FlightsInv' /\ CountInv'
      BY <1>1, TakesFits DEF MeArrives
<1>3. me' = f.me /\ f.me \in MeAnswers /\ notice' = notice /\ signIn' \in {signIn, "idle"}
      BY <1>1 DEF MeArrives, Flights
<1>4. place' \in Places /\ (signIn' = "pending" => place' = "/login")
  <2>1. CASE signIn = "settling"
    <3>1. Leads(me) \in Places /\ "/login" \in Places
          BY DEF Leads, SessionInv, PlacesInv, Places
    <3>2. place' = Routed(IF f.me.user = Nobody THEN "/login" ELSE Leads(me), f.me) /\ signIn' = "idle"
          BY <2>1 DEF MeArrives
    <3> QED BY <3>1, <3>2, RoutedFits
  <2>2. CASE signIn # "settling"
    <3>1. Leads(f.me) \in Places /\ place \in Places
          BY DEF Leads, SessionInv, PlacesInv, Places
    <3>2. /\ signIn' = signIn
          /\ place' = IF place = "/login" /\ signIn = "idle" /\ f.me.user # Nobody
                      THEN Routed(Leads(f.me), f.me) ELSE Routed(place, f.me)
          BY <2>2 DEF MeArrives
    <3> QED BY <3>1, <3>2, RoutedFits DEF SessionInv, PlacesInv
  <2> QED BY <2>1, <2>2
<1>5. leadsTo' \in Places \ {"/login"}
      BY DEF MeArrives, SessionInv, PlacesInv, Places
<1>6. TokenInv'
  <2> SUFFICES ASSUME f.me.user # Nobody, cookie' # NoCookie PROVE token' = cookie'.user
      BY <1>3 DEF TokenInv
  <2>1. ~f.sets /\ f.cookie # NoCookie /\ f.token = f.cookie.user /\ cookie \in {f.cookie, NoCookie}
        BY <1>1 DEF FlightFits, AnswerFits
  <2>2. f.token # "keep"
        BY <1>1, <2>1, SessionBasics DEF Flights, MaybeCookies, Cookies
  <2> QED BY <1>2, <2>1, <2>2 DEF MeArrives, Takes
<1>7. PlacesInv'
      BY <1>3, <1>4, <1>5 DEF SessionInv, PlacesInv
<1> QED BY <1>2, <1>6, <1>7 DEF SessionInv

LEMMA MeFailsKeeps == ASSUME SessionInv, NEW f \in flights, MeFails(f) PROVE SessionInv'
<1>1. UNCHANGED <<account, cookie, token, leadsTo, me, notice>> /\ flights' \subseteq flights
      BY DEF MeFails
<1>2. FlightsInv' /\ CountInv'
      BY <1>1, FewerFit, CountFewer DEF SessionInv
<1>3. Leads(me) \in Places
      BY DEF Leads, SessionInv, PlacesInv, Places
<1>4. PlacesInv'
      BY <1>1, <1>3, RoutedFits DEF MeFails, SessionInv, PlacesInv
<1> QED BY <1>1, <1>2, <1>4, FreshSame DEF SessionInv, CookieInv, TokenInv

\* A new session, and the question who it is of.
LEMMA SessionBegins ==
    ASSUME SessionInv, NEW f \in flights, Opens(f), UNCHANGED account,
           cookie' = f.cookie, token' = f.token,
           flights' = {g \in flights \ {f} : g.kind # "me"} \cup
              {[kind |-> "me", for |-> Nobody, cookie |-> f.cookie, token |-> f.token,
                status |-> 0, sets |-> FALSE, me |-> SignedOut]}
    PROVE  CookieInv' /\ FlightsInv' /\ CountInv' /\ TokenInv'
<1>1. f \in Flights /\ FlightFits(f) /\ f.cookie # NoCookie /\ f.token = f.cookie.user
      BY DEF SessionInv, FlightsInv, FlightFits, AnswerFits
<1>2. f.cookie \in MaybeCookies /\ f.token \in Tokens /\ f.token \in Accounts /\ Fresh(f.cookie)'
      BY <1>1, FreshSame DEF Flights, MaybeCookies, Cookies, FlightFits
<1>3. PICK q \in Flights : q = [kind |-> "me", for |-> Nobody, cookie |-> f.cookie, token |-> f.token,
                                status |-> 0, sets |-> FALSE, me |-> SignedOut]
  <2>1. SignedOut \in MeAnswers /\ 0 \in Codes /\ "me" \in FlightKinds
        BY DEF MeAnswers, Codes, FlightKinds
  <2>2. [kind |-> "me", for |-> Nobody, cookie |-> f.cookie, token |-> f.token,
         status |-> 0, sets |-> FALSE, me |-> SignedOut] \in Flights
        BY <1>2, <2>1 DEF Flights
  <2> QED BY <2>2
<1>4. flights' = {g \in flights \ {f} : g.kind # "me"} \cup {q}
      BY <1>3
<1>5. q.cookie = f.cookie /\ q.status = 0 /\ ~q.sets
      BY <1>3
<1>6. FlightFits(q)'
      BY <1>2, <1>5 DEF FlightFits, AnswerFits, Opens
<1>7. \A g \in flights : g.kind # "me" => FlightFits(g)'
      BY FreshSame DEF SessionInv, FlightsInv, FlightFits, AnswerFits, Opens
<1>8. FlightsInv'
      BY <1>4, <1>6, <1>7 DEF SessionInv, FlightsInv
<1>9. CountInv'
  <2>1. {g \in flights \ {f} : g.kind # "me"} \subseteq flights \ {f}
        OBVIOUS
  <2> QED BY <1>4, <2>1, CountExchanged DEF SessionInv
<1>10. CookieInv'
       BY <1>2 DEF SessionInv, CookieInv
<1> QED BY <1>1, <1>8, <1>9, <1>10 DEF TokenInv

LEMMA LoginKeeps ==
    ASSUME SessionInv, NEW f \in flights, LoginArrives(f) \/ LoginFails(f) PROVE SessionInv'
<1>1. f \in Flights /\ AnswerFits(f)
      BY DEF SessionInv, FlightsInv, FlightFits
<1>2. CASE LoginArrives(f)
  <2>1. CookieInv' /\ FlightsInv' /\ CountInv' /\ TokenInv'
        BY <1>2, SessionBegins DEF LoginArrives, Opens
  <2>2. PlacesInv'
        BY <1>1, <1>2 DEF LoginArrives, Flights, SessionInv, PlacesInv
  <2> QED BY <2>1, <2>2 DEF SessionInv
<1>3. CASE LoginFails(f)
  <2>1. PlacesInv' /\ ~Opens(f) /\ UNCHANGED <<account, me>>
        BY <1>3 DEF LoginFails, SessionInv, PlacesInv, Opens
  <2>2. /\ cookie' \in {cookie, NoCookie} /\ CookieInv' /\ FlightsInv' /\ CountInv' /\ token' = token
    <3>1. CASE f.status = 0
      <4>1. UNCHANGED <<cookie, token>> /\ flights' \subseteq flights
            BY <1>3, <3>1 DEF LoginFails
      <4> QED BY <2>1, <4>1, SessionGoes, FewerFit, CountFewer DEF SessionInv, CookieInv
    <3>2. CASE f.status # 0
      <4>1. Takes(f) /\ f.token = "keep"
            BY <1>1, <1>3, <2>1, <3>2 DEF LoginFails, AnswerFits
      <4> QED BY <2>1, <4>1, TakesFits DEF Takes
    <3> QED BY <3>1, <3>2
  <2> QED BY <2>1, <2>2 DEF SessionInv, TokenInv
<1> QED BY <1>2, <1>3

LEMMA ChangeKeeps ==
    ASSUME SessionInv, NEW f \in flights, ChangeArrives(f) \/ ChangeFails(f) PROVE SessionInv'
<1>1. f \in Flights /\ AnswerFits(f)
      BY DEF SessionInv, FlightsInv, FlightFits
<1>2. CASE ChangeArrives(f)
  <2>1. CookieInv' /\ FlightsInv' /\ CountInv' /\ TokenInv'
        BY <1>2, SessionBegins DEF ChangeArrives, Opens
  <2>2. PlacesInv'
        BY <1>2 DEF ChangeArrives, SessionInv, PlacesInv, Places
  <2> QED BY <2>1, <2>2 DEF SessionInv
<1>3. CASE ChangeFails(f)
  <2>1. PlacesInv' /\ ~Opens(f) /\ UNCHANGED <<account, me>>
        BY <1>3 DEF ChangeFails, SessionInv, PlacesInv, Opens, loginVars
  <2>2. /\ cookie' \in {cookie, NoCookie} /\ CookieInv' /\ FlightsInv' /\ CountInv' /\ token' = token
    <3>1. CASE f.status = 0
      <4>1. UNCHANGED <<cookie, token>> /\ flights' \subseteq flights
            BY <1>3, <3>1 DEF ChangeFails
      <4> QED BY <2>1, <4>1, SessionGoes, FewerFit, CountFewer DEF SessionInv, CookieInv
    <3>2. CASE f.status # 0
      <4>1. Takes(f) /\ f.token = "keep"
            BY <1>1, <1>3, <2>1, <3>2 DEF ChangeFails, AnswerFits
      <4> QED BY <2>1, <4>1, TakesFits DEF Takes
    <3> QED BY <3>1, <3>2
  <2> QED BY <2>1, <2>2 DEF SessionInv, TokenInv
<1> QED BY <1>2, <1>3

LEMMA ServiceKeeps ==
    ASSUME SessionInv, NEW f \in flights, ServiceAnswers(f) \/ SignedOutNow(f) PROVE SessionInv'
<1>1. f \in Flights /\ AnswerFits(f) /\ ~Opens(f)
      BY DEF SessionInv, FlightsInv, FlightFits, ServiceAnswers, SignedOutNow, Opens
<1>2. cookie' \in {cookie, NoCookie} /\ UNCHANGED account
      BY <1>1 DEF AnswerFits, ServiceAnswers, SignedOutNow
<1>3. token' \in Accounts \cup {Nobody}
      BY <1>1 DEF Flights, Tokens, SessionInv, CookieInv, ServiceAnswers, SignedOutNow
<1>4. CookieInv'
      BY <1>2, <1>3, SessionGoes
<1>5. CASE SignedOutNow(f)
      BY <1>4, <1>5, LoadKeeps DEF SignedOutNow, Places
<1>6. CASE ServiceAnswers(f)
  <2>1. CASE f.status = 401 /\ place # "/login"
    <3>1. FullLoad("/login") /\ leadsTo' = place /\ "/login" \in Places
          BY <1>6, <2>1 DEF ServiceAnswers, Places
    <3> QED BY <1>4, <2>1, <3>1, LoadKeeps DEF SessionInv, PlacesInv
  <2>2. CASE ~(f.status = 401 /\ place # "/login")
    <3>1. /\ flights' \subseteq flights /\ UNCHANGED <<place, leadsTo, me, signIn, notice>>
          /\ UNCHANGED token
          BY <1>6, <2>2 DEF ServiceAnswers
    <3>2. FlightsInv' /\ CountInv'
          BY <1>2, <3>1, FewerFit, CountFewer DEF SessionInv
    <3> QED BY <1>2, <1>4, <3>1, <3>2 DEF SessionInv, PlacesInv, TokenInv
  <2> QED BY <2>1, <2>2
<1> QED BY <1>5, <1>6

LEMMA PagesKeep ==
    ASSUME SessionInv,
           \/ OpenPassword \/ BackFromPassword \/ CookieExpires
           \/ \E p \in Places : Visit(p)
           \/ \E u \in Accounts, ok \in BOOLEAN : SignInElsewhere(u, ok)
    PROVE  SessionInv'
<1>1. CASE OpenPassword \/ BackFromPassword
  <2>1. UNCHANGED <<account, cookie, token, flights, me>>
        BY <1>1 DEF OpenPassword, BackFromPassword, tabVars
  <2>2. PlacesInv'
        BY <1>1 DEF OpenPassword, BackFromPassword, tabVars, Inside, SessionInv, PlacesInv, Places
  <2>3. FlightsInv' /\ CountInv'
        BY <2>1, FewerFit, CountFewer DEF SessionInv
  <2> QED BY <2>1, <2>2, <2>3, FreshSame DEF SessionInv, CookieInv, TokenInv
<1>2. CASE CookieExpires
  <2>1. cookie' = NoCookie /\ UNCHANGED <<account, token, flights, place, leadsTo, me, signIn, notice>>
        BY <1>2 DEF CookieExpires, loginVars
  <2>2. FlightsInv' /\ CountInv' /\ CookieInv'
        BY <2>1, FewerFit, CountFewer, SessionGoes DEF SessionInv, CookieInv
  <2> QED BY <2>1, <2>2 DEF SessionInv, PlacesInv, TokenInv
<1>3. ASSUME NEW p \in Places, Visit(p) PROVE SessionInv'
  <2>1. CookieInv' /\ leadsTo' \in Places \ {"/login"}
        BY <1>3, SessionGoes DEF Visit, Places, SessionInv, CookieInv
  <2> QED BY <1>3, <2>1, LoadKeeps DEF Visit
<1>4. ASSUME NEW u \in Accounts, NEW ok \in BOOLEAN, SignInElsewhere(u, ok) PROVE SessionInv'
  <2>1. Fresh(Principal(u))
        BY PrincipalFits DEF SessionInv, CookieInv
  <2>2. cookie' \in {cookie, Principal(u)} /\ UNCHANGED <<account, token, leadsTo>>
        BY <1>4 DEF SignInElsewhere
  <2>3. CookieInv'
        BY <2>1, <2>2, FreshSame DEF SessionInv, CookieInv
  <2>4. flights' = {} /\ PlacesInv' /\ me' = MeUnknown
        BY <1>4 DEF SignInElsewhere, SessionInv, PlacesInv
  <2>5. FlightsInv' /\ CountInv'
        BY <2>4, FS_EmptySet, SessionBasics DEF FlightsInv, CountInv
  <2> QED BY <2>3, <2>4, <2>5, SessionBasics DEF SessionInv, TokenInv
<1> QED BY <1>1, <1>2, <1>3, <1>4

-----------------------------------------------------------------------------
LEMMA SessionInvStep == SessionInv /\ [SessionNext]_sessionVars => SessionInv'
<1> SUFFICES ASSUME SessionInv, [SessionNext]_sessionVars PROVE SessionInv'
    OBVIOUS
<1>1. CASE UNCHANGED sessionVars
  <2>1. UNCHANGED <<account, cookie, token, flights, place, leadsTo, me, signIn, notice>>
        BY <1>1 DEF sessionVars
  <2>2. FlightsInv' /\ CountInv'
        BY <2>1, FewerFit, CountFewer DEF SessionInv
  <2> QED BY <2>1, <2>2, FreshSame DEF SessionInv, CookieInv, PlacesInv, TokenInv
<1>2. ASSUME NEW f \in flights,
             \/ Handle(f) \/ HandleChange(f) \/ MeArrives(f) \/ MeFails(f)
             \/ LoginArrives(f) \/ LoginFails(f) \/ ChangeArrives(f) \/ ChangeFails(f)
             \/ ServiceAnswers(f) \/ SignedOutNow(f)
      PROVE  SessionInv'
      BY <1>2, HandleKeeps, HandleChangeKeeps, MeArrivesKeeps, MeFailsKeeps, LoginKeeps,
         ChangeKeeps, ServiceKeeps
<1> QED BY <1>1, <1>2, UserKeeps, QuestionsKeep, PagesKeep DEF SessionNext

LEMMA SessionInvShows ==
    SessionInv => SessionType /\ SessionsAreCurrent /\ TokenIsOfTheSession
<1> SUFFICES ASSUME SessionInv PROVE SessionType /\ SessionsAreCurrent /\ TokenIsOfTheSession
    OBVIOUS
<1>1. SessionType
      BY DEF SessionInv, SessionType, CookieInv, CountInv, PlacesInv, AccountStates, Fresh
<1>2. ASSUME NEW c, Fresh(c), Valid(c) PROVE c = Principal(c.user)
  <2>1. c \in Cookies /\ account[c.user].stamp = c.stamp /\ c.stamp \in Nat
        BY <1>2, SessionBasics DEF Fresh, Valid, Cookies
  <2>2. ~(c.stamp < account[c.user].stamp) /\ c # NoCookie
        BY <1>2, <2>1 DEF Valid
  <2> QED BY <1>2, <2>2 DEF Fresh
<1>3. SessionsAreCurrent
      BY <1>2 DEF SessionsAreCurrent, SessionInv, CookieInv, FlightsInv, FlightFits
<1>4. TokenIsOfTheSession
      BY DEF TokenIsOfTheSession, Inside, Valid, SessionInv, TokenInv
<1> QED BY <1>1, <1>3, <1>4

-----------------------------------------------------------------------------
(***************************************************************************)
(* The import page.                                                        *)
(***************************************************************************)
Contents == Texts \cup {NotThere, Broken}
\* What can be imported of a preview are texts.
Previews ==
    {p \in [id : Nat \ {0}, source : Origin, rules : RuleSets, base : [KeySet -> Nat],
            incoming : [KeySet -> Contents],
            status : [KeySet -> {"missing", "invalid", "new", "unchanged", "changed"}]] :
        \A k \in Importable(p) : p.incoming[k] \in Texts}
MaybePreviews == Previews \cup {NoPreview}
Steps == {"sent", "answered", "refused", "expired", "conflict", "saving"}
ImportCalls ==
    [task : Tasks, source : Origin, rules : RuleSets, id : Nat, keys : SUBSET KeySet,
     shown : MaybePreviews, made : MaybePreviews,
     step : Steps]
Checks == [id : Nat, keys : SUBSET KeySet, sent : BOOLEAN, found : BOOLEAN, live : BOOLEAN,
           failed : BOOLEAN]

\* An import is asked for with the preview on the screen, and the service saves
\* the preview it found under the same id.
CallFits(c) ==
    /\ c.task = "apply" => c.id = c.shown.id /\ c.shown \in Previews /\ c.keys \subseteq Importable(c.shown)
    /\ c.step = "saving" => c.task = "apply" /\ c.made.id = c.id
    /\ c.step = "answered" /\ c.task # "apply" => c.made \in Previews

CallsInv ==
    /\ importCalls \subseteq ImportCalls
    /\ \A c \in importCalls : CallFits(c)
    /\ \A c, d \in importCalls : c.task = d.task => c = d

\* All previews anybody has of all that were made: an id is given only once.
KnownPreviews == {NoPreview} \cup previews \cup preview \cup {c.made : c \in importCalls}
            \cup {c.shown : c \in importCalls}
KnownInv == \A p \in KnownPreviews : p.id <= previewsMade /\ \A q \in KnownPreviews : p.id = q.id => p = q

ServiceInv ==
    /\ versions \in [KeySet -> Seq(Texts)]
    /\ previews \subseteq Previews /\ previewsMade \in Nat
    /\ follows \in {"imports", "validations"} /\ blind = FALSE

PageInv ==
    /\ source \in Origin /\ commented \in BOOLEAN /\ conflicted \in BOOLEAN /\ imported \in BOOLEAN
    /\ chosenRules \in RuleSets /\ declined \subseteq KeySet /\ selected \subseteq KeySet
    /\ preview = {} \/ \E p \in Previews : preview = {p}
    /\ \A p \in preview : selected \subseteq Importable(p)
    /\ declined \cap selected = {}

\* A validation that is heeded is one of the selection on the screen, and
\* without one the problems are of that selection.
ChecksInv ==
    /\ checks \subseteq Checks
    /\ follows = "validations" =>
         /\ ~imported /\ \A c \in importCalls : c.task # "apply"
         /\ \A v \in checks : v.live => preview # {} /\ \A p \in preview : v.id = p.id /\ v.keys = selected
         /\ (\A v \in checks : ~v.live) => \A p \in preview : issues = [id |-> p.id, keys |-> selected]

ImportInv == ServiceInv /\ KnownInv /\ CallsInv /\ PageInv /\ ChecksInv

-----------------------------------------------------------------------------
LEMMA ImportBasics ==
    /\ NoRules \in RuleSets /\ NoPreview.id = 0 /\ NoPreview \notin Previews
    /\ Stored \in [KeySet -> Seq(Texts)] /\ NoPreview \in MaybePreviews
    /\ \A s \in Origin, r \in RuleSets : Offer[s][r] \in [KeySet -> Contents]
BY ImportAssumption DEF NoPreview, Previews, MaybePreviews, Contents

LEMMA PreviewFits ==
    ASSUME NEW p \in Previews
    PROVE  /\ p.id \in Nat \ {0} /\ p.source \in Origin /\ p.rules \in RuleSets
           /\ Importable(p) \subseteq KeySet /\ \A k \in Importable(p) : p.incoming[k] \in Texts
BY DEF Previews, Importable

\* Where the texts of a preview come from: a section that can be imported is one.
LEMMA CreatedFits ==
    ASSUME versions \in [KeySet -> Seq(Texts)], previewsMade \in Nat, NEW s \in Origin,
           NEW r \in RuleSets, NEW p, p = CreatePreview(s, r)
    PROVE  p \in Previews /\ p.id = previewsMade + 1
<1> DEFINE status == [k \in KeySet |-> StatusOf(Offer[s][r][k], k)]
           base == [k \in KeySet |-> Len(versions[k])]
           P == [id : Nat \ {0}, source : Origin, rules : RuleSets, base : [KeySet -> Nat],
                 incoming : [KeySet -> Contents],
                 status : [KeySet -> {"missing", "invalid", "new", "unchanged", "changed"}]]
<1>1. ASSUME NEW k \in KeySet
      PROVE  /\ StatusOf(Offer[s][r][k], k) \in {"missing", "invalid", "new", "unchanged", "changed"}
             /\ StatusOf(Offer[s][r][k], k) \in {"changed", "new"} => Offer[s][r][k] \in Texts
  <2> DEFINE text == Offer[s][r][k]
  <2>1. text \in Texts \/ text = NotThere \/ text = Broken
        BY ImportBasics DEF Contents
  <2> HIDE DEF text
  <2>2. /\ StatusOf(text, k) \in {"missing", "invalid", "new", "unchanged", "changed"}
        /\ StatusOf(text, k) \in {"changed", "new"} => text \in Texts
    <3>1. CASE text = NotThere
          BY <3>1 DEF StatusOf
    <3>2. CASE text # NotThere /\ text = Broken
          BY <3>2 DEF StatusOf
    <3>3. CASE text # NotThere /\ text # Broken /\ versions[k] = <<>>
          BY <2>1, <3>3 DEF StatusOf
    <3>4. CASE text # NotThere /\ text # Broken /\ versions[k] # <<>>
          BY <2>1, <3>4 DEF StatusOf
    <3> QED BY <3>1, <3>2, <3>3, <3>4
  <2> QED BY <2>2 DEF text
<1>2. status \in [KeySet -> {"missing", "invalid", "new", "unchanged", "changed"}]
      BY <1>1
<1>3. base \in [KeySet -> Nat]
  <2>1. ASSUME NEW k \in KeySet PROVE Len(versions[k]) \in Nat
        OBVIOUS
  <2> QED BY <2>1
<1>4. p = [id |-> previewsMade + 1, source |-> s, rules |-> r, base |-> base,
           incoming |-> Offer[s][r], status |-> status]
      BY DEF CreatePreview
<1>5. \A k \in KeySet : status[k] \in {"changed", "new"} => Offer[s][r][k] \in Texts
      BY <1>1
<1> HIDE DEF status, base
<1>6. p \in P /\ p.id = previewsMade + 1 /\ p.status = status /\ p.incoming = Offer[s][r]
      BY <1>2, <1>3, <1>4, ImportBasics
<1> QED BY <1>5, <1>6 DEF Previews, Importable

\* How far the service is with a call.
LEMMA SteppedFits ==
    ASSUME NEW c \in ImportCalls, NEW step \in Steps,
           NEW d, d = [c EXCEPT !.step = step]
    PROVE  /\ d \in ImportCalls /\ d.task = c.task /\ d.id = c.id /\ d.keys = c.keys /\ d.shown = c.shown
           /\ d.step = step /\ d.made = c.made
BY DEF ImportCalls

LEMMA MadeFits ==
    ASSUME NEW c \in ImportCalls, NEW p \in MaybePreviews, NEW d, d = [c EXCEPT !.made = p]
    PROVE  /\ d \in ImportCalls /\ d.task = c.task /\ d.id = c.id /\ d.keys = c.keys /\ d.shown = c.shown
           /\ d.step = c.step /\ d.made = p
BY DEF ImportCalls

-----------------------------------------------------------------------------
\* Previews that are known.
LEMMA KnownSame ==
    ASSUME KnownInv, previewsMade' = previewsMade, KnownPreviews' \subseteq KnownPreviews
    PROVE  KnownInv'
BY DEF KnownInv

LEMMA KnownMore ==
    ASSUME ImportInv, NEW p \in Previews, p.id = previewsMade + 1, previewsMade' = previewsMade + 1,
           KnownPreviews' \subseteq KnownPreviews \cup {p}
    PROVE  KnownInv'
<1>1. \A q \in KnownPreviews : q.id \in Nat /\ q.id <= previewsMade
  <2>1. ASSUME NEW q \in KnownPreviews PROVE q \in MaybePreviews
        BY DEF ImportInv, ServiceInv, CallsInv, PageInv, KnownPreviews, MaybePreviews, ImportCalls
  <2>2. \A q \in MaybePreviews : q.id \in Nat
        BY ImportBasics, PreviewFits DEF MaybePreviews
  <2> QED BY <2>1, <2>2 DEF ImportInv, KnownInv
<1>2. previewsMade \in Nat
      BY DEF ImportInv, ServiceInv
<1> QED BY <1>1, <1>2 DEF ImportInv, KnownInv

\* A call goes on, or goes.
LEMMA CallsMove ==
    ASSUME CallsInv, NEW c \in importCalls, NEW d \in ImportCalls, d.task = c.task, CallFits(d),
           importCalls' = (importCalls \ {c}) \cup {d}
    PROVE  CallsInv'
BY DEF CallsInv

LEMMA CallsGo ==
    ASSUME CallsInv, importCalls' \subseteq importCalls PROVE CallsInv'
BY DEF CallsInv

LEMMA PageSame ==
    ASSUME PageInv, ChecksInv, UNCHANGED <<pageVars, checks, follows>>,
           \A d \in importCalls' : \E c \in importCalls : d.task = c.task
    PROVE  PageInv' /\ ChecksInv'
BY DEF PageInv, ChecksInv, pageVars

-----------------------------------------------------------------------------
LEMMA ImportInvInit == ImportInit => ImportInv
<1> SUFFICES ASSUME ImportInit PROVE ImportInv
    OBVIOUS
<1>1. KnownInv
      BY ImportBasics DEF ImportInit, KnownInv, KnownPreviews
<1> QED BY <1>1, ImportBasics
        DEF ImportInit, ImportInv, ServiceInv, CallsInv, PageInv, ChecksInv

-----------------------------------------------------------------------------
\* The service makes previews.
LEMMA PreviewsKeep ==
    ASSUME ImportInv, NEW c \in importCalls, MakePreview(c) \/ Recompute(c) PROVE ImportInv'
<1>1. /\ c \in ImportCalls /\ CallFits(c) /\ c.step = "sent" /\ c.task \in {"load", "refresh"}
      /\ UNCHANGED <<versions, follows, pageVars, checks, blind>>
      BY DEF MakePreview, Recompute, ImportInv, CallsInv
<1>2. CASE Moves(c, "refused") /\ UNCHANGED <<previews, previewsMade>>
  <2>1. PICK d : d = [c EXCEPT !.step = "refused"]
        OBVIOUS
  <2>2. importCalls' = (importCalls \ {c}) \cup {d}
        BY <1>2, <2>1 DEF Moves
  <2>3. /\ d \in ImportCalls /\ d.task = c.task /\ d.shown = c.shown /\ d.step = "refused" /\ d.made = c.made
        BY <1>1, <2>1, SteppedFits DEF Steps
  <2>4. CallFits(d)
        BY <1>1, <2>3 DEF CallFits
  <2>5. KnownPreviews' \subseteq KnownPreviews
        BY <1>1, <1>2, <2>2, <2>3 DEF KnownPreviews, pageVars
  <2>6. CallsInv' /\ KnownInv'
        BY <1>2, <2>2, <2>3, <2>4, <2>5, CallsMove, KnownSame DEF ImportInv
  <2>7. PageInv' /\ ChecksInv'
        BY <1>1, <2>2, <2>3, PageSame DEF ImportInv
  <2> QED BY <1>1, <1>2, <2>6, <2>7 DEF ImportInv, ServiceInv
<1>3. CASE \E s \in Origin, r \in RuleSets :
              /\ previews' \subseteq previews \cup {CreatePreview(s, r)}
              /\ previewsMade' = previewsMade + 1
              /\ Answers(c, "answered", CreatePreview(s, r))
  <2>1. PICK s \in Origin, r \in RuleSets :
              /\ previews' \subseteq previews \cup {CreatePreview(s, r)}
              /\ previewsMade' = previewsMade + 1
              /\ Answers(c, "answered", CreatePreview(s, r))
        BY <1>3
  <2>2. PICK p : p = CreatePreview(s, r)
        OBVIOUS
  <2>3. p \in Previews /\ p.id = previewsMade + 1 /\ p \in MaybePreviews
        BY <2>2, CreatedFits DEF ImportInv, ServiceInv, MaybePreviews
  <2>4. PICK step \in Steps : step = "answered"
        BY DEF Steps
  <2>5. PICK e : e = [c EXCEPT !.step = step]
        OBVIOUS
  <2>6. PICK d : d = [e EXCEPT !.made = p]
        OBVIOUS
  <2>7. e \in ImportCalls /\ e.task = c.task /\ e.shown = c.shown /\ e.step = step
        BY <1>1, <2>4, <2>5, SteppedFits
  <2>8. importCalls' = (importCalls \ {c}) \cup {d} /\ previews' \subseteq previews \cup {p}
        BY <2>4, <2>1, <2>2, <2>5, <2>6 DEF Answers
  <2>9. d \in ImportCalls /\ d.task = c.task /\ d.shown = c.shown /\ d.step = step /\ d.made = p
        BY <2>3, <2>6, <2>7, MadeFits
  <2>10. d \in ImportCalls /\ d.task = c.task /\ d.shown = c.shown /\ d.step = "answered" /\ d.made = p
        BY <2>4, <2>9
  <2>11. CallFits(d)
        BY <1>1, <2>3, <2>10 DEF CallFits
  <2>12. KnownPreviews' \subseteq KnownPreviews \cup {p}
        BY <1>1, <2>8, <2>10 DEF KnownPreviews, pageVars
  <2>13. CallsInv' /\ KnownInv'
        BY <2>1, <2>3, <2>8, <2>10, <2>11, <2>12, CallsMove, KnownMore DEF ImportInv
  <2>14. PageInv' /\ ChecksInv'
         BY <1>1, <2>8, <2>10, PageSame DEF ImportInv
  <2> QED BY <1>1, <2>1, <2>3, <2>8, <2>13, <2>14 DEF ImportInv, ServiceInv
<1>4. \/ Moves(c, "refused") /\ UNCHANGED <<previews, previewsMade>>
      \/ \E s \in Origin, r \in RuleSets :
              /\ previews' \subseteq previews \cup {CreatePreview(s, r)}
              /\ previewsMade' = previewsMade + 1
              /\ Answers(c, "answered", CreatePreview(s, r))
  <2>1. c.source \in Origin /\ c.rules \in RuleSets
        BY <1>1 DEF ImportCalls
  <2>2. CASE MakePreview(c)
        BY <2>1, <2>2 DEF MakePreview
  <2>3. CASE Recompute(c)
    <3>1. \A p \in Find(c.id) : p.source \in Origin
          BY PreviewFits DEF Find, ImportInv, ServiceInv
    <3> QED BY <2>1, <2>3, <3>1 DEF Recompute
  <2> QED BY <2>2, <2>3
<1> QED BY <1>2, <1>3, <1>4

\* It looks a preview up, and begins to save it.
LEMMA CheckKeeps == ASSUME ImportInv, NEW c \in importCalls, CheckImport(c) PROVE ImportInv'
<1>1. /\ c \in ImportCalls /\ CallFits(c) /\ c.step = "sent" /\ c.task = "apply"
      /\ UNCHANGED <<versions, previews, previewsMade, follows, pageVars, checks, blind>>
      BY DEF CheckImport, ImportInv, CallsInv, serviceVars
<1>2. CASE \E step \in {"expired", "conflict"} : Moves(c, step)
  <2>1. PICK step \in {"expired", "conflict"} : Moves(c, step)
        BY <1>2
  <2>2. PICK d : d = [c EXCEPT !.step = step]
        OBVIOUS
  <2>3. importCalls' = (importCalls \ {c}) \cup {d}
        BY <2>1, <2>2 DEF Moves
  <2>4. /\ d \in ImportCalls /\ d.task = c.task /\ d.id = c.id /\ d.keys = c.keys /\ d.shown = c.shown
        /\ d.step = step /\ d.made = c.made
        BY <1>1, <2>2, SteppedFits DEF Steps
  <2>5. CallFits(d)
        BY <1>1, <2>4 DEF CallFits
  <2>6. KnownPreviews' \subseteq KnownPreviews
        BY <1>1, <2>3, <2>4 DEF KnownPreviews, pageVars
  <2>7. CallsInv' /\ KnownInv'
        BY <1>1, <2>3, <2>4, <2>5, <2>6, CallsMove, KnownSame DEF ImportInv
  <2>8. PageInv' /\ ChecksInv'
        BY <1>1, <2>3, <2>4, PageSame DEF ImportInv
  <2> QED BY <1>1, <2>7, <2>8 DEF ImportInv, ServiceInv
<1>3. CASE \E p \in Find(c.id) : Answers(c, "saving", p)
  <2>1. PICK p \in Find(c.id) : Answers(c, "saving", p)
        BY <1>3
  <2>2. p \in previews /\ p.id = c.id /\ p \in MaybePreviews
        BY DEF Find, ImportInv, ServiceInv, MaybePreviews
  <2>3. PICK step \in Steps : step = "saving"
        BY DEF Steps
  <2>4. PICK e : e = [c EXCEPT !.step = step]
        OBVIOUS
  <2>5. PICK d : d = [e EXCEPT !.made = p]
        OBVIOUS
  <2>6. e \in ImportCalls /\ e.task = c.task /\ e.id = c.id /\ e.keys = c.keys /\ e.shown = c.shown /\ e.step = step
        BY <1>1, <2>3, <2>4, SteppedFits
  <2>7. importCalls' = (importCalls \ {c}) \cup {d}
        BY <2>3, <2>1, <2>4, <2>5 DEF Answers
  <2>8. /\ d \in ImportCalls /\ d.task = c.task /\ d.id = c.id /\ d.keys = c.keys /\ d.shown = c.shown
        /\ d.step = step /\ d.made = p
        BY <2>2, <2>5, <2>6, MadeFits
  <2>9. /\ d \in ImportCalls /\ d.task = c.task /\ d.id = c.id /\ d.keys = c.keys /\ d.shown = c.shown
        /\ d.step = "saving" /\ d.made = p
        BY <2>3, <2>8
  <2>10. CallFits(d)
        BY <1>1, <2>2, <2>9 DEF CallFits
  <2>11. KnownPreviews' \subseteq KnownPreviews
        BY <1>1, <2>2, <2>7, <2>9 DEF KnownPreviews, pageVars
  <2>12. CallsInv' /\ KnownInv'
        BY <1>1, <2>7, <2>9, <2>10, <2>11, CallsMove, KnownSame DEF ImportInv
  <2>13. PageInv' /\ ChecksInv'
        BY <1>1, <2>7, <2>9, PageSame DEF ImportInv
  <2> QED BY <1>1, <2>12, <2>13 DEF ImportInv, ServiceInv
<1>4. (\E step \in {"expired", "conflict"} : Moves(c, step)) \/ \E p \in Find(c.id) : Answers(c, "saving", p)
      BY DEF CheckImport
<1> QED BY <1>2, <1>3, <1>4

\* There is always a section to save next.
LEMMA NextIsOne ==
    ASSUME NEW keys \in SUBSET KeySet, keys # {} PROVE NextToSave(keys) \in keys
<1>1. Areas \in Seq(KeySet) /\ Len(Areas) \in Nat /\ \A i, j \in 1..Len(Areas) : Areas[i] = Areas[j] => i = j
      BY ImportAssumption
<1> DEFINE S == {i \in 1..Len(Areas) : Areas[i] \in keys}
<1>2. S \subseteq Nat /\ S # {}
  <2>1. PICK k \in keys : TRUE
        OBVIOUS
  <2>2. PICK i \in 1..Len(Areas) : k = Areas[i]
        BY DEF KeySet
  <2> QED BY <2>1, <2>2
<1>3. PICK u \in S : \A v \in S : u <= v
  <2> HIDE DEF S
  <2> QED BY <1>2, LeastElement
<1>4. /\ Areas[u] \in keys
      /\ \A i, j \in 1..Len(Areas) : Areas[i] = Areas[u] /\ Areas[j] \in keys => i <= j
      BY <1>1, <1>3
<1> QED BY <1>4 DEF NextToSave

\* It saves what the page has shown, over what the page has compared it with.
LEMMA SaveKeeps == ASSUME ImportInv, NEW c \in importCalls, SaveNext(c) PROVE ImportInv'
<1>1. /\ c \in ImportCalls /\ CallFits(c) /\ c.step = "saving" /\ c.keys # {} /\ c.task = "apply"
      /\ UNCHANGED <<previews, previewsMade, follows, pageVars, checks>>
      BY DEF SaveNext, ImportInv, CallsInv, CallFits
<1>2. c.made = c.shown /\ c.shown \in Previews /\ c.keys \subseteq Importable(c.shown)
  <2>1. c.made.id = c.shown.id
        BY <1>1 DEF CallFits
  <2>2. c.made \in KnownPreviews /\ c.shown \in KnownPreviews
        BY DEF KnownPreviews
  <2> QED BY <1>1, <2>1, <2>2 DEF CallFits, ImportInv, KnownInv
<1>3. PICK k : k = NextToSave(c.keys)
      OBVIOUS
<1>4. k \in c.keys /\ k \in KeySet /\ c.made.incoming[k] \in Texts
  <2>1. c.keys \in SUBSET KeySet
        BY <1>1 DEF ImportCalls
  <2> QED BY <1>1, <1>2, <1>3, <2>1, NextIsOne, PreviewFits
<1>5. CASE Moves(c, "conflict") /\ UNCHANGED <<versions, blind>>
  <2>1. PICK d : d = [c EXCEPT !.step = "conflict"]
        OBVIOUS
  <2>2. importCalls' = (importCalls \ {c}) \cup {d}
        BY <1>5, <2>1 DEF Moves
  <2>3. /\ d \in ImportCalls /\ d.task = c.task /\ d.id = c.id /\ d.keys = c.keys /\ d.shown = c.shown
        /\ d.step = "conflict" /\ d.made = c.made
        BY <1>1, <2>1, SteppedFits DEF Steps
  <2>4. CallFits(d)
        BY <1>1, <2>3 DEF CallFits
  <2>5. KnownPreviews' \subseteq KnownPreviews
        BY <1>1, <2>2, <2>3 DEF KnownPreviews, pageVars
  <2>6. CallsInv' /\ KnownInv'
        BY <1>1, <2>2, <2>3, <2>4, <2>5, CallsMove, KnownSame DEF ImportInv
  <2>7. PageInv' /\ ChecksInv'
        BY <1>1, <2>2, <2>3, PageSame DEF ImportInv
  <2> QED BY <1>1, <1>5, <2>6, <2>7 DEF ImportInv, ServiceInv
<1>6. CASE /\ c.made.base[k] = Len(versions[k])
           /\ versions' = [versions EXCEPT ![k] = Append(@, c.made.incoming[k])]
           /\ blind' = (blind \/ c.shown.base[k] # Len(versions[k])
                              \/ c.shown.incoming[k] # c.made.incoming[k])
           /\ importCalls' = (importCalls \ {c}) \cup {[c EXCEPT !.keys = @ \ {k}]}
  <2>1. PICK d : d = [c EXCEPT !.keys = c.keys \ {k}]
        OBVIOUS
  <2>2. importCalls' = (importCalls \ {c}) \cup {d}
        BY <1>1, <1>6, <2>1 DEF ImportCalls
  <2>3. /\ d \in ImportCalls /\ d.task = c.task /\ d.id = c.id /\ d.keys = c.keys \ {k} /\ d.shown = c.shown
        /\ d.step = "saving" /\ d.made = c.made
        BY <1>1, <2>1 DEF ImportCalls
  <2>4. CallFits(d)
        BY <1>1, <2>3 DEF CallFits
  <2>5. KnownPreviews' \subseteq KnownPreviews
        BY <1>1, <2>2, <2>3 DEF KnownPreviews, pageVars
  <2>6. CallsInv' /\ KnownInv'
        BY <1>1, <2>2, <2>3, <2>4, <2>5, CallsMove, KnownSame DEF ImportInv
  <2>7. PageInv' /\ ChecksInv'
        BY <1>1, <2>2, <2>3, PageSame DEF ImportInv
  <2>8. blind' = FALSE
        BY <1>2, <1>6 DEF ImportInv, ServiceInv
  <2>9. versions' \in [KeySet -> Seq(Texts)]
    <3>1. PICK t \in Texts : t = c.made.incoming[k]
          BY <1>4
    <3>2. versions' = [versions EXCEPT ![k] = Append(versions[k], t)] /\ versions[k] \in Seq(Texts)
          BY <1>4, <1>6, <3>1 DEF ImportInv, ServiceInv
    <3>3. Append(versions[k], t) \in Seq(Texts)
          BY <3>2
    <3> QED BY <3>2, <3>3 DEF ImportInv, ServiceInv
  <2> QED BY <1>1, <2>6, <2>7, <2>8, <2>9 DEF ImportInv, ServiceInv
<1>7. \/ Moves(c, "conflict") /\ UNCHANGED <<versions, blind>>
      \/ /\ c.made.base[k] = Len(versions[k])
         /\ versions' = [versions EXCEPT ![k] = Append(@, c.made.incoming[k])]
         /\ blind' = (blind \/ c.shown.base[k] # Len(versions[k])
                            \/ c.shown.incoming[k] # c.made.incoming[k])
         /\ importCalls' = (importCalls \ {c}) \cup {[c EXCEPT !.keys = @ \ {k}]}
      BY <1>3 DEF SaveNext, SavesOver
<1> QED BY <1>5, <1>6, <1>7

LEMMA DoneKeeps == ASSUME ImportInv, NEW c \in importCalls, ImportDone(c) PROVE ImportInv'
<1>1. /\ c \in ImportCalls /\ CallFits(c) /\ c.step = "saving" /\ c.task = "apply"
      /\ previews' \subseteq previews
      /\ UNCHANGED <<versions, previewsMade, follows, pageVars, checks, blind>>
      BY DEF ImportDone, ImportInv, CallsInv, CallFits
<1>2. PICK d : d = [c EXCEPT !.step = "answered"]
      OBVIOUS
<1>3. importCalls' = (importCalls \ {c}) \cup {d}
      BY <1>2 DEF ImportDone, Moves
<1>4. /\ d \in ImportCalls /\ d.task = c.task /\ d.id = c.id /\ d.keys = c.keys /\ d.shown = c.shown
      /\ d.step = "answered" /\ d.made = c.made
      BY <1>1, <1>2, SteppedFits DEF Steps
<1>5. CallFits(d)
      BY <1>1, <1>4 DEF CallFits
<1>6. KnownPreviews' \subseteq KnownPreviews
      BY <1>1, <1>3, <1>4 DEF KnownPreviews, pageVars
<1>7. CallsInv' /\ KnownInv'
      BY <1>1, <1>3, <1>4, <1>5, <1>6, CallsMove, KnownSame DEF ImportInv
<1>8. PageInv' /\ ChecksInv'
      BY <1>1, <1>3, <1>4, PageSame DEF ImportInv
<1> QED BY <1>1, <1>7, <1>8 DEF ImportInv, ServiceInv

LEMMA ElsewhereKeeps ==
    ASSUME ImportInv,
           \/ \E p \in previews : ExpirePreview(p)
           \/ \E k \in KeySet, text \in Texts : SavedElsewhere(k, text)
           \/ \E c \in importCalls : CallFails(c)
    PROVE  ImportInv'
<1>1. /\ previews' \subseteq previews /\ importCalls' \subseteq importCalls
      /\ UNCHANGED <<previewsMade, follows, pageVars, checks, blind>>
      BY DEF ExpirePreview, SavedElsewhere, CallFails, serviceVars
<1>2. versions' \in [KeySet -> Seq(Texts)]
  <2>1. CASE UNCHANGED versions
        BY <2>1 DEF ImportInv, ServiceInv
  <2>2. ASSUME NEW k \in KeySet, NEW text \in Texts, SavedElsewhere(k, text)
        PROVE  versions' \in [KeySet -> Seq(Texts)]
    <3>1. versions' = [versions EXCEPT ![k] = Append(versions[k], text)] /\ versions[k] \in Seq(Texts)
          BY <2>2 DEF SavedElsewhere, ImportInv, ServiceInv
    <3>2. Append(versions[k], text) \in Seq(Texts)
          BY <3>1
    <3> QED BY <3>1, <3>2 DEF ImportInv, ServiceInv
  <2> QED BY <2>1, <2>2 DEF ExpirePreview, CallFails, serviceVars
<1>3. KnownPreviews' \subseteq KnownPreviews
      BY <1>1 DEF KnownPreviews, pageVars
<1>4. CallsInv' /\ KnownInv'
      BY <1>1, <1>3, CallsGo, KnownSame DEF ImportInv
<1>5. PageInv' /\ ChecksInv'
      BY <1>1, PageSame DEF ImportInv
<1> QED BY <1>1, <1>2, <1>4, <1>5 DEF ImportInv, ServiceInv

-----------------------------------------------------------------------------
\* The page.
LEMMA DisplayedIs == ASSUME PageInv, preview # {} PROVE preview = {Displayed} /\ Displayed \in Previews
BY DEF PageInv, Displayed

LEMMA GivenUpFits ==
    ASSUME checks \subseteq Checks PROVE GivenUp \subseteq Checks /\ \A v \in GivenUp : ~v.live
<1>1. ASSUME NEW v \in Checks
      PROVE  [v EXCEPT !.live = FALSE] \in Checks /\ ~[v EXCEPT !.live = FALSE].live
      BY DEF Checks
<1> QED BY <1>1 DEF GivenUp

\* A validation of a selection begins.
LEMMA ValidatesFits ==
    ASSUME checks \subseteq Checks, NEW p \in Previews, NEW keys \in SUBSET KeySet, Validates(p, keys)
    PROVE  /\ checks' \subseteq Checks
           /\ \A v \in checks' : v.live => v.id = p.id /\ v.keys = keys
           /\ follows = "validations" => \E v \in checks' : v.live
<1>1. /\ Validation(p, keys) \in Checks /\ Validation(p, keys).live
      /\ Validation(p, keys).id = p.id /\ Validation(p, keys).keys = keys
      BY PreviewFits DEF Validation, Checks
<1> QED BY <1>1, GivenUpFits DEF Validates

\* The selection changes.
LEMMA SelectionKeeps ==
    ASSUME ImportInv, OnPreview, NEW keys \in SUBSET Importable(Displayed), selected' = keys,
           declined' \subseteq KeySet, declined' \cap keys = {}, Validates(Displayed, keys),
           UNCHANGED <<serviceVars, source, preview, commented, conflicted, imported, chosenRules,
                       issues, importCalls, blind>>
    PROVE  ImportInv'
<1>1. /\ preview = {Displayed} /\ Displayed \in Previews
      BY DisplayedIs DEF OnPreview, ImportInv
<1>2. keys \in SUBSET KeySet
      BY <1>1, PreviewFits
<1>3. /\ checks' \subseteq Checks
      /\ \A v \in checks' : v.live => v.id = Displayed.id /\ v.keys = keys
      /\ follows = "validations" => \E v \in checks' : v.live
      BY <1>1, <1>2, ValidatesFits DEF ImportInv, ChecksInv
<1>4. PageInv'
      BY <1>1, <1>2 DEF ImportInv, PageInv
<1>5. ChecksInv'
      BY <1>1, <1>3 DEF ImportInv, ChecksInv, serviceVars
<1>6. CallsInv' /\ KnownInv'
      BY CallsGo, KnownSame DEF ImportInv, KnownPreviews, serviceVars
<1> QED BY <1>4, <1>5, <1>6 DEF ImportInv, ServiceInv, serviceVars

LEMMA SelectKeeps ==
    ASSUME ImportInv,
           \/ \E k \in KeySet, on \in BOOLEAN : SelectArea(k, on)
           \/ \E on \in BOOLEAN : SelectAll(on)
    PROVE  ImportInv'
<1>1. OnPreview /\ Displayed \in Previews /\ selected \subseteq Importable(Displayed)
      /\ Importable(Displayed) \subseteq KeySet
  <2>1. OnPreview
        BY DEF SelectArea, SelectAll
  <2>2. preview = {Displayed} /\ Displayed \in Previews
        BY <2>1, DisplayedIs DEF OnPreview, ImportInv
  <2> QED BY <2>1, <2>2, PreviewFits DEF ImportInv, PageInv
<1>2. /\ UNCHANGED <<serviceVars, source, preview, commented, conflicted, imported, chosenRules,
                     issues, importCalls, blind>>
      /\ Validates(Displayed, selected')
      BY DEF SelectArea, SelectAll
<1>3. selected' \in SUBSET Importable(Displayed) /\ declined' \subseteq KeySet /\ declined' \cap selected' = {}
  <2>1. ASSUME NEW k \in KeySet, NEW on \in BOOLEAN, SelectArea(k, on)
        PROVE  selected' \in SUBSET Importable(Displayed) /\ declined' \subseteq KeySet
               /\ declined' \cap selected' = {}
        BY <1>1, <2>1 DEF SelectArea, ImportInv, PageInv
  <2>2. ASSUME NEW on \in BOOLEAN, SelectAll(on)
        PROVE  selected' \in SUBSET Importable(Displayed) /\ declined' \subseteq KeySet
               /\ declined' \cap selected' = {}
        BY <1>1, <2>2 DEF SelectAll
  <2> QED BY <2>1, <2>2
<1>4. PICK keys \in SUBSET Importable(Displayed) : keys = selected'
      BY <1>3
<1> QED BY <1>1, <1>2, <1>3, <1>4, SelectionKeeps

\* A preview arrives: its selection is the one shown, and being validated.
LEMMA AdoptKeeps ==
    ASSUME ImportInv, NEW c \in importCalls, c.step = "answered", c.task # "apply",
           importCalls' = importCalls \ {c}, NEW keys \in SUBSET Importable(c.made),
           Adopt(c.made, keys), declined' \subseteq KeySet, declined' \cap keys = {},
           preview = {} => keys = Importable(c.made),
           IF OnPreview THEN Validates(c.made, keys) ELSE UNCHANGED checks,
           UNCHANGED <<serviceVars, source, commented, imported, blind>>
    PROVE  ImportInv'
<1>1. c.made \in Previews /\ c \in ImportCalls
      BY DEF ImportInv, CallsInv, CallFits
<1>2. PICK p \in Previews : p = c.made
      BY <1>1
<1>3. /\ preview' = {p} /\ selected' = keys /\ conflicted' = FALSE /\ chosenRules' = p.rules
      /\ issues' = [id |-> p.id, keys |-> Importable(p)]
      BY <1>2 DEF Adopt
<1>4. keys \in SUBSET KeySet /\ keys \subseteq Importable(p) /\ p.rules \in RuleSets
      BY <1>2, PreviewFits
<1>5. PageInv'
      BY <1>3, <1>4 DEF ImportInv, PageInv
<1>6. ChecksInv'
  <2>1. CASE OnPreview
    <3>1. /\ checks' \subseteq Checks
          /\ \A v \in checks' : v.live => v.id = p.id /\ v.keys = keys
          /\ follows = "validations" => \E v \in checks' : v.live
          BY <1>2, <1>4, <2>1, ValidatesFits DEF ImportInv, ChecksInv
    <3> QED BY <1>3, <3>1 DEF ImportInv, ChecksInv, serviceVars
  <2>2. CASE ~OnPreview
    <3>1. UNCHANGED <<checks, follows, imported>>
          BY <2>2 DEF serviceVars
    <3>2. follows = "validations" => preview = {}
          BY <2>2 DEF OnPreview, ImportInv, ChecksInv
    <3> QED BY <1>2, <1>3, <3>1, <3>2 DEF ImportInv, ChecksInv
  <2> QED BY <2>1, <2>2
<1>7. KnownPreviews' \subseteq KnownPreviews
      BY <1>2, <1>3 DEF KnownPreviews, serviceVars
<1>8. CallsInv' /\ KnownInv'
      BY <1>7, CallsGo, KnownSame DEF ImportInv, serviceVars
<1> QED BY <1>5, <1>6, <1>8 DEF ImportInv, ServiceInv, serviceVars

LEMMA ArrivesKeep ==
    ASSUME ImportInv, NEW c \in importCalls, LoadArrives(c) \/ RefreshArrives(c) PROVE ImportInv'
<1>1. c.made \in Previews
      BY DEF LoadArrives, RefreshArrives, ImportInv, CallsInv, CallFits
<1>2. CASE LoadArrives(c)
  <2>1. PICK keys \in SUBSET Importable(c.made) : keys = Importable(c.made)
        OBVIOUS
  <2> QED BY <1>2, <2>1, AdoptKeeps DEF LoadArrives
<1>3. CASE RefreshArrives(c)
  <2>1. Kept(c.made) \subseteq Importable(c.made) /\ (preview = {} => Kept(c.made) = Importable(c.made))
        BY DEF Kept
  <2>2. PICK keys \in SUBSET Importable(c.made) : keys = Kept(c.made)
        BY <2>1
  <2>3. declined' \subseteq KeySet /\ declined' \cap keys = {}
        BY <1>3, <2>2 DEF RefreshArrives, Kept, ImportInv, PageInv
  <2>4. /\ c.step = "answered" /\ c.task # "apply" /\ importCalls' = importCalls \ {c}
        /\ Adopt(c.made, keys)
        /\ IF OnPreview THEN Validates(c.made, keys) ELSE UNCHANGED checks
        /\ UNCHANGED <<serviceVars, source, commented, imported, blind>>
        BY <1>3, <2>2 DEF RefreshArrives
  <2> QED BY <2>1, <2>2, <2>3, <2>4, AdoptKeeps
<1> QED BY <1>2, <1>3

LEMMA ClosesKeep ==
    ASSUME ImportInv, ClosesPreview, importCalls' \subseteq importCalls,
           commented' \in BOOLEAN, conflicted' \in BOOLEAN, imported' \in BOOLEAN,
           follows = "validations" => ~imported', UNCHANGED <<serviceVars, blind>>
    PROVE  ImportInv'
<1>1. /\ preview' = {} /\ selected' = {} /\ declined' = {} /\ checks' = GivenUp
      /\ chosenRules' = NoRules /\ source' = source
      BY DEF ClosesPreview
<1>2. PageInv'
      BY <1>1, ImportBasics DEF ImportInv, PageInv
<1>3. ChecksInv'
      BY <1>1, GivenUpFits DEF ImportInv, ChecksInv, serviceVars
<1>4. KnownPreviews' \subseteq KnownPreviews
      BY <1>1 DEF KnownPreviews, serviceVars
<1>5. CallsInv' /\ KnownInv'
      BY <1>4, CallsGo, KnownSame DEF ImportInv, serviceVars
<1> QED BY <1>2, <1>3, <1>5 DEF ImportInv, ServiceInv, serviceVars

LEMMA EndsKeep ==
    ASSUME ImportInv,
           \/ \E c \in importCalls : ApplyArrives(c) \/ ApplyExpired(c)
           \/ Restart
    PROVE  ImportInv'
<1>1. CASE Restart
      BY <1>1, ClosesKeep DEF Restart, ImportInv, PageInv
<1>2. ASSUME NEW c \in importCalls, ApplyArrives(c) \/ ApplyExpired(c) PROVE ImportInv'
  <2>1. follows # "validations"
        BY <1>2 DEF ApplyArrives, ApplyExpired, ImportInv, ChecksInv
  <2> QED BY <1>2, <2>1, ClosesKeep DEF ApplyArrives, ApplyExpired, ImportInv, PageInv
<1> QED BY <1>1, <1>2

\* The page asks.
LEMMA AskedKeeps ==
    ASSUME ImportInv, NEW c \in ImportCalls, CallFits(c), c.made = NoPreview, c.shown \in preview \cup {NoPreview},
           ~Underway(c.task), importCalls' = importCalls \cup {c},
           c.task = "apply" => follows = "imports",
           UNCHANGED <<serviceVars, pageVars, checks, blind>>
    PROVE  ImportInv'
<1>1. CallsInv'
      BY DEF ImportInv, CallsInv, Underway, Call
<1>2. KnownPreviews' \subseteq KnownPreviews
      BY DEF KnownPreviews, serviceVars, pageVars
<1>3. KnownInv'
      BY <1>2, KnownSame DEF ImportInv, serviceVars
<1>4. PageInv' /\ ChecksInv'
      BY DEF ImportInv, PageInv, ChecksInv, pageVars, serviceVars
<1> QED BY <1>1, <1>3, <1>4 DEF ImportInv, ServiceInv, serviceVars

LEMMA AsksKeep == ASSUME ImportInv, Load \/ Refresh \/ Apply PROVE ImportInv'
<1>1. UNCHANGED <<serviceVars, pageVars, checks, blind>>
      BY DEF Load, Refresh, Apply
<1>2. CASE Load
  <2>1. PICK c : c = NewCall("load", source, NoRules, 0, {}, NoPreview)
        OBVIOUS
  <2>2. /\ c \in ImportCalls /\ c.task = "load" /\ c.step = "sent" /\ c.made = NoPreview
        /\ c.shown = NoPreview
        BY <2>1, ImportBasics DEF NewCall, Steps, ImportCalls, Tasks, ImportInv, PageInv
  <2>3. CallFits(c)
        BY <2>2 DEF CallFits
  <2> QED BY <1>1, <1>2, <2>1, <2>2, <2>3, AskedKeeps DEF Load
<1>3. CASE Refresh \/ Apply
  <2>1. Displayed \in Previews /\ preview = {Displayed}
        BY <1>3, DisplayedIs DEF Refresh, Apply, OnPreview, ImportInv
  <2>2. PICK p \in Previews : p = Displayed
        BY <2>1
  <2>3. /\ p.id \in Nat /\ p.source \in Origin /\ p.rules \in RuleSets /\ chosenRules \in RuleSets
        /\ selected \subseteq Importable(p) /\ selected \subseteq KeySet /\ p \in MaybePreviews
        BY <2>1, <2>2, PreviewFits DEF ImportInv, PageInv, MaybePreviews
  <2>4. CASE Refresh
    <3>1. PICK r \in RuleSets :
              importCalls' = importCalls \cup {NewCall("refresh", p.source, r, p.id, {}, NoPreview)}
          BY <2>2, <2>3, <2>4 DEF Refresh
    <3>2. PICK c : c = NewCall("refresh", p.source, r, p.id, {}, NoPreview)
          OBVIOUS
    <3>3. /\ c \in ImportCalls /\ c.task = "refresh" /\ c.step = "sent" /\ c.made = NoPreview
          /\ c.shown = NoPreview
          BY <2>3, <3>2, ImportBasics DEF NewCall, Steps, ImportCalls, Tasks
    <3>4. CallFits(c)
          BY <3>3 DEF CallFits
    <3> QED BY <1>1, <2>4, <3>1, <3>2, <3>3, <3>4, AskedKeeps DEF Refresh
  <2>5. CASE Apply
    <3>1. importCalls' = importCalls \cup {NewCall("apply", p.source, p.rules, p.id, selected, p)}
          BY <2>2, <2>5 DEF Apply
    <3>2. PICK c : c = NewCall("apply", p.source, p.rules, p.id, selected, p)
          OBVIOUS
    <3>3. /\ c \in ImportCalls /\ c.task = "apply" /\ c.step = "sent" /\ c.made = NoPreview
          /\ c.shown = p /\ c.id = p.id /\ c.keys = selected
          BY <2>3, <3>2, ImportBasics DEF NewCall, Steps, ImportCalls, Tasks
    <3>4. CallFits(c) /\ p \in preview
          BY <2>1, <2>2, <2>3, <3>3 DEF CallFits
    <3> QED BY <1>1, <2>5, <3>1, <3>2, <3>3, <3>4, AskedKeeps DEF Apply
  <2> QED BY <1>3, <2>4, <2>5
<1> QED BY <1>2, <1>3

\* Nothing happens but on the screen.
LEMMA ScreenKeeps ==
    ASSUME ImportInv,
           \/ \E s \in Origin : ChooseSource(s)
           \/ TypeComment \/ \E r \in RuleSets : TypeRules(r)
           \/ \E c \in importCalls : ApplyConflicts(c)
    PROVE  ImportInv'
<1>1. /\ UNCHANGED <<serviceVars, preview, selected, imported, issues, checks, declined, blind>>
      /\ importCalls' \subseteq importCalls
      BY DEF ChooseSource, TypeComment, TypeRules, ApplyConflicts
<1>2. /\ source' \in Origin /\ commented' \in BOOLEAN /\ conflicted' \in BOOLEAN
      /\ chosenRules' \in RuleSets
      BY DEF ChooseSource, TypeComment, TypeRules, ApplyConflicts, ImportInv, PageInv
<1>3. PageInv'
      BY <1>1, <1>2 DEF ImportInv, PageInv
<1>4. ChecksInv'
      BY <1>1 DEF ImportInv, ChecksInv, serviceVars
<1>5. KnownPreviews' \subseteq KnownPreviews
      BY <1>1 DEF KnownPreviews, serviceVars
<1>6. CallsInv' /\ KnownInv'
      BY <1>1, <1>5, CallsGo, KnownSame DEF ImportInv, serviceVars
<1> QED BY <1>1, <1>3, <1>4, <1>6 DEF ImportInv, ServiceInv, serviceVars

\* Validations.
LEMMA ChecksKeep ==
    ASSUME ImportInv, ChecksInv',
           UNCHANGED <<serviceVars, source, preview, selected, commented, conflicted, imported,
                       chosenRules, importCalls, declined, blind>>
    PROVE  ImportInv'
<1>1. PageInv'
      BY DEF ImportInv, PageInv
<1>2. CallsInv' /\ KnownInv'
      BY CallsGo, KnownSame DEF ImportInv, KnownPreviews, serviceVars
<1> QED BY <1>1, <1>2 DEF ImportInv, ServiceInv, serviceVars

LEMMA ValidationKeeps ==
    ASSUME ImportInv, NEW v \in checks,
           SendValidation(v) \/ ValidationArrives(v) \/ ValidationFails(v)
    PROVE  ImportInv'
<1>1. v \in Checks
      BY DEF ImportInv, ChecksInv
<1>2. UNCHANGED <<serviceVars, source, preview, selected, commented, conflicted, imported,
                  chosenRules, importCalls, declined, blind>>
      BY DEF SendValidation, ValidationArrives, ValidationFails, pageVars
<1>3. ASSUME NEW w \in Checks, w.id = v.id, w.keys = v.keys, w.live = v.live,
             checks' = (checks \ {v}) \cup {w}, UNCHANGED issues
      PROVE  ChecksInv'
      BY <1>2, <1>3 DEF ImportInv, ChecksInv, serviceVars
<1>4. CASE SendValidation(v)
  <2>1. PICK found \in BOOLEAN : found = (Find(v.id) # {})
        OBVIOUS
  <2>2. PICK w : w = [v EXCEPT !.sent = TRUE, !.found = found]
        OBVIOUS
  <2>3. w \in Checks /\ w.id = v.id /\ w.keys = v.keys /\ w.live = v.live
        BY <1>1, <2>2 DEF Checks
  <2>4. checks' = (checks \ {v}) \cup {w} /\ UNCHANGED issues
        BY <1>4, <2>1, <2>2 DEF SendValidation, pageVars
  <2> QED BY <1>2, <1>3, <2>3, <2>4, ChecksKeep
<1>5. CASE ValidationArrives(v)
  <2>1. checks' = checks \ {v} /\ issues' = IF v.live THEN [id |-> v.id, keys |-> v.keys] ELSE issues
        BY <1>5 DEF ValidationArrives, Heeds
  <2>2. ChecksInv'
        BY <1>2, <2>1 DEF ImportInv, ChecksInv, serviceVars
  <2> QED BY <1>2, <2>2, ChecksKeep
<1>6. CASE ValidationFails(v)
  <2>1. CASE v.live
    <3>1. PICK w : w = [v EXCEPT !.failed = TRUE]
          OBVIOUS
    <3>2. w \in Checks /\ w.id = v.id /\ w.keys = v.keys /\ w.live = v.live
          BY <1>1, <3>1 DEF Checks
    <3>3. checks' = (checks \ {v}) \cup {w} /\ UNCHANGED issues
          BY <1>6, <2>1, <3>1 DEF ValidationFails, pageVars
    <3> QED BY <1>2, <1>3, <3>2, <3>3, ChecksKeep
  <2>2. CASE ~v.live
    <3>1. checks' = checks \ {v} /\ UNCHANGED issues
          BY <1>6, <2>2 DEF ValidationFails, pageVars
    <3>2. ChecksInv'
          BY <1>2, <2>2, <3>1 DEF ImportInv, ChecksInv, serviceVars
    <3> QED BY <1>2, <3>2, ChecksKeep
  <2> QED BY <2>1, <2>2
<1> QED BY <1>4, <1>5, <1>6

-----------------------------------------------------------------------------
LEMMA ImportInvStep == ImportInv /\ [ImportNext]_importVars => ImportInv'
<1> SUFFICES ASSUME ImportInv, [ImportNext]_importVars PROVE ImportInv'
    OBVIOUS
<1>1. CASE UNCHANGED importVars
  <2>1. UNCHANGED <<serviceVars, source, preview, selected, commented, conflicted, imported,
                    chosenRules, importCalls, declined, blind, checks, issues>>
        BY <1>1 DEF importVars, serviceVars
  <2>2. ChecksInv'
        BY <2>1 DEF ImportInv, ChecksInv, serviceVars
  <2> QED BY <2>1, <2>2, ChecksKeep
<1>2. ASSUME NEW c \in importCalls,
             \/ MakePreview(c) \/ Recompute(c) \/ CheckImport(c) \/ SaveNext(c) \/ ImportDone(c)
             \/ LoadArrives(c) \/ RefreshArrives(c)
             \/ ApplyArrives(c) \/ ApplyConflicts(c) \/ ApplyExpired(c) \/ CallFails(c)
      PROVE  ImportInv'
      BY <1>2, PreviewsKeep, CheckKeeps, SaveKeeps, DoneKeeps, ArrivesKeep, EndsKeep, ScreenKeeps,
         ElsewhereKeeps
<1> QED BY <1>1, <1>2, ElsewhereKeeps, ScreenKeeps, AsksKeep, EndsKeep, SelectKeeps, ValidationKeeps
        DEF ImportNext

LEMMA ImportInvShows ==
    ImportInv => ImportType /\ ImportsWhatWasShown /\ DeclinedStaysOut /\ IssuesAreOfTheSelection
<1> SUFFICES ASSUME ImportInv
             PROVE  ImportType /\ ImportsWhatWasShown /\ DeclinedStaysOut /\ IssuesAreOfTheSelection
    OBVIOUS
<1>1. \A S : S = {} \/ (\E x : S = {x}) => Cardinality(S) <= 1
  <2>1. ASSUME NEW S, S = {} \/ (\E x : S = {x}) PROVE Cardinality(S) <= 1
    <3>1. CASE S = {}
          BY <3>1, FS_EmptySet
    <3>2. CASE \E x : S = {x}
          BY <3>2, FS_Singleton
    <3> QED BY <2>1, <3>1, <3>2
  <2> QED BY <2>1
<1>2. Cardinality(preview) <= 1
  <2>1. preview = {} \/ \E x : preview = {x}
        BY DEF ImportInv, PageInv
  <2> QED BY <1>1, <2>1
<1>3. ASSUME NEW task \in Tasks PROVE Cardinality(Call(task)) <= 1
  <2>1. Call(task) = {} \/ \E x : Call(task) = {x}
    <3>1. CASE Call(task) # {}
      <4>1. PICK x \in Call(task) : TRUE
            BY <3>1
      <4>2. \A y \in Call(task) : y = x
            BY DEF Call, ImportInv, CallsInv
      <4> QED BY <4>1, <4>2
    <3> QED BY <3>1
  <2> QED BY <1>1, <2>1
<1>4. \A p \in previews : p.id \in 1..previewsMade
  <2>1. ASSUME NEW p \in previews PROVE p.id \in 1..previewsMade
    <3>1. p \in KnownPreviews /\ p \in Previews /\ previewsMade \in Nat
          BY DEF KnownPreviews, ImportInv, ServiceInv
    <3>2. p.id \in Nat \ {0} /\ p.id <= previewsMade
          BY <3>1, PreviewFits DEF ImportInv, KnownInv
    <3> QED BY <3>1, <3>2
  <2> QED BY <2>1
<1>5. ImportType
      BY <1>2, <1>3, <1>4 DEF ImportInv, ServiceInv, PageInv, ImportType
<1>6. IssuesAreOfTheSelection
      BY DisplayedIs DEF ImportInv, ChecksInv, IssuesAreOfTheSelection
<1> QED BY <1>5, <1>6 DEF ImportInv, ServiceInv, PageInv, ImportsWhatWasShown, DeclinedStaysOut
=============================================================================
