----------------------------- MODULE AdminLists -----------------------------
(***************************************************************************)
(* The lists that are administered in the browser: users, maintenance      *)
(* windows, freezes, schedules, domains, API tokens, groups and requests   *)
(* of the just-in-time access, remote instances.  Each shows the answer of *)
(* a query; switches, menus and dialogs send changes of the row as it was  *)
(* when they were used, and the query is read again after the answer.      *)
(***************************************************************************)
EXTENDS Naturals

CONSTANTS Lists,   \* the lists a behaviour may be about
          Rows,    \* the ids of their rows
          Self,    \* the row of the user, and of the default domain
          Patient, \* bound: no dialog is opened or typed in while something is on its way
          MaxCalls \* bound: changes sent

ASSUME AdminListsAssumption ==
    /\ Lists \subseteq {"users", "windows", "freezes", "schedules", "domains", "tokens",
                        "groups", "requests", "instances"}
    /\ Rows \subseteq Nat \ {0} /\ Self \in Rows /\ Patient \in BOOLEAN /\ MaxCalls \in Nat

VARIABLES list,    \* the list that is open
          items,   \* the service: the rows
          rows,    \* the answer of the query, as shown
          fetch,   \* a run of the query
          calls,   \* changes on their way
          dialog,  \* the sheet or dialog that is open, with the row it edits
          ask,     \* the confirmation that is open
          strange, \* history: others changed the list since it was read
          sent     \* history: number of changes sent

listVars == <<list, items, rows, fetch, calls, dialog, ask, strange, sent>>
service == <<list, items, strange>>
view == <<rows, fetch>>

\* A row is there or not, is switched on or off (enabled, active; a request is
\* open or granted), and its other fields are as they were or changed.
Absent == [on |-> FALSE, changed |-> TRUE]
Row == [on : BOOLEAN, changed : BOOLEAN]
Table == [Rows -> Row]
EmptyTable == [i \in Rows |-> Absent]

NoFetch == [state |-> "none", data |-> EmptyTable]
Reading == [state |-> "asked", data |-> EmptyTable]
NoDialog == [of |-> "none", id |-> 0, row |-> Absent, complete |-> FALSE]
NotAsked == [op |-> "none", id |-> 0]

ListsType ==
    /\ list \in Lists /\ items \in Table /\ rows \in Table
    /\ fetch \in [state : {"none", "asked", "read"}, data : Table]
    /\ \A c \in calls : c.id \in Rows /\ c.prev \in Table
    /\ dialog.id \in Rows \cup {0} /\ dialog.row \in Row /\ ask.id \in Rows \cup {0}
    /\ strange \in BOOLEAN /\ sent \in 0..MaxCalls

ListsInit ==
    /\ list \in Lists
    /\ items = [i \in Rows |-> [on |-> i = Self, changed |-> FALSE]]
    /\ rows = EmptyTable /\ fetch = Reading
    /\ calls = {} /\ dialog = NoDialog /\ ask = NotAsked /\ strange = FALSE /\ sent = 0

There(i) == rows[i] # Absent

-----------------------------------------------------------------------------
\* The query: read by the service, then answered.

FetchRead ==
    /\ fetch.state = "asked" /\ fetch' = [state |-> "read", data |-> items] /\ strange' = FALSE
    /\ UNCHANGED <<list, items, rows, calls, dialog, ask, sent>>

FetchAnswered ==
    /\ fetch.state = "read" /\ rows' = fetch.data /\ fetch' = NoFetch
    /\ UNCHANGED <<service, calls, dialog, ask, sent>>

\* Schedules and requests are read again now and then.
Poll ==
    /\ list \in {"schedules", "requests"} /\ fetch.state = "none" /\ fetch' = Reading
    /\ UNCHANGED <<service, rows, calls, dialog, ask, sent>>

OthersChange(i) ==
    /\ sent < MaxCalls /\ sent' = sent + 1 /\ items[i] # Absent
    /\ \E row \in {Absent, [items[i] EXCEPT !.changed = TRUE]} :
          row # items[i] /\ items' = [items EXCEPT ![i] = row]
    /\ strange' = TRUE
    /\ UNCHANGED <<list, view, calls, dialog, ask>>

-----------------------------------------------------------------------------
\* Sending a change, what the service makes of it, and its answer.

\* A schedule is shown switched before the answer, which keeps the rows of before.
AheadOfAnswer(op) == list = "schedules" /\ op = "toggle"

Sends(op, i, row) ==
    /\ sent < MaxCalls /\ sent' = sent + 1
    /\ calls' = calls \cup {[op |-> op, id |-> i, row |-> row, state |-> "sent", n |-> sent,
                            prev |-> IF AheadOfAnswer(op) THEN rows ELSE EmptyTable]}

\* These change nothing that a row shows here.
Aside == {"unlock", "password", "check"}

Pending(op) == \E c \in calls : c.op = op

\* A row that is gone is not changed; the service may refuse for other reasons.
Handles(c, accepts) ==
    /\ c \in calls /\ c.state = "sent"
    /\ LET gone == c.op # "create" /\ items[c.id] = Absent
           done == accepts /\ ~gone IN
       /\ items' = IF done /\ c.op \notin Aside THEN [items EXCEPT ![c.id] = c.row] ELSE items
       /\ calls' = (calls \ {c}) \cup
                     {[c EXCEPT !.state = CASE done -> "done" [] gone -> "gone" [] OTHER -> "failed"]}
    /\ UNCHANGED <<list, view, dialog, ask, strange, sent>>

\* mutant: no reading after a failure
RefetchedOnSuccess(c) == c.state = "done"

\* The rows are read again after a success, after a failure that was shown
\* ahead, and after a decision about a request that is no longer open.
Refetched(c) ==
    \/ c.state = "done"
    \/ AheadOfAnswer(c.op)
    \/ c.op = "decide" /\ c.state = "gone"

Closes(c) == c.op \in {"save", "create", "decide", "password"} /\ Refetched(c)

\* Domains and instances wait until the rows are read.
ClosesLate(c) == list \in {"domains", "instances"} /\ Closes(c)

\* A failure puts the rows of before back where they were changed ahead.  The
\* answer closes the dialog that is open by then; a new token is shown in it.
Answered(c) ==
    /\ c \in calls /\ c.state \in {"done", "gone", "failed"}
    /\ rows' = IF c.state # "done" /\ AheadOfAnswer(c.op) THEN c.prev ELSE rows
    /\ fetch' = IF Refetched(c) THEN Reading ELSE fetch
    /\ calls' = (calls \ {c}) \cup (IF ClosesLate(c) THEN {[c EXCEPT !.state = "read"]} ELSE {})
    /\ dialog' = IF ~Closes(c) \/ ClosesLate(c) \/ dialog = NoDialog THEN dialog
                 ELSE IF list = "tokens" THEN [dialog EXCEPT !.of = "token"] ELSE NoDialog
    /\ UNCHANGED <<service, ask, sent>>

ClosedLate(c) ==
    /\ c \in calls /\ c.state = "read" /\ fetch.state = "none"
    /\ calls' = calls \ {c} /\ dialog' = NoDialog
    /\ UNCHANGED <<service, view, ask, sent>>

-----------------------------------------------------------------------------
\* The parts of the pages.

Toggled(i) == [rows[i] EXCEPT !.on = ~@]

\* A switch sends all of the row as it is shown.
SendToggled(i) ==
    There(i) /\ Sends("toggle", i, Toggled(i)) /\ UNCHANGED <<service, view, dialog, ask>>

\* A removal is confirmed first.
AskToRemove(i) ==
    /\ ask = NotAsked /\ There(i) /\ ask' = [op |-> "remove", id |-> i]
    /\ UNCHANGED <<service, view, calls, dialog, sent>>

Confirmed(yes) ==
    /\ ask.op \in {"remove", "disable"} /\ ask' = NotAsked
    /\ IF ~yes THEN UNCHANGED <<calls, sent>>
       ELSE IF ask.op = "remove" THEN Sends("remove", ask.id, Absent)
       ELSE Sends("toggle", ask.id, Toggled(ask.id))
    /\ UNCHANGED <<service, view, dialog>>

AtRest == Patient => calls = {} /\ fetch = NoFetch

\* Dialogs hold the row they were opened with, or a new one yet to be filled.
Opened(of, i, row, complete) ==
    /\ dialog = NoDialog /\ ask = NotAsked /\ AtRest
    /\ dialog' = [of |-> of, id |-> i, row |-> row, complete |-> complete]
    /\ UNCHANGED <<service, view, calls, ask, sent>>

Edit(i) == There(i) /\ Opened("edit", i, rows[i], TRUE)
Add == Opened("new", 0, [on |-> TRUE, changed |-> FALSE], FALSE)

DialogIs(of) == dialog.of = of
Typing == dialog.of \in {"edit", "new"} /\ AtRest
DialogOnly == UNCHANGED <<service, view, calls, ask, sent>>

Close == dialog # NoDialog /\ dialog' = NoDialog /\ DialogOnly

\* Typing makes the input complete or incomplete.
Fill(complete) ==
    /\ Typing
    /\ dialog' = [dialog EXCEPT !.row.changed = TRUE, !.complete = complete]
    /\ dialog' # dialog /\ DialogOnly

SwitchRow == Typing /\ dialog' = [dialog EXCEPT !.row.on = ~@] /\ DialogOnly

\* A new row takes an id that is free.
Free == {i \in Rows : items[i] = Absent /\ \A c \in calls : c.id # i}

Save ==
    /\ ~Pending("save") /\ ~Pending("create")
    /\ \/ DialogIs("edit") /\ Sends("save", dialog.id, dialog.row)
       \/ DialogIs("new") /\ \E i \in Free : Sends("create", i, dialog.row)
    /\ UNCHANGED <<service, view, dialog, ask>>

SaveComplete == dialog.complete /\ Save

-----------------------------------------------------------------------------
\* Users.

UnlockUser(i) == There(i) /\ Sends("unlock", i, rows[i]) /\ UNCHANGED <<service, view, dialog, ask>>

UsersPage ==
    /\ list = "users"
    /\ \/ Add
       \/ \E i \in Rows : Edit(i) \/ UnlockUser(i) \/ (i # Self /\ AskToRemove(i))
       \/ \E i \in Rows : There(i) /\ Opened("password", i, rows[i], TRUE)

SaveUser == list = "users" /\ SaveComplete
\* One's own account is not switched off.
UserSheet ==
    /\ list = "users"
    /\ (\E b \in BOOLEAN : Fill(b)) \/ Close \/ (dialog.id # Self /\ DialogIs("edit") /\ SwitchRow)

ResetPasswordDialog ==
    /\ list = "users" /\ DialogIs("password") /\ ~Pending("password")
    /\ Sends("password", dialog.id, dialog.row)
    /\ UNCHANGED <<service, view, dialog, ask>>

-----------------------------------------------------------------------------
\* Maintenance windows and freezes.

WindowsCard ==
    list = "windows" /\ (Add \/ \E i \in Rows : Edit(i) \/ SendToggled(i) \/ AskToRemove(i))
SaveWindow == list = "windows" /\ SaveComplete
WindowSheet == list = "windows" /\ ((\E b \in BOOLEAN : Fill(b)) \/ SwitchRow \/ Close)

FreezesCard ==
    list = "freezes" /\ (Add \/ \E i \in Rows : Edit(i) \/ SendToggled(i) \/ AskToRemove(i))
SaveFreeze == list = "freezes" /\ SaveComplete
FreezeSheet == list = "freezes" /\ ((\E b \in BOOLEAN : Fill(b)) \/ SwitchRow \/ Close)

-----------------------------------------------------------------------------
\* Schedules.  The switch drops a run of the query and shows its effect at once.
ToggleSchedule(i) ==
    /\ list = "schedules" /\ There(i) /\ Sends("toggle", i, Toggled(i))
    /\ rows' = [rows EXCEPT ![i] = Toggled(i)] /\ fetch' = NoFetch
    /\ UNCHANGED <<service, dialog, ask>>

Schedules == list = "schedules" /\ \E i \in Rows : Edit(i) \/ AskToRemove(i)
AuditsPage == list = "schedules" /\ Add
SaveSchedule == list = "schedules" /\ SaveComplete
ScheduleSheet == list = "schedules" /\ ((\E b \in BOOLEAN : Fill(b)) \/ SwitchRow \/ Close)

-----------------------------------------------------------------------------
\* Domains.  The service is asked whether a domain can be removed; when it
\* cannot, it may be disabled.  The default domain is neither.
AskDelete(i) ==
    /\ ask = NotAsked /\ There(i) /\ i # Self /\ ask' = [op |-> "check", id |-> i]
    /\ UNCHANGED <<service, view, calls, dialog, sent>>

DeletionAnswered(can) ==
    /\ ask.op = "check"
    /\ ask' = IF can THEN [ask EXCEPT !.op = "remove"]
              ELSE IF There(ask.id) /\ rows[ask.id].on THEN [ask EXCEPT !.op = "disable"]
             ELSE NotAsked
    /\ UNCHANGED <<service, view, calls, dialog, sent>>

DomainRow ==
    /\ list = "domains"
    /\ \/ Add
       \/ \E i \in Rows : Edit(i) \/ AskDelete(i) \/ (i # Self /\ SendToggled(i))
       \/ \E can \in BOOLEAN : DeletionAnswered(can)

SaveDomain == list = "domains" /\ SaveComplete
DomainSheet ==
    /\ list = "domains"
    /\ (\E b \in BOOLEAN : Fill(b)) \/ Close \/ (dialog.id # Self /\ SwitchRow)

-----------------------------------------------------------------------------
\* API tokens.  Without a dialog the token of an answer is never shown.
ApiTokens == list = "tokens" /\ (Add \/ \E i \in Rows : AskToRemove(i))
CreateToken == list = "tokens" /\ SaveComplete
CreateTokenDialog == list = "tokens" /\ ((\E b \in BOOLEAN : Fill(b)) \/ Close)

-----------------------------------------------------------------------------
\* Just-in-time access: the groups, and the requests that are open or granted.

JitGroupsAdmin ==
    list = "groups" /\ (Add \/ \E i \in Rows : Edit(i) \/ SendToggled(i) \/ AskToRemove(i))
\* The service alone checks the input.
SaveJitGroup == list = "groups" /\ Save
GroupSheet == list = "groups" /\ ((\E b \in BOOLEAN : Fill(b)) \/ SwitchRow \/ Close)

OpenCard(i) ==
    /\ list = "requests" /\ rows[i].on
    /\ Opened("decide", i, rows[i], FALSE) \/ AskToRemove(i)

\* Approved it is granted, rejected it leaves the list.
DecisionDialog(approve) ==
    /\ list = "requests" /\ DialogIs("decide") /\ ~Pending("decide")
    /\ Sends("decide", dialog.id, IF approve THEN [dialog.row EXCEPT !.on = FALSE] ELSE Absent)
    /\ UNCHANGED <<service, view, dialog, ask>>

ActiveCard(i) == list = "requests" /\ ~rows[i].on /\ AskToRemove(i)

CreateRequest == list = "requests" /\ SaveComplete
RequestDialog == list = "requests" /\ (Add \/ (\E b \in BOOLEAN : Fill(b)) \/ Close)

-----------------------------------------------------------------------------
\* Remote instances.
CheckInstance(i) ==
    There(i) /\ Sends("check", i, rows[i]) /\ UNCHANGED <<service, view, dialog, ask>>

RemoteInstancePicker ==
    list = "instances" /\ (Add \/ \E i \in Rows : Edit(i) \/ AskToRemove(i) \/ CheckInstance(i))
InstanceDialog == list = "instances" /\ (SaveComplete \/ (\E b \in BOOLEAN : Fill(b)) \/ Close)

ListsNext ==
    \/ FetchRead \/ FetchAnswered \/ Poll
    \/ \E i \in Rows : OthersChange(i)
    \/ \E c \in calls, accepts \in BOOLEAN : Handles(c, accepts)
    \/ \E c \in calls : Answered(c) \/ ClosedLate(c)
    \/ \E yes \in BOOLEAN : Confirmed(yes)
    \/ UsersPage \/ SaveUser \/ UserSheet \/ ResetPasswordDialog
    \/ WindowsCard \/ SaveWindow \/ WindowSheet \/ FreezesCard \/ SaveFreeze \/ FreezeSheet
    \/ \E i \in Rows : ToggleSchedule(i)
    \/ Schedules \/ AuditsPage \/ SaveSchedule \/ ScheduleSheet
    \/ DomainRow \/ SaveDomain \/ DomainSheet
    \/ ApiTokens \/ CreateToken \/ CreateTokenDialog
    \/ JitGroupsAdmin \/ SaveJitGroup \/ GroupSheet
    \/ \E i \in Rows : OpenCard(i) \/ ActiveCard(i)
    \/ \E approve \in BOOLEAN : DecisionDialog(approve)
    \/ CreateRequest \/ RequestDialog
    \/ RemoteInstancePicker \/ InstanceDialog

ListsSpec == ListsInit /\ [][ListsNext]_listVars

-----------------------------------------------------------------------------
\* Once all changes are answered and the query is at rest, the list shows what
\* the service has, in whatever order changes, failures and answers came, and
\* whatever the list showed ahead of them; only others' changes may be missing.
ListCatchesUp ==
    calls = {} /\ fetch.state = "none" /\ ~strange => rows = items
=============================================================================
