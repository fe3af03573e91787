------------------------------ MODULE Session -------------------------------
(***************************************************************************)
(* Who is signed in: the accounts and their sessions in the service, the   *)
(* cookies of one browser tab, the query auth/me, and the pages that sign  *)
(* in, change the password and guard all others.  A cookie says what the   *)
(* account was when it was issued, and ends with the next change of the    *)
(* account.  Answers change the cookies when they arrive.                  *)
(***************************************************************************)
EXTENDS Naturals, FiniteSets

CONSTANTS Accounts,   \* the accounts
          Nobody,     \* ... and none of them
          MaxStamp,   \* bound: changes of an account that end its sessions
          MaxSent,    \* bound: requests on their way
          QuietSignIn \* bound: nobody signs in, or changes the password,
                      \* while another answer is on its way

ASSUME SessionAssumption ==
    /\ Nobody \notin Accounts /\ MaxStamp \in Nat /\ MaxSent \in Nat /\ QuietSignIn \in BOOLEAN
    /\ "keep" \notin Accounts \cup {Nobody}    \* it says that an answer sets no token

VARIABLES account, \* service: role, state and security stamp of every account
          cookie,  \* browser: the session
          token,   \* browser: whom the XSRF token was issued for
          flights, \* browser: requests on their way, and their answers
          place,   \* page: the route
          leadsTo, \* page: where the login page leads to
          me,      \* page: the answer to auth/me
          signIn,  \* page: "idle", "pending", or "settling" until me is read anew
          notice   \* page: what the login page says: "none", "refused", "elsewhere"

sessionVars == <<account, cookie, token, flights, place, leadsTo, me, signIn, notice>>
tabVars == <<cookie, token, flights>>
loginVars == <<place, leadsTo, me, signIn, notice>>

Levels == {"Viewer", "Admin"}
Places == {"/login", "/passwort-aendern", "/", "/admin"}
Cookies == [user : Accounts, role : Levels, mustChange : BOOLEAN, stamp : 0..MaxStamp]
NoCookie == [user |-> Nobody]
MeUnknown == [user |-> Nobody, known |-> FALSE]
SignedOut == [user |-> Nobody, known |-> TRUE]

-----------------------------------------------------------------------------
(***************************************************************************)
(* The service.                                                            *)
(***************************************************************************)
Principal(u) == [user |-> u, role |-> account[u].role, mustChange |-> account[u].mustChange,
                 stamp |-> account[u].stamp]

\* A session is served while its account is active and has not changed.
Valid(c) == c # NoCookie /\ account[c.user].active /\ account[c.user].stamp = c.stamp

UserOf(c) == IF Valid(c) THEN c.user ELSE Nobody

\* The answer to a request whose session ended takes the cookie away.
CookieAfter(c) == IF c # NoCookie /\ ~Valid(c) THEN NoCookie ELSE c

Reply(f, status, sets, c, t, u) ==
    [f EXCEPT !.status = status, !.sets = sets, !.cookie = c, !.token = t, !.me = u]
Rejects(f) == f.cookie # NoCookie /\ ~Valid(f.cookie)
Plain(f, status) == Reply(f, status, Rejects(f), CookieAfter(f.cookie), "keep", SignedOut)
TokenFits(f) == f.token = UserOf(f.cookie)

MeOf(u) == IF u = Nobody THEN SignedOut
           ELSE [user |-> u, known |-> TRUE, role |-> account[u].role,
                 mustChange |-> account[u].mustChange]

\* The token in the answer to a sign-in is for the account that signed in.
TokenAfterSignIn(f, u) == u

Replies(f) == CASE
    f.kind = "me" ->
        {Reply(f, 200, Rejects(f), CookieAfter(f.cookie), UserOf(f.cookie), MeOf(UserOf(f.cookie)))}
 [] f.kind = "login" ->
        IF ~TokenFits(f) THEN {Plain(f, 400)}
        ELSE {Plain(f, 401)} \cup
             {Reply(f, 200, TRUE, Principal(u), TokenAfterSignIn(f, u), MeOf(u)) :
                  u \in {a \in Accounts : a = f.for /\ account[a].active}}
 [] f.kind \in {"read", "write"} ->
        {Plain(f, IF f.kind = "write" /\ ~TokenFits(f) THEN 400
                  ELSE IF ~Valid(f.cookie) THEN 401
                  ELSE IF f.cookie.mustChange THEN 403 ELSE 200)}
 [] f.kind = "logout" ->
        {IF TokenFits(f) THEN Reply(f, 204, TRUE, NoCookie, Nobody, SignedOut) ELSE Plain(f, 400)}

Handle(f) ==
    /\ f.status = 0 /\ f.kind # "change"
    /\ \E r \in Replies(f) : flights' = (flights \ {f}) \cup {r}
    /\ UNCHANGED <<account, cookie, token, loginVars>>

KeepsItsStamp(a) == a    \* mutant
\* Sessions end as soon as the account is disabled or its password or role changes.
NewStamp(a) == [a EXCEPT !.stamp = @ + 1]

\* The new password is stored, and its session begins with the answer.
HandleChange(f) ==
    /\ f.status = 0 /\ f.kind = "change"
    /\ \/ UNCHANGED account
          /\ flights' = (flights \ {f}) \cup {Plain(f, IF TokenFits(f) /\ Valid(f.cookie)
                                                      THEN 400 ELSE 401)}
       \/ /\ TokenFits(f) /\ Valid(f.cookie) /\ account[f.cookie.user].stamp < MaxStamp
          /\ account' = [account EXCEPT ![f.cookie.user] =
                                               NewStamp([@ EXCEPT !.mustChange = FALSE])]
          /\ flights' = (flights \ {f}) \cup
                {Reply(f, 204, TRUE, Principal(f.cookie.user)', f.cookie.user, SignedOut)}
    /\ UNCHANGED <<cookie, token, loginVars>>

UpdateUser(u, role, active) ==
    /\ account[u].stamp < MaxStamp
    /\ <<role, active>> # <<account[u].role, account[u].active>>
    /\ account' = [account EXCEPT ![u] = NewStamp([@ EXCEPT !.role = role, !.active = active])]
    /\ UNCHANGED <<tabVars, loginVars>>

ResetPassword(u) ==
    /\ account[u].stamp < MaxStamp
    /\ account' = [account EXCEPT ![u] = NewStamp([@ EXCEPT !.mustChange = TRUE])]
    /\ UNCHANGED <<tabVars, loginVars>>

-----------------------------------------------------------------------------
(***************************************************************************)
(* Requests and answers of the tab.                                        *)
(***************************************************************************)
On(kind) == {f \in flights : f.kind = kind}
SendRequest(kind, u) ==
    flights' = flights \cup {[kind |-> kind, for |-> u, cookie |-> cookie, token |-> token,
                              status |-> 0, sets |-> FALSE, me |-> SignedOut]}
MaySend == Cardinality(flights) < MaxSent

\* What an answer makes of the cookies.
Takes(f) ==
    /\ flights' = flights \ {f}
    /\ cookie' = IF f.sets THEN f.cookie ELSE cookie
    /\ token' = IF f.token = "keep" THEN token ELSE f.token

\* The pages below RequireAuth.
Routed(p, m) ==
    IF p = "/login" \/ ~m.known THEN p
    ELSE IF m.user = Nobody THEN "/login"
    ELSE IF m.mustChange THEN "/passwort-aendern"
    ELSE IF p = "/admin" /\ m.role # "Admin" THEN "/" ELSE p

\* The login page leads on when somebody is signed in already.
Leads(m) == IF m.user # Nobody /\ m.mustChange THEN "/passwort-aendern" ELSE leadsTo

\* A full load of the application: no request is waited for any longer.
FullLoad(p) ==
    /\ flights' = {} /\ place' = p /\ me' = MeUnknown
    /\ signIn' = "idle" /\ notice' = "none"

Visit(p) ==
    /\ FullLoad(p) /\ leadsTo' = "/"
    /\ UNCHANGED <<account, cookie, token>>

AskMe ==
    /\ MaySend /\ On("me") = {}
    /\ signIn = "idle" \/ ~QuietSignIn
    /\ SendRequest("me", Nobody)
    /\ UNCHANGED <<account, cookie, token, loginVars>>

\* The answer of auth/me guards the page that is shown.
MeArrives(f) ==
    /\ f.kind = "me" /\ f.status = 200
    /\ Takes(f)
    /\ me' = f.me
    /\ IF signIn = "settling"
       THEN /\ signIn' = "idle"
            /\ place' = Routed(IF f.me.user = Nobody THEN "/login" ELSE Leads(me), f.me)
            /\ leadsTo' = leadsTo
       ELSE /\ UNCHANGED signIn
            /\ place' = IF place = "/login" /\ signIn = "idle" /\ f.me.user # Nobody
                        THEN Routed(Leads(f.me), f.me) ELSE Routed(place, f.me)
            /\ leadsTo' = IF place' = "/login" /\ place \in {"/", "/admin"} THEN place ELSE leadsTo
    /\ UNCHANGED <<account, notice>>

\* Without an answer the page offers to ask again; a sign-in goes on.
MeFails(f) ==
    /\ f.kind = "me"
    /\ flights' = flights \ {f}
    /\ signIn' = IF signIn = "settling" THEN "idle" ELSE signIn
    /\ place' = IF signIn = "settling" THEN Routed(Leads(me), me) ELSE place
    /\ UNCHANGED <<account, cookie, token, leadsTo, me, notice>>

-----------------------------------------------------------------------------
(***************************************************************************)
(* The login page.                                                         *)
(***************************************************************************)
SubmitLogin(u) ==
    /\ place = "/login" /\ signIn = "idle" /\ me.known /\ MaySend
    /\ QuietSignIn => flights = {}
    /\ signIn' = "pending" /\ notice' = "none"
    /\ SendRequest("login", u)
    /\ UNCHANGED <<account, cookie, token, place, leadsTo, me>>

\* me is read anew before the page leads on.
LoginArrives(f) ==
    /\ f.kind = "login" /\ f.status = 200
    /\ cookie' = f.cookie /\ token' = f.token
    /\ me' = f.me /\ signIn' = "settling"
    /\ flights' = {g \in flights \ {f} : g.kind # "me"} \cup
          {[kind |-> "me", for |-> Nobody, cookie |-> f.cookie, token |-> f.token,
            status |-> 0, sets |-> FALSE, me |-> SignedOut]}
    /\ UNCHANGED <<account, place, leadsTo, notice>>

LoginFails(f) ==
    /\ f.kind = "login"
    /\ f.status # 200
    /\ IF f.status = 0 THEN flights' = flights \ {f} /\ UNCHANGED <<cookie, token>> ELSE Takes(f)
    /\ signIn' = "idle" /\ notice' = "refused"
    /\ UNCHANGED <<account, place, leadsTo, me>>

\* With a Windows or Microsoft account: the browser leaves the application and
\* comes back with a session, or to the login page with a reason.
SignInElsewhere(u, ok) ==
    /\ place = "/login" /\ signIn = "idle"
    /\ QuietSignIn => flights = {}
    /\ flights' = {} /\ me' = MeUnknown /\ signIn' = "idle"
    /\ IF ok THEN /\ account[u].active
                  /\ cookie' = Principal(u) /\ place' = leadsTo /\ notice' = "none"
       ELSE UNCHANGED <<cookie, place>> /\ notice' = "elsewhere"
    /\ UNCHANGED <<account, token, leadsTo>>

-----------------------------------------------------------------------------
(***************************************************************************)
(* The pages behind it.                                                    *)
(***************************************************************************)
Inside == place \in {"/", "/admin"} /\ me.known /\ me.user # Nobody

ChangePassword ==
    /\ place = "/passwort-aendern" /\ me.known /\ On("change") = {} /\ MaySend
    /\ QuietSignIn => flights = {}
    /\ SendRequest("change", Nobody)
    /\ UNCHANGED <<account, cookie, token, loginVars>>

\* me is read anew before the page leads to the dashboard.
ChangeArrives(f) ==
    /\ f.kind = "change" /\ f.status = 204
    /\ cookie' = f.cookie /\ token' = f.token
    /\ signIn' = "settling" /\ leadsTo' = "/"
    /\ flights' = {g \in flights \ {f} : g.kind # "me"} \cup
          {[kind |-> "me", for |-> Nobody, cookie |-> f.cookie, token |-> f.token,
            status |-> 0, sets |-> FALSE, me |-> SignedOut]}
    /\ UNCHANGED <<account, place, me, notice>>

ChangeFails(f) ==
    /\ f.kind = "change" /\ f.status # 204
    /\ IF f.status = 0 THEN flights' = flights \ {f} /\ UNCHANGED <<cookie, token>> ELSE Takes(f)
    /\ UNCHANGED <<account, loginVars>>

OpenPassword ==
    /\ Inside /\ place' = "/passwort-aendern"
    /\ UNCHANGED <<account, tabVars, leadsTo, me, signIn, notice>>

BackFromPassword ==
    /\ place = "/passwort-aendern" /\ me.known /\ me.user # Nobody /\ ~me.mustChange
    /\ On("change") = {} /\ signIn = "idle"
    /\ place' = "/"
    /\ UNCHANGED <<account, tabVars, leadsTo, me, signIn, notice>>

\* A query, or a change, of a page.
AskService(kind) ==
    /\ Inside /\ MaySend /\ On(kind) = {}
    /\ SendRequest(kind, Nobody)
    /\ UNCHANGED <<account, cookie, token, loginVars>>

\* An answer 401 leads to the login page, and back to where it came from.
ServiceAnswers(f) ==
    /\ f.kind \in {"read", "write"} /\ f.status # 0
    /\ cookie' = (IF f.sets THEN f.cookie ELSE cookie) /\ UNCHANGED token
    /\ IF f.status = 401 /\ place # "/login"
       THEN FullLoad("/login") /\ leadsTo' = place
       ELSE flights' = flights \ {f} /\ UNCHANGED <<place, leadsTo, me, signIn, notice>>
    /\ UNCHANGED account

SignOut ==
    /\ Inside \/ (place = "/passwort-aendern" /\ me.known)
    /\ MaySend /\ On("logout") = {}
    /\ SendRequest("logout", Nobody)
    /\ UNCHANGED <<account, cookie, token, loginVars>>

\* Whatever comes back, the login page is loaded anew.
SignedOutNow(f) ==
    /\ f.kind = "logout" /\ f.status # 0
    /\ cookie' = (IF f.sets THEN f.cookie ELSE cookie)
    /\ token' = (IF f.token = "keep" THEN token ELSE f.token)
    /\ FullLoad("/login") /\ leadsTo' = "/"
    /\ UNCHANGED account

CookieExpires ==
    /\ cookie # NoCookie /\ cookie' = NoCookie
    /\ UNCHANGED <<account, token, flights, loginVars>>

-----------------------------------------------------------------------------
SessionInit ==
    /\ account \in [Accounts -> [role : Levels, active : {TRUE}, mustChange : BOOLEAN, stamp : {0}]]
    /\ cookie = NoCookie /\ token = Nobody /\ flights = {}
    /\ place \in Places /\ leadsTo = "/" /\ me = MeUnknown
    /\ signIn = "idle" /\ notice = "none"

SessionNext ==
    \/ \E f \in flights :
        \/ Handle(f) \/ HandleChange(f) \/ MeArrives(f) \/ MeFails(f)
        \/ LoginArrives(f) \/ LoginFails(f) \/ ChangeArrives(f) \/ ChangeFails(f)
        \/ ServiceAnswers(f) \/ SignedOutNow(f)
    \/ \E u \in Accounts : ResetPassword(u) \/ SubmitLogin(u)
    \/ \E u \in Accounts, role \in Levels, active \in BOOLEAN : UpdateUser(u, role, active)
    \/ \E u \in Accounts, ok \in BOOLEAN : SignInElsewhere(u, ok)
    \/ \E p \in Places : Visit(p)
    \/ AskMe \/ ChangePassword \/ OpenPassword \/ BackFromPassword \/ SignOut \/ CookieExpires
    \/ \E kind \in {"read", "write"} : AskService(kind)

SessionSpec == SessionInit /\ [][SessionNext]_sessionVars

-----------------------------------------------------------------------------
SessionType ==
    /\ account \in [Accounts -> [role : Levels, active : BOOLEAN, mustChange : BOOLEAN,
                                 stamp : 0..MaxStamp]]
    /\ cookie \in Cookies \cup {NoCookie} /\ token \in Accounts \cup {Nobody}
    /\ Cardinality(flights) <= MaxSent + 1
    /\ place \in Places /\ leadsTo \in Places \ {"/login"}
    /\ signIn \in {"idle", "pending", "settling"}
    /\ notice \in {"none", "refused", "elsewhere"}
    /\ signIn = "pending" => place = "/login"

(***************************************************************************)
(* A session that is still served says what the account says now, its role *)
(* and whether the password must be changed, wherever its cookie is        *)
(* (AuthSetup.cs: "Sessions end as soon as the account is disabled,        *)
(* deleted, or its password/role changes").                                *)
(***************************************************************************)
SessionsAreCurrent ==
    \A c \in {cookie} \cup {f.cookie : f \in flights} :
        Valid(c) => c = Principal(c.user)

(***************************************************************************)
(* Inside the application a change is never refused for its token: who     *)
(* signed in has the token of the new session before a page is shown       *)
(* (login-page.tsx: "Re-read /me so the XSRF cookie is refreshed").        *)
(***************************************************************************)
TokenIsOfTheSession ==
    Inside /\ Valid(cookie) /\ On("me") = {} => token = cookie.user
=============================================================================
