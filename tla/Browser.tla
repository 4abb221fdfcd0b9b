------------------------------ MODULE Browser ------------------------------
(***************************************************************************)
(* One tab of the frontend: who it thinks is signed in, the page it shows, *)
(* the forms of the account and help pages with their requests, and the    *)
(* cached list of help requests.  The token is in localStorage, which the  *)
(* other tabs of the browser write too.  A mutation's own callbacks run    *)
(* only while the form that sent it is mounted; what belongs to the hook   *)
(* or to AuthContext always runs.                                          *)
(***************************************************************************)
EXTENDS FiniteSets

CONSTANTS
  Accounts,   \* rows of users, those not created yet included
  Requests,   \* requests of forms that can be under way at the same time
  Nobody,     \* no user, no token
  None        \* no request, no answer yet

ASSUME NobodyAssumption == Nobody \notin Accounts
ASSUME NoneAssumption ==
  None \notin {"has", "lacks"} \cup [bearer : Accounts \cup {Nobody}, rows : {None, "has", "lacks"}]

\* The page each form is on.  "app" stands for the pages behind the login that
\* have no such form, "root" for the address "/" and the public pages.
FormPage ==
  [login |-> "login", signup |-> "login", forgot |-> "forgot", reset |-> "reset",
   displayName |-> "profile", changePassword |-> "profile",
   deleteAccount |-> "profile", help |-> "help"]
Protected == {"app", "profile", "help"}
Pages     == Protected \cup {"login", "root", "forgot", "reset"}

VARIABLES
  status,     \* of each account: new, active or deleted
  submitted,  \* accounts with a help request in the table
  token,      \* localStorage: whose token, or Nobody
  crossed,    \* history: another tab wrote it after this one last did
  user,       \* AuthContext's user
  me,         \* the bearer of the GET /me that a load waits for, or Nobody
  page,       \* the route that is rendered
  req,        \* per request: form, account, bearer, where its form is, served
  list,       \* the query for the help requests while it runs, or None
  cache,      \* whose list the cache holds, and if a request is in it
  told        \* history: a submission was confirmed while a list was on display

server == <<status, submitted>>
identity == <<token, crossed, user, me>>
view == <<page, req, list, told>>
vars == <<server, identity, view, cache>>

-----------------------------------------------------------------------------
(* What is rendered.                                                       *)

\* The redirects of LoginPage, RootRoute and RequireAuth, none while loading.
Landed(p, u, loading) ==
  CASE ~loading /\ u = Nobody /\ p \in Protected -> "login"
    [] ~loading /\ u # Nobody /\ p \in {"login", "root"} -> "app"
    [] OTHER -> p

\* What is left of request r once page p is shown and its form unmounted.  Of
\* some forms there is nothing to come that any part of the model would see.
Inert == {"forgot", "reset", "changePassword"}

Unmounted(r, p) ==
  IF r = None \/ FormPage[r.form] = p \/ r.at # "mounted" THEN r
  ELSE IF r.form \in Inert THEN None
  ELSE [r EXCEPT !.at = "left"]

FetchList(a) == [bearer |-> a, rows |-> None]

\* HelpPage's query fetches when it is mounted, unless a fetch is under way or
\* what the cache holds is younger than ten seconds.
QueryMounts(p, u) ==
  IF p = "help" /\ u # Nobody /\ ~(page = "help" /\ user # Nobody) /\ list = None
  THEN {FetchList(token')} \cup (IF cache.owner = Nobody THEN {} ELSE {None})
  ELSE {list}

\* The route p is rendered for user u with the requests rs.
Show(p, u, loading, rs) ==
  LET at == Landed(p, u, loading)
  IN /\ page' = at
     /\ req' = [q \in Requests |-> Unmounted(rs[q], at)]
     /\ list' \in QueryMounts(at, u)
     /\ told' = (told /\ at = page /\ u = user)

Go(p) ==
  /\ p # page
  /\ UNCHANGED identity
  /\ Show(p, user, me # Nobody, req)
  /\ UNCHANGED <<server, cache>>

\* The tab is opened anew: what runs in it is lost, the requests it sent may
\* still reach the server.
Reload(p) ==
  /\ crossed' = FALSE /\ user' = Nobody /\ UNCHANGED token
  /\ me' = token
  /\ page' = Landed(p, Nobody, token # Nobody)
  /\ req' = [q \in Requests |->
       IF /\ req[q] # None /\ ~req[q].served
          /\ req[q].form \in {"signup", "deleteAccount", "help"}
       THEN [req[q] EXCEPT !.at = "gone"] ELSE None]
  /\ list' = None /\ told' = FALSE
  /\ cache' = [owner |-> Nobody, has |-> FALSE]
  /\ UNCHANGED server

Init ==
  /\ status \in [Accounts -> {"new", "active"}] /\ submitted = {}
  /\ token = Nobody /\ crossed = FALSE /\ user = Nobody /\ me = Nobody
  /\ page \in Pages \ Protected
  /\ req = [q \in Requests |-> None] /\ list = None /\ told = FALSE
  /\ cache = [owner |-> Nobody, has |-> FALSE]

-----------------------------------------------------------------------------
(* AuthContext.                                                            *)

MeAnswered ==
  /\ me # Nobody /\ status[me] = "active"
  /\ user' = me /\ me' = Nobody /\ UNCHANGED <<token, crossed>>
  /\ Show(page, me, FALSE, req)
  /\ UNCHANGED <<server, cache>>

\* Whatever went wrong, the stored token is removed.
MeFails ==
  /\ me # Nobody
  /\ token' = Nobody /\ crossed' = FALSE /\ me' = Nobody /\ UNCHANGED user
  /\ Show(page, user, FALSE, req)
  /\ UNCHANGED <<server, cache>>

\* logout, which leaves the query cache as it is, and the page it ends on.
Logout(p, rs) ==
  /\ token' = Nobody /\ crossed' = FALSE /\ user' = Nobody /\ UNCHANGED me
  /\ Show(p, Nobody, me # Nobody, rs)

\* NavBar's button.
NavLogout ==
  /\ user # Nobody /\ page \in Protected
  /\ Logout(page, req)
  /\ UNCHANGED <<server, cache>>

\* The command palette behind Ctrl-K goes to a page of the app or logs out.
Palette ==
  /\ user # Nobody /\ page \in Protected
  /\ \/ \E p \in Protected : Go(p)
     \/ Logout(page, req) /\ UNCHANGED <<server, cache>>

\* The other tabs of the browser.
OtherTabWrites(a) ==
  /\ a # token /\ a \in {Nobody} \cup {x \in Accounts : status[x] = "active"}
  /\ token' = a /\ crossed' = TRUE
  /\ UNCHANGED <<server, user, me, view, cache>>

-----------------------------------------------------------------------------
(* The forms.                                                              *)

SignIn == {"login", "signup"}
SameButton(f, g) == f = g \/ {f, g} \subseteq SignIn

\* The request of form f leaves; its button is disabled while an earlier one of
\* the same mounted form pends.
Sent(q, f, acct, bearer) ==
  /\ req[q] = None /\ page = FormPage[f]
  /\ \A r \in Requests :
       req[r] # None /\ SameButton(req[r].form, f) => req[r].at # "mounted"
  /\ req' = [req EXCEPT ![q] =
       [form |-> f, acct |-> acct, bearer |-> bearer, at |-> "mounted", served |-> FALSE]]
  /\ UNCHANGED <<server, identity, page, list, told, cache>>

\* A learner who walked away from the login form does not fill it in a second
\* time before the first answer.
SubmitCredentials(q, f, a) ==
  /\ f \in SignIn /\ me = Nobody
  /\ \A r \in Requests : req[r] # None /\ req[r].form \in SignIn => req[r].at = "gone"
  /\ Sent(q, f, a, Nobody)

SubmitForgot(q) == Sent(q, "forgot", Nobody, Nobody)

SubmitReset(q) == Sent(q, "reset", Nobody, Nobody)

SubmitDisplayName(q) == user # Nobody /\ Sent(q, "displayName", Nobody, token)

\* Whose password it changes is left to Accounts.
SubmitPassword(q) == user # Nobody /\ Sent(q, "changePassword", Nobody, Nobody)

SubmitDelete(q) == user # Nobody /\ Sent(q, "deleteAccount", Nobody, token)

SubmitHelp(q) == user # Nobody /\ Sent(q, "help", Nobody, token)

\* requireAuth lets the bearer in.
Authorized(a) == a # Nobody /\ status[a] = "active"

Freed(q) == [req EXCEPT ![q] = None]

ServeSignup(r) ==
  /\ r.form = "signup" /\ status[r.acct] = "new"
  /\ status' = [status EXCEPT ![r.acct] = "active"] /\ UNCHANGED submitted

ServeLogin(r) == r.form = "login" /\ status[r.acct] = "active" /\ UNCHANGED server

ServeDisplayName(r) == r.form = "displayName" /\ Authorized(r.bearer) /\ UNCHANGED server

ServeHelp(r) ==
  /\ r.form = "help" /\ Authorized(r.bearer)
  /\ submitted' = submitted \cup {r.bearer} /\ UNCHANGED status

\* The row goes, and with it what refers to it.
ServeDelete(r) ==
  /\ r.form = "deleteAccount" /\ Authorized(r.bearer)
  /\ status' = [status EXCEPT ![r.bearer] = "deleted"]
  /\ submitted' = submitted \ {r.bearer}

ServeInert(r) == r.form \in Inert /\ UNCHANGED server

Serve(q) ==
  /\ req[q] # None /\ ~req[q].served
  /\ LET r == req[q] IN
       \/ ServeSignup(r) \/ ServeLogin(r) \/ ServeDisplayName(r)
       \/ ServeHelp(r) \/ ServeDelete(r) \/ ServeInert(r)
  /\ req' = IF req[q].at = "gone" THEN Freed(q) ELSE [req EXCEPT ![q].served = TRUE]
  /\ UNCHANGED <<identity, page, list, told, cache>>

\* The server refuses, or the request or its answer is lost: an error is shown
\* if the form is still there.
Fail(q) ==
  /\ req[q] # None
  /\ req' = Freed(q)
  /\ UNCHANGED <<server, identity, page, list, told, cache>>

Done(q, f) == req[q] # None /\ req[q].served /\ req[q].form \in f

\* login and signup store the token and the user, wherever the tab is by then.
SignedIn(q) ==
  /\ Done(q, SignIn)
  /\ token' = req[q].acct /\ user' = req[q].acct /\ crossed' = FALSE /\ UNCHANGED me
  /\ Show(page, req[q].acct, me # Nobody, Freed(q))
  /\ UNCHANGED <<server, cache>>

\* Mutant: the answer replaces the user although its page was left.
NameSavedAnyway(q) ==
  /\ Done(q, {"displayName"})
  /\ user' = req[q].bearer /\ UNCHANGED <<token, crossed, me>>
  /\ Show(page, req[q].bearer, me # Nobody, Freed(q))
  /\ UNCHANGED <<server, cache>>

NameSaved(q) ==
  /\ Done(q, {"displayName"})
  /\ LET u == IF req[q].at = "mounted" THEN req[q].bearer ELSE user
     IN /\ user' = u /\ UNCHANGED <<token, crossed, me>>
        /\ Show(page, u, me # Nobody, Freed(q))
  /\ UNCHANGED <<server, cache>>

AccountDeleted(q) ==
  /\ Done(q, {"deleteAccount"}) /\ req[q].at = "mounted"
  /\ Logout("root", Freed(q))
  /\ UNCHANGED <<server, cache>>

PasswordReset(q) ==
  /\ Done(q, {"reset"})
  /\ UNCHANGED identity
  /\ Show("login", user, me # Nobody, Freed(q))
  /\ UNCHANGED <<server, cache>>

\* Mutant: a fetch that runs already is taken to bring the new request.
HelpSentJoins(q) ==
  /\ Done(q, {"help"})
  /\ list' = IF page = "help" /\ list = None THEN FetchList(token) ELSE list
  /\ told' = (told \/ (req[q].at = "mounted" /\ cache.owner # Nobody))
  /\ req' = Freed(q)
  /\ UNCHANGED <<server, identity, page, cache>>

\* The list is invalidated.  If it is on display it is fetched again, and a
\* fetch under way is cancelled, unless it is the first one.
HelpSent(q) ==
  /\ Done(q, {"help"})
  /\ list' = IF page = "help" /\ (list = None \/ cache.owner # Nobody)
             THEN FetchList(token) ELSE list
  /\ told' = (told \/ (req[q].at = "mounted" /\ cache.owner # Nobody))
  /\ req' = Freed(q)
  /\ UNCHANGED <<server, identity, page, cache>>

\* A password form is emptied, the forgotten one replaced by a message, or the
\* page that would have signed out is not there any more.
Noted(q) ==
  /\ \/ Done(q, {"changePassword", "forgot"})
     \/ Done(q, {"deleteAccount"}) /\ req[q].at = "left"
  /\ req' = Freed(q)
  /\ UNCHANGED <<server, identity, page, list, told, cache>>

-----------------------------------------------------------------------------
(* The list of help requests.                                              *)

ListServed ==
  /\ list # None /\ list.rows = None /\ Authorized(list.bearer)
  /\ list' = [list EXCEPT !.rows = IF list.bearer \in submitted THEN "has" ELSE "lacks"]
  /\ UNCHANGED <<server, identity, page, req, told, cache>>

ListArrives ==
  /\ list # None /\ list.rows # None
  /\ cache' = [owner |-> list.bearer, has |-> list.rows = "has"]
  /\ list' = None
  /\ UNCHANGED <<server, identity, page, req, told>>

\* A query is tried again, with the token of that moment, before it fails and
\* an error takes the place of the list.
ListFails ==
  /\ list # None
  /\ UNCHANGED <<server, identity, page, req, cache>>
  /\ \/ list' = FetchList(token) /\ UNCHANGED told
     \/ list' = None /\ told' = FALSE

\* A window that regains the focus fetches data older than ten seconds again.
Refocus ==
  /\ page = "help" /\ user # Nobody /\ list = None
  /\ list' = FetchList(token)
  /\ UNCHANGED <<server, identity, page, req, told, cache>>

Next ==
  \/ \E p \in Pages : Go(p) \/ Reload(p)
  \/ MeAnswered \/ MeFails \/ NavLogout \/ Palette
  \/ \E a \in Accounts \cup {Nobody} : OtherTabWrites(a)
  \/ \E q \in Requests :
       \/ \E f \in SignIn, a \in Accounts : SubmitCredentials(q, f, a)
       \/ SubmitForgot(q) \/ SubmitReset(q) \/ SubmitDisplayName(q)
       \/ SubmitPassword(q) \/ SubmitDelete(q) \/ SubmitHelp(q)
       \/ Serve(q) \/ Fail(q) \/ SignedIn(q) \/ NameSaved(q) \/ AccountDeleted(q)
       \/ PasswordReset(q) \/ HelpSent(q) \/ Noted(q)
  \/ ListServed \/ ListArrives \/ ListFails \/ Refocus

Spec == Init /\ [][Next]_vars
-----------------------------------------------------------------------------
\* Unless another tab was the last to write the stored token, the tab shows the
\* account the token is for, and nobody when there is none: every request is
\* made in the name on display.  Answers to forms that were left, a page load
\* that overtakes them and accounts that vanish do not tear the two apart.
IdentityMatches == me = Nobody /\ ~crossed => user = token

\* Once a submission was confirmed over a list on display, no list without it
\* is shown: an older fetch never lands on top of the newer one.
SubmissionListed ==
  told /\ ~crossed /\ list = None => cache.owner = user /\ cache.has
=============================================================================
