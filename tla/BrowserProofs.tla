--------------------------- MODULE BrowserProofs ---------------------------
(***************************************************************************)
(* Whose account the tab shows and whose requests it sends, for any number *)
(* of accounts and of forms in flight.                                     *)
(*                                                                         *)
(* Neither property survives a step on its own.  What keeps them is which  *)
(* requests can be under way in which state of AuthContext: while a load   *)
(* waits for GET /me every request of a form that matters went with the    *)
(* page before it, a pending sign-in means that nobody is signed in, and a *)
(* form that is still mounted was sent with the token of the user shown.   *)
(***************************************************************************)
EXTENDS Browser, TLAPS

Bearers == Accounts \cup {Nobody}
Forms   == {"login", "signup", "forgot", "reset", "displayName",
            "changePassword", "deleteAccount", "help"}

Record == [form : Forms, acct : Bearers, bearer : Bearers,
           at : {"mounted", "left", "gone"}, served : BOOLEAN]
Slots  == [Requests -> {None} \cup Record]

Types ==
  /\ status \in [Accounts -> {"new", "active", "deleted"}]
  /\ token \in Bearers /\ user \in Bearers /\ me \in Bearers
  /\ crossed \in BOOLEAN /\ told \in BOOLEAN
  /\ req \in Slots
  /\ list \in {None} \cup [bearer : Bearers, rows : {None, "has", "lacks"}]

\* A load waits for the account of the stored token, and whatever could disturb
\* it went with the page before.
Loading ==
  me # Nobody =>
    /\ user = Nobody
    /\ crossed \/ me = token
    /\ \A q \in Requests :
         req[q] # None => req[q].form \in Inert \/ req[q].at = "gone"

\* The redirects have been followed.
Placed ==
  me = Nobody =>
    IF user = Nobody THEN page \notin Protected ELSE page \notin {"login", "root"}

\* A sign-in whose answer this tab will get.
SigningIn(q) == req[q] # None /\ req[q].form \in SignIn /\ req[q].at # "gone"

OneSignIn ==
  /\ \A q \in Requests : SigningIn(q) => user = Nobody /\ req[q].acct \in Accounts
  /\ \A q, r \in Requests : SigningIn(q) /\ SigningIn(r) => q = r

\* Forms that only a user can send.
Owned == {"displayName", "deleteAccount", "help"}

\* A form that is still there was sent with the token of the user on display.
Own ==
  \A q \in Requests : req[q] # None /\ req[q].at = "mounted" =>
    /\ page = FormPage[req[q].form]
    /\ req[q].form \in Owned => user # Nobody /\ (crossed \/ req[q].bearer = token)

\* The server let somebody in, and what it did is in the tables.
Accepted ==
  \A q \in Requests : req[q] # None /\ req[q].served =>
    /\ req[q].at # "gone"
    /\ req[q].form \in Owned => req[q].bearer # Nobody
    /\ req[q].form = "help" =>
         req[q].bearer \in submitted \/ status[req[q].bearer] = "deleted"

\* After a confirmed submission a fetch that runs is one that will show it.
ToldListed ==
  told =>
    /\ user # Nobody /\ page = "help"
    /\ ~crossed =>
         /\ user \in submitted \/ status[user] = "deleted"
         /\ list = None => cache.owner = user /\ cache.has
         /\ list # None => list.bearer = user /\ list.rows # "lacks"

Identity == Loading /\ Placed /\ OneSignIn /\ Own /\ IdentityMatches
TabInv   == Types /\ Identity /\ Accepted /\ ToldListed

-----------------------------------------------------------------------------
(* Rendering.                                                              *)

\* Slot r of rs as rendering leaves it in req'.
Kept(rs, q) ==
  req'[q] # None =>
    /\ rs[q] # None
    /\ req'[q].form = rs[q].form /\ req'[q].acct = rs[q].acct
    /\ req'[q].bearer = rs[q].bearer /\ req'[q].served = rs[q].served
    /\ req'[q].at = "gone" <=> rs[q].at = "gone"
    /\ req'[q].at = "mounted" => rs[q].at = "mounted" /\ page' = FormPage[rs[q].form]

\* Rendering unmounts forms and changes nothing else about their requests.
LEMMA ShowKeeps ==
  ASSUME NEW p, NEW u, NEW loading, NEW rs \in Slots, Show(p, u, loading, rs)
  PROVE  req' \in Slots /\ \A q \in Requests : Kept(rs, q)
<1> USE DEF Slots, Record
<1>1. ASSUME NEW q \in Requests  PROVE req'[q] \in {None} \cup Record /\ Kept(rs, q)
  <2>1. req'[q] = Unmounted(rs[q], page')
    BY <1>1 DEF Show
  <2>2. CASE rs[q] = None \/ FormPage[rs[q].form] = page' \/ rs[q].at # "mounted"
    BY <2>1, <2>2 DEF Unmounted, Kept
  <2>3. CASE ~(rs[q] = None \/ FormPage[rs[q].form] = page' \/ rs[q].at # "mounted")
    BY <2>1, <2>3 DEF Unmounted, Kept
  <2> QED
    BY <2>2, <2>3
<1>2. req' = [q \in Requests |-> Unmounted(rs[q], page')]
  BY DEF Show
<1> QED
  BY <1>1, <1>2

\* The list's query is as it was, or is sent with the token of the new state.
LEMMA ShowFetches ==
  ASSUME Types, NEW p, NEW u, NEW loading, NEW rs, Show(p, u, loading, rs)
  PROVE  list' \in {list, FetchList(token')} \/ (list' = None /\ list = None)
BY DEF Show, QueryMounts

\* One request's slot is free, the others are as they were.
LEMMA FreedSlots ==
  ASSUME Types, NEW q \in Requests
  PROVE  /\ Freed(q) \in Slots
         /\ Freed(q)[q] = None
         /\ \A r \in Requests : r # q => Freed(q)[r] = req[r]
BY DEF Freed, Types, Slots

LEMMA InitTab == Init => TabInv
BY NobodyAssumption DEF Init, TabInv, Types, Slots, Identity, Loading, Placed, OneSignIn,
   SigningIn, Own, IdentityMatches, Accepted, ToldListed, Bearers, Pages, Protected, FormPage

-----------------------------------------------------------------------------
(* Types.                                                                  *)

\* What Show leads to has the right types if it was given them.
LEMMA ShowTypes ==
  ASSUME Types, NEW p, NEW u, NEW loading, NEW rs \in Slots, Show(p, u, loading, rs),
         status' = status, token' \in Bearers, user' \in Bearers, me' \in Bearers,
         crossed' \in BOOLEAN
  PROVE  Types'
<1>1. req' \in Slots
  BY ShowKeeps
<1>2. told' \in BOOLEAN
  BY DEF Show, Types
<1>3. list' \in {None} \cup [bearer : Bearers, rows : {None, "has", "lacks"}]
  BY ShowFetches DEF FetchList, Types
<1> QED
  BY <1>1, <1>2, <1>3 DEF Types

LEMMA TypesStep ==
  ASSUME Types, [Next]_vars
  PROVE  Types'
<1> USE DEF server, identity, view
<1>0. req \in Slots /\ Nobody \in Bearers /\ Accounts \subseteq Bearers
  BY DEF Types, Bearers
<1>1. ASSUME NEW p \in Pages, Go(p)  PROVE Types'
  BY <1>0, <1>1, ShowTypes DEF Go, Types
<1>2. ASSUME NEW p \in Pages, Reload(p)  PROVE Types'
  <2>1. req' \in Slots
    BY <1>2 DEF Reload, Types, Slots, Record
  <2> QED
    BY <1>0, <1>2, <2>1 DEF Reload, Types
<1>3. ASSUME MeAnswered \/ MeFails  PROVE Types'
  <2>1. CASE MeAnswered
    BY <1>0, <2>1, ShowTypes DEF MeAnswered, Types
  <2>2. CASE MeFails
    BY <1>0, <2>2, ShowTypes DEF MeFails, Types
  <2> QED
    BY <1>3, <2>1, <2>2
<1>4. ASSUME NEW p, NEW rs \in Slots, Logout(p, rs), UNCHANGED server  PROVE Types'
  BY <1>0, <1>4, ShowTypes DEF Logout, Types
<1>5. ASSUME NavLogout \/ Palette  PROVE Types'
  BY <1>0, <1>1, <1>4, <1>5 DEF NavLogout, Palette, Pages
<1>6. ASSUME NEW a, OtherTabWrites(a)  PROVE Types'
  BY <1>0, <1>6 DEF OtherTabWrites, Types
<1>7. ASSUME NEW q \in Requests, NEW f \in Forms, NEW acct \in Bearers, NEW b \in Bearers,
             Sent(q, f, acct, b)
      PROVE  Types'
  <2>1. req' \in Slots
    BY <1>7 DEF Sent, Types, Slots, Record
  <2> QED
    BY <1>7, <2>1 DEF Sent, Types
<1>8. ASSUME NEW q \in Requests,
             \/ \E f \in SignIn, a \in Accounts : SubmitCredentials(q, f, a)
             \/ SubmitForgot(q) \/ SubmitReset(q) \/ SubmitDisplayName(q)
             \/ SubmitPassword(q) \/ SubmitDelete(q) \/ SubmitHelp(q)
      PROVE  Types'
  BY <1>0, <1>7, <1>8 DEF SubmitCredentials, SubmitForgot, SubmitReset, SubmitDisplayName,
     SubmitPassword, SubmitDelete, SubmitHelp, Forms, SignIn, Types
<1>9. ASSUME NEW q \in Requests, Serve(q)  PROVE Types'
  <2>1. status' \in [Accounts -> {"new", "active", "deleted"}]
    BY <1>9 DEF Serve, ServeSignup, ServeLogin, ServeDisplayName, ServeHelp, ServeDelete,
       ServeInert, Types
  <2>2. [req EXCEPT ![q].served = TRUE] \in Slots
    <3>1. req[q] \in Record
      BY <1>9 DEF Serve, Types, Slots
    <3>2. [req[q] EXCEPT !.served = TRUE] \in Record
      BY <3>1 DEF Record
    <3> QED
      BY <3>2 DEF Types, Slots
  <2>3. req' \in Slots
    BY <1>9, <2>2, FreedSlots DEF Serve
  <2> QED
    BY <1>9, <2>1, <2>3 DEF Serve, Types
<1>10. ASSUME NEW q \in Requests, Fail(q) \/ Noted(q)  PROVE Types'
  BY <1>10, FreedSlots DEF Fail, Noted, Types
<1>11. ASSUME NEW q \in Requests, SignedIn(q) \/ NameSaved(q)  PROVE Types'
  <2>1. req[q] \in Record
    BY <1>11 DEF SignedIn, NameSaved, Done, Types, Slots
  <2>2. req[q].acct \in Bearers /\ req[q].bearer \in Bearers
    BY <2>1 DEF Record
  <2> QED
    BY <1>0, <1>11, <2>2, FreedSlots, ShowTypes DEF SignedIn, NameSaved, Types
<1>12. ASSUME NEW q \in Requests, AccountDeleted(q) \/ PasswordReset(q)  PROVE Types'
  BY <1>0, <1>4, <1>12, FreedSlots, ShowTypes DEF AccountDeleted, PasswordReset, Types
<1>13. ASSUME NEW q \in Requests, HelpSent(q)  PROVE Types'
  BY <1>13, FreedSlots DEF HelpSent, FetchList, Types
<1>14. ASSUME ListServed \/ ListArrives \/ ListFails \/ Refocus  PROVE Types'
  <2>1. CASE ListServed
    <3>1. list \in [bearer : Bearers, rows : {None, "has", "lacks"}]
      BY <2>1 DEF ListServed, Types
    <3>2. \A x \in {"has", "lacks"} :
            [list EXCEPT !.rows = x] \in [bearer : Bearers, rows : {None, "has", "lacks"}]
      BY <3>1
    <3> QED
      BY <2>1, <3>2 DEF ListServed, Types
  <2>2. CASE ListArrives \/ ListFails \/ Refocus
    <3>1. FetchList(token) \in [bearer : Bearers, rows : {None, "has", "lacks"}]
      BY DEF FetchList, Types
    <3> QED
      BY <2>2, <3>1 DEF ListArrives, ListFails, Refocus, Types
  <2> QED
    BY <1>14, <2>1, <2>2
<1>15. ASSUME UNCHANGED vars  PROVE Types'
  BY <1>15 DEF vars, Types
<1> QED
  BY <1>1, <1>2, <1>3, <1>5, <1>6, <1>8, <1>9, <1>10, <1>11, <1>12, <1>13, <1>14, <1>15
  DEF Next

-----------------------------------------------------------------------------
(* Whose account is on display.                                            *)

\* A request that rendering keeps was there before.
LEMMA KeptIdentity ==
  ASSUME Types, Identity, NEW p, NEW u, NEW loading, NEW rs \in Slots,
         Show(p, u, loading, rs),
         \A q \in Requests : rs[q] = req[q] \/ rs[q] = None
  PROVE  /\ \A q \in Requests : SigningIn(q)' => SigningIn(q) /\ req'[q].acct = req[q].acct
         /\ \A q \in Requests : req'[q] # None =>
              /\ req[q] # None /\ req'[q].form = req[q].form
              /\ req'[q].bearer = req[q].bearer
              /\ req'[q].at = "gone" <=> req[q].at = "gone"
              /\ req'[q].at = "mounted" =>
                   req[q].at = "mounted" /\ page' = FormPage[req[q].form]
BY ShowKeeps DEF Kept, SigningIn

\* Nobody's identity changes, only the page.
LEMMA ShowSame ==
  ASSUME Types, Identity, NEW p, NEW rs \in Slots,
         Show(p, user, me # Nobody, rs), UNCHANGED identity,
         \A q \in Requests : rs[q] = req[q] \/ rs[q] = None
  PROVE  Identity'
<1>1. Loading'
  BY KeptIdentity DEF Identity, Loading, identity
<1>2. Placed'
  BY DEF Show, Landed, Placed, identity, Protected
<1>3. OneSignIn'
  BY KeptIdentity DEF Identity, OneSignIn, identity
<1>4. Own'
  BY KeptIdentity DEF Identity, Own, identity
<1> QED
  BY <1>1, <1>2, <1>3, <1>4 DEF Identity, IdentityMatches, identity

\* Signing out, whether of one's own accord or with the account.
LEMMA LogoutIdentity ==
  ASSUME Types, Identity, NEW p, NEW rs \in Slots, Logout(p, rs), me = Nobody,
         \A q \in Requests : rs[q] = req[q] \/ rs[q] = None
  PROVE  Identity'
<1>1. Show(p, Nobody, me # Nobody, rs)
  BY DEF Logout
<1>2. Loading'
  BY DEF Loading, Logout
<1>3. Placed'
  BY <1>1 DEF Logout, Show, Landed, Placed, Protected
<1>4. OneSignIn'
  BY <1>1, KeptIdentity DEF Identity, OneSignIn, Logout
<1>5. Own'
  <2>1. page' \notin Protected
    BY <1>1 DEF Show, Landed, Protected
  <2> QED
    BY <1>1, <2>1, KeptIdentity DEF Identity, Own, Owned, Protected, FormPage
<1> QED
  BY <1>2, <1>3, <1>4, <1>5 DEF Identity, IdentityMatches, Logout

LEMMA IdentityStep ==
  ASSUME Types, Identity, Accepted, [Next]_vars
  PROVE  Identity'
<1> USE DEF server, view
<1>0. req \in Slots /\ Nobody \in Bearers /\ Nobody \notin Accounts
  BY NobodyAssumption DEF Types, Bearers
<1>1. ASSUME NEW p, Go(p)  PROVE Identity'
  BY <1>0, <1>1, ShowSame DEF Go
<1>2. ASSUME NEW p, Reload(p)  PROVE Identity'
  <2>1. \A q \in Requests : req'[q] # None => req'[q].at = "gone"
    <3>1. ASSUME NEW q \in Requests, req'[q] # None  PROVE req'[q].at = "gone"
      <4>1. req[q] # None /\ req'[q] = [req[q] EXCEPT !.at = "gone"]
        BY <1>2, <3>1 DEF Reload
      <4>2. req[q] \in Record
        BY <4>1 DEF Types, Slots
      <4> QED
        BY <4>1, <4>2 DEF Record
    <3> QED
      BY <3>1
  <2>2. Loading' /\ OneSignIn' /\ Own' /\ IdentityMatches'
    BY <1>2, <2>1 DEF Reload, Loading, OneSignIn, SigningIn, Own, IdentityMatches
  <2>3. Placed'
    BY <1>2 DEF Reload, Landed, Placed, Protected
  <2> QED
    BY <2>2, <2>3 DEF Identity
<1>3. CASE MeAnswered
  <2>1. Show(page, me, FALSE, req) /\ me # Nobody /\ user = Nobody /\ (crossed \/ me = token)
    BY <1>3 DEF MeAnswered, Identity, Loading
  <2>2. Loading'
    BY <1>3 DEF MeAnswered, Loading
  <2>3. Placed'
    BY <1>3, <2>1 DEF MeAnswered, Show, Landed, Placed, Protected
  <2>4. \A q \in Requests : ~SigningIn(q)
    BY <2>1 DEF Identity, Loading, SigningIn, SignIn, Inert
  <2>5. OneSignIn'
    BY <1>0, <2>1, <2>4, KeptIdentity DEF OneSignIn
  <2>6. Own'
    BY <1>0, <2>1, KeptIdentity DEF Identity, Loading, Own, Owned, Inert
  <2> QED
    BY <1>3, <2>1, <2>2, <2>3, <2>5, <2>6 DEF MeAnswered, Identity, IdentityMatches
<1>4. CASE MeFails
  <2>1. Show(page, user, FALSE, req) /\ me # Nobody /\ user = Nobody
    BY <1>4 DEF MeFails, Identity, Loading
  <2>2. Loading'
    BY <1>4 DEF MeFails, Loading
  <2>3. Placed'
    BY <1>4, <2>1 DEF MeFails, Show, Landed, Placed, Protected
  <2>4. OneSignIn'
    BY <1>0, <1>4, <2>1, KeptIdentity DEF MeFails, Identity, OneSignIn
  <2>5. Own'
    BY <1>0, <2>1, KeptIdentity DEF Identity, Loading, Own, Owned, Inert
  <2> QED
    BY <1>4, <2>1, <2>2, <2>3, <2>4, <2>5 DEF MeFails, Identity, IdentityMatches
<1>5. ASSUME NavLogout \/ Palette  PROVE Identity'
  <2>1. me = Nobody
    BY <1>5 DEF NavLogout, Palette, Identity, Loading
  <2>2. CASE Logout(page, req)
    BY <1>0, <2>1, <2>2, LogoutIdentity
  <2> QED
    BY <1>1, <1>5, <2>2 DEF NavLogout, Palette
<1>6. ASSUME NEW a, OtherTabWrites(a)  PROVE Identity'
  BY <1>6 DEF OtherTabWrites, Identity, Loading, Placed, OneSignIn, SigningIn, Own,
     IdentityMatches
<1>7. ASSUME NEW q \in Requests, SignedIn(q)  PROVE Identity'
  <2>1. SigningIn(q) /\ req[q].acct \in Accounts /\ user = Nobody /\ me = Nobody
    <3>1. SigningIn(q)
      BY <1>7 DEF SignedIn, Done, SigningIn, Accepted
    <3> QED
      BY <3>1 DEF SigningIn, SignIn, Identity, OneSignIn, Loading, Inert
  <2>2. /\ Show(page, req[q].acct, me # Nobody, Freed(q))
        /\ \A r \in Requests : Freed(q)[r] = req[r] \/ Freed(q)[r] = None
        /\ Freed(q) \in Slots /\ Freed(q)[q] = None
    BY <1>7, FreedSlots DEF SignedIn
  <2>3. user' # Nobody /\ me' = Nobody /\ user' = token' /\ ~crossed'
    BY <1>0, <1>7, <2>1 DEF SignedIn
  <2>4. Placed'
    BY <1>0, <2>1, <2>2, <2>3 DEF Show, Landed, Placed, Protected
  <2>5. req'[q] = None
    BY <2>2, ShowKeeps DEF Kept
  <2>6. \A r \in Requests : ~SigningIn(r)'
    BY <2>1, <2>2, <2>5, KeptIdentity DEF Identity, OneSignIn, SigningIn
  <2>7. Own'
    BY <2>1, <2>2, KeptIdentity DEF Identity, Own
  <2> QED
    BY <2>3, <2>4, <2>6, <2>7 DEF Identity, Loading, OneSignIn, IdentityMatches
<1>8. ASSUME NEW q \in Requests, NameSaved(q)  PROVE Identity'
  <2>1. /\ \A r \in Requests : Freed(q)[r] = req[r] \/ Freed(q)[r] = None
        /\ Freed(q) \in Slots
    BY FreedSlots
  <2>2. CASE req[q].at = "mounted"
    <3>1. /\ user # Nobody /\ me = Nobody
          /\ crossed \/ (req[q].bearer = token /\ user = token)
          /\ req[q].bearer # Nobody
      BY <1>8, <2>2 DEF NameSaved, Done, Identity, Own, Owned, Loading, Inert, Accepted,
         IdentityMatches
    <3>2. /\ Show(page, req[q].bearer, me # Nobody, Freed(q))
          /\ user' = req[q].bearer /\ UNCHANGED <<token, crossed, me>>
      BY <1>8, <2>2 DEF NameSaved
    <3>3. Placed'
      BY <3>1, <3>2 DEF Show, Landed, Placed, Protected
    <3>4. OneSignIn'
      BY <2>1, <3>1, <3>2, KeptIdentity DEF Identity, OneSignIn
    <3>5. Own'
      BY <2>1, <3>1, <3>2, KeptIdentity DEF Identity, Own
    <3> QED
      BY <3>1, <3>2, <3>3, <3>4, <3>5 DEF Identity, Loading, IdentityMatches
  <2>3. CASE req[q].at # "mounted"
    BY <1>8, <2>1, <2>3, ShowSame DEF NameSaved, identity
  <2> QED
    BY <2>2, <2>3
<1>9. ASSUME NEW q \in Requests, AccountDeleted(q) \/ PasswordReset(q)  PROVE Identity'
  <2>1. /\ \A r \in Requests : Freed(q)[r] = req[r] \/ Freed(q)[r] = None
        /\ Freed(q) \in Slots
    BY FreedSlots
  <2>2. CASE AccountDeleted(q)
    <3>1. me = Nobody
      BY <2>2 DEF AccountDeleted, Done, Identity, Loading, Inert
    <3> QED
      BY <2>1, <2>2, <3>1, LogoutIdentity DEF AccountDeleted
  <2>3. CASE PasswordReset(q)
    BY <2>1, <2>3, ShowSame DEF PasswordReset
  <2> QED
    BY <1>9, <2>2, <2>3
\* The slot's request ends and nothing else about the tab's identity changes.
<1>10. ASSUME NEW q \in Requests, req' = Freed(q), UNCHANGED <<identity, page>>
       PROVE  Identity'
  BY <1>10, FreedSlots DEF Identity, Loading, Placed, OneSignIn, SigningIn, Own,
     IdentityMatches, identity
<1>11. ASSUME NEW q \in Requests, Serve(q)  PROVE Identity'
  <2>1. CASE req[q].at = "gone"
    BY <1>10, <1>11, <2>1 DEF Serve
  <2>2. CASE req[q].at # "gone"
    <3>1. req[q] \in Record /\ req[q] # None
      BY <1>11 DEF Serve, Types, Slots
    <3>2. req' = [req EXCEPT ![q] = [req[q] EXCEPT !.served = TRUE]]
      BY <1>11, <2>2 DEF Serve
    <3>3. /\ req'[q].form = req[q].form /\ req'[q].acct = req[q].acct
          /\ req'[q].bearer = req[q].bearer /\ req'[q].at = req[q].at
          /\ \A r \in Requests : r # q => req'[r] = req[r]
      BY <1>0, <3>1, <3>2 DEF Slots, Record
    <3> QED
      BY <1>11, <3>1, <3>3 DEF Serve, Identity, Loading, Placed, OneSignIn, SigningIn, Own,
         IdentityMatches, identity
  <2> QED
    BY <2>1, <2>2
\* A form is sent.
<1>12. ASSUME NEW q \in Requests, NEW f, NEW acct, NEW b, Sent(q, f, acct, b),
              f \notin Inert => me = Nobody,
              f \in SignIn => acct \in Accounts /\ \A r \in Requests : ~SigningIn(r),
              f \in Owned => user # Nobody /\ b = token
       PROVE  Identity'
  <2>1. /\ req'[q].form = f /\ req'[q].acct = acct /\ req'[q].bearer = b
        /\ req'[q].at = "mounted" /\ page = FormPage[f]
        /\ \A r \in Requests : r # q => req'[r] = req[r]
    BY <1>0, <1>12 DEF Sent, Slots
  <2>2. f \in SignIn => user = Nobody
    BY <1>12, <2>1 DEF Identity, Placed, SignIn, Inert, FormPage
  <2>3. Loading'
    BY <1>12, <2>1 DEF Sent, Identity, Loading, identity
  <2>4. OneSignIn'
    BY <1>12, <2>1, <2>2 DEF Sent, Identity, OneSignIn, SigningIn, identity
  <2>5. Own'
    BY <1>12, <2>1 DEF Sent, Identity, Own, identity
  <2> QED
    BY <1>12, <2>3, <2>4, <2>5 DEF Sent, Identity, Placed, IdentityMatches, identity
<1>13. ASSUME NEW q \in Requests, NEW f \in SignIn, NEW a \in Accounts,
              SubmitCredentials(q, f, a)
       PROVE  Identity'
  BY <1>12, <1>13 DEF SubmitCredentials, SigningIn, SignIn, Owned
<1>14. ASSUME NEW q \in Requests,
              \/ SubmitForgot(q) \/ SubmitReset(q) \/ SubmitDisplayName(q)
              \/ SubmitPassword(q) \/ SubmitDelete(q) \/ SubmitHelp(q)
       PROVE  Identity'
  <2>1. user # Nobody => me = Nobody
    BY DEF Identity, Loading
  <2>2. CASE SubmitForgot(q) \/ SubmitReset(q) \/ SubmitPassword(q)
    BY <1>12, <2>2 DEF SubmitForgot, SubmitReset, SubmitPassword, Inert, SignIn, Owned
  <2>3. CASE SubmitDisplayName(q) \/ SubmitDelete(q) \/ SubmitHelp(q)
    BY <1>12, <2>1, <2>3 DEF SubmitDisplayName, SubmitDelete, SubmitHelp, SignIn, Owned
  <2> QED
    BY <1>14, <2>2, <2>3
<1>15. ASSUME NEW q \in Requests, Fail(q) \/ HelpSent(q) \/ Noted(q)  PROVE Identity'
  BY <1>10, <1>15 DEF Fail, HelpSent, Noted
<1>16. ASSUME ListServed \/ ListArrives \/ ListFails \/ Refocus \/ UNCHANGED vars
       PROVE  Identity'
  <2>1. UNCHANGED <<identity, page, req>>
    BY <1>16 DEF ListServed, ListArrives, ListFails, Refocus, vars
  <2> QED
    BY <2>1 DEF Identity, Loading, Placed, OneSignIn, SigningIn, Own, IdentityMatches, identity
<1> QED
  BY <1>1, <1>2, <1>3, <1>4, <1>5, <1>6, <1>7, <1>8, <1>9, <1>11, <1>13, <1>14, <1>15, <1>16
  DEF Next

-----------------------------------------------------------------------------
(* What the server has done for a form.                                    *)

LEMMA AcceptedStep ==
  ASSUME Types, Accepted, [Next]_vars
  PROVE  Accepted'
<1> USE DEF server, view, identity
<1>0. req \in Slots
  BY DEF Types
\* Rendering drops requests and only ever moves the others out of a form.
<1>1. ASSUME NEW p, NEW u, NEW loading, NEW rs \in Slots, Show(p, u, loading, rs),
             UNCHANGED server, \A q \in Requests : rs[q] = req[q] \/ rs[q] = None
      PROVE  Accepted'
  BY <1>1, ShowKeeps DEF Kept, Accepted
<1>2. ASSUME NEW p, Go(p)  PROVE Accepted'
  BY <1>0, <1>1, <1>2 DEF Go
<1>3. ASSUME NEW p, NEW rs \in Slots, Logout(p, rs), UNCHANGED server,
             \A q \in Requests : rs[q] = req[q] \/ rs[q] = None
      PROVE  Accepted'
  BY <1>1, <1>3 DEF Logout
<1>4. ASSUME NEW p, Reload(p)  PROVE Accepted'
  <2>1. ASSUME NEW q \in Requests, req'[q] # None  PROVE ~req'[q].served
    <3>1. req[q] # None /\ ~req[q].served /\ req'[q] = [req[q] EXCEPT !.at = "gone"]
      BY <1>4, <2>1 DEF Reload
    <3>2. req[q] \in Record
      BY <3>1 DEF Types, Slots
    <3> QED
      BY <3>1, <3>2 DEF Record
  <2> QED
    BY <2>1 DEF Accepted
<1>5. ASSUME MeAnswered \/ MeFails \/ NavLogout \/ Palette  PROVE Accepted'
  <2>1. CASE MeAnswered
    BY <1>0, <1>1, <2>1 DEF MeAnswered
  <2>2. CASE MeFails
    BY <1>0, <1>1, <2>2 DEF MeFails
  <2>3. CASE NavLogout \/ Palette
    BY <1>0, <1>2, <1>3, <2>3 DEF NavLogout, Palette
  <2> QED
    BY <1>5, <2>1, <2>2, <2>3
<1>6. ASSUME NEW q \in Requests,
             SignedIn(q) \/ NameSaved(q) \/ AccountDeleted(q) \/ PasswordReset(q)
      PROVE  Accepted'
  <2>1. Freed(q) \in Slots /\ \A r \in Requests : Freed(q)[r] = req[r] \/ Freed(q)[r] = None
    BY FreedSlots
  <2>2. CASE SignedIn(q)
    BY <1>1, <2>1, <2>2 DEF SignedIn
  <2>3. CASE NameSaved(q)
    BY <1>1, <2>1, <2>3 DEF NameSaved
  <2>4. CASE AccountDeleted(q) \/ PasswordReset(q)
    BY <1>1, <1>3, <2>1, <2>4 DEF AccountDeleted, PasswordReset
  <2> QED
    BY <1>6, <2>2, <2>3, <2>4
<1>7. ASSUME NEW q \in Requests, Fail(q) \/ HelpSent(q) \/ Noted(q)  PROVE Accepted'
  BY <1>7, FreedSlots DEF Fail, HelpSent, Noted, Accepted
<1>8. ASSUME NEW q \in Requests, NEW f, NEW acct, NEW b, Sent(q, f, acct, b)
      PROVE  Accepted'
  BY <1>0, <1>8 DEF Sent, Accepted, Slots
<1>9. ASSUME NEW q \in Requests, Serve(q)  PROVE Accepted'
  <2>1. req[q] \in Record /\ req[q] # None
    BY <1>9 DEF Serve, Types, Slots
  \* Nobody's request is forgotten but with the account.
  <2>2. \A a \in Bearers \ {Nobody} :
          a \in submitted \/ status[a] = "deleted" => a \in submitted' \/ status'[a] = "deleted"
    BY <1>9 DEF Serve, ServeSignup, ServeLogin, ServeDisplayName, ServeHelp, ServeDelete,
       ServeInert, Types, Bearers
  <2>3. req[q].form \in Owned => req[q].bearer # Nobody
    BY <1>9 DEF Serve, ServeSignup, ServeLogin, ServeDisplayName, ServeHelp, ServeDelete,
       ServeInert, Authorized, Owned, Inert
  <2>4. req[q].form = "help" => req[q].bearer \in submitted'
    BY <1>9 DEF Serve, ServeSignup, ServeLogin, ServeDisplayName, ServeHelp, ServeDelete,
       ServeInert, Inert
  <2>5. ASSUME NEW r \in Requests, r # q, req'[r] # None, req'[r].served
        PROVE  /\ req'[r].at # "gone"
               /\ req'[r].form \in Owned => req'[r].bearer # Nobody
               /\ req'[r].form = "help" =>
                    req'[r].bearer \in submitted' \/ status'[req'[r].bearer] = "deleted"
    <3>1. req'[r] = req[r]
      BY <1>9, <2>5, FreedSlots DEF Serve, Types, Slots
    <3>2. req[r] \in Record
      BY <2>5, <3>1 DEF Types, Slots
    <3> QED
      BY <2>2, <2>5, <3>1, <3>2 DEF Accepted, Record, Owned
  <2>6. ASSUME req'[q] # None
        PROVE  /\ req'[q].at = req[q].at /\ req[q].at # "gone"
               /\ req'[q].form = req[q].form /\ req'[q].bearer = req[q].bearer
    <3>1. req[q].at # "gone" /\ req' = [req EXCEPT ![q] = [req[q] EXCEPT !.served = TRUE]]
      BY <1>9, <2>6, FreedSlots DEF Serve
    <3> QED
      BY <1>0, <2>1, <3>1 DEF Slots, Record
  <2> QED
    BY <2>3, <2>4, <2>5, <2>6 DEF Accepted
<1>10. ASSUME NEW a, OtherTabWrites(a)  PROVE Accepted'
  BY <1>10 DEF OtherTabWrites, Accepted
<1>11. ASSUME ListServed \/ ListArrives \/ ListFails \/ Refocus \/ UNCHANGED vars
       PROVE  Accepted'
  BY <1>11 DEF ListServed, ListArrives, ListFails, Refocus, vars, Accepted
<1>12. ASSUME NEW q \in Requests,
              \/ \E f \in SignIn, a \in Accounts : SubmitCredentials(q, f, a)
              \/ SubmitForgot(q) \/ SubmitReset(q) \/ SubmitDisplayName(q)
              \/ SubmitPassword(q) \/ SubmitDelete(q) \/ SubmitHelp(q)
       PROVE  Accepted'
  BY <1>8, <1>12 DEF SubmitCredentials, SubmitForgot, SubmitReset, SubmitDisplayName,
     SubmitPassword, SubmitDelete, SubmitHelp
<1> QED
  BY <1>2, <1>4, <1>5, <1>6, <1>7, <1>9, <1>10, <1>11, <1>12 DEF Next

-----------------------------------------------------------------------------
(* The list after a submission.                                            *)

LEMMA ToldStep ==
  ASSUME TabInv, Identity', [Next]_vars
  PROVE  ToldListed'
<1> USE DEF server, view, identity
<1>0. Types /\ Identity /\ Accepted /\ ToldListed
  BY DEF TabInv
<1>1. told => user # Nobody /\ me = Nobody /\ page = "help"
  BY <1>0 DEF ToldListed, Identity, Loading
<1>2. user' # Nobody => me' = Nobody /\ (~crossed' => user' = token')
  BY DEF Identity, Loading, IdentityMatches
\* What is fetched now, with the token of the user shown, will have the request.
<1>F. FetchList(token) # None /\ FetchList(token).bearer = token /\ FetchList(token).rows # "lacks"
  BY <1>0, NoneAssumption DEF FetchList, Types, Bearers
<1>G. FetchList(token') # None /\ FetchList(token').bearer = token' /\ FetchList(token').rows # "lacks"
  <2>1. Types'
    BY <1>0, TypesStep
  <2> QED
    BY <2>1, NoneAssumption DEF FetchList, Types, Bearers
\* A page on which the submission was confirmed is rendered again.
<1>3. ASSUME NEW p, NEW u, NEW loading, NEW rs, Show(p, u, loading, rs), user' = u,
             UNCHANGED <<server, cache, crossed>>
      PROVE  ToldListed'
  <2> SUFFICES ASSUME told'
               PROVE  ToldListed'
    BY DEF ToldListed
  <2>1. told /\ page' = page /\ user' = user
    BY <1>3 DEF Show
  <2>2. ~crossed' => user' = token'
    BY <1>1, <1>2, <2>1
  <2>3. list' \in {list, FetchList(token')} \/ (list' = None /\ list = None)
    BY <1>0, <1>3, ShowFetches
  <2> QED
    BY <1>0, <1>3, <1>G, <2>1, <2>2, <2>3 DEF ToldListed
<1>4. ASSUME ~told'  PROVE ToldListed'
  BY <1>4 DEF ToldListed
<1>5. ASSUME NEW p, Go(p)  PROVE ToldListed'
  BY <1>3, <1>5 DEF Go
<1>6. ASSUME NEW p, NEW rs, Logout(p, rs)  PROVE ToldListed'
  BY <1>1, <1>4, <1>6 DEF Logout, Show
<1>7. ASSUME MeAnswered \/ MeFails \/ (\E p \in Pages : Reload(p)) PROVE ToldListed'
  BY <1>1, <1>4, <1>7 DEF MeAnswered, MeFails, Reload, Show
<1>8. ASSUME NavLogout \/ Palette  PROVE ToldListed'
  BY <1>5, <1>6, <1>8 DEF NavLogout, Palette
<1>9. ASSUME NEW q \in Requests, SignedIn(q)  PROVE ToldListed'
  <2>1. user = Nobody
    BY <1>0, <1>9 DEF SignedIn, Done, SigningIn, Accepted, Identity, OneSignIn
  <2> QED
    BY <1>1, <1>4, <1>9, <2>1 DEF SignedIn, Show
<1>10. ASSUME NEW q \in Requests, NameSaved(q) \/ AccountDeleted(q) \/ PasswordReset(q)
       PROVE  ToldListed'
  BY <1>3, <1>6, <1>10 DEF NameSaved, AccountDeleted, PasswordReset
<1>11. ASSUME NEW q \in Requests, HelpSent(q)  PROVE ToldListed'
  <2> SUFFICES ASSUME told'
               PROVE  ToldListed'
    BY DEF ToldListed
  <2>1. UNCHANGED <<server, identity, page, cache>>
    BY <1>11 DEF HelpSent
  <2>2. req[q] # None /\ req[q].form = "help" /\ req[q].served
    BY <1>11 DEF HelpSent, Done
  <2>3. CASE req[q].at = "mounted" /\ cache.owner # Nobody
    <3>1. /\ user # Nobody /\ page = "help" /\ (crossed \/ req[q].bearer = token)
          /\ req[q].bearer \in submitted \/ status[req[q].bearer] = "deleted"
      BY <1>0, <1>11, <2>2, <2>3 DEF Identity, Own, Owned, Accepted, FormPage
    <3>2. list' = FetchList(token)
      BY <1>11, <2>3, <3>1 DEF HelpSent
    <3> QED
      BY <1>2, <1>F, <2>1, <3>1, <3>2 DEF ToldListed
  <2>4. CASE ~(req[q].at = "mounted" /\ cache.owner # Nobody)
    <3>1. told
      BY <1>11, <2>4 DEF HelpSent
    <3>2. list' \in {list, FetchList(token)}
      BY <1>11 DEF HelpSent
    <3> QED
      BY <1>0, <1>1, <1>2, <1>F, <2>1, <3>1, <3>2 DEF ToldListed
  <2> QED
    BY <2>3, <2>4
<1>12. ASSUME NEW q \in Requests, Serve(q)  PROVE ToldListed'
  <2>1. user # Nobody => (user \in submitted \/ status[user] = "deleted" =>
                            user \in submitted' \/ status'[user] = "deleted")
    BY <1>0, <1>12 DEF Serve, ServeSignup, ServeLogin, ServeDisplayName, ServeHelp,
       ServeDelete, ServeInert, Types, Bearers
  <2> QED
    BY <1>0, <1>12, <2>1 DEF Serve, ToldListed
<1>13. ASSUME NEW q \in Requests, Fail(q) \/ Noted(q)  PROVE ToldListed'
  <2>1. UNCHANGED <<server, identity, page, list, told, cache>>
    BY <1>13 DEF Fail, Noted
  <2> QED
    BY <1>0, <2>1 DEF ToldListed
<1>14. ASSUME NEW q \in Requests, NEW f, NEW acct, NEW b, Sent(q, f, acct, b)
       PROVE  ToldListed'
  BY <1>0, <1>14 DEF Sent, ToldListed
<1>15. ASSUME NEW q \in Requests,
              \/ \E f \in SignIn, a \in Accounts : SubmitCredentials(q, f, a)
              \/ SubmitForgot(q) \/ SubmitReset(q) \/ SubmitDisplayName(q)
              \/ SubmitPassword(q) \/ SubmitDelete(q) \/ SubmitHelp(q)
       PROVE  ToldListed'
  BY <1>14, <1>15 DEF SubmitCredentials, SubmitForgot, SubmitReset, SubmitDisplayName,
     SubmitPassword, SubmitDelete, SubmitHelp
<1>16. ASSUME NEW a, OtherTabWrites(a)  PROVE ToldListed'
  BY <1>0, <1>16 DEF OtherTabWrites, ToldListed
<1>17. ASSUME ListServed  PROVE ToldListed'
  <2>1. list # None /\ list \in [bearer : Bearers, rows : {None, "has", "lacks"}]
    BY <1>0, <1>17 DEF ListServed, Types
  <2>2. /\ list'.bearer = list.bearer
        /\ list.bearer \in submitted => list'.rows = "has"
        /\ list' \in [bearer : Bearers, rows : {None, "has", "lacks"}]
        /\ status[list.bearer] = "active"
    BY <1>17, <2>1 DEF ListServed, Authorized
  <2>3. list' # None
    BY <2>2, NoneAssumption DEF Bearers
  <2> QED
    BY <1>0, <1>17, <2>1, <2>2, <2>3 DEF ListServed, ToldListed
<1>18. ASSUME ListArrives \/ ListFails \/ Refocus  PROVE ToldListed'
  <2>1. CASE ListArrives
    <3>1. list # None /\ list.rows \in {"has", "lacks"} /\ list' = None
      BY <1>0, <2>1 DEF ListArrives, Types
    <3> QED
      BY <1>0, <2>1, <3>1 DEF ListArrives, ToldListed
  <2>2. CASE ListFails \/ Refocus
    <3>1. UNCHANGED <<server, identity, page, cache>> /\ (told' => told)
      BY <2>2 DEF ListFails, Refocus
    <3>2. told' => list' = FetchList(token)
      BY <2>2 DEF ListFails, Refocus
    <3> QED
      BY <1>0, <1>1, <1>2, <1>F, <3>1, <3>2 DEF ToldListed
  <2> QED
    BY <1>18, <2>1, <2>2
<1>19. ASSUME UNCHANGED vars  PROVE ToldListed'
  BY <1>0, <1>19 DEF vars, ToldListed
<1> QED
  BY <1>5, <1>7, <1>8, <1>9, <1>10, <1>11, <1>12, <1>13, <1>15, <1>16, <1>17, <1>18, <1>19
  DEF Next

-----------------------------------------------------------------------------
LEMMA TabInvariant == Spec => []TabInv
<1>1. TabInv /\ [Next]_vars => TabInv'
  BY TypesStep, IdentityStep, AcceptedStep, ToldStep DEF TabInv
<1> QED
  BY <1>1, InitTab, PTL DEF Spec

\* Unless another tab was the last to write the token, the tab shows the account
\* that its requests are made for, whatever answers came to forms it had left.
THEOREM IdentityAlways == Spec => []IdentityMatches
<1>1. TabInv => IdentityMatches
  BY DEF TabInv, Identity
<1> QED
  BY <1>1, TabInvariant, PTL

\* No list without a confirmed submission is shown after it.
THEOREM SubmissionListedAlways == Spec => []SubmissionListed
<1>1. TabInv => SubmissionListed
  BY DEF TabInv, ToldListed, SubmissionListed
<1> QED
  BY <1>1, TabInvariant, PTL
=============================================================================
