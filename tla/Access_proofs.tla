--------------------------- MODULE Access_proofs ---------------------------
(***************************************************************************)
(* Proofs about who gets in: Accounts, SignIn and TwoFactor, for any       *)
(* number of users, browsers, requests and sessions.                       *)
(***************************************************************************)
EXTENDS Accounts, SignIn, TwoFactor, FiniteSetTheorems, SequenceTheorems, TLAPS

-----------------------------------------------------------------------------
(* Users and sessions.  An ended session stays ended because its row is       *)
(* revoked or gone, whatever becomes of the account, and because its number   *)
(* is never given out again.                                                  *)
AccountType == [there : BOOLEAN, active : BOOLEAN, admin : BOOLEAN, pw : 1 .. MaxPasswords]
SessionType == [user : 0 .. MaxUsers, revoked : BOOLEAN]
CookieType == {c \in [user : 0 .. MaxUsers, sid : 0 .. MaxSessions, tag : 0 .. MaxPasswords] :
                   c.user # 0 => c.sid # 0}
Steps == {"none", "signs", "updates", "roles", "revokes", "deletes", "tags"}
RequestType == [pc : Steps, browser : Browsers \cup {0}, me : CookieType,
                uid : 0 .. MaxUsers, sets : AccountChanges]

AccountTypes ==
    /\ account \in [UserIds -> AccountType] /\ nextUser \in Nat \ {0}
    /\ row \in [Sids -> SessionType] /\ nextSid \in Nat \ {0}
    /\ cookie \in [Browsers -> CookieType]
    /\ request \in [AccountRequests -> RequestType]

(* A request under way is about a user and, where it sets a cookie, a browser. *)
RequestsName ==
    \A r \in AccountRequests :
        /\ request[r].pc # "none" => request[r].uid \in UserIds
        /\ request[r].pc \in {"signs", "tags"} => request[r].browser \in Browsers

(* Numbers not given out yet are nobody's.                                     *)
NumbersAhead ==
    /\ \A u \in UserIds : u >= nextUser => ~account[u].there
    /\ \A s \in Sids : s >= nextSid => row[s].user = 0 /\ s \notin ended

(* What was ended has no row of its own any more, or a revoked one.            *)
EndedIsOver == ended \subseteq Sids /\ \A s \in ended : row[s].user = 0 \/ row[s].revoked

AccountInv == AccountTypes /\ RequestsName /\ NumbersAhead /\ EndedIsOver

LEMMA AccountInitially == AccountInit => AccountInv
<1> SUFFICES ASSUME AccountInit PROVE AccountInv
  OBVIOUS
<1>1. EnvUser \in AccountType /\ NoAccount \in AccountType /\ ~NoAccount.there
  BY AccountBounds DEF EnvUser, NoAccount, AccountType
<1>2. NoSession \in SessionType /\ NoSession.user = 0 /\ NoCookie \in CookieType
  BY AccountBounds DEF NoSession, SessionType, NoCookie, CookieType
<1>3. NoRequest \in RequestType /\ NoRequest.pc = "none"
  BY <1>2, AccountBounds DEF NoRequest, RequestType, NoChange, AccountChanges, Steps
<1>4. AccountTypes /\ RequestsName
  BY <1>1, <1>2, <1>3 DEF AccountInit, AccountTypes, RequestsName
<1>5. NumbersAhead
  BY <1>1, <1>2, AccountBounds DEF AccountInit, NumbersAhead, UserIds
<1> QED
  BY <1>4, <1>5 DEF AccountInit, AccountInv, EndedIsOver

(* Revoking sessions ends them, and leaves their rows to whom they belong.     *)
LEMMA RevokedRows ==
    ASSUME AccountTypes, NEW sids \in SUBSET Sids
    PROVE  /\ Revoked(sids) \in [Sids -> SessionType]
           /\ \A s \in Sids : Revoked(sids)[s].user = row[s].user
           /\ \A s \in sids : Revoked(sids)[s].revoked
           /\ \A s \in Sids : row[s].revoked => Revoked(sids)[s].revoked
<1>1. \A s \in Sids : [row[s] EXCEPT !.revoked = TRUE] \in SessionType
  BY DEF AccountTypes, SessionType
<1> QED
  BY <1>1 DEF Revoked, AccountTypes, SessionType

(* The end of sessions that somebody has.                                      *)
LEMMA EndingKeeps ==
    ASSUME AccountInv, NEW sids \in SUBSET Sids, \A s \in sids : row[s].user # 0,
           NEW gone \in SUBSET sids,
           row' = Revoked(sids), ended' = ended \cup gone, UNCHANGED <<account, nextUser, nextSid>>,
           cookie' \in [Browsers -> CookieType], request' \in [AccountRequests -> RequestType], RequestsName'
    PROVE  AccountInv'
<1>1. /\ row' \in [Sids -> SessionType] /\ \A s \in Sids : row'[s].user = row[s].user
      /\ \A s \in sids : row'[s].revoked
      /\ \A s \in Sids : row[s].revoked => row'[s].revoked
  BY RevokedRows DEF AccountInv
<1>2. AccountTypes'
  BY <1>1 DEF AccountInv, AccountTypes
<1>3. NumbersAhead'
  BY <1>1 DEF AccountInv, NumbersAhead
<1>4. EndedIsOver'
  BY <1>1 DEF AccountInv, EndedIsOver
<1> QED
  BY <1>2, <1>3, <1>4 DEF AccountInv

(* The actions that change an account.                                         *)
LEMMA AccountChanged ==
    ASSUME AccountTypes, NEW u \in UserIds, NEW a \in AccountType
    PROVE  [account EXCEPT ![u] = a] \in [UserIds -> AccountType]
BY DEF AccountTypes

LEMMA AccountActionsKeep ==
    ASSUME AccountInv,
           \/ \E b \in Browsers, sets \in AccountChanges : AddsUser(b, sets)
           \/ AccountRestart
    PROVE  AccountInv'
<1>1. EnvUser \in AccountType
  BY AccountBounds DEF EnvUser, AccountType
<1>2. CASE \E b \in Browsers, sets \in AccountChanges : AddsUser(b, sets)
  <2>1. PICK b \in Browsers, sets \in AccountChanges : AddsUser(b, sets)
    BY <1>2
  <2>2. [EnvUser EXCEPT !.admin = sets.admin] \in AccountType
    BY <1>1, <2>1 DEF AccountChanges, AccountType
  <2>3. AccountTypes'
    BY <2>1, <2>2 DEF AddsUser, AccountInv, AccountTypes, UserIds
  <2>4. NumbersAhead'
    BY <2>1, <2>2 DEF AddsUser, AccountInv, AccountTypes, NumbersAhead, UserIds
  <2> QED
    BY <2>1, <2>3, <2>4 DEF AddsUser, AccountInv, RequestsName, EndedIsOver
<1>3. CASE AccountRestart
  <2>1. NoRequest \in RequestType /\ NoRequest.pc = "none"
    BY AccountBounds DEF NoRequest, RequestType, NoCookie, CookieType, NoChange, AccountChanges, Steps
  <2>2. AccountTypes' /\ RequestsName'
    BY <1>1, <1>3, <2>1 DEF AccountRestart, AccountInv, AccountTypes, RequestsName, UserIds
  <2>3. NumbersAhead'
    <3>1. CASE UNCHANGED <<account, nextUser>>
      BY <1>3, <3>1 DEF AccountRestart, AccountInv, NumbersAhead
    <3>2. CASE nextUser \in UserIds /\ account' = [account EXCEPT ![nextUser] = EnvUser] /\ nextUser' = nextUser + 1
      BY <1>3, <3>2 DEF AccountRestart, AccountInv, AccountTypes, NumbersAhead, UserIds
    <3> QED
      BY <1>3, <3>1, <3>2 DEF AccountRestart
  <2> QED
    BY <1>3, <2>2, <2>3 DEF AccountRestart, AccountInv, EndedIsOver
<1> QED
  BY <1>2, <1>3

(* What is done without a request: cookies that are cleared, sessions ended.   *)
LEMMA BrowserActionsKeep ==
    ASSUME AccountInv, NEW b \in Browsers,
           \/ ClearsCookie(b) \/ TimesOut(b) \/ Logout(b)
           \/ \E s \in Sids : EndsSession(b, s)
           \/ \E u \in UserIds : SignsOut(b, u)
    PROVE  AccountInv'
<1>1. NoCookie \in CookieType
  BY AccountBounds DEF NoCookie, CookieType
<1>2. CASE ClearsCookie(b)
  BY <1>1, <1>2 DEF ClearsCookie, AccountInv, AccountTypes, RequestsName, NumbersAhead, EndedIsOver
<1>3. cookie' \in [Browsers -> CookieType]
  BY <1>1 DEF ClearsCookie, TimesOut, Logout, EndsSession, SignsOut, AccountInv, AccountTypes
<1>4. SignedIn(b) => cookie[b].sid \in Sids /\ row[cookie[b].sid].user # 0
  BY DEF SignedIn, AccountInv, AccountTypes, CookieType, Sids
<1>5. ASSUME NEW sids \in SUBSET Sids, Closes(sids), \A s \in sids : row[s].user # 0
      PROVE  AccountInv'
  BY <1>3, <1>5, EndingKeeps DEF Closes, AccountInv, AccountTypes, RequestsName
<1>6. CASE TimesOut(b) \/ Logout(b)
  BY <1>4, <1>5, <1>6 DEF TimesOut, Logout
<1>7. CASE \E s \in Sids : EndsSession(b, s)
  BY <1>5, <1>7 DEF EndsSession
<1>8. CASE \E u \in UserIds : SignsOut(b, u)
  <2>1. PICK u \in UserIds : SignsOut(b, u)
    BY <1>8
  <2>2. SessionsOf(u) \ {cookie[b].sid} \in SUBSET Sids /\ u # 0
    BY DEF SessionsOf, UserIds
  <2>3. \A s \in SessionsOf(u) : row[s].user # 0
    BY <2>2 DEF SessionsOf
  <2> QED
    BY <1>5, <2>1, <2>2, <2>3 DEF SignsOut
<1> QED
  BY <1>2, <1>6, <1>7, <1>8

(* A request that begins, or goes on without touching a session.              *)
LEMMA RequestGoes ==
    ASSUME AccountInv, NEW r \in AccountRequests, NEW q \in RequestType,
           q.pc # "none" => q.uid \in UserIds,
           q.pc \in {"signs", "tags"} => q.browser \in Browsers,
           request' = [request EXCEPT ![r] = q]
    PROVE  request' \in [AccountRequests -> RequestType] /\ RequestsName'
BY DEF AccountInv, AccountTypes, RequestsName

LEMMA NoRequestIsTyped ==
    /\ NoRequest \in RequestType /\ NoRequest.pc = "none"
    /\ NoCookie \in CookieType /\ NoChange \in AccountChanges
BY AccountBounds DEF NoRequest, RequestType, NoCookie, CookieType, NoChange, AccountChanges, Steps

LEMMA RequestsBeginKeeps ==
    ASSUME AccountInv, NEW r \in AccountRequests, NEW b \in Browsers, NEW u \in UserIds,
           \/ Verifies(r, b, u) \/ DeletesUser(r, b, u)
           \/ \E sets \in AccountChanges : EditsUser(r, b, u, sets)
    PROVE  AccountInv'
<1>1. PICK q \in RequestType : /\ request' = [request EXCEPT ![r] = q]
                               /\ q.uid = u /\ (q.pc = "signs" => q.browser = b) /\ q.pc # "tags"
  <2>1. u \in 0 .. MaxUsers /\ b \in Browsers \cup {0}
    BY DEF UserIds
  <2>2. CASE Verifies(r, b, u)
    <3>1. [NoRequest EXCEPT !.pc = "signs", !.browser = b, !.uid = u] \in RequestType
      BY <2>1, NoRequestIsTyped DEF RequestType, Steps
    <3> QED
      BY <2>2, <3>1, NoRequestIsTyped DEF Verifies, RequestType
  <2>3. CASE DeletesUser(r, b, u)
    <3>1. [NoRequest EXCEPT !.pc = "deletes", !.uid = u] \in RequestType
      BY <2>1, NoRequestIsTyped DEF RequestType, Steps
    <3> QED
      BY <2>3, <3>1, NoRequestIsTyped DEF DeletesUser, RequestType
  <2>4. CASE \E sets \in AccountChanges : EditsUser(r, b, u, sets)
    <3>1. PICK sets \in AccountChanges : EditsUser(r, b, u, sets)
      BY <2>4
    <3>2. cookie[b] \in CookieType
      BY DEF AccountInv, AccountTypes
    <3>3. [pc |-> "updates", browser |-> b, me |-> cookie[b], uid |-> u, sets |-> sets] \in RequestType
      BY <2>1, <3>2 DEF RequestType, Steps
    <3> QED
      BY <3>1, <3>3 DEF EditsUser
  <2> QED
    BY <2>2, <2>3, <2>4
<1>2. request' \in [AccountRequests -> RequestType] /\ RequestsName'
  BY <1>1, RequestGoes
<1>3. UNCHANGED <<account, nextUser, row, nextSid, cookie, ended>>
  BY DEF Verifies, DeletesUser, EditsUser
<1> QED
  BY <1>2, <1>3 DEF AccountInv, AccountTypes, NumbersAhead, EndedIsOver

LEMMA DoneKeeps ==
    ASSUME AccountInv, NEW r \in AccountRequests, Done(r)
    PROVE  request' \in [AccountRequests -> RequestType] /\ RequestsName'
BY NoRequestIsTyped, RequestGoes DEF Done

LEMMA GoesOnKeeps ==
    ASSUME AccountInv, NEW r \in AccountRequests, NEW pc \in Steps \ {"signs", "tags"},
           request[r].pc # "none", GoesOn(r, pc)
    PROVE  request' \in [AccountRequests -> RequestType] /\ RequestsName'
<1>1. request[r] \in RequestType /\ request[r].uid \in UserIds
  BY DEF AccountInv, AccountTypes, RequestsName
<1>2. [request[r] EXCEPT !.pc = pc] \in RequestType
  BY <1>1 DEF RequestType
<1>3. request' = [request EXCEPT ![r] = [request[r] EXCEPT !.pc = pc]]
  BY DEF GoesOn, AccountInv, AccountTypes
<1> QED
  BY <1>1, <1>2, <1>3, RequestGoes DEF RequestType

(* create_session(): the new session has a number nobody had.                  *)
LEMMA CompletesKeeps ==
    ASSUME AccountInv, NEW r \in AccountRequests, NEW pruned \in SUBSET Sids, Completes(r, pruned)
    PROVE  AccountInv'
<1> DEFINE u == request[r].uid
           b == request[r].browser
<1>1. u \in UserIds /\ b \in Browsers
  BY DEF Completes, AccountInv, RequestsName
<1>2. request' \in [AccountRequests -> RequestType] /\ RequestsName'
  BY DoneKeeps DEF Completes
<1>3. NoSession \in SessionType /\ [NoSession EXCEPT !.user = u] \in SessionType
  <2>1. NoSession \in SessionType
    BY AccountBounds DEF NoSession, SessionType
  <2> QED
    BY <1>1, <2>1 DEF SessionType, UserIds
<1>4. CASE account[u].there
  <2>1. nextSid \in Sids /\ nextSid' = nextSid + 1
        /\ cookie' = [cookie EXCEPT ![b] = [user |-> u, sid |-> nextSid, tag |-> account[u].pw]]
        /\ row' = [s \in Sids |-> IF s = nextSid THEN [NoSession EXCEPT !.user = u]
                                  ELSE IF s \in pruned THEN NoSession ELSE row[s]]
        /\ UNCHANGED <<account, nextUser, ended>>
    BY <1>4 DEF Completes
  <2>2. account[u].pw \in 0 .. MaxPasswords
    BY <1>1, AccountBounds DEF AccountInv, AccountTypes, AccountType
  <2>3. [user |-> u, sid |-> nextSid, tag |-> account[u].pw] \in CookieType
    BY <1>1, <2>1, <2>2 DEF CookieType, UserIds, Sids
  <2>4. AccountTypes'
    <3>1. row' \in [Sids -> SessionType] /\ nextSid' \in Nat \ {0}
      BY <1>3, <2>1 DEF AccountInv, AccountTypes
    <3>2. cookie' \in [Browsers -> CookieType]
      BY <2>1, <2>3 DEF AccountInv, AccountTypes
    <3> QED
      BY <1>2, <2>1, <3>1, <3>2 DEF AccountInv, AccountTypes
  <2>5. NumbersAhead'
    BY <1>3, <2>1 DEF AccountInv, AccountTypes, NumbersAhead, Sids, NoSession
  <2>6. nextSid \notin ended
    BY <2>1 DEF AccountInv, NumbersAhead, AccountTypes, Sids
  <2>7. EndedIsOver'
    BY <2>1, <2>6 DEF AccountInv, EndedIsOver, NoSession
  <2> QED
    BY <1>2, <2>4, <2>5, <2>7 DEF AccountInv
<1>5. CASE ~account[u].there
  BY <1>2, <1>5 DEF Completes, AccountInv, AccountTypes, NumbersAhead, EndedIsOver
<1> QED
  BY <1>4, <1>5

(* The transactions of users_edit().                                           *)
LEMMA EditsKeep ==
    ASSUME AccountInv, NEW r \in AccountRequests, Updates(r) \/ SetsRoles(r)
    PROVE  AccountInv'
<1> DEFINE q == request[r]
           u == request[r].uid
<1>1. u \in UserIds /\ q \in RequestType /\ q.pc # "none" /\ account[u] \in AccountType
      /\ q.sets.active \in BOOLEAN /\ q.sets.admin \in BOOLEAN
  <2>1. u \in UserIds /\ q \in RequestType /\ q.pc # "none"
    BY DEF Updates, SetsRoles, AccountInv, AccountTypes, RequestsName
  <2> QED
    BY <2>1 DEF AccountInv, AccountTypes, RequestType, AccountChanges
<1>2. request' \in [AccountRequests -> RequestType] /\ RequestsName'
  BY <1>1, DoneKeeps, GoesOnKeeps DEF Updates, SetsRoles, Steps
<1>3. UNCHANGED <<nextUser, row, nextSid, cookie, ended>>
  BY DEF Updates, SetsRoles, Promised, RevokesAfter
<1>4. account' \in [UserIds -> AccountType] /\ \A x \in UserIds : account'[x].there = account[x].there
  <2>1. CASE SetsRoles(r)
    <3>1. [account[u] EXCEPT !.admin = q.sets.admin] \in AccountType
      BY <1>1 DEF AccountType
    <3> QED
      BY <1>1, <2>1, <3>1 DEF SetsRoles, AccountInv, AccountTypes
  <2>2. CASE Updates(r)
    <3> DEFINE pw == IF q.sets.pw THEN account[u].pw + 1 ELSE account[u].pw
               new == [account[u] EXCEPT !.active = q.sets.active, !.pw = pw]
    <3>1. pw \in 1 .. MaxPasswords
      BY <1>1, <2>2, AccountBounds DEF Updates, AccountType
    <3>2. new \in AccountType /\ new.there = account[u].there
      BY <1>1, <3>1 DEF AccountType
    <3>3. UNCHANGED account \/ account' = [account EXCEPT ![u] = new]
      BY <1>1, <2>2 DEF Updates, AccountInv, AccountTypes
    <3> QED
      BY <1>1, <3>2, <3>3 DEF AccountInv, AccountTypes
  <2> QED
    BY <2>1, <2>2
<1> QED
  BY <1>2, <1>3, <1>4 DEF AccountInv, AccountTypes, NumbersAhead, EndedIsOver

LEMMA RevokesKeeps ==
    ASSUME AccountInv, NEW r \in AccountRequests, Revokes(r)
    PROVE  AccountInv'
<1> DEFINE q == request[r]
           sids == SessionsOf(q.uid) \ Own(q)
<1>1. request' \in [AccountRequests -> RequestType] /\ RequestsName'
  BY DoneKeeps DEF Revokes
<1>2. sids \in SUBSET Sids /\ \A s \in sids : row[s].user # 0
  BY DEF Revokes, AccountInv, RequestsName, SessionsOf, UserIds
<1>3. row' = Revoked(sids) /\ ended' = ended \cup Promised(q) /\ Promised(q) \subseteq sids
      /\ UNCHANGED <<account, nextUser, nextSid, cookie>>
  BY DEF Revokes, Promised
<1>4. cookie' \in [Browsers -> CookieType]
  BY <1>3 DEF AccountInv, AccountTypes
<1> QED
  BY <1>1, <1>2, <1>3, <1>4, EndingKeeps

LEMMA DeletesRowsKeeps ==
    ASSUME AccountInv, NEW r \in AccountRequests, DeletesRows(r)
    PROVE  AccountInv'
<1> DEFINE u == request[r].uid
<1>1. request' \in [AccountRequests -> RequestType] /\ RequestsName' /\ u \in UserIds
  BY DoneKeeps DEF DeletesRows, AccountInv, RequestsName
<1>2. NoAccount \in AccountType /\ ~NoAccount.there /\ NoSession \in SessionType /\ NoSession.user = 0
  BY AccountBounds DEF NoAccount, AccountType, NoSession, SessionType
<1>3. /\ account' = [account EXCEPT ![u] = NoAccount]
      /\ row' = [s \in Sids |-> IF row[s].user = u THEN NoSession ELSE row[s]]
      /\ ended' = ended \cup SessionsOf(u)
      /\ UNCHANGED <<nextUser, nextSid, cookie>>
  BY DEF DeletesRows
<1>4. AccountTypes'
  BY <1>1, <1>2, <1>3 DEF AccountInv, AccountTypes
<1>5. NumbersAhead'
  BY <1>1, <1>2, <1>3 DEF AccountInv, AccountTypes, NumbersAhead, SessionsOf, UserIds
<1>6. EndedIsOver'
  BY <1>2, <1>3 DEF AccountInv, EndedIsOver, SessionsOf
<1> QED
  BY <1>1, <1>4, <1>5, <1>6 DEF AccountInv

(* users_profile().                                                            *)
LEMMA ChangesPasswordKeeps ==
    ASSUME AccountInv, NEW r \in AccountRequests, NEW b \in Browsers, ChangesPassword(r, b)
    PROVE  AccountInv'
<1> DEFINE u == cookie[b].user
           q == [pc |-> "tags", browser |-> b, me |-> cookie[b], uid |-> u, sets |-> NoChange]
<1>1. cookie[b] \in CookieType /\ u \in UserIds /\ account[u] \in AccountType
  BY DEF ChangesPassword, SignedIn, AccountInv, AccountTypes, CookieType, UserIds
<1>2. q \in RequestType /\ q.pc = "tags" /\ q.uid \in UserIds /\ q.browser = b
  BY <1>1, NoRequestIsTyped DEF RequestType, Steps, UserIds
<1>3. request' \in [AccountRequests -> RequestType] /\ RequestsName'
  BY <1>2, RequestGoes DEF ChangesPassword
<1>4. [account[u] EXCEPT !.pw = @ + 1] \in AccountType
  BY <1>1, AccountBounds DEF ChangesPassword, AccountType
<1>5. account' = [account EXCEPT ![u] = [account[u] EXCEPT !.pw = @ + 1]]
      /\ UNCHANGED <<nextUser, row, nextSid, cookie, ended>>
  BY <1>1 DEF ChangesPassword, AccountInv, AccountTypes
<1>6. AccountTypes' /\ NumbersAhead'
  BY <1>1, <1>3, <1>4, <1>5 DEF AccountInv, AccountTypes, NumbersAhead
<1> QED
  BY <1>3, <1>5, <1>6 DEF AccountInv, EndedIsOver

LEMMA TagsKeeps ==
    ASSUME AccountInv, NEW r \in AccountRequests, Tags(r)
    PROVE  AccountInv'
<1> DEFINE q == request[r]
           sids == SessionsOf(q.uid) \ {q.me.sid}
<1>1. request' \in [AccountRequests -> RequestType] /\ RequestsName'
      /\ q \in RequestType /\ q.uid \in UserIds /\ q.browser \in Browsers
  BY DoneKeeps DEF Tags, AccountInv, AccountTypes, RequestsName
<1>2. CASE account[q.uid].there
  <2>1. account[q.uid].pw \in 0 .. MaxPasswords
    BY <1>1, AccountBounds DEF AccountInv, AccountTypes, AccountType
  <2>2. [q.me EXCEPT !.tag = account[q.uid].pw] \in CookieType
    BY <1>1, <2>1 DEF RequestType, CookieType
  <2>3. cookie' \in [Browsers -> CookieType]
    BY <1>1, <1>2, <2>2 DEF Tags, AccountInv, AccountTypes
  <2>4. sids \in SUBSET Sids /\ \A s \in sids : row[s].user # 0
    BY <1>1 DEF SessionsOf, UserIds
  <2>5. row' = Revoked(sids) /\ ended' = ended \cup sids /\ UNCHANGED <<account, nextUser, nextSid>>
    BY <1>2 DEF Tags
  <2> QED
    BY <1>1, <2>3, <2>4, <2>5, EndingKeeps
<1>3. CASE ~account[q.uid].there
  BY <1>1, <1>3 DEF Tags, AccountInv, AccountTypes, NumbersAhead, EndedIsOver
<1> QED
  BY <1>2, <1>3

LEMMA AccountInductive == AccountInv /\ [AccountNext]_accountVars => AccountInv'
<1> SUFFICES ASSUME AccountInv, [AccountNext]_accountVars PROVE AccountInv'
  OBVIOUS
<1>1. CASE UNCHANGED accountVars
  BY <1>1 DEF accountVars, AccountInv, AccountTypes, RequestsName, NumbersAhead, EndedIsOver
<1>2. CASE \E r \in AccountRequests : RequestStep(r)
  BY <1>2, CompletesKeeps, EditsKeep, RevokesKeeps, DeletesRowsKeeps, TagsKeeps, ChangesPasswordKeeps,
     RequestsBeginKeeps DEF RequestStep
<1>3. CASE \E b \in Browsers :
             \/ ClearsCookie(b) \/ TimesOut(b) \/ Logout(b)
             \/ \E s \in Sids : EndsSession(b, s)
             \/ \E u \in UserIds : SignsOut(b, u)
  BY <1>3, BrowserActionsKeep
<1> QED
  BY <1>1, <1>2, <1>3, AccountActionsKeep DEF AccountNext

(* Every reachable state has the declared type, and numbers of users and       *)
(* sessions that were not given out yet belong to nobody (user_management.py,  *)
(* account_security.py).                                                       *)
THEOREM AccountsTypeCorrect == AccountSpec => []AccountTypeOK
<1>1. AccountInv => AccountTypeOK
  <2> SUFFICES ASSUME AccountInv PROVE AccountTypeOK
    OBVIOUS
  <2>1. cookie \in [Browsers -> [user : 0 .. MaxUsers, sid : 0 .. MaxSessions, tag : 0 .. MaxPasswords]]
    BY DEF AccountInv, AccountTypes, CookieType
  <2>2. \A r \in AccountRequests : request[r].pc \in Steps
    BY DEF AccountInv, AccountTypes, RequestType
  <2> QED
    BY <2>1, <2>2 DEF AccountTypeOK, AccountInv, AccountTypes, AccountType, SessionType, NumbersAhead, Steps
<1> QED
  BY <1>1, AccountInitially, AccountInductive, PTL DEF AccountSpec

(* A session that was ended never works again, whatever becomes of its account *)
(* and whichever requests were under way (account_security.py).                *)
THEOREM SessionsStayEnded == AccountSpec => []EndedStaysEnded
<1>1. AccountInv => EndedStaysEnded
  BY DEF AccountInv, AccountTypes, EndedIsOver, EndedStaysEnded, SignedIn, SessionType
<1> QED
  BY <1>1, AccountInitially, AccountInductive, PTL DEF AccountSpec

-----------------------------------------------------------------------------
(* The last administrator.  An edit or a deletion that takes the role away has *)
(* seen another administrator, and while it is the only one under way nothing  *)
(* takes that one away.                                                        *)
TakesAway(q) == \/ q.pc \in {"updates", "roles"} /\ TakesAwayAdmin(q.sets)
                \/ q.pc = "deletes"

EditsSeeAnother ==
    \A r \in AccountRequests, u \in UserIds :
        TakesAway(request[r]) /\ request[r].uid = u => OtherActiveAdmins(u) # {}

OnlyEditorsEdit ==
    \A r \in AccountRequests : request[r].pc \in {"updates", "roles", "deletes"} => r \in Editors

AdminInv == AccountInv /\ SomeAdminLeft /\ EditsSeeAnother /\ OnlyEditorsEdit

LEMMA AdminInitially == AccountInit => AdminInv
<1> SUFFICES ASSUME AccountInit PROVE AdminInv
  OBVIOUS
<1>1. 1 \in UserIds
  BY AccountBounds DEF UserIds
<1>2. SomeAdminLeft
  BY <1>1 DEF AccountInit, SomeAdminLeft, ActiveAdmin, EnvUser
<1>3. EditsSeeAnother /\ OnlyEditorsEdit
  BY DEF AccountInit, EditsSeeAnother, OnlyEditorsEdit, TakesAway, NoRequest
<1> QED
  BY <1>2, <1>3, AccountInitially DEF AdminInv

(* A step that takes no administrator away, and begins no edit.                *)
LEMMA AdminsRemain ==
    ASSUME AdminInv, AccountInv',
           \A u \in UserIds : ActiveAdmin(u) => ActiveAdmin(u)',
           \A r \in AccountRequests : \/ request'[r] = request[r]
                                     \/ request'[r].pc \notin {"updates", "roles", "deletes"}
    PROVE  AdminInv'
<1>1. \A v \in UserIds : OtherActiveAdmins(v) # {} => OtherActiveAdmins(v)' # {}
  BY DEF OtherActiveAdmins
<1>2. SomeAdminLeft'
  BY DEF AdminInv, SomeAdminLeft
<1>3. EditsSeeAnother'
  <2> SUFFICES ASSUME NEW r \in AccountRequests, NEW u \in UserIds, TakesAway(request'[r]), request'[r].uid = u
               PROVE  OtherActiveAdmins(u)' # {}
    BY DEF EditsSeeAnother
  <2>1. request'[r] = request[r]
    BY DEF TakesAway
  <2> QED
    BY <1>1, <2>1 DEF AdminInv, EditsSeeAnother
<1>4. OnlyEditorsEdit'
  BY DEF AdminInv, OnlyEditorsEdit
<1> QED
  BY <1>2, <1>3, <1>4 DEF AdminInv

(* users_edit() and users_delete() begin.                                      *)
LEMMA EditBegins ==
    ASSUME AdminInv, AccountInv', NEW r \in AccountRequests, NEW b \in Browsers, NEW u \in UserIds,
           DeletesUser(r, b, u) \/ \E sets \in AccountChanges : EditsUser(r, b, u, sets)
    PROVE  AdminInv'
<1>1. account' = account /\ r \in Editors /\ \A x \in AccountRequests \ {r} : request'[x] = request[x]
  BY DEF DeletesUser, EditsUser, AdminInv, AccountInv, AccountTypes
<1>2. request'[r].uid = u /\ (TakesAway(request'[r]) => OtherActiveAdmins(u) # {})
  <2>1. PICK v \in UserIds : ActiveAdmin(v)
    BY DEF AdminInv, SomeAdminLeft
  <2>2. ~ActiveAdmin(u) => OtherActiveAdmins(u) # {}
    BY <2>1 DEF OtherActiveAdmins
  <2>3. CASE DeletesUser(r, b, u)
    BY <2>2, <2>3, NoRequestIsTyped DEF DeletesUser, AdminInv, AccountInv, AccountTypes, RequestType
  <2>4. CASE \E sets \in AccountChanges : EditsUser(r, b, u, sets)
    BY <2>2, <2>4 DEF EditsUser, AdminInv, AccountInv, AccountTypes, TakesAway
  <2> QED
    BY <2>3, <2>4
<1>3. \A v \in UserIds : OtherActiveAdmins(v)' = OtherActiveAdmins(v)
  BY <1>1 DEF OtherActiveAdmins, ActiveAdmin
<1>4. EditsSeeAnother'
  <2> SUFFICES ASSUME NEW x \in AccountRequests, NEW v \in UserIds, TakesAway(request'[x]), request'[x].uid = v
               PROVE  OtherActiveAdmins(v)' # {}
    BY DEF EditsSeeAnother
  <2>1. CASE x = r
    BY <1>2, <1>3, <2>1
  <2>2. CASE x # r
    BY <1>1, <1>3, <2>2 DEF AdminInv, EditsSeeAnother
  <2> QED
    BY <2>1, <2>2
<1>5. SomeAdminLeft' /\ OnlyEditorsEdit'
  BY <1>1 DEF AdminInv, SomeAdminLeft, ActiveAdmin, OnlyEditorsEdit
<1> QED
  BY <1>4, <1>5 DEF AdminInv

(* A step of the one edit under way: it changes its own user only, ...         *)
LEMMA EditGoesOn ==
    ASSUME AdminInv, AccountInv', NEW r \in AccountRequests, NEW u \in UserIds, request[r].uid = u,
           request[r].pc \in {"updates", "roles", "deletes"},
           \A x, y \in Editors : x = y,
           Updates(r) \/ SetsRoles(r) \/ DeletesRows(r)
    PROVE  AdminInv'
<1> DEFINE q == request[r]
<1>1. q \in RequestType /\ account \in [UserIds -> AccountType]
      /\ q.sets.active \in BOOLEAN /\ q.sets.admin \in BOOLEAN
  <2>1. q \in RequestType /\ account \in [UserIds -> AccountType]
    BY DEF AdminInv, AccountInv, AccountTypes, RequestsName
  <2> QED
    BY <2>1 DEF RequestType, AccountChanges
<1>2. \A v \in UserIds \ {u} : account'[v] = account[v]
  BY <1>1 DEF Updates, SetsRoles, DeletesRows
<1>3. \A x \in AccountRequests \ {r} : request'[x] = request[x] /\ ~TakesAway(request[x])
  <2>1. \A x \in AccountRequests \ {r} : request'[x] = request[x]
    BY DEF Updates, SetsRoles, DeletesRows, Done, GoesOn, AdminInv, AccountInv, AccountTypes
  <2> QED
    BY <2>1 DEF AdminInv, OnlyEditorsEdit, TakesAway
<1>4. r \in Editors
  BY DEF AdminInv, OnlyEditorsEdit
<1>5. OnlyEditorsEdit'
  BY <1>3, <1>4 DEF AdminInv, OnlyEditorsEdit
<1>6. request'[r].pc \in {"updates", "roles", "deletes"} => request'[r].sets = q.sets /\ request'[r].uid = u
                                                          /\ request'[r].pc = "roles" /\ q.pc = "updates"
  BY <1>1, NoRequestIsTyped DEF Updates, SetsRoles, DeletesRows, Done, GoesOn, AdminInv, AccountInv, AccountTypes, RequestType
(* ... and either leaves it an administrator, if it was one, ...               *)
<1>7. CASE ~TakesAway(q)
  <2>1. ActiveAdmin(u) => ActiveAdmin(u)'
    BY <1>1, <1>7
    DEF TakesAway, TakesAwayAdmin, ActiveAdmin, Updates, SetsRoles, DeletesRows, AccountType
  <2>2. \A v \in UserIds : ActiveAdmin(v) => ActiveAdmin(v)'
    BY <1>2, <2>1 DEF ActiveAdmin
  <2>3. SomeAdminLeft'
    BY <2>2 DEF AdminInv, SomeAdminLeft
  <2>4. EditsSeeAnother'
    BY <1>3, <1>6, <1>7 DEF EditsSeeAnother, TakesAway
  <2> QED
    BY <1>5, <2>3, <2>4 DEF AdminInv
(* ... or leaves the administrator that it saw.                                *)
<1>8. CASE TakesAway(q)
  <2>1. OtherActiveAdmins(u) # {} /\ OtherActiveAdmins(u)' = OtherActiveAdmins(u)
    BY <1>1, <1>2, <1>8 DEF AdminInv, EditsSeeAnother, OtherActiveAdmins, ActiveAdmin
  <2>2. SomeAdminLeft'
    BY <2>1 DEF SomeAdminLeft, OtherActiveAdmins
  <2>3. EditsSeeAnother'
    BY <1>3, <1>6, <2>1 DEF EditsSeeAnother, TakesAway
  <2> QED
    BY <1>5, <2>2, <2>3 DEF AdminInv
<1> QED
  BY <1>7, <1>8

LEMMA AdminInductive ==
    ASSUME \A x, y \in Editors : x = y
    PROVE  AdminInv /\ [AccountNext]_accountVars => AdminInv'
<1> SUFFICES ASSUME AdminInv, [AccountNext]_accountVars PROVE AdminInv'
  OBVIOUS
<1>1. AccountInv'
  BY AccountInductive DEF AdminInv
<1>2. CASE UNCHANGED <<account, request>>
  BY <1>1, <1>2, AdminsRemain DEF ActiveAdmin
<1>3. CASE \E b \in Browsers, sets \in AccountChanges : AddsUser(b, sets)
  <2>1. PICK b \in Browsers, sets \in AccountChanges : AddsUser(b, sets)
    BY <1>3
  <2>2. ~account[nextUser].there /\ request' = request
    BY <2>1 DEF AddsUser, AdminInv, AccountInv, AccountTypes, NumbersAhead, UserIds
  <2>3. \A u \in UserIds : ActiveAdmin(u) => ActiveAdmin(u)'
    BY <2>1, <2>2 DEF AddsUser, ActiveAdmin, AdminInv, AccountInv, AccountTypes
  <2> QED
    BY <1>1, <2>2, <2>3, AdminsRemain
<1>4. CASE AccountRestart
  <2>1. \A r \in AccountRequests : request'[r].pc = "none"
    BY <1>4 DEF AccountRestart, NoRequest
  <2>2. UNCHANGED account \/ account' = [account EXCEPT ![nextUser] = EnvUser]
    BY <1>4 DEF AccountRestart
  <2>3. \A u \in UserIds : ActiveAdmin(u) => ActiveAdmin(u)'
    BY <2>2 DEF ActiveAdmin, AdminInv, AccountInv, AccountTypes, EnvUser
  <2> QED
    BY <1>1, <2>1, <2>3, AdminsRemain
<1>5. ASSUME NEW r \in AccountRequests, RequestStep(r) PROVE AdminInv'
  <2>1. CASE Updates(r) \/ SetsRoles(r) \/ DeletesRows(r)
    <3>1. request[r].pc \in {"updates", "roles", "deletes"} /\ request[r].uid \in UserIds
      BY <2>1 DEF Updates, SetsRoles, DeletesRows, AdminInv, AccountInv, RequestsName
    <3> QED
      BY <1>1, <2>1, <3>1, EditGoesOn
  <2>2. ASSUME NEW b \in Browsers, NEW u \in UserIds,
               DeletesUser(r, b, u) \/ \E sets \in AccountChanges : EditsUser(r, b, u, sets)
        PROVE  AdminInv'
    BY <1>1, <2>2, EditBegins
  <2>3. ASSUME \/ \E pruned \in SUBSET Sids : Completes(r, pruned)
               \/ Revokes(r) \/ Tags(r)
               \/ \E b \in Browsers : ChangesPassword(r, b) \/ \E u \in UserIds : Verifies(r, b, u)
        PROVE  AdminInv'
    <3>1. UNCHANGED account \/ \E b \in Browsers : ChangesPassword(r, b)
      BY <2>3 DEF Completes, Revokes, Tags, Verifies
    <3>2. \A u \in UserIds : ActiveAdmin(u) => ActiveAdmin(u)'
      <4>1. CASE \E b \in Browsers : ChangesPassword(r, b)
        <5>1. PICK b \in Browsers : ChangesPassword(r, b)
          BY <4>1
        <5>2. account' = [account EXCEPT ![cookie[b].user].pw = @ + 1]
          BY <5>1 DEF ChangesPassword
        <5> QED
          BY <5>2 DEF ActiveAdmin, AdminInv, AccountInv, AccountTypes, AccountType
      <4> QED
        BY <3>1, <4>1 DEF ActiveAdmin
    <3>3. PICK q : request' = [request EXCEPT ![r] = q] /\ q.pc \notin {"updates", "roles", "deletes"}
      <4>1. CASE Revokes(r) \/ Tags(r) \/ \E pruned \in SUBSET Sids : Completes(r, pruned)
        BY <4>1, NoRequestIsTyped DEF Completes, Revokes, Tags, Done
      <4>2. CASE \E b \in Browsers : ChangesPassword(r, b)
        BY <4>2 DEF ChangesPassword
      <4>3. CASE \E b \in Browsers, u \in UserIds : Verifies(r, b, u)
        <5>1. PICK b \in Browsers, u \in UserIds : Verifies(r, b, u)
          BY <4>3
        <5>2. [NoRequest EXCEPT !.pc = "signs", !.browser = b, !.uid = u].pc = "signs"
          BY DEF NoRequest
        <5> QED
          BY <5>1, <5>2 DEF Verifies
      <4> QED
        BY <2>3, <4>1, <4>2, <4>3
    <3>4. \A x \in AccountRequests : \/ request'[x] = request[x]
                                     \/ request'[x].pc \notin {"updates", "roles", "deletes"}
      BY <3>3 DEF AdminInv, AccountInv, AccountTypes
    <3> QED
      BY <1>1, <3>2, <3>4, AdminsRemain
  <2> QED
    BY <1>5, <2>1, <2>2, <2>3 DEF RequestStep
<1> QED
  BY <1>2, <1>3, <1>4, <1>5
  DEF AccountNext, accountVars, ClearsCookie, TimesOut, Logout, EndsSession, SignsOut, Closes

(* While accounts are edited and deleted by one request at a time, an active   *)
(* administrator remains at every moment, whoever else signs in, changes a     *)
(* password or adds users meanwhile, and wherever the process stops            *)
(* (users_edit() and users_delete() in app.py).                                *)
THEOREM AnAdminIsLeft ==
    ASSUME \A x, y \in Editors : x = y
    PROVE  AccountSpec => []SomeAdminLeft
<1>1. AdminInv => SomeAdminLeft
  BY DEF AdminInv
<1> QED
  BY <1>1, AdminInitially, AdminInductive, PTL DEF AccountSpec

-----------------------------------------------------------------------------
(* Lists of failed sign-ins.  A list that reaches its limit was reported when *)
(* it did, whether or not its entries still count: what is in the window is    *)
(* never more than the list, and a list only grows one entry at a time.        *)
ListsAreTyped ==
    /\ attempts \in [ListKeys -> Seq(Nat)] /\ userLimit \in UserLimits
    /\ lowered \subseteq UserNames

LongIsReported == \A k \in ListKeys : Len(attempts[k]) >= Limit(k) => k \in reported \cup lowered

LockInv == ListsAreTyped /\ LongIsReported

LEMMA LimitsAreNumbers ==
    ASSUME ListsAreTyped, NEW k \in ListKeys
    PROVE  Limit(k) \in Nat \ {0} /\ Window(k) \in Nat \ {0}
BY SignInBounds DEF ListsAreTyped, Limit, Window

LEMMA RecentIsShorter ==
    ASSUME ListsAreTyped, NEW k \in ListKeys
    PROVE  Recent(k) \in Seq(Nat) /\ Len(Recent(k)) <= Len(attempts[k])
<1> DEFINE s == attempts[k]
           old == {i \in DOMAIN s : s[i] >= Window(k)}
<1>1. s \in Seq(Nat) /\ Len(s) \in Nat /\ DOMAIN s = 1 .. Len(s)
  BY LenProperties DEF ListsAreTyped
<1>2. RunOut(k) \in Nat
  <2>1. IsFiniteSet(1 .. Len(s))
    BY <1>1, FS_Interval
  <2>2. IsFiniteSet(old)
    BY <1>1, <2>1, FS_Subset
  <2> QED
    BY <2>2, FS_CardinalityType DEF RunOut
<1>3. \A i \in RunOut(k) + 1 .. Len(s) : s[i] \in Nat
  BY <1>1, <1>2, ElementOfSeq
<1> HIDE DEF s
<1>4. /\ SubSeq(s, RunOut(k) + 1, Len(s)) \in Seq(Nat)
      /\ Len(SubSeq(s, RunOut(k) + 1, Len(s)))
         = IF RunOut(k) + 1 <= Len(s) THEN Len(s) - (RunOut(k) + 1) + 1 ELSE 0
  BY <1>1, <1>2, <1>3, SubSeqProperties
<1> QED
  BY <1>1, <1>2, <1>4 DEF Recent, s

(* Lists that are cut, cleared or left are no longer than before.              *)
LEMMA ShorterListsKeepLocks ==
    ASSUME LockInv, NEW lists \in [ListKeys -> Seq(Nat)], Keeps(lists), UNCHANGED userLimit,
           \A k \in ListKeys : Len(lists[k]) <= Len(attempts[k])
    PROVE  LockInv'
<1>1. \A k \in ListKeys : Limit(k)' = Limit(k) /\ Limit(k) \in Nat
  BY LimitsAreNumbers DEF LockInv, Limit
<1>2. \A k \in ListKeys : Len(lists[k]) \in Nat /\ Len(attempts[k]) \in Nat
  BY LenProperties DEF LockInv, ListsAreTyped
<1>3. ListsAreTyped'
  BY DEF LockInv, ListsAreTyped, Keeps
<1>4. ASSUME NEW k \in ListKeys, Len(lists[k]) >= Limit(k)
      PROVE  k \in (reported \cup lowered)'
  <2>1. Len(attempts[k]) >= Limit(k)
    BY <1>1, <1>2, <1>4
  <2>2. k \notin Below(lists)
    BY <1>1, <1>2, <1>4 DEF Below
  <2> QED
    BY <2>1, <2>2 DEF LockInv, LongIsReported, Keeps
<1> QED
  BY <1>1, <1>3, <1>4 DEF LockInv, LongIsReported, Keeps

LEMMA TestKeepsLocks ==
    ASSUME LockInv, NEW ip, NEW u, Keeps(Cut(ip, u)), UNCHANGED userLimit
    PROVE  LockInv'
<1>1. \A k \in ListKeys : /\ Recent(k) \in Seq(Nat) /\ Len(Recent(k)) <= Len(attempts[k])
                          /\ attempts[k] \in Seq(Nat) /\ Len(attempts[k]) \in Nat
  BY RecentIsShorter, LenProperties DEF LockInv, ListsAreTyped
<1>2. Cut(ip, u) \in [ListKeys -> Seq(Nat)] /\ \A k \in ListKeys : Len(Cut(ip, u)[k]) <= Len(attempts[k])
  BY <1>1 DEF Cut
<1> HIDE DEF Cut
<1> QED
  BY <1>2, ShorterListsKeepLocks

LEMMA ClearingKeepsLocks ==
    ASSUME LockInv, NEW ip, NEW u, Keeps(Cleared(ip, u)), UNCHANGED userLimit
    PROVE  LockInv'
<1>1. <<>> \in Seq(Nat) /\ Len(<<>>) = 0
  BY EmptySeq
<1>2. \A k \in ListKeys : attempts[k] \in Seq(Nat) /\ Len(attempts[k]) \in Nat
  BY LenProperties DEF LockInv, ListsAreTyped
<1>3. /\ Cleared(ip, u) \in [ListKeys -> Seq(Nat)]
      /\ \A k \in ListKeys : Len(Cleared(ip, u)[k]) <= Len(attempts[k])
  BY <1>1, <1>2 DEF Cleared
<1> QED
  BY <1>3, ShorterListsKeepLocks

(* A failure adds one entry, and reports the list that this makes full.        *)
LEMMA FailureKeepsLocks ==
    ASSUME LockInv, NEW c \in Clients, Fails(c)
    PROVE  LockInv'
<1> DEFINE ip == attempt[c].ip
           u == attempt[c].user
           lists == Recorded(ip, u)
<1>1. \A k \in ListKeys : Limit(k)' = Limit(k) /\ Limit(k) \in Nat \ {0}
  BY LimitsAreNumbers DEF LockInv, Limit, Fails
<1>2. <<>> \in Seq(Nat) /\ Len(<<>>) = 0
  BY EmptySeq
<1>3. \A k \in ListKeys : attempts[k] \in Seq(Nat) /\ Len(attempts[k]) \in Nat
  BY LenProperties DEF LockInv, ListsAreTyped
<1>4. \A k \in ListKeys : AttemptsKept[k] \in Seq(Nat) /\ Len(AttemptsKept[k]) \in Nat /\ Len(AttemptsKept[k]) <= Len(attempts[k])
  BY <1>2, <1>3 DEF AttemptsKept
<1>5. \A k \in ListKeys : /\ Append(AttemptsKept[k], 0) \in Seq(Nat)
                          /\ Len(Append(AttemptsKept[k], 0)) = Len(AttemptsKept[k]) + 1
  BY <1>4, AppendProperties, 0 \in Nat
<1>6. /\ lists \in [ListKeys -> Seq(Nat)]
      /\ \A k \in ListKeys : Len(lists[k]) = IF k \in {ip, u} THEN Len(AttemptsKept[k]) + 1 ELSE Len(AttemptsKept[k])
  BY <1>4, <1>5 DEF Recorded
<1>7. /\ attempts' = lists /\ userLimit' = userLimit
      /\ reported' = (reported \ Below(lists)) \cup Reports(lists, ip, u)
      /\ lowered' = lowered \ Below(lists)
  BY DEF Fails
<1> HIDE DEF lists, ip, u
<1>8. ListsAreTyped'
  BY <1>6, <1>7 DEF LockInv, ListsAreTyped
<1>9. ASSUME NEW k \in ListKeys, Len(lists[k]) >= Limit(k)
      PROVE  k \in reported' \cup lowered'
  <2>1. k \notin Below(lists)
    BY <1>1, <1>4, <1>6, <1>9 DEF Below
  <2>2. CASE k \in Reports(lists, ip, u)
    BY <1>7, <2>2
  <2>3. CASE k \notin Reports(lists, ip, u)
    <3>1. Len(attempts[k]) >= Limit(k)
      BY <1>1, <1>3, <1>4, <1>6, <1>9, <2>3 DEF Reports
    <3> QED
      BY <1>7, <2>1, <3>1 DEF LockInv, LongIsReported
  <2> QED
    BY <2>2, <2>3
<1> QED
  BY <1>1, <1>7, <1>8, <1>9 DEF LockInv, LongIsReported

LEMMA NewLimitKeepsLocks ==
    ASSUME LockInv, NEW n \in UserLimits, LimitSet(n)
    PROVE  LockInv'
<1> DEFINE above == {k \in UserNames : Len(attempts[k]) >= n}
<1>1. \A k \in ListKeys : Len(attempts[k]) \in Nat
  BY LenProperties DEF LockInv, ListsAreTyped
<1>2. n \in Nat /\ userLimit \in Nat
  BY SignInBounds DEF LockInv, ListsAreTyped
<1>3. ListsAreTyped'
  BY DEF LockInv, ListsAreTyped, LimitSet
<1>4. ASSUME NEW k \in ListKeys, Len(attempts[k]) >= Limit(k)'
      PROVE  k \in reported' \cup lowered'
  <2>1. CASE k \in Addresses
    <3>1. k \in reported \cup lowered
      BY <1>4, <2>1 DEF LockInv, LongIsReported, Limit
    <3>2. k \in reported
      BY <2>1, <3>1, SignInBounds DEF LockInv, ListsAreTyped
    <3> QED
      BY <2>1, <3>2 DEF LimitSet
  <2>2. CASE k \notin Addresses
    <3>1. k \in above
      BY <1>4, <2>2 DEF Limit, LimitSet, ListKeys
    <3>2. CASE n < userLimit
      BY <3>1, <3>2 DEF LimitSet
    <3>3. CASE n >= userLimit
      <4>1. Len(attempts[k]) >= Limit(k)
        BY <1>1, <1>2, <2>2, <3>1, <3>3 DEF Limit, ListKeys
      <4>2. k \in reported \cup lowered
        BY <4>1 DEF LockInv, LongIsReported
      <4>3. lowered' = lowered \cap above
        BY <1>2, <3>3 DEF LimitSet
      <4> QED
        BY <3>1, <4>2, <4>3 DEF LimitSet
    <3> QED
      BY <1>2, <3>2, <3>3
  <2> QED
    BY <2>1, <2>2
<1> QED
  BY <1>3, <1>4 DEF LockInv, LongIsReported, LimitSet

LEMMA MinuteKeepsLocks ==
    ASSUME LockInv, MinutePasses
    PROVE  LockInv'
<1>1. ASSUME NEW k \in ListKeys
      PROVE  attempts'[k] \in Seq(Nat) /\ Len(attempts'[k]) = Len(attempts[k])
  <2> DEFINE aged == [i \in 1 .. Len(attempts[k]) |->
                        IF attempts[k][i] < Window(k) THEN attempts[k][i] + 1 ELSE Window(k)]
  <2>1. Len(attempts[k]) \in Nat /\ \A i \in 1 .. Len(attempts[k]) : attempts[k][i] \in Nat
    BY <1>1, LenProperties, ElementOfSeq DEF LockInv, ListsAreTyped
  <2>2. aged \in [1 .. Len(attempts[k]) -> Nat]
    BY <1>1, <2>1, LimitsAreNumbers DEF LockInv
  <2>3. aged \in Seq(Nat) /\ Len(aged) = Len(attempts[k])
    BY <2>1, <2>2
  <2>4. attempts'[k] = aged
    BY <1>1 DEF MinutePasses
  <2> QED
    BY <2>3, <2>4
<1>2. attempts' \in [ListKeys -> Seq(Nat)]
  <2>1. attempts' = [k \in ListKeys |-> attempts'[k]]
    BY DEF MinutePasses
  <2> QED
    BY <1>1, <2>1
<1>3. \A k \in ListKeys : Limit(k)' = Limit(k)
  BY DEF Limit, MinutePasses
<1> QED
  BY <1>1, <1>2, <1>3 DEF LockInv, ListsAreTyped, LongIsReported, MinutePasses

LEMMA NoListIsLong ==
    ASSUME ListsAreTyped, attempts = [k \in ListKeys |-> <<>>]
    PROVE  LongIsReported
<1>1. Len(<<>>) = 0
  BY EmptySeq
<1> QED
  BY <1>1, LimitsAreNumbers DEF LongIsReported

LEMMA LocksInitially == SignInInit => LockInv
BY EmptySeq, NoListIsLong DEF SignInInit, LockInv, ListsAreTyped

LEMMA LocksInductive == LockInv /\ [SignInNext]_signInVars => LockInv'
<1> SUFFICES ASSUME LockInv, [SignInNext]_signInVars PROVE LockInv'
  OBVIOUS
<1>1. CASE UNCHANGED signInVars
  BY <1>1 DEF signInVars, LockInv, ListsAreTyped, LongIsReported, Limit
<1>2. ASSUME NEW c \in Clients, PasswordRight(c) \/ CodeRight(c)
      PROVE  LockInv'
  BY <1>2, ClearingKeepsLocks DEF PasswordRight, CodeRight
<1>3. ASSUME NEW c \in Clients, KeyRight(c)
      PROVE  LockInv'
  BY <1>3 DEF KeyRight, LockInv, ListsAreTyped, LongIsReported, Limit
<1>4. ASSUME NEW c \in Clients, NEW ip \in Addresses, PostsCode(c, ip)
      PROVE  LockInv'
  BY <1>4, TestKeepsLocks DEF PostsCode
<1>5. ASSUME NEW c \in Clients, NEW ip \in Addresses, NEW u \in UserNames, PostsPassword(c, ip, u)
      PROVE  LockInv'
  BY <1>5, TestKeepsLocks DEF PostsPassword
<1>6. CASE SignInRestart
  <2>1. ListsAreTyped' /\ attempts' = [k \in ListKeys |-> <<>>]
    BY <1>6, EmptySeq DEF SignInRestart, LockInv, ListsAreTyped
  <2>2. LongIsReported'
    <3>1. \A k \in ListKeys : Limit(k)' = Limit(k) /\ Limit(k) \in Nat \ {0}
      BY <1>6, LimitsAreNumbers DEF SignInRestart, Limit, LockInv
    <3>2. Len(<<>>) = 0
      BY EmptySeq
    <3> QED
      BY <2>1, <3>1, <3>2 DEF LongIsReported
  <2> QED
    BY <2>1, <2>2 DEF LockInv
<1> QED
  BY <1>1, <1>2, <1>3, <1>4, <1>5, <1>6, FailureKeepsLocks, NewLimitKeepsLocks, MinuteKeepsLocks DEF SignInNext

(* Whatever requests overlap, whenever entries run out, lists are dropped and  *)
(* the limit is changed, a list that locks was reported when it became full    *)
(* (_record_failed_login() in app.py), for any limits and windows.             *)
THEOREM LocksWereReported == SignInSpec => []LocksAreReported
<1>1. LockInv => LocksAreReported
  <2> SUFFICES ASSUME LockInv, NEW k \in ListKeys, Locked(k) PROVE k \in reported \cup lowered
    BY DEF LocksAreReported
  <2>1. Len(attempts[k]) \in Nat /\ Limit(k) \in Nat /\ Len(Recent(k)) \in Nat /\ Len(Recent(k)) <= Len(attempts[k])
    BY RecentIsShorter, LimitsAreNumbers, LenProperties DEF LockInv, ListsAreTyped
  <2>2. Len(attempts[k]) >= Limit(k)
    BY <2>1 DEF Locked
  <2> QED
    BY <2>2 DEF LockInv, LongIsReported
<1> QED
  BY <1>1, LocksInitially, LocksInductive, PTL DEF SignInSpec

-----------------------------------------------------------------------------
(* Second factors.  A code that is dead stays dead, since codes are only used  *)
(* up, dropped or made anew in a generation that is later than all others.     *)
CodeType == (1 .. MaxBatches) \X (1 .. NumCodes)
CodeRowType == [batch : 1 .. MaxBatches, n : 1 .. NumCodes, used : BOOLEAN]
VisitSteps == {"none", "enables", "renews", "answers", "asks", "touches", "counts",
               "asked", "selects", "spends", "pressed", "signs", "accepted", "refused"}
VisitType == [pc : VisitSteps, code : Nat \X Nat, dead : SUBSET CodeType]

FactorTypes ==
    /\ totp \in [secret : Nat, on : BOOLEAN] /\ codeRows \subseteq CodeRowType
    /\ seen \subseteq Nat /\ pageDue \in [Enrolling -> Nat] /\ batch \in 0 .. MaxBatches
    /\ visit \in [Browsing -> VisitType]

RowsAreOld == \A r \in codeRows : r.batch <= batch

(* What a request may hold, given the codes that are unused.                   *)
VisitFits(q) ==
    /\ \A c \in q.dead : c[1] <= batch /\ c \notin Unused
    /\ q.pc \in {"spends", "accepted"} => q.code \notin q.dead
    /\ q.pc \notin {"selects", "spends", "accepted", "refused"} => q.dead = {}

CodeInv == FactorTypes /\ RowsAreOld /\ \A v \in Browsing : VisitFits(visit[v])

LEMMA NoVisitFits == NoVisit \in VisitType /\ VisitFits(NoVisit)
<1>1. NoCode \in Nat \X Nat
  BY DEF NoCode
<1>2. NoVisit.pc = "none" /\ NoVisit.dead = {}
  BY DEF NoVisit
<1>3. NoVisit \in VisitType
  BY <1>1 DEF NoVisit, VisitType, VisitSteps
<1> QED
  BY <1>2, <1>3 DEF VisitFits

LEMMA AskedFits ==
    LET q == [NoVisit EXCEPT !.pc = "asked"] IN q \in VisitType /\ VisitFits(q)
<1> DEFINE q == [pc |-> "asked", code |-> NoCode, dead |-> {}]
<1>1. [NoVisit EXCEPT !.pc = "asked"] = q
  BY DEF NoVisit
<1>2. NoCode \in Nat \X Nat
  BY DEF NoCode
<1>3. q \in VisitType
  BY <1>2 DEF VisitType, VisitSteps
<1> QED
  BY <1>1, <1>3 DEF VisitFits

LEMMA CodesInitially == FactorInit => CodeInv
BY NoVisitFits, FactorBounds DEF FactorInit, CodeInv, FactorTypes, RowsAreOld

(* A request goes on while the codes stay as they are.                         *)
LEMMA VisitGoesOn ==
    ASSUME CodeInv, FactorTypes', UNCHANGED <<codeRows, batch>>,
           NEW v \in Browsing, NEW q \in VisitType, visit' = [visit EXCEPT ![v] = q], VisitFits(q)
    PROVE  CodeInv'
<1>1. UNCHANGED Unused
  BY DEF Unused
<1>2. \A w \in Browsing : visit'[w] = q \/ visit'[w] = visit[w]
  BY DEF CodeInv, FactorTypes
<1> QED
  BY <1>1, <1>2 DEF CodeInv, RowsAreOld, VisitFits

LEMMA GoingIsChanging ==
    ASSUME FactorTypes, NEW v \in Browsing, NEW pc \in VisitSteps, Goes(v, pc)
    PROVE  \E q \in VisitType : /\ visit' = [visit EXCEPT ![v] = q]
                                /\ q.pc = pc /\ q.code = visit[v].code /\ q.dead = visit[v].dead
<1> DEFINE q == [pc |-> pc, code |-> visit[v].code, dead |-> visit[v].dead]
<1>1. visit[v] \in VisitType
  BY DEF FactorTypes
<1>2. q \in VisitType
  BY <1>1 DEF VisitType
<1>3. [visit[v] EXCEPT !.pc = pc] = q
  BY <1>1 DEF VisitType
<1>4. visit' = [visit EXCEPT ![v] = q]
  BY <1>3 DEF Goes
<1> QED
  BY <1>2, <1>4

(* The steps a request takes without changing the codes: each only goes where  *)
(* its codes allow it to.                                                      *)
LEMMA GoingKeepsCodes ==
    ASSUME CodeInv, UNCHANGED <<codeRows, batch>>, NEW v \in Browsing, NEW pc \in VisitSteps, Goes(v, pc),
           totp' \in [secret : Nat, on : BOOLEAN], seen' \subseteq Nat, pageDue' \in [Enrolling -> Nat],
           pc \in {"spends", "accepted"} => visit[v].code \notin visit[v].dead,
           pc \notin {"selects", "spends", "accepted", "refused"} => visit[v].dead = {}
    PROVE  CodeInv'
<1>1. PICK q \in VisitType : /\ visit' = [visit EXCEPT ![v] = q]
                             /\ q.pc = pc /\ q.code = visit[v].code /\ q.dead = visit[v].dead
  BY GoingIsChanging DEF CodeInv
<1>2. VisitFits(q)
  BY <1>1 DEF CodeInv, VisitFits
<1>3. FactorTypes'
  BY <1>1 DEF CodeInv, FactorTypes
<1> QED
  BY <1>1, <1>2, <1>3, VisitGoesOn

LEMMA LeavingKeepsCodes ==
    ASSUME CodeInv, UNCHANGED <<codeRows, batch>>, NEW v \in Browsing, BrowserLeaves(v),
           totp' \in [secret : Nat, on : BOOLEAN], seen' \subseteq Nat, pageDue' \in [Enrolling -> Nat]
    PROVE  CodeInv'
<1>1. FactorTypes'
  BY NoVisitFits DEF CodeInv, FactorTypes, BrowserLeaves
<1> QED
  BY <1>1, NoVisitFits, VisitGoesOn DEF BrowserLeaves

(* A new generation of codes, and no codes: neither wakes a dead one.          *)
LEMMA ChangedCodesAreNew ==
    ASSUME CodeInv, batch' \in 0 .. MaxBatches,
           \/ codeRows' = NewCodes /\ batch' = batch + 1
           \/ codeRows' = {} /\ batch' = batch
    PROVE  /\ RowsAreOld' /\ codeRows' \subseteq CodeRowType
           /\ \A q \in VisitType : VisitFits(q) => VisitFits(q)'
<1>1. batch \in Nat /\ batch' \in Nat /\ batch' >= batch
  BY FactorBounds DEF CodeInv, FactorTypes
<1>2. ASSUME NEW r \in codeRows' PROVE r \in CodeRowType /\ r.batch = batch + 1 /\ r.batch <= batch'
  <2>1. r \in NewCodes /\ batch' = batch + 1
    BY <1>2
  <2>2. r.batch = batch + 1 /\ r \in [batch : {batch + 1}, n : 1 .. NumCodes, used : {FALSE}]
    BY <2>1 DEF NewCodes
  <2>3. batch + 1 \in 1 .. MaxBatches
    BY <1>1, <2>1, FactorBounds
  <2>4. r = [batch |-> batch + 1, n |-> r.n, used |-> FALSE] /\ r.n \in 1 .. NumCodes
    BY <2>2
  <2>5. [batch |-> batch + 1, n |-> r.n, used |-> FALSE] \in CodeRowType
    BY <2>3, <2>4 DEF CodeRowType
  <2>6. r \in CodeRowType
    BY <2>4, <2>5
  <2> HIDE DEF CodeRowType
  <2> QED
    BY <1>1, <2>1, <2>2, <2>6
<1>3. \A c \in Unused' : c[1] = batch + 1
  BY <1>2 DEF Unused
<1>4. ASSUME NEW q \in VisitType, VisitFits(q), NEW c \in q.dead
      PROVE  c[1] <= batch' /\ c \notin Unused'
  <2>1. c \in CodeType /\ c[1] <= batch
    BY <1>4 DEF VisitFits, VisitType
  <2>2. c[1] \in 1 .. MaxBatches
    BY <2>1 DEF CodeType
  <2> QED
    BY <1>1, <1>3, <2>1, <2>2, FactorBounds
<1> QED
  BY <1>2, <1>4 DEF VisitFits, RowsAreOld

(* A step that changes the codes and lets a request go on.                     *)
LEMMA VisitGoesOnWithNewCodes ==
    ASSUME CodeInv, FactorTypes', RowsAreOld', \A q \in VisitType : VisitFits(q) => VisitFits(q)',
           NEW v \in Browsing, NEW pc \in VisitSteps, Goes(v, pc),
           pc \in {"spends", "accepted"} => visit[v].code \notin visit[v].dead,
           pc \notin {"selects", "spends", "accepted", "refused"} => visit[v].dead = {}
    PROVE  CodeInv'
<1>1. PICK q \in VisitType : /\ visit' = [visit EXCEPT ![v] = q]
                             /\ q.pc = pc /\ q.code = visit[v].code /\ q.dead = visit[v].dead
  BY GoingIsChanging DEF CodeInv
<1>2. VisitFits(q)
  BY <1>1 DEF CodeInv, VisitFits
<1>3. ASSUME NEW w \in Browsing PROVE VisitFits(visit[w])'
  <2>1. visit'[w] = q \/ (visit'[w] = visit[w] /\ visit[w] \in VisitType /\ VisitFits(visit[w]))
    BY <1>1, <1>3 DEF CodeInv, FactorTypes
  <2> QED
    BY <1>2, <2>1
<1> QED
  BY <1>3 DEF CodeInv

(* What the steps of a browser that is signed in leave to prove.               *)
LEMMA EnrollingKeepsCodes ==
    ASSUME CodeInv, NEW v \in Enrolling,
           \/ SetsUp(v) \/ OpensPage(v) \/ EnablesApp(v) \/ AsksForCodes(v) \/ Renews(v)
           \/ AnswersWithCodes(v) \/ Disables(v) \/ RegistersYubiKey(v) \/ YubiKeyAdded(v)
           \/ DeletesYubiKey(v) \/ ChallengesToRegister(v) \/ SecurityKeyAdded(v)
           \/ CountsCodes(v) \/ DeletesSecurityKey(v) \/ \E s \in app : EnableChecks(v, s)
    PROVE  CodeInv'
<1> USE DEF Browsing
<1>1. /\ totp \in [secret : Nat, on : BOOLEAN] /\ seen \subseteq Nat /\ pageDue \in [Enrolling -> Nat]
      /\ batch \in Nat /\ VisitFits(visit[v]) /\ VisitFits(visit[v])
  BY FactorBounds DEF CodeInv, FactorTypes
<1>2. CASE SetsUp(v) \/ OpensPage(v) \/ DeletesYubiKey(v) \/ DeletesSecurityKey(v)
  <2>1. UNCHANGED <<codeRows, batch, visit>>
    BY <1>2 DEF SetsUp, OpensPage, DeletesYubiKey, DeletesSecurityKey
  <2>2. totp' \in [secret : Nat, on : BOOLEAN]
    <3>1. CASE SetsUp(v)
      BY <1>1, <3>1 DEF SetsUp, SecretReplaced
    <3> QED
      BY <1>1, <1>2, <3>1 DEF OpensPage, DeletesYubiKey, DeletesSecurityKey
  <2>3. seen' \subseteq Nat /\ pageDue' \in [Enrolling -> Nat]
    <3>1. CASE OpensPage(v)
      <4>1. pageDue[v] \in Nat /\ seen' = seen \cup ({pageDue[v]} \ {0}) /\ pageDue' = [pageDue EXCEPT ![v] = 0]
        BY <1>1, <3>1 DEF OpensPage
      <4> QED
        BY <1>1, <4>1
    <3> QED
      BY <1>1, <1>2, <3>1 DEF SetsUp, DeletesYubiKey, DeletesSecurityKey
  <2>4. FactorTypes'
    BY <2>1, <2>2, <2>3 DEF CodeInv, FactorTypes
  <2> QED
    BY <2>1, <2>4 DEF CodeInv, RowsAreOld, VisitFits, Unused
<1>3. CASE \/ AsksForCodes(v) \/ RegistersYubiKey(v) \/ ChallengesToRegister(v)
           \/ \E s \in app : EnableChecks(v, s)
  <2>1. PICK pc \in {"renews", "asks", "touches", "enables"} : Goes(v, pc)
    BY <1>3 DEF AsksForCodes, RegistersYubiKey, ChallengesToRegister, EnableChecks
  <2>2. visit[v].pc = "none" /\ UNCHANGED <<totp, codeRows, seen, pageDue, batch>>
    BY <1>3 DEF AsksForCodes, RegistersYubiKey, ChallengesToRegister, EnableChecks, Begins, At
  <2>3. pc \in VisitSteps /\ pc \notin {"selects", "spends", "accepted", "refused"}
    BY DEF VisitSteps
  <2> QED
    BY <1>1, <2>1, <2>2, <2>3, GoingKeepsCodes DEF VisitFits
<1>4. CASE AnswersWithCodes(v) \/ YubiKeyAdded(v)
  <2>1. /\ UNCHANGED <<totp, codeRows, seen, batch>> /\ BrowserLeaves(v)
        /\ pageDue' \in [Enrolling -> Nat]
    BY <1>1, <1>4 DEF AnswersWithCodes, YubiKeyAdded
  <2> QED
    BY <1>1, <2>1, LeavingKeepsCodes
<1>5. CASE SecurityKeyAdded(v) \/ CountsCodes(v)
  <2>1. /\ UNCHANGED <<totp, codeRows, seen, pageDue, batch>> /\ visit[v].pc \in {"touches", "counts"}
        /\ BrowserLeaves(v) \/ Goes(v, "counts") \/ Goes(v, "renews")
    BY <1>5 DEF SecurityKeyAdded, CountsCodes, At
  <2>2. CASE Goes(v, "counts") \/ Goes(v, "renews")
    <3>1. PICK pc \in {"counts", "renews"} : Goes(v, pc)
      BY <2>2
    <3>2. pc \in VisitSteps /\ pc \notin {"selects", "spends", "accepted", "refused"} /\ visit[v].dead = {}
      BY <1>1, <2>1 DEF VisitSteps, VisitFits
    <3> QED
      BY <1>1, <2>1, <3>1, <3>2, GoingKeepsCodes
  <2> QED
    BY <1>1, <2>1, <2>2, LeavingKeepsCodes
<1>6. CASE EnablesApp(v) \/ Renews(v)
  <2>1. /\ visit[v].pc \in {"enables", "renews"} /\ batch < MaxBatches
        /\ codeRows' = NewCodes /\ batch' = batch + 1 /\ UNCHANGED <<seen, pageDue>>
    BY <1>6 DEF EnablesApp, Renews, At
  <2>2. PICK pc \in {"renews", "answers"} : Goes(v, pc)
    BY <1>6 DEF EnablesApp, Renews
  <2>3. pc \in VisitSteps /\ pc \notin {"selects", "spends", "accepted", "refused"} /\ visit[v].dead = {}
    BY <1>1, <2>1 DEF VisitSteps, VisitFits
  <2>4. batch' \in 0 .. MaxBatches
    BY <1>1, <2>1, FactorBounds
  <2>5. /\ RowsAreOld' /\ codeRows' \subseteq CodeRowType
        /\ \A q \in VisitType : VisitFits(q) => VisitFits(q)'
    BY <2>1, <2>4, ChangedCodesAreNew
  <2>6. totp' \in [secret : Nat, on : BOOLEAN]
    BY <1>1, <1>6 DEF EnablesApp, Renews
  <2>7. visit' \in [Browsing -> VisitType]
    BY <2>2, <2>3, GoingIsChanging DEF CodeInv, FactorTypes
  <2>8. FactorTypes'
    BY <2>1, <2>4, <2>5, <2>6, <2>7 DEF CodeInv, FactorTypes
  <2> QED
    BY <2>2, <2>3, <2>5, <2>8, VisitGoesOnWithNewCodes
<1>7. CASE Disables(v)
  <2>1. /\ codeRows' = {} /\ UNCHANGED <<seen, pageDue, visit, batch>>
        /\ totp' \in [secret : Nat, on : BOOLEAN]
    BY <1>1, <1>7 DEF Disables
  <2>2. batch' \in 0 .. MaxBatches
    BY <2>1 DEF CodeInv, FactorTypes
  <2>3. /\ RowsAreOld' /\ codeRows' \subseteq CodeRowType
        /\ \A q \in VisitType : VisitFits(q) => VisitFits(q)'
    BY <2>1, <2>2, ChangedCodesAreNew
  <2>4. FactorTypes'
    BY <2>1, <2>2, <2>3 DEF CodeInv, FactorTypes
  <2>5. \A w \in Browsing : visit'[w] = visit[w] /\ visit[w] \in VisitType /\ VisitFits(visit[w])
    BY <2>1 DEF CodeInv, FactorTypes
  <2> QED
    BY <2>3, <2>4, <2>5 DEF CodeInv
<1> QED
  BY <1>2, <1>3, <1>4, <1>5, <1>6, <1>7

(* Spending a code uses it up, and nothing else.                               *)
LEMMA SpendingKeepsCodes ==
    ASSUME CodeInv, NEW v \in Entering, SpendsCode(v)
    PROVE  CodeInv'
<1> DEFINE Spent(r) == IF <<r.batch, r.n>> = visit[v].code THEN [r EXCEPT !.used = TRUE] ELSE r
<1>1. /\ visit[v].pc = "spends" /\ codeRows' = {Spent(r) : r \in codeRows}
      /\ UNCHANGED <<totp, seen, pageDue, batch>> /\ Goes(v, "accepted") /\ v \in Browsing
  BY DEF SpendsCode, At, Result, Browsing
<1>2. \A r \in codeRows : /\ Spent(r) \in CodeRowType /\ Spent(r).batch = r.batch /\ Spent(r).n = r.n
                          /\ Spent(r).used = FALSE => r.used = FALSE
  BY DEF CodeInv, FactorTypes, CodeRowType
<1> HIDE DEF Spent
<1>3. codeRows' \subseteq CodeRowType /\ RowsAreOld'
  BY <1>1, <1>2 DEF CodeInv, RowsAreOld
<1>4. Unused' \subseteq Unused
  <2> SUFFICES ASSUME NEW c \in Unused' PROVE c \in Unused
    OBVIOUS
  <2>1. PICK x \in codeRows' : ~x.used /\ c = <<x.batch, x.n>>
    BY DEF Unused
  <2>2. PICK r \in codeRows : x = Spent(r)
    BY <1>1
  <2>3. r.used = FALSE /\ c = <<r.batch, r.n>>
    BY <1>2, <1>3, <2>1, <2>2 DEF CodeRowType
  <2> QED
    BY <2>3 DEF Unused
<1>5. \A q \in VisitType : VisitFits(q) => VisitFits(q)'
  BY <1>1, <1>4 DEF VisitFits
<1>6. "accepted" \in VisitSteps /\ visit[v].code \notin visit[v].dead
  BY <1>1 DEF VisitSteps, CodeInv, VisitFits
<1>7. visit' \in [Browsing -> VisitType]
  BY <1>1, <1>6, GoingIsChanging DEF CodeInv, FactorTypes
<1>8. FactorTypes'
  BY <1>1, <1>3, <1>7 DEF CodeInv, FactorTypes
<1> QED
  BY <1>1, <1>3, <1>5, <1>6, <1>8, VisitGoesOnWithNewCodes

LEMMA EnteringKeepsCodes ==
    ASSUME CodeInv, NEW v \in Entering,
           \/ IsAskedForFactor(v) \/ SelectsCode(v) \/ PressesYubiKey(v)
           \/ YubicoAnswers(v) \/ IsChallenged(v) \/ SignsChallenge(v) \/ IsAnswered(v)
           \/ \E s \in app : TypesAppCode(v, s)
           \/ \E c \in seen \X (1 .. NumCodes) : TypesBackupCode(v, c)
    PROVE  CodeInv'
<1>1. /\ totp \in [secret : Nat, on : BOOLEAN] /\ seen \subseteq Nat /\ pageDue \in [Enrolling -> Nat]
      /\ batch \in 0 .. MaxBatches /\ v \in Browsing /\ VisitFits(visit[v])
  BY DEF CodeInv, FactorTypes, Browsing
<1>2. UNCHANGED <<totp, codeRows, seen, pageDue, batch>>
  BY DEF IsAskedForFactor, SelectsCode, PressesYubiKey, YubicoAnswers, IsChallenged, SignsChallenge,
         IsAnswered, TypesAppCode, TypesBackupCode, Only
<1>3. CASE \/ IsAskedForFactor(v) \/ PressesYubiKey(v) \/ YubicoAnswers(v) \/ IsChallenged(v)
           \/ SignsChallenge(v) \/ \E s \in app : TypesAppCode(v, s)
  <2>1. PICK pc \in {"asked", "pressed", "signs", "accepted", "refused"} : Goes(v, pc)
    BY <1>3 DEF IsAskedForFactor, PressesYubiKey, YubicoAnswers, IsChallenged, SignsChallenge,
                TypesAppCode, Only, Result
  <2>2. visit[v].dead = {} /\ pc \in VisitSteps
    BY <1>1, <1>3 DEF IsAskedForFactor, PressesYubiKey, YubicoAnswers, IsChallenged, SignsChallenge,
                      TypesAppCode, At, VisitFits, VisitSteps
  <2> QED
    BY <1>1, <1>2, <2>1, <2>2, GoingKeepsCodes
<1>4. CASE SelectsCode(v)
  <2>1. PICK pc \in {"spends", "refused"} : Goes(v, pc) /\ (pc = "spends" => UnusedRow(visit[v].code))
    BY <1>4 DEF SelectsCode, Only
  <2>2. UnusedRow(visit[v].code) => visit[v].code \notin visit[v].dead
    BY <1>1 DEF UnusedRow, VisitFits, Unused
  <2>3. pc \in VisitSteps
    BY DEF VisitSteps
  <2> QED
    BY <1>1, <1>2, <2>1, <2>2, <2>3, GoingKeepsCodes
<1>5. CASE IsAnswered(v)
  <2> DEFINE q == [NoVisit EXCEPT !.pc = "asked"]
  <2>1. BrowserLeaves(v) \/ visit' = [visit EXCEPT ![v] = q]
    BY <1>5 DEF IsAnswered, Only
  <2>2. q \in VisitType /\ VisitFits(q)
    BY AskedFits
  <2> HIDE DEF q
  <2>3. CASE visit' = [visit EXCEPT ![v] = q]
    <3>1. FactorTypes'
      BY <1>2, <2>2, <2>3 DEF CodeInv, FactorTypes
    <3> QED
      BY <1>1, <1>2, <2>2, <2>3, <3>1, VisitGoesOn
  <2> QED
    BY <1>1, <1>2, <2>1, <2>3, LeavingKeepsCodes
<1>6. ASSUME NEW c \in seen \X (1 .. NumCodes), TypesBackupCode(v, c)
      PROVE  CodeInv'
  <2> DEFINE q == [pc |-> "selects", code |-> c, dead |-> Dead]
  <2>1. visit' = [visit EXCEPT ![v] = q]
    BY <1>6 DEF TypesBackupCode, Only
  <2>2. c \in Nat \X Nat
    <3>1. PICK g \in seen, n \in 1 .. NumCodes : c = <<g, n>>
      BY <1>6
    <3>2. g \in Nat /\ n \in Nat
      BY <1>1
    <3> QED
      BY <3>1, <3>2
  <2>3. Dead \subseteq CodeType /\ \A x \in Dead : x[1] <= batch /\ x \notin Unused
    BY <1>1, FactorBounds DEF Dead, CodeType
  <2>4. q \in VisitType /\ VisitFits(q)
    BY <2>2, <2>3 DEF VisitType, VisitFits, VisitSteps
  <2> HIDE DEF q
  <2>5. FactorTypes'
    BY <1>2, <2>1, <2>4 DEF CodeInv, FactorTypes
  <2> QED
    BY <1>1, <1>2, <2>1, <2>4, <2>5, VisitGoesOn
<1> QED
  BY <1>3, <1>4, <1>5, <1>6

LEMMA RestartKeepsCodes ==
    ASSUME CodeInv, FactorRestart
    PROVE  CodeInv'
<1> DEFINE q == [NoVisit EXCEPT !.pc = "asked"]
<1>1. q \in VisitType /\ VisitFits(q)
  BY AskedFits
<1> HIDE DEF q
<1>2. /\ UNCHANGED <<totp, codeRows, seen, pageDue, batch>>
      /\ visit' = [v \in Browsing |-> IF v \in Entering /\ ~At(v, "none") THEN q ELSE NoVisit]
  BY DEF FactorRestart, Only, q
<1>3. \A v \in Browsing : visit'[v] \in VisitType /\ VisitFits(visit'[v])
  BY <1>1, <1>2, NoVisitFits
<1>4. visit' \in [Browsing -> VisitType]
  BY <1>2, <1>3
<1>5. FactorTypes'
  BY <1>2, <1>4 DEF CodeInv, FactorTypes
<1>6. UNCHANGED Unused
  BY <1>2 DEF Unused
<1> QED
  BY <1>2, <1>3, <1>5, <1>6 DEF CodeInv, RowsAreOld, VisitFits

LEMMA CodesInductive == CodeInv /\ [FactorNext]_factorVars => CodeInv'
<1> SUFFICES ASSUME CodeInv, [FactorNext]_factorVars PROVE CodeInv'
  OBVIOUS
<1>1. CASE UNCHANGED factorVars
  BY <1>1 DEF factorVars, CodeInv, FactorTypes, RowsAreOld, VisitFits, Unused
<1> QED
  BY <1>1, EnrollingKeepsCodes, EnteringKeepsCodes, SpendingKeepsCodes, RestartKeepsCodes DEF FactorNext

(* A backup code that was used up or replaced before a request came is not     *)
(* accepted by it, however many requests are under way (verify_backup_code()   *)
(* and _generate_backup_codes() in two_factor.py).                             *)
THEOREM DeadCodesAreRefused == FactorSpec => []CodesWorkOnce
<1>1. CodeInv => CodesWorkOnce
  BY DEF CodeInv, VisitFits, CodesWorkOnce, At, Browsing
<1> QED
  BY <1>1, CodesInitially, CodesInductive, PTL DEF FactorSpec

-----------------------------------------------------------------------------
(* The secret that is enabled is one the app holds.  Between its check and the *)
(* write nobody may set up another one: one browser does one thing at a time.  *)
HeldInv ==
    /\ CodeInv /\ EnabledIsHeld
    /\ \A v \in Enrolling : At(v, "enables") => totp.secret \in app

LEMMA HeldInitially == FactorInit => HeldInv
BY CodesInitially DEF FactorInit, HeldInv, EnabledIsHeld, At, NoVisit, Browsing

LEMMA HeldInductive ==
    ASSUME \A x, y \in Enrolling : x = y
    PROVE  HeldInv /\ [FactorNext]_factorVars => HeldInv'
<1> SUFFICES ASSUME HeldInv, [FactorNext]_factorVars PROVE HeldInv'
  OBVIOUS
<1>1. CodeInv /\ CodeInv'
  BY CodesInductive DEF HeldInv
<1>2. totp \in [secret : Nat, on : BOOLEAN] /\ visit \in [Browsing -> VisitType]
  BY <1>1 DEF CodeInv, FactorTypes
<1>3. ASSUME UNCHANGED totp, app \subseteq app',
             \A v \in Enrolling : At(v, "enables")' => At(v, "enables") \/ totp.secret \in app
      PROVE  HeldInv'
  BY <1>1, <1>3 DEF HeldInv, EnabledIsHeld
<1>4. \A v, w \in Browsing, pc \in VisitSteps \ {"enables"} : Goes(v, pc) /\ At(w, "enables")' => At(w, "enables")
  BY <1>2 DEF Goes, At
<1>5. \A v, w \in Browsing : BrowserLeaves(v) /\ At(w, "enables")' => At(w, "enables")
  BY <1>2 DEF BrowserLeaves, At, NoVisit
<1>6. ASSUME NEW v \in Enrolling, SetsUp(v)
      PROVE  HeldInv'
  <2>1. visit[v].pc = "none" /\ visit' = visit /\ totp'.on = FALSE
    BY <1>6 DEF SetsUp, Begins, At, SecretReplaced
  <2>2. \A w \in Enrolling : ~At(w, "enables")'
    BY <2>1 DEF At
  <2> QED
    BY <1>1, <2>1, <2>2 DEF HeldInv, EnabledIsHeld
<1>7. ASSUME NEW v \in Enrolling, EnablesApp(v)
      PROVE  HeldInv'
  <2>1. totp'.secret = totp.secret /\ app' = app /\ totp.secret \in app
    BY <1>2, <1>7 DEF EnablesApp, HeldInv
  <2> QED
    BY <1>1, <2>1 DEF HeldInv, EnabledIsHeld
<1>8. ASSUME NEW v \in Enrolling, Disables(v)
      PROVE  HeldInv'
  <2>1. totp'.secret = totp.secret /\ app' = app /\ visit' = visit /\ totp'.on = FALSE
    BY <1>2, <1>8 DEF Disables
  <2> QED
    BY <1>1, <2>1 DEF HeldInv, EnabledIsHeld, At
<1>9. ASSUME NEW v \in Enrolling, NEW s \in app, EnableChecks(v, s)
      PROVE  HeldInv'
  BY <1>3, <1>9 DEF EnableChecks, RightCode
<1>10. ASSUME NEW v \in Enrolling, OpensPage(v)
       PROVE  HeldInv'
  <2>1. visit' = visit /\ totp' = totp /\ app \subseteq app'
    BY <1>10 DEF OpensPage
  <2> QED
    BY <1>3, <2>1 DEF At
<1>11. ASSUME NEW v \in Enrolling,
              \/ AsksForCodes(v) \/ Renews(v) \/ AnswersWithCodes(v) \/ RegistersYubiKey(v) \/ YubiKeyAdded(v)
              \/ DeletesYubiKey(v) \/ ChallengesToRegister(v) \/ SecurityKeyAdded(v)
              \/ CountsCodes(v) \/ DeletesSecurityKey(v)
       PROVE  HeldInv'
  <2>1. UNCHANGED <<totp, app>>
    BY <1>11 DEF AsksForCodes, Renews, AnswersWithCodes, RegistersYubiKey, YubiKeyAdded, DeletesYubiKey,
                 ChallengesToRegister, SecurityKeyAdded, CountsCodes, DeletesSecurityKey
  <2>2. \/ visit' = visit \/ BrowserLeaves(v)
        \/ \E pc \in {"renews", "answers", "asks", "touches", "counts"} : Goes(v, pc)
    BY <1>11 DEF AsksForCodes, Renews, AnswersWithCodes, RegistersYubiKey, YubiKeyAdded, DeletesYubiKey,
                 ChallengesToRegister, SecurityKeyAdded, CountsCodes, DeletesSecurityKey
  <2>3. \A w \in Enrolling : At(w, "enables")' => At(w, "enables")
    <3>1. CASE visit' = visit
      BY <3>1 DEF At
    <3>2. CASE \E pc \in {"renews", "answers", "asks", "touches", "counts"} : Goes(v, pc)
      BY <1>4, <3>2 DEF VisitSteps, Browsing
    <3> QED
      BY <1>5, <2>2, <3>1, <3>2 DEF Browsing
  <2> QED
    BY <1>3, <2>1, <2>3
<1>12. ASSUME NEW v \in Entering,
              \/ IsAskedForFactor(v) \/ SelectsCode(v) \/ SpendsCode(v) \/ PressesYubiKey(v)
              \/ YubicoAnswers(v) \/ IsChallenged(v) \/ SignsChallenge(v) \/ IsAnswered(v)
              \/ \E s \in app : TypesAppCode(v, s)
              \/ \E c \in seen \X (1 .. NumCodes) : TypesBackupCode(v, c)
       PROVE  HeldInv'
  <2>1. UNCHANGED <<totp, app>>
    BY <1>12 DEF IsAskedForFactor, SelectsCode, SpendsCode, PressesYubiKey, YubicoAnswers, IsChallenged,
                 SignsChallenge, IsAnswered, TypesAppCode, TypesBackupCode, Only
  <2>2. \E q : visit' = [visit EXCEPT ![v] = q] /\ q.pc # "enables"
    <3>1. CASE \E c \in seen \X (1 .. NumCodes) : TypesBackupCode(v, c)
      <4>1. PICK c : visit' = [visit EXCEPT ![v] = [pc |-> "selects", code |-> c, dead |-> Dead]]
        BY <3>1 DEF TypesBackupCode, Only
      <4>2. [pc |-> "selects", code |-> c, dead |-> Dead].pc = "selects"
        OBVIOUS
      <4> QED
        BY <4>1, <4>2
    <3>2. CASE IsAnswered(v)
      <4>1. NoVisit.pc = "none" /\ [NoVisit EXCEPT !.pc = "asked"].pc = "asked"
        BY DEF NoVisit
      <4> QED
        BY <3>2, <4>1 DEF IsAnswered, Only, BrowserLeaves
    <3>3. CASE \E pc \in {"asked", "pressed", "signs", "spends", "accepted", "refused"} : Goes(v, pc)
      <4>1. PICK pc \in {"asked", "pressed", "signs", "spends", "accepted", "refused"} : Goes(v, pc)
        BY <3>3
      <4>2. pc \in VisitSteps
        BY DEF VisitSteps
      <4> QED
        BY <1>1, <4>1, <4>2, GoingIsChanging DEF CodeInv, Browsing
    <3>4. \/ \E c \in seen \X (1 .. NumCodes) : TypesBackupCode(v, c)
          \/ IsAnswered(v)
          \/ \E pc \in {"asked", "pressed", "signs", "spends", "accepted", "refused"} : Goes(v, pc)
      BY <1>12 DEF IsAskedForFactor, SelectsCode, SpendsCode, PressesYubiKey, YubicoAnswers, IsChallenged,
                   SignsChallenge, TypesAppCode, Only, Result
    <3> QED
      BY <3>1, <3>2, <3>3, <3>4
  <2>3. \A w \in Enrolling : At(w, "enables")' => At(w, "enables")
    BY <1>2, <2>2 DEF At, Browsing
  <2> QED
    BY <1>3, <2>1, <2>3
<1>13. CASE FactorRestart
  <2>1. UNCHANGED <<totp, app>> /\ \A w \in Enrolling : ~At(w, "enables")'
    BY <1>13 DEF FactorRestart, Only, At, NoVisit, Browsing
  <2> QED
    BY <1>3, <2>1
<1>14. CASE UNCHANGED factorVars
  BY <1>3, <1>14 DEF factorVars, At
<1> QED
  BY <1>6, <1>7, <1>8, <1>9, <1>10, <1>11, <1>12, <1>13, <1>14 DEF FactorNext

(* While a user sets up second factors in one browser, the codes of the app    *)
(* that are asked for are those it shows, and dead backup codes are refused    *)
(* (setup_totp(), enable_totp() and disable_totp() in two_factor.py).          *)
THEOREM FactorsHoldInOneBrowser ==
    ASSUME \A x, y \in Enrolling : x = y
    PROVE  FactorSpec => []FactorsHold
<1>1. HeldInv => FactorsHold
  BY DEF HeldInv, CodeInv, VisitFits, CodesWorkOnce, FactorsHold, At, Browsing
<1> QED
  BY <1>1, HeldInitially, HeldInductive, PTL DEF FactorSpec
=============================================================================
