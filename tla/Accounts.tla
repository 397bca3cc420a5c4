------------------------------ MODULE Accounts ------------------------------
(***************************************************************************)
(* Users, the administrator role and sessions (user_management.py,         *)
(* account_security.py and their routes in app.py).                        *)
(*                                                                         *)
(* A browser's cookie names a user, a session and the password it was      *)
(* signed in with (pw_tag).  Each request checks all three.  The handlers  *)
(* that change an account test first, then write in several transactions.  *)
(***************************************************************************)
EXTENDS Naturals, FiniteSets

CONSTANTS MaxUsers,     \* bound: users ever added
          MaxSessions,  \* bound: sessions ever begun
          MaxPasswords, \* bound: passwords per user
          Browsers,
          AccountRequests,     \* request threads
          Editors       \* those in which users are edited or deleted

ASSUME AccountBounds ==
    /\ MaxUsers \in Nat \ {0} /\ MaxSessions \in Nat \ {0} /\ MaxPasswords \in Nat \ {0}
    /\ Editors \subseteq AccountRequests

VARIABLES account,   \* users and user_roles, by id
          nextUser,  \* users' AUTOINCREMENT counter
          row,       \* user_sessions, by session
          nextSid,
          cookie,    \* what each browser sends
          request,   \* what each request thread is doing
          ended      \* history: the sessions that an answered request has ended

accountVars == <<account, nextUser, row, nextSid, cookie, request, ended>>

UserIds == 1 .. MaxUsers
Sids == 1 .. MaxSessions

NoAccount == [there |-> FALSE, active |-> FALSE, admin |-> FALSE, pw |-> 1]
NoSession == [user |-> 0, revoked |-> FALSE]
NoCookie == [user |-> 0, sid |-> 0, tag |-> 0]
NoChange == [active |-> TRUE, admin |-> FALSE, pw |-> FALSE]
NoRequest == [pc |-> "none", browser |-> 0, me |-> NoCookie, uid |-> 0, sets |-> NoChange]

(* migrate_env_user_to_db()                                                     *)
EnvUser == [there |-> TRUE, active |-> TRUE, admin |-> TRUE, pw |-> 1]

AccountInit ==
    /\ account = [u \in UserIds |-> IF u = 1 THEN EnvUser ELSE NoAccount] /\ nextUser = 2
    /\ row = [s \in Sids |-> NoSession] /\ nextSid = 1
    /\ cookie = [b \in Browsers |-> NoCookie]
    /\ request = [r \in AccountRequests |-> NoRequest]
    /\ ended = {}

-----------------------------------------------------------------------------
ActiveAdmin(u) == account[u].there /\ account[u].active /\ account[u].admin

\* Mutant: accounts that are switched off count as administrators.
AnyOtherAdmins(uid) == {u \in UserIds \ {uid} : account[u].there /\ account[u].admin}

(* _other_active_admins()                                                       *)
OtherActiveAdmins(uid) == {u \in UserIds \ {uid} : ActiveAdmin(u)}

(* _session_is_valid(), but for the session's age.                              *)
SignedIn(b) ==
    LET c == cookie[b] IN
    /\ c.user # 0 /\ account[c.user].there /\ account[c.user].active /\ c.tag = account[c.user].pw
    /\ row[c.sid].user = c.user /\ ~row[c.sid].revoked

Administers(b) == SignedIn(b) /\ account[cookie[b].user].admin

Revoked(sids) == [s \in Sids |-> IF s \in sids THEN [row[s] EXCEPT !.revoked = TRUE] ELSE row[s]]
SessionsOf(uid) == {s \in Sids : row[s].user = uid}

GoesOn(r, pc) == request' = [request EXCEPT ![r].pc = pc]
Done(r) == request' = [request EXCEPT ![r] = NoRequest]

-----------------------------------------------------------------------------
(* _validate_session(), check_session(): a page clears a cookie that does not   *)
(* work any more, ...                                                           *)
ClearsCookie(b) ==
    /\ cookie[b].user # 0 /\ ~SignedIn(b)
    /\ cookie' = [cookie EXCEPT ![b] = NoCookie]
    /\ UNCHANGED <<account, nextUser, row, nextSid, request, ended>>

Closes(sids) ==
    /\ row' = Revoked(sids) /\ ended' = ended \cup sids
    /\ UNCHANGED <<account, nextUser, nextSid, request>>

(* ... and ends a session that it finds idle for too long, or too old.          *)
TimesOut(b) == SignedIn(b) /\ Closes({cookie[b].sid}) /\ cookie' = [cookie EXCEPT ![b] = NoCookie]

(* login(): the password is right, ...                                          *)
Verifies(r, b, u) ==
    /\ request[r].pc = "none" /\ account[u].there /\ account[u].active
    /\ request' = [request EXCEPT ![r] = [NoRequest EXCEPT !.pc = "signs", !.browser = b, !.uid = u]]
    /\ UNCHANGED <<account, nextUser, row, nextSid, cookie, ended>>

(* ... _complete_authenticated_login(), create_session(), which removes what is *)
(* older than it keeps.  The tag is that of the password the account has by     *)
(* now; a deleted user's is an error.                                           *)
Completes(r, pruned) ==
    LET u == request[r].uid IN
    /\ request[r].pc = "signs" /\ Done(r)
    /\ IF account[u].there
       THEN /\ nextSid \in Sids /\ nextSid' = nextSid + 1
            /\ cookie' = [cookie EXCEPT ![request[r].browser] = [user |-> u, sid |-> nextSid, tag |-> account[u].pw]]
            /\ row' = [s \in Sids |-> IF s = nextSid THEN [NoSession EXCEPT !.user = u]
                                      ELSE IF s \in pruned THEN NoSession ELSE row[s]]
       ELSE UNCHANGED <<nextSid, cookie, row>>
    /\ UNCHANGED <<account, nextUser, ended>>

Logout(b) == SignedIn(b) /\ Closes({cookie[b].sid}) /\ cookie' = [cookie EXCEPT ![b] = NoCookie]

(* users_security_end_session(), system_security_end_session()                  *)
EndsSession(b, s) ==
    /\ SignedIn(b) /\ row[s].user # 0 /\ (row[s].user = cookie[b].user \/ Administers(b))
    /\ Closes({s}) /\ UNCHANGED cookie

(* users_security_end_others(), system_security_sign_out_user()                 *)
SignsOut(b, u) ==
    /\ SignedIn(b) /\ (u = cookie[b].user \/ Administers(b))
    /\ Closes(SessionsOf(u) \ {cookie[b].sid}) /\ UNCHANGED cookie

-----------------------------------------------------------------------------
(* users_add(), create_user(): one transaction.  A name in use adds nobody.     *)
AddsUser(b, sets) ==
    /\ Administers(b) /\ nextUser \in UserIds /\ sets.active /\ ~sets.pw
    /\ account' = [account EXCEPT ![nextUser] = [EnvUser EXCEPT !.admin = sets.admin]]
    /\ nextUser' = nextUser + 1
    /\ UNCHANGED <<row, nextSid, cookie, request, ended>>

TakesAwayAdmin(sets) == ~sets.admin \/ ~sets.active

(* users_edit(): tests, ...                                                     *)
EditsUser(r, b, u, sets) ==
    /\ request[r].pc = "none" /\ r \in Editors /\ Administers(b) /\ account[u].there
    /\ ActiveAdmin(u) /\ TakesAwayAdmin(sets) => OtherActiveAdmins(u) # {}
    /\ request' = [request EXCEPT ![r] = [pc |-> "updates", browser |-> b, me |-> cookie[b], uid |-> u, sets |-> sets]]
    /\ UNCHANGED <<account, nextUser, row, nextSid, cookie, ended>>

(* ... update_user(), which a name in use makes fail, ...                       *)
Updates(r) ==
    LET q == request[r] IN
    /\ q.pc = "updates" /\ (q.sets.pw => account[q.uid].pw < MaxPasswords)
    /\ \/ Done(r) /\ UNCHANGED account
       \/ /\ account' = [account EXCEPT ![q.uid].active = q.sets.active, ![q.uid].pw = IF q.sets.pw THEN @ + 1 ELSE @]
          /\ GoesOn(r, "roles")
    /\ UNCHANGED <<nextUser, row, nextSid, cookie, ended>>

Own(q) == IF q.me.user = q.uid THEN {q.me.sid} ELSE {}

EndsSessions(sets) == ~sets.active \/ sets.pw

(* "A reset password or a disabled account ends every session of that user",    *)
(* but for one's own: what the answer promises, whatever the handler did.       *)
Promised(q) == IF EndsSessions(q.sets) THEN SessionsOf(q.uid) \ Own(q) ELSE {}

\* Mutant: only a new password ends the sessions of an account.
OnlyPasswordRevokes(sets) == sets.pw

RevokesAfter(sets) == EndsSessions(sets)

(* ... set_user_roles(), ...                                                    *)
SetsRoles(r) ==
    LET q == request[r] IN
    /\ q.pc = "roles"
    /\ account' = [account EXCEPT ![q.uid].admin = q.sets.admin]
    /\ IF RevokesAfter(q.sets) THEN GoesOn(r, "revokes") /\ UNCHANGED ended
       ELSE Done(r) /\ ended' = ended \cup Promised(q)
    /\ UNCHANGED <<nextUser, row, nextSid, cookie>>

(* ... revoke_user_sessions().                                                  *)
Revokes(r) ==
    LET q == request[r] IN
    /\ q.pc = "revokes" /\ Done(r)
    /\ row' = Revoked(SessionsOf(q.uid) \ Own(q)) /\ ended' = ended \cup Promised(q)
    /\ UNCHANGED <<account, nextUser, nextSid, cookie>>

(* users_delete(), delete_user(): never oneself, nor the last administrator.    *)
DeletesUser(r, b, u) ==
    /\ request[r].pc = "none" /\ r \in Editors /\ Administers(b) /\ account[u].there /\ u # cookie[b].user
    /\ ActiveAdmin(u) => OtherActiveAdmins(u) # {}
    /\ request' = [request EXCEPT ![r] = [NoRequest EXCEPT !.pc = "deletes", !.uid = u]]
    /\ UNCHANGED <<account, nextUser, row, nextSid, cookie, ended>>

DeletesRows(r) ==
    LET u == request[r].uid IN
    /\ request[r].pc = "deletes" /\ Done(r)
    /\ account' = [account EXCEPT ![u] = NoAccount]
    /\ row' = [s \in Sids |-> IF row[s].user = u THEN NoSession ELSE row[s]]
    /\ ended' = ended \cup SessionsOf(u)
    /\ UNCHANGED <<nextUser, nextSid, cookie>>

(* users_profile(): one's own password, ...                                     *)
ChangesPassword(r, b) ==
    LET u == cookie[b].user IN
    /\ request[r].pc = "none" /\ SignedIn(b) /\ account[u].pw < MaxPasswords
    /\ account' = [account EXCEPT ![u].pw = @ + 1]
    /\ request' = [request EXCEPT ![r] = [pc |-> "tags", browser |-> b, me |-> cookie[b], uid |-> u, sets |-> NoChange]]
    /\ UNCHANGED <<nextUser, row, nextSid, cookie, ended>>

(* ... the tag of what the database then has, for this session to go on, and    *)
(* an end to the others.  An account deleted meanwhile is an error.             *)
Tags(r) ==
    LET q == request[r]
        sids == SessionsOf(q.uid) \ {q.me.sid} IN
    /\ q.pc = "tags" /\ Done(r)
    /\ IF account[q.uid].there
       THEN /\ cookie' = [cookie EXCEPT ![q.browser] = [q.me EXCEPT !.tag = account[q.uid].pw]]
            /\ row' = Revoked(sids) /\ ended' = ended \cup sids
       ELSE UNCHANGED <<cookie, row, ended>>
    /\ UNCHANGED <<account, nextUser, nextSid>>

(* The process starts again: migrate_env_user_to_db().  DASHBOARD_USERNAME may  *)
(* still be somebody's name, or its account was renamed or deleted.             *)
AccountRestart ==
    /\ request' = [r \in AccountRequests |-> NoRequest]
    /\ \/ (\E u \in UserIds : account[u].there) /\ UNCHANGED <<account, nextUser>>
       \/ nextUser \in UserIds /\ account' = [account EXCEPT ![nextUser] = EnvUser] /\ nextUser' = nextUser + 1
    /\ UNCHANGED <<row, nextSid, cookie, ended>>

AccountChanges == [active : BOOLEAN, admin : BOOLEAN, pw : BOOLEAN]

RequestStep(r) ==
    \/ (\E pruned \in SUBSET Sids : Completes(r, pruned)) \/ Updates(r) \/ SetsRoles(r) \/ Revokes(r) \/ DeletesRows(r) \/ Tags(r)
    \/ \E b \in Browsers :
        \/ ChangesPassword(r, b)
        \/ \E u \in UserIds : \/ Verifies(r, b, u) \/ DeletesUser(r, b, u)
                              \/ \E sets \in AccountChanges : EditsUser(r, b, u, sets)

AccountNext ==
    \/ \E r \in AccountRequests : RequestStep(r)
    \/ \E b \in Browsers :
        \/ ClearsCookie(b) \/ TimesOut(b) \/ Logout(b)
        \/ \E s \in Sids : EndsSession(b, s)
        \/ \E u \in UserIds : SignsOut(b, u)
        \/ \E sets \in AccountChanges : AddsUser(b, sets)
    \/ AccountRestart

AccountSpec == AccountInit /\ [][AccountNext]_accountVars

-----------------------------------------------------------------------------
(* The type of the state; ids not given out yet are nobody's.                   *)
AccountTypeOK ==
    /\ account \in [UserIds -> [there : BOOLEAN, active : BOOLEAN, admin : BOOLEAN, pw : 1 .. MaxPasswords]]
    /\ row \in [Sids -> [user : 0 .. MaxUsers, revoked : BOOLEAN] ]
    /\ cookie \in [Browsers -> [user : 0 .. MaxUsers, sid : 0 .. MaxSessions, tag : 0 .. MaxPasswords]]
    /\ \A r \in AccountRequests : request[r].pc \in {"none", "signs", "updates", "roles", "revokes", "deletes", "tags"}
    /\ \A u \in UserIds : u >= nextUser => ~account[u].there
    /\ \A s \in Sids : s >= nextSid => row[s].user = 0 /\ s \notin ended

(* While accounts are edited and deleted one at a time, an active administrator *)
(* always remains, also when users_edit() stops between its transactions.       *)
SomeAdminLeft == \E u \in UserIds : ActiveAdmin(u)

(* A session that logging out, signing out, a new password, or switching off or *)
(* deleting the account has ended never works again: not when the account is    *)
(* switched on again, nor through a password change that was under way.         *)
EndedStaysEnded == \A b \in Browsers : cookie[b].sid \in ended => ~SignedIn(b)
=============================================================================
