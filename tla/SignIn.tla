------------------------------- MODULE SignIn -------------------------------
(***************************************************************************)
(* How failed sign-ins lock an address or an account (app.py: login(),     *)
(* tfa_verify(), reauth() and the lists of failed attempts behind them).   *)
(*                                                                         *)
(* A request tests the lists, checks the password or the code, which takes *)
(* time and holds no lock, and then adds to the lists or empties them.     *)
(* Lists are cut back to their window only by the test.  The settings a    *)
(* request reads and the list it then locks are one step here.             *)
(***************************************************************************)
EXTENDS Naturals, Sequences, FiniteSets

CONSTANTS Clients,       \* browsers, each with one request at a time
          Addresses, UserNames,
          TwoFactor,     \* the users with a second factor
          IpLimit, IpWindow, UserLimits, UserWindow,
          MaxCodes,      \* wrong codes before the password is asked again
          MaxKeys        \* lists kept before all are dropped

ASSUME SignInBounds ==
    /\ TwoFactor \subseteq UserNames /\ UserLimits # {} /\ Addresses \cap UserNames = {}
    /\ UserLimits \subseteq Nat \ {0} /\ {IpLimit, IpWindow, UserWindow, MaxCodes, MaxKeys} \subseteq Nat \ {0}

VARIABLES attempts,   \* _login_attempts: the age of each failure, oldest first
          userLimit,  \* lockout_attempts of the settings
          attempt,    \* what each client's request is doing
          codeDue,    \* the password was right, and the code is due: in the cookie
          wrongCodes, \* _2fa_failures, in the cookie as well
          reported,   \* history: the locks that were reported ...
          lowered     \* ... and those that a lower limit made

signInVars == <<attempts, userLimit, attempt, codeDue, wrongCodes, reported, lowered>>

Nobody == "nobody"
ListKeys == Addresses \cup UserNames
Limit(k) == IF k \in Addresses THEN IpLimit ELSE userLimit
Window(k) == IF k \in Addresses THEN IpWindow ELSE UserWindow
NoAttempt == [pc |-> "none", ip |-> Nobody, user |-> Nobody]

SignInInit ==
    /\ attempts = [k \in ListKeys |-> <<>>] /\ userLimit \in UserLimits
    /\ attempt = [c \in Clients |-> NoAttempt]
    /\ codeDue = [c \in Clients |-> Nobody] /\ wrongCodes = [c \in Clients |-> 0]
    /\ reported = {} /\ lowered = {}

-----------------------------------------------------------------------------
(* Entries are in the order they were made, so that those that ran out come     *)
(* first.                                                                       *)
RunOut(k) == Cardinality({i \in DOMAIN attempts[k] : attempts[k][i] >= Window(k)})
Recent(k) == SubSeq(attempts[k], RunOut(k) + 1, Len(attempts[k]))
Locked(k) == Len(Recent(k)) >= Limit(k)

(* _check_rate_limit(): the address first; its lock leaves the other list as it *)
(* is.                                                                          *)
Tested(ip, u) == IF Locked(ip) THEN {ip} ELSE {ip, u}
Throttled(ip, u) == Locked(ip) \/ Locked(u)

\* Mutant: what is refused counts as another failure.
CutAndCounted(ip, u) ==
    [k \in ListKeys |-> IF k \notin Tested(ip, u) THEN attempts[k]
                    ELSE IF Throttled(ip, u) THEN Append(SubSeq(Recent(k), 2, Len(Recent(k))), 0) ELSE Recent(k)]

Cut(ip, u) == [k \in ListKeys |-> IF k \in Tested(ip, u) THEN Recent(k) ELSE attempts[k]]

Below(lists) == {k \in ListKeys : Len(lists[k]) < Limit(k)}
Keeps(lists) == /\ attempts' = lists
                /\ reported' = reported \ Below(lists) /\ lowered' = lowered \ Below(lists)

(* login() and reauth(): the test, ...                                          *)
PostsPassword(c, ip, u) ==
    /\ attempt[c].pc = "none" /\ Keeps(Cut(ip, u))
    /\ attempt' = IF Throttled(ip, u) THEN attempt
                  ELSE [attempt EXCEPT ![c] = [pc |-> "password", ip |-> ip, user |-> u]]
    /\ UNCHANGED <<userLimit, codeDue, wrongCodes>>

(* ... and tfa_verify(): the same, and a refusal forgets the password.          *)
PostsCode(c, ip) ==
    LET u == codeDue[c] IN
    /\ attempt[c].pc = "none" /\ u # Nobody /\ Keeps(Cut(ip, u))
    /\ IF Throttled(ip, u)
       THEN /\ codeDue' = [codeDue EXCEPT ![c] = Nobody] /\ wrongCodes' = [wrongCodes EXCEPT ![c] = 0]
            /\ UNCHANGED attempt
       ELSE /\ attempt' = [attempt EXCEPT ![c] = [pc |-> "code", ip |-> ip, user |-> u]]
            /\ UNCHANGED <<codeDue, wrongCodes>>
    /\ UNCHANGED userLimit

Ended(c) == attempt' = [attempt EXCEPT ![c] = NoAttempt]

(* _clear_login_attempts()                                                      *)
Cleared(ip, u) == [k \in ListKeys |-> IF k \in {ip, u} THEN <<>> ELSE attempts[k]]

(* The password is right: signed in, or a code is due.                          *)
PasswordRight(c) ==
    LET q == attempt[c] IN
    /\ q.pc = "password" /\ Ended(c) /\ Keeps(Cleared(q.ip, q.user))
    /\ codeDue' = [codeDue EXCEPT ![c] = IF q.user \in TwoFactor THEN q.user ELSE Nobody]
    /\ wrongCodes' = IF q.user \in TwoFactor THEN wrongCodes ELSE [wrongCodes EXCEPT ![c] = 0]
    /\ UNCHANGED userLimit

CodeRight(c) ==
    LET q == attempt[c] IN
    /\ q.pc = "code" /\ Ended(c) /\ Keeps(Cleared(q.ip, q.user))
    /\ codeDue' = [codeDue EXCEPT ![c] = Nobody] /\ wrongCodes' = [wrongCodes EXCEPT ![c] = 0]
    /\ UNCHANGED userLimit

(* webauthn_authentication_verify(): a security key instead of a code.          *)
KeyRight(c) ==
    /\ attempt[c].pc = "none" /\ codeDue[c] # Nobody
    /\ codeDue' = [codeDue EXCEPT ![c] = Nobody] /\ wrongCodes' = [wrongCodes EXCEPT ![c] = 0]
    /\ UNCHANGED <<attempts, userLimit, attempt, reported, lowered>>

(* _record_failed_login(): too many lists are dropped all at once, ...          *)
AttemptsKept == IF Cardinality({k \in ListKeys : attempts[k] # <<>>}) > MaxKeys THEN [k \in ListKeys |-> <<>>] ELSE attempts
Recorded(ip, u) == [k \in ListKeys |-> IF k \in {ip, u} THEN Append(AttemptsKept[k], 0) ELSE AttemptsKept[k]]

\* Mutant: a lock is reported by the failure after the one that made it.
ReportsLater(lists, ip, u) == {k \in {ip, u} : Len(lists[k]) = Limit(k) + 1}

(* ... and "each lockout is reported once, when the limit is first reached".    *)
Reports(lists, ip, u) == {k \in {ip, u} : Len(lists[k]) = Limit(k)}

Fails(c) ==
    LET q == attempt[c]
        lists == Recorded(q.ip, q.user) IN
    /\ q.pc # "none" /\ Ended(c)
    /\ attempts' = lists
    /\ reported' = (reported \ Below(lists)) \cup Reports(lists, q.ip, q.user)
    /\ lowered' = lowered \ Below(lists)
    /\ IF q.pc = "password" THEN UNCHANGED <<codeDue, wrongCodes>>
       ELSE IF wrongCodes[c] + 1 >= MaxCodes
       THEN codeDue' = [codeDue EXCEPT ![c] = Nobody] /\ wrongCodes' = [wrongCodes EXCEPT ![c] = 0]
       ELSE wrongCodes' = [wrongCodes EXCEPT ![c] = @ + 1] /\ UNCHANGED codeDue
    /\ UNCHANGED userLimit

(* system_security_settings(): lockout_attempts.                                *)
LimitSet(n) ==
    LET above == {k \in UserNames : Len(attempts[k]) >= n} IN
    /\ userLimit' = n /\ n # userLimit
    /\ reported' = reported \cap (above \cup Addresses)
    /\ lowered' = IF n < userLimit THEN (lowered \cup above) \ reported ELSE lowered \cap above
    /\ UNCHANGED <<attempts, attempt, codeDue, wrongCodes>>

(* Time passes; ages beyond a window are all the same.                          *)
MinutePasses ==
    /\ attempts' = [k \in ListKeys |-> [i \in 1 .. Len(attempts[k]) |->
                        IF attempts[k][i] < Window(k) THEN attempts[k][i] + 1 ELSE Window(k)]]
    /\ UNCHANGED <<userLimit, attempt, codeDue, wrongCodes, reported, lowered>>

(* The lists are in memory, the cookies are not.                                *)
SignInRestart ==
    /\ attempts' = [k \in ListKeys |-> <<>>] /\ attempt' = [c \in Clients |-> NoAttempt]
    /\ reported' = {} /\ lowered' = {}
    /\ UNCHANGED <<userLimit, codeDue, wrongCodes>>

SignInNext ==
    \/ \E c \in Clients :
        \/ PasswordRight(c) \/ CodeRight(c) \/ KeyRight(c) \/ Fails(c)
        \/ \E ip \in Addresses : PostsCode(c, ip) \/ \E u \in UserNames : PostsPassword(c, ip, u)
    \/ \E n \in UserLimits : LimitSet(n)
    \/ MinutePasses \/ SignInRestart

SignInFairness == WF_signInVars(MinutePasses)
SignInSpec == SignInInit /\ [][SignInNext]_signInVars /\ SignInFairness

-----------------------------------------------------------------------------
(* Whatever requests overlap and whenever entries run out, an account or an     *)
(* address is locked only after that was reported, unless somebody made the     *)
(* limit lower than what was already counted.                                   *)
LocksAreReported == \A k \in ListKeys : Locked(k) => k \in reported \cup lowered

(* A lock ends although attempts go on: what is refused is not counted.         *)
LocksEnd == \A k \in ListKeys : Locked(k) ~> ~Locked(k)
=============================================================================
