----------------------------- MODULE TwoFactor -----------------------------
(***************************************************************************)
(* The second factors of a user (two_factor.py and its pages in app.py):   *)
(* an authenticator app, backup codes, a YubiKey and a security key, and   *)
(* what a sign-in accepts.                                                 *)
(*                                                                         *)
(* Each statement outside a transaction of its own is a step: a request    *)
(* reads, checks and then writes what may have changed meanwhile.  Whether *)
(* a key answers is a choice, and so is whether the user scans the secret; *)
(* sign counters and the logs of attempts are left out.                    *)
(***************************************************************************)
EXTENDS Naturals

CONSTANTS Enrolling,    \* browsers that are signed in
          Entering,     \* browsers that have given the password
          NumCodes,     \* ten in the code
          MaxSecrets,   \* bound
          MaxBatches    \* bound: generations of backup codes

ASSUME FactorBounds == {NumCodes, MaxSecrets, MaxBatches} \subseteq Nat \ {0}

VARIABLES totp,     \* the row of totp_secrets: secrets are numbered, 0 is no row
          codeRows, \* backup_codes
          keyRows,  \* which of the two kinds of keys has a row
          app,      \* the secrets that the authenticator app holds
          seen,     \* the generations of codes that were shown
          pageDue,  \* _backup_codes_list, in the cookie: the generation to be shown
          visit,    \* what each browser's request is at
          batch     \* the last generation

factorVars == <<totp, codeRows, keyRows, app, seen, pageDue, visit, batch>>

Browsing == Enrolling \cup Entering
NoCode == <<0, 0>>
NoVisit == [pc |-> "none", code |-> NoCode, dead |-> {}]

FactorInit ==
    /\ totp = [secret |-> 0, on |-> FALSE] /\ codeRows = {} /\ keyRows = {}
    /\ app = {} /\ seen = {} /\ batch = 0
    /\ pageDue = [v \in Enrolling |-> 0] /\ visit = [v \in Browsing |-> NoVisit]

At(v, pc) == visit[v].pc = pc
Goes(v, pc) == visit' = [visit EXCEPT ![v].pc = pc]
BrowserLeaves(v) == visit' = [visit EXCEPT ![v] = NoVisit]
Begins(v) == v \in Enrolling /\ At(v, "none")

-----------------------------------------------------------------------------
\* Mutant: ON CONFLICT DO UPDATE SET secret, which leaves it enabled.
SecretUpdated(row) == [row EXCEPT !.secret = @ + 1]

(* setup_totp(): INSERT OR REPLACE, also of one that is enabled.              *)
SecretReplaced(row) == [secret |-> row.secret + 1, on |-> FALSE]

SetsUp(v) ==
    /\ Begins(v) /\ totp.secret < MaxSecrets /\ totp' = SecretReplaced(totp)
    /\ UNCHANGED <<codeRows, keyRows, app, seen, pageDue, visit, batch>>

(* tfa_setup() and get_totp_status(): codes are shown once, and a secret that *)
(* is not enabled yet as a picture that the user may scan.                    *)
OpensPage(v) ==
    /\ Begins(v)
    /\ seen' = seen \cup ({pageDue[v]} \ {0}) /\ pageDue' = [pageDue EXCEPT ![v] = 0]
    /\ \/ UNCHANGED app
       \/ totp.secret # 0 /\ ~totp.on /\ app' = app \cup {totp.secret}
    /\ UNCHANGED <<totp, codeRows, keyRows, visit, batch>>

(* verify_totp(): the codes of a secret are its own.                          *)
RightCode(secret, typedFrom) == secret = typedFrom

(* tfa_totp_enable() and enable_totp(): the secret is read and the code of    *)
(* the app is checked, ...                                                    *)
EnableChecks(v, s) ==
    /\ Begins(v) /\ totp.secret # 0 /\ s \in app
    /\ RightCode(totp.secret, s) /\ Goes(v, "enables")
    /\ UNCHANGED <<totp, codeRows, keyRows, app, seen, pageDue, batch>>

(* _generate_backup_codes(): the old ones go, used or not.                    *)
NewCodes == [batch : {batch + 1}, n : 1 .. NumCodes, used : {FALSE}]

(* ... whatever secret is there now is enabled, with codes that nobody sees,  *)
(* in one transaction.                                                        *)
EnablesApp(v) ==
    /\ At(v, "enables") /\ batch < MaxBatches
    /\ totp' = [totp EXCEPT !.on = TRUE]
    /\ codeRows' = NewCodes /\ batch' = batch + 1
    /\ Goes(v, "renews")
    /\ UNCHANGED <<keyRows, app, seen, pageDue>>

(* tfa_backup_regenerate()                                                    *)
AsksForCodes(v) ==
    /\ Begins(v) /\ Goes(v, "renews") /\ UNCHANGED <<totp, codeRows, keyRows, app, seen, pageDue, batch>>

(* regenerate_backup_codes(), and the answer with the cookie.                 *)
Renews(v) ==
    /\ At(v, "renews") /\ batch < MaxBatches
    /\ codeRows' = NewCodes /\ batch' = batch + 1 /\ Goes(v, "answers")
    /\ UNCHANGED <<totp, keyRows, app, seen, pageDue>>

AnswersWithCodes(v) ==
    /\ At(v, "answers") /\ BrowserLeaves(v)
    /\ pageDue' = [pageDue EXCEPT ![v] = batch]
    /\ UNCHANGED <<totp, codeRows, keyRows, app, seen, batch>>

(* disable_totp(): the secret stays, the codes go, though keys may be left.   *)
Disables(v) ==
    /\ Begins(v) /\ totp' = [totp EXCEPT !.on = FALSE] /\ codeRows' = {}
    /\ UNCHANGED <<keyRows, app, seen, pageDue, visit, batch>>

-----------------------------------------------------------------------------
(* tfa_yubikey_register() asks Yubico ...                                     *)
RegistersYubiKey(v) ==
    /\ Begins(v) /\ Goes(v, "asks") /\ UNCHANGED <<totp, codeRows, keyRows, app, seen, pageDue, batch>>

(* ... whose servers are tried in turn, and may all be out of reach; a key    *)
(* that has a row already is refused.                                         *)
YubiKeyAdded(v) ==
    /\ At(v, "asks") /\ BrowserLeaves(v) /\ keyRows' \in {keyRows, keyRows \cup {"yubikey"}}
    /\ UNCHANGED <<totp, codeRows, app, seen, pageDue, batch>>

(* delete_yubikey()                                                           *)
DeletesYubiKey(v) ==
    /\ Begins(v) /\ keyRows' = keyRows \ {"yubikey"} /\ UNCHANGED <<totp, codeRows, app, seen, pageDue, visit, batch>>

(* webauthn_register_options(): a challenge in the cookie, ...                *)
ChallengesToRegister(v) ==
    /\ Begins(v) /\ Goes(v, "touches") /\ UNCHANGED <<totp, codeRows, keyRows, app, seen, pageDue, batch>>

(* ... and webauthn_register_verify(): it expires after five minutes.         *)
SecurityKeyAdded(v) ==
    /\ At(v, "touches")
    /\ \/ "webauthn" \notin keyRows /\ keyRows' = keyRows \cup {"webauthn"} /\ Goes(v, "counts")
       \/ UNCHANGED keyRows /\ BrowserLeaves(v)
    /\ UNCHANGED <<totp, codeRows, app, seen, pageDue, batch>>

Unused == {<<r.batch, r.n>> : r \in {x \in codeRows : ~x.used}}

(* get_backup_codes(): codes are made if there are none.                      *)
CountsCodes(v) ==
    /\ At(v, "counts") /\ (IF Unused = {} THEN Goes(v, "renews") ELSE BrowserLeaves(v))
    /\ UNCHANGED <<totp, codeRows, keyRows, app, seen, pageDue, batch>>

(* delete_webauthn_credential()                                               *)
DeletesSecurityKey(v) ==
    /\ Begins(v) /\ keyRows' = keyRows \ {"webauthn"} /\ UNCHANGED <<totp, codeRows, app, seen, pageDue, visit, batch>>

-----------------------------------------------------------------------------
(* user_has_2fa()                                                             *)
HasFactor == totp.on \/ keyRows # {}

Only(A) == A /\ UNCHANGED <<totp, codeRows, keyRows, app, seen, pageDue, batch>>

(* login(): the password was right, and there is a second factor.             *)
IsAskedForFactor(v) == v \in Entering /\ At(v, "none") /\ HasFactor /\ Only(Goes(v, "asked"))

Result(v, ok) == Goes(v, IF ok THEN "accepted" ELSE "refused")

(* verify_2fa(): a code of the app, ...                                       *)
TypesAppCode(v, s) ==
    /\ At(v, "asked") /\ s \in app /\ Only(Result(v, totp.on /\ RightCode(totp.secret, s)))

(* ... or a backup code that was shown once.                                  *)
Dead == ((1 .. batch) \X (1 .. NumCodes)) \ Unused

TypesBackupCode(v, c) ==
    /\ At(v, "asked") /\ c[1] \in seen
    /\ Only(visit' = [visit EXCEPT ![v] = [pc |-> "selects", code |-> c, dead |-> Dead]])

\* Mutant: the SELECT forgets used=0.
AnyRow(c) == \E r \in codeRows : <<r.batch, r.n>> = c

(* verify_backup_code(): the SELECT ...                                       *)
UnusedRow(c) == \E r \in codeRows : <<r.batch, r.n>> = c /\ ~r.used

SelectsCode(v) ==
    /\ At(v, "selects") /\ Only(Goes(v, IF UnusedRow(visit[v].code) THEN "spends" ELSE "refused"))

(* ... and the UPDATE by id, which may find the row used or gone.             *)
SpendsCode(v) ==
    /\ At(v, "spends") /\ Result(v, TRUE)
    /\ codeRows' = {IF <<r.batch, r.n>> = visit[v].code THEN [r EXCEPT !.used = TRUE] ELSE r : r \in codeRows}
    /\ UNCHANGED <<totp, keyRows, app, seen, pageDue, batch>>

(* verify_yubikey(): the row, and then Yubico.                                *)
PressesYubiKey(v) ==
    /\ At(v, "asked") /\ Only(Goes(v, IF "yubikey" \in keyRows THEN "pressed" ELSE "refused"))

YubicoAnswers(v) == At(v, "pressed") /\ Only(\E ok \in BOOLEAN : Result(v, ok))

(* generate_webauthn_authentication() and verify_webauthn_authentication():   *)
(* a challenge, if there is a key, and its signature, if the key is still     *)
(* there.                                                                     *)
IsChallenged(v) == At(v, "asked") /\ "webauthn" \in keyRows /\ Only(Goes(v, "signs"))

SignsChallenge(v) ==
    /\ At(v, "signs") /\ Only(\E signed \in BOOLEAN : Result(v, signed /\ "webauthn" \in keyRows))

(* _complete_authenticated_login(), or the page once more.                    *)
IsAnswered(v) == \/ At(v, "accepted") /\ Only(BrowserLeaves(v))
                 \/ At(v, "refused") /\ Only(visit' = [visit EXCEPT ![v] = [NoVisit EXCEPT !.pc = "asked"]])

(* The process stops; the cookies stay.                                       *)
FactorRestart ==
    Only(visit' = [v \in Browsing |-> IF v \in Entering /\ ~At(v, "none") THEN [NoVisit EXCEPT !.pc = "asked"] ELSE NoVisit])

FactorNext ==
    \/ \E v \in Enrolling : \/ SetsUp(v) \/ OpensPage(v) \/ EnablesApp(v) \/ AsksForCodes(v) \/ Renews(v)
                            \/ AnswersWithCodes(v) \/ Disables(v) \/ RegistersYubiKey(v) \/ YubiKeyAdded(v)
                            \/ DeletesYubiKey(v) \/ ChallengesToRegister(v) \/ SecurityKeyAdded(v)
                            \/ CountsCodes(v) \/ DeletesSecurityKey(v)
                            \/ \E s \in app : EnableChecks(v, s)
    \/ \E v \in Entering : \/ IsAskedForFactor(v) \/ SelectsCode(v) \/ SpendsCode(v) \/ PressesYubiKey(v)
                           \/ YubicoAnswers(v) \/ IsChallenged(v) \/ SignsChallenge(v) \/ IsAnswered(v)
                           \/ \E s \in app : TypesAppCode(v, s)
                           \/ \E c \in seen \X (1 .. NumCodes) : TypesBackupCode(v, c)
    \/ FactorRestart

FactorSpec == FactorInit /\ [][FactorNext]_factorVars

-----------------------------------------------------------------------------
(* A user is never asked for codes of an app that does not hold the secret,   *)
(* whatever was set up, enabled, set up again and cut off before.             *)
EnabledIsHeld == totp.on => totp.secret \in app

(* "one-time use": a code that was used up, or replaced, before a request     *)
(* came is not accepted by it.                                                *)
CodesWorkOnce == \A v \in Entering : At(v, "accepted") => visit[v].code \notin visit[v].dead

FactorsHold == EnabledIsHeld /\ CodesWorkOnce
=============================================================================
