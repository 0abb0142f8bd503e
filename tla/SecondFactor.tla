---------------------------- MODULE SecondFactor ----------------------------
(***************************************************************************)
(* Signing in and the second factor of one user: POST /auth/login, the     *)
(* challenge tokens it hands out, /auth/select-tenant, the four /auth/mfa  *)
(* routes and the password reset that runs beside them.                    *)
(*                                                                         *)
(* Challenge tokens are signed and not stored: nothing revokes one before  *)
(* it expires, and one may be used many times.                             *)
(***************************************************************************)
EXTENDS Naturals, FiniteSets

CONSTANTS
  Requests,
  Companies,    \* number of active memberships of the user
  NCodes,       \* recovery codes of one enrolment
  MaxPasswords, \* bound: passwords the user ever has
  MaxSecrets    \* bound: TOTP secrets ever drawn

\* What the constants must satisfy.
FactorAssumption ==
  /\ Companies \in Nat \ {0} /\ NCodes \in Nat \ {0}
  /\ MaxPasswords \in Nat \ {0} /\ MaxSecrets \in Nat

VARIABLES
  password,   \* version of password_hash
  mfa_enabled,
  secret,     \* mfa_secret_encrypted: which secret, 0 is NULL
  drawn,      \* secrets shown to the user so far
  codes,      \* unused recovery codes: <<secret, number>>
  challenge,  \* unexpired challenge tokens
  sess,       \* active sessions
  req,        \* requests in progress
  proved,     \* history: the secret of the last successful confirmation
  spent       \* history: times each recovery code was accepted

vars == <<password, mfa_enabled, secret, drawn, codes, challenge, sess, req,
          proved, spent>>

Codes == (1 .. MaxSecrets) \X (1 .. NCodes)

\* pw: the password that was checked; off: MFA was off when it was; factor: a
\* second factor was checked; at: the password in force at the issue.
Challenge == [purpose : {"mfa_challenge", "tenant_selection"},
              pw : 1 .. MaxPasswords, off : BOOLEAN, factor : BOOLEAN]
Session   == [pw : 1 .. MaxPasswords, off : BOOLEAN, factor : BOOLEAN,
              at : 1 .. MaxPasswords]

Idle == [op |-> "idle"]
Request ==
       {Idle}
  \cup [op : {"login"}, pw : 1 .. MaxPasswords, off : BOOLEAN]
  \cup [op : {"verify"}, challenge : Challenge]

Init ==
  /\ password = 1 /\ mfa_enabled = FALSE /\ secret = 0 /\ drawn = 0
  /\ codes = {} /\ challenge = {} /\ sess = {}
  /\ req = [r \in Requests |-> Idle]
  /\ proved = 0
  /\ spent = [c \in Codes |-> 0]

\* /auth/mfa/verify holds the row of the user from its first statement on.
UserFree == \A r \in Requests : req[r].op # "verify"

factorState == <<mfa_enabled, secret, drawn, codes, proved, spent>>

-----------------------------------------------------------------------------
(* Signing in.                                                             *)

\* The password is checked against a row read without a lock.
LoginRead(r) ==
  /\ req[r] = Idle
  /\ req' = [req EXCEPT ![r] = [op |-> "login", pw |-> password, off |-> ~mfa_enabled]]
  /\ UNCHANGED <<password, challenge, sess, factorState>>

NewSession(pw, off, factor) ==
  [pw |-> pw, off |-> off, factor |-> factor, at |-> password]

\* One membership gives a session, several give a token to choose with.
Enter(pw, off, factor) ==
  IF Companies = 1
  THEN sess' = sess \cup {NewSession(pw, off, factor)} /\ UNCHANGED challenge
  ELSE /\ challenge' = challenge \cup {[purpose |-> "tenant_selection", pw |-> pw,
                                        off |-> off, factor |-> factor]}
       /\ UNCHANGED sess

\* Mutant: the companies are looked at before MFA.
LoginAnswerHasty(r) == Enter(req[r].pw, req[r].off, FALSE)

LoginAnswer(r) ==
  IF req[r].off
  THEN Enter(req[r].pw, TRUE, FALSE)
  ELSE /\ challenge' = challenge \cup {[purpose |-> "mfa_challenge",
                          pw |-> req[r].pw, off |-> FALSE, factor |-> FALSE]}
       /\ UNCHANGED sess

\* The update of last_login_at waits for the row.
LoginFinish(r) ==
  /\ req[r].op = "login"
  /\ UserFree
  /\ LoginAnswer(r)
  /\ req' = [req EXCEPT ![r] = Idle]
  /\ UNCHANGED <<password, factorState>>

SelectTenant(c) ==
  /\ c \in challenge
  /\ c.purpose = "tenant_selection"
  /\ sess' = sess \cup {NewSession(c.pw, c.off, c.factor)}
  /\ UNCHANGED <<password, challenge, req, factorState>>

ChallengeExpires(c) ==
  /\ c \in challenge
  /\ challenge' = challenge \ {c}
  /\ UNCHANGED <<password, sess, req, factorState>>

VerifyBegin(r, c) ==
  /\ req[r] = Idle
  /\ c \in challenge /\ c.purpose = "mfa_challenge"
  /\ UserFree
  /\ mfa_enabled
  /\ req' = [req EXCEPT ![r] = [op |-> "verify", challenge |-> c]]
  /\ UNCHANGED <<password, challenge, sess, factorState>>

\* Mutant: used_at is not looked at.
UsableAgain(c) == mfa_enabled /\ c[1] = secret

Usable(c) == c \in codes

Spend(c) ==
  /\ Usable(c)
  /\ codes' = codes \ {c}
  /\ spent' = [spent EXCEPT ![c] = @ + 1]

\* A TOTP code, which stays valid for its window, or a recovery code.
CheckFactor == \/ UNCHANGED <<codes, spent>>
               \/ \E c \in Codes : Spend(c)

VerifyFinish(r) ==
  /\ req[r].op = "verify"
  /\ CheckFactor
  /\ Enter(req[r].challenge.pw, req[r].challenge.off, TRUE)
  /\ req' = [req EXCEPT ![r] = Idle]
  /\ UNCHANGED <<password, mfa_enabled, secret, drawn, proved>>

\* A wrong code, or a lost process.
GiveUp(r) ==
  /\ req[r] # Idle
  /\ req' = [req EXCEPT ![r] = Idle]
  /\ UNCHANGED <<password, challenge, sess, factorState>>

-----------------------------------------------------------------------------
(* Managing the factor, from a session; each locks the user first.         *)

\* Mutant: enrolment replaces the secret of an enabled factor.
EnrollableAlways == TRUE

Enrollable == ~mfa_enabled

Enroll ==
  /\ sess # {} /\ UserFree
  /\ Enrollable
  /\ drawn < MaxSecrets
  /\ drawn' = drawn + 1
  /\ secret' = drawn + 1
  /\ codes' = {}
  /\ UNCHANGED <<password, mfa_enabled, challenge, sess, req, proved, spent>>

FreshCodes == {c \in Codes : c[1] = secret}

\* The code was made with a secret the user was shown.
Confirm(shown) ==
  /\ sess # {} /\ UserFree
  /\ ~mfa_enabled /\ secret # 0
  /\ shown = secret
  /\ mfa_enabled' = TRUE
  /\ codes' = FreshCodes
  /\ proved' = shown
  /\ UNCHANGED <<password, secret, drawn, challenge, sess, req, spent>>

\* The rows that remain when the factor is turned off.
LeftCodes == {}

Disable ==
  /\ sess # {} /\ UserFree
  /\ mfa_enabled
  /\ \/ UNCHANGED spent
     \/ \E c \in Codes : Usable(c) /\ spent' = [spent EXCEPT ![c] = @ + 1]
  /\ mfa_enabled' = FALSE
  /\ secret' = 0
  /\ codes' = LeftCodes
  /\ UNCHANGED <<password, drawn, challenge, sess, req, proved>>

\* Mutant: the sessions stay.
KeptSessionsAll == sess

\* The active sessions that a reset leaves (revoke_all_user_sessions).
KeptSessions == {}

ResetPassword ==
  /\ UserFree
  /\ password < MaxPasswords
  /\ password' = password + 1
  /\ sess' = KeptSessions
  /\ UNCHANGED <<challenge, req, factorState>>

Next ==
  \/ \E r \in Requests :
       \/ LoginRead(r) \/ LoginFinish(r) \/ VerifyFinish(r) \/ GiveUp(r)
       \/ \E c \in challenge : VerifyBegin(r, c)
  \/ \E c \in challenge : SelectTenant(c) \/ ChallengeExpires(c)
  \/ \E shown \in 1 .. drawn : Confirm(shown)
  \/ Enroll \/ Disable \/ ResetPassword

Spec == Init /\ [][Next]_vars

-----------------------------------------------------------------------------
\* Every row, token and request has its type.
TypeOK ==
  /\ password \in 1 .. MaxPasswords /\ mfa_enabled \in BOOLEAN
  /\ secret \in 0 .. drawn /\ drawn \in 0 .. MaxSecrets /\ proved \in 0 .. drawn
  /\ codes \subseteq Codes
  /\ challenge \subseteq Challenge /\ sess \subseteq Session
  /\ req \in [Requests -> Request]
  /\ spent \in [Codes -> Nat]

\* A recovery code is accepted once, by verify or by disable, over any number
\* of sign-ins and enrolments (README.md:446).
RecoveryCodeOnce == \A c \in Codes : spent[c] <= 1

\* The factor in force is the one the user proved to hold, and the codes that
\* can be used belong to it: nobody is locked out by a second enrolment.
FactorIsProved ==
  /\ mfa_enabled => secret # 0 /\ secret = proved
  /\ codes # {} => mfa_enabled /\ \A c \in codes : c[1] = secret

\* A session without a second factor goes back to a password that was checked
\* while MFA was off, also by way of a choice of company.
FactorlessWasOff == \A s \in sess : s.factor \/ s.off

\* Every session that is active after a reset was issued after it.  It may
\* still rest on the old password: login read the row without a lock, and the
\* challenge tokens of the old password live on.
SessionsPostdateReset == \A s \in sess : s.at = password
=============================================================================
