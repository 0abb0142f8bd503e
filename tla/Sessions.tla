------------------------------ MODULE Sessions ------------------------------
(***************************************************************************)
(* Sessions and their refresh tokens: signing in, rotating, the replay of  *)
(* a consumed token, logging out and resetting the password.               *)
(*                                                                         *)
(*   sign in   (the user's row, by the foreign key)                        *)
(*   rotate    token FOR UPDATE -> (the session's row, by the foreign key) *)
(*   replay    token FOR UPDATE -> session UPDATE -> the family's tokens   *)
(*   logout    session FOR UPDATE -> the session's tokens                  *)
(*   reset     reset token, then user FOR UPDATE -> sessions -> tokens     *)
(*                                                                         *)
(* lists the rows each transaction locks.  The key-share lock that an      *)
(* insert takes through a foreign key conflicts with FOR UPDATE but not    *)
(* with a plain UPDATE of columns outside the key.                         *)
(***************************************************************************)
EXTENDS Naturals, FiniteSets

CONSTANTS
  Users, SessionIds, Tokens, ResetTokens,
  Tx,       \* database sessions
  NoOne     \* SQL NULL

ASSUME SessionsAssumption ==
  /\ NoOne \notin Users \cup SessionIds \cup Tokens \cup ResetTokens \cup Tx
  /\ Users \cap SessionIds = {} /\ Users \cap Tokens = {}
  /\ Users \cap ResetTokens = {} /\ SessionIds \cap Tokens = {}
  /\ SessionIds \cap ResetTokens = {} /\ Tokens \cap ResetTokens = {}

VARIABLES
  status,     \* auth_sessions.status; "absent": no such row
  owner,      \* auth_sessions.user_id
  expired,    \* sessions past expires_at; their tokens expire with them
  family,     \* refresh_tokens.family_id, one per session; NoOne: no such row
  consumed,   \* tokens whose consumed_at is set
  revoked,    \* tokens whose revoked_at is set
  grant,      \* password_reset_tokens.user_id; NoOne: no such row
  used,       \* reset tokens whose used_at is set
  lock,       \* row -> the transaction that holds its lock, or NoOne
  tx,         \* the transactions: the step each is at and what it read
  resets,     \* history: committed resets per user
  born,       \* history: resets of the owner when the session was created
  loggedOut   \* history: sessions whose logout committed

rows    == <<status, owner, expired, family, consumed, revoked, grant, used>>
history == <<resets, born, loggedOut>>
vars    == <<status, owner, expired, family, consumed, revoked, grant, used,
             lock, tx, resets, born, loggedOut>>

Rows == Users \cup SessionIds \cup Tokens \cup ResetTokens

Idle == [op |-> "idle"]

\* targets, sessions: the rows an UPDATE found when it started; it waits for
\* those that are locked and never sees one inserted meanwhile.
Work ==
       {Idle}
  \cup [op : {"signing"}, u : Users]
  \cup [op : {"rotating", "replaying"}, k : Tokens, s : SessionIds]
  \cup [op : {"replay"}, k : Tokens, s : SessionIds, targets : SUBSET Tokens]
  \cup [op : {"leaving"}, s : SessionIds]
  \cup [op : {"logout"}, s : SessionIds, targets : SUBSET Tokens]
  \cup [op : {"redeeming"}, r : ResetTokens, u : Users]
  \cup [op : {"resetting"}, r : ResetTokens, u : Users,
        sessions : SUBSET SessionIds]
  \cup [op : {"reset"}, r : ResetTokens, u : Users,
        sessions : SUBSET SessionIds, targets : SUBSET Tokens]

Init ==
  /\ status   = [s \in SessionIds |-> "absent"]
  /\ owner    \in [SessionIds -> Users]
  /\ expired  = {}
  /\ family   = [k \in Tokens |-> NoOne]
  /\ consumed = {}
  /\ revoked  = {}
  /\ grant    = [r \in ResetTokens |-> NoOne]
  /\ used     = {}
  /\ lock     = [r \in Rows |-> NoOne]
  /\ tx       = [t \in Tx |-> Idle]
  /\ resets   = [u \in Users |-> 0]
  /\ born     = [s \in SessionIds |-> 0]
  /\ loggedOut = {}

-----------------------------------------------------------------------------
(* Transactions.                                                           *)

Available(t, r) == lock[r] \in {NoOne, t}
Lock(t, set)    == lock' = [r \in Rows |-> IF r \in set THEN t ELSE lock[r]]
Goto(t, work)   == tx' = [tx EXCEPT ![t] = work]

\* Commit and rollback release every row lock of the transaction.
End(t) ==
  /\ Goto(t, Idle)
  /\ lock' = [r \in Rows |-> IF lock[r] = t THEN NoOne ELSE lock[r]]

FamilyOf(s) == {k \in Tokens : family[k] = s}

\* Only logout locks the session's row FOR UPDATE.
ForUpdate(s) == \E t \in Tx : lock[s] = t /\ tx[t].op = "logout"

\* validate_access_session.  No code deactivates a user or a membership.
Valid(s) == status[s] = "active" /\ s \notin expired

-----------------------------------------------------------------------------
(* Signing in: login, mfa_verify and select_tenant.                        *)

\* The password, the second factor or the challenge token was accepted.
SignInBegin(t, u) ==
  /\ tx[t] = Idle
  /\ Goto(t, [op |-> "signing", u |-> u])
  /\ UNCHANGED <<rows, history, lock>>

\* issue_session_pair inserts the session and the first token of its family.
CreateSession(t, s, k) ==
  /\ tx[t].op = "signing"
  /\ status[s] = "absent"
  /\ family[k] = NoOne
  /\ status' = [status EXCEPT ![s] = "active"]
  /\ owner'  = [owner EXCEPT ![s] = tx[t].u]
  /\ born'   = [born EXCEPT ![s] = resets[tx[t].u]]
  /\ family' = [family EXCEPT ![k] = s]
  /\ End(t)
  /\ UNCHANGED <<expired, consumed, revoked, grant, used, resets, loggedOut>>

\* Mutant: the new session does not wait for the user's row.
SignInUnlocked(t, s, k) == CreateSession(t, s, k)

\* The session references the user, whose row a reset may hold.
SignIn(t, s, k) == CreateSession(t, s, k) /\ Available(t, tx[t].u)

Expire(s) ==
  /\ status[s] # "absent"
  /\ s \notin expired
  /\ expired' = expired \cup {s}
  /\ UNCHANGED <<status, owner, family, consumed, revoked, grant, used, lock,
                 tx, history>>

-----------------------------------------------------------------------------
(* rotate_refresh_token                                                    *)

\* A token never used before, of a valid session.
Refreshable(k) ==
  /\ family[k] # NoOne
  /\ k \notin consumed \cup revoked
  /\ Valid(family[k])

\* Mutant: the token is read without FOR UPDATE.
RotateBeginUnlocked(t, k) ==
  /\ tx[t] = Idle
  /\ Refreshable(k)
  /\ Goto(t, [op |-> "rotating", k |-> k, s |-> family[k]])
  /\ UNCHANGED <<rows, history, lock>>

RotateBegin(t, k) ==
  /\ tx[t] = Idle
  /\ lock[k] = NoOne
  /\ Refreshable(k)
  /\ Goto(t, [op |-> "rotating", k |-> k, s |-> family[k]])
  /\ Lock(t, {k})
  /\ UNCHANGED <<rows, history>>

\* The replacement references the session, which must not be locked FOR UPDATE.
Rotate(t, n) ==
  /\ tx[t].op = "rotating"
  /\ ~ForUpdate(tx[t].s)
  /\ family[n] = NoOne
  /\ consumed' = consumed \cup {tx[t].k}
  /\ family'   = [family EXCEPT ![n] = tx[t].s]
  /\ End(t)
  /\ UNCHANGED <<status, owner, expired, revoked, grant, used, history>>

\* A consumed token is presented again.
ReplayBegin(t, k) ==
  /\ tx[t] = Idle
  /\ family[k] # NoOne
  /\ lock[k] = NoOne
  /\ k \in consumed
  /\ Goto(t, [op |-> "replaying", k |-> k, s |-> family[k]])
  /\ Lock(t, {k})
  /\ UNCHANGED <<rows, history>>

\* The session is updated; the UPDATE of the family starts.
ReplayLocks(t) ==
  LET s == tx[t].s IN
  /\ tx[t].op = "replaying"
  /\ lock[s] = NoOne
  /\ Goto(t, [op |-> "replay", k |-> tx[t].k, s |-> s, targets |-> FamilyOf(s)])
  /\ Lock(t, {s})
  /\ UNCHANGED <<rows, history>>

\* The session is revoked, with the tokens the UPDATE found.
Revoke(t) ==
  /\ \A k \in tx[t].targets : Available(t, k)
  /\ status'  = [status EXCEPT ![tx[t].s] = "revoked"]
  /\ revoked' = revoked \cup tx[t].targets
  /\ UNCHANGED <<owner, expired, family, consumed, grant, used, resets, born>>

Replay(t) ==
  /\ tx[t].op = "replay"
  /\ Revoke(t)
  /\ End(t)
  /\ UNCHANGED loggedOut

-----------------------------------------------------------------------------
(* POST /auth/logout: revoke_session                                       *)

\* require_current_identity validates the session before it is locked.
LogoutBegin(t, s) ==
  /\ tx[t] = Idle
  /\ Valid(s)
  /\ Goto(t, [op |-> "leaving", s |-> s])
  /\ UNCHANGED <<rows, history, lock>>

\* Mutant: the tokens are collected and the session is not locked.
LogoutUnlocked(t) ==
  LET s == tx[t].s IN
  /\ tx[t].op = "leaving"
  /\ Goto(t, [op |-> "logout", s |-> s, targets |-> FamilyOf(s)])
  /\ UNCHANGED <<rows, history, lock>>

LogoutLocks(t) ==
  LET s == tx[t].s IN
  /\ tx[t].op = "leaving"
  /\ lock[s] = NoOne
  /\ Goto(t, [op |-> "logout", s |-> s, targets |-> FamilyOf(s)])
  /\ Lock(t, {s})
  /\ UNCHANGED <<rows, history>>

Logout(t) ==
  /\ tx[t].op = "logout"
  /\ Revoke(t)
  /\ loggedOut' = loggedOut \cup {tx[t].s}
  /\ End(t)

-----------------------------------------------------------------------------
(* Password reset: issue_password_reset_token, reset_password              *)

IssueReset(r, u) ==
  /\ grant[r] = NoOne
  /\ grant' = [grant EXCEPT ![r] = u]
  /\ UNCHANGED <<status, owner, expired, family, consumed, revoked, used, lock,
                 tx, history>>

OwnedBy(u) == {s \in SessionIds : status[s] # "absent" /\ owner[s] = u}

\* Mutant: the reset token is read without FOR UPDATE.
ResetBeginUnlocked(t, r) ==
  /\ tx[t] = Idle
  /\ grant[r] # NoOne
  /\ r \notin used
  /\ Goto(t, [op |-> "redeeming", r |-> r, u |-> grant[r]])
  /\ UNCHANGED <<rows, history, lock>>

\* The token is locked and unused.
Redeem(t, r) ==
  /\ tx[t] = Idle
  /\ lock[r] = NoOne
  /\ r \notin used
  /\ Goto(t, [op |-> "redeeming", r |-> r, u |-> grant[r]])
  /\ Lock(t, {r})
  /\ UNCHANGED <<rows, history>>

\* Mutant: a reset token nobody issued is accepted.
ResetBeginUnknown(t, r) == Redeem(t, r)

\* That the token has not expired is left to chance.
ResetBegin(t, r) == grant[r] # NoOne /\ Redeem(t, r)

\* The user is locked; the UPDATE of the sessions starts.
ResetUser(t) ==
  LET u == tx[t].u IN
  /\ tx[t].op = "redeeming"
  /\ lock[u] = NoOne
  /\ Goto(t, [op |-> "resetting", r |-> tx[t].r, u |-> u, sessions |-> OwnedBy(u)])
  /\ Lock(t, {u})
  /\ UNCHANGED <<rows, history>>

\* revoke_all_user_sessions updates the sessions, then their tokens.
ResetSessions(t) ==
  /\ tx[t].op = "resetting"
  /\ \A s \in tx[t].sessions : lock[s] = NoOne
  /\ Goto(t, [op |-> "reset", r |-> tx[t].r, u |-> tx[t].u,
              sessions |-> tx[t].sessions,
              targets  |-> UNION {FamilyOf(s) : s \in OwnedBy(tx[t].u)}])
  /\ Lock(t, tx[t].sessions)
  /\ UNCHANGED <<rows, history>>

Reset(t) ==
  /\ tx[t].op = "reset"
  /\ \A k \in tx[t].targets : Available(t, k)
  /\ status'  = [s \in SessionIds |->
                   IF s \in tx[t].sessions THEN "revoked" ELSE status[s]]
  /\ revoked' = revoked \cup tx[t].targets
  /\ used'    = used \cup {tx[t].r}
  /\ resets'  = [resets EXCEPT ![tx[t].u] = @ + 1]
  /\ End(t)
  /\ UNCHANGED <<owner, expired, family, consumed, grant, born, loggedOut>>

-----------------------------------------------------------------------------
\* A crash, a deadlock or a refused request.
Rollback(t) ==
  /\ tx[t] # Idle
  /\ End(t)
  /\ UNCHANGED <<rows, history>>

Next ==
  \/ \E t \in Tx :
       \/ \E u \in Users : SignInBegin(t, u)
       \/ \E s \in SessionIds, k \in Tokens : SignIn(t, s, k)
       \/ \E k \in Tokens : RotateBegin(t, k) \/ Rotate(t, k) \/ ReplayBegin(t, k)
       \/ ReplayLocks(t) \/ Replay(t)
       \/ \E s \in SessionIds : LogoutBegin(t, s)
       \/ LogoutLocks(t) \/ Logout(t)
       \/ \E r \in ResetTokens : ResetBegin(t, r)
       \/ ResetUser(t) \/ ResetSessions(t) \/ Reset(t)
       \/ Rollback(t)
  \/ \E s \in SessionIds : Expire(s)
  \/ \E r \in ResetTokens, u \in Users : IssueReset(r, u)

Spec == Init /\ [][Next]_vars

-----------------------------------------------------------------------------
(* Waiting.  PostgreSQL grants a row lock to the transactions queued for   *)
(* it in turn, and aborts a member of every cycle of waiting transactions. *)

\* The rows a transaction must lock in its next step.
Wanted(t) ==
  CASE tx[t].op \in {"signing", "redeeming"} -> {tx[t].u}
    [] tx[t].op = "rotating"  -> {s \in {tx[t].s} : ForUpdate(s)}
    [] tx[t].op \in {"replaying", "leaving"} -> {tx[t].s}
    [] tx[t].op = "resetting" -> tx[t].sessions
    [] tx[t].op \in {"replay", "logout", "reset"} -> tx[t].targets
    [] OTHER -> {}

WaitsFor(t, u) == t # u /\ \E r \in Wanted(t) : lock[r] = u

Stuck(S) == \A t \in S : \E u \in S : WaitsFor(t, u)

DeadlockVictim(t) ==
  /\ \E S \in SUBSET Tx :
       /\ t \in S /\ Stuck(S)
       /\ \A R \in SUBSET S : R \notin {{}, S} => ~Stuck(R)
  /\ Rollback(t)

\* Bound: no identifier is left for the row the next step of t inserts.
NoIdLeft(t) ==
  \/ /\ tx[t].op \in {"signing", "rotating"}
     /\ \A k \in Tokens : family[k] # NoOne
  \/ /\ tx[t].op = "signing"
     /\ \A s \in SessionIds : status[s] # "absent"

Proceed(t) ==
  \/ \E s \in SessionIds, k \in Tokens : SignIn(t, s, k)
  \/ \E k \in Tokens : Rotate(t, k)
  \/ ReplayLocks(t) \/ Replay(t)
  \/ LogoutLocks(t) \/ Logout(t)
  \/ ResetUser(t) \/ ResetSessions(t) \/ Reset(t)
  \/ NoIdLeft(t) /\ Rollback(t)

\* The lock queue is strongly fair, deadlock detection weakly.
Fairness ==
  /\ \A t \in Tx : SF_vars(Proceed(t))
  /\ WF_vars(\E t \in Tx : DeadlockVictim(t))

FairSpec == Spec /\ Fairness

-----------------------------------------------------------------------------
(* Properties.                                                             *)

\* Every row and every transaction has the shape the schema gives it.
TypeOK ==
  /\ status \in [SessionIds -> {"absent", "active", "revoked"}]
  /\ owner \in [SessionIds -> Users]
  /\ expired \subseteq SessionIds
  /\ family \in [Tokens -> SessionIds \cup {NoOne}]
  /\ consumed \subseteq Tokens
  /\ revoked \subseteq Tokens
  /\ grant \in [ResetTokens -> Users \cup {NoOne}]
  /\ used \subseteq ResetTokens
  /\ lock \in [Rows -> Tx \cup {NoOne}]
  /\ tx \in [Tx -> Work]
  /\ resets \in [Users -> Nat]
  /\ born \in [SessionIds -> Nat]
  /\ loggedOut \subseteq SessionIds

\* Two refreshes with one token, in any interleaving with replays, logouts,
\* resets and rollbacks, never leave a session with two tokens that
\* rotate_refresh_token would still accept.
OneLiveToken ==
  \A s \in SessionIds : \A j, k \in FamilyOf(s) \ (consumed \cup revoked) : j = k

\* revoke_session reaches every token of the session, also the one a refresh is
\* inserting while the logout runs, and no token appears afterwards.
LogoutRevokesTokens ==
  \A s \in loggedOut : FamilyOf(s) \subseteq revoked

\* After reset_password no session from before it is active: not even one whose
\* sign-in was under way when revoke_all_user_sessions looked for sessions.
ResetRevokesSessions ==
  \A s \in SessionIds : status[s] = "active" => born[s] = resets[owner[s]]

\* A reset token changes the password once, however many requests present it.
ResetTokensSingleUse ==
  \A u \in Users : resets[u] = Cardinality({r \in used : grant[r] = u})

\* A refresh locks token then session, a logout and a reset session then
\* tokens, and two replays of one family each other's tokens: every transaction
\* ends all the same.
TransactionsEnd == \A t \in Tx : tx[t] # Idle ~> tx[t] = Idle
=============================================================================
