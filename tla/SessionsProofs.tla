--------------------------- MODULE SessionsProofs ---------------------------
(***************************************************************************)
(* Theorems about Sessions for every set of users, sessions, tokens and    *)
(* transactions.                                                           *)
(***************************************************************************)
EXTENDS Sessions, FiniteSetTheorems, TLAPS

-----------------------------------------------------------------------------
(* Type correctness.                                                       *)

\* What a transaction carries, by the step it is at.
LEMMA WorkFields ==
  ASSUME NEW w \in Work
  PROVE  /\ w.op \in {"signing", "redeeming", "resetting", "reset"} => w.u \in Users
         /\ w.op \in {"rotating", "replaying", "replay"} => w.k \in Tokens
         /\ w.op \in {"rotating", "replaying", "replay", "leaving", "logout"} =>
              w.s \in SessionIds
         /\ w.op \in {"redeeming", "resetting", "reset"} => w.r \in ResetTokens
         /\ w.op \in {"resetting", "reset"} => w.sessions \subseteq SessionIds
         /\ w.op \in {"replay", "logout", "reset"} => w.targets \subseteq Tokens
  BY DEF Work, Idle

\* The tables start out well formed.
LEMMA InitTypeOK == Init => TypeOK
  BY DEF Init, TypeOK, Work, Idle

\* Ending a transaction keeps locks and transactions well formed.
LEMMA EndType ==
  ASSUME TypeOK, NEW t \in Tx, End(t)
  PROVE  tx' \in [Tx -> Work] /\ lock' \in [Rows -> Tx \cup {NoOne}]
  <1>1. Idle \in Work
    BY DEF Work
  <1> QED
    BY <1>1 DEF TypeOK, End, Goto

\* So does taking locks and going on.
LEMMA GotoType ==
  ASSUME TypeOK, NEW t \in Tx, NEW w \in Work, NEW set, Goto(t, w),
         Lock(t, set) \/ UNCHANGED lock
  PROVE  tx' \in [Tx -> Work] /\ lock' \in [Rows -> Tx \cup {NoOne}]
  BY DEF TypeOK, Goto, Lock

\* Every step keeps the tables well formed.
LEMMA NextTypeOK == TypeOK /\ [Next]_vars => TypeOK'
  <1> SUFFICES ASSUME TypeOK, [Next]_vars PROVE TypeOK'
    OBVIOUS
  <1> USE DEF rows, history
  <1>1. ASSUME NEW t \in Tx, NEW u \in Users, SignInBegin(t, u) PROVE TypeOK'
    <2>1. [op |-> "signing", u |-> u] \in Work
      BY DEF Work
    <2>2. tx' \in [Tx -> Work] /\ lock' \in [Rows -> Tx \cup {NoOne}]
      BY <1>1, <2>1, GotoType DEF SignInBegin
    <2> QED
      BY <1>1, <2>2 DEF SignInBegin, TypeOK
  <1>2. ASSUME NEW t \in Tx, NEW s \in SessionIds, NEW k \in Tokens, SignIn(t, s, k)
        PROVE  TypeOK'
    <2>1. tx[t].u \in Users
      BY <1>2, WorkFields DEF SignIn, CreateSession, TypeOK
    <2>2. tx' \in [Tx -> Work] /\ lock' \in [Rows -> Tx \cup {NoOne}]
      BY <1>2, EndType DEF SignIn, CreateSession
    <2> QED
      BY <1>2, <2>1, <2>2 DEF SignIn, CreateSession, TypeOK
  <1>3. ASSUME NEW t \in Tx, NEW k \in Tokens, RotateBegin(t, k) PROVE TypeOK'
    <2>1. [op |-> "rotating", k |-> k, s |-> family[k]] \in Work
      BY <1>3 DEF RotateBegin, Refreshable, Work, TypeOK
    <2>2. tx' \in [Tx -> Work] /\ lock' \in [Rows -> Tx \cup {NoOne}]
      BY <1>3, <2>1, GotoType DEF RotateBegin, Refreshable
    <2> QED
      BY <1>3, <2>2 DEF RotateBegin, Refreshable, TypeOK
  <1>4. ASSUME NEW t \in Tx, NEW n \in Tokens, Rotate(t, n) PROVE TypeOK'
    <2>1. tx[t].k \in Tokens /\ tx[t].s \in SessionIds
      BY <1>4, WorkFields DEF Rotate, TypeOK
    <2>2. tx' \in [Tx -> Work] /\ lock' \in [Rows -> Tx \cup {NoOne}]
      BY <1>4, EndType DEF Rotate
    <2> QED
      BY <1>4, <2>1, <2>2 DEF Rotate, TypeOK
  <1>5. ASSUME NEW t \in Tx, NEW k \in Tokens, ReplayBegin(t, k) PROVE TypeOK'
    <2>1. [op |-> "replaying", k |-> k, s |-> family[k]] \in Work
      BY <1>5 DEF ReplayBegin, Work, TypeOK
    <2>2. tx' \in [Tx -> Work] /\ lock' \in [Rows -> Tx \cup {NoOne}]
      BY <1>5, <2>1, GotoType DEF ReplayBegin
    <2> QED
      BY <1>5, <2>2 DEF ReplayBegin, TypeOK
  <1>6. ASSUME NEW t \in Tx, ReplayLocks(t) PROVE TypeOK'
    <2>1. tx[t].k \in Tokens /\ tx[t].s \in SessionIds
      BY <1>6, WorkFields DEF ReplayLocks, TypeOK
    <2>2. [op |-> "replay", k |-> tx[t].k, s |-> tx[t].s,
           targets |-> FamilyOf(tx[t].s)] \in Work
      BY <2>1 DEF Work, FamilyOf
    <2>3. tx' \in [Tx -> Work] /\ lock' \in [Rows -> Tx \cup {NoOne}]
      BY <1>6, <2>2, GotoType DEF ReplayLocks
    <2> QED
      BY <1>6, <2>3 DEF ReplayLocks, TypeOK
  <1>7. ASSUME NEW t \in Tx, Replay(t) PROVE TypeOK'
    <2>1. tx[t].s \in SessionIds /\ tx[t].targets \subseteq Tokens
      BY <1>7, WorkFields DEF Replay, Revoke, TypeOK
    <2>2. tx' \in [Tx -> Work] /\ lock' \in [Rows -> Tx \cup {NoOne}]
      BY <1>7, EndType DEF Replay, Revoke
    <2> QED
      BY <1>7, <2>1, <2>2 DEF Replay, Revoke, TypeOK
  <1>8. ASSUME NEW t \in Tx, NEW s \in SessionIds, LogoutBegin(t, s) PROVE TypeOK'
    <2>1. [op |-> "leaving", s |-> s] \in Work
      BY <1>8 DEF LogoutBegin, Work, TypeOK
    <2>2. tx' \in [Tx -> Work] /\ lock' \in [Rows -> Tx \cup {NoOne}]
      BY <1>8, <2>1, GotoType DEF LogoutBegin
    <2> QED
      BY <1>8, <2>2 DEF LogoutBegin, TypeOK
  <1>9. ASSUME NEW t \in Tx, LogoutLocks(t) PROVE TypeOK'
    <2>1. tx[t].s \in SessionIds
      BY <1>9, WorkFields DEF LogoutLocks, TypeOK
    <2>2. [op |-> "logout", s |-> tx[t].s, targets |-> FamilyOf(tx[t].s)] \in Work
      BY <2>1 DEF Work, FamilyOf
    <2>3. tx' \in [Tx -> Work] /\ lock' \in [Rows -> Tx \cup {NoOne}]
      BY <1>9, <2>2, GotoType DEF LogoutLocks
    <2> QED
      BY <1>9, <2>3 DEF LogoutLocks, TypeOK
  <1>10. ASSUME NEW t \in Tx, Logout(t) PROVE TypeOK'
    <2>1. tx[t].s \in SessionIds /\ tx[t].targets \subseteq Tokens
      BY <1>10, WorkFields DEF Logout, Revoke, TypeOK
    <2>2. tx' \in [Tx -> Work] /\ lock' \in [Rows -> Tx \cup {NoOne}]
      BY <1>10, EndType DEF Logout, Revoke
    <2> QED
      BY <1>10, <2>1, <2>2 DEF Logout, Revoke, TypeOK
  <1>11. ASSUME NEW t \in Tx, NEW r \in ResetTokens, ResetBegin(t, r) PROVE TypeOK'
    <2>1. [op |-> "redeeming", r |-> r, u |-> grant[r]] \in Work
      BY <1>11 DEF ResetBegin, Redeem, Work, TypeOK
    <2>2. tx' \in [Tx -> Work] /\ lock' \in [Rows -> Tx \cup {NoOne}]
      BY <1>11, <2>1, GotoType DEF ResetBegin, Redeem
    <2> QED
      BY <1>11, <2>2 DEF ResetBegin, Redeem, TypeOK
  <1>12. ASSUME NEW t \in Tx, ResetUser(t) PROVE TypeOK'
    <2>1. tx[t].r \in ResetTokens /\ tx[t].u \in Users
      BY <1>12, WorkFields DEF ResetUser, TypeOK
    <2>2. [op |-> "resetting", r |-> tx[t].r, u |-> tx[t].u,
           sessions |-> OwnedBy(tx[t].u)] \in Work
      BY <2>1 DEF Work, OwnedBy
    <2>3. tx' \in [Tx -> Work] /\ lock' \in [Rows -> Tx \cup {NoOne}]
      BY <1>12, <2>2, GotoType DEF ResetUser
    <2> QED
      BY <1>12, <2>3 DEF ResetUser, TypeOK
  <1>13. ASSUME NEW t \in Tx, ResetSessions(t) PROVE TypeOK'
    <2>1. /\ tx[t].r \in ResetTokens /\ tx[t].u \in Users
          /\ tx[t].sessions \subseteq SessionIds
      BY <1>13, WorkFields DEF ResetSessions, TypeOK
    <2>2. [op |-> "reset", r |-> tx[t].r, u |-> tx[t].u,
           sessions |-> tx[t].sessions,
           targets |-> UNION {FamilyOf(s) : s \in OwnedBy(tx[t].u)}] \in Work
      BY <2>1 DEF Work, FamilyOf, OwnedBy
    <2>3. tx' \in [Tx -> Work] /\ lock' \in [Rows -> Tx \cup {NoOne}]
      BY <1>13, <2>2, GotoType DEF ResetSessions
    <2> QED
      BY <1>13, <2>3 DEF ResetSessions, TypeOK
  <1>14. ASSUME NEW t \in Tx, Reset(t) PROVE TypeOK'
    <2>1. /\ tx[t].r \in ResetTokens /\ tx[t].u \in Users
          /\ tx[t].sessions \subseteq SessionIds /\ tx[t].targets \subseteq Tokens
      BY <1>14, WorkFields DEF Reset, TypeOK
    <2>2. tx' \in [Tx -> Work] /\ lock' \in [Rows -> Tx \cup {NoOne}]
      BY <1>14, EndType DEF Reset
    <2> QED
      BY <1>14, <2>1, <2>2 DEF Reset, TypeOK
  <1>15. ASSUME NEW t \in Tx, Rollback(t) PROVE TypeOK'
    <2>1. tx' \in [Tx -> Work] /\ lock' \in [Rows -> Tx \cup {NoOne}]
      BY <1>15, EndType DEF Rollback
    <2> QED
      BY <1>15, <2>1 DEF Rollback, TypeOK
  <1>16. ASSUME NEW s \in SessionIds, Expire(s) PROVE TypeOK'
    BY <1>16 DEF Expire, TypeOK
  <1>17. ASSUME NEW r \in ResetTokens, NEW u \in Users, IssueReset(r, u)
         PROVE  TypeOK'
    BY <1>17 DEF IssueReset, TypeOK
  <1>18. CASE UNCHANGED vars
    BY <1>18 DEF vars, TypeOK
  <1> QED
    BY <1>1, <1>2, <1>3, <1>4, <1>5, <1>6, <1>7, <1>8, <1>9, <1>10, <1>11,
       <1>12, <1>13, <1>14, <1>15, <1>16, <1>17, <1>18 DEF Next

\* Every row and every transaction keeps the shape the schema gives it.
THEOREM TypeCorrect == Spec => []TypeOK
  BY InitTypeOK, NextTypeOK, PTL DEF Spec

-----------------------------------------------------------------------------
(* The inductive invariant: what each request knows while it waits.        *)

\* The token a refresh locked is its own, still good, and of its session.
Rotating(x) ==
  tx[x].op = "rotating" =>
    /\ lock[tx[x].k] = x
    /\ tx[x].k \notin consumed \cup revoked
    /\ family[tx[x].k] = tx[x].s

\* A replay or a logout is of a session that exists, and the logout that holds
\* the session's row has every token of the session among its targets.
Revoking(x) ==
  /\ tx[x].op \in {"replaying", "replay", "leaving", "logout"} =>
       status[tx[x].s] # "absent"
  /\ tx[x].op = "logout" =>
       lock[tx[x].s] = x /\ FamilyOf(tx[x].s) \subseteq tx[x].targets

\* The reset that holds the token's row finds it unused until it commits ...
Redeeming(x) ==
  tx[x].op \in {"redeeming", "resetting", "reset"} =>
    lock[tx[x].r] = x /\ grant[tx[x].r] = tx[x].u /\ tx[x].r \notin used

\* ... and from the user's row on it has every session of the user in view.
Resetting(x) ==
  tx[x].op \in {"resetting", "reset"} =>
    lock[tx[x].u] = x /\ tx[x].sessions = OwnedBy(tx[x].u)

Claimed(x) == Rotating(x) /\ Revoking(x) /\ Redeeming(x) /\ Resetting(x)

\* Tokens and logouts belong to sessions that exist; used reset tokens were
\* issued.
Stored ==
  /\ \A k \in Tokens : family[k] # NoOne => status[family[k]] # "absent"
  /\ \A s \in loggedOut : status[s] # "absent"
  /\ \A r \in used : grant[r] # NoOne

IInv ==
  /\ TypeOK
  /\ \A x \in Tx : Claimed(x)
  /\ Stored
  /\ OneLiveToken
  /\ LogoutRevokesTokens
  /\ ResetRevokesSessions

\* A step of t leaves the others where they are, with the locks they hold.
Kept(t) ==
  \A x \in Tx \ {t} :
    tx'[x] = tx[x] /\ \A r \in Rows : lock[r] = x => lock'[r] = x

\* Commit and rollback release the locks of one transaction only.
LEMMA EndKeeps ==
  ASSUME TypeOK, NEW t \in Tx, End(t)
  PROVE  Kept(t) /\ tx'[t] = Idle
  BY DEF TypeOK, End, Goto, Kept

\* A transaction locks rows that nobody holds.
LEMMA GotoKeeps ==
  ASSUME TypeOK, NEW t \in Tx, NEW w, NEW set, Goto(t, w),
         \/ UNCHANGED lock
         \/ Lock(t, set) /\ \A r \in set : lock[r] = NoOne
  PROVE  /\ Kept(t) /\ tx'[t] = w
         /\ \A r \in Rows : lock[r] = t => lock'[r] = t
         /\ Lock(t, set) => \A r \in set \cap Rows : lock'[r] = t
  <1>1. NoOne \notin Tx
    BY SessionsAssumption
  <1> QED
    BY <1>1 DEF TypeOK, Goto, Lock, Kept

\* A step that changes no row disturbs only what its own transaction knows.
LEMMA WaitKeeps ==
  ASSUME IInv, NEW t \in Tx, Kept(t), UNCHANGED <<rows, history>>,
         TypeOK', Claimed(t)'
  PROVE  IInv'
  <1> USE DEF rows, history
  <1>1. ASSUME NEW x \in Tx, x # t PROVE Claimed(x)'
    <2>1. tx'[x] = tx[x] /\ \A r \in Rows : lock[r] = x => lock'[r] = x
      BY <1>1 DEF Kept
    <2>2. Claimed(x) /\ tx[x] \in Work
      BY DEF IInv, TypeOK
    <2>3. Rotating(x)'
      BY <2>1, <2>2, WorkFields DEF Claimed, Rotating, Rows
    <2>4. Revoking(x)'
      BY <2>1, <2>2, WorkFields DEF Claimed, Revoking, FamilyOf, Rows
    <2>5. Redeeming(x)'
      BY <2>1, <2>2, WorkFields DEF Claimed, Redeeming, Rows
    <2>6. Resetting(x)'
      BY <2>1, <2>2, WorkFields DEF Claimed, Resetting, OwnedBy, Rows
    <2> QED
      BY <2>3, <2>4, <2>5, <2>6 DEF Claimed
  <1>2. Stored'
    BY DEF IInv, Stored
  <1>3. OneLiveToken' /\ LogoutRevokesTokens' /\ ResetRevokesSessions'
    BY DEF IInv, OneLiveToken, LogoutRevokesTokens, ResetRevokesSessions, FamilyOf
  <1> QED
    BY <1>1, <1>2, <1>3 DEF IInv

\* The steps that only lock, read and wait.
LEMMA WaitingSteps ==
  ASSUME IInv, TypeOK',
         \E t \in Tx :
           \/ \E u \in Users : SignInBegin(t, u)
           \/ \E k \in Tokens : RotateBegin(t, k) \/ ReplayBegin(t, k)
           \/ ReplayLocks(t)
           \/ \E s \in SessionIds : LogoutBegin(t, s)
           \/ LogoutLocks(t)
           \/ \E r \in ResetTokens : ResetBegin(t, r)
           \/ ResetUser(t) \/ ResetSessions(t)
  PROVE  IInv'
  <1> USE DEF rows, history
  <1>0. TypeOK
    BY DEF IInv
  <1> USE <1>0
  <1>1. ASSUME NEW t \in Tx, NEW u \in Users, SignInBegin(t, u) PROVE IInv'
    <2>1. /\ Kept(t) /\ tx'[t] = [op |-> "signing", u |-> u]
          /\ \A r \in Rows : lock[r] = t => lock'[r] = t
      BY <1>1 DEF SignInBegin, Goto, Kept, TypeOK
    <2>2. tx[t] \in Work /\ Claimed(t)
      BY DEF IInv, TypeOK
    <2>3. Claimed(t)'
      BY <1>1, <2>1, <2>2, WorkFields, SessionsAssumption
      DEF SignInBegin, Claimed, Rotating, Revoking, Redeeming, Resetting, Rows
    <2> QED
      BY <1>1, <2>1, <2>3, WaitKeeps DEF SignInBegin
  <1>2. ASSUME NEW t \in Tx, NEW k \in Tokens, RotateBegin(t, k) PROVE IInv'
    <2>1. /\ Kept(t) /\ tx'[t] = [op |-> "rotating", k |-> k, s |-> family[k]]
          /\ \A r \in Rows : lock[r] = t => lock'[r] = t
          /\ lock'[k] = t
      BY <1>2, GotoKeeps DEF RotateBegin, Refreshable, Rows, TypeOK
    <2>2. tx[t] \in Work /\ Claimed(t)
      BY DEF IInv, TypeOK
    <2>3. Claimed(t)'
      BY <1>2, <2>1, <2>2, WorkFields, SessionsAssumption
      DEF RotateBegin, Refreshable, Claimed, Rotating, Revoking, Redeeming, Resetting,
          Rows
    <2> QED
      BY <1>2, <2>1, <2>3, WaitKeeps DEF RotateBegin, Refreshable
  <1>3. ASSUME NEW t \in Tx, NEW k \in Tokens, ReplayBegin(t, k) PROVE IInv'
    <2>1. /\ Kept(t) /\ tx'[t] = [op |-> "replaying", k |-> k, s |-> family[k]]
          /\ \A r \in Rows : lock[r] = t => lock'[r] = t
      BY <1>3, GotoKeeps DEF ReplayBegin, Rows, TypeOK
    <2>2. tx[t] \in Work /\ Claimed(t) /\ status[family[k]] # "absent"
      BY <1>3 DEF IInv, TypeOK, Stored, ReplayBegin
    <2>3. Claimed(t)'
      BY <1>3, <2>1, <2>2, WorkFields, SessionsAssumption
      DEF ReplayBegin, Claimed, Rotating, Revoking, Redeeming, Resetting, Rows
    <2> QED
      BY <1>3, <2>1, <2>3, WaitKeeps DEF ReplayBegin
  <1>4. ASSUME NEW t \in Tx, ReplayLocks(t) PROVE IInv'
    <2>1. /\ Kept(t) /\ tx'[t] = [op |-> "replay", k |-> tx[t].k, s |-> tx[t].s,
                                 targets |-> FamilyOf(tx[t].s)]
          /\ \A r \in Rows : lock[r] = t => lock'[r] = t
      BY <1>4, GotoKeeps DEF ReplayLocks, Rows, TypeOK
    <2>2. tx[t] \in Work /\ Claimed(t)
      BY DEF IInv, TypeOK
    <2>3. Claimed(t)'
      BY <1>4, <2>1, <2>2, WorkFields, SessionsAssumption
      DEF ReplayLocks, Claimed, Rotating, Revoking, Redeeming, Resetting, Rows
    <2> QED
      BY <1>4, <2>1, <2>3, WaitKeeps DEF ReplayLocks
  <1>5. ASSUME NEW t \in Tx, NEW s \in SessionIds, LogoutBegin(t, s) PROVE IInv'
    <2>1. /\ Kept(t) /\ tx'[t] = [op |-> "leaving", s |-> s]
          /\ \A r \in Rows : lock[r] = t => lock'[r] = t
      BY <1>5 DEF LogoutBegin, Goto, Kept, TypeOK
    <2>2. tx[t] \in Work /\ Claimed(t)
      BY DEF IInv, TypeOK
    <2>3. Claimed(t)'
      BY <1>5, <2>1, <2>2, WorkFields, SessionsAssumption
      DEF LogoutBegin, Claimed, Rotating, Revoking, Redeeming, Resetting, Rows, Valid
    <2> QED
      BY <1>5, <2>1, <2>3, WaitKeeps DEF LogoutBegin
  <1>6. ASSUME NEW t \in Tx, LogoutLocks(t) PROVE IInv'
    <2>1. /\ Kept(t) /\ tx'[t] = [op |-> "logout", s |-> tx[t].s,
                                 targets |-> FamilyOf(tx[t].s)]
          /\ \A r \in Rows : lock[r] = t => lock'[r] = t
          /\ lock'[tx[t].s] = t
      BY <1>6, GotoKeeps, WorkFields DEF LogoutLocks, Rows, TypeOK
    <2>2. tx[t] \in Work /\ Claimed(t)
      BY DEF IInv, TypeOK
    <2>3. Claimed(t)'
      BY <1>6, <2>1, <2>2, WorkFields, SessionsAssumption
      DEF LogoutLocks, Claimed, Rotating, Revoking, Redeeming, Resetting, Rows, FamilyOf
    <2> QED
      BY <1>6, <2>1, <2>3, WaitKeeps DEF LogoutLocks
  <1>7. ASSUME NEW t \in Tx, NEW r \in ResetTokens, ResetBegin(t, r) PROVE IInv'
    <2>1. /\ Kept(t) /\ tx'[t] = [op |-> "redeeming", r |-> r, u |-> grant[r]]
          /\ \A q \in Rows : lock[q] = t => lock'[q] = t
          /\ lock'[r] = t
      BY <1>7, GotoKeeps DEF ResetBegin, Redeem, Rows, TypeOK
    <2>2. tx[t] \in Work /\ Claimed(t)
      BY DEF IInv, TypeOK
    <2>3. Claimed(t)'
      BY <1>7, <2>1, <2>2, WorkFields, SessionsAssumption
      DEF ResetBegin, Redeem, Claimed, Rotating, Revoking, Redeeming, Resetting, Rows
    <2> QED
      BY <1>7, <2>1, <2>3, WaitKeeps DEF ResetBegin, Redeem
  <1>8. ASSUME NEW t \in Tx, ResetUser(t) PROVE IInv'
    <2>1. /\ Kept(t) /\ tx'[t] = [op |-> "resetting", r |-> tx[t].r, u |-> tx[t].u,
                                 sessions |-> OwnedBy(tx[t].u)]
          /\ \A r \in Rows : lock[r] = t => lock'[r] = t
          /\ lock'[tx[t].u] = t
      BY <1>8, GotoKeeps, WorkFields DEF ResetUser, Rows, TypeOK
    <2>2. tx[t] \in Work /\ Claimed(t)
      BY DEF IInv, TypeOK
    <2>3. Claimed(t)'
      BY <1>8, <2>1, <2>2, WorkFields, SessionsAssumption
      DEF ResetUser, Claimed, Rotating, Revoking, Redeeming, Resetting, Rows,
          OwnedBy
    <2> QED
      BY <1>8, <2>1, <2>3, WaitKeeps DEF ResetUser
  <1>9. ASSUME NEW t \in Tx, ResetSessions(t) PROVE IInv'
    <2>1. /\ Kept(t) /\ tx'[t] = [op |-> "reset", r |-> tx[t].r, u |-> tx[t].u,
                sessions |-> tx[t].sessions,
                targets  |-> UNION {FamilyOf(s) : s \in OwnedBy(tx[t].u)}]
          /\ \A r \in Rows : lock[r] = t => lock'[r] = t
      BY <1>9, GotoKeeps DEF ResetSessions, Rows, TypeOK
    <2>2. tx[t] \in Work /\ Claimed(t)
      BY DEF IInv, TypeOK
    <2>3. Claimed(t)'
      BY <1>9, <2>1, <2>2, WorkFields, SessionsAssumption
      DEF ResetSessions, Claimed, Rotating, Revoking, Redeeming, Resetting, Rows,
          OwnedBy
    <2> QED
      BY <1>9, <2>1, <2>3, WaitKeeps DEF ResetSessions
  <1> QED
    BY <1>1, <1>2, <1>3, <1>4, <1>5, <1>6, <1>7, <1>8, <1>9

\* A transaction that has ended claims nothing.
LEMMA IdleClaimsNothing ==
  ASSUME NEW t \in Tx, tx'[t] = Idle PROVE Claimed(t)'
  BY DEF Claimed, Rotating, Revoking, Redeeming, Resetting, Idle

\* What a transaction other than t reads of itself and of its locks.
LEMMA OthersKeep ==
  ASSUME IInv, NEW t \in Tx, Kept(t), NEW x \in Tx, x # t
  PROVE  /\ tx'[x] = tx[x] /\ tx[x] \in Work /\ Claimed(x)
         /\ \A r \in Rows : lock[r] = x => lock'[r] = x
  BY DEF IInv, TypeOK, Kept

\* A new session: its user's row is free, so no reset has looked for sessions.
LEMMA SignInKeeps ==
  ASSUME IInv, TypeOK', NEW t \in Tx, NEW s \in SessionIds, NEW k \in Tokens,
         SignIn(t, s, k)
  PROVE  IInv'
  <1> USE DEF rows, history
  <1>0. TypeOK /\ NoOne \notin Tx
    BY SessionsAssumption DEF IInv
  <1>1. Kept(t) /\ tx'[t] = Idle
    BY <1>0, EndKeeps DEF SignIn, CreateSession
  <1>2. /\ tx[t].u \in Users /\ lock[tx[t].u] \in {NoOne, t}
        /\ status[s] = "absent" /\ family[k] = NoOne
        /\ status' = [status EXCEPT ![s] = "active"]
        /\ owner'  = [owner EXCEPT ![s] = tx[t].u]
        /\ born'   = [born EXCEPT ![s] = resets[tx[t].u]]
        /\ family' = [family EXCEPT ![k] = s]
        /\ UNCHANGED <<consumed, revoked, grant, used, resets, loggedOut>>
    BY <1>0, WorkFields DEF SignIn, CreateSession, Available, TypeOK
  <1>3. FamilyOf(s) = {}
    BY <1>2, SessionsAssumption DEF IInv, Stored, FamilyOf, TypeOK
  <1>4. FamilyOf(s)' = {k} /\ \A z \in SessionIds \ {s} : FamilyOf(z)' = FamilyOf(z)
    BY <1>0, <1>2, <1>3, SessionsAssumption DEF FamilyOf, TypeOK
  <1>5. ASSUME NEW x \in Tx, x # t PROVE Claimed(x)'
    <2>1. /\ tx'[x] = tx[x] /\ tx[x] \in Work /\ Claimed(x)
          /\ \A r \in Rows : lock[r] = x => lock'[r] = x
      BY <1>1, <1>5, OthersKeep
    <2>2. Rotating(x)'
      BY <1>0, <1>2, <2>1, WorkFields, SessionsAssumption
      DEF Claimed, Rotating, Rows, TypeOK
    <2>3. Revoking(x)'
      BY <1>0, <1>2, <1>4, <2>1, WorkFields DEF Claimed, Revoking, Rows, TypeOK
    <2>4. Redeeming(x)'
      BY <1>2, <2>1, WorkFields DEF Claimed, Redeeming, Rows
    <2>5. Resetting(x)'
      <3> SUFFICES ASSUME tx[x].op \in {"resetting", "reset"}
                   PROVE  Resetting(x)'
        BY <2>1 DEF Resetting
      <3>1. tx[x].u \in Users /\ lock[tx[x].u] = x
        BY <2>1, WorkFields DEF Claimed, Resetting
      <3>2. tx[x].u # tx[t].u
        BY <1>0, <1>2, <1>5, <3>1
      <3>3. \A u \in Users \ {tx[t].u} : OwnedBy(u)' = OwnedBy(u)
        BY <1>0, <1>2 DEF OwnedBy, TypeOK
      <3> QED
        BY <2>1, <3>1, <3>2, <3>3 DEF Claimed, Resetting, Rows
    <2> QED
      BY <2>2, <2>3, <2>4, <2>5 DEF Claimed
  <1>6. Stored'
    BY <1>0, <1>2, SessionsAssumption DEF IInv, Stored, TypeOK
  <1>7. OneLiveToken'
    BY <1>2, <1>4 DEF IInv, OneLiveToken
  <1>8. LogoutRevokesTokens'
    BY <1>0, <1>2, <1>4 DEF IInv, LogoutRevokesTokens, Stored, TypeOK
  <1>9. ResetRevokesSessions'
    BY <1>0, <1>2 DEF IInv, ResetRevokesSessions, TypeOK
  <1> QED
    BY <1>1, <1>5, <1>6, <1>7, <1>8, <1>9, IdleClaimsNothing DEF IInv

\* The successor replaces the live token, and no logout holds the session.
LEMMA RotateKeeps ==
  ASSUME IInv, TypeOK', NEW t \in Tx, NEW n \in Tokens, Rotate(t, n)
  PROVE  IInv'
  <1> USE DEF rows, history
  <1>0. TypeOK /\ NoOne \notin Tx
    BY SessionsAssumption DEF IInv
  <1>1. Kept(t) /\ tx'[t] = Idle
    BY <1>0, EndKeeps DEF Rotate
  <1>2. PICK k \in Tokens, s \in SessionIds :
        /\ k = tx[t].k /\ s = tx[t].s /\ family[n] = NoOne
        /\ ~ForUpdate(s)
        /\ consumed' = consumed \cup {k}
        /\ family'   = [family EXCEPT ![n] = s]
        /\ UNCHANGED <<status, owner, revoked, grant, used, resets, born, loggedOut>>
    BY <1>0, WorkFields DEF Rotate, TypeOK
  <1>3. lock[k] = t /\ k \notin consumed \cup revoked /\ family[k] = s
    BY <1>2 DEF IInv, Claimed, Rotating, Rotate
  <1>4. /\ FamilyOf(s)' = FamilyOf(s) \cup {n}
        /\ \A z \in SessionIds \ {s} : FamilyOf(z)' = FamilyOf(z)
    BY <1>0, <1>2, SessionsAssumption DEF FamilyOf, TypeOK
  <1>5. ASSUME NEW x \in Tx, x # t PROVE Claimed(x)'
    <2>1. /\ tx'[x] = tx[x] /\ tx[x] \in Work /\ Claimed(x)
          /\ \A r \in Rows : lock[r] = x => lock'[r] = x
      BY <1>1, <1>5, OthersKeep
    <2>2. Rotating(x)'
      BY <1>0, <1>2, <1>3, <1>5, <2>1, WorkFields, SessionsAssumption
      DEF Claimed, Rotating, Rows, TypeOK
    <2>3. Revoking(x)'
      <3>1. tx[x].op = "logout" => tx[x].s # s
        BY <1>2, <1>5, <2>1 DEF ForUpdate, Claimed, Revoking
      <3> QED
        BY <1>2, <1>4, <2>1, <3>1, WorkFields DEF Claimed, Revoking, Rows
    <2>4. Redeeming(x)'
      BY <1>2, <2>1, WorkFields DEF Claimed, Redeeming, Rows
    <2>5. Resetting(x)'
      BY <1>2, <2>1, WorkFields DEF Claimed, Resetting, OwnedBy, Rows
    <2> QED
      BY <2>2, <2>3, <2>4, <2>5 DEF Claimed
  <1>6. Stored'
    BY <1>0, <1>2, <1>3, SessionsAssumption DEF IInv, Stored, TypeOK
  <1>7. OneLiveToken'
    <2>1. k \in FamilyOf(s) \ (consumed \cup revoked)
      BY <1>2, <1>3 DEF FamilyOf
    <2>2. \A j \in FamilyOf(s) \ (consumed \cup revoked) : j = k
      BY <1>2, <2>1 DEF IInv, OneLiveToken
    <2>3. \A j \in FamilyOf(s)' \ (consumed' \cup revoked') : j = n
      BY <1>2, <1>4, <2>2
    <2> QED
      BY <1>2, <1>4, <2>3 DEF IInv, OneLiveToken
  <1>8. LogoutRevokesTokens'
    <2>1. s \notin loggedOut
      BY <1>2, <1>3 DEF IInv, LogoutRevokesTokens, FamilyOf
    <2> QED
      BY <1>0, <1>2, <1>4, <2>1 DEF IInv, LogoutRevokesTokens, TypeOK
  <1>9. ResetRevokesSessions'
    BY <1>2 DEF IInv, ResetRevokesSessions
  <1> QED
    BY <1>1, <1>5, <1>6, <1>7, <1>8, <1>9, IdleClaimsNothing DEF IInv

\* The logout revokes the tokens it found, and there are no others.
LEMMA LogoutKeeps ==
  ASSUME IInv, TypeOK', NEW t \in Tx, Logout(t)
  PROVE  IInv'
  <1> USE DEF rows, history
  <1>0. TypeOK /\ NoOne \notin Tx
    BY SessionsAssumption DEF IInv
  <1>1. Kept(t) /\ tx'[t] = Idle
    BY <1>0, EndKeeps DEF Logout, Revoke
  <1> DEFINE targets == tx[t].targets
             s == tx[t].s
  <1>2. /\ s \in SessionIds /\ targets \subseteq Tokens
        /\ \A k \in targets : lock[k] \in {NoOne, t}
        /\ status'  = [status EXCEPT ![s] = "revoked"]
        /\ revoked' = revoked \cup targets
        /\ UNCHANGED <<owner, family, consumed, grant, used, resets, born>>
    BY <1>0, WorkFields DEF Logout, Revoke, Available, TypeOK
  <1>3. /\ status[s] # "absent" /\ FamilyOf(s) \subseteq targets
        /\ loggedOut' = loggedOut \cup {s}
    BY DEF IInv, Claimed, Revoking, Logout, Revoke
  <1> HIDE DEF targets, s
  <1>4. \A z \in SessionIds : FamilyOf(z)' = FamilyOf(z)
    BY <1>2 DEF FamilyOf
  <1>5. ASSUME NEW x \in Tx, x # t PROVE Claimed(x)'
    <2>1. /\ tx'[x] = tx[x] /\ tx[x] \in Work /\ Claimed(x)
          /\ \A r \in Rows : lock[r] = x => lock'[r] = x
      BY <1>1, <1>5, OthersKeep
    <2>2. Rotating(x)'
      BY <1>0, <1>2, <1>5, <2>1, WorkFields DEF Claimed, Rotating, Rows
    <2>3. Revoking(x)'
      BY <1>0, <1>2, <1>4, <2>1, WorkFields DEF Claimed, Revoking, Rows, TypeOK
    <2>4. Redeeming(x)'
      BY <1>2, <2>1, WorkFields DEF Claimed, Redeeming, Rows
    <2>5. Resetting(x)'
      <3>1. \A u \in Users : OwnedBy(u)' = OwnedBy(u)
        BY <1>0, <1>2, <1>3 DEF OwnedBy, TypeOK
      <3> QED
        BY <1>2, <2>1, <3>1, WorkFields DEF Claimed, Resetting, Rows
    <2> QED
      BY <2>2, <2>3, <2>4, <2>5 DEF Claimed
  <1>6. Stored'
    BY <1>0, <1>2, <1>3 DEF IInv, Stored, TypeOK
  <1>7. OneLiveToken'
    BY <1>2, <1>4 DEF IInv, OneLiveToken
  <1>8. LogoutRevokesTokens'
    BY <1>0, <1>2, <1>3, <1>4 DEF IInv, LogoutRevokesTokens, TypeOK
  <1>9. ResetRevokesSessions'
    BY <1>0, <1>2 DEF IInv, ResetRevokesSessions, TypeOK
  <1> QED
    BY <1>1, <1>5, <1>6, <1>7, <1>8, <1>9, IdleClaimsNothing DEF IInv

\* The replay waits for a refresh that holds one of the tokens.
LEMMA ReplayKeeps ==
  ASSUME IInv, TypeOK', NEW t \in Tx, Replay(t)
  PROVE  IInv'
  <1> USE DEF rows, history
  <1>0. TypeOK /\ NoOne \notin Tx
    BY SessionsAssumption DEF IInv
  <1>1. Kept(t) /\ tx'[t] = Idle
    BY <1>0, EndKeeps DEF Replay, Revoke
  <1> DEFINE targets == tx[t].targets
             s == tx[t].s
  <1>2. /\ s \in SessionIds /\ targets \subseteq Tokens
        /\ \A k \in targets : lock[k] \in {NoOne, t}
        /\ status'  = [status EXCEPT ![s] = "revoked"]
        /\ revoked' = revoked \cup targets
        /\ UNCHANGED <<owner, family, consumed, grant, used, resets, born, loggedOut>>
    BY <1>0, WorkFields DEF Replay, Revoke, Available, TypeOK
  <1>3. status[s] # "absent"
    BY DEF IInv, Claimed, Revoking, Replay, Revoke
  <1> HIDE DEF targets, s
  <1>4. \A z \in SessionIds : FamilyOf(z)' = FamilyOf(z)
    BY <1>2 DEF FamilyOf
  <1>5. ASSUME NEW x \in Tx, x # t PROVE Claimed(x)'
    <2>1. /\ tx'[x] = tx[x] /\ tx[x] \in Work /\ Claimed(x)
          /\ \A r \in Rows : lock[r] = x => lock'[r] = x
      BY <1>1, <1>5, OthersKeep
    <2>2. Rotating(x)'
      BY <1>0, <1>2, <1>5, <2>1, WorkFields DEF Claimed, Rotating, Rows
    <2>3. Revoking(x)'
      BY <1>0, <1>2, <1>4, <2>1, WorkFields DEF Claimed, Revoking, Rows, TypeOK
    <2>4. Redeeming(x)'
      BY <1>2, <2>1, WorkFields DEF Claimed, Redeeming, Rows
    <2>5. Resetting(x)'
      <3>1. \A u \in Users : OwnedBy(u)' = OwnedBy(u)
        BY <1>0, <1>2, <1>3 DEF OwnedBy, TypeOK
      <3> QED
        BY <1>2, <2>1, <3>1, WorkFields DEF Claimed, Resetting, Rows
    <2> QED
      BY <2>2, <2>3, <2>4, <2>5 DEF Claimed
  <1>6. Stored'
    BY <1>0, <1>2, <1>3 DEF IInv, Stored, TypeOK
  <1>7. OneLiveToken'
    BY <1>2, <1>4 DEF IInv, OneLiveToken
  <1>8. LogoutRevokesTokens'
    BY <1>0, <1>2, <1>3, <1>4 DEF IInv, LogoutRevokesTokens, TypeOK
  <1>9. ResetRevokesSessions'
    BY <1>0, <1>2 DEF IInv, ResetRevokesSessions, TypeOK
  <1> QED
    BY <1>1, <1>5, <1>6, <1>7, <1>8, <1>9, IdleClaimsNothing DEF IInv

\* The reset revokes every session of the user: there is none it did not find.
LEMMA ResetKeeps ==
  ASSUME IInv, TypeOK', NEW t \in Tx, Reset(t)
  PROVE  IInv'
  <1>0. TypeOK /\ NoOne \notin Tx
    BY SessionsAssumption DEF IInv
  <1>1. Kept(t) /\ tx'[t] = Idle
    BY <1>0, EndKeeps DEF Reset
  <1>2. PICK u \in Users, r \in ResetTokens, S \in SUBSET SessionIds,
             targets \in SUBSET Tokens :
        /\ u = tx[t].u /\ r = tx[t].r /\ S = tx[t].sessions
        /\ \A k \in targets : lock[k] \in {NoOne, t}
        /\ status' = [s \in SessionIds |-> IF s \in S THEN "revoked" ELSE status[s]]
        /\ revoked' = revoked \cup targets
        /\ used' = used \cup {r}
        /\ resets' = [resets EXCEPT ![u] = @ + 1]
        /\ UNCHANGED <<owner, family, consumed, grant, born, loggedOut>>
    <2>1. /\ tx[t].u \in Users /\ tx[t].r \in ResetTokens
          /\ tx[t].sessions \subseteq SessionIds /\ tx[t].targets \subseteq Tokens
      BY <1>0, WorkFields DEF Reset, TypeOK
    <2> QED
      BY <2>1 DEF Reset, Available
  <1>3. /\ lock[u] = t /\ S = OwnedBy(u)
        /\ lock[r] = t /\ grant[r] = u
        /\ \A s \in S : status[s] # "absent"
    BY <1>2 DEF IInv, Claimed, Resetting, Redeeming, Reset, OwnedBy
  <1>4. \A z \in SessionIds : FamilyOf(z)' = FamilyOf(z)
    BY <1>2 DEF FamilyOf
  <1>5. ASSUME NEW x \in Tx, x # t PROVE Claimed(x)'
    <2>1. /\ tx'[x] = tx[x] /\ tx[x] \in Work /\ Claimed(x)
          /\ \A q \in Rows : lock[q] = x => lock'[q] = x
      BY <1>1, <1>5, OthersKeep
    <2>2. Rotating(x)'
      BY <1>0, <1>2, <1>5, <2>1, WorkFields DEF Claimed, Rotating, Rows
    <2>3. Revoking(x)'
      BY <1>0, <1>2, <1>4, <2>1, WorkFields DEF Claimed, Revoking, Rows, TypeOK
    <2>4. Redeeming(x)'
      BY <1>2, <1>3, <1>5, <2>1, WorkFields DEF Claimed, Redeeming, Rows
    <2>5. Resetting(x)'
      <3>1. \A v \in Users : OwnedBy(v)' = OwnedBy(v)
        BY <1>0, <1>2, <1>3 DEF OwnedBy, TypeOK
      <3> QED
        BY <1>2, <2>1, <3>1, WorkFields DEF Claimed, Resetting, Rows
    <2> QED
      BY <2>2, <2>3, <2>4, <2>5 DEF Claimed
  <1>6. Stored'
    BY <1>0, <1>2, <1>3, SessionsAssumption DEF IInv, Stored, TypeOK
  <1>7. OneLiveToken'
    BY <1>2, <1>4 DEF IInv, OneLiveToken
  <1>8. LogoutRevokesTokens'
    BY <1>0, <1>2, <1>4 DEF IInv, LogoutRevokesTokens, TypeOK
  <1>9. ResetRevokesSessions'
    <2> SUFFICES ASSUME NEW s \in SessionIds, status'[s] = "active"
                 PROVE  born'[s] = resets'[owner'[s]]
      BY DEF ResetRevokesSessions
    <2>1. s \notin S /\ status[s] = "active"
      BY <1>2
    <2>2. owner[s] # u
      BY <1>3, <2>1 DEF OwnedBy
    <2> QED
      BY <1>0, <1>2, <2>1, <2>2 DEF IInv, ResetRevokesSessions, TypeOK
  <1> QED
    BY <1>1, <1>5, <1>6, <1>7, <1>8, <1>9, IdleClaimsNothing DEF IInv

\* A rollback changes no row.
LEMMA RollbackKeeps ==
  ASSUME IInv, TypeOK', NEW t \in Tx, Rollback(t)
  PROVE  IInv'
  <1>1. Kept(t) /\ tx'[t] = Idle
    BY EndKeeps DEF Rollback, IInv
  <1> QED
    BY <1>1, IdleClaimsNothing, WaitKeeps DEF Rollback

\* Expiry touches nothing the invariant speaks of.
LEMMA ExpireKeeps ==
  ASSUME IInv, TypeOK', NEW s \in SessionIds, Expire(s)
  PROVE  IInv'
  <1>1. UNCHANGED <<status, owner, family, consumed, revoked, grant, used, lock, tx,
                    resets, born, loggedOut>>
    BY DEF Expire, history
  <1>2. ASSUME NEW x \in Tx PROVE Claimed(x)'
    <2>1. Claimed(x)
      BY DEF IInv
    <2> QED
      BY <1>1, <2>1
      DEF Claimed, Rotating, Revoking, Redeeming, Resetting, FamilyOf, OwnedBy
  <1>3. Stored' /\ OneLiveToken' /\ LogoutRevokesTokens' /\ ResetRevokesSessions'
    BY <1>1
    DEF IInv, Stored, OneLiveToken, LogoutRevokesTokens, ResetRevokesSessions, FamilyOf
  <1> QED
    BY <1>2, <1>3 DEF IInv

\* A new reset token is none that a reset holds or used.
LEMMA IssueResetKeeps ==
  ASSUME IInv, TypeOK', NEW r \in ResetTokens, NEW u \in Users, IssueReset(r, u)
  PROVE  IInv'
  <1>1. /\ UNCHANGED <<status, owner, family, consumed, revoked, used, lock, tx,
                       resets, born, loggedOut>>
        /\ grant[r] = NoOne /\ grant' = [grant EXCEPT ![r] = u]
    BY DEF IssueReset, history
  <1>2. ASSUME NEW x \in Tx PROVE Claimed(x)'
    <2>1. Claimed(x) /\ tx[x] \in Work
      BY DEF IInv, TypeOK
    <2>2. Rotating(x)' /\ Revoking(x)' /\ Resetting(x)'
      BY <1>1, <2>1 DEF Claimed, Rotating, Revoking, Resetting, FamilyOf, OwnedBy
    <2>3. Redeeming(x)'
      BY <1>1, <2>1, WorkFields, SessionsAssumption DEF Claimed, Redeeming, IInv, TypeOK
    <2> QED
      BY <2>2, <2>3 DEF Claimed
  <1>3. OneLiveToken' /\ LogoutRevokesTokens' /\ ResetRevokesSessions'
    BY <1>1 DEF IInv, OneLiveToken, LogoutRevokesTokens, ResetRevokesSessions, FamilyOf
  <1>4. Stored'
    BY <1>1, SessionsAssumption DEF IInv, Stored, TypeOK
  <1> QED
    BY <1>2, <1>3, <1>4 DEF IInv

-----------------------------------------------------------------------------
(* The theorems.                                                           *)

\* Nothing is claimed at the start.
LEMMA InitIInv == Init => IInv
  <1> SUFFICES ASSUME Init PROVE IInv
    OBVIOUS
  <1>1. \A x \in Tx : Claimed(x)
    BY DEF Init, Idle, Claimed, Rotating, Revoking, Redeeming, Resetting
  <1>2. \A s \in SessionIds : FamilyOf(s) = {}
    BY SessionsAssumption DEF Init, FamilyOf
  <1>3. Stored /\ OneLiveToken /\ LogoutRevokesTokens /\ ResetRevokesSessions
    BY <1>2
    DEF Init, Stored, OneLiveToken, LogoutRevokesTokens, ResetRevokesSessions
  <1> QED
    BY <1>1, <1>3, InitTypeOK DEF IInv

\* The invariant is inductive.
LEMMA NextIInv == IInv /\ [Next]_vars => IInv'
  <1> SUFFICES ASSUME IInv, [Next]_vars PROVE IInv'
    OBVIOUS
  <1>1. TypeOK'
    BY NextTypeOK DEF IInv
  <1>2. CASE UNCHANGED vars
    <2>1. ASSUME NEW x \in Tx PROVE Claimed(x)'
      BY <1>2
      DEF vars, IInv, Claimed, Rotating, Revoking, Redeeming, Resetting, FamilyOf,
          OwnedBy
    <2> QED
      BY <1>1, <1>2, <2>1
      DEF vars, IInv, Stored, OneLiveToken, LogoutRevokesTokens,
          ResetRevokesSessions, FamilyOf
  <1>3. CASE Next
    BY <1>1, <1>3, WaitingSteps, SignInKeeps, RotateKeeps, ReplayKeeps, LogoutKeeps,
       ResetKeeps, RollbackKeeps, ExpireKeeps, IssueResetKeeps
    DEF Next
  <1> QED
    BY <1>2, <1>3

\* rotate_refresh_token: a session never has two tokens that would be accepted.
THEOREM TokensDoNotFork == Spec => []OneLiveToken
  <1>1. IInv => OneLiveToken
    BY DEF IInv
  <1> QED
    BY <1>1, InitIInv, NextIInv, PTL DEF Spec

\* revoke_session: after a logout every token of the session is revoked, and
\* none is added.
THEOREM LogoutIsComplete == Spec => []LogoutRevokesTokens
  <1>1. IInv => LogoutRevokesTokens
    BY DEF IInv
  <1> QED
    BY <1>1, InitIInv, NextIInv, PTL DEF Spec

\* reset_password: every session from before a reset is revoked by it.
THEOREM ResetIsComplete == Spec => []ResetRevokesSessions
  <1>1. IInv => ResetRevokesSessions
    BY DEF IInv
  <1> QED
    BY <1>1, InitIInv, NextIInv, PTL DEF Spec

\* The count of a user's used reset tokens is defined.
Counted == IsFiniteSet(used) /\ ResetTokensSingleUse

\* Only a reset that holds an unused token counts.
LEMMA NextCounted == IInv /\ Counted /\ [Next]_vars => Counted'
  <1> SUFFICES ASSUME IInv, Counted, [Next]_vars PROVE Counted'
    OBVIOUS
  <1> USE DEF rows, history
  <1>1. CASE UNCHANGED <<used, grant, resets>>
    BY <1>1 DEF Counted, ResetTokensSingleUse
  <1>2. ASSUME NEW r \in ResetTokens, NEW u \in Users, IssueReset(r, u)
        PROVE  Counted'
    <2>1. /\ grant[r] = NoOne /\ grant' = [grant EXCEPT ![r] = u]
          /\ used' = used /\ resets' = resets
      BY <1>2 DEF IssueReset
    <2>2. used \subseteq ResetTokens /\ r \notin used
      BY <2>1 DEF IInv, TypeOK, Stored
    <2>3. \A q \in used : grant'[q] = grant[q]
      BY <2>1, <2>2 DEF IInv, TypeOK
    <2>4. \A v \in Users : {q \in used' : grant'[q] = v} = {q \in used : grant[q] = v}
      BY <2>1, <2>3
    <2> QED
      BY <2>1, <2>4 DEF Counted, ResetTokensSingleUse
  <1>3. ASSUME NEW t \in Tx, Reset(t) PROVE Counted'
    <2>1. PICK u \in Users, r \in ResetTokens :
            /\ u = tx[t].u /\ r = tx[t].r
            /\ used' = used \cup {r} /\ grant' = grant
            /\ resets' = [resets EXCEPT ![u] = @ + 1]
      BY <1>3, WorkFields DEF Reset, IInv, TypeOK
    <2>2. r \notin used /\ grant[r] = u
      BY <1>3, <2>1 DEF IInv, Claimed, Redeeming, Reset
    <2>3. IsFiniteSet(used')
      BY <2>1, FS_AddElement DEF Counted
    <2>4. ASSUME NEW v \in Users
          PROVE  resets'[v] = Cardinality({q \in used' : grant'[q] = v})
      <3> DEFINE before == {q \in used : grant[q] = v}
      <3>1. IsFiniteSet(before) /\ resets[v] = Cardinality(before)
        BY FS_Subset DEF Counted, ResetTokensSingleUse
      <3>2. CASE v = u
        <4>1. {q \in used' : grant'[q] = v} = before \cup {r} /\ r \notin before
          BY <2>1, <2>2, <3>2
        <4>2. Cardinality(before \cup {r}) = Cardinality(before) + 1
          BY <3>1, <4>1, FS_AddElement
        <4>3. resets'[v] = resets[v] + 1
          BY <2>1, <3>2 DEF IInv, TypeOK
        <4> QED
          BY <3>1, <4>1, <4>2, <4>3
      <3>3. CASE v # u
        <4>1. {q \in used' : grant'[q] = v} = before
          BY <2>1, <2>2, <3>3
        <4>2. resets'[v] = resets[v]
          BY <2>1, <3>3 DEF IInv, TypeOK
        <4> QED
          BY <3>1, <4>1, <4>2
      <3> QED
        BY <3>2, <3>3
    <2> QED
      BY <2>3, <2>4 DEF Counted, ResetTokensSingleUse
  <1>4. CASE Next
    <2>1. ASSUME NEW t \in Tx,
                 \/ \E u \in Users : SignInBegin(t, u)
                 \/ \E k \in Tokens : RotateBegin(t, k) \/ ReplayBegin(t, k)
                 \/ ReplayLocks(t)
                 \/ \E s \in SessionIds : LogoutBegin(t, s)
                 \/ LogoutLocks(t)
                 \/ \E r \in ResetTokens : ResetBegin(t, r)
                 \/ ResetUser(t) \/ ResetSessions(t)
          PROVE  UNCHANGED <<used, grant, resets>>
      BY <2>1 DEF SignInBegin, RotateBegin, ReplayBegin, ReplayLocks, LogoutBegin,
                  LogoutLocks, ResetBegin, Redeem, ResetUser, ResetSessions
    <2>2. ASSUME NEW t \in Tx,
                 \/ \E s \in SessionIds, k \in Tokens : SignIn(t, s, k)
                 \/ \E k \in Tokens : Rotate(t, k)
                 \/ Replay(t) \/ Logout(t) \/ Rollback(t)
          PROVE  UNCHANGED <<used, grant, resets>>
      BY <2>2 DEF SignIn, CreateSession, Rotate, Replay, Logout, Revoke, Rollback
    <2>3. ASSUME NEW s \in SessionIds, Expire(s)
          PROVE  UNCHANGED <<used, grant, resets>>
      BY <2>3 DEF Expire
    <2>4. \/ UNCHANGED <<used, grant, resets>>
          \/ \E r \in ResetTokens, u \in Users : IssueReset(r, u)
          \/ \E t \in Tx : Reset(t)
      BY <1>4, <2>1, <2>2, <2>3 DEF Next
    <2> QED
      BY <1>1, <1>2, <1>3, <2>4
  <1> QED
    BY <1>1, <1>4 DEF vars

\* reset_password: as many resets as used tokens, whatever the number of
\* requests that present one.
THEOREM ResetTokensWorkOnce == Spec => []ResetTokensSingleUse
  <1>1. Init => Counted
    <2> SUFFICES ASSUME Init PROVE Counted
      OBVIOUS
    <2>1. IsFiniteSet(used) /\ \A u \in Users : {r \in used : grant[r] = u} = {}
      BY FS_EmptySet DEF Init
    <2> QED
      BY <2>1, FS_EmptySet DEF Init, Counted, ResetTokensSingleUse
  <1>2. Counted => ResetTokensSingleUse
    BY DEF Counted
  <1> QED
    BY <1>1, <1>2, InitIInv, NextIInv, NextCounted, PTL DEF Spec
=============================================================================
