--------------------------- MODULE MCTransactions ---------------------------
(***************************************************************************)
(* Whether transactions end, for TLC: Messaging and Sessions share no row, *)
(* so a behaviour runs one of them, named by part, and the other one rests *)
(* in its initial state.                                                   *)
(***************************************************************************)
EXTENDS Naturals

CONSTANTS c1, m1, g1, u1, s1, k1, k2, k3, r1, t1, t2, NoOne

VARIABLES
  part,
  conv, msg, transfer, rule, timers, inbound, tasks, outbox, kpi, lock, tx, copies,
  lost, acked, windows, last,
  status, owner, expired, family, consumed, revoked, grant, used, authLock, authTx,
  resets, born, loggedOut

Core == INSTANCE Messaging WITH
  Conversations <- {c1}, Messages <- {m1}, Triggers <- {g1}, Rules <- {}, InboundIds <- {},
  Users <- {u1}, Agents <- {}, Unsupported <- {}, Keys <- {}, Tx <- {t1, t2},
  MaxVersion <- 1, MaxRuleVersion <- 1, MaxLost <- 0, MaxResends <- 0
Auth == INSTANCE Sessions WITH
  Users <- {u1}, SessionIds <- {s1}, Tokens <- {k1, k2, k3}, ResetTokens <- {r1},
  Tx <- {t1, t2}, lock <- authLock, tx <- authTx

coreVars == <<conv, msg, transfer, rule, timers, inbound, tasks, outbox, kpi, lock, tx,
              copies, lost, acked, windows, last>>
authVars == <<status, owner, expired, family, consumed, revoked, grant, used, authLock,
              authTx, resets, born, loggedOut>>
vars     == <<part, coreVars, authVars>>

Init == /\ part \in {"core", "auth"}
        /\ Core!Init /\ Auth!Init
        /\ part = "auth" => conv[c1].assigned_user_id = NoOne

Next ==
  \/ part = "core" /\ Core!Next /\ UNCHANGED <<part, authVars>>
  \/ part = "auth" /\ Auth!Next /\ UNCHANGED <<part, coreVars>>

\* The fairness that each module states for itself.
Spec ==
  /\ Init /\ [][Next]_vars
  /\ \A t \in {t1, t2} : /\ SF_coreVars(part = "core" /\ Core!Proceed(t))
                         /\ SF_authVars(part = "auth" /\ Auth!Proceed(t))
  /\ WF_coreVars(part = "core" /\ \E t \in {t1, t2} : Core!DeadlockVictim(t))
  /\ WF_authVars(part = "auth" /\ \E t \in {t1, t2} : Auth!DeadlockVictim(t))

-----------------------------------------------------------------------------
\* Locks are taken in opposite orders by dispatch and takeover, by refresh and
\* logout, yet every transaction ends.
TransactionsEnd == Core!TransactionsEnd /\ Auth!TransactionsEnd
=============================================================================
