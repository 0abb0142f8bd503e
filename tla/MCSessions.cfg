SPECIFICATION Spec
CONSTANTS
  Users = {u1}
  SessionIds = {s1, s2}
  Tokens = {k1, k2, k3, k4}
  ResetTokens = {r1, r2}
  Tx = {t1, t2, t3}
  NoOne = NoOne
  k1 = k1
  k2 = k2
  k3 = k3
  k4 = k4
  r1 = r1
  r2 = r2
  s1 = s1
  s2 = s2
  t1 = t1
  t2 = t2
  t3 = t3
  u1 = u1
SYMMETRY Symmetric
INVARIANT TypeOK
INVARIANT OneLiveToken
INVARIANT LogoutRevokesTokens
INVARIANT ResetRevokesSessions
INVARIANT ResetTokensSingleUse
