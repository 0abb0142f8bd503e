SPECIFICATION RequestSpec
CONSTANTS
  Conversations = {c1}
  Messages = {m1, m2}
  Triggers = {g1, g2}
  Rules = {}
  InboundIds = {}
  Users = {u1, u2}
  Agents = {u1}
  Unsupported = {c1}
  Keys = {k1}
  Tx = {t1, t2, t3}
  NoOne = NoOne
  MaxVersion = 3
  MaxRuleVersion = 1
  MaxLost = 0
  MaxResends = 1
  c1 = c1
  g1 = g1
  g2 = g2
  k1 = k1
  m1 = m1
  m2 = m2
  t1 = t1
  t2 = t2
  t3 = t3
  u1 = u1
  u2 = u2
SYMMETRY Symmetric
INVARIANTS OnePendingTransfer RetryIsAnswered
