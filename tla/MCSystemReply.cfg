SPECIFICATION Spec
CONSTANTS
  Conversations = {c1}
  Messages = {m1}
  Triggers = {}
  Rules = {}
  InboundIds = {i1}
  Users = {u1}
  Agents = {}
  Unsupported = {}
  Keys = {}
  Tx = {t1}
  NoOne = NoOne
  MaxVersion = 0
  MaxRuleVersion = 1
  MaxLost = 0
  MaxResends = 0
  c1 = c1
  i1 = i1
  m1 = m1
  t1 = t1
  u1 = u1
INVARIANT SystemNotDispatched
