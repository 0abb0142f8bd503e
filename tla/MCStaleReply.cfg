SPECIFICATION FairSpec
CONSTANTS
  Conversations = {c1}
  Messages = {m1}
  Triggers = {}
  Rules = {}
  InboundIds = {}
  Users = {u1}
  Agents = {}
  Unsupported = {}
  Keys = {}
  Tx = {t1, t2}
  NoOne = NoOne
  MaxVersion = 2
  MaxRuleVersion = 1
  MaxLost = 0
  MaxResends = 0
  c1 = c1
  m1 = m1
  t1 = t1
  t2 = t2
  u1 = u1
PROPERTY TakeoverInvalidatesReply
