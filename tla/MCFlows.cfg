SPECIFICATION FlowSpec
CONSTANTS
  Conversations = {c1}
  Messages = {m1}
  Triggers = {g1}
  Rules = {r1}
  InboundIds = {i1, i2}
  Users = {u1}
  Agents = {}
  Unsupported = {}
  Keys = {}
  Tx = {t1, t2}
  NoOne = NoOne
  MaxVersion = 2
  MaxRuleVersion = 2
  MaxLost = 0
  MaxResends = 1
  c1 = c1
  g1 = g1
  m1 = m1
  r1 = r1
  i1 = i1
  i2 = i2
  t1 = t1
  t2 = t2
  u1 = u1
SYMMETRY Symmetric
INVARIANTS TypeOK ClaimsHeld AiCallFenced CopiesExplained SentWasTaken UnknownIsOpen WindowsMeasured TimersMatchActivity
PROPERTIES CancelledIsFinal SilenceReportedOnce ImplementsLifecycle
