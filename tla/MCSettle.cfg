SPECIFICATION Spec
CONSTANTS
  m1 = m1
  u1 = u1
  e1 = e1
  e2 = e2
  e3 = e3
  w1 = w1
  w2 = w2
  a = a
  b = b
  x = x
  c1 = c1
  c2 = c2
  d1 = d1
  d2 = d2
  beat = beat
  user = user
  Absent = Absent
  j1 = j1
  j2 = j2
  a1 = a1
  v1 = v1
  None = None
PROPERTIES OutboxesDrain CampaignsSettle JobsSettle ErasureSettles
CHECK_DEADLOCK FALSE
