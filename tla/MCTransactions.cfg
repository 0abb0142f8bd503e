SPECIFICATION Spec
CONSTANTS
  c1 = c1
  m1 = m1
  g1 = g1
  u1 = u1
  s1 = s1
  k1 = k1
  k2 = k2
  k3 = k3
  r1 = r1
  t1 = t1
  t2 = t2
  NoOne = NoOne
PROPERTY TransactionsEnd
