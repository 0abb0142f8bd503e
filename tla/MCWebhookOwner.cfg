SPECIFICATION Spec
CONSTANTS
  k1 = k1
  k2 = k2
  a1 = a1
  r1 = r1
  r2 = r2
  w1 = w1
  w2 = w2
  NoOne = NoOne
  Assets = {a1}
  Tenants = {t1}
  MaxAttempts = 2
  MaxFaults = 2
  Events <- EventsByPart
  Postings <- PostingsByPart
  Routing <- RoutingByPart
  Intakes <- IntakesByPart
  Claimers <- ClaimersByPart
  Leases <- LeasesByPart
INVARIANT EffectsRevalidated
