SPECIFICATION Spec
CONSTANTS
  Mails = {m1}
  Verifications = {m1}
  Users = {u1}
  UserOf <- OneUser
  Tasks = {w1, w2, w3}
  MaxRetries = 1
  MaxSends = 3
  MaxMailFaults = 2
  Events = {e1, e2, e3}
  Poison = {e3}
  Relays = {w1, w2}
  Limit = 2
  Period = 5
  MaxExponent = 3
  MaxRelayFaults = 2
  Executions = {x1}
  Workers = {w1, w2}
  NActions = 2
  MaxAttempts = 2
  MaxClaims = 4
  MaxRuleFaults = 2
SYMMETRY Symmetry
INVARIANTS RelaySafety RuleSafety
PROPERTIES MailSafety
CHECK_DEADLOCK FALSE
