SPECIFICATION Spec
CONSTANTS
  ana = ana
  eva = eva
  t1 = t1
  t2 = t2
  t3 = t3
  inbox = inbox
  ads = ads
  s1 = s1
  s2 = s2
  NoOne = NoOne
  Requests = {r1, r2}
  Emails = {ana, eva}
  Founded <- FoundedOf
  Founders <- FoundersOf
  Invitations <- InvitationsOf
  Memberships <- MembershipsOf
  Secrets <- SecretsOf
  NCodes = 2
  MaxPasswords = 2
  Owners = {t1, t2}
  Externals = {inbox, ads}
  AdAccounts = {ads}
  States = {s1, s2}
  Found <- Discoveries
  MaxRows = 3
  MaxRefs = 4
  MaxFaults = 1
  Hours = {0, 1, 2, 3}
  Policies = {"queue", "reply"}
  MaxWindows = 3
  MaxPuts = 3
  Items = {1, 2, 3, 4}
  Times = {1, 2}
  Limit = 2
  MaxChanges = 3
  Clients = {c1, c2}
  Paths = {"auth", "crm", "health"}
  AuthPaths = {"auth"}
  Exempt = {"health"}
  AuthLimit = 1
  PathLimit = 2
  Window = 2
  MaxTime = 4
  MaxRequests = 5
SYMMETRY Symmetry
INVARIANTS FactorSafety SettingsSafety PagesComplete WindowExact
PROPERTIES TenancySafety AssetSafety
CHECK_DEADLOCK FALSE
