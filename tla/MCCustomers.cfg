SPECIFICATION Spec
CONSTANTS
  a1 = a1
  u1 = u1
  u2 = u2
  r1 = r1
  r2 = r2
  r3 = r3
  Nil = Nil
  Requests = {r1, r2}
  ConsentIds = {1, 2, 3}
  Users <- Shared
  KeyFields <- FieldsByPart
  FieldValues = {v1}
  LeadAds <- LeadsByPart
  Intakes <- IntakesByPart
  Editors = {}
  Limit = 2
  MaxContacts = 2
  Erasures <- ErasuresByPart
  Mergers <- MergersByPart
  Rewriters <- RewritersByPart
  Scopes = {marketing, service}
  Messages = {m1}
  Skew = 1
  MaxClock = 2
  Staff <- StaffByPart
  Deals <- DealsByPart
  Pipeline <- PipelineByPart
  Elsewhere <- ElsewhereByPart
  Lost <- LostByPart
  LossReasons <- ReasonsByPart
  Clerks <- ClerksByPart
  RosterEdits <- RosterByPart
  StageChanges <- MovesByPart
  Definitions = {1, 2}
  Names = {"size", "colour"}
  Choices <- ChoicesByPart
  Contacts = {c1}
  DefinitionChanges <- EditsByPart
  ValueWrites <- WritesByPart
SYMMETRY Symmetry
ACTION_CONSTRAINT LeastId
INVARIANTS ContactSafety OptOutHonoured OpportunitySafety MisfitsExplained
CHECK_DEADLOCK FALSE
