----------------------------- MODULE MCCustomers -----------------------------
(***************************************************************************)
(* Contacts, Consents, Opportunities and CustomFields for TLC.  They share *)
(* no row: a behaviour runs one of them, named by part, and the others     *)
(* rest in their initial states.  Contacts runs with messages, with        *)
(* messages beside rules and AI runs, and with leads; Opportunities with   *)
(* the rotation alone and with the moves of opportunities that have an     *)
(* owner; CustomFields with three changes of definitions and with two sets *)
(* of options.                                                             *)
(***************************************************************************)
EXTENDS Naturals, TLC

CONSTANTS
  a1, u1, u2, r1, r2, r3, Nil,
  Requests, ConsentIds,
  Users, KeyFields, FieldValues, LeadAds, Intakes, Editors, Limit, MaxContacts, Erasures, Mergers,
  Rewriters,
  Scopes, Messages, Skew, MaxClock,
  Staff, Deals, Pipeline, Elsewhere, Lost, LossReasons, Clerks, RosterEdits, StageChanges,
  Definitions, Names, Choices, Contacts, DefinitionChanges, ValueWrites

VARIABLES
  part,
  contact, ident, lead, merges, work, edit, purged, dropped, late, rewritten,
  now, consent, msg, relied,
  roster, rotation, opp, ai, oppReq, changes, moves, turns, trail, overtaken,
  definition, values, fieldReq, edits, writes, loose

\* The parts that run the contacts.
ContactParts == {"chat", "rules", "leadad"}

ContactsOf(p) == INSTANCE Contacts WITH
  Fields <- KeyFields[p], Values <- FieldValues, Leads <- LeadAds[p], Workers <- Intakes[p],
  MaxErasures <- Erasures[p], MaxMerges <- Mergers[p], MaxRewrites <- Rewriters[p],
  None <- Nil
Consent == INSTANCE Consents WITH Requests <- ConsentIds
DealsOf(p) == INSTANCE Opportunities WITH
  Agents <- Staff[p], Opps <- Deals[p], Stages <- Pipeline[p], Foreign <- Elsewhere[p],
  LostStages <- Lost[p], Reasons <- LossReasons[p], Requests <- Clerks[p],
  MaxRoster <- RosterEdits[p], MaxMoves <- StageChanges[p], req <- oppReq
FieldsOf(p) == INSTANCE CustomFields WITH
  Options <- Choices[p], MaxEdits <- DefinitionChanges[p], MaxWrites <- ValueWrites[p],
  req <- fieldReq

ASSUME CustomerAssumption ==
  /\ \A p \in ContactParts : ContactsOf(p)!ContactAssumption
  /\ Consent!ConsentAssumption
  /\ \A p \in {"rotation", "move"} : DealsOf(p)!OppAssumption
  /\ \A p \in {"field", "option"} : FieldsOf(p)!FieldAssumption

contactVars == <<contact, ident, lead, merges, work, edit, purged, dropped, late, rewritten>>
consentVars == <<now, consent, msg, relied>>
oppVars     == <<roster, rotation, opp, ai, oppReq, changes, moves, turns, trail, overtaken>>
fieldVars   == <<definition, values, fieldReq, edits, writes, loose>>
vars        == <<part, contactVars, consentVars, oppVars, fieldVars>>

Init ==
  /\ part \in ContactParts \cup {"consent", "rotation", "move", "field", "option"}
  /\ \E p \in ContactParts : /\ p = IF part \in ContactParts THEN part ELSE "leadad"
                            /\ ContactsOf(p)!Init
  /\ Consent!Init
  /\ IF part = "rotation" THEN DealsOf("rotation")!Init
     ELSE DealsOf("move")!Init /\ roster = Staff["move"]
  /\ FieldsOf("field")!Init

Next ==
  \/ /\ \E p \in ContactParts : part = p /\ ContactsOf(p)!Next
     /\ UNCHANGED <<part, consentVars, oppVars, fieldVars>>
  \/ /\ part = "consent" /\ Consent!Next
     /\ UNCHANGED <<part, contactVars, oppVars, fieldVars>>
  \/ /\ \/ part = "rotation" /\ DealsOf("rotation")!CreateStep
        \/ part = "move" /\ DealsOf("move")!MoveStep
     /\ UNCHANGED <<part, contactVars, consentVars, fieldVars>>
  \/ /\ \E p \in {"field", "option"} : part = p /\ FieldsOf(p)!Next
     /\ UNCHANGED <<part, contactVars, consentVars, oppVars>>

Spec == Init /\ [][Next]_vars

\* The constants that differ between the parts.
Shared == {<<a1, u1>>, <<a1, u2>>}
FieldsByPart == [chat |-> {"phone", "email"}, rules |-> {"phone"}, leadad |-> {"phone"}]
LeadsByPart == [chat |-> {}, rules |-> {}, leadad |-> {"l1"}]
IntakesByPart == [chat |-> {r1}, rules |-> {r1}, leadad |-> {r1, r2}]
MergersByPart == [chat |-> 1, rules |-> 0, leadad |-> 0]
ErasuresByPart == [chat |-> 1, rules |-> 1, leadad |-> 0]
RewritersByPart == [chat |-> 0, rules |-> 1, leadad |-> 0]
StaffByPart == [rotation |-> 1..3, move |-> {1}]
DealsByPart == [rotation |-> 1..4, move |-> {1}]
PipelineByPart == [rotation |-> {"open"}, move |-> {"open", "won", "lost"}]
ElsewhereByPart == [rotation |-> {}, move |-> {"elsewhere"}]
LostByPart == [rotation |-> {}, move |-> {"lost"}]
ReasonsByPart == [rotation |-> {}, move |-> {"price"}]
ClerksByPart == [rotation |-> {r1, r2, r3}, move |-> {r1, r2}]
RosterByPart == [rotation |-> 1, move |-> 0]
MovesByPart == [rotation |-> 0, move |-> 3]
ChoicesByPart == [field |-> {"red"}, option |-> {"red", "blue"}]
EditsByPart == [field |-> 3, option |-> 2]
WritesByPart == [field |-> 3, option |-> 2]

\* Action constraint: which unused id a new row draws plays no role, so it
\* draws the least one.
LeastId ==
  /\ part = "rotation" =>
       \A o, before \in 1..4 :
         (before < o /\ DealsOf("rotation")!Fresh(o) /\ ~DealsOf("rotation")!Fresh(o)')
           => ~DealsOf("rotation")!Fresh(before)
  /\ part \in {"field", "option"} =>
       (FieldsOf("field")!Fresh(2) /\ ~FieldsOf("field")!Fresh(2)' => ~FieldsOf("field")!Fresh(1))

Symmetry == Permutations({r1, r2}) \cup Permutations({u1, u2})

-----------------------------------------------------------------------------
\* No identity leads to an erased contact, a user whose messages are cut off
\* belongs to a contact deleted by hand, and a lead makes one contact at most;
\* late writes are the excuse that the module names.
ContactSafety ==
  /\ \A p \in {"chat", "rules"} :
       part = p => /\ ContactsOf(p)!TypeOK
                   /\ ContactsOf(p)!ErasedIsUnlinked
                   /\ ContactsOf(p)!CutOffExplained
  /\ part = "leadad" => ContactsOf("leadad")!TypeOK /\ ContactsOf("leadad")!LeadOnce

\* A proactive message goes out for a grant that was begun no earlier, but for the
\* skew of the clocks, than any opt-out answered before the message asked.
OptOutHonoured == Consent!TypeOK /\ Consent!OptOutHonoured

\* The automatic assignment gives no agent two turns more than another, and a
\* move made on a current read leaves the opportunity where the audit says.
OpportunitySafety ==
  /\ part = "rotation" => DealsOf("rotation")!TypeOK /\ DealsOf("rotation")!RotationIsFair
  /\ part = "move" => DealsOf("move")!TypeOK /\ DealsOf("move")!MovesAreSound

\* A value that does not fit its definition follows an unguarded change.
MisfitsExplained ==
  \A p \in {"field", "option"} :
    part = p => FieldsOf(p)!TypeOK /\ FieldsOf(p)!MisfitsExplained
=============================================================================
