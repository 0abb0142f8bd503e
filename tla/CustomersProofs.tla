--------------------------- MODULE CustomersProofs ---------------------------
(***************************************************************************)
(* Safety of the four parts of MCCustomers, proved for every value of the  *)
(* constants.  Each part has an inductive invariant of its own, which the  *)
(* steps of the others leave alone.                                        *)
(***************************************************************************)
EXTENDS MCCustomers, FiniteSetTheorems, SequenceTheorems, WellFoundedInduction, TLAPS

-----------------------------------------------------------------------------
(* Contacts.                                                               *)

\* Identities belong to rows that exist, and so do the rows that an inbound
\* transaction has read.
Homes(p) ==
  /\ \A i \in DOMAIN ident : ident[i].contact \in DOMAIN contact
  /\ \A w \in Intakes[p] : work[w] # ContactsOf(p)!Idle => work[w].to <= Len(contact)

\* Erasure ends in death, and nobody rises.
ErasedIsDead == \A c \in DOMAIN contact : contact[c].erasures > 0 => contact[c].status = "deleted"

\* A contact is live, was deleted by hand and never erased, or a late write
\* reached it.
Accounted(c) ==
  \/ contact[c].status = "active"
  \/ c \in late
  \/ c \in dropped /\ contact[c].erasures = 0

\* Every row that bears a user's id belongs to such a contact.
UserRows == \A i \in DOMAIN ident : ident[i].name[1] = "user" => Accounted(ident[i].contact)

\* A lead that has a contact is stored, and has only that one.
LeadRows ==
  /\ \A c \in DOMAIN contact : contact[c].lead # Nil => contact[c].lead \in lead
  /\ \A c, d \in DOMAIN contact :
       contact[c].lead # Nil /\ contact[c].lead = contact[d].lead => c = d

\* The inductive invariant of the contacts.
ContactInv(p) == ContactsOf(p)!TypeOK /\ Homes(p) /\ ErasedIsDead /\ UserRows /\ LeadRows

\* Rows and identities as sequences.
LEMMA ContactHasType ==
  ASSUME NEW p, ContactsOf(p)!TypeOK
  PROVE  /\ Len(contact) \in Nat /\ DOMAIN contact = 1 .. Len(contact)
         /\ Len(contact) <= MaxContacts
         /\ \A c \in DOMAIN contact : contact[c] \in ContactsOf(p)!Contact
         /\ Len(ident) \in Nat /\ DOMAIN ident = 1 .. Len(ident)
         /\ \A i \in DOMAIN ident : ident[i] \in ContactsOf(p)!Identity
  BY ElementOfSeq DEF ContactsOf!TypeOK

\* A step that changes no status, no erasure and no identity.
LEMMA QuietKeeps ==
  ASSUME NEW p, ContactInv(p), ContactsOf(p)!TypeOK', Len(contact') = Len(contact),
         \A c \in DOMAIN contact : /\ contact'[c].status = contact[c].status
                                   /\ contact'[c].erasures = contact[c].erasures
                                   /\ contact'[c].lead = contact[c].lead,
         \A w \in Intakes[p] : work'[w] # ContactsOf(p)!Idle => work'[w].to <= Len(contact),
         late \subseteq late',
         UNCHANGED <<ident, lead, dropped>>
  PROVE  ContactInv(p)'
  <1>1. DOMAIN contact' = DOMAIN contact
    <2>1. contact \in Seq(ContactsOf(p)!Contact) /\ contact' \in Seq(ContactsOf(p)!Contact)
      BY DEF ContactInv, ContactsOf!TypeOK, ContactsOf!Contact, ContactsOf!Given
    <2> QED
      BY <2>1
  <1>2. Homes(p)'
    BY <1>1 DEF ContactInv, Homes, ContactsOf!Idle
  <1>3. ErasedIsDead' /\ LeadRows'
    BY <1>1 DEF ContactInv, ErasedIsDead, LeadRows
  <1>4. UserRows'
    BY <1>1 DEF ContactInv, Homes, UserRows, Accounted
  <1> QED
    BY <1>2, <1>3, <1>4 DEF ContactInv

\* The bounds are numbers, and Nil is neither a value nor a lead.
LEMMA ContactNumbers ==
  ASSUME NEW p \in ContactParts
  PROVE  /\ MaxContacts \in Nat /\ Erasures[p] \in Nat /\ Mergers[p] \in Nat
         /\ Nil \notin LeadAds[p]
  BY CustomerAssumption DEF ContactParts, ContactsOf!ContactAssumption

\* What an inbound transaction and a PATCH hold.
LEMMA RequestHasType ==
  ASSUME NEW p, ContactsOf(p)!TypeOK
  PROVE  /\ \A w \in Intakes[p] :
              work[w] = ContactsOf(p)!Idle \/ work[w] \in ContactsOf(p)!Writing
         /\ \A e \in Editors : edit[e] \in {0} \cup DOMAIN contact
  BY DEF ContactsOf!TypeOK, ContactsOf!Ids

\* A list of rows as a sequence.
LEMMA ListIsSeq ==
  ASSUME NEW S, NEW n \in Nat, NEW f \in [1 .. n -> S]
  PROVE  f \in Seq(S) /\ Len(f) = n /\ DOMAIN f = 1 .. n
  OBVIOUS

\* An inbound transaction reads rows that exist.
LEMMA ResolveKeeps ==
  ASSUME NEW p \in ContactParts, ContactInv(p), NEW w \in Intakes[p], NEW u \in Users,
         NEW g \in ContactsOf(p)!Given, NEW l \in LeadAds[p] \cup {Nil},
         ContactsOf(p)!Resolve(w, u, g, l)
  PROVE  ContactInv(p)'
  <1> USE DEF ContactInv
  <1> DEFINE Started(c, link) ==
        work' = [work EXCEPT ![w] =
          [at |-> "write", user |-> u, keys |-> g, lead |-> l, to |-> c, link |-> link]]
  <1>0. \E c \in {0} \cup DOMAIN contact : \E link \in BOOLEAN : Started(c, link)
    <2>1. \/ \E c \in ContactsOf(p)!Known(u) : Started(c, FALSE)
          \/ \E c \in ContactsOf(p)!Matches(g) : Started(c, TRUE)
          \/ Started(0, TRUE)
      BY DEF ContactsOf!Resolve
    <2>2. ContactsOf(p)!Known(u) \subseteq DOMAIN contact
          /\ ContactsOf(p)!Matches(g) \subseteq DOMAIN contact
      BY DEF ContactsOf!Known, ContactsOf!Matches, ContactsOf!Ids
    <2>3. CASE \E c \in ContactsOf(p)!Known(u) : Started(c, FALSE)
      BY <2>2, <2>3
    <2>4. CASE \E c \in ContactsOf(p)!Matches(g) : Started(c, TRUE)
      BY <2>2, <2>4
    <2>5. CASE Started(0, TRUE)
      BY <2>5
    <2> QED
      BY <2>1, <2>3, <2>4, <2>5
  <1>1. PICK c \in {0} \cup DOMAIN contact : \E link \in BOOLEAN : Started(c, link)
    BY <1>0
  <1>2. c \in 0 .. MaxContacts /\ c <= Len(contact)
    BY <1>1, ContactHasType, ContactNumbers
  <1>3. work' \in [Intakes[p] -> {ContactsOf(p)!Idle} \cup ContactsOf(p)!Writing]
    BY <1>1, <1>2 DEF ContactsOf!TypeOK, ContactsOf!Writing
  <1>4. ContactsOf(p)!TypeOK'
    BY <1>3 DEF ContactsOf!TypeOK, ContactsOf!Resolve, ContactsOf!Ids
  <1>5. \A v \in Intakes[p] : work'[v] # ContactsOf(p)!Idle => work'[v].to <= Len(contact)
    BY <1>1, <1>2 DEF Homes, ContactsOf!TypeOK
  <1>6. UNCHANGED <<contact, ident, lead, dropped, late, rewritten>>
    BY DEF ContactsOf!Resolve
  <1> HIDE DEF ContactInv
  <1> QED
    BY <1>4, <1>5, <1>6, QuietKeeps

\* A refused transaction leaves the rows alone.
LEMMA RefuseKeeps ==
  ASSUME NEW p \in ContactParts, ContactInv(p), NEW w \in Intakes[p], ContactsOf(p)!Refuse(w)
  PROVE  ContactInv(p)'
  <1> USE DEF ContactInv
  <1>1. /\ work' = [work EXCEPT ![w] = ContactsOf(p)!Idle]
        /\ UNCHANGED <<contact, ident, lead, merges, edit, purged, dropped, late, rewritten>>
    BY DEF ContactsOf!Refuse, ContactsOf!Abort
  <1>2. ContactsOf(p)!TypeOK'
    BY <1>1 DEF ContactsOf!TypeOK, ContactsOf!Ids
  <1>3. \A v \in Intakes[p] : work'[v] # ContactsOf(p)!Idle => work'[v].to <= Len(contact)
    BY <1>1 DEF Homes, ContactsOf!TypeOK
  <1> HIDE DEF ContactInv
  <1> QED
    BY <1>1, <1>2, <1>3, QuietKeeps

\* PATCH reads a contact ...
LEMMA UpdateBeginKeeps ==
  ASSUME NEW p \in ContactParts, ContactInv(p), NEW e \in Editors, NEW c \in DOMAIN contact,
         ContactsOf(p)!UpdateBegin(e, c)
  PROVE  ContactInv(p)'
  <1> USE DEF ContactInv
  <1>1. UNCHANGED <<contact, ident, lead, merges, work, purged, dropped, late, rewritten>>
    BY DEF ContactsOf!UpdateBegin
  <1>2. ContactsOf(p)!TypeOK'
    BY <1>1 DEF ContactsOf!TypeOK, ContactsOf!Ids, ContactsOf!UpdateBegin
  <1>3. \A v \in Intakes[p] : work'[v] # ContactsOf(p)!Idle => work'[v].to <= Len(contact)
    BY <1>1 DEF Homes
  <1> HIDE DEF ContactInv
  <1> QED
    BY <1>1, <1>2, <1>3, QuietKeeps

\* A write of a contact's fields, whoever makes it and whether the contact is
\* alive or not.
LEMMA EditedKeeps ==
  ASSUME NEW p \in ContactParts, ContactInv(p), NEW c \in DOMAIN contact,
         NEW g \in ContactsOf(p)!Given,
         contact' = ContactsOf(p)!Edited(c, g),
         rewritten' = rewritten \cup {x \in {c} : ~ContactsOf(p)!Live(x)},
         edit' = edit \/ \E e \in Editors : edit' = [edit EXCEPT ![e] = 0],
         UNCHANGED <<ident, lead, merges, work, purged, dropped, late>>
  PROVE  ContactInv(p)'
  <1> USE DEF ContactInv
  <1>3. /\ contact[c] \in ContactsOf(p)!Contact
        /\ Len(contact) \in Nat /\ DOMAIN contact = 1 .. Len(contact)
    BY ContactHasType
  <1>4. [f \in KeyFields[p] |-> IF g[f] = Nil THEN contact[c].keys[f] ELSE g[f]]
          \in ContactsOf(p)!Given
    BY <1>3 DEF ContactsOf!Given, ContactsOf!Contact
  <1>5. /\ contact' = [contact EXCEPT ![c] = [contact[c] EXCEPT
             !.keys = [f \in KeyFields[p] |-> IF g[f] = Nil THEN contact[c].keys[f] ELSE g[f]],
             !.profile = TRUE]]
    BY <1>3 DEF ContactsOf!Edited, ContactsOf!Contact
  <1>6. contact' \in [1 .. Len(contact) -> ContactsOf(p)!Contact]
    <2>1. [contact[c] EXCEPT
             !.keys = [f \in KeyFields[p] |-> IF g[f] = Nil THEN contact[c].keys[f] ELSE g[f]],
             !.profile = TRUE] \in ContactsOf(p)!Contact
      BY <1>3, <1>4 DEF ContactsOf!Contact
    <2>2. contact \in [1 .. Len(contact) -> ContactsOf(p)!Contact]
      BY ContactHasType DEF ContactsOf!TypeOK
    <2> QED
      BY <2>1, <2>2, <1>5
  <1>7. contact' \in Seq(ContactsOf(p)!Contact) /\ Len(contact') = Len(contact)
        /\ DOMAIN contact' = DOMAIN contact
    BY <1>3, <1>6, ListIsSeq
  <1>8. ContactsOf(p)!TypeOK'
    BY <1>7 DEF ContactsOf!TypeOK, ContactsOf!Ids
  <1>9. \A v \in Intakes[p] : work'[v] # ContactsOf(p)!Idle => work'[v].to <= Len(contact)
    BY DEF Homes
  <1>10. \A x \in DOMAIN contact : /\ contact'[x].status = contact[x].status
                                   /\ contact'[x].erasures = contact[x].erasures
                                   /\ contact'[x].lead = contact[x].lead
    BY <1>3, <1>5, ContactHasType DEF ContactsOf!Contact
  <1> HIDE DEF ContactInv
  <1> QED
    BY <1>7, <1>8, <1>9, <1>10, QuietKeeps

\* ... and writes its keys, also those of a contact that died meanwhile.
LEMMA UpdateCommitKeeps ==
  ASSUME NEW p \in ContactParts, ContactInv(p), NEW e \in Editors, NEW g \in ContactsOf(p)!Given,
         ContactsOf(p)!UpdateCommit(e, g)
  PROVE  ContactInv(p)'
  <1>1. edit[e] \in DOMAIN contact
    BY RequestHasType DEF ContactsOf!UpdateCommit, ContactInv
  <1> QED
    BY <1>1, EditedKeeps DEF ContactsOf!UpdateCommit

\* So do an AI run and a rule, under the contact's lock.
LEMMA QualifyKeeps ==
  ASSUME NEW p \in ContactParts, ContactInv(p), NEW c \in DOMAIN contact,
         NEW g \in ContactsOf(p)!Given, ContactsOf(p)!Qualify(c, g)
  PROVE  ContactInv(p)'
  BY EditedKeeps DEF ContactsOf!Qualify

\* Time makes an erased contact due, and nothing else.
LEMMA RetentionKeeps ==
  ASSUME NEW p \in ContactParts, ContactInv(p), NEW c \in DOMAIN contact,
         ContactsOf(p)!RetentionPasses(c)
  PROVE  ContactInv(p)'
  <1> USE DEF ContactInv
  <1>1. UNCHANGED <<ident, lead, merges, work, edit, purged, dropped, late, rewritten>>
    BY DEF ContactsOf!RetentionPasses
  <1>2. /\ contact[c] \in ContactsOf(p)!Contact
        /\ Len(contact) \in Nat /\ DOMAIN contact = 1 .. Len(contact)
    BY ContactHasType
  <1>3. contact' = [contact EXCEPT ![c] = [contact[c] EXCEPT !.due = TRUE]]
    BY DEF ContactsOf!RetentionPasses
  <1>4. contact' \in [1 .. Len(contact) -> ContactsOf(p)!Contact]
    BY <1>2, <1>3, ContactHasType DEF ContactsOf!Contact
  <1>5. contact' \in Seq(ContactsOf(p)!Contact) /\ Len(contact') = Len(contact)
        /\ DOMAIN contact' = DOMAIN contact
    BY <1>2, <1>4, ListIsSeq
  <1>6. ContactsOf(p)!TypeOK'
    BY <1>1, <1>5 DEF ContactsOf!TypeOK, ContactsOf!Ids
  <1>7. \A v \in Intakes[p] : work'[v] # ContactsOf(p)!Idle => work'[v].to <= Len(contact)
    BY <1>1 DEF Homes
  <1>8. \A x \in DOMAIN contact : /\ contact'[x].status = contact[x].status
                                  /\ contact'[x].erasures = contact[x].erasures
                                  /\ contact'[x].lead = contact[x].lead
    BY <1>2, <1>3, ContactHasType DEF ContactsOf!Contact
  <1> HIDE DEF ContactInv
  <1> QED
    BY <1>1, <1>5, <1>6, <1>7, <1>8, QuietKeeps

\* A row of the identities after a transaction is one from before it, or belongs
\* to the transaction's contact.
LEMMA LinkedRows ==
  ASSUME NEW p \in ContactParts, ContactsOf(p)!TypeOK, NEW w \in Intakes[p],
         work[w] # ContactsOf(p)!Idle, NEW c \in 1 .. MaxContacts
  PROVE  LET linked == ContactsOf(p)!Linked(w, c)
         IN /\ linked \in Seq(ContactsOf(p)!Identity)
            /\ \A i \in DOMAIN linked :
                 \/ i \in DOMAIN ident /\ linked[i] = ident[i]
                 \/ linked[i].contact = c
  <1> DEFINE u == work[w].user
             row == [asset |-> u[1], name |-> <<"user", u[2]>>, contact |-> c]
             rows == ContactsOf(p)!Rows(u)
             moved == [i \in DOMAIN ident |->
                         IF i \in rows THEN [ident[i] EXCEPT !.contact = c] ELSE ident[i]]
  <1>1. work[w] \in ContactsOf(p)!Writing
    BY RequestHasType
  <1>2. u \in Users /\ row \in ContactsOf(p)!Identity
    BY <1>1 DEF ContactsOf!Writing, ContactsOf!Identity, ContactsOf!Assets, ContactsOf!Name
  <1>3. ident \in Seq(ContactsOf(p)!Identity)
    BY DEF ContactsOf!TypeOK
  <1>4. Len(ident) \in Nat /\ DOMAIN ident = 1 .. Len(ident)
        /\ \A i \in DOMAIN ident : ident[i] \in ContactsOf(p)!Identity
    BY ContactHasType
  <1>5. moved \in [1 .. Len(ident) -> ContactsOf(p)!Identity]
    BY <1>4 DEF ContactsOf!Identity
  <1>6. moved \in Seq(ContactsOf(p)!Identity) /\ DOMAIN moved = DOMAIN ident
    BY <1>4, <1>5, ListIsSeq
  <1>7. \A i \in DOMAIN moved : moved[i] = ident[i] \/ moved[i].contact = c
    BY <1>4 DEF ContactsOf!Identity
  <1>8. /\ Append(ident, row) \in Seq(ContactsOf(p)!Identity)
        /\ \A i \in DOMAIN Append(ident, row) :
             \/ i \in DOMAIN ident /\ Append(ident, row)[i] = ident[i]
             \/ Append(ident, row)[i] = row
    <2> HIDE DEF row
    <2> QED
      BY <1>2, <1>3, <1>4
  <1>9. row.contact = c
    OBVIOUS
  <1>10. ContactsOf(p)!Linked(w, c) \in {ident, moved, Append(ident, row)}
    BY DEF ContactsOf!Linked
  <1> HIDE DEF moved, row
  <1> QED
    BY <1>3, <1>6, <1>7, <1>8, <1>9, <1>10

\* A contact appended by a transaction, or by POST, is the only one of its lead.
LEMMA NewLeadIsAlone ==
  ASSUME NEW p \in ContactParts, ContactInv(p), NEW new \in ContactsOf(p)!Contact,
         new.lead \notin lead,
         contact' = Append(contact, new),
         lead' = lead \cup ({new.lead} \ {Nil})
  PROVE  LeadRows'
  <1>1. contact \in Seq(ContactsOf(p)!Contact)
    BY DEF ContactInv, ContactsOf!TypeOK
  <1>2. \A c \in DOMAIN contact' : \/ c = Len(contact) + 1 /\ contact'[c] = new
                                   \/ c \in DOMAIN contact /\ contact'[c] = contact[c]
    <2>1. Len(contact) \in Nat /\ DOMAIN contact = 1 .. Len(contact)
      BY ContactHasType DEF ContactInv
    <2>2. DOMAIN contact' = 1 .. Len(contact) + 1
      BY <1>1, <2>1
    <2>3. contact'[Len(contact) + 1] = new /\ \A c \in DOMAIN contact : contact'[c] = contact[c]
      BY <1>1, <2>1
    <2> QED
      BY <2>1, <2>2, <2>3
  <1>3. \A c \in DOMAIN contact' : contact'[c].lead # Nil => contact'[c].lead \in lead'
    BY <1>2 DEF ContactInv, LeadRows
  <1>4. \A c, d \in DOMAIN contact' :
          contact'[c].lead # Nil /\ contact'[c].lead = contact'[d].lead => c = d
    BY <1>2 DEF ContactInv, LeadRows
  <1> QED
    BY <1>3, <1>4 DEF LeadRows

\* POST adds a live contact without a lead.
LEMMA CreateContactKeeps ==
  ASSUME NEW p \in ContactParts, ContactInv(p), NEW g \in ContactsOf(p)!Given,
         ContactsOf(p)!CreateContact(g)
  PROVE  ContactInv(p)'
  <1> DEFINE new == ContactsOf(p)!NewContact(g, Nil, FALSE)
  <1>1. /\ contact' = Append(contact, new) /\ Len(contact) < MaxContacts
        /\ UNCHANGED <<ident, lead, merges, work, edit, purged, dropped, late, rewritten>>
    BY DEF ContactsOf!CreateContact
  <1>2. new \in ContactsOf(p)!Contact /\ new.status = "active" /\ new.erasures = 0 /\ new.lead = Nil
    BY ContactNumbers DEF ContactsOf!NewContact, ContactsOf!Contact
  <1>3. ContactsOf(p)!TypeOK /\ contact \in Seq(ContactsOf(p)!Contact)
    BY DEF ContactInv, ContactsOf!TypeOK
  <1>4. Len(contact) \in Nat /\ DOMAIN contact = 1 .. Len(contact)
    BY <1>3, ContactHasType
  <1> HIDE DEF new
  <1>5. /\ contact' \in Seq(ContactsOf(p)!Contact) /\ Len(contact') = Len(contact) + 1
        /\ DOMAIN contact \subseteq DOMAIN contact'
        /\ \A c \in DOMAIN contact : contact'[c] = contact[c]
        /\ \A c \in DOMAIN contact' : c \in DOMAIN contact \/ contact'[c] = new
    BY <1>1, <1>2, <1>3, <1>4
  <1>6. ContactsOf(p)!TypeOK'
    BY <1>1, <1>3, <1>4, <1>5, ContactNumbers DEF ContactsOf!TypeOK, ContactsOf!Ids
  <1>7. Homes(p)'
    BY <1>1, <1>4, <1>5, ContactHasType, RequestHasType, <1>3
       DEF ContactInv, Homes, ContactsOf!Writing, ContactsOf!Idle
  <1>8. ErasedIsDead'
    BY <1>2, <1>5 DEF ContactInv, ErasedIsDead
  <1>9. UserRows'
    BY <1>1, <1>5 DEF ContactInv, Homes, UserRows, Accounted
  <1>10. LeadRows'
    BY <1>1, <1>2, <1>3, NewLeadIsAlone, ContactNumbers DEF ContactsOf!TypeOK
  <1> QED
    BY <1>6, <1>7, <1>8, <1>9, <1>10 DEF ContactInv

\* An inbound transaction stores a lead that nobody stored, for a new contact or for
\* one that is then live or written to late.
LEMMA StoreKeeps ==
  ASSUME NEW p \in ContactParts, ContactInv(p), NEW w \in Intakes[p], ContactsOf(p)!Store(w)
  PROVE  ContactInv(p)'
  <1> DEFINE t == work[w]
             c == IF t.to = 0 THEN Len(contact) + 1 ELSE t.to
             said == t.lead = Nil
             new == ContactsOf(p)!NewContact(t.keys, t.lead, said)
  <1>1. ContactsOf(p)!TypeOK /\ contact \in Seq(ContactsOf(p)!Contact)
    BY DEF ContactInv, ContactsOf!TypeOK
  <1>2. /\ Len(contact) \in Nat /\ DOMAIN contact = 1 .. Len(contact)
        /\ \A x \in DOMAIN contact : contact[x] \in ContactsOf(p)!Contact
    BY <1>1, ContactHasType
  <1>3. t # ContactsOf(p)!Idle /\ t \in ContactsOf(p)!Writing
    BY <1>1, RequestHasType DEF ContactsOf!Store
  <1>4. t.to \in 0 .. Len(contact)
    BY <1>2, <1>3, ContactNumbers DEF ContactInv, Homes, ContactsOf!Writing
  <1>5. c \in 1 .. MaxContacts
    BY <1>2, <1>4, ContactNumbers DEF ContactsOf!Store
  <1>6. /\ t.lead \notin lead
        /\ ident' = ContactsOf(p)!Linked(w, c)
        /\ lead' = lead \cup ({t.lead} \ {Nil})
        /\ late' = late \cup {x \in {t.to} \ {0} : ~ContactsOf(p)!Live(x)}
        /\ work' = [work EXCEPT ![w] = ContactsOf(p)!Idle]
        /\ UNCHANGED <<merges, edit, purged, dropped, rewritten>>
    BY DEF ContactsOf!Store, ContactsOf!LeadStored
  <1>7. contact' = IF t.to = 0 THEN Append(contact, new)
                   ELSE [contact EXCEPT ![c] = [contact[c] EXCEPT !.bodies = @ \/ said]]
    BY DEF ContactsOf!Store
  <1>8. /\ new \in ContactsOf(p)!Contact /\ new.status = "active" /\ new.erasures = 0
        /\ new.lead = t.lead
    BY <1>3, ContactNumbers DEF ContactsOf!NewContact, ContactsOf!Contact, ContactsOf!Writing
  <1> HIDE DEF new, said
  <1>9. /\ contact' \in Seq(ContactsOf(p)!Contact) /\ Len(contact') <= MaxContacts
        /\ DOMAIN contact \cup {c} \subseteq DOMAIN contact'
        /\ \A x \in DOMAIN contact : /\ contact'[x].status = contact[x].status
                                     /\ contact'[x].erasures = contact[x].erasures
                                     /\ contact'[x].lead = contact[x].lead
        /\ \A x \in DOMAIN contact' : x \in DOMAIN contact \/ contact'[x] = new
        /\ Len(contact') >= Len(contact)
    <2>1. CASE t.to = 0
      <3>1. contact' = Append(contact, new) /\ c = Len(contact) + 1
        BY <2>1, <1>7
      <3> QED
        BY <3>1, <1>1, <1>2, <1>5, <1>8, ContactNumbers
    <2>2. CASE t.to # 0
      <3>1. c \in DOMAIN contact
        BY <2>2, <1>2, <1>4
      <3>2. contact' = [contact EXCEPT
              ![c] = [contact[c] EXCEPT !.bodies = contact[c].bodies \/ said]]
        BY <2>2, <1>7
      <3>3. [contact[c] EXCEPT !.bodies = contact[c].bodies \/ said] \in ContactsOf(p)!Contact
        BY <1>2, <3>1 DEF ContactsOf!Contact, said
      <3>4. contact' \in [1 .. Len(contact) -> ContactsOf(p)!Contact]
        BY <1>2, <3>1, <3>2, <3>3
      <3>5. contact' \in Seq(ContactsOf(p)!Contact) /\ Len(contact') = Len(contact)
            /\ DOMAIN contact' = DOMAIN contact
        BY <1>2, <3>4, ListIsSeq
      <3>6. \A x \in DOMAIN contact : /\ contact'[x].status = contact[x].status
                                      /\ contact'[x].erasures = contact[x].erasures
                                      /\ contact'[x].lead = contact[x].lead
        BY <1>2, <3>1, <3>2 DEF ContactsOf!Contact
      <3> HIDE DEF c
      <3> QED
        BY <1>1, <3>1, <3>5, <3>6, ContactHasType
    <2> QED
      BY <2>1, <2>2
  <1>10. LET linked == ContactsOf(p)!Linked(w, c)
         IN /\ linked \in Seq(ContactsOf(p)!Identity)
            /\ \A i \in DOMAIN linked :
                 \/ i \in DOMAIN ident /\ linked[i] = ident[i]
                 \/ linked[i].contact = c
    <2> HIDE DEF c
    <2> QED
      BY <1>1, <1>3, <1>5, LinkedRows
  <1>11. /\ ident' \in Seq(ContactsOf(p)!Identity)
         /\ \A i \in DOMAIN ident' :
              \/ i \in DOMAIN ident /\ ident'[i] = ident[i]
              \/ ident'[i].contact = c
    BY <1>6, <1>10
  <1>12. c \in DOMAIN contact => \/ contact[c].status = "active"
                                 \/ c \in late'
    BY <1>2, <1>4, <1>6 DEF ContactsOf!Live, ContactsOf!Contact
  <1>13. late' \subseteq DOMAIN contact' /\ late \subseteq late'
    BY <1>1, <1>2, <1>4, <1>6, <1>9 DEF ContactsOf!TypeOK, ContactsOf!Ids
  <1>14. lead' \subseteq LeadAds[p]
    BY <1>1, <1>3, <1>6 DEF ContactsOf!TypeOK, ContactsOf!Writing
  <1>15. Homes(p)'
    <2>1. \A i \in DOMAIN ident' : ident'[i].contact \in DOMAIN contact'
      BY <1>9, <1>11 DEF ContactInv, Homes
    <2>2. \A v \in Intakes[p] : work'[v] # ContactsOf(p)!Idle => work'[v] = work[v]
      BY <1>1, <1>6 DEF ContactsOf!TypeOK
    <2>3. \A v \in Intakes[p] : work'[v] # ContactsOf(p)!Idle => work'[v].to \in Nat
      BY <1>1, <2>2, RequestHasType, ContactNumbers DEF ContactsOf!Writing
    <2>4. Len(contact') \in Nat
      BY <1>9
    <2>5. \A v \in Intakes[p] : work'[v] # ContactsOf(p)!Idle => work'[v].to <= Len(contact')
      BY <1>2, <1>9, <2>2, <2>3, <2>4 DEF ContactInv, Homes
    <2> QED
      BY <2>1, <2>5 DEF Homes, ContactsOf!Idle
  <1> HIDE DEF c, t
  <1>16. ContactsOf(p)!TypeOK'
    BY <1>1, <1>6, <1>9, <1>11, <1>13, <1>14 DEF ContactsOf!TypeOK, ContactsOf!Ids
  <1>17. ErasedIsDead'
    BY <1>8, <1>9 DEF ContactInv, ErasedIsDead
  <1>18. \A x : Accounted(x)' <=> \/ contact'[x].status = "active"
                                  \/ x \in late'
                                  \/ x \in dropped' /\ contact'[x].erasures = 0
    BY DEF Accounted
  <1>19. \A x \in DOMAIN contact : Accounted(x) => Accounted(x)'
    BY <1>6, <1>9, <1>13, <1>18 DEF Accounted
  <1>20. UserRows'
    <2>1. PICK d : d = c
      OBVIOUS
    <2>2. Accounted(d)'
      BY <1>8, <1>9, <1>12, <1>18, <2>1
    <2>3. \A i \in DOMAIN ident' : ident'[i].name[1] = "user" =>
            \E x : x = ident'[i].contact /\ Accounted(x)'
      BY <1>11, <1>19, <2>1, <2>2 DEF ContactInv, Homes, UserRows
    <2> QED
      BY <2>3, <1>18 DEF UserRows, Accounted
  <1>21. LeadRows'
    <2>1. CASE t.to = 0
      BY <1>6, <1>7, <1>8, <2>1, NewLeadIsAlone
    <2>2. CASE t.to # 0
      <3>1. DOMAIN contact' = DOMAIN contact
        BY <1>1, <1>7, <2>2
      <3> QED
        BY <1>6, <1>9, <3>1 DEF ContactInv, LeadRows
    <2> QED
      BY <2>1, <2>2
  <1> QED
    BY <1>15, <1>16, <1>17, <1>20, <1>21 DEF ContactInv

\* A plain DELETE accounts for the rows of a live contact, never of an erased one.
LEMMA DeleteContactKeeps ==
  ASSUME NEW p \in ContactParts, ContactInv(p), NEW c \in DOMAIN contact,
         ContactsOf(p)!DeleteContact(c)
  PROVE  ContactInv(p)'
  <1>1. ContactsOf(p)!TypeOK /\ contact \in Seq(ContactsOf(p)!Contact)
    BY DEF ContactInv, ContactsOf!TypeOK
  <1>2. /\ Len(contact) \in Nat /\ DOMAIN contact = 1 .. Len(contact)
        /\ \A x \in DOMAIN contact : contact[x] \in ContactsOf(p)!Contact
    BY <1>1, ContactHasType
  <1>3. /\ contact' = [contact EXCEPT ![c] = [contact[c] EXCEPT !.status = "deleted"]]
        /\ dropped' = dropped \cup {c}
        /\ UNCHANGED <<ident, lead, merges, work, edit, purged, late, rewritten>>
    BY DEF ContactsOf!DeleteContact
  <1>4. contact' \in [1 .. Len(contact) -> ContactsOf(p)!Contact]
    BY <1>2, <1>3 DEF ContactsOf!Contact
  <1>5. /\ contact' \in Seq(ContactsOf(p)!Contact) /\ Len(contact') = Len(contact)
        /\ DOMAIN contact' = DOMAIN contact
    BY <1>2, <1>4, ListIsSeq
  <1>6. \A x \in DOMAIN contact :
          /\ contact'[x].erasures = contact[x].erasures /\ contact'[x].lead = contact[x].lead
          /\ contact'[x].status = IF x = c THEN "deleted" ELSE contact[x].status
    BY <1>2, <1>3 DEF ContactsOf!Contact
  <1>7. ContactsOf(p)!TypeOK'
    BY <1>1, <1>3, <1>5 DEF ContactsOf!TypeOK, ContactsOf!Ids
  <1>8. Homes(p)'
    BY <1>3, <1>5 DEF ContactInv, Homes, ContactsOf!Idle
  <1>9. ErasedIsDead' /\ LeadRows'
    BY <1>3, <1>5, <1>6 DEF ContactInv, ErasedIsDead, LeadRows
  <1>10. contact[c].status = "active" /\ contact[c].erasures = 0
    BY <1>2 DEF ContactInv, ErasedIsDead, ContactsOf!DeleteContact, ContactsOf!Live,
           ContactsOf!Contact
  <1>11. \A x : Accounted(x)' <=> \/ contact'[x].status = "active"
                                  \/ x \in late'
                                  \/ x \in dropped' /\ contact'[x].erasures = 0
    BY DEF Accounted
  <1>12. \A x \in DOMAIN contact : Accounted(x) => Accounted(x)'
    BY <1>3, <1>6, <1>10, <1>11 DEF Accounted
  <1>13. \A i \in DOMAIN ident' : ident'[i].name[1] = "user" =>
           \E x : x = ident'[i].contact /\ Accounted(x)'
    BY <1>3, <1>12 DEF ContactInv, Homes, UserRows
  <1>14. UserRows'
    BY <1>13, <1>11 DEF UserRows, Accounted
  <1> QED
    BY <1>7, <1>8, <1>9, <1>14 DEF ContactInv

\* Rows that change in place stay a list of rows.
LEMMA EditedRows ==
  ASSUME NEW p \in ContactParts, ContactsOf(p)!TypeOK, NEW rows,
         DOMAIN rows = DOMAIN ident, rows = [i \in DOMAIN ident |-> rows[i]],
         \A i \in DOMAIN ident : rows[i] \in ContactsOf(p)!Identity
  PROVE  rows \in Seq(ContactsOf(p)!Identity)
  <1>1. Len(ident) \in Nat /\ DOMAIN ident = 1 .. Len(ident)
    BY ContactHasType
  <1>2. rows \in [1 .. Len(ident) -> ContactsOf(p)!Identity]
    BY <1>1
  <1> QED
    BY <1>1, <1>2, ListIsSeq

\* An erasure leaves no row of the contact that bears a user's id.
LEMMA EraseContactKeeps ==
  ASSUME NEW p \in ContactParts, ContactInv(p), NEW c \in DOMAIN contact,
         ContactsOf(p)!EraseContact(c)
  PROVE  ContactInv(p)'
  <1> DEFINE name == <<"erased", c, contact[c].erasures + 1>>
  <1>1. ContactsOf(p)!TypeOK /\ contact \in Seq(ContactsOf(p)!Contact)
    BY DEF ContactInv, ContactsOf!TypeOK
  <1>2. /\ Len(contact) \in Nat /\ DOMAIN contact = 1 .. Len(contact) /\ Len(contact) <= MaxContacts
        /\ \A x \in DOMAIN contact : contact[x] \in ContactsOf(p)!Contact
        /\ \A i \in DOMAIN ident : ident[i] \in ContactsOf(p)!Identity
    BY <1>1, ContactHasType
  <1>3. /\ contact[c].erasures < Erasures[p]
        /\ contact' = [contact EXCEPT ![c] = [contact[c] EXCEPT
             !.status = "deleted", !.erasures = contact[c].erasures + 1, !.due = FALSE]]
        /\ UNCHANGED <<lead, merges, work, edit, purged, dropped, late, rewritten>>
    BY DEF ContactsOf!EraseContact
  <1>4. ident' = [i \in DOMAIN ident |-> IF ident[i].contact = c
                                         THEN [ident[i] EXCEPT !.name = name] ELSE ident[i]]
    BY DEF ContactsOf!EraseContact, ContactsOf!Forgotten, ContactsOf!Renamed, ContactsOf!Of
  <1>5. contact[c].erasures + 1 \in 1 .. Erasures[p]
    BY <1>2, <1>3, ContactNumbers DEF ContactsOf!Contact
  <1>6. contact' \in [1 .. Len(contact) -> ContactsOf(p)!Contact]
    <2>1. [contact[c] EXCEPT !.status = "deleted", !.erasures = contact[c].erasures + 1,
                             !.due = FALSE] \in ContactsOf(p)!Contact
      <3>1. contact[c].erasures + 1 \in 0 .. Erasures[p]
        BY <1>5, ContactNumbers
      <3> QED
        BY <1>2, <3>1 DEF ContactsOf!Contact
    <2> QED
      BY <1>2, <1>3, <2>1
  <1>7. /\ contact' \in Seq(ContactsOf(p)!Contact) /\ Len(contact') = Len(contact)
        /\ DOMAIN contact' = DOMAIN contact
    BY <1>2, <1>6, ListIsSeq
  <1>8. \A x \in DOMAIN contact :
          /\ contact'[x].lead = contact[x].lead
          /\ x # c => contact'[x] = contact[x]
          /\ x = c => contact'[x].status = "deleted"
    BY <1>2, <1>3 DEF ContactsOf!Contact
  <1>9. name \in ContactsOf(p)!Name /\ name[1] = "erased"
    BY <1>2, <1>5, ContactNumbers DEF ContactsOf!Name
  <1> HIDE DEF name
  <1>10. \A i \in DOMAIN ident :
           /\ ident'[i] \in ContactsOf(p)!Identity
           /\ ident'[i].contact = ident[i].contact
           /\ ident[i].contact = c => ident'[i].name = name
           /\ ident[i].contact # c => ident'[i] = ident[i]
    BY <1>2, <1>4, <1>9 DEF ContactsOf!Identity
  <1>11. DOMAIN ident' = DOMAIN ident /\ ident' \in Seq(ContactsOf(p)!Identity)
    BY <1>1, <1>4, <1>10, EditedRows
  <1>12. ContactsOf(p)!TypeOK'
    BY <1>1, <1>3, <1>7, <1>11 DEF ContactsOf!TypeOK, ContactsOf!Ids
  <1>13. Homes(p)'
    BY <1>3, <1>7, <1>10, <1>11 DEF ContactInv, Homes, ContactsOf!Idle
  <1>14. ErasedIsDead'
    BY <1>7, <1>8 DEF ContactInv, ErasedIsDead
  <1>15. LeadRows'
    BY <1>3, <1>7, <1>8 DEF ContactInv, LeadRows
  <1>16. \A i \in DOMAIN ident' : ident'[i].name[1] = "user" =>
           ident'[i] = ident[i] /\ ident[i].contact # c /\ i \in DOMAIN ident
    BY <1>9, <1>10, <1>11
  <1>17. UserRows'
    BY <1>3, <1>7, <1>8, <1>16 DEF ContactInv, Homes, UserRows, Accounted
  <1> QED
    BY <1>12, <1>13, <1>14, <1>15, <1>17 DEF ContactInv

\* A merge leaves the dropped contact no row, and the kept one is live or late.
LEMMA MergeKeeps ==
  ASSUME NEW p \in ContactParts, ContactInv(p), NEW keep \in DOMAIN contact,
         NEW drop \in DOMAIN contact, ContactsOf(p)!Merge(keep, drop)
  PROVE  ContactInv(p)'
  <1> DEFINE keys == [f \in KeyFields[p] |-> IF contact[keep].keys[f] = Nil
                        THEN contact[drop].keys[f] ELSE contact[keep].keys[f]]
             kept == [contact[keep] EXCEPT
                        !.keys = keys, !.profile = contact[keep].profile \/ contact[drop].profile]
             gone == [contact[drop] EXCEPT !.status = "deleted"]
  <1>1. ContactsOf(p)!TypeOK /\ contact \in Seq(ContactsOf(p)!Contact)
    BY DEF ContactInv, ContactsOf!TypeOK
  <1>2. /\ Len(contact) \in Nat /\ DOMAIN contact = 1 .. Len(contact) /\ Len(contact) <= MaxContacts
        /\ \A x \in DOMAIN contact : contact[x] \in ContactsOf(p)!Contact
        /\ \A i \in DOMAIN ident : ident[i] \in ContactsOf(p)!Identity
    BY <1>1, ContactHasType
  <1>3. /\ merges < Mergers[p] /\ keep # drop /\ merges' = merges + 1
        /\ late' = late \cup {x \in {keep} : ~ContactsOf(p)!Live(x)}
        /\ UNCHANGED <<lead, work, edit, purged, dropped, rewritten>>
    BY DEF ContactsOf!Merge
  <1>4. contact' = [contact EXCEPT
          ![keep].keys = [f \in KeyFields[p] |->
                            IF @[f] = Nil THEN contact[drop].keys[f] ELSE @[f]],
          ![keep].profile = @ \/ contact[drop].profile,
          ![drop].status = "deleted"]
    BY DEF ContactsOf!Merge
  <1>5. \A x \in DOMAIN contact :
          contact'[x] = IF x = keep THEN kept ELSE IF x = drop THEN gone ELSE contact[x]
    BY <1>2, <1>3, <1>4 DEF ContactsOf!Contact
  <1>6. keys \in ContactsOf(p)!Given
    BY <1>2 DEF ContactsOf!Contact, ContactsOf!Given
  <1>7. /\ kept \in ContactsOf(p)!Contact /\ kept.status = contact[keep].status
        /\ kept.erasures = contact[keep].erasures /\ kept.lead = contact[keep].lead
    <2> HIDE DEF keys
    <2> QED
      BY <1>2, <1>6 DEF ContactsOf!Contact
  <1>8. /\ gone \in ContactsOf(p)!Contact /\ gone.status = "deleted"
        /\ gone.erasures = contact[drop].erasures /\ gone.lead = contact[drop].lead
    BY <1>2 DEF ContactsOf!Contact
  <1>9. ident' = [i \in DOMAIN ident |-> IF ident[i].contact = drop
                                         THEN [ident[i] EXCEPT !.contact = keep] ELSE ident[i]]
    BY DEF ContactsOf!Merge, ContactsOf!Moved, ContactsOf!Of
  <1>10. contact' \in [1 .. Len(contact) -> ContactsOf(p)!Contact]
    <2>1. contact' = [x \in DOMAIN contact |-> contact'[x]]
      BY <1>4
    <2> HIDE DEF kept, gone
    <2> QED
      BY <1>2, <1>5, <1>7, <1>8, <2>1
  <1> HIDE DEF kept, gone
  <1>11. /\ contact' \in Seq(ContactsOf(p)!Contact) /\ Len(contact') = Len(contact)
         /\ DOMAIN contact' = DOMAIN contact
    BY <1>2, <1>10, ListIsSeq
  <1>12. \A x \in DOMAIN contact :
           /\ contact'[x].erasures = contact[x].erasures /\ contact'[x].lead = contact[x].lead
           /\ contact'[x].status = IF x = drop THEN "deleted" ELSE contact[x].status
    BY <1>3, <1>5, <1>7, <1>8
  <1>13. \A i \in DOMAIN ident :
           /\ ident'[i] \in ContactsOf(p)!Identity /\ ident'[i].name = ident[i].name
           /\ ident'[i].contact = IF ident[i].contact = drop THEN keep ELSE ident[i].contact
    <2>1. keep \in 1 .. MaxContacts
      BY <1>2, ContactNumbers
    <2> QED
      BY <1>2, <1>9, <2>1 DEF ContactsOf!Identity
  <1>14. DOMAIN ident' = DOMAIN ident /\ ident' \in Seq(ContactsOf(p)!Identity)
    BY <1>1, <1>9, <1>13, EditedRows
  <1>15. merges' \in 0 .. Mergers[p]
    BY <1>1, <1>3, ContactNumbers DEF ContactsOf!TypeOK
  <1>16. ContactsOf(p)!TypeOK'
    BY <1>1, <1>3, <1>11, <1>14, <1>15 DEF ContactsOf!TypeOK, ContactsOf!Ids
  <1>17. Homes(p)'
    BY <1>3, <1>11, <1>13, <1>14 DEF ContactInv, Homes, ContactsOf!Idle
  <1>18. ErasedIsDead' /\ LeadRows'
    BY <1>3, <1>11, <1>12 DEF ContactInv, ErasedIsDead, LeadRows
  <1>19. contact[keep].status = "active" \/ keep \in late'
    BY <1>2, <1>3 DEF ContactsOf!Live, ContactsOf!Contact
  <1>20. \A x : Accounted(x)' <=> \/ contact'[x].status = "active"
                                  \/ x \in late'
                                  \/ x \in dropped' /\ contact'[x].erasures = 0
    BY DEF Accounted
  <1>21. /\ Accounted(keep)'
         /\ \A x \in DOMAIN contact \ {drop} : Accounted(x) => Accounted(x)'
    BY <1>3, <1>12, <1>19, <1>20 DEF Accounted
  <1>22. \A i \in DOMAIN ident' : ident'[i].name[1] = "user" =>
           \E x : x = ident'[i].contact /\ Accounted(x)'
    BY <1>13, <1>14, <1>21 DEF ContactInv, Homes, UserRows
  <1>23. UserRows'
    BY <1>20, <1>22 DEF UserRows, Accounted
  <1> QED
    BY <1>16, <1>17, <1>18, <1>23 DEF ContactInv

\* The purge renames rows, and changes neither statuses nor leads.
LEMMA PurgeKeeps ==
  ASSUME NEW p \in ContactParts, ContactInv(p), NEW b \in SUBSET DOMAIN contact,
         ContactsOf(p)!PurgeErased(b)
  PROVE  ContactInv(p)'
  <1> DEFINE gone == {c \in b : contact[c].due}
  <1>1. ContactsOf(p)!TypeOK /\ contact \in Seq(ContactsOf(p)!Contact)
    BY DEF ContactInv, ContactsOf!TypeOK
  <1>2. /\ Len(contact) \in Nat /\ DOMAIN contact = 1 .. Len(contact) /\ Len(contact) <= MaxContacts
        /\ \A x \in DOMAIN contact : contact[x] \in ContactsOf(p)!Contact
        /\ \A i \in DOMAIN ident : ident[i] \in ContactsOf(p)!Identity
    BY <1>1, ContactHasType
  <1>3. /\ purged' = purged \cup gone
        /\ UNCHANGED <<lead, merges, work, edit, dropped, late, rewritten>>
    BY DEF ContactsOf!PurgeErased
  <1>4. contact' = [x \in DOMAIN contact |-> IF x \in b /\ contact[x].due
          THEN [contact[x] EXCEPT !.keys = ContactsOf(p)!Blank, !.profile = FALSE, !.bodies = FALSE]
          ELSE contact[x]]
    BY DEF ContactsOf!PurgeErased, ContactsOf!Cleaned, ContactsOf!Ids
  <1>5. ident' = [i \in DOMAIN ident |-> IF ident[i].contact \in gone
          THEN [ident[i] EXCEPT !.name = <<"purged", ident[i].contact>>] ELSE ident[i]]
    BY DEF ContactsOf!PurgeErased
  <1>6. ContactsOf(p)!Blank \in ContactsOf(p)!Given
    BY DEF ContactsOf!Blank, ContactsOf!Given
  <1>7. \A x \in DOMAIN contact :
          /\ contact'[x] \in ContactsOf(p)!Contact /\ contact'[x].status = contact[x].status
          /\ contact'[x].erasures = contact[x].erasures /\ contact'[x].lead = contact[x].lead
    BY <1>2, <1>4, <1>6 DEF ContactsOf!Contact
  <1>8. /\ contact' \in Seq(ContactsOf(p)!Contact) /\ Len(contact') = Len(contact)
        /\ DOMAIN contact' = DOMAIN contact
    <2>1. contact' \in [1 .. Len(contact) -> ContactsOf(p)!Contact]
      BY <1>2, <1>4, <1>7
    <2> QED
      BY <1>2, <2>1, ListIsSeq
  <1>9. \A c \in 1 .. MaxContacts : /\ <<"purged", c>> \in ContactsOf(p)!Name
                                    /\ <<"purged", c>>[1] = "purged"
    BY DEF ContactsOf!Name
  <1>10. \A i \in DOMAIN ident :
           /\ ident'[i] \in ContactsOf(p)!Identity /\ ident'[i].contact = ident[i].contact
           /\ ident'[i].name = ident[i].name \/ ident'[i].name[1] = "purged"
    BY <1>2, <1>5, <1>9 DEF ContactsOf!Identity
  <1>11. DOMAIN ident' = DOMAIN ident /\ ident' \in Seq(ContactsOf(p)!Identity)
    BY <1>1, <1>5, <1>10, EditedRows
  <1>12. purged' \subseteq DOMAIN contact
    BY <1>1, <1>3 DEF ContactsOf!TypeOK, ContactsOf!Ids
  <1>13. ContactsOf(p)!TypeOK'
    BY <1>1, <1>3, <1>8, <1>11, <1>12 DEF ContactsOf!TypeOK, ContactsOf!Ids
  <1>14. Homes(p)'
    BY <1>3, <1>8, <1>10, <1>11 DEF ContactInv, Homes, ContactsOf!Idle
  <1>15. ErasedIsDead' /\ LeadRows'
    BY <1>3, <1>7, <1>8 DEF ContactInv, ErasedIsDead, LeadRows
  <1>16. UserRows'
    BY <1>3, <1>7, <1>8, <1>10, <1>11 DEF ContactInv, Homes, UserRows, Accounted
  <1> QED
    BY <1>13, <1>14, <1>15, <1>16 DEF ContactInv

\* Every step of the contacts keeps the invariant.
LEMMA ContactStepKeeps ==
  ASSUME NEW p \in ContactParts, ContactInv(p), ContactsOf(p)!Next
  PROVE  ContactInv(p)'
  <1>1. \/ \E w \in Intakes[p] :
             \/ \E u \in Users, g \in ContactsOf(p)!Given, l \in LeadAds[p] \cup {Nil} :
                  ContactsOf(p)!Resolve(w, u, g, l)
             \/ ContactsOf(p)!Refuse(w) \/ ContactsOf(p)!Store(w)
        \/ \E g \in ContactsOf(p)!Given :
             ContactsOf(p)!CreateContact(g) \/ \E e \in Editors : ContactsOf(p)!UpdateCommit(e, g)
        \/ \E c \in DOMAIN contact :
             \/ \E g \in ContactsOf(p)!Given : ContactsOf(p)!Qualify(c, g)
             \/ \E e \in Editors : ContactsOf(p)!UpdateBegin(e, c)
             \/ ContactsOf(p)!DeleteContact(c) \/ ContactsOf(p)!EraseContact(c)
             \/ ContactsOf(p)!RetentionPasses(c)
             \/ \E d \in DOMAIN contact : ContactsOf(p)!Merge(c, d)
        \/ \E b \in SUBSET DOMAIN contact : ContactsOf(p)!PurgeErased(b)
    BY DEF ContactsOf!Next, ContactsOf!Purge, ContactsOf!Ids
  <1> QED
    BY <1>1, ResolveKeeps, RefuseKeeps, StoreKeeps, CreateContactKeeps, UpdateBeginKeeps,
       UpdateCommitKeeps, QualifyKeeps, DeleteContactKeeps, EraseContactKeeps, RetentionKeeps,
       MergeKeeps, PurgeKeeps

\* The steps of the other parts keep it, too.
LEMMA ContactStutterKeeps ==
  ASSUME NEW p \in ContactParts, ContactInv(p), UNCHANGED contactVars
  PROVE  ContactInv(p)'
  BY DEF ContactInv, contactVars, ContactsOf!TypeOK, ContactsOf!Ids, Homes, ErasedIsDead,
         UserRows,
         Accounted, LeadRows

\* No identity leads from a user to an erased contact, a user who is cut off belongs to a
\* contact deleted by hand, and a lead makes one contact at most, whatever the intakes, the
\* API and the purge do in between, and however many contacts there are.
THEOREM ContactsAreSafe == Spec => []ContactSafety
  <1> DEFINE Inv == \A p \in ContactParts : part = p => ContactInv(p)
  <1>1. Init => Inv
    <2> SUFFICES ASSUME Init, NEW p \in ContactParts, part = p PROVE ContactInv(p)
      OBVIOUS
    <2>1. ContactsOf(p)!Init
      BY DEF Init, ContactParts
    <2>2. ContactsOf(p)!TypeOK
      BY <2>1, ContactNumbers DEF ContactsOf!Init, ContactsOf!TypeOK, ContactsOf!Ids
    <2>3. Homes(p) /\ ErasedIsDead /\ UserRows /\ LeadRows
      BY <2>1 DEF ContactsOf!Init, ContactsOf!Idle, Homes, ErasedIsDead, UserRows, LeadRows
    <2> QED
      BY <2>2, <2>3 DEF ContactInv
  <1>2. Inv /\ [Next]_vars => Inv'
    <2> SUFFICES ASSUME Inv, [Next]_vars, NEW p \in ContactParts, part' = p
                 PROVE  ContactInv(p)'
      OBVIOUS
    <2>1. part = p
      BY DEF Next, vars
    <2>2. ContactsOf(p)!Next \/ UNCHANGED contactVars
      BY <2>1 DEF Next, vars, ContactParts
    <2> QED
      BY <2>1, <2>2, ContactStepKeeps, ContactStutterKeeps
  <1>3. Inv => ContactSafety
    <2> SUFFICES ASSUME Inv PROVE ContactSafety
      OBVIOUS
    <2>1. ASSUME NEW p \in ContactParts, ContactInv(p)
          PROVE  /\ ContactsOf(p)!TypeOK /\ ContactsOf(p)!ErasedIsUnlinked
                 /\ ContactsOf(p)!CutOffExplained /\ ContactsOf(p)!LeadOnce
      BY <2>1, ContactHasType
         DEF ContactInv, Homes, ErasedIsDead, UserRows, Accounted, LeadRows,
             ContactsOf!ErasedIsUnlinked, ContactsOf!CutOffExplained, ContactsOf!LeadOnce,
             ContactsOf!Ids, ContactsOf!Of, ContactsOf!Live, ContactsOf!Contact
    <2> QED
      BY <2>1 DEF ContactParts, ContactSafety
  <1> QED
    BY <1>1, <1>2, <1>3, PTL DEF Spec

-----------------------------------------------------------------------------
(* Consents.                                                               *)

\* A row is captured when it is begun, an opt-out within the skew of the clocks.
CapturedNear ==
  \A r \in ConsentIds : consent[r] # Consent!Absent =>
    /\ consent[r].status = "granted" => consent[r].at = consent[r].began
    /\ consent[r].began - Skew <= consent[r].at /\ consent[r].at <= consent[r].began + Skew

\* The inductive invariant of the consents.
ConsentInv == Consent!TypeOK /\ CapturedNear /\ Consent!OptOutHonoured

\* What is known of the constants.
LEMMA ConsentConstants == ConsentIds \subseteq Nat /\ Skew \in Nat /\ MaxClock \in Nat
  BY CustomerAssumption DEF Consent!ConsentAssumption

\* A row that is visible has its fields.
LEMMA VisibleFields ==
  ASSUME Consent!TypeOK, NEW r \in ConsentIds, consent[r].answered
  PROVE  /\ consent[r] \in Consent!Row /\ consent[r] # Consent!Absent
         /\ consent[r].began \in 0 .. MaxClock /\ consent[r].at \in Int
         /\ consent[r].status \in {"granted", "revoked"}
  <1>1. consent[r] \in Consent!Row \cup {Consent!Absent}
    BY DEF Consent!TypeOK
  <1>2. consent[r] # Consent!Absent
    BY DEF Consent!Absent
  <1> QED
    BY <1>1, <1>2 DEF Consent!Row

\* The row that decides was begun no earlier than an opt-out, but for the skew.
LEMMA LatestWins ==
  ASSUME ConsentInv, NEW scope \in Scopes, NEW g \in Consent!Latest(scope),
         consent[g].status = "granted", NEW o \in Consent!Visible(scope),
         consent[o].status = "revoked"
  PROVE  consent[o].began <= consent[g].began + Skew
  <1>1. /\ g \in ConsentIds /\ consent[g].answered /\ o \in ConsentIds /\ consent[o].answered
        /\ consent[o].at <= consent[g].at \/ consent[o].at = consent[g].at
        /\ g \in Nat /\ o \in Nat
    BY ConsentConstants, VisibleFields
       DEF ConsentInv, Consent!Latest, Consent!Visible
  <1>2. /\ consent[g].at \in Int /\ consent[g].began \in Nat
        /\ consent[o].at \in Int /\ consent[o].began \in Nat
    BY <1>1, VisibleFields, ConsentConstants DEF ConsentInv
  <1>3. consent[g].at = consent[g].began /\ consent[o].began - Skew <= consent[o].at
    BY <1>1, VisibleFields DEF ConsentInv, CapturedNear
  <1> QED
    BY <1>1, <1>2, <1>3, ConsentConstants

\* A row is inserted, which nobody sees.
LEMMA InsertKeeps ==
  ASSUME ConsentInv, NEW r \in ConsentIds, NEW scope \in Scopes,
         NEW status \in {"granted", "revoked"}, NEW d \in Int, -Skew <= d, d <= Skew,
         status = "granted" => d = 0, Consent!Insert(r, scope, status, now + d)
  PROVE  ConsentInv'
  <1> DEFINE row == [scope |-> scope, status |-> status, began |-> now, at |-> now + d,
                     answered |-> FALSE]
  <1>1. now \in 0 .. MaxClock /\ now \in Nat /\ now + d \in Int
    BY ConsentConstants DEF ConsentInv, Consent!TypeOK
  <1>2. /\ row \in Consent!Row /\ row.answered = FALSE /\ row.began = now
        /\ row.at = now + d /\ row.status = status
    BY <1>1 DEF Consent!Row
  <1>3. /\ consent' = [consent EXCEPT ![r] = row] /\ consent[r] = Consent!Absent
        /\ UNCHANGED <<now, msg, relied>>
    BY DEF Consent!Insert
  <1> HIDE DEF row
  <1>4. /\ consent' \in [ConsentIds -> Consent!Row \cup {Consent!Absent}]
        /\ consent'[r] = row
        /\ \A q \in ConsentIds \ {r} : consent'[q] = consent[q]
    BY <1>2, <1>3 DEF ConsentInv, Consent!TypeOK
  <1>5. ~consent[r].answered
    BY <1>3 DEF Consent!Absent
  <1>6. \A m \in Messages : relied[m] \subseteq ConsentIds \ {r}
    BY <1>5 DEF ConsentInv, Consent!TypeOK
  <1>7. Consent!TypeOK'
    BY <1>3, <1>4, <1>5, <1>6 DEF ConsentInv, Consent!TypeOK
  <1>8. CapturedNear'
    BY <1>1, <1>2, <1>4, ConsentConstants DEF ConsentInv, CapturedNear
  <1>9. Consent!OptOutHonoured'
    BY <1>3, <1>4, <1>6 DEF ConsentInv, Consent!OptOutHonoured
  <1> QED
    BY <1>7, <1>8, <1>9 DEF ConsentInv

\* A row becomes visible and changes in nothing else.
LEMMA CommitKeeps ==
  ASSUME ConsentInv, NEW r \in ConsentIds, Consent!Commit(r)
  PROVE  ConsentInv'
  <1>1. /\ consent[r] \in Consent!Row
        /\ consent' = [consent EXCEPT ![r] = [consent[r] EXCEPT !.answered = TRUE]]
        /\ UNCHANGED <<now, msg, relied>>
    BY DEF ConsentInv, Consent!TypeOK, Consent!Commit
  <1> DEFINE row == [consent[r] EXCEPT !.answered = TRUE]
  <1>2. /\ row \in Consent!Row /\ row.answered /\ row.began = consent[r].began
        /\ row.at = consent[r].at /\ row.status = consent[r].status
    BY <1>1 DEF Consent!Row
  <1>3. consent' = [consent EXCEPT ![r] = row]
    BY <1>1
  <1> HIDE DEF row
  <1>4. /\ consent' \in [ConsentIds -> Consent!Row \cup {Consent!Absent}]
        /\ consent'[r] = row
        /\ \A q \in ConsentIds \ {r} : consent'[q] = consent[q]
    BY <1>2, <1>3 DEF ConsentInv, Consent!TypeOK
  <1>5. Consent!TypeOK'
    BY <1>1, <1>2, <1>4 DEF ConsentInv, Consent!TypeOK
  <1>6. CapturedNear'
    BY <1>2, <1>4 DEF ConsentInv, CapturedNear, Consent!Commit
  <1>7. \A m \in Messages : relied[m] \subseteq ConsentIds
    BY DEF ConsentInv, Consent!TypeOK
  <1>8. \A q \in ConsentIds : /\ consent'[q].status = consent[q].status
                             /\ consent'[q].began = consent[q].began
    BY <1>2, <1>4
  <1>9. Consent!OptOutHonoured'
    BY <1>1, <1>7, <1>8 DEF ConsentInv, Consent!OptOutHonoured
  <1> QED
    BY <1>5, <1>6, <1>9 DEF ConsentInv

\* A message asks: the row that decides is its witness.
LEMMA AskKeeps ==
  ASSUME ConsentInv, NEW m \in Messages, NEW scope \in Scopes, Consent!Ask(m, scope)
  PROVE  ConsentInv'
  <1>1. /\ relied' = [relied EXCEPT ![m] = Consent!Visible(scope)]
        /\ msg' = [msg EXCEPT ![m] = "allowed"]
        /\ UNCHANGED <<now, consent>>
    BY DEF Consent!Ask
  <1>2. Consent!Visible(scope) \subseteq {r \in ConsentIds : consent[r].answered}
    BY DEF Consent!Visible
  <1>3. PICK g \in Consent!Latest(scope) : consent[g].status = "granted"
    BY DEF Consent!Ask, Consent!HasActiveConsent
  <1>4. /\ g \in Consent!Visible(scope)
        /\ \A o \in Consent!Visible(scope) :
             consent[o].status = "revoked" => consent[o].began <= consent[g].began + Skew
    BY <1>3, LatestWins DEF Consent!Latest
  <1>5. \A n \in Messages : /\ relied'[n] = IF n = m THEN Consent!Visible(scope) ELSE relied[n]
                            /\ n # m => msg'[n] = msg[n]
    BY <1>1 DEF ConsentInv, Consent!TypeOK
  <1>6. Consent!TypeOK'
    BY <1>1, <1>2 DEF ConsentInv, Consent!TypeOK
  <1>7. Consent!OptOutHonoured'
    BY <1>1, <1>3, <1>4, <1>5 DEF ConsentInv, Consent!OptOutHonoured
  <1> QED
    BY <1>1, <1>6, <1>7 DEF ConsentInv, CapturedNear

\* What becomes of the message then changes nothing it relies on.
LEMMA MessageKeeps ==
  ASSUME ConsentInv, NEW m \in Messages,
         Consent!Queue(m) \/ Consent!Rollback(m) \/ Consent!Dispatch(m)
  PROVE  ConsentInv'
  <1>1. UNCHANGED <<now, consent>> /\ msg[m] # "none"
    BY DEF Consent!Queue, Consent!Rollback, Consent!Dispatch
  <1>2. Consent!TypeOK'
    BY <1>1 DEF Consent!Queue, Consent!Rollback, Consent!Dispatch, ConsentInv, Consent!TypeOK
  <1>3. \A n \in Messages : msg'[n] # "none" => msg[n] # "none" /\ relied'[n] = relied[n]
    BY <1>1 DEF Consent!Queue, Consent!Rollback, Consent!Dispatch, ConsentInv, Consent!TypeOK
  <1> QED
    BY <1>1, <1>2, <1>3 DEF ConsentInv, CapturedNear, Consent!OptOutHonoured

\* Every step keeps the invariant.
LEMMA ConsentNext == ConsentInv /\ [Consent!Next]_consentVars => ConsentInv'
  <1> SUFFICES ASSUME ConsentInv, [Consent!Next]_consentVars PROVE ConsentInv'
    OBVIOUS
  <1>1. CASE Consent!Tick
    <2>1. now' \in 0 .. MaxClock /\ UNCHANGED <<consent, msg, relied>>
      BY <1>1, ConsentConstants DEF Consent!Tick, ConsentInv, Consent!TypeOK
    <2> QED
      BY <2>1 DEF ConsentInv, Consent!TypeOK, CapturedNear, Consent!OptOutHonoured
  <1>2. ASSUME NEW r \in ConsentIds, NEW s \in Scopes, Consent!GrantConsent(r, s)
        PROVE  ConsentInv'
    <2>1. Consent!Insert(r, s, "granted", now + 0)
      BY <1>2, ConsentConstants DEF Consent!GrantConsent, ConsentInv, Consent!TypeOK
    <2> QED
      BY <2>1, InsertKeeps, ConsentConstants
  <1>3. ASSUME NEW r \in ConsentIds, NEW s \in Scopes, Consent!RevokeConsent(r, s)
        PROVE  ConsentInv'
    <2>1. PICK d \in -Skew .. Skew : Consent!Insert(r, s, "revoked", now + d)
      BY <1>3 DEF Consent!RevokeConsent
    <2> QED
      BY <2>1, InsertKeeps, ConsentConstants
  <1>4. CASE UNCHANGED consentVars
    BY <1>4 DEF consentVars, ConsentInv, Consent!TypeOK, CapturedNear, Consent!OptOutHonoured
  <1> QED
    BY <1>1, <1>2, <1>3, <1>4, CommitKeeps, AskKeeps, MessageKeeps DEF Consent!Next

\* A proactive message goes out for a grant begun no earlier, but for the skew of
\* the clocks, than any opt-out of its scope answered before the message asked,
\* however slow the requests are (has_active_consent).
THEOREM OptOutsAreHonoured == Spec => []OptOutHonoured
  <1>1. Init => ConsentInv
    BY ConsentConstants
       DEF Init, Consent!Init, ConsentInv, Consent!TypeOK, CapturedNear, Consent!OptOutHonoured
  <1>2. ConsentInv /\ [Next]_vars => ConsentInv'
    <2>1. [Next]_vars => Consent!Next \/ UNCHANGED consentVars
      BY DEF Next, vars
    <2> QED
      BY <2>1, ConsentNext
  <1>3. ConsentInv => OptOutHonoured
    BY DEF ConsentInv, OptOutHonoured
  <1> QED
    BY <1>1, <1>2, <1>3, PTL DEF Spec

-----------------------------------------------------------------------------
(* Opportunities.                                                          *)

\* A set of numbers has a least one.
LEMMA LeastNumber ==
  ASSUME NEW S \in SUBSET Nat, S # {}
  PROVE  \E m \in S : \A k \in S : m <= k
  <1> DEFINE R == OpToRel(<, Nat)
  <1>1. IsWellFoundedOn(R, Nat)
    BY NatLessThanWellFounded
  <1>2. PICK m \in S : \A k \in S : ~(<<k, m>> \in R)
    <2> HIDE DEF R
    <2> QED
      BY <1>1, WFMin
  <1>3. \A k \in S : ~(k < m)
    BY <1>2 DEF OpToRel
  <1> QED
    BY <1>3

\* The types, with functions where TypeOK names the values only.
DealRequest(p) ==
  DealsOf(p)!Taking \cup DealsOf(p)!Turns \cup DealsOf(p)!Moving \cup DealsOf(p)!Running
    \cup {DealsOf(p)!Idle}

\* ... the rows and the rotation, with the history's.
DealShape(p) ==
  /\ roster \subseteq Staff[p]
  /\ rotation \in Staff[p] \cup {DealsOf(p)!NoRow}
  /\ opp \in [Deals[p] -> DealsOf(p)!Rows \cup {DealsOf(p)!Absent}]
  /\ ai \subseteq Pipeline[p]
  /\ oppReq \in [Clerks[p] -> DealRequest(p)]
  /\ trail \in [Deals[p] -> Pipeline[p] \cup {"none"}]
  /\ overtaken \subseteq Deals[p]

\* One request at most is in its turn, and it picked the agent after the last one.
OneTurn(p) ==
  /\ \A r \in Clerks[p] : oppReq[r].at \in {"create", "first", "turn"} => oppReq[r].ids # {}
  /\ \A r \in Clerks[p] : oppReq[r].at = "turn" =>
       /\ oppReq[r].agent = DealsOf(p)!Successor(oppReq[r].ids, rotation)
       /\ \A q \in Clerks[p] : oppReq[q].at = "turn" => q = r

\* The row holds the agent of the last turn.
LastTurn(p) ==
  /\ turns \in Seq([ids : SUBSET Staff[p], agent : Staff[p]])
  /\ rotation = IF turns = <<>> THEN DealsOf(p)!NoRow ELSE turns[Len(turns)].agent
  /\ \A k \in DOMAIN turns : turns[k].agent \in turns[k].ids

\* The agents from f round to l.
Arc(f, l, a) == IF f <= l THEN f <= a /\ a <= l ELSE f <= a \/ a <= l

\* All turns from i to j saw one roster.
SameRoster(i, j) == \A k \in i .. j : turns[k].ids = turns[i].ids

\* A run of turns gives the agents from the first one's round to the last one's one
\* turn more than the others.
RoundShares(p) ==
  \A i, j \in DOMAIN turns : i <= j /\ SameRoster(i, j) =>
    \E n \in Nat : \A a \in turns[i].ids :
      DealsOf(p)!Share(a, i, j) = IF Arc(turns[i].agent, turns[j].agent, a) THEN n + 1 ELSE n

\* The inductive invariant of the rotation.
TurnInv(p) == DealShape(p) /\ OneTurn(p) /\ LastTurn(p) /\ RoundShares(p)

\* Least finds it.
LEMMA LeastIn ==
  ASSUME NEW p, NEW S \in SUBSET Nat, S # {}
  PROVE  DealsOf(p)!Least(S) \in S /\ \A k \in S : DealsOf(p)!Least(S) <= k
  BY LeastNumber DEF DealsOf!Least

\* The successor is an agent of the roster.
LEMMA SuccessorIn ==
  ASSUME NEW p, NEW S \in SUBSET Nat, S # {}, NEW l \in Int
  PROVE  DealsOf(p)!Successor(S, l) \in S
  <1> DEFINE later == {i \in S : i > l}
  <1>1. later \in SUBSET Nat /\ later \subseteq S
    OBVIOUS
  <1>2. later # {} => DealsOf(p)!Least(later) \in later
    BY <1>1, LeastIn
  <1>3. DealsOf(p)!Least(S) \in S
    BY LeastIn
  <1>4. DealsOf(p)!Successor(S, l) = IF l \in S /\ later # {} THEN DealsOf(p)!Least(later)
                                     ELSE DealsOf(p)!Least(S)
    BY DEF DealsOf!Successor
  <1> QED
    BY <1>1, <1>2, <1>3, <1>4

\* The successor of the last agent is the next one of the round: it extends the
\* arc, or closes it and begins the next one.
LEMMA ArcGrows ==
  ASSUME NEW p, NEW S \in SUBSET Nat, NEW f \in S, NEW l \in S
  PROVE  LET s == DealsOf(p)!Successor(S, l)
         IN  /\ s \in S
             /\ s # f \/ \A a \in S : Arc(f, l, a)
             /\ s # f => /\ ~Arc(f, l, s)
                         /\ \A a \in S : Arc(f, s, a) <=> (Arc(f, l, a) \/ a = s)
  <1> DEFINE s == DealsOf(p)!Successor(S, l)
  <1> DEFINE later == {i \in S : i > l}
  <1>1. later \in SUBSET Nat /\ \A a \in S : a \in later <=> a > l
    OBVIOUS
  <1>2. s = IF later # {} THEN DealsOf(p)!Least(later) ELSE DealsOf(p)!Least(S)
    BY DEF DealsOf!Successor
  <1>3. s \in S
    BY SuccessorIn
  <1>4. \A a \in S : a \in Nat
    OBVIOUS
  <1> HIDE DEF s
  <1>7. /\ s # f \/ \A a \in S : Arc(f, l, a)
        /\ s # f => /\ ~Arc(f, l, s)
                    /\ \A a \in S : Arc(f, s, a) <=> (Arc(f, l, a) \/ a = s)
    <2>1. CASE later # {}
      <3>1. s > l /\ \A a \in S : a > l => s <= a
        BY <1>1, <1>2, <2>1, LeastIn
      <3> QED
        BY <1>3, <1>4, <3>1 DEF Arc
    <2>2. CASE later = {}
      <3>1. (\A a \in S : s <= a) /\ (\A a \in S : a <= l)
        BY <1>1, <1>2, <1>4, <2>2, LeastIn
      <3> QED
        BY <1>3, <1>4, <3>1 DEF Arc
    <2> QED
      BY <2>1, <2>2
  <1> QED
    BY <1>3, <1>7 DEF s

\* The instance counts as the library does.
LEMMA DealCardinality ==
  ASSUME NEW p
  PROVE  \A S : DealsOf(p)!Cardinality(S) = Cardinality(S)
  BY DEF DealsOf!Cardinality, Cardinality

\* A turn counts for its agent, in every run that it extends.
LEMMA ShareGrows ==
  ASSUME NEW p, LastTurn(p), NEW t \in [ids : SUBSET Staff[p], agent : Staff[p]],
         turns' = Append(turns, t), NEW a, NEW i \in Nat \ {0}
  PROVE  /\ \A j : j \in DOMAIN turns
              => DealsOf(p)!Share(a, i, j)' = DealsOf(p)!Share(a, i, j)
         /\ i <= Len(turns) + 1 =>
              /\ DealsOf(p)!Share(a, i, Len(turns)) \in Nat
              /\ \A n : n = Len(turns) + 1 =>
                   DealsOf(p)!Share(a, i, n)' =
                     DealsOf(p)!Share(a, i, Len(turns)) + IF t.agent = a THEN 1 ELSE 0
  <1> DEFINE L == Len(turns)
             H(j) == {k \in i .. j : turns[k].agent = a}
             G(j) == {k \in i .. j : turns'[k].agent = a}
  <1>1. /\ L \in Nat /\ DOMAIN turns = 1 .. L
        /\ turns' \in Seq([ids : SUBSET Staff[p], agent : Staff[p]]) /\ Len(turns') = L + 1
        /\ \A k \in 1 .. L : turns'[k] = turns[k]
        /\ turns'[L + 1] = t
    BY DEF LastTurn
  <1>2. \A j \in 1 .. L : G(j) = H(j)
    BY <1>1
  <1>3. /\ \A j : DealsOf(p)!Share(a, i, j) = Cardinality(H(j))
        /\ \A j : DealsOf(p)!Share(a, i, j)' = Cardinality(G(j))
    BY DealCardinality DEF DealsOf!Share
  <1>4. ASSUME i <= L + 1
        PROVE  /\ Cardinality(H(L)) \in Nat
               /\ Cardinality(G(L + 1)) = Cardinality(H(L)) + IF t.agent = a THEN 1 ELSE 0
    <2>1. IsFiniteSet(H(L))
      <3>1. IsFiniteSet(i .. L) /\ H(L) \subseteq i .. L
        BY <1>1, FS_Interval
      <3> QED
        BY <3>1, FS_Subset
    <2>2. Cardinality(H(L)) \in Nat
      BY <2>1, FS_CardinalityType
    <2>3. CASE t.agent = a
      <3>1. G(L + 1) = H(L) \cup {L + 1} /\ L + 1 \notin H(L)
        BY <1>1, <1>4, <2>3
      <3> QED
        BY <2>1, <2>2, <2>3, <3>1, FS_AddElement
    <2>4. CASE t.agent # a
      <3>1. G(L + 1) = H(L)
        BY <1>1, <1>4, <2>4
      <3> HIDE DEF H, G
      <3> QED
        BY <2>2, <2>4, <3>1
    <2> QED
      BY <2>2, <2>3, <2>4
  <1> HIDE DEF H, G
  <1> QED
    BY <1>1, <1>2, <1>3, <1>4

\* A turn keeps the shares round.
LEMMA TurnKeepsShares ==
  ASSUME NEW p, Staff[p] \subseteq Nat, LastTurn(p), RoundShares(p),
         NEW ids \in SUBSET Staff[p], ids # {},
         NEW agent, agent = DealsOf(p)!Successor(ids, rotation),
         turns' = Append(turns, [ids |-> ids, agent |-> agent])
  PROVE  agent \in ids /\ RoundShares(p)'
  <1> DEFINE t == [ids |-> ids, agent |-> agent]
             L == Len(turns)
             Round(i, j) == \E n \in Nat : \A a \in turns'[i].ids :
               DealsOf(p)!Share(a, i, j)' =
                 IF Arc(turns'[i].agent, turns'[j].agent, a) THEN n + 1 ELSE n
  <1>1. L \in Nat /\ DOMAIN turns = 1 .. L
    BY DEF LastTurn
  <1>2. rotation \in Int
    <2>1. CASE turns = <<>>
      BY <2>1 DEF LastTurn, DealsOf!NoRow
    <2>2. CASE turns # <<>>
      <3>1. L \in 1 .. L /\ rotation = turns[L].agent
        <4>1. L # 0
          BY <2>2, EmptySeq DEF LastTurn
        <4> QED
          BY <1>1, <2>2, <4>1 DEF LastTurn
      <3>2. turns[L] \in [ids : SUBSET Staff[p], agent : Staff[p]]
        BY <3>1, ElementOfSeq DEF LastTurn
      <3> QED
        BY <3>1, <3>2
    <2> QED
      BY <2>1, <2>2
  <1>3. agent \in ids
    BY <1>2, SuccessorIn
  <1>4. t \in [ids : SUBSET Staff[p], agent : Staff[p]] /\ t.ids = ids /\ t.agent = agent
    BY <1>3
  <1> HIDE DEF t
  <1>5. turns' = Append(turns, t)
    BY DEF t
  <1>6. /\ DOMAIN turns' = 1 .. L + 1
        /\ \A k \in 1 .. L : turns'[k] = turns[k]
        /\ turns'[L + 1] = t
    BY <1>4, <1>5 DEF LastTurn
  <1>7. ASSUME rotation \in ids, NEW f \in ids
        PROVE  /\ \A a \in ids : Arc(f, rotation, a) \/ agent # f
               /\ agent # f => /\ ~Arc(f, rotation, agent)
                               /\ \A a \in ids :
                                    Arc(f, agent, a) <=> (Arc(f, rotation, a) \/ a = agent)
    <2>1. ids \in SUBSET Nat
      OBVIOUS
    <2> QED
      BY <1>7, <2>1, ArcGrows
  <1>8. ASSUME NEW i \in DOMAIN turns', NEW j \in DOMAIN turns', i <= j, SameRoster(i, j)'
        PROVE  Round(i, j)
    <2>0. i \in 1 .. L + 1 /\ j \in 1 .. L + 1
      BY <1>6
    <2>1. CASE j <= L
      <3>1. i \in DOMAIN turns /\ j \in DOMAIN turns /\ SameRoster(i, j)
        BY <1>1, <1>6, <1>8, <2>0, <2>1 DEF SameRoster
      <3>2. PICK n \in Nat : \A a \in turns[i].ids :
              DealsOf(p)!Share(a, i, j) =
                IF Arc(turns[i].agent, turns[j].agent, a) THEN n + 1 ELSE n
        BY <1>8, <3>1 DEF RoundShares
      <3>3. ASSUME NEW a PROVE DealsOf(p)!Share(a, i, j)' = DealsOf(p)!Share(a, i, j)
        <4>1. i \in Nat \ {0} /\ j \in DOMAIN turns
          BY <2>0, <3>1
        <4>2. t \in [ids : SUBSET Staff[p], agent : Staff[p]]
          BY <1>4
        <4> QED
          BY <1>5, <4>1, <4>2, ShareGrows
      <3>4. turns'[i] = turns[i] /\ turns'[j] = turns[j]
        BY <1>1, <1>6, <3>1
      <3> QED
        BY <3>2, <3>3, <3>4
    <2>2. CASE j = L + 1 /\ i <= L
      <3>1. /\ i \in DOMAIN turns /\ L \in DOMAIN turns /\ SameRoster(i, L)
            /\ turns[i].ids = ids /\ turns[L].ids = ids
            /\ turns'[i] = turns[i] /\ turns'[j] = t
        BY <1>1, <1>4, <1>6, <1>8, <2>0, <2>2 DEF SameRoster
      <3> DEFINE f == turns[i].agent
                 l == turns[L].agent
      <3>2. f \in ids /\ l \in ids /\ rotation = l /\ ids \in SUBSET Nat
        BY <1>1, <2>2, <3>1 DEF LastTurn
      <3>3. PICK n \in Nat : \A a \in ids :
              DealsOf(p)!Share(a, i, L) = IF Arc(f, l, a) THEN n + 1 ELSE n
        BY <1>1, <2>2, <3>1 DEF RoundShares
      <3>4. \A a : DealsOf(p)!Share(a, i, j)' =
                     DealsOf(p)!Share(a, i, L) + IF agent = a THEN 1 ELSE 0
        BY <1>1, <1>4, <1>5, <2>0, <2>2, ShareGrows
      <3> HIDE DEF f, l
      <3>5. \A a \in ids : Arc(f, l, a) \/ agent # f
        BY <1>7, <3>2
      <3>6. agent # f => ~Arc(f, l, agent)
        BY <1>7, <3>2
      <3>7. agent # f => \A a \in ids : Arc(f, agent, a) <=> (Arc(f, l, a) \/ a = agent)
        BY <1>7, <3>2
      <3>8. CASE agent = f
        <4>1. \A a \in ids : Arc(f, f, a) <=> a = f
          BY <3>2 DEF Arc
        <4>2. \A a \in ids : DealsOf(p)!Share(a, i, j)' =
                IF Arc(f, agent, a) THEN (n + 1) + 1 ELSE n + 1
          BY <3>3, <3>4, <3>5, <3>8, <4>1
        <4>3. n + 1 \in Nat
          OBVIOUS
        <4> QED
          BY <1>4, <3>1, <4>2, <4>3 DEF f
      <3>9. CASE agent # f
        <4>1. \A a \in ids : DealsOf(p)!Share(a, i, j)' = IF Arc(f, agent, a) THEN n + 1 ELSE n
          BY <3>3, <3>4, <3>6, <3>7, <3>9
        <4> QED
          BY <1>4, <3>1, <4>1 DEF f
      <3> QED
        BY <3>8, <3>9
    <2>3. CASE j = L + 1 /\ i = L + 1
      <3>1. \A a : DealsOf(p)!Share(a, i, j)' =
                     DealsOf(p)!Share(a, i, L) + IF agent = a THEN 1 ELSE 0
        BY <1>1, <1>4, <1>5, <2>0, <2>3, ShareGrows
      <3>2. \A a : DealsOf(p)!Share(a, i, L) = 0
        <4>1. \A a : {k \in i .. L : turns[k].agent = a} = {}
          BY <1>1, <2>3
        <4> QED
          BY <4>1, FS_EmptySet, DealCardinality DEF DealsOf!Share
      <3>3. turns'[i] = t /\ turns'[j] = t
        BY <1>6, <2>3
      <3>4. \A a \in ids : Arc(agent, agent, a) <=> a = agent
        <4>1. agent \in Nat /\ \A a \in ids : a \in Nat
          BY <1>3
        <4> QED
          BY <4>1 DEF Arc
      <3>5. PICK n \in Nat : n = 0
        OBVIOUS
      <3>6. \A a \in ids : DealsOf(p)!Share(a, i, j)' = IF Arc(agent, agent, a) THEN n + 1 ELSE n
        <4>1. \A a : DealsOf(p)!Share(a, i, j)' = IF agent = a THEN 1 ELSE 0
          BY <3>1, <3>2
        <4> QED
          BY <3>4, <3>5, <4>1
      <3>7. /\ turns'[i].ids = ids
            /\ turns'[i].agent = agent /\ turns'[j].agent = agent
        BY <1>4, <3>3
      <3>8. \A a \in turns'[i].ids : DealsOf(p)!Share(a, i, j)' =
              IF Arc(turns'[i].agent, turns'[j].agent, a) THEN n + 1 ELSE n
        BY <3>6, <3>7
      <3> QED
        BY <3>8
    <2>4. j <= L \/ (j = L + 1 /\ i <= L) \/ (j = L + 1 /\ i = L + 1)
      BY <1>1, <1>8, <2>0
    <2> HIDE DEF Round
    <2> QED
      BY <2>1, <2>2, <2>3, <2>4
  <1>9. \A i, j \in DOMAIN turns' : (i <= j /\ SameRoster(i, j)') => Round(i, j)
    <2> HIDE DEF Round
    <2> QED
      BY <1>8
  <1>10. RoundShares(p)'
    BY <1>9, Zenon DEF RoundShares
  <1> QED
    BY <1>3, <1>10

\* A request by its state.
LEMMA DealRequestHasType ==
  ASSUME NEW p, DealShape(p), NEW r \in Clerks[p]
  PROVE  /\ oppReq[r].at \in {"create", "first"} => oppReq[r] \in DealsOf(p)!Taking
         /\ oppReq[r].at = "turn" => oppReq[r] \in DealsOf(p)!Turns
         /\ oppReq[r].at = "move" => oppReq[r] \in DealsOf(p)!Moving
         /\ oppReq[r].at = "ai" => oppReq[r] \in DealsOf(p)!Running
  BY DEF DealShape, DealRequest, DealsOf!Taking, DealsOf!Turns, DealsOf!Moving, DealsOf!Running,
     DealsOf!Idle

\* Steps that leave the turns alone.
LEMMA TurnsStay ==
  ASSUME NEW p, LastTurn(p), RoundShares(p), UNCHANGED <<rotation, turns>>
  PROVE  LastTurn(p)' /\ RoundShares(p)'
  <1>1. LastTurn(p)'
    BY DEF LastTurn
  <1>2. \A a, i, j : DealsOf(p)!Share(a, i, j)' = DealsOf(p)!Share(a, i, j)
    BY DEF DealsOf!Share
  <1>3. \A i, j : SameRoster(i, j)' <=> SameRoster(i, j)
    BY DEF SameRoster
  <1>4. RoundShares(p)'
    BY <1>2, <1>3 DEF RoundShares
  <1> QED
    BY <1>1, <1>4

\* A request that goes back to idle, or goes on without a turn.
LEMMA NoTurnKeeps ==
  ASSUME NEW p, TurnInv(p), NEW r \in Clerks[p], NEW q \in DealRequest(p),
         q.at # "turn", q.at \in {"create", "first"} => q.ids # {},
         oppReq' = [oppReq EXCEPT ![r] = q],
         UNCHANGED <<roster, rotation, turns, opp, ai, trail, overtaken>>
  PROVE  TurnInv(p)'
  <1>1. DealShape(p)'
    BY DEF TurnInv, DealShape
  <1>2. \A s \in Clerks[p] : oppReq'[s] = IF s = r THEN q ELSE oppReq[s]
    BY DEF TurnInv, DealShape
  <1>3. OneTurn(p)'
    BY <1>2 DEF TurnInv, OneTurn
  <1> QED
    BY <1>1, <1>3, TurnsStay DEF TurnInv

\* A request that takes its turn while no other has one.
LEMMA HoldingKeeps ==
  ASSUME NEW p, DealsOf(p)!OppAssumption, TurnInv(p), NEW r \in Clerks[p],
         oppReq[r].at \in {"create", "first"}, DealsOf(p)!Turning = {},
         oppReq' = [oppReq EXCEPT ![r] = DealsOf(p)!Holding(r, rotation)],
         UNCHANGED <<roster, rotation, turns, opp, ai, trail, overtaken>>
  PROVE  TurnInv(p)'
  <1> DEFINE q == DealsOf(p)!Holding(r, rotation)
  <1>1. /\ oppReq[r].opp \in Deals[p] /\ oppReq[r].ids \in SUBSET Staff[p]
        /\ oppReq[r].ids # {}
    BY DealRequestHasType DEF TurnInv, OneTurn, DealsOf!Taking
  <1>2. oppReq[r].ids \in SUBSET Nat /\ rotation \in Int
    BY <1>1 DEF DealsOf!OppAssumption, TurnInv, DealShape, DealsOf!NoRow
  <1>3. DealsOf(p)!Successor(oppReq[r].ids, rotation) \in oppReq[r].ids
    BY <1>1, <1>2, SuccessorIn
  <1>4. /\ q \in DealsOf(p)!Turns /\ q.at = "turn" /\ q.ids # {}
        /\ q.agent = DealsOf(p)!Successor(q.ids, rotation)
    BY <1>1, <1>3 DEF DealsOf!Holding, DealsOf!Turns
  <1> HIDE DEF q
  <1>5. \A s \in Clerks[p] : oppReq'[s] = IF s = r THEN q ELSE oppReq[s]
    BY DEF TurnInv, DealShape, q
  <1>6. \A s \in Clerks[p] : oppReq[s].at # "turn"
    BY DEF DealsOf!Turning
  <1>7. DealShape(p)'
    <2>1. oppReq' = [oppReq EXCEPT ![r] = q] /\ q \in DealRequest(p)
      BY <1>4 DEF q, DealRequest
    <2> QED
      BY <2>1 DEF TurnInv, DealShape
  <1>8. OneTurn(p)'
    BY <1>4, <1>5, <1>6 DEF TurnInv, OneTurn
  <1> QED
    BY <1>7, <1>8, TurnsStay DEF TurnInv

\* A turn that is committed.
LEMMA CreateCommitsKeeps ==
  ASSUME NEW p, DealsOf(p)!OppAssumption, TurnInv(p), NEW r \in Clerks[p],
         DealsOf(p)!CreateCommits(r)
  PROVE  TurnInv(p)'
  <1> DEFINE q == oppReq[r]
             t == [ids |-> q.ids, agent |-> q.agent]
  <1>1. /\ q.at = "turn" /\ rotation' = q.agent /\ turns' = Append(turns, t)
        /\ DealsOf(p)!Inserted(q.opp, q.agent)
        /\ oppReq' = [oppReq EXCEPT ![r] = DealsOf(p)!Idle]
        /\ UNCHANGED <<roster, ai, trail, overtaken>>
    BY DEF DealsOf!CreateCommits
  <1>2. /\ q.opp \in Deals[p] /\ q.ids \in SUBSET Staff[p] /\ q.ids # {} /\ q.agent \in Staff[p]
        /\ q.agent = DealsOf(p)!Successor(q.ids, rotation)
    BY <1>1, DealRequestHasType DEF TurnInv, OneTurn, DealsOf!Turns
  <1>3. \A s \in Clerks[p] : s # r => oppReq[s].at # "turn"
    BY <1>1 DEF TurnInv, OneTurn
  <1> HIDE DEF q
  <1>4. q.agent \in q.ids /\ RoundShares(p)'
    BY <1>1, <1>2, TurnKeepsShares DEF DealsOf!OppAssumption, TurnInv
  <1>5. t \in [ids : SUBSET Staff[p], agent : Staff[p]] /\ t.ids = q.ids /\ t.agent = q.agent
    BY <1>2
  <1> HIDE DEF t
  <1>6. LastTurn(p)'
    BY <1>1, <1>4, <1>5 DEF TurnInv, LastTurn
  <1>7. opp' \in [Deals[p] -> DealsOf(p)!Rows \cup {DealsOf(p)!Absent}]
    BY <1>1, <1>2 DEF DealsOf!Inserted, DealsOf!Rows, TurnInv, DealShape
  <1>8. DealShape(p)'
    BY <1>1, <1>2, <1>7 DEF TurnInv, DealShape, DealRequest
  <1>9. \A s \in Clerks[p] : oppReq'[s] = IF s = r THEN DealsOf(p)!Idle ELSE oppReq[s]
    BY <1>1 DEF TurnInv, DealShape
  <1>10. OneTurn(p)'
    BY <1>3, <1>9 DEF TurnInv, OneTurn, DealsOf!Idle
  <1> QED
    BY <1>4, <1>6, <1>8, <1>10 DEF TurnInv

\* The steps of the requests in turn.
LEMMA TakesTurnKeeps ==
  ASSUME NEW p, DealsOf(p)!OppAssumption, TurnInv(p), NEW r \in Clerks[p],
         DealsOf(p)!TakesTurn(r)
  PROVE  TurnInv(p)'
  <1>1. /\ oppReq[r].at = "create"
        /\ UNCHANGED <<roster, rotation, turns, opp, ai, trail, overtaken>>
    BY DEF DealsOf!TakesTurn, DealsOf!rotationVars, DealsOf!stageVars
  <1>2. CASE /\ DealsOf(p)!Turning = {}
             /\ oppReq' = [oppReq EXCEPT ![r] = DealsOf(p)!Holding(r, rotation)]
    BY <1>1, <1>2, HoldingKeeps
  <1>3. CASE oppReq' = [oppReq EXCEPT ![r].at = "first"]
    <2> DEFINE q == [oppReq[r] EXCEPT !.at = "first"]
    <2>1. /\ q \in DealsOf(p)!Taking /\ q.at = "first" /\ q.ids # {}
      BY <1>1, DealRequestHasType DEF TurnInv, OneTurn, DealsOf!Taking
    <2>2. oppReq' = [oppReq EXCEPT ![r] = q]
      BY <1>3
    <2> HIDE DEF q
    <2>3. q \in DealRequest(p)
      BY <2>1 DEF DealRequest
    <2> QED
      BY <1>1, <2>1, <2>2, <2>3, NoTurnKeeps
  <1> QED
    BY <1>2, <1>3 DEF DealsOf!TakesTurn

\* The first turn inserts the row.
LEMMA InsertsTurnKeeps ==
  ASSUME NEW p, DealsOf(p)!OppAssumption, TurnInv(p), NEW r \in Clerks[p],
         DealsOf(p)!InsertsTurn(r)
  PROVE  TurnInv(p)'
  <1>1. /\ oppReq[r].at = "first" /\ DealsOf(p)!Turning = {}
        /\ UNCHANGED <<roster, rotation, turns, opp, ai, trail, overtaken>>
    BY DEF DealsOf!InsertsTurn, DealsOf!rotationVars, DealsOf!stageVars
  <1>2. CASE oppReq' = [oppReq EXCEPT ![r] = DealsOf(p)!Holding(r, rotation)]
    BY <1>1, <1>2, HoldingKeeps
  <1>3. CASE oppReq' = [oppReq EXCEPT ![r] = DealsOf(p)!Idle]
    BY <1>1, <1>3, NoTurnKeeps DEF DealRequest, DealsOf!Idle
  <1> QED
    BY <1>2, <1>3 DEF DealsOf!InsertsTurn

\* Every step of the automatic assignment keeps the invariant.
LEMMA CreateStepKeeps ==
  ASSUME NEW p, DealsOf(p)!OppAssumption, TurnInv(p), DealsOf(p)!CreateStep
  PROVE  TurnInv(p)'
  <1>1. ASSUME NEW a \in Staff[p], DealsOf(p)!RosterChanges(a) PROVE TurnInv(p)'
    <2>1. /\ roster' \subseteq Staff[p]
          /\ UNCHANGED <<rotation, turns, oppReq, opp, ai, trail, overtaken>>
      BY <1>1 DEF DealsOf!RosterChanges, DealsOf!stageVars, TurnInv, DealShape
    <2> QED
      BY <2>1, TurnsStay DEF TurnInv, DealShape, OneTurn
  <1>2. ASSUME NEW o \in Deals[p], DealsOf(p)!CreateUnowned(o) PROVE TurnInv(p)'
    <2>1. /\ DealsOf(p)!Inserted(o, DealsOf(p)!Nobody)
          /\ UNCHANGED <<roster, rotation, turns, oppReq, ai, trail, overtaken>>
      BY <1>2 DEF DealsOf!CreateUnowned, DealsOf!rotationVars
    <2>2. opp' \in [Deals[p] -> DealsOf(p)!Rows \cup {DealsOf(p)!Absent}]
      BY <2>1 DEF DealsOf!Inserted, DealsOf!Rows, TurnInv, DealShape
    <2> QED
      BY <2>1, <2>2, TurnsStay DEF TurnInv, DealShape, OneTurn
  <1>3. ASSUME NEW r \in Clerks[p], NEW o \in Deals[p], DealsOf(p)!CreateReads(r, o)
        PROVE  TurnInv(p)'
    <2> DEFINE q == [at |-> "create", opp |-> o, ids |-> roster]
    <2>1. /\ roster # {} /\ oppReq' = [oppReq EXCEPT ![r] = q]
          /\ UNCHANGED <<roster, rotation, turns, opp, ai, trail, overtaken>>
      BY <1>3 DEF DealsOf!CreateReads, DealsOf!rotationVars, DealsOf!stageVars
    <2>2. q \in DealRequest(p) /\ q.at = "create" /\ q.ids # {}
      BY <2>1 DEF DealRequest, DealsOf!Taking, TurnInv, DealShape
    <2> HIDE DEF q
    <2> QED
      BY <2>1, <2>2, NoTurnKeeps
  <1>4. ASSUME NEW r \in Clerks[p], DealsOf(p)!CreateFails(r) PROVE TurnInv(p)'
    <2>1. /\ oppReq' = [oppReq EXCEPT ![r] = DealsOf(p)!Idle]
          /\ UNCHANGED <<roster, rotation, turns, opp, ai, trail, overtaken>>
      BY <1>4 DEF DealsOf!CreateFails, DealsOf!rotationVars, DealsOf!stageVars
    <2> QED
      BY <2>1, NoTurnKeeps DEF DealRequest, DealsOf!Idle
  <1> QED
    BY <1>1, <1>2, <1>3, <1>4, TakesTurnKeeps, InsertsTurnKeeps, CreateCommitsKeeps
    DEF DealsOf!CreateStep

-----------------------------------------------------------------------------
\* An opportunity that is moved exists, one that is not there has no trail, and
\* the target of an AI run suits the opportunity as long as the run holds its lock.
Movable(p) ==
  /\ \A r \in Clerks[p] : oppReq[r].at \in {"move", "ai"} =>
       opp[oppReq[r].opp] \in DealsOf(p)!Rows
  /\ \A o \in Deals[p] : trail[o] # "none" => opp[o] \in DealsOf(p)!Rows
  /\ \A r \in Clerks[p] : oppReq[r].at = "ai" /\ oppReq[r].target \in Lost[p] =>
       opp[oppReq[r].opp].reason \in LossReasons[p]

\* The inductive invariant of the moves.
MoveInv(p) == DealShape(p) /\ Movable(p) /\ DealsOf(p)!MovesAreSound

\* Rows have types.
LEMMA RowHasType ==
  ASSUME NEW p, NEW w \in DealsOf(p)!Rows
  PROVE  w.stage \in Pipeline[p] \cup Elsewhere[p] /\ w.reason \in DealsOf(p)!Texts
  BY DEF DealsOf!Rows

\* A request that begins, or ends without a change, leaves the rows sound.
LEMMA RequestKeeps ==
  ASSUME NEW p, MoveInv(p), NEW r \in Clerks[p], NEW q \in DealRequest(p),
         q.at \in {"move", "ai"} => opp[q.opp] \in DealsOf(p)!Rows,
         q.at = "ai" /\ q.target \in Lost[p] => opp[q.opp].reason \in LossReasons[p],
         oppReq' = [oppReq EXCEPT ![r] = q],
         UNCHANGED <<roster, rotation, opp, ai, trail, overtaken>>
  PROVE  MoveInv(p)'
  <1>1. DealShape(p)'
    BY DEF MoveInv, DealShape
  <1>2. \A s \in Clerks[p] : oppReq'[s] = IF s = r THEN q ELSE oppReq[s]
    BY DEF MoveInv, DealShape
  <1>3. Movable(p)'
    BY <1>2 DEF MoveInv, Movable
  <1> QED
    BY <1>1, <1>3 DEF MoveInv, DealsOf!MovesAreSound

\* A change of one row, with its audit event, ends its request.
LEMMA ChangeKeeps ==
  ASSUME NEW p, MoveInv(p), NEW r \in Clerks[p], oppReq[r].at \in {"move", "ai"},
         NEW row \in DealsOf(p)!Rows, NEW target \in Pipeline[p],
         \A q \in Clerks[p] : oppReq[q].at = "ai" /\ oppReq[q].opp = oppReq[r].opp =>
           row.reason = opp[oppReq[r].opp].reason,
         opp' = [opp EXCEPT ![oppReq[r].opp] = row],
         trail' = [trail EXCEPT ![oppReq[r].opp] = target],
         \/ /\ overtaken' = overtaken \ {oppReq[r].opp} /\ row.stage = target
            /\ target \in Lost[p] => row.reason \in LossReasons[p]
         \/ overtaken' = overtaken \cup {oppReq[r].opp},
         oppReq' = [oppReq EXCEPT ![r] = DealsOf(p)!Idle],
         UNCHANGED <<roster, rotation, ai>>
  PROVE  MoveInv(p)'
  <1> DEFINE o == oppReq[r].opp
  <1>1. o \in Deals[p]
    BY DealRequestHasType DEF MoveInv, DealsOf!Moving, DealsOf!Running
  <1>2. DealShape(p)'
    BY <1>1 DEF MoveInv, DealShape, DealRequest
  <1>3. /\ \A s \in Clerks[p] : oppReq'[s] = IF s = r THEN DealsOf(p)!Idle ELSE oppReq[s]
        /\ \A x \in Deals[p] : opp'[x] = IF x = o THEN row ELSE opp[x]
        /\ \A x \in Deals[p] : trail'[x] = IF x = o THEN target ELSE trail[x]
        /\ \A x \in Deals[p] \ {o} : x \in overtaken' <=> x \in overtaken
    BY DEF MoveInv, DealShape
  <1>4. \A s \in Clerks[p] : oppReq[s].at \in {"move", "ai"} => oppReq[s].opp \in Deals[p]
    BY DealRequestHasType DEF MoveInv, DealsOf!Moving, DealsOf!Running
  <1>5. Movable(p)'
    BY <1>3, <1>4 DEF MoveInv, Movable, DealsOf!Idle
  <1>6. DealsOf(p)!MovesAreSound'
    BY <1>1, <1>3 DEF MoveInv, DealsOf!MovesAreSound
  <1> QED
    BY <1>2, <1>5, <1>6 DEF MoveInv

\* A move made on a current read leaves the row as it was checked.
LEMMA MoveAppliesKeeps ==
  ASSUME NEW p, MoveInv(p), NEW r \in Clerks[p], DealsOf(p)!MoveApplies(r)
  PROVE  MoveInv(p)'
  <1> DEFINE o == oppReq[r].opp
             seen == oppReq[r].seen
             target == oppReq[r].target
             held == DealsOf(p)!HeldReason(r)
             row == [opp[o] EXCEPT
                       !.reason = DealsOf(p)!Written(opp[o].reason, seen.reason, held),
                       !.stage = DealsOf(p)!Written(opp[o].stage, seen.stage, target)]
  <1>1. /\ oppReq[r].at = "move" /\ o \notin DealsOf(p)!Locked
        /\ target \in Pipeline[p] /\ (target \in Lost[p] => held \in LossReasons[p])
        /\ opp' = [opp EXCEPT ![o] = row]
        /\ trail' = [trail EXCEPT ![o] = target]
        /\ overtaken' = IF opp[o] = seen THEN overtaken \ {o} ELSE overtaken \cup {o}
        /\ oppReq' = [oppReq EXCEPT ![r] = DealsOf(p)!Idle]
        /\ UNCHANGED <<roster, rotation, ai>>
    BY DEF DealsOf!MoveApplies, DealsOf!Allowed, DealsOf!rotationVars
  <1>2. oppReq[r] \in DealsOf(p)!Moving /\ opp[o] \in DealsOf(p)!Rows
    BY <1>1, DealRequestHasType DEF MoveInv, Movable
  <1>3. seen \in DealsOf(p)!Rows /\ oppReq[r].given \in DealsOf(p)!Texts
    BY <1>2 DEF DealsOf!Moving
  <1>4. held \in DealsOf(p)!Texts
    BY <1>3, RowHasType DEF DealsOf!HeldReason
  <1> DEFINE reason == DealsOf(p)!Written(opp[o].reason, seen.reason, held)
             stage == DealsOf(p)!Written(opp[o].stage, seen.stage, target)
  <1>5. /\ reason \in DealsOf(p)!Texts
        /\ stage \in Pipeline[p] \cup Elsewhere[p]
        /\ opp[o] = seen => reason = held /\ stage = target
    BY <1>1, <1>2, <1>4, RowHasType DEF DealsOf!Written
  <1> HIDE DEF reason, stage
  <1>6. row = [opp[o] EXCEPT !.reason = reason, !.stage = stage]
    BY DEF reason, stage
  <1>7. row \in DealsOf(p)!Rows /\ row.reason = reason /\ row.stage = stage
    BY <1>2, <1>5, <1>6 DEF DealsOf!Rows
  <1>8. \A q \in Clerks[p] : oppReq[q].at = "ai" => oppReq[q].opp # o
    BY <1>1 DEF DealsOf!Locked
  <1> HIDE DEF row, seen, held, target
  <1>9. \/ /\ overtaken' = overtaken \ {o} /\ row.stage = target
           /\ target \in Lost[p] => row.reason \in LossReasons[p]
        \/ overtaken' = overtaken \cup {o}
    BY <1>1, <1>5, <1>7
  <1> QED
    BY <1>1, <1>7, <1>8, <1>9, ChangeKeeps

\* An AI run commits the move it checked under its lock.
LEMMA AiCommitsKeeps ==
  ASSUME NEW p, MoveInv(p), NEW r \in Clerks[p], DealsOf(p)!AiCommits(r)
  PROVE  MoveInv(p)'
  <1> DEFINE o == oppReq[r].opp
             target == oppReq[r].target
             row == [opp[o] EXCEPT !.stage = target]
  <1>1. /\ oppReq[r].at = "ai"
        /\ opp' = [opp EXCEPT ![o] = row]
        /\ trail' = [trail EXCEPT ![o] = target]
        /\ overtaken' = overtaken \ {o}
        /\ oppReq' = [oppReq EXCEPT ![r] = DealsOf(p)!Idle]
        /\ UNCHANGED <<roster, rotation, ai>>
    BY DEF DealsOf!AiCommits, DealsOf!rotationVars
  <1>2. /\ opp[o] \in DealsOf(p)!Rows /\ target \in Pipeline[p]
        /\ target \in Lost[p] => opp[o].reason \in LossReasons[p]
    BY <1>1, DealRequestHasType DEF MoveInv, Movable, DealsOf!Running
  <1>3. row \in DealsOf(p)!Rows /\ row.reason = opp[o].reason /\ row.stage = target
    BY <1>2 DEF DealsOf!Rows
  <1> HIDE DEF row, target
  <1> QED
    BY <1>1, <1>2, <1>3, ChangeKeeps

\* A new opportunity has no trail and no request.
LEMMA CreateOwnedKeeps ==
  ASSUME NEW p, MoveInv(p), NEW o \in Deals[p], NEW owner \in Staff[p],
         DealsOf(p)!CreateOwned(o, owner)
  PROVE  MoveInv(p)'
  <1>1. /\ opp[o] = DealsOf(p)!Absent
        /\ UNCHANGED <<roster, rotation, oppReq, ai, trail, overtaken>>
    BY DEF DealsOf!CreateOwned, DealsOf!Fresh, DealsOf!rotationVars
  <1>2. PICK row : row \in DealsOf(p)!Rows /\ opp' = [opp EXCEPT ![o] = row]
    BY DEF DealsOf!CreateOwned, DealsOf!Inserted, DealsOf!Rows
  <1>3. \A x \in Deals[p] : opp'[x] = IF x = o THEN row ELSE opp[x]
    BY <1>2 DEF MoveInv, DealShape
  <1>4. DealsOf(p)!Absent \notin DealsOf(p)!Rows
    BY DEF DealsOf!Absent, DealsOf!Rows
  <1>5. \A s \in Clerks[p] : oppReq[s].at \in {"move", "ai"} => oppReq[s].opp \in Deals[p] \ {o}
    BY <1>1, <1>4, DealRequestHasType DEF MoveInv, Movable, DealsOf!Moving, DealsOf!Running
  <1>6. trail[o] = "none"
    BY <1>1, <1>4 DEF MoveInv, Movable
  <1>7. DealShape(p)'
    BY <1>1, <1>2 DEF MoveInv, DealShape
  <1>8. Movable(p)'
    BY <1>1, <1>2, <1>3, <1>5 DEF MoveInv, Movable
  <1>9. DealsOf(p)!MovesAreSound'
    BY <1>1, <1>3, <1>6 DEF MoveInv, DealsOf!MovesAreSound
  <1> QED
    BY <1>7, <1>8, <1>9 DEF MoveInv

\* Every step of the moves keeps the invariant.
LEMMA MoveStepKeeps ==
  ASSUME NEW p, MoveInv(p), DealsOf(p)!MoveStep
  PROVE  MoveInv(p)'
  <1>1. ASSUME NEW s \in Pipeline[p], DealsOf(p)!PolicyChanges(s) PROVE MoveInv(p)'
    <2>1. /\ ai' \subseteq Pipeline[p]
          /\ UNCHANGED <<roster, rotation, oppReq, opp, trail, overtaken>>
      BY <1>1 DEF DealsOf!PolicyChanges, DealsOf!rotationVars, MoveInv, DealShape
    <2> QED
      BY <2>1 DEF MoveInv, DealShape, Movable, DealsOf!MovesAreSound
  <1>2. ASSUME NEW r \in Clerks[p], NEW o \in Deals[p], NEW s \in Pipeline[p] \cup Elsewhere[p],
               NEW t \in DealsOf(p)!Texts, DealsOf(p)!MoveReads(r, o, s, t)
        PROVE  MoveInv(p)'
    <2> DEFINE q == [at |-> "move", opp |-> o, target |-> s, given |-> t, seen |-> opp[o]]
    <2>1. /\ opp[o] \in DealsOf(p)!Rows /\ oppReq' = [oppReq EXCEPT ![r] = q]
          /\ UNCHANGED <<roster, rotation, opp, ai, trail, overtaken>>
      BY <1>2 DEF DealsOf!MoveReads, DealsOf!Exists, DealsOf!rotationVars, MoveInv, DealShape
    <2>2. q \in DealRequest(p) /\ q.at = "move" /\ q.opp = o
      BY <2>1 DEF DealRequest, DealsOf!Moving
    <2> HIDE DEF q
    <2> QED
      BY <2>1, <2>2, RequestKeeps
  <1>3. ASSUME NEW r \in Clerks[p], NEW o \in Deals[p], NEW s \in Pipeline[p],
               DealsOf(p)!AiMoves(r, o, s)
        PROVE  MoveInv(p)'
    <2> DEFINE q == [at |-> "ai", opp |-> o, target |-> s]
    <2>1. /\ opp[o] \in DealsOf(p)!Rows /\ oppReq' = [oppReq EXCEPT ![r] = q]
          /\ s \in Lost[p] => opp[o].reason \in LossReasons[p]
          /\ UNCHANGED <<roster, rotation, opp, ai, trail, overtaken>>
      BY <1>3 DEF DealsOf!AiMoves, DealsOf!Exists, DealsOf!Allowed, DealsOf!rotationVars,
             MoveInv,
         DealShape
    <2>2. q \in DealRequest(p) /\ q.at = "ai" /\ q.opp = o /\ q.target = s
      BY DEF DealRequest, DealsOf!Running
    <2> HIDE DEF q
    <2> QED
      BY <2>1, <2>2, RequestKeeps
  <1>4. ASSUME NEW r \in Clerks[p], DealsOf(p)!MoveRefused(r) \/ DealsOf(p)!AiUndone(r)
        PROVE  MoveInv(p)'
    <2>1. /\ oppReq' = [oppReq EXCEPT ![r] = DealsOf(p)!Idle]
          /\ UNCHANGED <<roster, rotation, opp, ai, trail, overtaken>>
      BY <1>4 DEF DealsOf!MoveRefused, DealsOf!AiUndone, DealsOf!rotationVars, DealsOf!stageVars
    <2> QED
      BY <2>1, RequestKeeps DEF DealRequest, DealsOf!Idle
  <1>5. DealsOf(p)!NoReason \in DealsOf(p)!Texts
    BY DEF DealsOf!Texts
  <1>6. ASSUME NEW r \in Clerks[p], NEW o \in Deals[p], NEW s \in Pipeline[p] \cup Elsewhere[p],
               DealsOf(p)!RuleReads(r, o, s)
        PROVE  MoveInv(p)'
    BY <1>2, <1>5, <1>6 DEF DealsOf!RuleReads
  <1> QED
    BY <1>1, <1>2, <1>3, <1>4, <1>6, CreateOwnedKeeps, MoveAppliesKeeps, AiCommitsKeeps
    DEF DealsOf!MoveStep

\* The automatic assignment is fair and moves on current reads are sound, for any
\* number of agents, opportunities and requests.
THEOREM OpportunitiesAreSafe == Spec => []OpportunitySafety
  <1> DEFINE Inv == /\ part = "rotation" => TurnInv("rotation")
                    /\ part = "move" => MoveInv("move")
  <1>a. DealsOf("rotation")!OppAssumption /\ DealsOf("move")!OppAssumption
    BY CustomerAssumption
  <1>1. Init => Inv
    <2>1. ASSUME NEW p, DealsOf(p)!Init
          PROVE  DealShape(p) /\ \A r \in Clerks[p] : oppReq[r].at = "idle"
      BY <2>1 DEF DealsOf!Init, DealShape, DealRequest, DealsOf!Idle
    <2>2. ASSUME Init, part = "rotation" PROVE TurnInv("rotation")
      <3>1. DealsOf("rotation")!Init
        BY <2>2 DEF Init
      <3>2. turns = <<>> /\ rotation = DealsOf("rotation")!NoRow
        BY <3>1 DEF DealsOf!Init
      <3>3. DealShape("rotation") /\ \A r \in Clerks["rotation"] : oppReq[r].at = "idle"
        BY <2>1, <3>1
      <3> QED
        BY <3>2, <3>3 DEF TurnInv, OneTurn, LastTurn, RoundShares
    <2>3. ASSUME Init, part = "move" PROVE MoveInv("move")
      <3>1. DealsOf("move")!Init
        BY <2>3 DEF Init
      <3>2. \A o \in Deals["move"] : trail[o] = "none"
        BY <3>1 DEF DealsOf!Init
      <3>3. DealShape("move") /\ \A r \in Clerks["move"] : oppReq[r].at = "idle"
        BY <2>1, <3>1
      <3> QED
        BY <3>2, <3>3 DEF MoveInv, Movable, DealsOf!MovesAreSound
    <2> QED
      BY <2>2, <2>3
  <1>2. Inv /\ [Next]_vars => Inv'
    <2> SUFFICES ASSUME Inv, [Next]_vars PROVE Inv'
      OBVIOUS
    <2>1. /\ part' = part
          /\ \/ part = "rotation" /\ DealsOf("rotation")!CreateStep
             \/ part = "move" /\ DealsOf("move")!MoveStep
             \/ UNCHANGED oppVars
      BY DEF Next, vars
    <2>2. CASE part = "rotation" /\ DealsOf("rotation")!CreateStep
      BY <1>a, <2>1, <2>2, CreateStepKeeps
    <2>3. CASE part = "move" /\ DealsOf("move")!MoveStep
      BY <2>1, <2>3, MoveStepKeeps
    <2>4. CASE UNCHANGED oppVars
      <3>1. TurnInv("rotation") => TurnInv("rotation")'
        BY <2>4, TurnsStay DEF oppVars, TurnInv, DealShape, OneTurn
      <3>2. MoveInv("move") => MoveInv("move")'
        BY <2>4 DEF oppVars, MoveInv, DealShape, Movable, DealsOf!MovesAreSound
      <3> QED
        BY <2>1, <3>1, <3>2
    <2> QED
      BY <2>1, <2>2, <2>3, <2>4
  <1>3. Inv => OpportunitySafety
    <2>1. ASSUME NEW p, DealShape(p) PROVE DealsOf(p)!TypeOK
      BY <2>1 DEF DealsOf!TypeOK, DealShape, DealRequest
    <2>2. ASSUME NEW p, TurnInv(p) PROVE DealsOf(p)!RotationIsFair
      <3> SUFFICES ASSUME NEW i \in DOMAIN turns, NEW j \in DOMAIN turns, i <= j, SameRoster(i, j),
                          NEW a \in turns[i].ids, NEW b \in turns[i].ids
                   PROVE  DealsOf(p)!Share(a, i, j) <= DealsOf(p)!Share(b, i, j) + 1
        BY DEF DealsOf!RotationIsFair, SameRoster
      <3>1. PICK n \in Nat : \A c \in turns[i].ids :
              DealsOf(p)!Share(c, i, j) =
                IF Arc(turns[i].agent, turns[j].agent, c) THEN n + 1 ELSE n
        BY <2>2 DEF TurnInv, RoundShares
      <3>2. /\ DealsOf(p)!Share(a, i, j) \in {n, n + 1}
            /\ DealsOf(p)!Share(b, i, j) \in {n, n + 1}
        BY <3>1
      <3> QED
        BY <3>2
    <2> QED
      BY <2>1, <2>2 DEF OpportunitySafety, TurnInv, MoveInv
  <1> QED
    BY <1>1, <1>2, <1>3, PTL DEF Spec

-----------------------------------------------------------------------------
(* Custom fields.                                                          *)

\* The parts that run the custom fields.
FieldParts == {"field", "option"}

\* The types, with functions where TypeOK names the values only.
FieldShape(p) ==
  /\ definition \in [Definitions -> FieldsOf(p)!Record \cup {FieldsOf(p)!Absent}]
  /\ values \in [Contacts -> [Names -> FieldsOf(p)!Values \cup {FieldsOf(p)!None}]]
  /\ fieldReq \in [Requests -> FieldsOf(p)!Editing \cup FieldsOf(p)!Writing \cup {FieldsOf(p)!Idle}]
  /\ loose \subseteq Contacts \X Names

\* A name has at most one definition.
OneDefinition(p) ==
  \A d, e \in FieldsOf(p)!Defined : definition[d].name = definition[e].name => d = e

\* The definition of the name accepts the value.
Sound(p, n, v) == v = FieldsOf(p)!None \/ FieldsOf(p)!Accepted(n, v)

\* This holds of what is stored unless it is older than an unguarded change ...
StoredSound(p) ==
  \A c \in Contacts, n \in Names : <<c, n>> \in loose \/ Sound(p, n, values[c][n])

\* ... and so of what a pending write carries, and of what it read beside it.
PendingSound(p) ==
  \A r \in Requests : fieldReq[r].at \in {"user", "ai"} =>
    /\ fieldReq[r].name \in fieldReq[r].old \/ Sound(p, fieldReq[r].name, fieldReq[r].value)
    /\ \A n \in Names \ {fieldReq[r].name} :
         n \in fieldReq[r].old \/ Sound(p, n, fieldReq[r].seen[n])

\* The guard of an edit: it changes the type only over nothing.
EditsGuarded(p) ==
  \A r \in Requests : fieldReq[r].at = "edit" =>
    fieldReq[r].empty \/ fieldReq[r].new.type = fieldReq[r].seen.type

\* The inductive invariant of the custom fields.
FieldInv(p) ==
  /\ FieldShape(p) /\ OneDefinition(p)
  /\ StoredSound(p) /\ PendingSound(p) /\ EditsGuarded(p)

\* A request by its state.
LEMMA WritingHasType ==
  ASSUME NEW p, FieldShape(p), NEW r \in Requests, fieldReq[r].at \in {"user", "ai"}
  PROVE  /\ fieldReq[r].contact \in Contacts /\ fieldReq[r].name \in Names
         /\ fieldReq[r].value \in FieldsOf(p)!Values
         /\ fieldReq[r].seen \in [Names -> FieldsOf(p)!Values \cup {FieldsOf(p)!None}]
         /\ fieldReq[r].old \in SUBSET Names
  BY DEF FieldShape, FieldsOf!Editing, FieldsOf!Writing, FieldsOf!Idle

\* An edit by its state.
LEMMA EditingHasType ==
  ASSUME NEW p, FieldShape(p), NEW r \in Requests, fieldReq[r].at = "edit"
  PROVE  /\ fieldReq[r].id \in Definitions
         /\ fieldReq[r].seen \in FieldsOf(p)!Record /\ fieldReq[r].new \in FieldsOf(p)!Record
         /\ fieldReq[r].empty \in BOOLEAN
  BY DEF FieldShape, FieldsOf!Editing, FieldsOf!Writing, FieldsOf!Idle

\* Validating stores nothing yet; what it will store was just accepted.
LEMMA ValidatedKeeps ==
  ASSUME NEW p \in FieldParts, FieldInv(p), NEW r \in Requests, NEW by \in {"user", "ai"},
         NEW c \in Contacts, NEW n \in Names, NEW v \in FieldsOf(p)!Values,
         FieldsOf(p)!Validated(r, by, c, n, v)
  PROVE  FieldInv(p)'
  <1> DEFINE w == [at |-> by, contact |-> c, name |-> n, value |-> v, seen |-> values[c],
                   old |-> {m \in Names \ {n} : <<c, m>> \in loose}]
  <1>1. /\ FieldsOf(p)!Accepted(n, v)
        /\ fieldReq' = [fieldReq EXCEPT ![r] = w]
        /\ UNCHANGED <<definition, values, loose>>
    BY DEF FieldsOf!Validated
  <1>2. w \in FieldsOf(p)!Writing
    BY DEF FieldsOf!Writing, FieldInv, FieldShape
  <1>3. /\ w.at = by /\ w.name = n /\ w.value = v /\ w.seen = values[c]
        /\ w.old = {m \in Names \ {n} : <<c, m>> \in loose}
    OBVIOUS
  <1> HIDE DEF w
  <1>4. \A q \in Requests : fieldReq'[q] = IF q = r THEN w ELSE fieldReq[q]
    BY <1>1 DEF FieldInv, FieldShape
  <1>5. FieldShape(p)'
    BY <1>1, <1>2 DEF FieldInv, FieldShape
  <1>6. \A m, u : Sound(p, m, u)' <=> Sound(p, m, u)
    BY <1>1 DEF Sound, FieldsOf!Accepted, FieldsOf!Defined
  <1>7. /\ Sound(p, n, v)
        /\ \A m \in Names \ {n} : m \in w.old \/ Sound(p, m, values[c][m])
    BY <1>1, <1>3 DEF FieldInv, StoredSound, Sound
  <1>8. PendingSound(p)'
    BY <1>1, <1>3, <1>4, <1>6, <1>7 DEF FieldInv, PendingSound
  <1>9. EditsGuarded(p)'
    BY <1>3, <1>4 DEF FieldInv, EditsGuarded
  <1> QED
    BY <1>1, <1>5, <1>6, <1>8, <1>9 DEF FieldInv, OneDefinition, StoredSound, FieldsOf!Defined

\* A commit stores what the write carried.
LEMMA WriteCommitsKeeps ==
  ASSUME NEW p \in FieldParts, FieldInv(p), NEW r \in Requests, FieldsOf(p)!WriteCommits(r)
  PROVE  FieldInv(p)'
  <1> DEFINE w == fieldReq[r]
             same == w.value = w.seen[w.name]
             column == [w.seen EXCEPT ![w.name] = w.value]
  <1>1. /\ w.at \in {"user", "ai"}
        /\ values' = [values EXCEPT ![w.contact] = IF same THEN @ ELSE column]
        /\ loose' = IF same THEN loose
                    ELSE {x \in loose : x[1] # w.contact} \cup ({w.contact} \X w.old)
        /\ fieldReq' = [fieldReq EXCEPT ![r] = FieldsOf(p)!Idle]
        /\ UNCHANGED definition
    BY DEF FieldsOf!WriteCommits
  <1>2. /\ w.contact \in Contacts /\ w.name \in Names /\ w.value \in FieldsOf(p)!Values
        /\ w.seen \in [Names -> FieldsOf(p)!Values \cup {FieldsOf(p)!None}]
        /\ w.old \in SUBSET Names
    BY <1>1, WritingHasType DEF FieldInv
  <1>3. /\ w.name \in w.old \/ Sound(p, w.name, w.value)
        /\ \A n \in Names \ {w.name} : n \in w.old \/ Sound(p, n, w.seen[n])
    BY <1>1 DEF FieldInv, PendingSound
  <1> HIDE DEF w
  <1>4. /\ column \in [Names -> FieldsOf(p)!Values \cup {FieldsOf(p)!None}]
        /\ \A n \in Names : n \in w.old \/ Sound(p, n, column[n])
    BY <1>2, <1>3
  <1> HIDE DEF column
  <1>5. \A m, u : Sound(p, m, u)' <=> Sound(p, m, u)
    BY <1>1 DEF Sound, FieldsOf!Accepted, FieldsOf!Defined
  <1>6. \A q \in Requests : fieldReq'[q] = IF q = r THEN FieldsOf(p)!Idle ELSE fieldReq[q]
    BY <1>1 DEF FieldInv, FieldShape
  <1>7. \A c \in Contacts :
          values'[c] = IF c = w.contact /\ ~same THEN column ELSE values[c]
    BY <1>1 DEF FieldInv, FieldShape
  <1>8. FieldShape(p)'
    <2>1. loose' \subseteq Contacts \X Names
      BY <1>1, <1>2 DEF FieldInv, FieldShape
    <2> QED
      BY <1>1, <1>2, <1>4, <2>1 DEF FieldInv, FieldShape
  <1>9. StoredSound(p)'
    <2> SUFFICES ASSUME NEW c \in Contacts, NEW n \in Names, <<c, n>> \notin loose'
                 PROVE  Sound(p, n, values'[c][n])
      BY <1>5 DEF StoredSound
    <2>1. CASE c = w.contact /\ ~same
      <3>1. n \notin w.old
        BY <1>1, <2>1
      <3> QED
        BY <1>4, <1>7, <2>1, <3>1
    <2>2. CASE ~(c = w.contact /\ ~same)
      <3>1. <<c, n>> \notin loose
        BY <1>1, <2>2
      <3> QED
        BY <1>7, <2>2, <3>1 DEF FieldInv, StoredSound
    <2> QED
      BY <2>1, <2>2
  <1>10. PendingSound(p)' /\ EditsGuarded(p)'
    BY <1>5, <1>6 DEF FieldInv, PendingSound, EditsGuarded, FieldsOf!Idle
  <1> QED
    BY <1>1, <1>8, <1>9, <1>10 DEF FieldInv, OneDefinition, FieldsOf!Defined

\* A new definition takes a name that has none.
LEMMA CreateDefinitionKeeps ==
  ASSUME NEW p \in FieldParts, FieldInv(p), NEW d \in Definitions, NEW f \in FieldsOf(p)!Record,
         FieldsOf(p)!CreateDefinition(d, f)
  PROVE  FieldInv(p)'
  <1>1. /\ definition[d] = FieldsOf(p)!Absent
        /\ \A e \in FieldsOf(p)!Defined : e # d => definition[e].name # f.name
        /\ definition' = [definition EXCEPT ![d] = f]
        /\ UNCHANGED <<values, fieldReq, loose>>
    BY DEF FieldsOf!CreateDefinition, FieldsOf!Fresh, FieldsOf!NameFree
  <1>2. \A e \in Definitions : definition'[e] = IF e = d THEN f ELSE definition[e]
    BY <1>1 DEF FieldInv, FieldShape
  <1>3. \A e \in FieldsOf(p)!Defined :
          e # d /\ e \in FieldsOf(p)!Defined' /\ definition'[e] = definition[e]
    BY <1>1, <1>2 DEF FieldsOf!Defined
  <1>4. \A m, u : Sound(p, m, u) => Sound(p, m, u)'
    BY <1>1, <1>3 DEF Sound, FieldsOf!Accepted
  <1>5. FieldShape(p)'
    BY <1>1 DEF FieldInv, FieldShape
  <1>6. OneDefinition(p)'
    BY <1>1, <1>2 DEF FieldInv, OneDefinition, FieldsOf!Defined
  <1>7. StoredSound(p)' /\ PendingSound(p)' /\ EditsGuarded(p)'
    BY <1>1, <1>4 DEF FieldInv, StoredSound, PendingSound, EditsGuarded
  <1> QED
    BY <1>5, <1>6, <1>7 DEF FieldInv

\* The change of a row leaves sound what is under no name that it loosens.
LEMMA ChangeKeepsSound ==
  ASSUME NEW p \in FieldParts, FieldInv(p), NEW d \in FieldsOf(p)!Defined,
         NEW new \in FieldsOf(p)!Record, NEW empty \in BOOLEAN,
         empty \/ new.type = definition[d].type,
         definition' = [definition EXCEPT ![d] = new],
         NEW n \in Names \ FieldsOf(p)!Loosened(definition[d], new, empty), NEW v,
         Sound(p, n, v)
  PROVE  Sound(p, n, v)'
  <1>1. \A e \in Definitions : definition'[e] = IF e = d THEN new ELSE definition[e]
    BY DEF FieldInv, FieldShape
  <1> SUFFICES ASSUME v # FieldsOf(p)!None PROVE FieldsOf(p)!Accepted(n, v)'
    BY DEF Sound
  <1>2. PICK e \in FieldsOf(p)!Defined :
          definition[e].name = n /\ FieldsOf(p)!Fits(definition[e], v)
    BY DEF Sound, FieldsOf!Accepted
  <1>3. e # d
    BY <1>2 DEF FieldsOf!Loosened
  <1> QED
    BY <1>1, <1>2, <1>3 DEF FieldsOf!Accepted, FieldsOf!Defined

\* A request whose values grew older keeps all else.
LEMMA AgedRequest ==
  ASSUME NEW p, FieldShape(p), NEW s \in Requests, NEW ns \in SUBSET Names
  PROVE  /\ FieldsOf(p)!Aged(fieldReq[s], ns) \in
              FieldsOf(p)!Editing \cup FieldsOf(p)!Writing \cup {FieldsOf(p)!Idle}
         /\ FieldsOf(p)!Aged(fieldReq[s], ns).at = fieldReq[s].at
         /\ fieldReq[s].at \notin {"user", "ai"} =>
              FieldsOf(p)!Aged(fieldReq[s], ns) = fieldReq[s]
         /\ fieldReq[s].at \in {"user", "ai"} =>
              /\ FieldsOf(p)!Aged(fieldReq[s], ns).name = fieldReq[s].name
              /\ FieldsOf(p)!Aged(fieldReq[s], ns).value = fieldReq[s].value
              /\ FieldsOf(p)!Aged(fieldReq[s], ns).seen = fieldReq[s].seen
              /\ FieldsOf(p)!Aged(fieldReq[s], ns).old =
                   fieldReq[s].old \cup FieldsOf(p)!Carried(fieldReq[s], ns)
  <1>1. FieldsOf(p)!Carried(fieldReq[s], ns) \subseteq Names
    BY DEF FieldsOf!Carried
  <1>2. CASE fieldReq[s].at \in {"user", "ai"}
    <2>1. fieldReq[s] \in FieldsOf(p)!Writing
      BY <1>2 DEF FieldShape, FieldsOf!Editing, FieldsOf!Idle
    <2> QED
      BY <1>1, <1>2, <2>1 DEF FieldsOf!Aged, FieldsOf!Writing
  <1>3. CASE fieldReq[s].at \notin {"user", "ai"}
    BY <1>3 DEF FieldsOf!Aged, FieldShape
  <1> QED
    BY <1>2, <1>3

\* A change that leaves sound what is under no name it loosens, and marks what
\* is under the others as older, keeps what is stored and pending explained.
LEMMA AgingKeeps ==
  ASSUME NEW p \in FieldParts, FieldInv(p), NEW ns \in SUBSET Names,
         \A n \in Names \ ns : \A v : Sound(p, n, v) => Sound(p, n, v)',
         UNCHANGED values,
         loose' = loose \cup FieldsOf(p)!StoredUnder(ns),
         \A s \in Requests : \/ fieldReq'[s] = FieldsOf(p)!Aged(fieldReq[s], ns)
                             \/ fieldReq'[s] = FieldsOf(p)!Idle
  PROVE  StoredSound(p)' /\ PendingSound(p)' /\ EditsGuarded(p)'
  <1>1. FieldShape(p) /\ StoredSound(p) /\ PendingSound(p) /\ EditsGuarded(p)
    BY DEF FieldInv
  <1>2. \A n : Sound(p, n, FieldsOf(p)!None)'
    BY DEF Sound
  <1>3. StoredSound(p)'
    <2> SUFFICES ASSUME NEW c \in Contacts, NEW n \in Names, <<c, n>> \notin loose'
                 PROVE  Sound(p, n, values[c][n])'
      BY DEF StoredSound
    <2>1. CASE n \in ns
      <3>1. values[c][n] = FieldsOf(p)!None
        BY <2>1 DEF FieldsOf!StoredUnder
      <3> QED
        BY <1>2, <3>1 DEF Sound
    <2>2. CASE n \notin ns
      BY <1>1, <2>2 DEF StoredSound
    <2> QED
      BY <2>1, <2>2
  <1>4. ASSUME NEW s \in Requests, fieldReq'[s].at \in {"user", "ai"}
        PROVE  /\ fieldReq[s].at \in {"user", "ai"}
               /\ fieldReq'[s].name = fieldReq[s].name
               /\ fieldReq'[s].value = fieldReq[s].value
               /\ fieldReq'[s].seen = fieldReq[s].seen
               /\ fieldReq'[s].old = fieldReq[s].old \cup FieldsOf(p)!Carried(fieldReq[s], ns)
               /\ fieldReq[s].name \in Names
    <2>1. fieldReq'[s] = FieldsOf(p)!Aged(fieldReq[s], ns)
      BY <1>4 DEF FieldsOf!Idle
    <2>2. fieldReq[s].at \in {"user", "ai"}
      BY <1>1, <1>4, <2>1, AgedRequest
    <2> QED
      BY <1>1, <2>1, <2>2, AgedRequest, WritingHasType
  <1>5. PendingSound(p)'
    <2> SUFFICES ASSUME NEW s \in Requests, fieldReq'[s].at \in {"user", "ai"}
                 PROVE  /\ \/ fieldReq'[s].name \in fieldReq'[s].old
                           \/ Sound(p, fieldReq[s].name, fieldReq[s].value)'
                        /\ \A n \in Names \ {fieldReq[s].name} :
                             n \in fieldReq'[s].old \/ Sound(p, n, fieldReq[s].seen[n])'
      BY <1>4 DEF PendingSound, Sound
    <2>1. \/ fieldReq'[s].name \in fieldReq'[s].old
          \/ Sound(p, fieldReq[s].name, fieldReq[s].value)'
      <3>1. CASE fieldReq[s].name \in ns
        BY <1>4, <3>1 DEF FieldsOf!Carried
      <3>2. CASE fieldReq[s].name \notin ns
        BY <1>1, <1>4, <3>2 DEF PendingSound
      <3> QED
        BY <3>1, <3>2
    <2>2. ASSUME NEW n \in Names \ {fieldReq[s].name}, n \notin fieldReq'[s].old
          PROVE  Sound(p, n, fieldReq[s].seen[n])'
      <3>1. /\ fieldReq[s].at \in {"user", "ai"} /\ n \notin fieldReq[s].old
            /\ fieldReq'[s].seen[n] = fieldReq[s].seen[n]
            /\ n \in ns => fieldReq[s].seen[n] = FieldsOf(p)!None
        BY <1>4, <2>2 DEF FieldsOf!Carried
      <3>2. Sound(p, n, fieldReq[s].seen[n])
        BY <1>1, <2>2, <3>1 DEF PendingSound
      <3>3. CASE n \in ns
        BY <3>1, <3>3 DEF Sound
      <3>4. CASE n \notin ns
        BY <2>2, <3>1, <3>2, <3>4 DEF Sound
      <3> QED
        BY <3>3, <3>4
    <2> QED
      BY <2>1, <2>2
  <1>6. EditsGuarded(p)'
    <2> SUFFICES ASSUME NEW s \in Requests, fieldReq'[s].at = "edit"
                 PROVE  fieldReq'[s].empty \/ fieldReq'[s].new.type = fieldReq'[s].seen.type
      BY DEF EditsGuarded
    <2>1. fieldReq'[s] = FieldsOf(p)!Aged(fieldReq[s], ns)
      BY DEF FieldsOf!Idle
    <2>2. fieldReq[s].at = "edit" /\ fieldReq'[s] = fieldReq[s]
      BY <1>1, <2>1, AgedRequest
    <2> QED
      BY <1>1, <2>2 DEF EditsGuarded
  <1> QED
    BY <1>3, <1>5, <1>6

\* An edit that begins only reads; it changes the type over nothing.
LEMMA EditBeginsKeeps ==
  ASSUME NEW p \in FieldParts, FieldInv(p), NEW r \in Requests, NEW d \in Definitions,
         NEW f \in FieldsOf(p)!Record, FieldsOf(p)!EditBegins(r, d, f)
  PROVE  FieldInv(p)'
  <1> DEFINE bare == \A c \in Contacts : values[c][definition[d].name] = FieldsOf(p)!None
             q == [at |-> "edit", id |-> d, seen |-> definition[d], new |-> f, empty |-> bare]
  <1>1. /\ definition[d] \in FieldsOf(p)!Record
        /\ fieldReq' = [fieldReq EXCEPT ![r] = q]
        /\ UNCHANGED <<definition, values, loose>>
    BY DEF FieldsOf!EditBegins, FieldsOf!Defined, FieldInv, FieldShape
  <1>2. bare \/ f.type = definition[d].type
    BY DEF FieldsOf!EditBegins, FieldsOf!HasValues
  <1> HIDE DEF bare
  <1>3. q \in FieldsOf(p)!Editing
    <2>1. bare \in BOOLEAN
      BY DEF bare
    <2> QED
      BY <1>1, <2>1 DEF FieldsOf!Editing
  <1>4. q.at = "edit" /\ (q.empty \/ q.new.type = q.seen.type)
    BY <1>2
  <1> HIDE DEF q
  <1>5. \A s \in Requests : fieldReq'[s] = IF s = r THEN q ELSE fieldReq[s]
    BY <1>1 DEF FieldInv, FieldShape
  <1>6. \A m, u : Sound(p, m, u)' <=> Sound(p, m, u)
    BY <1>1 DEF Sound, FieldsOf!Accepted, FieldsOf!Defined
  <1>7. FieldShape(p)'
    BY <1>1, <1>3 DEF FieldInv, FieldShape
  <1>8. PendingSound(p)' /\ EditsGuarded(p)'
    BY <1>4, <1>5, <1>6 DEF FieldInv, PendingSound, EditsGuarded
  <1> QED
    BY <1>1, <1>6, <1>7, <1>8 DEF FieldInv, OneDefinition, StoredSound, FieldsOf!Defined

\* A changed row keeps the types, the names apart and the rest explained.
LEMMA EditCommitsKeeps ==
  ASSUME NEW p \in FieldParts, FieldInv(p), NEW r \in Requests, FieldsOf(p)!EditCommits(r)
  PROVE  FieldInv(p)'
  <1> DEFINE d == fieldReq[r].id
             new == FieldsOf(p)!Flushed(definition[d], fieldReq[r].seen, fieldReq[r].new)
             empty == fieldReq[r].empty
             ns == FieldsOf(p)!Loosened(definition[d], new, empty)
  <1>1. /\ fieldReq[r].at = "edit" /\ d \in FieldsOf(p)!Defined
        /\ \A e \in FieldsOf(p)!Defined : e # d => definition[e].name # new.name
        /\ definition' = [definition EXCEPT ![d] = new]
        /\ loose' = loose \cup FieldsOf(p)!StoredUnder(ns)
        /\ fieldReq' = [s \in Requests |-> IF s = r THEN FieldsOf(p)!Idle
                                           ELSE FieldsOf(p)!Aged(fieldReq[s], ns)]
        /\ UNCHANGED values
    BY DEF FieldsOf!EditCommits, FieldsOf!NameFree
  <1>2. /\ fieldReq[r].seen \in FieldsOf(p)!Record /\ fieldReq[r].new \in FieldsOf(p)!Record
        /\ d \in Definitions /\ definition[d] \in FieldsOf(p)!Record /\ empty \in BOOLEAN
    BY <1>1, EditingHasType DEF FieldInv, FieldShape, FieldsOf!Defined
  <1>3. new \in FieldsOf(p)!Record
    BY <1>2 DEF FieldsOf!Flushed, FieldsOf!Record
  <1>4. empty \/ new.type = definition[d].type
    <2>1. empty \/ fieldReq[r].new.type = fieldReq[r].seen.type
      BY <1>1 DEF FieldInv, EditsGuarded
    <2> QED
      BY <1>2, <2>1 DEF FieldsOf!Flushed, FieldsOf!Record
  <1>5. ns \in SUBSET Names
    BY <1>2, <1>3 DEF FieldsOf!Loosened, FieldsOf!Record
  <1> HIDE DEF d, new, empty
  <1>6. \A n \in Names \ ns : \A v : Sound(p, n, v) => Sound(p, n, v)'
    BY <1>1, <1>2, <1>3, <1>4, ChangeKeepsSound
  <1> HIDE DEF ns
  <1>7. \A e \in Definitions : definition'[e] = IF e = d THEN new ELSE definition[e]
    BY <1>1 DEF FieldInv, FieldShape
  <1>8. FieldShape(p)'
    <2>1. loose' \subseteq Contacts \X Names
      BY <1>1, <1>5 DEF FieldInv, FieldShape, FieldsOf!StoredUnder
    <2>2. \A s \in Requests : fieldReq'[s] \in
            FieldsOf(p)!Editing \cup FieldsOf(p)!Writing \cup {FieldsOf(p)!Idle}
      BY <1>1, <1>5, AgedRequest DEF FieldInv
    <2> QED
      BY <1>1, <1>3, <2>1, <2>2 DEF FieldInv, FieldShape
  <1>9. OneDefinition(p)'
    BY <1>1, <1>2, <1>7 DEF FieldInv, OneDefinition, FieldsOf!Defined
  <1>10. \A s \in Requests : \/ fieldReq'[s] = FieldsOf(p)!Aged(fieldReq[s], ns)
                             \/ fieldReq'[s] = FieldsOf(p)!Idle
    BY <1>1
  <1> QED
    BY <1>1, <1>5, <1>6, <1>8, <1>9, <1>10, AgingKeeps DEF FieldInv

\* An edit that fails changes its request only.
LEMMA EditFailsKeeps ==
  ASSUME NEW p \in FieldParts, FieldInv(p), NEW r \in Requests, FieldsOf(p)!EditFails(r)
  PROVE  FieldInv(p)'
  <1>1. /\ fieldReq' = [fieldReq EXCEPT ![r] = FieldsOf(p)!Idle]
        /\ UNCHANGED <<definition, values, loose>>
    BY DEF FieldsOf!EditFails
  <1>2. \A s \in Requests : fieldReq'[s] = IF s = r THEN FieldsOf(p)!Idle ELSE fieldReq[s]
    BY <1>1 DEF FieldInv, FieldShape
  <1>3. \A m, u : Sound(p, m, u)' <=> Sound(p, m, u)
    BY <1>1 DEF Sound, FieldsOf!Accepted, FieldsOf!Defined
  <1>4. PendingSound(p)' /\ EditsGuarded(p)'
    BY <1>2, <1>3 DEF FieldInv, PendingSound, EditsGuarded, FieldsOf!Idle
  <1> QED
    BY <1>1, <1>3, <1>4 DEF FieldInv, FieldShape, OneDefinition, StoredSound, FieldsOf!Defined

\* What is under the name of a deleted definition is older than the deletion.
LEMMA DeleteDefinitionKeeps ==
  ASSUME NEW p \in FieldParts, FieldInv(p), NEW d \in Definitions, NEW b \in BOOLEAN,
         FieldsOf(p)!DeleteDefinition(d, b)
  PROVE  FieldInv(p)'
  <1> DEFINE ns == {definition[d].name}
  <1>1. /\ d \in FieldsOf(p)!Defined
        /\ definition' = [definition EXCEPT ![d] = FieldsOf(p)!Absent]
        /\ loose' = loose \cup FieldsOf(p)!StoredUnder(ns)
        /\ fieldReq' = [s \in Requests |-> FieldsOf(p)!Aged(fieldReq[s], ns)]
        /\ UNCHANGED values
    BY DEF FieldsOf!DeleteDefinition
  <1>2. \A e \in Definitions :
          definition'[e] = IF e = d THEN FieldsOf(p)!Absent ELSE definition[e]
    BY <1>1 DEF FieldInv, FieldShape
  <1>3. /\ FieldsOf(p)!Defined' = FieldsOf(p)!Defined \ {d}
        /\ \A e \in FieldsOf(p)!Defined' : definition'[e] = definition[e]
    BY <1>2 DEF FieldsOf!Defined
  <1>4. \A n \in Names \ ns : \A v : Sound(p, n, v) => Sound(p, n, v)'
    BY <1>3 DEF Sound, FieldsOf!Accepted
  <1>5. ns \in SUBSET Names
    BY <1>1 DEF FieldsOf!Defined, FieldInv, FieldShape, FieldsOf!Record
  <1> HIDE DEF ns
  <1>6. FieldShape(p)'
    <2>1. loose' \subseteq Contacts \X Names
      BY <1>1, <1>5 DEF FieldInv, FieldShape, FieldsOf!StoredUnder
    <2>2. \A s \in Requests : fieldReq'[s] \in
            FieldsOf(p)!Editing \cup FieldsOf(p)!Writing \cup {FieldsOf(p)!Idle}
      BY <1>1, <1>5, AgedRequest DEF FieldInv
    <2> QED
      BY <1>1, <2>1, <2>2 DEF FieldInv, FieldShape
  <1>7. OneDefinition(p)'
    BY <1>3 DEF FieldInv, OneDefinition
  <1>8. \A s \in Requests : fieldReq'[s] = FieldsOf(p)!Aged(fieldReq[s], ns)
    BY <1>1
  <1> QED
    BY <1>1, <1>4, <1>5, <1>6, <1>7, <1>8, AgingKeeps DEF FieldInv

\* Every step keeps the invariant.
LEMMA FieldNext ==
  ASSUME NEW p \in FieldParts, FieldInv(p), FieldsOf(p)!Next PROVE FieldInv(p)'
  <1>1. ASSUME NEW r \in Requests, NEW c \in Contacts, NEW n \in Names,
               NEW v \in FieldsOf(p)!Values,
               FieldsOf(p)!UserWrites(r, c, n, v) \/ FieldsOf(p)!AiWrites(r, c, n, v)
        PROVE  FieldInv(p)'
    BY <1>1, ValidatedKeeps DEF FieldsOf!UserWrites, FieldsOf!AiWrites
  <1>2. ASSUME NEW r \in Requests, \/ FieldsOf(p)!EditCommits(r)
                                   \/ FieldsOf(p)!EditFails(r)
                                   \/ FieldsOf(p)!WriteCommits(r)
        PROVE  FieldInv(p)'
    BY <1>2, EditCommitsKeeps, EditFailsKeeps, WriteCommitsKeeps
  <1> QED
    BY <1>1, <1>2, EditBeginsKeeps, CreateDefinitionKeeps, DeleteDefinitionKeeps
    DEF FieldsOf!Next

\* A stored value that its definition does not accept is older than a change
\* nothing guards, or than one of type that was read when nothing was stored
\* under the name, for any number of definitions, contacts and requests.
THEOREM MisfitsAreExplained == Spec => []MisfitsExplained
  <1> DEFINE Inv == \A p \in FieldParts : part = p => FieldInv(p)
  <1>1. Init => Inv
    <2> SUFFICES ASSUME Init, NEW p \in FieldParts PROVE FieldInv(p)
      OBVIOUS
    <2>1. FieldsOf("field")!Init
      BY DEF Init
    <2>2. /\ definition = [d \in Definitions |-> FieldsOf(p)!Absent]
          /\ values = [c \in Contacts |-> [n \in Names |-> FieldsOf(p)!None]]
          /\ fieldReq = [r \in Requests |-> FieldsOf(p)!Idle]
          /\ loose = {}
      BY <2>1 DEF FieldsOf!Init, FieldsOf!Absent, FieldsOf!None, FieldsOf!Idle
    <2>3. FieldsOf(p)!Defined = {}
      BY <2>2 DEF FieldsOf!Defined
    <2> QED
      BY <2>2, <2>3 DEF FieldInv, FieldShape, OneDefinition, StoredSound, PendingSound, Sound,
                        EditsGuarded, FieldsOf!Idle
  <1>2. Inv /\ [Next]_vars => Inv'
    <2> SUFFICES ASSUME Inv, [Next]_vars, NEW p \in FieldParts, part' = p PROVE FieldInv(p)'
      OBVIOUS
    <2>1. /\ part' = part
          /\ FieldsOf(p)!Next \/ UNCHANGED fieldVars
      BY DEF Next, vars, FieldParts
    <2>2. FieldInv(p)
      BY <2>1
    <2>3. CASE UNCHANGED fieldVars
      BY <2>2, <2>3 DEF fieldVars, FieldInv, FieldShape, OneDefinition, StoredSound,
         PendingSound, EditsGuarded, Sound, FieldsOf!Defined, FieldsOf!Accepted
    <2> QED
      BY <2>1, <2>2, <2>3, FieldNext
  <1>3. Inv => MisfitsExplained
    <2> SUFFICES ASSUME NEW p \in FieldParts, FieldInv(p)
                 PROVE  FieldsOf(p)!TypeOK /\ FieldsOf(p)!MisfitsExplained
      BY DEF MisfitsExplained, FieldParts
    <2>1. FieldsOf(p)!TypeOK
      BY DEF FieldsOf!TypeOK, FieldInv, FieldShape, OneDefinition
    <2>2. \A d \in FieldsOf(p)!Defined : definition[d].name \in Names
      BY DEF FieldsOf!Defined, FieldInv, FieldShape, FieldsOf!Record
    <2>3. FieldsOf(p)!MisfitsExplained
      BY <2>2 DEF FieldsOf!MisfitsExplained, FieldInv, StoredSound, OneDefinition, Sound,
                  FieldsOf!Accepted
    <2> QED
      BY <2>1, <2>3
  <1> QED
    BY <1>1, <1>2, <1>3, PTL DEF Spec
=============================================================================
