------------------------------- MODULE Contacts -------------------------------
(***************************************************************************)
(* Contacts of one tenant, their channel identities, leads, merging,       *)
(* deletion, erasure and the purge of erased contacts.                     *)
(*                                                                         *)
(* Inbound messages, leads and PATCH read a contact without a lock and     *)
(* write in a later step; the other operations lock what they read, or     *)
(* read and write in one statement, and are one action each.               *)
(***************************************************************************)
EXTENDS Naturals, Sequences, FiniteSets

CONSTANTS
  Users,        \* external users, as <<asset, id>>
  Fields,       \* keys a contact is matched by: phone, email
  Values,
  Leads,        \* leadgen ids
  Workers,      \* inbound transactions
  Editors,      \* PATCH requests
  Limit,        \* contacts that one purge takes
  MaxContacts,  \* bound: rows of contacts
  MaxErasures,  \* bound: erasure requests per contact
  MaxMerges,    \* bound: merge candidates
  MaxRewrites,  \* bound: dead contacts whose fields a rule or an AI run writes
  None

\* What the constants must satisfy.
ContactAssumption ==
  /\ Limit \in Nat \ {0}
  /\ MaxContacts \in Nat /\ MaxErasures \in Nat /\ MaxMerges \in Nat
  /\ MaxRewrites \in Nat
  /\ None \notin Values \cup Leads

VARIABLES
  contact,   \* contacts
  ident,     \* contact_identities
  lead,      \* lead_references: leadgen ids already stored
  merges,    \* candidates resolved so far
  work,      \* inbound transactions
  edit,      \* PATCH requests: the contact each one read
  purged,    \* history: contacts the purge has cleaned
  dropped,   \* history: contacts deleted without erasure
  late,      \* history: dead contacts that an intake or a merge still wrote to
  rewritten  \* history: dead contacts whose fields were still written

vars == <<contact, ident, lead, merges, work, edit, purged, dropped, late, rewritten>>

Given   == [Fields -> Values \cup {None}]
Blank   == [f \in Fields |-> None]
Contact == [status : {"active", "deleted"}, keys : Given, profile : BOOLEAN,
            bodies : BOOLEAN, erasures : 0 .. MaxErasures, due : BOOLEAN,
            lead : Leads \cup {None}]
Ids     == DOMAIN contact
Assets  == {u[1] : u \in Users}

\* What contact_identities.external_user_id holds.
Name     == ({"user"} \X {u[2] : u \in Users})
              \cup ({"erased"} \X (1 .. MaxContacts) \X (1 .. MaxErasures))
              \cup ({"purged"} \X (1 .. MaxContacts))
Identity == [asset : Assets, name : Name, contact : 1 .. MaxContacts]

Idle    == [at |-> "idle"]
Writing == [at : {"write"}, user : Users, keys : Given, lead : Leads \cup {None},
            to : 0 .. MaxContacts, link : BOOLEAN]

Init ==
  /\ contact = <<>> /\ ident = <<>> /\ lead = {} /\ merges = 0
  /\ work = [w \in Workers |-> Idle]
  /\ edit = [e \in Editors |-> 0]
  /\ purged = {} /\ dropped = {} /\ late = {} /\ rewritten = {}

Live(c)  == contact[c].status # "deleted"
Rows(u)  == {i \in DOMAIN ident : ident[i].asset = u[1] /\ ident[i].name = <<"user", u[2]>>}
Of(c)    == {i \in DOMAIN ident : ident[i].contact = c}

NewContact(keys, l, message) ==
  [status |-> "active", keys |-> keys, profile |-> TRUE, bodies |-> message,
   erasures |-> 0, due |-> FALSE, lead |-> l]

-----------------------------------------------------------------------------
(* Inbound messages and leads.                                             *)

Known(u) == {c \in Ids : Live(c) /\ \E i \in Rows(u) : ident[i].contact = c}

Matches(g) == {c \in Ids : Live(c) /\ \E f \in Fields : g[f] # None /\ contact[c].keys[f] = g[f]}

Conflicting(c, g) ==
  \E f \in Fields : None \notin {g[f], contact[c].keys[f]} /\ contact[c].keys[f] # g[f]

\* find_or_create_contact: the user's live contact, the single match, or a new
\* one. An ambiguous match raises, and nothing happens.
Resolve(w, u, g, l) ==
  LET start(c, link) == work' = [work EXCEPT ![w] =
        [at |-> "write", user |-> u, keys |-> g, lead |-> l, to |-> c, link |-> link]]
  IN /\ work[w] = Idle
     /\ \/ \E c \in Known(u) : start(c, FALSE)
        \/ /\ Known(u) = {}
           /\ \/ \E c \in Matches(g) :
                   /\ Matches(g) = {c} /\ ~Conflicting(c, g)
                   /\ start(c, TRUE)
              \/ Matches(g) = {} /\ start(0, TRUE)
     /\ UNCHANGED <<contact, ident, lead, merges, edit, purged, dropped, late, rewritten>>

Abort(w) ==
  /\ work' = [work EXCEPT ![w] = Idle]
  /\ UNCHANGED <<contact, ident, lead, merges, edit, purged, dropped, late, rewritten>>

\* Mutant: nothing keeps a lead from being stored twice.
LeadStoredNever(l) == FALSE

\* uq_lead_references_tenant_lead.
LeadStored(l) == l \in lead

\* uq_contact_identities_tenant_asset_external: the user's row belongs to a
\* contact that the lookup did not find, dead or not committed in time.
Collides(w) == work[w].link /\ Rows(work[w].user) # {}

Refuse(w) ==
  /\ work[w] # Idle
  /\ Collides(w) \/ LeadStored(work[w].lead)
  /\ Abort(w)

\* upsert_contact_identity: a row that a concurrent first message has committed
\* meanwhile is pointed to this transaction's contact.
Linked(w, c) ==
  LET u == work[w].user
  IN IF ~work[w].link THEN ident
     ELSE IF Rows(u) = {}
          THEN Append(ident, [asset |-> u[1], name |-> <<"user", u[2]>>, contact |-> c])
          ELSE [i \in DOMAIN ident |-> IF i \in Rows(u) THEN [ident[i] EXCEPT !.contact = c]
                                       ELSE ident[i]]

Store(w) ==
  LET t   == work[w]
      c   == IF t.to = 0 THEN Len(contact) + 1 ELSE t.to
      msg == t.lead = None
  IN /\ t # Idle
     /\ ~LeadStored(t.lead)
     /\ Collides(w) => Known(t.user) # {}
     /\ c <= MaxContacts
     /\ contact' = IF t.to = 0 THEN Append(contact, NewContact(t.keys, t.lead, msg))
                   ELSE [contact EXCEPT ![c].bodies = @ \/ msg]
     /\ ident' = Linked(w, c)
     /\ lead' = lead \cup ({t.lead} \ {None})
     /\ late' = late \cup {x \in {t.to} \ {0} : ~Live(x)}
     /\ work' = [work EXCEPT ![w] = Idle]
     /\ UNCHANGED <<merges, edit, purged, dropped, rewritten>>

-----------------------------------------------------------------------------
(* The API.                                                                *)

CreateContact(g) ==
  /\ Len(contact) < MaxContacts
  /\ contact' = Append(contact, NewContact(g, None, FALSE))
  /\ UNCHANGED <<ident, lead, merges, work, edit, purged, dropped, late, rewritten>>

UpdateBegin(e, c) ==
  /\ edit[e] = 0 /\ Live(c)
  /\ edit' = [edit EXCEPT ![e] = c]
  /\ UNCHANGED <<contact, ident, lead, merges, work, purged, dropped, late, rewritten>>

Edited(c, g) ==
  [contact EXCEPT ![c].keys = [f \in Fields |-> IF g[f] = None THEN @[f] ELSE g[f]],
                  ![c].profile = TRUE]

UpdateCommit(e, g) ==
  LET c == edit[e]
  IN /\ c # 0
     /\ contact' = Edited(c, g)
     /\ edit' = [edit EXCEPT ![e] = 0]
     /\ rewritten' = rewritten \cup {x \in {c} : ~Live(x)}
     /\ UNCHANGED <<ident, lead, merges, work, purged, dropped, late>>

\* An AI run writes the fields of a contact, and a rule its tags, which leaves
\* the keys alone. Both lock the contact and look at no status.
Qualify(c, g) ==
  /\ Live(c) \/ Cardinality(rewritten \cup {c}) <= MaxRewrites
  /\ contact' = Edited(c, g)
  /\ rewritten' = rewritten \cup {x \in {c} : ~Live(x)}
  /\ UNCHANGED <<ident, lead, merges, work, edit, purged, dropped, late>>

DeleteContact(c) ==
  /\ Live(c)
  /\ contact' = [contact EXCEPT ![c].status = "deleted"]
  /\ dropped' = dropped \cup {c}
  /\ UNCHANGED <<ident, lead, merges, work, edit, purged, late, rewritten>>

Renamed(rows, name) ==
  [i \in DOMAIN ident |-> IF i \in rows THEN [ident[i] EXCEPT !.name = name] ELSE ident[i]]

\* One name for several rows of one asset breaks the unique constraint.
OnePerAsset(c) == \A i, j \in Of(c) : ident[i].asset = ident[j].asset => i = j

\* Mutant: the identities keep their names.
ForgottenNot(c) == ident

\* Mutant: the name is made from the request before this one.
ForgottenStale(c) == Renamed(Of(c), <<"erased", c, contact[c].erasures>>)

Forgotten(c) == Renamed(Of(c), <<"erased", c, contact[c].erasures + 1>>)

\* logically_erase_contact looks at no status: an erasure can be asked again.
EraseContact(c) ==
  /\ contact[c].erasures < MaxErasures
  /\ OnePerAsset(c)
  /\ contact' = [contact EXCEPT ![c].status = "deleted", ![c].erasures = @ + 1, ![c].due = FALSE]
  /\ ident' = Forgotten(c)
  /\ UNCHANGED <<lead, merges, work, edit, purged, dropped, late, rewritten>>

\* Mutant: the identities stay with the contact that is dropped.
MovedNot(keep, drop) == ident

Moved(keep, drop) ==
  [i \in DOMAIN ident |-> IF i \in Of(drop) THEN [ident[i] EXCEPT !.contact = keep] ELSE ident[i]]

\* resolve_merge_candidate with "merge"; "dismiss" changes no contact. Neither
\* contact's status is looked at.
Merge(keep, drop) ==
  /\ merges < MaxMerges /\ keep # drop
  /\ merges' = merges + 1
  /\ contact' = [contact EXCEPT
       ![keep].keys = [f \in Fields |-> IF @[f] = None THEN contact[drop].keys[f] ELSE @[f]],
       ![keep].profile = @ \/ contact[drop].profile,
       ![drop].status = "deleted"]
  /\ ident' = Moved(keep, drop)
  /\ late' = late \cup {x \in {keep} : ~Live(x)}
  /\ UNCHANGED <<lead, work, edit, purged, dropped, rewritten>>

-----------------------------------------------------------------------------
(* The purge.                                                              *)

RetentionPasses(c) ==
  /\ contact[c].erasures > 0 /\ ~contact[c].due
  /\ contact' = [contact EXCEPT ![c].due = TRUE]
  /\ UNCHANGED <<ident, lead, merges, work, edit, purged, dropped, late, rewritten>>

Erased == {c \in Ids : contact[c].status = "deleted" /\ contact[c].erasures > 0}

\* Mutant: the limit leaves room for one contact, always the same.
BatchesOfOne == {{c} : c \in {x \in Erased : \A y \in Erased : x <= y}}

\* LIMIT without ORDER BY.
Batches == {b \in SUBSET Erased : IF Cardinality(Erased) <= Limit THEN b = Erased
                                  ELSE Cardinality(b) = Limit}

\* Mutant: the conversations keep their texts.
CleanedBodiesKept(b) ==
  [c \in Ids |-> IF c \in b /\ contact[c].due
                 THEN [contact[c] EXCEPT !.keys = Blank, !.profile = FALSE]
                 ELSE contact[c]]

Cleaned(b) ==
  [c \in Ids |-> IF c \in b /\ contact[c].due
                 THEN [contact[c] EXCEPT !.keys = Blank, !.profile = FALSE, !.bodies = FALSE]
                 ELSE contact[c]]

\* One transaction: one contact that cannot be renamed undoes them all.
PurgeErased(b) ==
  LET now == {c \in b : contact[c].due}
  IN /\ b \in Batches /\ now # {}
     /\ \A c \in now : OnePerAsset(c)
     /\ contact' = Cleaned(b)
     /\ ident' = [i \in DOMAIN ident |->
          IF ident[i].contact \in now
          THEN [ident[i] EXCEPT !.name = <<"purged", ident[i].contact>>] ELSE ident[i]]
     /\ purged' = purged \cup now
     /\ UNCHANGED <<lead, merges, work, edit, dropped, late, rewritten>>

Purge == \E b \in SUBSET Ids : PurgeErased(b)

Next ==
  \/ \E w \in Workers :
       \/ \E u \in Users, g \in Given, l \in Leads \cup {None} : Resolve(w, u, g, l)
       \/ Refuse(w) \/ Store(w)
  \/ \E g \in Given : CreateContact(g) \/ \E e \in Editors : UpdateCommit(e, g)
  \/ \E c \in Ids : \/ \E g \in Given : Qualify(c, g)
                    \/ \E e \in Editors : UpdateBegin(e, c)
                    \/ DeleteContact(c) \/ EraseContact(c) \/ RetentionPasses(c)
                    \/ \E d \in Ids : Merge(c, d)
  \/ Purge

\* Beat starts the purge every hour, and days pass.
Spec == Init /\ [][Next]_vars /\ WF_vars(Purge)
          /\ \A c \in 1 .. MaxContacts : WF_vars(c \in Ids /\ RetentionPasses(c))

-----------------------------------------------------------------------------
\* Every row, request and history set has its type.
TypeOK ==
  /\ contact \in Seq(Contact) /\ Len(contact) <= MaxContacts
  /\ ident \in Seq(Identity)
  /\ lead \subseteq Leads /\ merges \in 0 .. MaxMerges
  /\ work \in [Workers -> {Idle} \cup Writing]
  /\ edit \in [Editors -> {0} \cup Ids]
  /\ purged \cup dropped \cup late \cup rewritten \subseteq Ids

\* An erased contact is not tied to its user any more: no identity of it bears
\* the user's id, unless an inbound transaction that had read the contact before,
\* or a merge that kept it, wrote to it after its death. Writes of its fields are
\* no excuse.
ErasedIsUnlinked ==
  \A c \in Ids \ late : contact[c].erasures > 0
    => \A i \in Of(c) : ident[i].name[1] # "user"

\* A user whose messages can no longer be stored, because their identity belongs
\* to a dead contact, lost it by a plain DELETE or by such a late write.
CutOffExplained ==
  \A i \in DOMAIN ident : ident[i].name[1] = "user" /\ ~Live(ident[i].contact)
    => ident[i].contact \in dropped \cup late

\* The purge leaves nothing personal, whatever ran beside it, unless a write to
\* the dead contact puts it back.
PurgedIsBlank ==
  \A c \in purged \ (late \cup rewritten) :
    /\ contact[c].keys = Blank /\ ~contact[c].profile /\ ~contact[c].bodies
    /\ \A i \in Of(c) : ident[i].name[1] # "user"

\* A lead that is delivered twice, also to two workers at once, makes one contact.
LeadOnce ==
  \A c, d \in Ids : contact[c].lead # None /\ contact[c].lead = contact[d].lead => c = d

\* Every erasure request is carried out in the end, as long as the limit takes
\* all the erased contacts and no two users of one asset share a contact.
ErasurePurged == \A c \in 1 .. MaxContacts : (c \in Erased) ~> (c \in purged)
=============================================================================
