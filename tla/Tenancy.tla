------------------------------- MODULE Tenancy -------------------------------
(***************************************************************************)
(* Companies, users and memberships: POST /auth/register and the           *)
(* invitations of a company.  Every request is one transaction under READ  *)
(* COMMITTED; a step is one statement, rows read FOR UPDATE and rows       *)
(* inserted under a unique index block the others until it ends.           *)
(* Users are named by their normalised e-mail address, which is unique;    *)
(* all companies choose the same name, so that their slugs collide.        *)
(***************************************************************************)
EXTENDS Naturals, FiniteSets

CONSTANTS
  Emails, Tenants, Requests,
  Founder,     \* the address that registers a company, per tenant
  MaxInvites   \* bound: invitations ever created

\* What the constants must satisfy.
TenancyAssumption ==
  /\ Founder \in [Tenants -> Emails]
  /\ MaxInvites \in Nat

VARIABLES
  user,     \* users: absent, or whether email_verified_at is set
  tenant,   \* tenants that exist
  plain,    \* those whose slug is the one made of the name alone
  member,   \* role of the active membership, or "none"
  outbox,   \* tenants whose verify_email mail is in the outbox
  invite,   \* invitations, in order of creation
  req       \* requests in progress

vars == <<user, tenant, plain, member, outbox, invite, req>>

Roles   == {"administrador", "supervisor", "agente_comercial"}
Invited == {"supervisor", "agente_comercial"}
Ids     == 1 .. MaxInvites

\* live: expires_at is in the future; saw: the invitations committed when the
\* request that created this one read the table.
Invite == [t : Tenants, e : Emails, role : Invited, live : BOOLEAN,
           status : {"pending", "accepted", "revoked"}, saw : SUBSET Ids]

Idle == [op |-> "idle"]

Request ==
       {Idle}
  \cup [op : {"register"}, at : {"insert", "commit"}, t : Tenants,
        plain : BOOLEAN]
  \cup [op : {"invite"}, at : {"lock", "commit"}, t : Tenants, e : Emails,
        role : Invited, found : SUBSET Ids, saw : SUBSET Ids]
  \cup [op : {"accept"}, at : {"user", "insert", "commit"}, i : Ids]

Init ==
  /\ user   = [e \in Emails |-> "none"]
  /\ tenant = {} /\ plain = {}
  /\ member = [t \in Tenants |-> [e \in Emails |-> "none"]]
  /\ outbox = {}
  /\ invite = <<>>
  /\ req    = [r \in Requests |-> Idle]

Goto(r, w)   == req' = [req EXCEPT ![r] = w]
Existing     == DOMAIN invite
store        == <<user, tenant, plain, member, outbox, invite>>
companies    == <<tenant, plain, outbox>>

\* Invitations a transaction holds FOR UPDATE.
HeldInvites(r) ==
  CASE req[r].op = "accept"                           -> {req[r].i}
    [] req[r].op = "invite" /\ req[r].at = "commit"   -> req[r].found
    [] OTHER                                          -> {}

\* Users a transaction has inserted or holds FOR UPDATE.
HeldUsers(r) ==
  CASE req[r].op = "register" /\ req[r].at = "commit" -> {Founder[req[r].t]}
    [] req[r].op = "accept" /\ req[r].at = "commit"   -> {invite[req[r].i].e}
    [] OTHER                                          -> {}

InviteFree(r, i) == \A q \in Requests \ {r} : i \notin HeldInvites(q)
UserFree(r, e)   == \A q \in Requests \ {r} : e \notin HeldUsers(q)

-----------------------------------------------------------------------------
(* Registration.                                                           *)

\* The address and the slug are looked up without a lock.
RegisterBegin(r, t) ==
  /\ req[r] = Idle
  /\ t \notin tenant
  /\ user[Founder[t]] = "none"
  /\ Goto(r, [op |-> "register", at |-> "insert", t |-> t, plain |-> plain = {}])
  /\ UNCHANGED store

\* Another transaction has inserted the same slug and not ended.
SlugFree(r) == \A q \in Requests \ {r} :
  ~(req[q].op = "register" /\ req[q].at = "commit" /\ req[q].plain)

Unique(r) == /\ user[Founder[req[r].t]] = "none" /\ req[r].t \notin tenant
             /\ req[r].plain => plain = {}

\* Mutant: the company is committed before the account is inserted.
RegisterInsertEarly(r) ==
  /\ req[r].op = "register" /\ req[r].at = "insert"
  /\ IF Unique(r) THEN Goto(r, [req[r] EXCEPT !.at = "commit"]) ELSE Goto(r, Idle)
  /\ tenant' = tenant \cup {req[r].t}
  /\ UNCHANGED <<user, plain, member, outbox, invite>>

\* The flush of company, user and membership waits on the unique indexes of
\* the address and of the slug.  An IntegrityError of either is answered with
\* EMAIL_ALREADY_REGISTERED.
RegisterInsert(r) ==
  /\ req[r].op = "register" /\ req[r].at = "insert"
  /\ UserFree(r, Founder[req[r].t])
  /\ req[r].plain => SlugFree(r)
  /\ \/ /\ Unique(r)
        /\ Goto(r, [req[r] EXCEPT !.at = "commit"])
     \/ /\ ~Unique(r)
        /\ Goto(r, Idle)
  /\ UNCHANGED <<user, tenant, plain, member, outbox, invite>>

RegisterCommit(r) ==
  LET t == req[r].t
      e == Founder[t]
  IN /\ req[r].op = "register" /\ req[r].at = "commit"
     /\ tenant' = tenant \cup {t}
     /\ plain'  = IF req[r].plain THEN plain \cup {t} ELSE plain
     /\ user'   = [user EXCEPT ![e] = "unverified"]
     /\ member' = [member EXCEPT ![t][e] = "administrador"]
     /\ outbox' = outbox \cup {t}
     /\ Goto(r, Idle)
     /\ UNCHANGED invite

\* The link of the verification mail.
VerifyEmail(t) ==
  /\ t \in outbox
  /\ user[Founder[t]] = "unverified"
  /\ user' = [user EXCEPT ![Founder[t]] = "verified"]
  /\ UNCHANGED <<member, invite, req, companies>>

-----------------------------------------------------------------------------
(* Invitations.                                                            *)

\* An administrator invites; the statement reads the pending invitations.
InviteBegin(r, t, e, role) ==
  /\ req[r] = Idle
  /\ \E a \in Emails : member[t][a] = "administrador" /\ user[a] = "verified"
  /\ member[t][e] = "none"
  /\ Goto(r, [op |-> "invite", at |-> "lock", t |-> t, e |-> e, role |-> role,
              saw |-> Existing,
              found |-> {i \in Existing : /\ invite[i].t = t /\ invite[i].e = e
                                          /\ invite[i].status = "pending"}])
  /\ UNCHANGED store

\* FOR UPDATE waits for each row and drops those that changed meanwhile.
InviteLock(r) ==
  /\ req[r].op = "invite" /\ req[r].at = "lock"
  /\ \A i \in req[r].found : InviteFree(r, i)
  /\ Goto(r, [req[r] EXCEPT !.at = "commit",
                !.found = {i \in @ : invite[i].status = "pending"}])
  /\ UNCHANGED store

\* Mutants: the older invitations stay open, or get an unlisted status.
SupersededNone(r) == [i \in Existing |-> invite[i]]
SupersededNew(r)  ==
  [i \in Existing |-> IF i \in req[r].found
                      THEN [invite[i] EXCEPT !.status = "replaced"] ELSE invite[i]]

Superseded(r) ==
  [i \in Existing |-> IF i \in req[r].found
                      THEN [invite[i] EXCEPT !.status = "revoked"] ELSE invite[i]]

InviteCommit(r) ==
  LET n == Cardinality(Existing) + 1
  IN /\ req[r].op = "invite" /\ req[r].at = "commit"
     /\ n <= MaxInvites
     /\ invite' = [i \in 1 .. n |->
          IF i < n THEN Superseded(r)[i]
          ELSE [t |-> req[r].t, e |-> req[r].e, role |-> req[r].role,
                live |-> TRUE, status |-> "pending", saw |-> req[r].saw]]
     /\ Goto(r, Idle)
     /\ UNCHANGED <<user, member, companies>>

\* Mutant: the invitation is read without a lock.
RevokeUnlocked(i) ==
  /\ i \in Existing
  /\ \E r \in Requests : i \in HeldInvites(r) \/ invite[i].status = "pending"
  /\ invite' = [invite EXCEPT ![i].status = "revoked"]
  /\ UNCHANGED <<user, member, req, companies>>

Revoke(i) ==
  /\ i \in Existing
  /\ invite[i].status = "pending"
  /\ \A r \in Requests : i \notin HeldInvites(r)
  /\ invite' = [invite EXCEPT ![i].status = "revoked"]
  /\ UNCHANGED <<user, member, req, companies>>

\* The status "expired" is set and rolled back by the exception that follows,
\* so that an expired invitation stays pending.
Expire(i) ==
  /\ i \in Existing /\ invite[i].live
  /\ invite' = [invite EXCEPT ![i].live = FALSE]
  /\ UNCHANGED <<user, member, req, companies>>

Acceptable(i) == invite[i].status = "pending" /\ invite[i].live

AcceptBegin(r, i) ==
  /\ req[r] = Idle
  /\ i \in Existing
  /\ Acceptable(i)
  /\ InviteFree(r, i)
  /\ Goto(r, [op |-> "accept", at |-> "user", i |-> i])
  /\ UNCHANGED store

\* SELECT ... FOR UPDATE on the user; a missing one will be inserted.
AcceptUser(r) ==
  LET e == invite[req[r].i].e
  IN /\ req[r].op = "accept" /\ req[r].at = "user"
     /\ user[e] # "none" => UserFree(r, e)
     /\ Goto(r, [req[r] EXCEPT !.at = IF user[e] = "none" THEN "insert" ELSE "commit"])
     /\ UNCHANGED store

\* The insert waits on uq_users_email_lower, and fails when it lost the race.
AcceptInsert(r) ==
  LET e == invite[req[r].i].e
  IN /\ req[r].op = "accept" /\ req[r].at = "insert"
     /\ UserFree(r, e)
     /\ IF user[e] = "none" THEN Goto(r, [req[r] EXCEPT !.at = "commit"])
                            ELSE Goto(r, Idle)
     /\ UNCHANGED store

\* Mutant: an active membership takes the role of the invitation.
JoinableAlways(i) == TRUE

\* An active membership refuses the invitation: ALREADY_A_MEMBER.
Joinable(i) == member[invite[i].t][invite[i].e] = "none"

AcceptCommit(r) ==
  LET i == req[r].i
  IN /\ req[r].op = "accept" /\ req[r].at = "commit"
     /\ Goto(r, Idle)
     /\ IF Joinable(i)
        THEN /\ user' = [user EXCEPT ![invite[i].e] = "verified"]
             /\ member' = [member EXCEPT ![invite[i].t][invite[i].e] = invite[i].role]
             /\ invite' = [invite EXCEPT ![i].status = "accepted"]
        ELSE UNCHANGED <<user, member, invite>>
     /\ UNCHANGED companies

\* The process or its connection is lost before the commit.
Rollback(r) ==
  /\ req[r] # Idle
  /\ Goto(r, Idle)
  /\ UNCHANGED store

Next ==
  \/ \E r \in Requests :
       \/ \E t \in Tenants :
            \/ RegisterBegin(r, t)
            \/ t \in tenant /\ \E e \in Emails, role \in Invited : InviteBegin(r, t, e, role)
       \/ RegisterInsert(r) \/ RegisterCommit(r)
       \/ InviteLock(r) \/ InviteCommit(r)
       \/ \E i \in Ids : AcceptBegin(r, i)
       \/ AcceptUser(r) \/ AcceptInsert(r) \/ AcceptCommit(r) \/ Rollback(r)
  \/ \E t \in Tenants : VerifyEmail(t)
  \/ \E i \in Ids : Revoke(i) \/ Expire(i)

Spec == Init /\ [][Next]_vars

-----------------------------------------------------------------------------
\* Every table and request has its type.
TypeOK ==
  /\ user \in [Emails -> {"none", "unverified", "verified"}]
  /\ tenant \subseteq Tenants /\ plain \subseteq tenant /\ outbox \subseteq Tenants
  /\ member \in [Tenants -> [Emails -> Roles \cup {"none"}]]
  /\ \A i \in Existing : i \in Ids /\ invite[i] \in Invite
  /\ req \in [Requests -> Request]

\* Registrations and acceptances that race for one address leave nothing half
\* done: a company has its administrator, the account and the verification
\* mail, no two share a slug, and every membership has its account.
NoPartialCompany ==
  /\ \A t \in tenant : member[t][Founder[t]] = "administrador" /\ t \in outbox
  /\ Cardinality(plain) <= 1
  /\ \A t \in Tenants, e \in Emails :
       member[t][e] # "none" => t \in tenant /\ user[e] # "none"

\* A member who did not found the company holds the role of exactly one
\* accepted invitation: no second invitation of the same person is ever used.
MemberByOneInvitation ==
  \A t \in Tenants, e \in Emails :
    LET used == {i \in Existing : /\ invite[i].t = t /\ invite[i].e = e
                                  /\ invite[i].status = "accepted"}
    IN  IF member[t][e] \in Invited
        THEN \E i \in used : used = {i} /\ invite[i].role = member[t][e]
        ELSE used = {}

\* Two invitations of one person are open only when the requests that created
\* them overlapped: a later one revokes all that were there before it.
OpenTogetherOverlapped ==
  \A i, j \in Existing :
    /\ i # j /\ invite[i].t = invite[j].t /\ invite[i].e = invite[j].e
    /\ invite[i].status = "pending" /\ invite[j].status = "pending"
    => i \notin invite[j].saw

\* A step leaves an accepted or revoked invitation as it is, whatever order
\* accept, revoke and a new invitation take.
SettledIsFinal ==
  \A i \in Existing : invite[i].status # "pending" => invite'[i].status = invite[i].status
=============================================================================
