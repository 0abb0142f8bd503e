---------------------------- MODULE CompanyProofs ----------------------------
(***************************************************************************)
(* Safety of the parts of MCCompany, proved for every value of the         *)
(* constants.  Each part has an inductive invariant of its own, which the  *)
(* steps of the others leave alone.                                        *)
(***************************************************************************)
EXTENDS MCCompany, FiniteSetTheorems, SequenceTheorems, WellFoundedInduction, TLAPS

\* A set of numbers has a least one.
LEMMA LeastNumber ==
  ASSUME NEW S \in SUBSET Nat, S # {}
  PROVE  \E m \in S : \A k \in S : m <= k
  <1> DEFINE R == OpToRel(<, Nat)
  <1>1. IsWellFoundedOn(R, Nat)
    BY NatLessThanWellFounded
  <1>2. PICK m \in S : \A k \in S : ~(<<k, m>> \in R)
    <2> HIDE DEF R
    <2> QED
      BY <1>1, WFMin
  <1>3. \A k \in S : ~(k < m)
    BY <1>2 DEF OpToRel
  <1> QED
    BY <1>3

-----------------------------------------------------------------------------
(* Companies and invitations.                                              *)

\* The two instances of Tenancy.
TenancyParts == {"invite", "register"}

\* Invitations are numbered, come from companies that exist, and were created by a
\* request that saw older ones.
InvitationsPoint ==
  /\ \E k \in Nat : DOMAIN invite = 1 .. k
  /\ \A i \in DOMAIN invite : invite[i].t \in tenant /\ invite[i].saw \subseteq DOMAIN invite

\* A request knows companies and invitations that exist; an invitation that is
\* still open and was found for the same person is locked before the new one is
\* written; a row that is locked is as it was when it was locked.
RequestFits(p, r) ==
  /\ tenancyReq[r].op = "invite" =>
       /\ tenancyReq[r].t \in tenant
       /\ tenancyReq[r].found \subseteq DOMAIN invite /\ tenancyReq[r].saw \subseteq DOMAIN invite
       /\ \A i \in tenancyReq[r].saw :
            /\ invite[i].t = tenancyReq[r].t /\ invite[i].e = tenancyReq[r].e
            /\ invite[i].status = "pending"
            => i \in tenancyReq[r].found
  /\ tenancyReq[r].op = "accept" => tenancyReq[r].i \in DOMAIN invite
  /\ tenancyReq[r].op = "register" /\ tenancyReq[r].at = "commit" =>
       /\ user[Founders[p][tenancyReq[r].t]] = "none"
       /\ tenancyReq[r].t \notin tenant
       /\ tenancyReq[r].plain => plain = {}
  /\ \A i \in TenancyOf(p)!HeldInvites(r) : invite[i].status = "pending"

\* The slug made of the name alone is written by the transaction of r.
HoldsSlug(r) ==
  tenancyReq[r].op = "register" /\ tenancyReq[r].at = "commit" /\ tenancyReq[r].plain

\* No two transactions hold the same invitation, the same address or the slug.
Apart(p, r, q) ==
  /\ \A i \in TenancyOf(p)!HeldInvites(r) : i \notin TenancyOf(p)!HeldInvites(q)
  /\ \A e \in TenancyOf(p)!HeldUsers(r) : e \notin TenancyOf(p)!HeldUsers(q)
  /\ ~(HoldsSlug(r) /\ HoldsSlug(q))

\* A company has its administrator and its mail, a membership its company and its
\* account, and at most one company has the slug of the name alone.
CompaniesWhole(p) ==
  /\ \A t \in tenant : member[t][Founders[p][t]] = "administrador" /\ t \in outbox
  /\ \A a, b \in plain : a = b
  /\ \A t \in Founded[p], e \in Emails :
       member[t][e] # "none" => t \in tenant /\ user[e] # "none"

\* The invitation i of the person e to the company t has been used.
Used(t, e, i) ==
  i \in DOMAIN invite /\ invite[i].t = t /\ invite[i].e = e /\ invite[i].status = "accepted"

\* A member who was invited has used one invitation, the others have used none.
MemberOnce(p) ==
  \A t \in Founded[p], e \in Emails :
    \/ /\ member[t][e] \in TenancyOf(p)!Invited
       /\ \E i \in DOMAIN invite : /\ Used(t, e, i) /\ invite[i].role = member[t][e]
                                   /\ \A j \in DOMAIN invite : Used(t, e, j) => j = i
    \/ /\ member[t][e] \notin TenancyOf(p)!Invited
       /\ \A j \in DOMAIN invite : ~Used(t, e, j)

\* The inductive invariant of Tenancy.
TenancyInv(p) ==
  /\ TenancyOf(p)!TypeOK
  /\ InvitationsPoint
  /\ CompaniesWhole(p)
  /\ MemberOnce(p)
  /\ TenancyOf(p)!OpenTogetherOverlapped
  /\ \A r \in Requests : RequestFits(p, r)
  /\ \A r, q \in Requests : r # q => Apart(p, r, q)

\* What the constants give.
LEMMA TenancyConstants ==
  ASSUME NEW p \in TenancyParts
  PROVE  Founders[p] \in [Founded[p] -> Emails] /\ Invitations[p] \in Nat
  BY CompanyAssumption DEF TenancyParts, TenancyOf!TenancyAssumption

\* A request that ends or stays keeps its distance from the others.
LEMMA ApartStays ==
  ASSUME NEW p \in TenancyParts, TenancyInv(p),
         \A q \in Requests : tenancyReq'[q] = tenancyReq[q] \/ tenancyReq'[q] = TenancyOf(p)!Idle,
         \A i \in DOMAIN invite : invite'[i].e = invite[i].e
  PROVE  \A r, q \in Requests : r # q => Apart(p, r, q)'
  <1>1. ASSUME NEW q \in Requests
        PROVE  /\ TenancyOf(p)!HeldInvites(q)' \subseteq TenancyOf(p)!HeldInvites(q)
               /\ TenancyOf(p)!HeldUsers(q)' \subseteq TenancyOf(p)!HeldUsers(q)
               /\ HoldsSlug(q)' => HoldsSlug(q)
    <2>1. CASE tenancyReq'[q] = tenancyReq[q]
      <3>1. TenancyOf(p)!HeldInvites(q)' = TenancyOf(p)!HeldInvites(q)
        BY <2>1 DEF TenancyOf!HeldInvites
      <3>2. TenancyOf(p)!HeldUsers(q)' = TenancyOf(p)!HeldUsers(q)
        BY <2>1 DEF TenancyOf!HeldUsers, TenancyInv, RequestFits
      <3> QED
        BY <2>1, <3>1, <3>2 DEF HoldsSlug
    <2>2. CASE tenancyReq'[q] = TenancyOf(p)!Idle
      BY <2>2 DEF TenancyOf!HeldInvites, TenancyOf!HeldUsers, TenancyOf!Idle, HoldsSlug
    <2> QED
      BY <2>1, <2>2
  <1> QED
    BY <1>1 DEF TenancyInv, Apart

\* The tables stay and one request moves on: what it knows and holds decides.
LEMMA RequestMoves ==
  ASSUME NEW p \in TenancyParts, TenancyInv(p), NEW r \in Requests,
         NEW w \in TenancyOf(p)!Request, TenancyOf(p)!Goto(r, w),
         UNCHANGED TenancyOf(p)!store,
         RequestFits(p, r)', \A q \in Requests \ {r} : Apart(p, r, q)'
  PROVE  TenancyInv(p)'
  <1>1. /\ \A q \in Requests \ {r} : tenancyReq'[q] = tenancyReq[q]
        /\ tenancyReq' \in [Requests -> TenancyOf(p)!Request]
        /\ UNCHANGED <<user, tenant, plain, member, outbox, invite>>
    BY DEF TenancyInv, TenancyOf!TypeOK, TenancyOf!Goto, TenancyOf!store
  <1>2. TenancyOf(p)!TypeOK'
    BY <1>1 DEF TenancyInv, TenancyOf!TypeOK, TenancyOf!Existing
  <1>3. InvitationsPoint' /\ CompaniesWhole(p)'
    BY <1>1 DEF TenancyInv, InvitationsPoint, CompaniesWhole
  <1>4. MemberOnce(p)' /\ TenancyOf(p)!OpenTogetherOverlapped'
    BY <1>1 DEF TenancyInv, MemberOnce, Used, TenancyOf!OpenTogetherOverlapped,
                TenancyOf!Existing
  <1>5. ASSUME NEW q \in Requests \ {r}
        PROVE  /\ TenancyOf(p)!HeldInvites(q)' = TenancyOf(p)!HeldInvites(q)
               /\ TenancyOf(p)!HeldUsers(q)' = TenancyOf(p)!HeldUsers(q)
               /\ HoldsSlug(q)' = HoldsSlug(q)
    BY <1>1, <1>5 DEF TenancyOf!HeldInvites, TenancyOf!HeldUsers, HoldsSlug
  <1>6. \A q \in Requests : RequestFits(p, q)'
    <2>1. ASSUME NEW q \in Requests \ {r}
          PROVE  RequestFits(p, q)'
      BY <1>1, <1>5, <2>1 DEF TenancyInv, RequestFits
    <2> QED
      BY <2>1
  <1>7. ASSUME NEW q \in Requests, NEW o \in Requests, q # o
        PROVE  Apart(p, q, o)'
    <2>1. CASE q # r /\ o # r
      BY <1>5, <1>7, <2>1 DEF TenancyInv, Apart
    <2>2. CASE q = r
      BY <1>7, <2>2
    <2>3. CASE o = r
      BY <1>7, <2>3 DEF Apart
    <2> QED
      BY <2>1, <2>2, <2>3
  <1> QED
    BY <1>2, <1>3, <1>4, <1>6, <1>7 DEF TenancyInv

\* A request that holds nothing is apart from the others.
LEMMA HoldsNothing ==
  ASSUME NEW p \in TenancyParts, NEW r \in Requests,
         TenancyOf(p)!HeldInvites(r)' = {}, TenancyOf(p)!HeldUsers(r)' = {}, ~HoldsSlug(r)'
  PROVE  \A q \in Requests : Apart(p, r, q)'
  BY DEF Apart

\* A request that ends without a commit leaves the tables and gives up its locks.
LEMMA RequestEnds ==
  ASSUME NEW p \in TenancyParts, TenancyInv(p), NEW r \in Requests,
         TenancyOf(p)!Goto(r, TenancyOf(p)!Idle), UNCHANGED TenancyOf(p)!store
  PROVE  TenancyInv(p)'
  <1>1. TenancyOf(p)!Idle \in TenancyOf(p)!Request
    BY DEF TenancyOf!Request
  <1>2. tenancyReq'[r] = TenancyOf(p)!Idle
    BY DEF TenancyInv, TenancyOf!TypeOK, TenancyOf!Goto
  <1>3. TenancyOf(p)!HeldInvites(r)' = {} /\ TenancyOf(p)!HeldUsers(r)' = {} /\ ~HoldsSlug(r)'
    BY <1>2 DEF TenancyOf!HeldInvites, TenancyOf!HeldUsers, HoldsSlug, TenancyOf!Idle
  <1>4. RequestFits(p, r)'
    BY <1>2, <1>3 DEF RequestFits, TenancyOf!Idle
  <1> QED
    BY <1>1, <1>3, <1>4, HoldsNothing, RequestMoves

\* Looking the address and the slug up locks nothing.
LEMMA RegisterBeginKeeps ==
  ASSUME NEW p \in TenancyParts, TenancyInv(p), NEW r \in Requests, NEW t \in Founded[p],
         TenancyOf(p)!RegisterBegin(r, t)
  PROVE  TenancyInv(p)'
  <1> DEFINE w == [op |-> "register", at |-> "insert", t |-> t, plain |-> plain = {}]
  <1>1. w \in TenancyOf(p)!Request /\ TenancyOf(p)!Goto(r, w) /\ UNCHANGED TenancyOf(p)!store
    BY DEF TenancyOf!RegisterBegin, TenancyOf!Request
  <1>2. tenancyReq'[r] = w
    BY <1>1 DEF TenancyInv, TenancyOf!TypeOK, TenancyOf!Goto
  <1>3. TenancyOf(p)!HeldInvites(r)' = {} /\ TenancyOf(p)!HeldUsers(r)' = {} /\ ~HoldsSlug(r)'
    BY <1>2 DEF TenancyOf!HeldInvites, TenancyOf!HeldUsers, HoldsSlug
  <1>4. RequestFits(p, r)'
    BY <1>2, <1>3 DEF RequestFits
  <1> HIDE DEF w
  <1> QED
    BY <1>1, <1>3, <1>4, HoldsNothing, RequestMoves

\* The insert waits until the address and the slug are free, and goes on only when
\* they are still unused.
LEMMA RegisterInsertKeeps ==
  ASSUME NEW p \in TenancyParts, TenancyInv(p), NEW r \in Requests,
         TenancyOf(p)!RegisterInsert(r)
  PROVE  TenancyInv(p)'
  <1>1. CASE TenancyOf(p)!Goto(r, TenancyOf(p)!Idle)
    BY <1>1, RequestEnds DEF TenancyOf!RegisterInsert, TenancyOf!store
  <1>2. CASE /\ TenancyOf(p)!Unique(r)
             /\ TenancyOf(p)!Goto(r, [tenancyReq[r] EXCEPT !.at = "commit"])
    <2> DEFINE w == [tenancyReq[r] EXCEPT !.at = "commit"]
    <2>1. /\ tenancyReq[r] \in TenancyOf(p)!Request
          /\ tenancyReq[r].op = "register" /\ tenancyReq[r].at = "insert"
          /\ UNCHANGED TenancyOf(p)!store
      BY DEF TenancyOf!RegisterInsert, TenancyInv, TenancyOf!TypeOK, TenancyOf!store
    <2>2. w \in TenancyOf(p)!Request
      BY <2>1 DEF TenancyOf!Request, TenancyOf!Idle
    <2>3. tenancyReq'[r] = w
      BY <1>2 DEF TenancyInv, TenancyOf!TypeOK, TenancyOf!Goto
    <2>4. /\ w.op = "register" /\ w.at = "commit"
          /\ w.t = tenancyReq[r].t /\ w.plain = tenancyReq[r].plain
      BY <2>1 DEF TenancyOf!Request, TenancyOf!Idle
    <2> HIDE DEF w
    <2>5. TenancyOf(p)!HeldInvites(r)' = {} /\ TenancyOf(p)!HeldUsers(r)' = {Founders[p][w.t]}
      BY <2>3, <2>4 DEF TenancyOf!HeldInvites, TenancyOf!HeldUsers
    <2>6. RequestFits(p, r)'
      BY <1>2, <2>1, <2>3, <2>4, <2>5 DEF RequestFits, TenancyOf!Unique, TenancyOf!store
    <2>7. ASSUME NEW q \in Requests \ {r}
          PROVE  Apart(p, r, q)'
      <3>1. tenancyReq'[q] = tenancyReq[q]
        BY <1>2, <2>7 DEF TenancyInv, TenancyOf!TypeOK, TenancyOf!Goto
      <3>2. TenancyOf(p)!HeldUsers(q)' = TenancyOf(p)!HeldUsers(q) /\ HoldsSlug(q)' = HoldsSlug(q)
        BY <2>1, <3>1 DEF TenancyOf!HeldUsers, HoldsSlug, TenancyOf!store
      <3>3. Founders[p][w.t] \notin TenancyOf(p)!HeldUsers(q)
        BY <2>4, <2>7 DEF TenancyOf!RegisterInsert, TenancyOf!UserFree
      <3>4. w.plain => ~HoldsSlug(q)
        BY <2>4, <2>7 DEF TenancyOf!RegisterInsert, TenancyOf!SlugFree, HoldsSlug
      <3> QED
        BY <2>3, <2>5, <3>2, <3>3, <3>4 DEF Apart, HoldsSlug
    <2> QED
      BY <1>2, <2>1, <2>2, <2>6, <2>7, RequestMoves DEF w
  <1> QED
    BY <1>1, <1>2 DEF TenancyOf!RegisterInsert

\* The request that invites finds the open invitations of the person.
LEMMA InviteBeginKeeps ==
  ASSUME NEW p \in TenancyParts, TenancyInv(p), NEW r \in Requests, NEW t \in tenant,
         NEW e \in Emails, NEW role \in TenancyOf(p)!Invited,
         TenancyOf(p)!InviteBegin(r, t, e, role)
  PROVE  TenancyInv(p)'
  <1> DEFINE f == {i \in DOMAIN invite : /\ invite[i].t = t /\ invite[i].e = e
                                         /\ invite[i].status = "pending"}
             w == [op |-> "invite", at |-> "lock", t |-> t, e |-> e, role |-> role,
                   saw |-> DOMAIN invite, found |-> f]
  <1>1. f \subseteq DOMAIN invite /\ DOMAIN invite \subseteq TenancyOf(p)!Ids /\ t \in Founded[p]
    BY DEF TenancyInv, TenancyOf!TypeOK, TenancyOf!Existing
  <1>2. TenancyOf(p)!Goto(r, w) /\ UNCHANGED TenancyOf(p)!store
    BY DEF TenancyOf!InviteBegin, TenancyOf!Existing
  <1>3. \A i \in DOMAIN invite : /\ invite[i].t = t /\ invite[i].e = e
                                 /\ invite[i].status = "pending"
                                 => i \in f
    OBVIOUS
  <1> HIDE DEF f
  <1>4. w \in TenancyOf(p)!Request
    BY <1>1 DEF TenancyOf!Request
  <1>5. tenancyReq'[r] = w
    BY <1>2 DEF TenancyInv, TenancyOf!TypeOK, TenancyOf!Goto
  <1>6. TenancyOf(p)!HeldInvites(r)' = {} /\ TenancyOf(p)!HeldUsers(r)' = {} /\ ~HoldsSlug(r)'
    BY <1>5 DEF TenancyOf!HeldInvites, TenancyOf!HeldUsers, HoldsSlug
  <1>7. RequestFits(p, r)'
    BY <1>1, <1>2, <1>3, <1>5, <1>6 DEF RequestFits, TenancyOf!store
  <1> HIDE DEF w
  <1> QED
    BY <1>2, <1>4, <1>6, <1>7, HoldsNothing, RequestMoves

\* It locks those that are still open once nobody else holds them.
LEMMA InviteLockKeeps ==
  ASSUME NEW p \in TenancyParts, TenancyInv(p), NEW r \in Requests, TenancyOf(p)!InviteLock(r)
  PROVE  TenancyInv(p)'
  <1> DEFINE f == {i \in tenancyReq[r].found : invite[i].status = "pending"}
             w == [tenancyReq[r] EXCEPT !.at = "commit", !.found = f]
  <1>1. /\ tenancyReq[r] \in TenancyOf(p)!Request
        /\ tenancyReq[r].op = "invite" /\ tenancyReq[r].at = "lock"
        /\ TenancyOf(p)!Goto(r, w) /\ UNCHANGED TenancyOf(p)!store
    BY DEF TenancyOf!InviteLock, TenancyInv, TenancyOf!TypeOK, TenancyOf!Goto
  <1>2. f \subseteq tenancyReq[r].found /\ \A i \in f : invite[i].status = "pending"
    OBVIOUS
  <1>3. \A i \in tenancyReq[r].found : invite[i].status = "pending" => i \in f
    OBVIOUS
  <1> HIDE DEF f
  <1>4. w \in TenancyOf(p)!Request
    BY <1>1, <1>2 DEF TenancyOf!Request, TenancyOf!Idle
  <1>5. tenancyReq'[r] = w
    BY <1>1 DEF TenancyInv, TenancyOf!TypeOK, TenancyOf!Goto
  <1>6. /\ w.op = "invite" /\ w.at = "commit" /\ w.t = tenancyReq[r].t /\ w.e = tenancyReq[r].e
        /\ w.saw = tenancyReq[r].saw /\ w.found = f
    BY <1>1 DEF TenancyOf!Request, TenancyOf!Idle
  <1> HIDE DEF w
  <1>7. TenancyOf(p)!HeldInvites(r)' = f /\ TenancyOf(p)!HeldUsers(r)' = {} /\ ~HoldsSlug(r)'
    BY <1>5, <1>6 DEF TenancyOf!HeldInvites, TenancyOf!HeldUsers, HoldsSlug
  <1>8. RequestFits(p, r)'
    <2>1. RequestFits(p, r)
      BY DEF TenancyInv
    <2> QED
      BY <1>1, <1>2, <1>3, <1>5, <1>6, <1>7, <2>1 DEF RequestFits, TenancyOf!store
  <1>9. ASSUME NEW q \in Requests \ {r}
        PROVE  Apart(p, r, q)'
    <2>1. tenancyReq'[q] = tenancyReq[q]
      BY <1>1, <1>9 DEF TenancyInv, TenancyOf!TypeOK, TenancyOf!Goto
    <2>2. TenancyOf(p)!HeldInvites(q)' = TenancyOf(p)!HeldInvites(q)
      BY <2>1 DEF TenancyOf!HeldInvites
    <2>3. \A i \in f : i \notin TenancyOf(p)!HeldInvites(q)
      BY <1>2, <1>9 DEF TenancyOf!InviteLock, TenancyOf!InviteFree
    <2> QED
      BY <1>7, <2>2, <2>3 DEF Apart
  <1> QED
    BY <1>1, <1>4, <1>8, <1>9, RequestMoves DEF w

\* The invitation to accept is open and nobody else holds it.
LEMMA AcceptBeginKeeps ==
  ASSUME NEW p \in TenancyParts, TenancyInv(p), NEW r \in Requests, NEW i \in TenancyOf(p)!Ids,
         TenancyOf(p)!AcceptBegin(r, i)
  PROVE  TenancyInv(p)'
  <1> DEFINE w == [op |-> "accept", at |-> "user", i |-> i]
  <1>1. TenancyOf(p)!Goto(r, w) /\ UNCHANGED TenancyOf(p)!store /\ w \in TenancyOf(p)!Request
    BY DEF TenancyOf!AcceptBegin, TenancyOf!Request
  <1>2. tenancyReq'[r] = w
    BY <1>1 DEF TenancyInv, TenancyOf!TypeOK, TenancyOf!Goto
  <1>3. TenancyOf(p)!HeldInvites(r)' = {i} /\ TenancyOf(p)!HeldUsers(r)' = {} /\ ~HoldsSlug(r)'
    BY <1>2 DEF TenancyOf!HeldInvites, TenancyOf!HeldUsers, HoldsSlug
  <1>4. RequestFits(p, r)'
    BY <1>1, <1>2, <1>3 DEF RequestFits, TenancyOf!store, TenancyOf!AcceptBegin,
        TenancyOf!Acceptable, TenancyOf!Existing
  <1> HIDE DEF w
  <1>5. ASSUME NEW q \in Requests \ {r}
        PROVE  Apart(p, r, q)'
    <2>1. tenancyReq'[q] = tenancyReq[q]
      BY <1>1, <1>5 DEF TenancyInv, TenancyOf!TypeOK, TenancyOf!Goto
    <2>2. TenancyOf(p)!HeldInvites(q)' = TenancyOf(p)!HeldInvites(q)
      BY <2>1 DEF TenancyOf!HeldInvites
    <2>3. i \notin TenancyOf(p)!HeldInvites(q)
      BY <1>5 DEF TenancyOf!AcceptBegin, TenancyOf!InviteFree
    <2> QED
      BY <1>3, <2>2, <2>3 DEF Apart
  <1> QED
    BY <1>1, <1>4, <1>5, RequestMoves

\* An acceptance moves on; it reaches its commit only when nobody else holds the
\* account.
LEMMA AcceptMoves ==
  ASSUME NEW p \in TenancyParts, TenancyInv(p), NEW r \in Requests,
         NEW step \in {"user", "insert", "commit"}, tenancyReq[r].op = "accept",
         TenancyOf(p)!Goto(r, [tenancyReq[r] EXCEPT !.at = step]), UNCHANGED TenancyOf(p)!store,
         step = "commit" => TenancyOf(p)!UserFree(r, invite[tenancyReq[r].i].e)
  PROVE  TenancyInv(p)'
  <1> DEFINE w == [tenancyReq[r] EXCEPT !.at = step]
  <1>1. tenancyReq[r] \in TenancyOf(p)!Request
    BY DEF TenancyInv, TenancyOf!TypeOK
  <1>2. w \in TenancyOf(p)!Request /\ w.op = "accept" /\ w.i = tenancyReq[r].i /\ w.at = step
    BY <1>1 DEF TenancyOf!Request, TenancyOf!Idle
  <1>3. tenancyReq'[r] = w
    BY DEF TenancyInv, TenancyOf!TypeOK, TenancyOf!Goto
  <1>4. TenancyOf(p)!Goto(r, w)
    OBVIOUS
  <1> HIDE DEF w
  <1>5. /\ TenancyOf(p)!HeldInvites(r) = {tenancyReq[r].i}
        /\ TenancyOf(p)!HeldInvites(r)' = {tenancyReq[r].i} /\ ~HoldsSlug(r)'
    BY <1>2, <1>3 DEF TenancyOf!HeldInvites, HoldsSlug
  <1>6. TenancyOf(p)!HeldUsers(r)' = IF step = "commit" THEN {invite[tenancyReq[r].i].e} ELSE {}
    BY <1>2, <1>3 DEF TenancyOf!HeldUsers, TenancyOf!store
  <1>7. RequestFits(p, r)'
    <2>1. RequestFits(p, r)
      BY DEF TenancyInv
    <2> QED
      BY <1>2, <1>3, <1>5, <2>1 DEF RequestFits, TenancyOf!store
  <1>8. ASSUME NEW q \in Requests \ {r}
        PROVE  Apart(p, r, q)'
    <2>1. tenancyReq'[q] = tenancyReq[q]
      BY <1>8 DEF TenancyInv, TenancyOf!TypeOK, TenancyOf!Goto
    <2>2. /\ TenancyOf(p)!HeldInvites(q)' = TenancyOf(p)!HeldInvites(q)
          /\ TenancyOf(p)!HeldUsers(q)' = TenancyOf(p)!HeldUsers(q)
      BY <2>1 DEF TenancyOf!HeldInvites, TenancyOf!HeldUsers, TenancyOf!store
    <2>3. \A i \in TenancyOf(p)!HeldInvites(r) : i \notin TenancyOf(p)!HeldInvites(q)
      BY <1>8 DEF TenancyInv, Apart
    <2>4. \A e \in TenancyOf(p)!HeldUsers(r)' : e \notin TenancyOf(p)!HeldUsers(q)
      BY <1>6, <1>8 DEF TenancyOf!UserFree
    <2> QED
      BY <1>5, <2>2, <2>3, <2>4 DEF Apart
  <1> QED
    BY <1>2, <1>4, <1>7, <1>8, RequestMoves

\* The row of the user is locked, or will be inserted.
LEMMA AcceptUserKeeps ==
  ASSUME NEW p \in TenancyParts, TenancyInv(p), NEW r \in Requests, TenancyOf(p)!AcceptUser(r)
  PROVE  TenancyInv(p)'
  <1>1. CASE user[invite[tenancyReq[r].i].e] = "none"
    BY <1>1, AcceptMoves DEF TenancyOf!AcceptUser
  <1>2. CASE user[invite[tenancyReq[r].i].e] # "none"
    BY <1>2, AcceptMoves DEF TenancyOf!AcceptUser
  <1> QED
    BY <1>1, <1>2

\* The insert waits for the others and fails when it lost the race.
LEMMA AcceptInsertKeeps ==
  ASSUME NEW p \in TenancyParts, TenancyInv(p), NEW r \in Requests, TenancyOf(p)!AcceptInsert(r)
  PROVE  TenancyInv(p)'
  <1>1. CASE user[invite[tenancyReq[r].i].e] = "none"
    BY <1>1, AcceptMoves DEF TenancyOf!AcceptInsert
  <1>2. CASE user[invite[tenancyReq[r].i].e] # "none"
    BY <1>2, RequestEnds DEF TenancyOf!AcceptInsert
  <1> QED
    BY <1>1, <1>2

\* A request that stays still knows what it knew when its locks were respected.
LEMMA FitsStays ==
  ASSUME NEW p \in TenancyParts, TenancyInv(p), NEW q \in Requests,
         tenancyReq'[q] = tenancyReq[q],
         tenant \subseteq tenant', DOMAIN invite \subseteq DOMAIN invite',
         \A i \in DOMAIN invite : /\ invite'[i].t = invite[i].t /\ invite'[i].e = invite[i].e
                                  /\ invite'[i].status = "pending" => invite[i].status = "pending",
         \A i \in TenancyOf(p)!HeldInvites(q) : invite'[i].status = invite[i].status,
         tenancyReq[q].op = "register" /\ tenancyReq[q].at = "commit" =>
           /\ user'[Founders[p][tenancyReq[q].t]] = user[Founders[p][tenancyReq[q].t]]
           /\ tenancyReq[q].t \notin tenant' /\ (tenancyReq[q].plain => plain' = plain)
  PROVE  RequestFits(p, q)'
  <1>1. RequestFits(p, q)
    BY DEF TenancyInv
  <1>2. TenancyOf(p)!HeldInvites(q)' = TenancyOf(p)!HeldInvites(q)
    BY DEF TenancyOf!HeldInvites
  <1> QED
    BY <1>1, <1>2 DEF RequestFits

\* A request that has ended knows nothing.
LEMMA IdleFits ==
  ASSUME NEW p \in TenancyParts, NEW q \in Requests, tenancyReq'[q] = TenancyOf(p)!Idle
  PROVE  RequestFits(p, q)'
  BY DEF RequestFits, TenancyOf!Idle, TenancyOf!HeldInvites

\* A company, its administrator and its mail appear together.
LEMMA RegisterCommitKeeps ==
  ASSUME NEW p \in TenancyParts, TenancyInv(p), NEW r \in Requests,
         TenancyOf(p)!RegisterCommit(r)
  PROVE  TenancyInv(p)'
  <1> DEFINE t == tenancyReq[r].t
             e == Founders[p][t]
  <1>1. /\ tenancyReq[r] \in TenancyOf(p)!Request
        /\ tenancyReq[r].op = "register" /\ tenancyReq[r].at = "commit"
        /\ tenancyReq' = [tenancyReq EXCEPT ![r] = TenancyOf(p)!Idle] /\ invite' = invite
    BY DEF TenancyOf!RegisterCommit, TenancyOf!Goto, TenancyInv, TenancyOf!TypeOK
  <1>2. /\ tenant' = tenant \cup {t} /\ outbox' = outbox \cup {t}
        /\ plain' = IF tenancyReq[r].plain THEN plain \cup {t} ELSE plain
        /\ user' = [user EXCEPT ![e] = "unverified"]
        /\ member' = [member EXCEPT ![t][e] = "administrador"]
    BY DEF TenancyOf!RegisterCommit
  <1>3. t \in Founded[p] /\ e \in Emails
    BY <1>1, TenancyConstants DEF TenancyOf!Request, TenancyOf!Idle
  <1>4. /\ user[e] = "none" /\ t \notin tenant /\ (tenancyReq[r].plain => plain = {})
        /\ e \in TenancyOf(p)!HeldUsers(r)
    BY <1>1 DEF TenancyInv, RequestFits, TenancyOf!HeldUsers
  <1> HIDE DEF t, e
  <1>5. TenancyOf(p)!TypeOK'
    <2>1. TenancyOf(p)!Idle \in TenancyOf(p)!Request
      BY DEF TenancyOf!Request
    <2>2. tenancyReq' \in [Requests -> TenancyOf(p)!Request]
      BY <1>1, <2>1 DEF TenancyInv, TenancyOf!TypeOK
    <2>3. user' \in [Emails -> {"none", "unverified", "verified"}]
      BY <1>2 DEF TenancyInv, TenancyOf!TypeOK
    <2>4. member' \in [Founded[p] -> [Emails -> TenancyOf(p)!Roles \cup {"none"}]]
      BY <1>2, <1>3 DEF TenancyInv, TenancyOf!TypeOK, TenancyOf!Roles
    <2> QED
      BY <1>1, <1>2, <1>3, <2>2, <2>3, <2>4 DEF TenancyInv, TenancyOf!TypeOK, TenancyOf!Existing
  <1>6. InvitationsPoint'
    BY <1>1, <1>2 DEF TenancyInv, InvitationsPoint
  <1>7. /\ \A u \in Founded[p], a \in Emails :
             member'[u][a] = IF u = t /\ a = e THEN "administrador" ELSE member[u][a]
        /\ \A a \in Emails : user'[a] = IF a = e THEN "unverified" ELSE user[a]
    BY <1>2, <1>3 DEF TenancyInv, TenancyOf!TypeOK
  <1>8. CompaniesWhole(p)'
    BY <1>2, <1>3, <1>4, <1>7 DEF TenancyInv, CompaniesWhole, TenancyOf!TypeOK, t, e
  <1>9. MemberOnce(p)'
    <2>1. \A j \in DOMAIN invite : ~Used(t, e, j)
      BY <1>4 DEF TenancyInv, InvitationsPoint, Used
    <2>2. ASSUME NEW u \in Founded[p], NEW a \in Emails, u # t \/ a # e
          PROVE  member'[u][a] = member[u][a]
      BY <1>7, <2>2
    <2>3. \A u, a, j : Used(u, a, j)' <=> Used(u, a, j)
      BY <1>1 DEF Used
    <2>4. member'[t][e] = "administrador" /\ "administrador" \notin TenancyOf(p)!Invited
      BY <1>3, <1>7 DEF TenancyOf!Invited
    <2> QED
      BY <1>1, <2>1, <2>2, <2>3, <2>4 DEF TenancyInv, MemberOnce
  <1>10. TenancyOf(p)!OpenTogetherOverlapped'
    BY <1>1 DEF TenancyInv, TenancyOf!OpenTogetherOverlapped, TenancyOf!Existing
  <1>11. /\ tenancyReq'[r] = TenancyOf(p)!Idle
         /\ \A q \in Requests \ {r} : tenancyReq'[q] = tenancyReq[q]
    BY <1>1 DEF TenancyInv, TenancyOf!TypeOK
  <1>12. ASSUME NEW q \in Requests
         PROVE  RequestFits(p, q)'
    <2>1. CASE q = r
      BY <1>11, <2>1, IdleFits
    <2>2. CASE q # r
      <3>1. tenancyReq'[q] = tenancyReq[q] /\ Apart(p, r, q)
        BY <1>11, <2>2 DEF TenancyInv
      <3>2. CASE tenancyReq[q].op = "register" /\ tenancyReq[q].at = "commit"
        <4>1. Founders[p][tenancyReq[q].t] # e
          BY <1>4, <3>1, <3>2 DEF Apart, TenancyOf!HeldUsers
        <4>2. tenancyReq[q].t \in Founded[p] /\ Founders[p][tenancyReq[q].t] \in Emails
          BY <3>2, TenancyConstants
             DEF TenancyInv, TenancyOf!TypeOK, TenancyOf!Request, TenancyOf!Idle
        <4>3. tenancyReq[q].t # t
          BY <4>1 DEF e
        <4>4. tenancyReq[q].plain => plain' = plain
          BY <1>1, <1>2, <3>1, <3>2 DEF Apart, HoldsSlug
        <4>5. RequestFits(p, q)
          BY DEF TenancyInv
        <4> QED
          BY <1>1, <1>2, <1>7, <3>1, <4>1, <4>2, <4>3, <4>4, <4>5, <3>2,
                 FitsStays DEF RequestFits
      <3>3. CASE ~(tenancyReq[q].op = "register" /\ tenancyReq[q].at = "commit")
        BY <1>1, <1>2, <3>1, <3>3, FitsStays
      <3> QED
        BY <3>2, <3>3
    <2> QED
      BY <2>1, <2>2
  <1>13. \A q, o \in Requests : q # o => Apart(p, q, o)'
    <2>1. \A q \in Requests : tenancyReq'[q] = tenancyReq[q] \/ tenancyReq'[q] = TenancyOf(p)!Idle
      BY <1>11
    <2>2. \A i \in DOMAIN invite : invite'[i].e = invite[i].e
      BY <1>1
    <2> QED
      BY <2>1, <2>2, ApartStays
  <1> QED
    BY <1>5, <1>6, <1>8, <1>9, <1>10, <1>12, <1>13 DEF TenancyInv

\* Verifying the address changes the account alone.
LEMMA VerifyEmailKeeps ==
  ASSUME NEW p \in TenancyParts, TenancyInv(p), NEW t \in Founded[p], TenancyOf(p)!VerifyEmail(t)
  PROVE  TenancyInv(p)'
  <1> DEFINE e == Founders[p][t]
  <1>1. /\ user[e] = "unverified" /\ user' = [user EXCEPT ![e] = "verified"] /\ e \in Emails
        /\ UNCHANGED <<tenant, plain, outbox, member, invite, tenancyReq>>
    BY TenancyConstants DEF TenancyOf!VerifyEmail, TenancyOf!companies
  <1> HIDE DEF e
  <1>2. \A a \in Emails : user'[a] = IF a = e THEN "verified" ELSE user[a]
    BY <1>1 DEF TenancyInv, TenancyOf!TypeOK
  <1>3. TenancyOf(p)!TypeOK'
    BY <1>1 DEF TenancyInv, TenancyOf!TypeOK, TenancyOf!Existing
  <1>4. InvitationsPoint' /\ CompaniesWhole(p)'
    BY <1>1, <1>2 DEF TenancyInv, InvitationsPoint, CompaniesWhole
  <1>5. MemberOnce(p)' /\ TenancyOf(p)!OpenTogetherOverlapped'
    BY <1>1 DEF TenancyInv, MemberOnce, Used, TenancyOf!OpenTogetherOverlapped,
           TenancyOf!Existing
  <1>6. ASSUME NEW q \in Requests
        PROVE  RequestFits(p, q)'
    <2>1. RequestFits(p, q)
      BY DEF TenancyInv
    <2>2. tenancyReq[q].op = "register" /\ tenancyReq[q].at = "commit"
            => Founders[p][tenancyReq[q].t] \in Emails
      BY TenancyConstants DEF TenancyInv, TenancyOf!TypeOK, TenancyOf!Request, TenancyOf!Idle
    <2> QED
      BY <1>1, <1>2, <2>1, <2>2, FitsStays DEF RequestFits
  <1>7. \A q, o \in Requests : q # o => Apart(p, q, o)'
    BY <1>1, ApartStays
  <1> QED
    BY <1>3, <1>4, <1>5, <1>6, <1>7 DEF TenancyInv

\* A new invitation revokes those it has found, and no other open invitation of the
\* same person was there when its request read the table.
LEMMA InviteCommitKeeps ==
  ASSUME NEW p \in TenancyParts, TenancyInv(p), NEW r \in Requests, TenancyOf(p)!InviteCommit(r)
  PROVE  TenancyInv(p)' /\ TenancyOf(p)!SettledIsFinal
  <1> DEFINE w == tenancyReq[r]
  <1>1. PICK k \in Nat : DOMAIN invite = 1 .. k
    BY DEF TenancyInv, InvitationsPoint
  <1>2. TenancyOf(p)!Cardinality(TenancyOf(p)!Existing) = k
    <2>1. Cardinality(1 .. k) = k
      BY FS_Interval
    <2> QED
      BY <1>1, <2>1 DEF TenancyOf!Cardinality, Cardinality, TenancyOf!Existing
  <1>3. /\ w \in TenancyOf(p)!Request /\ w.op = "invite" /\ w.at = "commit"
        /\ tenancyReq' = [tenancyReq EXCEPT ![r] = TenancyOf(p)!Idle]
        /\ UNCHANGED <<user, tenant, plain, outbox, member>>
    BY DEF TenancyOf!InviteCommit, TenancyOf!Goto, TenancyInv, TenancyOf!TypeOK,
           TenancyOf!companies
  <1>4. /\ w.t \in Founded[p] /\ w.e \in Emails /\ w.role \in TenancyOf(p)!Invited
        /\ w.saw \subseteq TenancyOf(p)!Ids
    BY <1>3 DEF TenancyOf!Request, TenancyOf!Idle
  <1>5. /\ w.t \in tenant /\ w.found \subseteq 1 .. k /\ w.saw \subseteq 1 .. k
        /\ \A i \in w.found : invite[i].status = "pending"
        /\ \A i \in w.saw : /\ invite[i].t = w.t /\ invite[i].e = w.e
                            /\ invite[i].status = "pending"
                            => i \in w.found
        /\ TenancyOf(p)!HeldInvites(r) = w.found
    BY <1>1, <1>3 DEF TenancyInv, RequestFits, TenancyOf!HeldInvites
  <1>6. /\ k + 1 <= Invitations[p] /\ k + 1 \in TenancyOf(p)!Ids
        /\ DOMAIN invite' = 1 .. k + 1
        /\ invite'[k + 1] = [t |-> w.t, e |-> w.e, role |-> w.role, live |-> TRUE,
                             status |-> "pending", saw |-> w.saw]
        /\ \A i \in 1 .. k : invite'[i] = IF i \in w.found
                                          THEN [invite[i] EXCEPT !.status = "revoked"]
                                          ELSE invite[i]
    BY <1>1, <1>2, TenancyConstants
       DEF TenancyOf!InviteCommit, TenancyOf!Superseded, TenancyOf!Existing, TenancyOf!Ids
  <1>7. \A i \in 1 .. k : invite[i] \in TenancyOf(p)!Invite
    BY <1>1 DEF TenancyInv, TenancyOf!TypeOK, TenancyOf!Existing
  <1> HIDE DEF w
  <1>8. ASSUME NEW i \in 1 .. k
        PROVE  /\ invite'[i] \in TenancyOf(p)!Invite
               /\ invite'[i].t = invite[i].t /\ invite'[i].e = invite[i].e
               /\ invite'[i].role = invite[i].role /\ invite'[i].saw = invite[i].saw
               /\ invite'[i].status = IF i \in w.found THEN "revoked" ELSE invite[i].status
    BY <1>6, <1>7, <1>8 DEF TenancyOf!Invite
  <1>9. invite'[k + 1] \in TenancyOf(p)!Invite
    BY <1>4, <1>6 DEF TenancyOf!Invite
  <1>10. \A i \in 1 .. k + 1 : i \in 1 .. k \/ i = k + 1
    BY <1>1
  <1>11. 1 .. k \subseteq 1 .. k + 1 /\ k + 1 \notin 1 .. k /\ k + 1 \in 1 .. k + 1
    BY <1>1
  <1>12. /\ tenancyReq'[r] = TenancyOf(p)!Idle
         /\ \A q \in Requests \ {r} : tenancyReq'[q] = tenancyReq[q]
         /\ tenancyReq' \in [Requests -> TenancyOf(p)!Request]
    <2>1. TenancyOf(p)!Idle \in TenancyOf(p)!Request
      BY DEF TenancyOf!Request
    <2> QED
      BY <1>3, <2>1 DEF TenancyInv, TenancyOf!TypeOK
  <1>13. TenancyOf(p)!TypeOK'
    <2>1. \A i \in DOMAIN invite' : i \in TenancyOf(p)!Ids /\ invite'[i] \in TenancyOf(p)!Invite
      BY <1>1, <1>6, <1>8, <1>9, <1>10 DEF TenancyInv, TenancyOf!TypeOK, TenancyOf!Existing
    <2> QED
      BY <1>3, <1>12, <2>1 DEF TenancyInv, TenancyOf!TypeOK, TenancyOf!Existing
  <1>14. InvitationsPoint'
    <2>1. \A i \in DOMAIN invite' : invite'[i].t \in tenant /\ invite'[i].saw \subseteq 1 .. k
      BY <1>1, <1>5, <1>6, <1>8, <1>10 DEF TenancyInv, InvitationsPoint
    <2>2. k + 1 \in Nat
      OBVIOUS
    <2> QED
      BY <1>3, <1>6, <1>11, <2>1, <2>2 DEF InvitationsPoint
  <1>15. CompaniesWhole(p)'
    BY <1>3 DEF TenancyInv, CompaniesWhole
  <1>16. \A t, e : \A i \in DOMAIN invite' :
           Used(t, e, i)' <=> i \in DOMAIN invite /\ Used(t, e, i)
    BY <1>1, <1>5, <1>6, <1>8, <1>10, <1>11 DEF Used
  <1>17. MemberOnce(p)'
    BY <1>1, <1>3, <1>6, <1>8, <1>11, <1>16 DEF TenancyInv, MemberOnce
  <1>18. TenancyOf(p)!OpenTogetherOverlapped'
    <2>1. ASSUME NEW i \in 1 .. k + 1, NEW j \in 1 .. k + 1, i # j,
                 invite'[i].t = invite'[j].t, invite'[i].e = invite'[j].e,
                 invite'[i].status = "pending", invite'[j].status = "pending"
          PROVE  i \notin invite'[j].saw
      <3>1. CASE i \in 1 .. k /\ j \in 1 .. k
        BY <1>1, <1>8, <2>1, <3>1
           DEF TenancyInv, TenancyOf!OpenTogetherOverlapped, TenancyOf!Existing
      <3>2. CASE i \in 1 .. k /\ j = k + 1
        <4>1. /\ invite[i].t = w.t /\ invite[i].e = w.e
              /\ invite[i].status = "pending" /\ i \notin w.found
          BY <1>6, <1>8, <2>1, <3>2
        <4> QED
          BY <1>5, <1>6, <3>2, <4>1
      <3>3. CASE i = k + 1 /\ j \in 1 .. k
        BY <1>1, <1>8, <1>11, <3>3 DEF TenancyInv, InvitationsPoint
      <3> QED
        BY <1>10, <2>1, <3>1, <3>2, <3>3
    <2> QED
      BY <1>6, <2>1 DEF TenancyOf!OpenTogetherOverlapped, TenancyOf!Existing
  <1>19. ASSUME NEW q \in Requests
         PROVE  RequestFits(p, q)'
    <2>1. CASE q = r
      BY <1>12, <2>1, IdleFits
    <2>2. CASE q # r
      <3>1. tenancyReq'[q] = tenancyReq[q] /\ Apart(p, r, q) /\ RequestFits(p, q)
        BY <1>12, <2>2 DEF TenancyInv
      <3>2. \A i \in TenancyOf(p)!HeldInvites(q) : i \in DOMAIN invite /\ i \notin w.found
        <4>1. \A i \in TenancyOf(p)!HeldInvites(q) : i \in DOMAIN invite
          BY <3>1 DEF RequestFits, TenancyOf!HeldInvites
        <4> QED
          BY <1>5, <3>1, <4>1 DEF Apart
      <3>3. \A i \in TenancyOf(p)!HeldInvites(q) : invite'[i].status = invite[i].status
        BY <1>1, <1>8, <3>2
      <3>4. \A i \in DOMAIN invite :
              /\ invite'[i].t = invite[i].t /\ invite'[i].e = invite[i].e
              /\ invite'[i].status = "pending" => invite[i].status = "pending"
        BY <1>1, <1>8
      <3> QED
        BY <1>1, <1>3, <1>6, <1>11, <3>1, <3>3, <3>4, FitsStays DEF RequestFits
    <2> QED
      BY <2>1, <2>2
  <1>20. \A q, o \in Requests : q # o => Apart(p, q, o)'
    <2>1. \A q \in Requests : tenancyReq'[q] = tenancyReq[q] \/ tenancyReq'[q] = TenancyOf(p)!Idle
      BY <1>12
    <2>2. \A i \in DOMAIN invite : invite'[i].e = invite[i].e
      BY <1>1, <1>8
    <2> QED
      BY <2>1, <2>2, ApartStays
  <1>21. TenancyOf(p)!SettledIsFinal
    BY <1>1, <1>5, <1>8 DEF TenancyOf!SettledIsFinal, TenancyOf!Existing
  <1> QED
    BY <1>13, <1>14, <1>15, <1>17, <1>18, <1>19, <1>20, <1>21 DEF TenancyInv

\* A step that revokes open invitations which nobody holds, or lets them expire,
\* keeps the invariant.
LEMMA RevocationKeeps ==
  ASSUME NEW p \in TenancyParts, TenancyInv(p),
         UNCHANGED <<user, tenant, plain, member, outbox, tenancyReq>>,
         DOMAIN invite' = DOMAIN invite,
         \A j \in DOMAIN invite :
           /\ invite'[j] \in TenancyOf(p)!Invite
           /\ invite'[j].t = invite[j].t /\ invite'[j].e = invite[j].e
           /\ invite'[j].role = invite[j].role /\ invite'[j].saw = invite[j].saw
           /\ \/ invite'[j].status = invite[j].status
              \/ /\ invite[j].status = "pending" /\ invite'[j].status = "revoked"
                 /\ \A r \in Requests : j \notin TenancyOf(p)!HeldInvites(r)
  PROVE  TenancyInv(p)' /\ TenancyOf(p)!SettledIsFinal
  <1>1. TenancyOf(p)!TypeOK'
    BY DEF TenancyInv, TenancyOf!TypeOK, TenancyOf!Existing
  <1>2. InvitationsPoint' /\ CompaniesWhole(p)'
    BY DEF TenancyInv, InvitationsPoint, CompaniesWhole
  <1>3. \A t, e : \A j \in DOMAIN invite : Used(t, e, j)' <=> Used(t, e, j)
    BY DEF Used
  <1>4. MemberOnce(p)'
    BY <1>3 DEF TenancyInv, MemberOnce
  <1>5. TenancyOf(p)!OpenTogetherOverlapped'
    BY DEF TenancyInv, TenancyOf!OpenTogetherOverlapped, TenancyOf!Existing
  <1>6. ASSUME NEW q \in Requests
        PROVE  RequestFits(p, q)'
    <2>1. \A j \in TenancyOf(p)!HeldInvites(q) : j \in DOMAIN invite
      BY DEF TenancyInv, RequestFits, TenancyOf!HeldInvites
    <2>2. \A j \in TenancyOf(p)!HeldInvites(q) : invite'[j].status = invite[j].status
      BY <2>1
    <2>3. \A i \in DOMAIN invite :
            /\ invite'[i].t = invite[i].t /\ invite'[i].e = invite[i].e
            /\ invite'[i].status = "pending" => invite[i].status = "pending"
      OBVIOUS
    <2>4. RequestFits(p, q)
      BY DEF TenancyInv
    <2> QED
      BY <2>2, <2>3, <2>4, FitsStays DEF RequestFits
  <1>7. \A q, o \in Requests : q # o => Apart(p, q, o)'
    BY ApartStays
  <1>8. TenancyOf(p)!SettledIsFinal
    BY DEF TenancyOf!SettledIsFinal, TenancyOf!Existing
  <1> QED
    BY <1>1, <1>2, <1>4, <1>5, <1>6, <1>7, <1>8 DEF TenancyInv

\* A pending invitation that nobody holds is revoked.
LEMMA RevokeKeeps ==
  ASSUME NEW p \in TenancyParts, TenancyInv(p), NEW i \in TenancyOf(p)!Ids, TenancyOf(p)!Revoke(i)
  PROVE  TenancyInv(p)' /\ TenancyOf(p)!SettledIsFinal
  <1>1. \A j \in DOMAIN invite : invite[j] \in TenancyOf(p)!Invite
    BY DEF TenancyInv, TenancyOf!TypeOK, TenancyOf!Existing
  <1>2. /\ i \in DOMAIN invite /\ invite[i].status = "pending"
        /\ \A r \in Requests : i \notin TenancyOf(p)!HeldInvites(r)
        /\ invite' = [invite EXCEPT ![i].status = "revoked"]
        /\ UNCHANGED <<user, tenant, plain, member, outbox, tenancyReq>>
    BY DEF TenancyOf!Revoke, TenancyOf!Existing, TenancyOf!companies
  <1>3. ASSUME NEW j \in DOMAIN invite
        PROVE  /\ invite'[j] \in TenancyOf(p)!Invite
               /\ invite'[j].t = invite[j].t /\ invite'[j].e = invite[j].e
               /\ invite'[j].role = invite[j].role /\ invite'[j].saw = invite[j].saw
               /\ IF j = i THEN invite'[j].status = "revoked"
                           ELSE invite'[j].status = invite[j].status
    BY <1>1, <1>2, <1>3 DEF TenancyOf!Invite
  <1>4. DOMAIN invite' = DOMAIN invite
    BY <1>2
  <1> QED
    BY <1>2, <1>3, <1>4, RevocationKeeps

\* An invitation that expires keeps its status.
LEMMA ExpireKeeps ==
  ASSUME NEW p \in TenancyParts, TenancyInv(p), NEW i \in TenancyOf(p)!Ids, TenancyOf(p)!Expire(i)
  PROVE  TenancyInv(p)' /\ TenancyOf(p)!SettledIsFinal
  <1>1. \A j \in DOMAIN invite : invite[j] \in TenancyOf(p)!Invite
    BY DEF TenancyInv, TenancyOf!TypeOK, TenancyOf!Existing
  <1>2. /\ i \in DOMAIN invite /\ invite' = [invite EXCEPT ![i].live = FALSE]
        /\ UNCHANGED <<user, tenant, plain, member, outbox, tenancyReq>>
    BY DEF TenancyOf!Expire, TenancyOf!Existing, TenancyOf!companies
  <1>3. ASSUME NEW j \in DOMAIN invite
        PROVE  /\ invite'[j] \in TenancyOf(p)!Invite
               /\ invite'[j].t = invite[j].t /\ invite'[j].e = invite[j].e
               /\ invite'[j].role = invite[j].role /\ invite'[j].saw = invite[j].saw
               /\ invite'[j].status = invite[j].status
    BY <1>1, <1>2, <1>3 DEF TenancyOf!Invite
  <1>4. DOMAIN invite' = DOMAIN invite
    BY <1>2
  <1> QED
    BY <1>2, <1>3, <1>4, RevocationKeeps

\* An acceptance uses an invitation that is still pending, and only for a person
\* who is not a member.
LEMMA AcceptCommitKeeps ==
  ASSUME NEW p \in TenancyParts, TenancyInv(p), NEW r \in Requests,
         TenancyOf(p)!AcceptCommit(r), TenancyOf(p)!Joinable(tenancyReq[r].i)
  PROVE  TenancyInv(p)' /\ TenancyOf(p)!SettledIsFinal
  <1> DEFINE i == tenancyReq[r].i
             t == invite[i].t
             e == invite[i].e
  <1>1. /\ tenancyReq[r].op = "accept" /\ tenancyReq[r].at = "commit"
        /\ tenancyReq' = [tenancyReq EXCEPT ![r] = TenancyOf(p)!Idle]
        /\ user' = [user EXCEPT ![e] = "verified"]
        /\ member' = [member EXCEPT ![t][e] = invite[i].role]
        /\ invite' = [invite EXCEPT ![i].status = "accepted"]
        /\ UNCHANGED <<tenant, plain, outbox>> /\ member[t][e] = "none"
    BY DEF TenancyOf!AcceptCommit, TenancyOf!Goto, TenancyOf!companies, TenancyOf!Joinable
  <1>2. /\ TenancyOf(p)!HeldInvites(r) = {i} /\ TenancyOf(p)!HeldUsers(r) = {e}
        /\ i \in DOMAIN invite /\ invite[i].status = "pending"
    BY <1>1 DEF TenancyInv, RequestFits, TenancyOf!HeldInvites, TenancyOf!HeldUsers
  <1>3. \A j \in DOMAIN invite : invite[j] \in TenancyOf(p)!Invite
    BY DEF TenancyInv, TenancyOf!TypeOK, TenancyOf!Existing
  <1>4. /\ t \in Founded[p] /\ e \in Emails /\ invite[i].role \in TenancyOf(p)!Invited
        /\ t \in tenant
    BY <1>2, <1>3 DEF TenancyInv, InvitationsPoint, TenancyOf!Invite
  <1> HIDE DEF i, t, e
  <1>5. ASSUME NEW j \in DOMAIN invite
        PROVE  /\ invite'[j] \in TenancyOf(p)!Invite
               /\ invite'[j].t = invite[j].t /\ invite'[j].e = invite[j].e
               /\ invite'[j].role = invite[j].role /\ invite'[j].saw = invite[j].saw
               /\ IF j = i THEN invite'[j].status = "accepted"
                           ELSE invite'[j].status = invite[j].status
    BY <1>1, <1>2, <1>3, <1>5 DEF TenancyOf!Invite
  <1>6. DOMAIN invite' = DOMAIN invite
    BY <1>1
  <1>7. /\ \A u \in Founded[p], a \in Emails :
             member'[u][a] = IF u = t /\ a = e THEN invite[i].role ELSE member[u][a]
        /\ \A a \in Emails : user'[a] = IF a = e THEN "verified" ELSE user[a]
    BY <1>1, <1>4 DEF TenancyInv, TenancyOf!TypeOK
  <1>8. /\ tenancyReq'[r] = TenancyOf(p)!Idle
        /\ \A q \in Requests \ {r} : tenancyReq'[q] = tenancyReq[q]
        /\ tenancyReq' \in [Requests -> TenancyOf(p)!Request]
    <2>1. TenancyOf(p)!Idle \in TenancyOf(p)!Request
      BY DEF TenancyOf!Request
    <2> QED
      BY <1>1, <2>1 DEF TenancyInv, TenancyOf!TypeOK
  <1>9. TenancyOf(p)!TypeOK'
    <2>1. user' \in [Emails -> {"none", "unverified", "verified"}]
      BY <1>1 DEF TenancyInv, TenancyOf!TypeOK
    <2>2. member' \in [Founded[p] -> [Emails -> TenancyOf(p)!Roles \cup {"none"}]]
      BY <1>1, <1>4 DEF TenancyInv, TenancyOf!TypeOK, TenancyOf!Roles, TenancyOf!Invited
    <2> QED
      BY <1>1, <1>5, <1>6, <1>8, <2>1, <2>2 DEF TenancyInv, TenancyOf!TypeOK, TenancyOf!Existing
  <1>10. InvitationsPoint'
    BY <1>1, <1>5, <1>6 DEF TenancyInv, InvitationsPoint
  <1>11. CompaniesWhole(p)'
    <2>1. \A u \in tenant : u \in Founded[p] /\ Founders[p][u] \in Emails
      BY TenancyConstants DEF TenancyInv, TenancyOf!TypeOK
    <2>2. \A u \in tenant : ~(u = t /\ Founders[p][u] = e)
      BY <1>1, <1>4 DEF TenancyInv, CompaniesWhole, t, e
    <2> QED
      BY <1>1, <1>4, <1>7, <2>1, <2>2 DEF TenancyInv, CompaniesWhole
  <1>12. \A u, a : \A j \in DOMAIN invite :
           Used(u, a, j)' <=> Used(u, a, j) \/ (j = i /\ u = t /\ a = e)
    BY <1>2, <1>5, <1>6 DEF Used, t, e
  <1>13. \A j \in DOMAIN invite : ~Used(t, e, j)
    BY <1>1, <1>4 DEF TenancyInv, MemberOnce, TenancyOf!Invited, t, e
  <1>14. MemberOnce(p)'
    <2>1. ASSUME NEW u \in Founded[p], NEW a \in Emails, u # t \/ a # e
          PROVE  /\ member'[u][a] = member[u][a]
                 /\ \A j \in DOMAIN invite : Used(u, a, j)' <=> Used(u, a, j)
      BY <1>7, <1>12, <2>1
    <2>2. /\ member'[t][e] = invite'[i].role /\ member'[t][e] \in TenancyOf(p)!Invited
      <3>1. member'[t][e] = invite[i].role
        BY <1>4, <1>7
      <3>2. invite'[i].role = invite[i].role
        BY <1>2, <1>5
      <3> QED
        BY <1>4, <3>1, <3>2
    <2>4. ASSUME NEW u, NEW a, u = t, a = e
          PROVE  \A j \in DOMAIN invite : Used(u, a, j)' <=> j = i
      <3>1. \A j \in DOMAIN invite : ~Used(u, a, j)
        BY <1>13, <2>4
      <3> QED
        BY <1>12, <2>4, <3>1
    <2>3. \A j \in DOMAIN invite : invite'[j].role = invite[j].role
      BY <1>5
    <2>5. ASSUME NEW u \in Founded[p], NEW a \in Emails
          PROVE  \/ /\ member'[u][a] \in TenancyOf(p)!Invited
                    /\ \E k \in DOMAIN invite' :
                         /\ Used(u, a, k)' /\ invite'[k].role = member'[u][a]
                         /\ \A j \in DOMAIN invite' : Used(u, a, j)' => j = k
                 \/ /\ member'[u][a] \notin TenancyOf(p)!Invited
                    /\ \A j \in DOMAIN invite' : ~Used(u, a, j)'
      <3>1. CASE u = t /\ a = e
        <4>1. PICK k : k = i
          OBVIOUS
        <4>2. \A j \in DOMAIN invite : Used(u, a, j)' <=> j = k
          BY <2>4, <3>1, <4>1
        <4>3. k \in DOMAIN invite /\ invite'[k].role = member'[u][a]
          BY <1>2, <2>2, <3>1, <4>1
        <4> QED
          BY <1>6, <2>2, <3>1, <4>2, <4>3
      <3>2. CASE u # t \/ a # e
        <4>1. \/ /\ member[u][a] \in TenancyOf(p)!Invited
                 /\ \E k \in DOMAIN invite :
                      /\ Used(u, a, k) /\ invite[k].role = member[u][a]
                      /\ \A j \in DOMAIN invite : Used(u, a, j) => j = k
              \/ /\ member[u][a] \notin TenancyOf(p)!Invited
                 /\ \A j \in DOMAIN invite : ~Used(u, a, j)
          BY DEF TenancyInv, MemberOnce
        <4> QED
          BY <1>6, <2>1, <2>3, <3>2, <4>1
      <3> QED
        BY <3>1, <3>2
    <2> QED
      BY <2>5 DEF MemberOnce
  <1>15. TenancyOf(p)!OpenTogetherOverlapped'
    BY <1>5, <1>6 DEF TenancyInv, TenancyOf!OpenTogetherOverlapped, TenancyOf!Existing
  <1>16. ASSUME NEW q \in Requests
         PROVE  RequestFits(p, q)'
    <2>1. CASE q = r
      BY <1>8, <2>1, IdleFits
    <2>2. CASE q # r
      <3>1. tenancyReq'[q] = tenancyReq[q] /\ Apart(p, r, q) /\ RequestFits(p, q)
        BY <1>8, <2>2 DEF TenancyInv
      <3>2. \A j \in TenancyOf(p)!HeldInvites(q) : j \in DOMAIN invite /\ j # i
        <4>1. \A j \in TenancyOf(p)!HeldInvites(q) : j \in DOMAIN invite
          BY <3>1 DEF RequestFits, TenancyOf!HeldInvites
        <4> QED
          BY <1>2, <3>1, <4>1 DEF Apart
      <3>3. \A j \in TenancyOf(p)!HeldInvites(q) : invite'[j].status = invite[j].status
        BY <1>5, <3>2
      <3>4. \A j \in DOMAIN invite :
              /\ invite'[j].t = invite[j].t /\ invite'[j].e = invite[j].e
              /\ invite'[j].status = "pending" => invite[j].status = "pending"
        BY <1>2, <1>5
      <3>5. ASSUME tenancyReq[q].op = "register", tenancyReq[q].at = "commit"
            PROVE  user'[Founders[p][tenancyReq[q].t]] = user[Founders[p][tenancyReq[q].t]]
        <4>1. Founders[p][tenancyReq[q].t] # e
          BY <1>2, <3>1, <3>5 DEF Apart, TenancyOf!HeldUsers
        <4>2. Founders[p][tenancyReq[q].t] \in Emails
          BY <3>5, TenancyConstants
             DEF TenancyInv, TenancyOf!TypeOK, TenancyOf!Request, TenancyOf!Idle
        <4> QED
          BY <1>7, <4>1, <4>2
      <3> QED
        BY <1>1, <1>6, <3>1, <3>3, <3>4, <3>5, FitsStays DEF RequestFits
    <2> QED
      BY <2>1, <2>2
  <1>17. \A q, o \in Requests : q # o => Apart(p, q, o)'
    <2>1. \A q \in Requests : tenancyReq'[q] = tenancyReq[q] \/ tenancyReq'[q] = TenancyOf(p)!Idle
      BY <1>8
    <2>2. \A j \in DOMAIN invite : invite'[j].e = invite[j].e
      BY <1>5
    <2> QED
      BY <2>1, <2>2, ApartStays
  <1>18. TenancyOf(p)!SettledIsFinal
    BY <1>2, <1>5 DEF TenancyOf!SettledIsFinal, TenancyOf!Existing
  <1> QED
    BY <1>9, <1>10, <1>11, <1>14, <1>15, <1>16, <1>17, <1>18 DEF TenancyInv

\* No company, user, invitation or request exists at first.
LEMMA TenancyInit ==
  ASSUME NEW p \in TenancyParts, TenancyOf(p)!Init
  PROVE  TenancyInv(p)
  <1>1. \A r \in Requests : tenancyReq[r] = TenancyOf(p)!Idle
    BY DEF TenancyOf!Init
  <1>2. tenancyReq \in [Requests -> TenancyOf(p)!Request]
    BY DEF TenancyOf!Init, TenancyOf!Request
  <1>3. DOMAIN invite = {} /\ DOMAIN invite = 1 .. 0
    BY DEF TenancyOf!Init
  <1>4. TenancyOf(p)!TypeOK
    BY <1>2, <1>3 DEF TenancyOf!Init, TenancyOf!TypeOK, TenancyOf!Existing
  <1>5. InvitationsPoint
    <2>1. PICK k \in Nat : k = 0
      OBVIOUS
    <2> QED
      BY <1>3, <2>1 DEF InvitationsPoint
  <1>6. CompaniesWhole(p)
    BY DEF TenancyOf!Init, CompaniesWhole
  <1>7. MemberOnce(p)
    BY <1>3 DEF TenancyOf!Init, MemberOnce, TenancyOf!Invited
  <1>8. TenancyOf(p)!OpenTogetherOverlapped
    BY <1>3 DEF TenancyOf!OpenTogetherOverlapped, TenancyOf!Existing
  <1>9. \A r \in Requests : RequestFits(p, r)
    BY <1>1 DEF RequestFits, TenancyOf!Idle, TenancyOf!HeldInvites
  <1>10. \A r, q \in Requests : Apart(p, r, q)
    BY <1>1 DEF Apart, HoldsSlug, TenancyOf!Idle, TenancyOf!HeldInvites, TenancyOf!HeldUsers
  <1> QED
    BY <1>4, <1>5, <1>6, <1>7, <1>8, <1>9, <1>10 DEF TenancyInv

\* Every step of Tenancy keeps the invariant and what is settled.
LEMMA TenancyNext ==
  ASSUME NEW p \in TenancyParts, TenancyInv(p), TenancyOf(p)!Next
  PROVE  TenancyInv(p)' /\ TenancyOf(p)!SettledIsFinal
  <1>1. (invite' = invite) => TenancyOf(p)!SettledIsFinal
    BY DEF TenancyOf!SettledIsFinal
  <1>2. ASSUME NEW r \in Requests, NEW t \in Founded[p], TenancyOf(p)!RegisterBegin(r, t)
        PROVE  TenancyInv(p)' /\ TenancyOf(p)!SettledIsFinal
    BY <1>1, <1>2, RegisterBeginKeeps DEF TenancyOf!RegisterBegin, TenancyOf!store
  <1>3. ASSUME NEW r \in Requests, NEW t \in tenant, NEW e \in Emails,
               NEW role \in TenancyOf(p)!Invited, TenancyOf(p)!InviteBegin(r, t, e, role)
        PROVE  TenancyInv(p)' /\ TenancyOf(p)!SettledIsFinal
    BY <1>1, <1>3, InviteBeginKeeps DEF TenancyOf!InviteBegin, TenancyOf!store
  <1>4. ASSUME NEW r \in Requests, TenancyOf(p)!RegisterInsert(r) \/ TenancyOf(p)!RegisterCommit(r)
        PROVE  TenancyInv(p)' /\ TenancyOf(p)!SettledIsFinal
    BY <1>1, <1>4, RegisterInsertKeeps, RegisterCommitKeeps
       DEF TenancyOf!RegisterInsert, TenancyOf!RegisterCommit
  <1>5. ASSUME NEW r \in Requests, TenancyOf(p)!InviteLock(r) \/ TenancyOf(p)!InviteCommit(r)
        PROVE  TenancyInv(p)' /\ TenancyOf(p)!SettledIsFinal
    <2>1. CASE TenancyOf(p)!InviteLock(r)
      BY <1>1, <2>1, InviteLockKeeps DEF TenancyOf!InviteLock, TenancyOf!store
    <2> QED
      BY <1>5, <2>1, InviteCommitKeeps
  <1>6. ASSUME NEW r \in Requests, NEW i \in TenancyOf(p)!Ids, TenancyOf(p)!AcceptBegin(r, i)
        PROVE  TenancyInv(p)' /\ TenancyOf(p)!SettledIsFinal
    BY <1>1, <1>6, AcceptBeginKeeps DEF TenancyOf!AcceptBegin, TenancyOf!store
  <1>7. ASSUME NEW r \in Requests, TenancyOf(p)!AcceptUser(r) \/ TenancyOf(p)!AcceptInsert(r)
        PROVE  TenancyInv(p)' /\ TenancyOf(p)!SettledIsFinal
    BY <1>1, <1>7, AcceptUserKeeps, AcceptInsertKeeps
       DEF TenancyOf!AcceptUser, TenancyOf!AcceptInsert, TenancyOf!store
  <1>8. ASSUME NEW r \in Requests, TenancyOf(p)!AcceptCommit(r)
        PROVE  TenancyInv(p)' /\ TenancyOf(p)!SettledIsFinal
    <2>1. CASE TenancyOf(p)!Joinable(tenancyReq[r].i)
      BY <1>8, <2>1, AcceptCommitKeeps
    <2>2. CASE ~TenancyOf(p)!Joinable(tenancyReq[r].i)
      BY <1>1, <1>8, <2>2, RequestEnds
         DEF TenancyOf!AcceptCommit, TenancyOf!store, TenancyOf!companies
    <2> QED
      BY <2>1, <2>2
  <1>9. ASSUME NEW r \in Requests, TenancyOf(p)!Rollback(r)
        PROVE  TenancyInv(p)' /\ TenancyOf(p)!SettledIsFinal
    BY <1>1, <1>9, RequestEnds DEF TenancyOf!Rollback, TenancyOf!store
  <1>10. ASSUME NEW t \in Founded[p], TenancyOf(p)!VerifyEmail(t)
         PROVE  TenancyInv(p)' /\ TenancyOf(p)!SettledIsFinal
    BY <1>1, <1>10, VerifyEmailKeeps DEF TenancyOf!VerifyEmail
  <1>11. ASSUME NEW i \in TenancyOf(p)!Ids, TenancyOf(p)!Revoke(i) \/ TenancyOf(p)!Expire(i)
         PROVE  TenancyInv(p)' /\ TenancyOf(p)!SettledIsFinal
    BY <1>11, RevokeKeeps, ExpireKeeps
  <1> QED
    BY <1>2, <1>3, <1>4, <1>5, <1>6, <1>7, <1>8, <1>9, <1>10, <1>11 DEF TenancyOf!Next

\* Every part keeps its invariant under the steps of MCCompany.
LEMMA TenancyStep ==
  ASSUME NEW p \in TenancyParts, part = p => TenancyInv(p), [Next]_vars
  PROVE  (part = p => TenancyInv(p))'
  <1>0. part' = part
    BY DEF Next, vars
  <1> SUFFICES ASSUME part = p
               PROVE  TenancyInv(p)'
    BY <1>0
  <1>1. CASE UNCHANGED tenancyVars
    <2>1. UNCHANGED <<user, tenant, plain, member, outbox, invite, tenancyReq>>
      BY <1>1 DEF tenancyVars
    <2>2. TenancyOf(p)!TypeOK' /\ TenancyOf(p)!OpenTogetherOverlapped'
      BY <2>1 DEF TenancyInv, TenancyOf!TypeOK, TenancyOf!OpenTogetherOverlapped,
                  TenancyOf!Existing
    <2>3. InvitationsPoint' /\ CompaniesWhole(p)' /\ MemberOnce(p)'
      BY <2>1 DEF TenancyInv, InvitationsPoint, CompaniesWhole, MemberOnce, Used
    <2>4. \A r \in Requests : RequestFits(p, r)'
      BY <2>1 DEF TenancyInv, RequestFits, TenancyOf!HeldInvites
    <2>5. \A r, q \in Requests : r # q => Apart(p, r, q)'
      BY <2>1, ApartStays
    <2> QED
      BY <2>2, <2>3, <2>4, <2>5 DEF TenancyInv
  <1>2. CASE TenancyOf(p)!Next
    BY <1>2, TenancyNext
  <1> QED
    BY <1>1, <1>2 DEF Next, vars, TenancyParts

\* The invariant gives the properties of the run.
LEMMA TenancyIsSafe ==
  ASSUME NEW p \in TenancyParts, TenancyInv(p)
  PROVE  /\ TenancyOf(p)!TypeOK /\ TenancyOf(p)!NoPartialCompany
         /\ TenancyOf(p)!MemberByOneInvitation /\ TenancyOf(p)!OpenTogetherOverlapped
  <1>1. TenancyOf(p)!Cardinality(plain) <= 1
    <2>1. Cardinality(plain) <= 1
      <3>1. CASE plain = {}
        BY <3>1, FS_EmptySet
      <3>2. CASE plain # {}
        <4>1. PICK a : a \in plain
          BY <3>2
        <4>2. plain = {a}
          BY <4>1 DEF TenancyInv, CompaniesWhole
        <4> QED
          BY <4>2, FS_Singleton
      <3> QED
        BY <3>1, <3>2
    <2> QED
      BY <2>1 DEF TenancyOf!Cardinality, Cardinality
  <1>2. TenancyOf(p)!NoPartialCompany
    BY <1>1 DEF TenancyInv, CompaniesWhole, TenancyOf!NoPartialCompany
  <1>3. TenancyOf(p)!MemberByOneInvitation
    <2>1. ASSUME NEW t \in Founded[p], NEW e \in Emails
          PROVE  LET used == {i \in DOMAIN invite : /\ invite[i].t = t /\ invite[i].e = e
                                                    /\ invite[i].status = "accepted"}
                 IN  IF member[t][e] \in TenancyOf(p)!Invited
                     THEN \E i \in used : used = {i} /\ invite[i].role = member[t][e]
                     ELSE used = {}
      <3> DEFINE used == {i \in DOMAIN invite : /\ invite[i].t = t /\ invite[i].e = e
                                                /\ invite[i].status = "accepted"}
      <3>1. \A i : i \in used <=> Used(t, e, i)
        BY DEF Used
      <3> HIDE DEF used
      <3>2. CASE member[t][e] \in TenancyOf(p)!Invited
        <4>1. PICK i \in DOMAIN invite : /\ Used(t, e, i) /\ invite[i].role = member[t][e]
                                         /\ \A j \in DOMAIN invite : Used(t, e, j) => j = i
          BY <3>2 DEF TenancyInv, MemberOnce
        <4>2. used = {i}
          BY <3>1, <4>1 DEF Used
        <4>3. \E j \in used : used = {j} /\ invite[j].role = member[t][e]
          BY <4>1, <4>2
        <4> QED
          BY <3>2, <4>3 DEF used
      <3>3. CASE member[t][e] \notin TenancyOf(p)!Invited
        <4>1. used = {}
          BY <3>1, <3>3 DEF TenancyInv, MemberOnce, Used
        <4> QED
          BY <3>3, <4>1 DEF used
      <3> QED
        BY <3>2, <3>3
    <2> QED
      BY <2>1 DEF TenancyOf!MemberByOneInvitation, TenancyOf!Existing
  <1> QED
    BY <1>2, <1>3 DEF TenancyInv

\* The tenancy invariant, for the part that runs.
TenancyAlways == \A p \in TenancyParts : part = p => TenancyInv(p)

\* auth.py, invitations.py: a registration leaves a company whole or not at all, an
\* invited member holds the role of exactly one accepted invitation, two open
\* invitations of one person come from requests that overlapped, and a settled
\* invitation stays so.
THEOREM TenanciesAreSafe == Spec => TenancySafety
  <1>1. Init => TenancyAlways
    <2> SUFFICES ASSUME Init, NEW p \in TenancyParts, part = p
                 PROVE  TenancyInv(p)
      BY DEF TenancyAlways
    <2> QED
      BY TenancyInit DEF Init, TenancyParts
  <1>2. TenancyAlways /\ [Next]_vars => TenancyAlways'
    BY TenancyStep DEF TenancyAlways
  <1>3. TenancyAlways =>
          \A p \in {"invite", "register"} :
            part = p => /\ TenancyOf(p)!TypeOK /\ TenancyOf(p)!NoPartialCompany
                        /\ TenancyOf(p)!MemberByOneInvitation
                        /\ TenancyOf(p)!OpenTogetherOverlapped
    BY TenancyIsSafe DEF TenancyAlways, TenancyParts
  <1>4. TenancyAlways /\ [Next]_vars => [TenancyOf("invite")!SettledIsFinal]_vars
    <2>1. CASE UNCHANGED tenancyVars
      BY <2>1 DEF tenancyVars, TenancyOf!SettledIsFinal
    <2>2. ASSUME TenancyAlways, NEW p \in TenancyParts, part = p, TenancyOf(p)!Next
          PROVE  TenancyOf("invite")!SettledIsFinal
      <3>1. TenancyOf(p)!SettledIsFinal
        BY <2>2, TenancyNext DEF TenancyAlways
      <3> QED
        BY <3>1 DEF TenancyOf!SettledIsFinal, TenancyOf!Existing
    <2> QED
      BY <2>1, <2>2 DEF Next, vars, TenancyParts
  <1> QED
    BY <1>1, <1>2, <1>3, <1>4, PTL DEF Spec, TenancySafety

-----------------------------------------------------------------------------
(* Signing in and the second factor.                                       *)

\* The two instances of SecondFactor.
FactorParts == {"factor", "choice"}

\* A usable code is unspent, and so are those of a secret that is not drawn yet or
\* that is not confirmed yet.
CodesUnspent(p) ==
  /\ FactorOf(p)!RecoveryCodeOnce
  /\ \A c \in codes : spent[c] = 0
  /\ \A c \in FactorOf(p)!Codes :
       (c[1] > drawn \/ (~mfa_enabled /\ c[1] = secret)) => spent[c] = 0

\* A token with which to choose a company comes from a factor or from a time
\* without MFA, a token that asks for the factor from a time with MFA.
TokensTell ==
  \A c \in challenge : IF c.purpose = "tenant_selection" THEN c.factor \/ c.off ELSE ~c.off

\* The inductive invariant of SecondFactor.
FactorInv(p) ==
  /\ FactorOf(p)!TypeOK /\ FactorOf(p)!FactorIsProved
  /\ CodesUnspent(p) /\ TokensTell
  /\ FactorOf(p)!FactorlessWasOff /\ FactorOf(p)!SessionsPostdateReset

\* A user starts without MFA, codes, tokens and sessions.
LEMMA FactorInit ==
  ASSUME NEW p \in FactorParts, FactorOf(p)!Init
  PROVE  FactorInv(p)
  <1>1. FactorOf(p)!FactorAssumption
    BY CompanyAssumption DEF FactorParts
  <1>2. 1 \in 1 .. MaxPasswords /\ 0 \in 0 .. Secrets[p]
    BY <1>1 DEF FactorOf!FactorAssumption
  <1>3. spent \in [FactorOf(p)!Codes -> Nat] /\ \A c \in FactorOf(p)!Codes : spent[c] = 0
    BY DEF FactorOf!Init
  <1>a. /\ password \in 1 .. MaxPasswords /\ secret \in 0 .. drawn
        /\ drawn \in 0 .. Secrets[p] /\ proved \in 0 .. drawn
    BY <1>2 DEF FactorOf!Init
  <1>b. mfa_enabled \in BOOLEAN
    BY DEF FactorOf!Init
  <1>c. factorReq \in [Requests -> FactorOf(p)!Request]
    BY DEF FactorOf!Init, FactorOf!Request
  <1>4. FactorOf(p)!TypeOK
    BY <1>a, <1>b, <1>c, <1>3 DEF FactorOf!Init, FactorOf!TypeOK
  <1> QED
    BY <1>3, <1>4
       DEF FactorInv, CodesUnspent, TokensTell, FactorOf!Init, FactorOf!FactorIsProved,
           FactorOf!RecoveryCodeOnce, FactorOf!FactorlessWasOff, FactorOf!SessionsPostdateReset

\* The read of a sign-in changes no row.
LEMMA LoginReadKeeps ==
  ASSUME NEW p \in FactorParts, NEW r \in Requests, FactorInv(p), FactorOf(p)!LoginRead(r)
  PROVE  FactorInv(p)'
  <1>1. FactorOf(p)!TypeOK'
    BY DEF FactorInv, FactorOf!TypeOK, FactorOf!LoginRead, FactorOf!factorState,
           FactorOf!Request
  <1> QED
    BY <1>1 DEF FactorInv, CodesUnspent, TokensTell, FactorOf!LoginRead, FactorOf!factorState,
        FactorOf!FactorIsProved, FactorOf!RecoveryCodeOnce, FactorOf!FactorlessWasOff,
        FactorOf!SessionsPostdateReset

\* A session or a token of choice that Enter gives out tells where it comes from.
LEMMA EnterTells ==
  ASSUME NEW p \in FactorParts, FactorInv(p),
         NEW pw \in 1 .. MaxPasswords, NEW off \in BOOLEAN, NEW factor \in BOOLEAN,
         off \/ factor, FactorOf(p)!Enter(pw, off, factor), password' = password
  PROVE  /\ challenge' \subseteq FactorOf(p)!Challenge /\ sess' \subseteq FactorOf(p)!Session
         /\ TokensTell'
         /\ FactorOf(p)!FactorlessWasOff' /\ FactorOf(p)!SessionsPostdateReset'
  <1> DEFINE s == [pw |-> pw, off |-> off, factor |-> factor, at |-> password]
             c == [purpose |-> "tenant_selection", pw |-> pw, off |-> off, factor |-> factor]
  <1>1. s \in FactorOf(p)!Session /\ (s.factor \/ s.off) /\ s.at = password
    BY DEF FactorInv, FactorOf!TypeOK, FactorOf!Session
  <1>2. c \in FactorOf(p)!Challenge /\ c.purpose = "tenant_selection" /\ (c.factor \/ c.off)
    BY DEF FactorOf!Challenge
  <1>3. \/ sess' = sess \cup {s} /\ challenge' = challenge
        \/ challenge' = challenge \cup {c} /\ sess' = sess
    BY DEF FactorOf!Enter, FactorOf!NewSession
  <1> HIDE DEF s, c
  <1>4. challenge' \subseteq FactorOf(p)!Challenge /\ sess' \subseteq FactorOf(p)!Session
    BY <1>1, <1>2, <1>3 DEF FactorInv, FactorOf!TypeOK
  <1>5. TokensTell'
    BY <1>2, <1>3 DEF FactorInv, TokensTell
  <1>6. FactorOf(p)!FactorlessWasOff'
    BY <1>1, <1>3 DEF FactorInv, FactorOf!FactorlessWasOff
  <1>7. FactorOf(p)!SessionsPostdateReset'
    BY <1>1, <1>3 DEF FactorInv, FactorOf!SessionsPostdateReset
  <1> QED
    BY <1>4, <1>5, <1>6, <1>7

\* A sign-in ends with a session, a token of choice or a token for the factor.
LEMMA LoginFinishKeeps ==
  ASSUME NEW p \in FactorParts, NEW r \in Requests, FactorInv(p), FactorOf(p)!LoginFinish(r)
  PROVE  FactorInv(p)'
  <1>1. /\ factorReq[r].pw \in 1 .. MaxPasswords /\ factorReq[r].off \in BOOLEAN
        /\ factorReq' \in [Requests -> FactorOf(p)!Request]
    BY DEF FactorInv, FactorOf!TypeOK, FactorOf!LoginFinish, FactorOf!Request, FactorOf!Idle
  <1>2. /\ UNCHANGED <<password, mfa_enabled, secret, drawn, codes, proved, spent>>
        /\ FactorOf(p)!LoginAnswer(r)
    BY DEF FactorOf!LoginFinish, FactorOf!factorState
  <1>3. /\ challenge' \subseteq FactorOf(p)!Challenge /\ sess' \subseteq FactorOf(p)!Session
        /\ TokensTell'
        /\ FactorOf(p)!FactorlessWasOff' /\ FactorOf(p)!SessionsPostdateReset'
    <2>1. CASE factorReq[r].off = TRUE
      BY <2>1, <1>1, <1>2, EnterTells DEF FactorOf!LoginAnswer
    <2>2. CASE factorReq[r].off = FALSE
      <3> DEFINE c == [purpose |-> "mfa_challenge",
                          pw |-> factorReq[r].pw, off |-> FALSE, factor |-> FALSE]
      <3>1. c \in FactorOf(p)!Challenge /\ c.purpose = "mfa_challenge" /\ ~c.off
        BY <1>1 DEF FactorOf!Challenge
      <3>2. challenge' = challenge \cup {c} /\ sess' = sess
        BY <2>2, <1>2 DEF FactorOf!LoginAnswer
      <3> HIDE DEF c
      <3>3. challenge' \subseteq FactorOf(p)!Challenge /\ sess' \subseteq FactorOf(p)!Session
        BY <3>1, <3>2 DEF FactorInv, FactorOf!TypeOK
      <3>4. TokensTell'
        BY <3>1, <3>2 DEF FactorInv, TokensTell
      <3> QED
        BY <3>2, <3>3, <3>4, <1>2 DEF FactorInv, FactorOf!FactorlessWasOff,
               FactorOf!SessionsPostdateReset
    <2> QED
      BY <2>1, <2>2, <1>1
  <1>4. FactorOf(p)!TypeOK'
    BY <1>1, <1>2, <1>3 DEF FactorInv, FactorOf!TypeOK
  <1>5. FactorOf(p)!FactorIsProved' /\ CodesUnspent(p)'
    BY <1>2 DEF FactorInv, FactorOf!FactorIsProved, CodesUnspent, FactorOf!RecoveryCodeOnce
  <1> QED
    BY <1>3, <1>4, <1>5 DEF FactorInv

\* A choice of company hands on what the token says.
LEMMA SelectTenantKeeps ==
  ASSUME NEW p \in FactorParts, NEW c, c \in challenge, FactorInv(p), FactorOf(p)!SelectTenant(c)
  PROVE  FactorInv(p)'
  <1> DEFINE s == [pw |-> c.pw, off |-> c.off, factor |-> c.factor, at |-> password]
  <1>1. c \in FactorOf(p)!Challenge /\ (c.factor \/ c.off)
    BY DEF FactorInv, FactorOf!TypeOK, TokensTell, FactorOf!SelectTenant
  <1>2. s \in FactorOf(p)!Session /\ (s.factor \/ s.off) /\ s.at = password
    BY <1>1 DEF FactorInv, FactorOf!TypeOK, FactorOf!Challenge, FactorOf!Session
  <1>3. /\ sess' = sess \cup {s}
        /\ UNCHANGED <<password, challenge, factorReq, mfa_enabled, secret, drawn, codes,
                       proved, spent>>
    BY DEF FactorOf!SelectTenant, FactorOf!NewSession, FactorOf!factorState
  <1> HIDE DEF s
  <1>4. FactorOf(p)!TypeOK'
    BY <1>2, <1>3 DEF FactorInv, FactorOf!TypeOK
  <1>5. FactorOf(p)!FactorlessWasOff' /\ FactorOf(p)!SessionsPostdateReset'
    BY <1>2, <1>3 DEF FactorInv, FactorOf!FactorlessWasOff, FactorOf!SessionsPostdateReset
  <1>6. FactorOf(p)!FactorIsProved' /\ CodesUnspent(p)' /\ TokensTell'
    BY <1>3 DEF FactorInv, FactorOf!FactorIsProved, CodesUnspent, FactorOf!RecoveryCodeOnce,
           TokensTell
  <1> QED
    BY <1>4, <1>5, <1>6 DEF FactorInv

\* A token expires, or a verification begins with it.
LEMMA TokenLeavesKeeps ==
  ASSUME NEW p \in FactorParts, NEW c, c \in challenge, FactorInv(p),
         \/ FactorOf(p)!ChallengeExpires(c)
         \/ \E r \in Requests : FactorOf(p)!VerifyBegin(r, c)
  PROVE  FactorInv(p)'
  <1>1. /\ challenge' \subseteq challenge
        /\ UNCHANGED <<password, sess, mfa_enabled, secret, drawn, codes, proved, spent>>
    BY DEF FactorOf!ChallengeExpires, FactorOf!VerifyBegin, FactorOf!factorState
  <1>2. factorReq' \in [Requests -> FactorOf(p)!Request]
    BY DEF FactorInv, FactorOf!TypeOK, FactorOf!ChallengeExpires, FactorOf!VerifyBegin,
           FactorOf!Request
  <1>3. FactorOf(p)!TypeOK'
    BY <1>1, <1>2 DEF FactorInv, FactorOf!TypeOK
  <1> QED
    BY <1>1, <1>3 DEF FactorInv, CodesUnspent, TokensTell,
        FactorOf!FactorIsProved, FactorOf!RecoveryCodeOnce, FactorOf!FactorlessWasOff,
        FactorOf!SessionsPostdateReset

\* A request ends without an answer.
LEMMA GiveUpKeeps ==
  ASSUME NEW p \in FactorParts, NEW r \in Requests, FactorInv(p), FactorOf(p)!GiveUp(r)
  PROVE  FactorInv(p)'
  <1>1. UNCHANGED <<password, challenge, sess, mfa_enabled, secret, drawn, codes, proved, spent>>
    BY DEF FactorOf!GiveUp, FactorOf!factorState
  <1>2. factorReq' \in [Requests -> FactorOf(p)!Request]
    BY DEF FactorInv, FactorOf!TypeOK, FactorOf!GiveUp, FactorOf!Request
  <1>3. FactorOf(p)!TypeOK'
    BY <1>1, <1>2 DEF FactorInv, FactorOf!TypeOK
  <1> QED
    BY <1>1, <1>3 DEF FactorInv, CodesUnspent, TokensTell,
        FactorOf!FactorIsProved, FactorOf!RecoveryCodeOnce, FactorOf!FactorlessWasOff,
        FactorOf!SessionsPostdateReset

\* The code that a verification spends belongs to the factor in force, so that it
\* is neither of a later secret nor of one to be confirmed.
LEMMA VerifyFinishKeeps ==
  ASSUME NEW p \in FactorParts, NEW r \in Requests, FactorInv(p), FactorOf(p)!VerifyFinish(r)
  PROVE  FactorInv(p)'
  <1>1. /\ factorReq[r].challenge.pw \in 1 .. MaxPasswords /\ factorReq[r].challenge.off \in BOOLEAN
        /\ factorReq' \in [Requests -> FactorOf(p)!Request]
    BY DEF FactorInv, FactorOf!TypeOK, FactorOf!VerifyFinish, FactorOf!Request,
           FactorOf!Idle, FactorOf!Challenge
  <1>2. /\ UNCHANGED <<password, mfa_enabled, secret, drawn, proved>>
        /\ FactorOf(p)!Enter(factorReq[r].challenge.pw, factorReq[r].challenge.off, TRUE)
        /\ FactorOf(p)!CheckFactor
    BY DEF FactorOf!VerifyFinish
  <1>3. /\ challenge' \subseteq FactorOf(p)!Challenge /\ sess' \subseteq FactorOf(p)!Session
        /\ TokensTell'
        /\ FactorOf(p)!FactorlessWasOff' /\ FactorOf(p)!SessionsPostdateReset'
    BY <1>1, <1>2, EnterTells
  <1>4. /\ codes' \subseteq codes /\ spent' \in [FactorOf(p)!Codes -> Nat]
        /\ CodesUnspent(p)'
    <2>1. CASE UNCHANGED <<codes, spent>>
      BY <2>1, <1>2 DEF FactorInv, FactorOf!TypeOK, CodesUnspent, FactorOf!RecoveryCodeOnce
    <2>2. CASE \E c \in FactorOf(p)!Codes : FactorOf(p)!Spend(c)
      <3>1. PICK c \in FactorOf(p)!Codes : FactorOf(p)!Spend(c)
        BY <2>2
      <3>2. c \in codes /\ codes' = codes \ {c} /\ spent' = [spent EXCEPT ![c] = @ + 1]
        BY <3>1 DEF FactorOf!Spend, FactorOf!Usable
      <3>3. /\ spent \in [FactorOf(p)!Codes -> Nat] /\ spent[c] = 0
            /\ mfa_enabled /\ c[1] = secret /\ secret \in 0 .. drawn /\ drawn \in Nat
        BY <3>2 DEF FactorInv, FactorOf!TypeOK, CodesUnspent, FactorOf!FactorIsProved
      <3>4. \A d \in FactorOf(p)!Codes : spent'[d] = IF d = c THEN 1 ELSE spent[d]
        BY <3>2, <3>3
      <3>5. \A d \in codes' : spent'[d] = 0
        BY <3>2, <3>4 DEF FactorInv, FactorOf!TypeOK, CodesUnspent
      <3>6. FactorOf(p)!RecoveryCodeOnce'
        BY <3>4 DEF FactorInv, CodesUnspent, FactorOf!RecoveryCodeOnce
      <3>7. \A d \in FactorOf(p)!Codes :
               (d[1] > drawn' \/ (~mfa_enabled' /\ d[1] = secret')) => spent'[d] = 0
        BY <3>3, <3>4, <1>2 DEF FactorInv, CodesUnspent
      <3> QED
        BY <3>2, <3>3, <3>5, <3>6, <3>7 DEF CodesUnspent
    <2> QED
      BY <2>1, <2>2, <1>2 DEF FactorOf!CheckFactor
  <1>5. FactorOf(p)!TypeOK'
    BY <1>1, <1>2, <1>3, <1>4 DEF FactorInv, FactorOf!TypeOK
  <1>6. FactorOf(p)!FactorIsProved'
    BY <1>2, <1>4 DEF FactorInv, FactorOf!FactorIsProved
  <1> QED
    BY <1>3, <1>4, <1>5, <1>6 DEF FactorInv

\* A new secret has codes that nobody has used.
LEMMA EnrollKeeps ==
  ASSUME NEW p \in FactorParts, FactorInv(p), FactorOf(p)!Enroll
  PROVE  FactorInv(p)'
  <1>1. /\ ~mfa_enabled /\ drawn < Secrets[p]
        /\ drawn' = drawn + 1 /\ secret' = drawn + 1 /\ codes' = {}
        /\ UNCHANGED <<password, mfa_enabled, challenge, sess, factorReq, proved, spent>>
    BY DEF FactorOf!Enroll, FactorOf!Enrollable
  <1>2. drawn \in Nat /\ Secrets[p] \in Nat
    BY CompanyAssumption DEF FactorInv, FactorOf!TypeOK, FactorOf!FactorAssumption, FactorParts
  <1>3. FactorOf(p)!TypeOK'
    BY <1>1, <1>2 DEF FactorInv, FactorOf!TypeOK
  <1>4. \A c \in FactorOf(p)!Codes : c[1] \in Nat
    BY <1>2 DEF FactorOf!Codes
  <1>5. CodesUnspent(p)'
    BY <1>1, <1>2, <1>4 DEF FactorInv, CodesUnspent, FactorOf!RecoveryCodeOnce
  <1> QED
    BY <1>1, <1>3, <1>5 DEF FactorInv, TokensTell,
        FactorOf!FactorIsProved, FactorOf!FactorlessWasOff, FactorOf!SessionsPostdateReset

\* A confirmed secret gets its codes, all of them unspent.
LEMMA ConfirmKeeps ==
  ASSUME NEW p \in FactorParts, FactorInv(p), NEW shown \in Nat, FactorOf(p)!Confirm(shown)
  PROVE  FactorInv(p)'
  <1>1. /\ ~mfa_enabled /\ secret # 0 /\ shown = secret /\ mfa_enabled' = TRUE /\ proved' = secret
        /\ codes' = FactorOf(p)!FreshCodes
        /\ UNCHANGED <<password, secret, drawn, challenge, sess, factorReq, spent>>
    BY DEF FactorOf!Confirm
  <1>2. \A c \in codes' : c \in FactorOf(p)!Codes /\ c[1] = secret
    BY <1>1 DEF FactorOf!FreshCodes, FactorOf!Codes
  <1>3. FactorOf(p)!TypeOK'
    BY <1>1, <1>2 DEF FactorInv, FactorOf!TypeOK
  <1>5. CodesUnspent(p)'
    BY <1>1, <1>2 DEF FactorInv, CodesUnspent, FactorOf!RecoveryCodeOnce
  <1>6. FactorOf(p)!FactorIsProved'
    BY <1>1, <1>2 DEF FactorOf!FactorIsProved
  <1> QED
    BY <1>1, <1>3, <1>5, <1>6 DEF FactorInv, TokensTell,
        FactorOf!FactorlessWasOff, FactorOf!SessionsPostdateReset

\* Turning the factor off takes the codes away, one of them perhaps spent.
LEMMA DisableKeeps ==
  ASSUME NEW p \in FactorParts, FactorInv(p), FactorOf(p)!Disable
  PROVE  FactorInv(p)'
  <1>1. /\ mfa_enabled /\ mfa_enabled' = FALSE /\ secret' = 0 /\ codes' = {}
        /\ UNCHANGED <<password, drawn, challenge, sess, factorReq, proved>>
        /\ \/ UNCHANGED spent
           \/ \E c \in FactorOf(p)!Codes : c \in codes /\ spent' = [spent EXCEPT ![c] = @ + 1]
    BY DEF FactorOf!Disable, FactorOf!Usable, FactorOf!LeftCodes
  <1>2. drawn \in Nat /\ \A c \in FactorOf(p)!Codes : c[1] \in Nat \ {0}
    BY CompanyAssumption DEF FactorInv, FactorOf!TypeOK, FactorOf!FactorAssumption,
           FactorParts, FactorOf!Codes
  <1>3. spent \in [FactorOf(p)!Codes -> Nat] /\ secret \in 0 .. drawn
    BY DEF FactorInv, FactorOf!TypeOK
  <1>4. spent' \in [FactorOf(p)!Codes -> Nat] /\ CodesUnspent(p)'
    <2>1. CASE UNCHANGED spent
      BY <2>1, <1>1, <1>2, <1>3 DEF FactorInv, CodesUnspent, FactorOf!RecoveryCodeOnce
    <2>2. CASE \E c \in FactorOf(p)!Codes : c \in codes /\ spent' = [spent EXCEPT ![c] = @ + 1]
      <3>1. PICK c \in FactorOf(p)!Codes : c \in codes /\ spent' = [spent EXCEPT ![c] = @ + 1]
        BY <2>2
      <3>2. spent[c] = 0 /\ c[1] = secret
        BY <3>1 DEF FactorInv, CodesUnspent, FactorOf!FactorIsProved
      <3>4. \A d \in FactorOf(p)!Codes : spent'[d] = IF d = c THEN 1 ELSE spent[d]
        BY <3>1, <3>2, <1>3
      <3>6. FactorOf(p)!RecoveryCodeOnce'
        BY <3>4 DEF FactorInv, CodesUnspent, FactorOf!RecoveryCodeOnce
      <3>7. \A d \in FactorOf(p)!Codes :
               (d[1] > drawn' \/ (~mfa_enabled' /\ d[1] = secret')) => spent'[d] = 0
        BY <3>2, <3>4, <1>1, <1>2, <1>3 DEF FactorInv, CodesUnspent
      <3> QED
        BY <3>1, <3>6, <3>7, <1>1, <1>3 DEF CodesUnspent
    <2> QED
      BY <2>1, <2>2, <1>1
  <1>5. secret' \in 0 .. drawn' /\ codes' \subseteq FactorOf(p)!Codes
    BY <1>1, <1>2
  <1>6. mfa_enabled' \in BOOLEAN
    BY <1>1
  <1>7. FactorOf(p)!TypeOK'
    BY <1>1, <1>4, <1>5, <1>6 DEF FactorInv, FactorOf!TypeOK
  <1> QED
    BY <1>1, <1>4, <1>7 DEF FactorInv, TokensTell, FactorOf!FactorIsProved,
        FactorOf!FactorlessWasOff, FactorOf!SessionsPostdateReset

\* A reset leaves no session.
LEMMA ResetKeeps ==
  ASSUME NEW p \in FactorParts, FactorInv(p), FactorOf(p)!ResetPassword
  PROVE  FactorInv(p)'
  <1>1. /\ password < MaxPasswords /\ password' = password + 1 /\ sess' = {}
        /\ UNCHANGED <<mfa_enabled, secret, drawn, codes, proved, spent, challenge, factorReq>>
    BY DEF FactorOf!ResetPassword, FactorOf!KeptSessions, FactorOf!factorState
  <1>2. MaxPasswords \in Nat
    BY CompanyAssumption DEF FactorOf!FactorAssumption, FactorParts
  <1>3. FactorOf(p)!TypeOK'
    BY <1>1, <1>2 DEF FactorInv, FactorOf!TypeOK
  <1> QED
    BY <1>1, <1>3 DEF FactorInv, CodesUnspent, TokensTell,
        FactorOf!FactorIsProved, FactorOf!RecoveryCodeOnce, FactorOf!FactorlessWasOff,
        FactorOf!SessionsPostdateReset

\* The part that runs has the invariant.
FactorIInv == \A p \in FactorParts : part = p => FactorInv(p)

\* Every step of either instance keeps it, the steps of the other parts leave it.
LEMMA FactorStep == FactorIInv /\ [Next]_vars => FactorIInv'
  <1> SUFFICES ASSUME FactorIInv, [Next]_vars, NEW p \in FactorParts, part' = p
               PROVE  FactorInv(p)'
    BY DEF FactorIInv
  <1>1. part = p /\ FactorInv(p)
    BY DEF FactorIInv, Next, vars
  <1>2. CASE UNCHANGED factorVars
    BY <1>1, <1>2 DEF FactorInv, CodesUnspent, TokensTell, factorVars, FactorOf!TypeOK,
        FactorOf!FactorIsProved, FactorOf!RecoveryCodeOnce, FactorOf!FactorlessWasOff,
        FactorOf!SessionsPostdateReset
  <1>3. CASE FactorOf(p)!Next
    <2>1. CASE \E r \in Requests :
           \/ FactorOf(p)!LoginRead(r) \/ FactorOf(p)!LoginFinish(r)
           \/ FactorOf(p)!VerifyFinish(r) \/ FactorOf(p)!GiveUp(r)
      BY <2>1, <1>1, LoginReadKeeps, LoginFinishKeeps, VerifyFinishKeeps, GiveUpKeeps
    <2>2. CASE \E r \in Requests : \E c \in challenge : FactorOf(p)!VerifyBegin(r, c)
      BY <2>2, <1>1, TokenLeavesKeeps
    <2>3. CASE \E c \in challenge : FactorOf(p)!SelectTenant(c)
      BY <2>3, <1>1, SelectTenantKeeps
    <2>4. CASE \E c \in challenge : FactorOf(p)!ChallengeExpires(c)
      BY <2>4, <1>1, TokenLeavesKeeps
    <2>5. CASE \E shown \in 1 .. drawn : FactorOf(p)!Confirm(shown)
      BY <2>5, <1>1, ConfirmKeeps
    <2> QED
      BY <2>1, <2>2, <2>3, <2>4, <2>5, <1>1, <1>3, EnrollKeeps, DisableKeeps,
             ResetKeeps DEF FactorOf!Next
  <1> QED
    BY <1>1, <1>2, <1>3 DEF Next, vars, FactorParts

\* /auth/mfa: a recovery code is accepted once, the factor in force is the one that
\* was confirmed, a session without a factor goes back to a time without MFA, and
\* no session is older than the last password reset.
THEOREM FactorIsSafe == Spec => []FactorSafety
  <1>1. Init => FactorIInv
    BY FactorInit DEF Init, FactorIInv, FactorParts
  <1>2. FactorIInv /\ [Next]_vars => FactorIInv'
    BY FactorStep
  <1>3. FactorIInv => FactorSafety
    BY DEF FactorIInv, FactorInv, FactorSafety, FactorParts, CodesUnspent
  <1> QED
    BY <1>1, <1>2, <1>3, PTL DEF Spec

-----------------------------------------------------------------------------
(* Connecting assets.                                                      *)

\* A state is exchanged by the callback that consumed it, a callback acts for the
\* tenant that started it, and has written nothing before Meta has answered.
RoundTrips ==
  /\ \A s \in States : exchanged[s] = 0 \/ (exchanged[s] = 1 /\ oauth[s].used)
  /\ \A r \in Requests :
       cb[r] # Asset!Idle => /\ oauth[cb[r].s].t \in Owners
                             /\ cb[r].at = "remote" => cb[r].new = <<>>

\* Rows have credentials of their own; those of rows that are not committed yet are
\* in the store, and no other row has them.
CredentialsApart ==
  /\ \A i \in DOMAIN row : row[i].ref <= refs
  /\ \A i, j \in DOMAIN row : row[i].ref = row[j].ref => i = j
  /\ \A r \in Requests : \A i \in Asset!HeldRows(r) :
       /\ Asset!New(r)[i].ref \in store /\ Asset!New(r)[i].status = "connected"
       /\ \A j \in DOMAIN row : row[j].ref # Asset!New(r)[i].ref
       /\ \A q \in Requests : \A j \in Asset!HeldRows(q) :
            Asset!New(q)[j].ref = Asset!New(r)[i].ref => q = r /\ j = i

\* No two transactions change one row or have written one index entry.
WritersApart ==
  \A r \in Requests :
    /\ \A i \in Asset!HeldRows(r) :
         i \notin closing /\ \A q \in Requests \ {r} : i \notin Asset!HeldRows(q)
    /\ \A q \in Requests \ {r} : \A i \in Asset!Written(r), j \in Asset!Written(q) :
         Asset!New(r)[i].x = Asset!New(q)[j].x => Asset!New(r)[i].x \in AdAccounts

\* A table connects a messaging asset once.
OneOwner(f) ==
  \A i, j \in DOMAIN f :
    /\ f[i].x = f[j].x /\ f[i].status = "connected" /\ f[j].status = "connected"
    /\ f[i].x \notin AdAccounts
    => i = j

\* The unique index holds for the table and for what each transaction sees of it.
IndexHolds == OneOwner(row) /\ \A r \in Requests : OneOwner(Asset!View(r))

\* The credential of a row that is disconnected, or about to be, is deleted.
CredentialsGone ==
  \A i \in DOMAIN row : i \in closing \/ row[i].status = "disconnected" => row[i].ref \notin store

\* The inductive invariant of ChannelAssets.
AssetInv ==
  /\ Asset!TypeOK /\ RoundTrips
  /\ CredentialsApart /\ WritersApart /\ IndexHolds /\ CredentialsGone
  /\ Asset!CredentialPresent

\* What the constants give.
LEMMA AssetConstants ==
  /\ AdAccounts \subseteq Externals /\ Found \subseteq Seq(Externals)
  /\ MaxRows \in Nat /\ MaxRefs \in Nat /\ MaxFaults \in Nat /\ NoOne \notin Owners
  BY CompanyAssumption DEF Asset!AssetAssumption

\* The view of a transaction, row by row.
LEMMA ViewRows ==
  ASSUME NEW r \in Requests
  PROVE  /\ DOMAIN Asset!View(r) = DOMAIN row \cup Asset!Written(r)
         /\ \A i \in Asset!Written(r) : Asset!View(r)[i] = Asset!New(r)[i]
         /\ \A i \in DOMAIN row : i \notin Asset!Written(r) => Asset!View(r)[i] = row[i]
         /\ Asset!Written(r) \subseteq Asset!HeldRows(r)
  BY DEF Asset!View, Asset!Ids, Asset!Written

\* Rows that a transaction has written are rows.
LEMMA NewRows ==
  ASSUME AssetInv, NEW r \in Requests
  PROVE  Asset!IsTable(Asset!New(r)) /\ DOMAIN Asset!New(r) = Asset!HeldRows(r)
  <1>1. Asset!IsTable(<<>>)
    BY DEF Asset!IsTable
  <1>2. cb[r].at = "upsert" => Asset!IsTable(cb[r].new)
    BY DEF AssetInv, Asset!TypeOK, Asset!IsCallback, Asset!Idle
  <1> QED
    BY <1>1, <1>2 DEF Asset!New, Asset!HeldRows, Asset!Writing

\* A step that leaves the tables and what is written to them alone.
LEMMA TablesSame ==
  ASSUME AssetInv, UNCHANGED Asset!assetSame, Asset!TypeOK', RoundTrips',
         \A q \in Requests : /\ Asset!New(q)' = Asset!New(q)
                             /\ Asset!Written(q)' = Asset!Written(q)
  PROVE  AssetInv'
  <1>1. UNCHANGED <<row, store, refs, closing, undone, forgotten>>
    BY DEF Asset!assetSame
  <1>2. \A q \in Requests : Asset!HeldRows(q)' = Asset!HeldRows(q)
    BY DEF Asset!HeldRows
  <1>3. \A q \in Requests : Asset!View(q)' = Asset!View(q)
    BY <1>1, <1>2 DEF Asset!View, Asset!Ids
  <1>4. CredentialsApart'
    BY <1>1, <1>2 DEF AssetInv, CredentialsApart
  <1>5. WritersApart'
    BY <1>1, <1>2 DEF AssetInv, WritersApart
  <1>6. IndexHolds'
    BY <1>1, <1>3 DEF AssetInv, IndexHolds, OneOwner
  <1>7. CredentialsGone' /\ Asset!CredentialPresent'
    BY <1>1, <1>2 DEF AssetInv, CredentialsGone, Asset!CredentialPresent, Asset!Ids
  <1> QED
    BY <1>4, <1>5, <1>6, <1>7 DEF AssetInv

\* Steps on OAuth states leave the tables alone.
LEMMA StateStepKeeps ==
  ASSUME AssetInv, NEW s \in States, NEW t \in Owners,
         Asset!StartConnection(s, t) \/ Asset!StateExpires(s) \/ Asset!RejectOAuth(s)
  PROVE  AssetInv'
  <1>1. /\ UNCHANGED <<cb, faults, exchanged, row, store, refs, closing, undone, forgotten>>
        /\ \/ oauth[s].t = NoOne /\ oauth' = [oauth EXCEPT ![s].t = t]
           \/ oauth' = [oauth EXCEPT ![s].live = FALSE]
           \/ oauth' = [oauth EXCEPT ![s].used = TRUE]
    BY DEF Asset!StartConnection, Asset!StateExpires, Asset!RejectOAuth, Asset!assetSame
  <1>2. oauth \in [States -> Asset!State]
    BY DEF AssetInv, Asset!TypeOK
  <1>3. /\ oauth' \in [States -> Asset!State]
        /\ \A u \in States : /\ oauth[u].t \in Owners => oauth'[u].t \in Owners
                             /\ oauth[u].used => oauth'[u].used
    <2>1. CASE oauth[s].t = NoOne /\ oauth' = [oauth EXCEPT ![s].t = t]
      BY <1>2, <2>1, AssetConstants DEF Asset!State
    <2>2. CASE oauth' = [oauth EXCEPT ![s].live = FALSE]
      BY <1>2, <2>2 DEF Asset!State
    <2>3. CASE oauth' = [oauth EXCEPT ![s].used = TRUE]
      BY <1>2, <2>3 DEF Asset!State
    <2> QED
      BY <1>1, <2>1, <2>2, <2>3
  <1>4. \A r \in Requests : cb[r] # Asset!Idle => cb[r].s \in States
    BY DEF AssetInv, Asset!TypeOK, Asset!IsCallback
  <1>5. Asset!TypeOK'
    BY <1>1, <1>3 DEF AssetInv, Asset!TypeOK, Asset!IsTable, Asset!IsCallback, Asset!Ids
  <1>6. RoundTrips'
    BY <1>1, <1>3, <1>4 DEF AssetInv, RoundTrips
  <1>7. \A q \in Requests : /\ Asset!New(q)' = Asset!New(q)
                             /\ Asset!Written(q)' = Asset!Written(q)
    BY <1>1 DEF Asset!New, Asset!Written, Asset!HeldRows, Asset!Writing
  <1> QED
    BY <1>1, <1>5, <1>6, <1>7, TablesSame DEF Asset!assetSame

\* A callback consumes the state before it asks Meta.
LEMMA CompleteBeginKeeps ==
  ASSUME AssetInv, NEW r \in Requests, NEW s \in States, Asset!CompleteBegin(r, s)
  PROVE  AssetInv'
  <1> DEFINE c == [at |-> "remote", s |-> s, todo |-> <<>>, new |-> <<>>,
                   pend |-> {}, locked |-> {}]
  <1>1. /\ oauth' = [oauth EXCEPT ![s].used = TRUE] /\ exchanged' = [exchanged EXCEPT ![s] = @ + 1]
        /\ cb' = [cb EXCEPT ![r] = c] /\ cb[r] = Asset!Idle
        /\ UNCHANGED faults /\ UNCHANGED Asset!assetSame
        /\ oauth[s].t # NoOne /\ ~oauth[s].used
    BY DEF Asset!CompleteBegin, Asset!Consumed, Asset!Consumable
  <1>2. /\ oauth \in [States -> Asset!State] /\ exchanged \in [States -> Nat]
        /\ DOMAIN cb = Requests
    BY DEF AssetInv, Asset!TypeOK
  <1>3. exchanged[s] = 0
    BY <1>1 DEF AssetInv, RoundTrips
  <1>4. /\ oauth' \in [States -> Asset!State]
        /\ \A u \in States : /\ oauth'[u].t = oauth[u].t
                             /\ oauth'[u].used = IF u = s THEN TRUE ELSE oauth[u].used
    BY <1>1, <1>2 DEF Asset!State
  <1>5. /\ exchanged' \in [States -> Nat]
        /\ \A u \in States : exchanged'[u] = IF u = s THEN 1 ELSE exchanged[u]
    BY <1>1, <1>2, <1>3
  <1>6. Asset!IsCallback(c)
    BY DEF Asset!IsCallback, Asset!IsTable
  <1>7. /\ c # Asset!Idle /\ c.s = s /\ c.at = "remote" /\ c.new = <<>>
    BY DEF Asset!Idle
  <1> HIDE DEF c
  <1>8. /\ DOMAIN cb' = Requests /\ cb'[r] = c
        /\ \A q \in Requests \ {r} : cb'[q] = cb[q]
    BY <1>1, <1>2
  <1>9. Asset!TypeOK'
    <2>1. \A q \in Requests : Asset!IsCallback(cb'[q])
      BY <1>6, <1>8 DEF AssetInv, Asset!TypeOK
    <2> QED
      BY <1>1, <1>4, <1>5, <1>8, <2>1 DEF AssetInv, Asset!TypeOK, Asset!assetSame,
             Asset!IsTable, Asset!Ids
  <1>10. oauth[s].t \in Owners
    BY <1>1, <1>2 DEF Asset!State
  <1>11. RoundTrips'
    <2>1. \A q \in Requests : cb[q] # Asset!Idle => cb[q].s \in States
      BY DEF AssetInv, Asset!TypeOK, Asset!IsCallback
    <2> QED
      <3>1. \A u \in States : exchanged'[u] = 0 \/ (exchanged'[u] = 1 /\ oauth'[u].used)
        BY <1>4, <1>5 DEF AssetInv, RoundTrips
      <3>2. ASSUME NEW q \in Requests, cb'[q] # Asset!Idle
            PROVE  oauth'[cb'[q].s].t \in Owners /\ (cb'[q].at = "remote" => cb'[q].new = <<>>)
        BY <1>4, <1>7, <1>8, <1>10, <2>1, <3>2 DEF AssetInv, RoundTrips
      <3> QED
        BY <3>1, <3>2 DEF RoundTrips, Asset!Idle
  <1>12. ASSUME NEW q \in Requests
         PROVE  Asset!New(q)' = Asset!New(q) /\ Asset!Written(q)' = Asset!Written(q)
    <2>1. CASE q = r
      <3>1. ~Asset!Writing(q) /\ ~Asset!Writing(q)'
        BY <1>1, <1>7, <1>8, <2>1 DEF Asset!Writing, Asset!Idle
      <3> QED
        BY <3>1 DEF Asset!New, Asset!Written
    <2>2. CASE q # r
      BY <1>8, <2>2 DEF Asset!New, Asset!Written, Asset!HeldRows, Asset!Writing
    <2> QED
      BY <2>1, <2>2
  <1> QED
    BY <1>1, <1>9, <1>11, <1>12, TablesSame

\* Meta refuses, or returns the assets to write.
LEMMA RemoteKeeps ==
  ASSUME AssetInv, NEW r \in Requests,
         Asset!RemoteFails(r) \/ \E f \in Found : Asset!Discover(r, f)
  PROVE  AssetInv'
  <1> DEFINE c == cb'[r]
  <1>1. /\ cb[r].at = "remote" /\ UNCHANGED <<oauth, exchanged, faults>>
        /\ UNCHANGED Asset!assetSame /\ DOMAIN cb = Requests
        /\ \/ cb' = [cb EXCEPT ![r] = Asset!Idle]
           \/ \E f \in Found : cb' = [cb EXCEPT ![r].at = "upsert", ![r].todo = f]
    BY DEF Asset!RemoteFails, Asset!Discover, AssetInv, Asset!TypeOK
  <1>2. /\ Asset!IsCallback(cb[r]) /\ cb[r] # Asset!Idle
        /\ oauth[cb[r].s].t \in Owners /\ cb[r].new = <<>>
    BY <1>1 DEF AssetInv, Asset!TypeOK, RoundTrips, Asset!Idle
  <1>3. \/ c = Asset!Idle
        \/ /\ Asset!IsCallback(c) /\ c.at = "upsert" /\ c.s = cb[r].s /\ c.new = <<>>
    <2>1. CASE cb' = [cb EXCEPT ![r] = Asset!Idle]
      BY <1>1, <2>1
    <2>2. ASSUME NEW f \in Found, cb' = [cb EXCEPT ![r].at = "upsert", ![r].todo = f]
          PROVE  Asset!IsCallback(c) /\ c.at = "upsert" /\ c.s = cb[r].s /\ c.new = <<>>
      <3>1. c = [cb[r] EXCEPT !.at = "upsert", !.todo = f]
        BY <1>1, <2>2
      <3>2. f \in Seq(Externals)
        BY AssetConstants
      <3> QED
        BY <1>2, <3>1, <3>2 DEF Asset!IsCallback
    <2> QED
      BY <1>1, <2>1, <2>2
  <1>4. DOMAIN cb' = Requests /\ \A q \in Requests \ {r} : cb'[q] = cb[q]
    BY <1>1
  <1>5. Asset!TypeOK'
    <2>1. \A q \in Requests : Asset!IsCallback(cb'[q])
      BY <1>3, <1>4 DEF AssetInv, Asset!TypeOK, Asset!IsCallback
    <2> QED
      BY <1>1, <1>4, <2>1 DEF AssetInv, Asset!TypeOK, Asset!assetSame, Asset!IsTable, Asset!Ids
  <1>6. RoundTrips'
    BY <1>1, <1>2, <1>3, <1>4 DEF AssetInv, RoundTrips
  <1>7. ASSUME NEW q \in Requests
        PROVE  Asset!New(q)' = Asset!New(q) /\ Asset!Written(q)' = Asset!Written(q)
    <2>1. \A d \in {cb[r], c} : d.at = "upsert" => d.new = <<>>
      BY <1>1, <1>3 DEF Asset!Idle
    <2>2. CASE q = r
      <3>1. Asset!New(r) = <<>> /\ Asset!New(r)' = <<>>
        BY <1>1, <2>1 DEF Asset!New, Asset!Writing
      <3>2. Asset!Written(r) = {} /\ Asset!Written(r)' = {}
        BY <3>1 DEF Asset!Written, Asset!HeldRows
      <3> QED
        BY <2>2, <3>1, <3>2
    <2>3. CASE q # r
      BY <1>4, <2>3 DEF Asset!New, Asset!Written, Asset!HeldRows, Asset!Writing
    <2> QED
      BY <2>2, <2>3
  <1> QED
    BY <1>1, <1>5, <1>6, <1>7, TablesSame

\* A callback that ends has written nothing.
LEMMA CallbackEnds ==
  ASSUME AssetInv, NEW r \in Requests, cb' = [cb EXCEPT ![r] = Asset!Idle],
         UNCHANGED <<oauth, exchanged>>
  PROVE  /\ Asset!HeldRows(r)' = {} /\ Asset!Written(r)' = {}
         /\ \A q \in Requests \ {r} : /\ Asset!New(q)' = Asset!New(q)
                                      /\ Asset!HeldRows(q)' = Asset!HeldRows(q)
                                      /\ Asset!Written(q)' = Asset!Written(q)
         /\ DOMAIN cb' = Requests /\ \A q \in Requests : Asset!IsCallback(cb'[q])
         /\ RoundTrips'
  <1>1. DOMAIN cb = Requests /\ \A q \in Requests : Asset!IsCallback(cb[q])
    BY DEF AssetInv, Asset!TypeOK
  <1>2. /\ DOMAIN cb' = Requests /\ cb'[r] = Asset!Idle
        /\ \A q \in Requests \ {r} : cb'[q] = cb[q]
    BY <1>1
  <1>3. \A q \in Requests : Asset!IsCallback(cb'[q])
    BY <1>1, <1>2 DEF Asset!IsCallback
  <1>4. Asset!New(r)' = <<>> /\ Asset!Written(r)' = {}
    BY <1>2 DEF Asset!New, Asset!Written, Asset!Writing, Asset!Idle
  <1>5. Asset!HeldRows(r)' = {}
    BY <1>4 DEF Asset!HeldRows
  <1>6. \A q \in Requests \ {r} : Asset!New(q)' = Asset!New(q)
    BY <1>2 DEF Asset!New, Asset!Writing
  <1>7. \A q \in Requests \ {r} : /\ Asset!HeldRows(q)' = Asset!HeldRows(q)
                                  /\ Asset!Written(q)' = Asset!Written(q)
    BY <1>2, <1>6 DEF Asset!HeldRows, Asset!Written, Asset!Writing
  <1>8. RoundTrips'
    BY <1>2 DEF AssetInv, RoundTrips
  <1> QED
    BY <1>2, <1>3, <1>4, <1>5, <1>6, <1>7, <1>8

\* A callback that is given up leaves the table as it was; the rows it touched are
\* noted as undone.
LEMMA CallbackDropped ==
  ASSUME AssetInv, NEW r \in Requests, cb' = [cb EXCEPT ![r] = Asset!Idle],
         UNCHANGED <<oauth, exchanged, row, closing, store, refs, forgotten>>,
         faults' \in 0 .. MaxFaults,
         undone' = undone \cup (Asset!HeldRows(r) \cap DOMAIN row)
  PROVE  AssetInv'
  <1>1. /\ Asset!HeldRows(r)' = {} /\ Asset!Written(r)' = {}
        /\ \A q \in Requests \ {r} : /\ Asset!New(q)' = Asset!New(q)
                                     /\ Asset!HeldRows(q)' = Asset!HeldRows(q)
                                     /\ Asset!Written(q)' = Asset!Written(q)
        /\ DOMAIN cb' = Requests /\ \A q \in Requests : Asset!IsCallback(cb'[q])
        /\ RoundTrips'
    BY CallbackEnds
  <1>2. Asset!TypeOK'
    BY <1>1 DEF AssetInv, Asset!TypeOK, Asset!IsTable, Asset!Ids
  <1>3. CredentialsApart'
    <2>1. ASSUME NEW q \in Requests, NEW i \in Asset!HeldRows(q)'
          PROVE  /\ Asset!New(q)'[i].ref \in store' /\ Asset!New(q)'[i].status = "connected"
                 /\ \A j \in DOMAIN row : row[j].ref # Asset!New(q)'[i].ref
                 /\ \A o \in Requests : \A j \in Asset!HeldRows(o)' :
                      Asset!New(o)'[j].ref = Asset!New(q)'[i].ref => o = q /\ j = i
      <3>1. q # r /\ i \in Asset!HeldRows(q) /\ Asset!New(q)'[i] = Asset!New(q)[i]
        BY <1>1, <2>1
      <3> QED
        BY <1>1, <3>1 DEF AssetInv, CredentialsApart
    <2> QED
      BY <2>1 DEF AssetInv, CredentialsApart
  <1>4. WritersApart'
    BY <1>1 DEF AssetInv, WritersApart
  <1>5. IndexHolds'
    <2>1. ASSUME NEW q \in Requests
          PROVE  OneOwner(Asset!View(q))'
      <3>1. CASE q = r
        <4>1. Asset!View(r)' = [i \in DOMAIN row |-> row[i]]
          BY <1>1 DEF Asset!View, Asset!Ids
        <4> QED
          BY <3>1, <4>1 DEF AssetInv, IndexHolds, OneOwner
      <3>2. CASE q # r
        <4>1. Asset!View(q)' = Asset!View(q)
          BY <1>1, <3>2 DEF Asset!View, Asset!Ids
        <4> QED
          BY <4>1 DEF AssetInv, IndexHolds, OneOwner
      <3> QED
        BY <3>1, <3>2
    <2> QED
      BY <2>1 DEF AssetInv, IndexHolds, OneOwner
  <1>6. CredentialsGone'
    BY DEF AssetInv, CredentialsGone
  <1>7. Asset!CredentialPresent'
    <2>1. ASSUME NEW i \in DOMAIN row, i \notin closing, row[i].status = "connected",
                 row[i].ref \notin store, i \notin undone', ~(row[i].ref <= forgotten)
          PROVE  \E q \in Requests : i \in Asset!HeldRows(q)'
      <3>1. i \notin undone /\ i \notin Asset!HeldRows(r)
        BY <2>1
      <3>2. PICK q \in Requests : i \in Asset!HeldRows(q)
        BY <2>1, <3>1 DEF AssetInv, Asset!CredentialPresent, Asset!Ids
      <3> QED
        BY <1>1, <3>1, <3>2
    <2> QED
      BY <2>1 DEF Asset!CredentialPresent, Asset!Ids
  <1> QED
    BY <1>1, <1>2, <1>3, <1>4, <1>5, <1>6, <1>7 DEF AssetInv

\* The request is lost before its commit.
LEMMA CallbackLostKeeps ==
  ASSUME AssetInv, NEW r \in Requests, Asset!CallbackLost(r)
  PROVE  AssetInv'
  <1>1. /\ cb' = [cb EXCEPT ![r] = Asset!Idle] /\ faults < MaxFaults /\ faults' = faults + 1
        /\ UNCHANGED <<oauth, exchanged, row, closing, store, refs, forgotten>>
        /\ undone' = undone \cup (Asset!HeldRows(r) \cap DOMAIN row)
    BY DEF Asset!CallbackLost, Asset!Ids
  <1>2. faults' \in 0 .. MaxFaults
    BY <1>1, AssetConstants DEF AssetInv, Asset!TypeOK
  <1> QED
    BY <1>1, <1>2, CallbackDropped

\* The unique index refuses the row, and the request is given up.
LEMMA FlushRefusedKeeps ==
  ASSUME AssetInv, NEW r \in Requests, NEW i \in Asset!RowIds, Asset!Flush(r, i),
         Asset!OwnedElsewhere(r, Asset!New(r)[i].x, i)
  PROVE  AssetInv'
  <1>1. /\ cb' = [cb EXCEPT ![r] = Asset!Idle]
        /\ UNCHANGED <<oauth, exchanged, row, closing, store, refs, faults, forgotten>>
        /\ undone' = undone \cup (Asset!HeldRows(r) \cap DOMAIN row)
    BY DEF Asset!Flush, Asset!Ids
  <1>2. faults' \in 0 .. MaxFaults
    BY <1>1 DEF AssetInv, Asset!TypeOK
  <1> QED
    BY <1>1, <1>2, CallbackDropped

\* What one candidate does: the row it is for is nobody else's, and the credential
\* that is deleted belongs to that row alone.
LEMMA SelectWrites ==
  ASSUME AssetInv, NEW r \in Requests, NEW i \in Asset!RowIds, Asset!Select(r, i)
  PROVE  /\ cb[r].at = "upsert" /\ cb[r].todo # <<>> /\ Head(cb[r].todo) \in Externals
         /\ cb[r].s \in States /\ Asset!Owner(r) \in Owners
         /\ refs + 1 \in 1 .. MaxRefs /\ refs \in Nat /\ refs' = refs + 1
         /\ i \notin closing /\ \A q \in Requests \ {r} : i \notin Asset!HeldRows(q)
         /\ i \in Asset!HeldRows(r) => Asset!New(r)[i].x = Head(cb[r].todo)
         /\ Asset!Written(r) = Asset!HeldRows(r)
         /\ Asset!Target(r, Head(cb[r].todo)) \subseteq Asset!RowIds
         /\ UNCHANGED <<oauth, exchanged, row, closing, faults, undone, forgotten>>
         /\ \E gone : /\ store' = (store \cup {refs + 1}) \ gone /\ refs + 1 \notin gone
                      /\ \A j \in DOMAIN row : row[j].ref \in gone => j = i
                      /\ \A q \in Requests : \A j \in Asset!HeldRows(q) :
                           Asset!New(q)[j].ref \in gone => q = r /\ j = i
  <1> DEFINE x == Head(cb[r].todo)
  <1>1. /\ cb[r].at = "upsert" /\ cb[r].todo # <<>> /\ refs < MaxRefs /\ refs' = refs + 1
        /\ UNCHANGED <<oauth, exchanged, row, closing, faults, undone, forgotten>>
        /\ \/ /\ Asset!Fresh(i) /\ Asset!Target(r, x) = {} /\ store' = store \cup {refs + 1}
           \/ /\ i \in Asset!Target(r, x) /\ Asset!RowFree(r, i)
              /\ store' = (store \cup {refs + 1}) \ {Asset!Replaced(r, i)}
        /\ Asset!Written(r) = Asset!HeldRows(r)
    BY DEF Asset!Select, Asset!Writing, Asset!Written
  <1>2. /\ Asset!IsCallback(cb[r]) /\ cb[r] # Asset!Idle
        /\ store \subseteq 1 .. refs /\ refs \in 0 .. MaxRefs /\ closing \subseteq DOMAIN row
    BY <1>1 DEF AssetInv, Asset!TypeOK, Asset!Idle, Asset!Ids
  <1>3. cb[r].todo \in Seq(Externals) /\ cb[r].s \in States
    BY <1>2 DEF Asset!IsCallback
  <1>4. x \in Externals
    BY <1>1, <1>3, HeadTailProperties
  <1>5. Asset!Owner(r) \in Owners
    BY <1>2 DEF AssetInv, RoundTrips, Asset!Owner
  <1>6. refs + 1 \in 1 .. MaxRefs /\ refs \in Nat
    BY <1>1, <1>2, AssetConstants
  <1> HIDE DEF x
  <1>7. Asset!Target(r, x) \subseteq Asset!RowIds
    <2>1. DOMAIN row \subseteq Asset!RowIds /\ Asset!HeldRows(r) \subseteq Asset!RowIds
      BY NewRows DEF AssetInv, Asset!TypeOK, Asset!IsTable
    <2> QED
      BY <2>1, ViewRows DEF Asset!Target
  <1>8. /\ i \notin closing /\ \A q \in Requests \ {r} : i \notin Asset!HeldRows(q)
        /\ i \in Asset!HeldRows(r) => Asset!New(r)[i].x = x
    <2>1. CASE Asset!Fresh(i)
      BY <1>2, <2>1 DEF Asset!Fresh, Asset!Ids
    <2>2. CASE i \in Asset!Target(r, x) /\ Asset!RowFree(r, i)
      BY <1>1, <2>2, ViewRows DEF Asset!RowFree, Asset!Target
    <2> QED
      BY <1>1, <2>1, <2>2
  <1>9. \E gone : /\ store' = (store \cup {refs + 1}) \ gone /\ refs + 1 \notin gone
                  /\ \A j \in DOMAIN row : row[j].ref \in gone => j = i
                  /\ \A q \in Requests : \A j \in Asset!HeldRows(q) :
                       Asset!New(q)[j].ref \in gone => q = r /\ j = i
    <2>1. CASE store' = store \cup {refs + 1}
      <3>1. PICK gone : gone = {}
        OBVIOUS
      <3> QED
        BY <2>1, <3>1
    <2>2. CASE /\ i \in Asset!Target(r, x)
               /\ store' = (store \cup {refs + 1}) \ {Asset!Replaced(r, i)}
      <3>1. PICK gone : gone = {Asset!Replaced(r, i)}
        OBVIOUS
      <3>2. store' = (store \cup {refs + 1}) \ gone
        BY <2>2, <3>1
      <3>3. CASE i \in Asset!HeldRows(r)
        <4>1. Asset!Replaced(r, i) = Asset!New(r)[i].ref
          BY <1>1, <3>3, ViewRows DEF Asset!Replaced
        <4>2. Asset!New(r)[i].ref \in store
          BY <3>3 DEF AssetInv, CredentialsApart
        <4>3. refs + 1 \notin gone
          BY <1>2, <1>6, <3>1, <4>1, <4>2
        <4>4. \A j \in DOMAIN row : row[j].ref \notin gone
          BY <3>1, <3>3, <4>1 DEF AssetInv, CredentialsApart
        <4>5. \A q \in Requests : \A j \in Asset!HeldRows(q) :
                Asset!New(q)[j].ref \in gone => q = r /\ j = i
          BY <3>1, <3>3, <4>1 DEF AssetInv, CredentialsApart
        <4> QED
          BY <3>2, <4>3, <4>4, <4>5
      <3>4. CASE i \notin Asset!HeldRows(r)
        <4>1. i \in DOMAIN row
          BY <1>1, <2>2, <3>4, ViewRows DEF Asset!Target
        <4>2. Asset!Replaced(r, i) = row[i].ref
          BY <1>1, <3>4, <4>1, ViewRows DEF Asset!Replaced
        <4>3. refs + 1 \notin gone
          <5>1. row[i].ref <= refs /\ row[i].ref \in Nat
            BY <4>1, AssetConstants
               DEF AssetInv, CredentialsApart, Asset!TypeOK, Asset!IsTable, Asset!Row
          <5> QED
            BY <1>6, <3>1, <4>2, <5>1
        <4>4. \A j \in DOMAIN row : row[j].ref \in gone => j = i
          BY <3>1, <4>1, <4>2 DEF AssetInv, CredentialsApart
        <4>5. \A q \in Requests : \A j \in Asset!HeldRows(q) : Asset!New(q)[j].ref \notin gone
          BY <3>1, <4>1, <4>2 DEF AssetInv, CredentialsApart
        <4> QED
          BY <3>2, <4>3, <4>4, <4>5
      <3> QED
        BY <3>3, <3>4
    <2> QED
      BY <1>1, <2>1, <2>2
  <1> QED
    BY <1>1, <1>3, <1>4, <1>5, <1>6, <1>7, <1>8, <1>9 DEF x

\* A row is prepared; neither the index nor the table knows it yet.
LEMMA SelectKeeps ==
  ASSUME AssetInv, NEW r \in Requests, NEW i \in Asset!RowIds, Asset!Select(r, i)
  PROVE  AssetInv'
  <1> DEFINE x == Head(cb[r].todo)
             T == Asset!Target(r, x)
             new == [t |-> Asset!Owner(r), x |-> x, status |-> "connected", ref |-> refs + 1]
             N == [j \in Asset!HeldRows(r) \cup {i} |-> IF j = i THEN new ELSE Asset!New(r)[j]]
             P == {i} \ Asset!HeldRows(r)
  <1>1. /\ cb' = [cb EXCEPT ![r].todo = Tail(@), ![r].locked = @ \cup T,
                            ![r].pend = P, ![r].new = N]
    BY DEF Asset!Select
  <1>2. /\ cb[r].at = "upsert" /\ cb[r].todo # <<>> /\ x \in Externals
        /\ cb[r].s \in States /\ Asset!Owner(r) \in Owners
        /\ refs + 1 \in 1 .. MaxRefs /\ refs \in Nat /\ refs' = refs + 1
        /\ i \notin closing /\ \A q \in Requests \ {r} : i \notin Asset!HeldRows(q)
        /\ i \in Asset!HeldRows(r) => Asset!New(r)[i].x = x
        /\ Asset!Written(r) = Asset!HeldRows(r)
        /\ T \subseteq Asset!RowIds
        /\ UNCHANGED <<oauth, exchanged, row, closing, faults, undone, forgotten>>
    BY SelectWrites
  <1>3. PICK gone :
          /\ store' = (store \cup {refs + 1}) \ gone /\ refs + 1 \notin gone
          /\ \A j \in DOMAIN row : row[j].ref \in gone => j = i
          /\ \A q \in Requests : \A j \in Asset!HeldRows(q) :
               Asset!New(q)[j].ref \in gone => q = r /\ j = i
    BY SelectWrites
  <1>4. /\ new \in Asset!Row /\ new.x = x /\ new.status = "connected" /\ new.ref = refs + 1
    BY <1>2 DEF Asset!Row, Asset!Statuses
  <1>5. /\ DOMAIN cb = Requests /\ Asset!IsCallback(cb[r])
        /\ store \subseteq 1 .. refs /\ refs \in 0 .. MaxRefs
    BY DEF AssetInv, Asset!TypeOK
  <1> HIDE DEF new, T
  <1>6. /\ DOMAIN N = Asset!HeldRows(r) \cup {i} /\ N[i] = new
        /\ \A j \in Asset!HeldRows(r) : j # i => N[j] = Asset!New(r)[j]
    OBVIOUS
  <1>7. Asset!IsTable(N)
    BY <1>4, <1>6, NewRows DEF Asset!IsTable
  <1>P. P \subseteq DOMAIN N /\ DOMAIN N \ P = Asset!HeldRows(r)
    BY <1>6
  <1> HIDE DEF N, P
  <1>8. /\ cb'[r].at = "upsert" /\ cb'[r].new = N /\ cb'[r].s = cb[r].s /\ cb'[r].pend = P
        /\ Asset!IsCallback(cb'[r]) /\ DOMAIN cb' = Requests
        /\ \A q \in Requests \ {r} : cb'[q] = cb[q]
    <2>1. cb'[r] = [cb[r] EXCEPT !.todo = Tail(@), !.locked = @ \cup T, !.pend = P, !.new = N]
      BY <1>1, <1>5
    <2>2. cb[r] # Asset!Idle
      BY <1>2 DEF Asset!Idle
    <2>3. Tail(cb[r].todo) \in Seq(Externals)
      BY <1>2, <1>5, <2>2, HeadTailProperties DEF Asset!IsCallback
    <2>4. Asset!IsCallback(cb'[r])
      BY <1>2, <1>5, <1>7, <1>P, <2>1, <2>2, <2>3 DEF Asset!IsCallback
    <2> QED
      BY <1>1, <1>2, <1>5, <2>1, <2>2, <2>4 DEF Asset!IsCallback
  <1>9. /\ Asset!New(r)' = N /\ Asset!HeldRows(r)' = Asset!HeldRows(r) \cup {i}
        /\ Asset!Written(r)' = Asset!Written(r)
        /\ \A q \in Requests \ {r} : /\ Asset!New(q)' = Asset!New(q)
                                     /\ Asset!HeldRows(q)' = Asset!HeldRows(q)
                                     /\ Asset!Written(q)' = Asset!Written(q)
    <2>1. Asset!New(r)' = N /\ Asset!HeldRows(r)' = Asset!HeldRows(r) \cup {i}
      BY <1>6, <1>8 DEF Asset!New, Asset!HeldRows, Asset!Writing
    <2>2. Asset!Written(r)' = Asset!Written(r)
      BY <1>2, <1>6, <1>8, <1>P, <2>1 DEF Asset!Written, Asset!Writing
    <2>3. \A q \in Requests \ {r} : Asset!New(q)' = Asset!New(q)
      BY <1>8 DEF Asset!New, Asset!Writing
    <2>4. \A q \in Requests \ {r} : /\ Asset!HeldRows(q)' = Asset!HeldRows(q)
                                    /\ Asset!Written(q)' = Asset!Written(q)
      BY <1>8, <2>3 DEF Asset!HeldRows, Asset!Written, Asset!Writing
    <2> QED
      BY <2>1, <2>2, <2>3, <2>4
  <1>10. Asset!TypeOK'
    <2>1. \A q \in Requests : Asset!IsCallback(cb'[q])
      BY <1>8 DEF AssetInv, Asset!TypeOK, Asset!IsCallback
    <2>2. store' \subseteq 1 .. refs' /\ refs' \in 0 .. MaxRefs /\ forgotten' \in 0 .. refs'
      <3>1. /\ \A k \in 1 .. refs : k \in 1 .. refs + 1
            /\ \A k \in 0 .. refs : k \in 0 .. refs + 1
        BY <1>2
      <3>2. refs + 1 \in 1 .. refs + 1 /\ refs + 1 \in 0 .. MaxRefs
        BY <1>2, AssetConstants
      <3>3. store' \subseteq 1 .. refs + 1
        BY <1>3, <1>5, <3>1, <3>2
      <3>4. forgotten \in 0 .. refs
        BY DEF AssetInv, Asset!TypeOK
      <3> QED
        BY <1>2, <3>1, <3>2, <3>3, <3>4
    <2> QED
      BY <1>1, <1>2, <1>8, <2>1, <2>2 DEF AssetInv, Asset!TypeOK, Asset!IsTable, Asset!Ids
  <1>11. RoundTrips'
    BY <1>2, <1>8 DEF AssetInv, RoundTrips, Asset!Idle
  <1>12. \A j \in DOMAIN row : row[j].ref \in Nat /\ row[j].ref <= refs
    BY AssetConstants DEF AssetInv, CredentialsApart, Asset!TypeOK, Asset!IsTable, Asset!Row
  <1>13. \A q \in Requests : \A j \in Asset!HeldRows(q) :
           Asset!New(q)[j].ref \in Nat /\ Asset!New(q)[j].ref <= refs
    <2>1. \A k \in store : k \in Nat /\ k <= refs
      BY <1>2, <1>5
    <2> QED
      BY <2>1 DEF AssetInv, CredentialsApart
  <1>14. CredentialsApart'
    <2>1. \A j \in DOMAIN row : row[j].ref <= refs'
      BY <1>2, <1>12
    <2>2. ASSUME NEW q \in Requests, NEW k \in Asset!HeldRows(q), ~(q = r /\ k = i)
          PROVE  /\ k \in Asset!HeldRows(q)' /\ Asset!New(q)'[k] = Asset!New(q)[k]
                 /\ Asset!New(q)[k].ref \in store' /\ Asset!New(q)[k].ref # refs + 1
      <3>1. Asset!New(q)[k].ref \in store
        BY DEF AssetInv, CredentialsApart
      <3> QED
        BY <1>2, <1>3, <1>6, <1>9, <1>13, <2>2, <3>1
    <2>3. ASSUME NEW q \in Requests, NEW k \in Asset!HeldRows(q)', ~(q = r /\ k = i)
          PROVE  k \in Asset!HeldRows(q)
      BY <1>9, <2>3
    <2>4. Asset!New(r)'[i].ref = refs + 1 /\ Asset!New(r)'[i].status = "connected"
      BY <1>4, <1>6, <1>9
    <2>5. refs + 1 \in store' /\ \A j \in DOMAIN row : row[j].ref # refs + 1
      BY <1>2, <1>3, <1>12
    <2>6. ASSUME NEW q \in Requests, NEW k \in Asset!HeldRows(q)'
          PROVE  /\ Asset!New(q)'[k].ref \in store' /\ Asset!New(q)'[k].status = "connected"
                 /\ \A j \in DOMAIN row : row[j].ref # Asset!New(q)'[k].ref
                 /\ \A o \in Requests : \A j \in Asset!HeldRows(o)' :
                      Asset!New(o)'[j].ref = Asset!New(q)'[k].ref => o = q /\ j = k
      <3>1. CASE q = r /\ k = i
        BY <2>2, <2>3, <2>4, <2>5, <3>1
      <3>2. CASE ~(q = r /\ k = i)
        <4>1. k \in Asset!HeldRows(q)
          BY <2>3, <2>6, <3>2
        <4>2. /\ Asset!New(q)'[k] = Asset!New(q)[k] /\ Asset!New(q)[k].ref \in store'
              /\ Asset!New(q)[k].ref # refs + 1
          BY <2>2, <3>2, <4>1
        <4>3. ASSUME NEW o \in Requests, NEW j \in Asset!HeldRows(o)',
                     Asset!New(o)'[j].ref = Asset!New(q)[k].ref
              PROVE  o = q /\ j = k
          <5>1. ~(o = r /\ j = i)
            BY <2>4, <4>2, <4>3
          <5>2. j \in Asset!HeldRows(o)
            BY <2>3, <4>3, <5>1
          <5>3. Asset!New(o)'[j] = Asset!New(o)[j]
            BY <2>2, <5>1, <5>2
          <5> QED
            BY <4>1, <4>3, <5>2, <5>3 DEF AssetInv, CredentialsApart
        <4>4. /\ Asset!New(q)[k].status = "connected"
              /\ \A j \in DOMAIN row : row[j].ref # Asset!New(q)[k].ref
          BY <4>1 DEF AssetInv, CredentialsApart
        <4> QED
          BY <4>2, <4>3, <4>4
      <3> QED
        BY <3>1, <3>2
    <2>7. \A j, k \in DOMAIN row : row[j].ref = row[k].ref => j = k
      BY DEF AssetInv, CredentialsApart
    <2> QED
      BY <1>2, <2>1, <2>6, <2>7 DEF CredentialsApart
  <1>15. WritersApart'
    <2>1. \A q \in Requests : \A k \in Asset!HeldRows(q) :
            k \notin closing /\ \A o \in Requests \ {q} : k \notin Asset!HeldRows(o)
      BY DEF AssetInv, WritersApart
    <2>2. ASSUME NEW q \in Requests, NEW k \in Asset!HeldRows(q)'
          PROVE  k \notin closing' /\ \A o \in Requests \ {q} : k \notin Asset!HeldRows(o)'
      BY <1>2, <1>9, <2>1, <2>2
    <2>3. \A q \in Requests : \A k \in Asset!Written(q) :
            Asset!New(q)'[k].x = Asset!New(q)[k].x
      BY <1>2, <1>4, <1>6, <1>9
    <2>4. ASSUME NEW q \in Requests, NEW o \in Requests \ {q},
                 NEW k \in Asset!Written(q)', NEW j \in Asset!Written(o)',
                 Asset!New(q)'[k].x = Asset!New(o)'[j].x
          PROVE  Asset!New(q)'[k].x \in AdAccounts
      <3>1. k \in Asset!Written(q) /\ j \in Asset!Written(o)
        BY <1>9, <2>4
      <3>2. Asset!New(q)[k].x = Asset!New(o)[j].x
        BY <2>3, <2>4, <3>1
      <3>3. Asset!New(q)[k].x \in AdAccounts
        BY <3>1, <3>2 DEF AssetInv, WritersApart
      <3> QED
        BY <2>3, <3>1, <3>3
    <2> QED
      BY <2>2, <2>4 DEF WritersApart
  <1>16. IndexHolds'
    <2>1. ASSUME NEW q \in Requests
          PROVE  OneOwner(Asset!View(q))'
      <3>1. /\ DOMAIN Asset!View(q)' = DOMAIN Asset!View(q)
            /\ \A j \in DOMAIN Asset!View(q) :
                 /\ Asset!View(q)'[j].x = Asset!View(q)[j].x
                 /\ Asset!View(q)'[j].status = Asset!View(q)[j].status
        <4>1. DOMAIN Asset!View(q)' = DOMAIN Asset!View(q)
          BY <1>2, <1>9 DEF Asset!View, Asset!Ids
        <4>2. ASSUME NEW j \in DOMAIN row, j \notin Asset!Written(q)
              PROVE  Asset!View(q)'[j] = Asset!View(q)[j]
          BY <1>2, <1>9, <4>2 DEF Asset!View, Asset!Ids
        <4>3. ASSUME NEW j \in Asset!Written(q)
              PROVE  /\ Asset!View(q)'[j] = Asset!New(q)'[j]
                     /\ Asset!View(q)[j] = Asset!New(q)[j]
                     /\ Asset!New(q)'[j].x = Asset!New(q)[j].x
                     /\ Asset!New(q)'[j].status = "connected"
                     /\ Asset!New(q)[j].status = "connected"
          <5>1. j \in Asset!Written(q)' /\ j \in Asset!HeldRows(q)
            BY <1>9, <4>3, ViewRows
          <5>2. Asset!View(q)'[j] = Asset!New(q)'[j] /\ Asset!View(q)[j] = Asset!New(q)[j]
            BY <5>1, <4>3 DEF Asset!View
          <5>3. Asset!New(q)[j].status = "connected"
            BY <5>1 DEF AssetInv, CredentialsApart
          <5> QED
            BY <1>2, <1>4, <1>6, <1>9, <4>3, <5>1, <5>2, <5>3
        <4>4. DOMAIN Asset!View(q) = DOMAIN row \cup Asset!Written(q)
          BY ViewRows
        <4> QED
          BY <4>1, <4>2, <4>3, <4>4
      <3>2. OneOwner(Asset!View(q))
        BY DEF AssetInv, IndexHolds
      <3> QED
        BY <3>1, <3>2 DEF OneOwner
    <2> QED
      BY <1>2, <2>1 DEF AssetInv, IndexHolds, OneOwner
  <1>17. CredentialsGone'
    <2>1. \A j \in DOMAIN row : row[j].ref \notin store => row[j].ref \notin store'
      BY <1>2, <1>3, <1>12
    <2> QED
      BY <1>2, <2>1 DEF AssetInv, CredentialsGone
  <1>18. Asset!CredentialPresent'
    <2>1. ASSUME NEW j \in DOMAIN row, j \notin closing, row[j].status = "connected",
                 row[j].ref \notin store', j \notin undone, ~(row[j].ref <= forgotten)
          PROVE  \E q \in Requests : j \in Asset!HeldRows(q)'
      <3>1. CASE j = i
        BY <1>9, <3>1
      <3>2. CASE j # i
        <4>1. row[j].ref \notin store
          BY <1>3, <2>1, <3>2
        <4>2. PICK q \in Requests : j \in Asset!HeldRows(q)
          BY <2>1, <4>1 DEF AssetInv, Asset!CredentialPresent, Asset!Ids
        <4> QED
          BY <1>9, <4>2
      <3> QED
        BY <3>1, <3>2
    <2> QED
      BY <1>1, <1>2, <2>1 DEF Asset!CredentialPresent, Asset!Ids
  <1> QED
    BY <1>10, <1>11, <1>14, <1>15, <1>16, <1>17, <1>18 DEF AssetInv

\* The flushed row enters the index, where no other transaction has it and no other
\* row is connected.
LEMMA FlushKeeps ==
  ASSUME AssetInv, NEW r \in Requests, NEW i \in Asset!RowIds, Asset!Flush(r, i),
         ~Asset!OwnedElsewhere(r, Asset!New(r)[i].x, i)
  PROVE  AssetInv'
  <1> DEFINE x == Asset!New(r)[i].x
  <1>1. /\ cb[r].at = "upsert" /\ i \in cb[r].pend
        /\ x \notin AdAccounts => \A q \in Requests \ {r} : ~Asset!Claims(q, x)
        /\ cb' = [cb EXCEPT ![r].pend = @ \ {i}]
        /\ UNCHANGED <<oauth, row, store, refs, closing, faults, exchanged, undone, forgotten>>
    BY DEF Asset!Flush, Asset!Writing
  <1>2. /\ DOMAIN cb = Requests /\ Asset!IsCallback(cb[r]) /\ cb[r] # Asset!Idle
    BY <1>1 DEF AssetInv, Asset!TypeOK, Asset!Idle
  <1>3. /\ DOMAIN cb' = Requests /\ \A q \in Requests \ {r} : cb'[q] = cb[q]
        /\ cb'[r] = [cb[r] EXCEPT !.pend = @ \ {i}]
    BY <1>1, <1>2
  <1>4. /\ Asset!IsCallback(cb'[r]) /\ cb'[r].at = "upsert" /\ cb'[r].new = cb[r].new
        /\ cb'[r].s = cb[r].s /\ cb'[r].pend = cb[r].pend \ {i}
    BY <1>1, <1>2, <1>3 DEF Asset!IsCallback
  <1>5. /\ i \in Asset!HeldRows(r)
    BY <1>1, <1>2 DEF Asset!IsCallback, Asset!HeldRows, Asset!New, Asset!Writing
  <1>6. \A q \in Requests : /\ Asset!New(q)' = Asset!New(q)
                            /\ Asset!HeldRows(q)' = Asset!HeldRows(q)
    <2>1. \A q \in Requests : Asset!New(q)' = Asset!New(q)
      BY <1>1, <1>3, <1>4 DEF Asset!New, Asset!Writing
    <2> QED
      BY <2>1 DEF Asset!HeldRows
  <1>7. /\ Asset!Written(r)' = Asset!Written(r) \cup {i}
        /\ \A q \in Requests \ {r} : Asset!Written(q)' = Asset!Written(q)
    BY <1>1, <1>3, <1>4, <1>5, <1>6 DEF Asset!Written, Asset!Writing
  <1>8. Asset!TypeOK'
    <2>1. \A q \in Requests : Asset!IsCallback(cb'[q])
      BY <1>3, <1>4 DEF AssetInv, Asset!TypeOK, Asset!IsCallback
    <2> QED
      BY <1>1, <1>3, <2>1 DEF AssetInv, Asset!TypeOK, Asset!IsTable, Asset!Ids
  <1>9. RoundTrips'
    BY <1>1, <1>3, <1>4 DEF AssetInv, RoundTrips, Asset!Idle
  <1>10. CredentialsApart' /\ CredentialsGone' /\ Asset!CredentialPresent'
    BY <1>1, <1>6 DEF AssetInv, CredentialsApart, CredentialsGone, Asset!CredentialPresent,
       Asset!Ids
  <1>11. WritersApart'
    <2>1. \A q \in Requests : \A k \in Asset!HeldRows(q) :
            k \notin closing /\ \A o \in Requests \ {q} : k \notin Asset!HeldRows(o)
      BY DEF AssetInv, WritersApart
    <2>2. \A q \in Requests \ {r} : \A j \in Asset!Written(q) :
            Asset!New(q)[j].x = x => x \in AdAccounts
      BY <1>1 DEF Asset!Claims
    <2>3. ASSUME NEW q \in Requests, NEW o \in Requests \ {q},
                 NEW k \in Asset!Written(q)', NEW j \in Asset!Written(o)',
                 Asset!New(q)[k].x = Asset!New(o)[j].x
          PROVE  Asset!New(q)[k].x \in AdAccounts
      <3>1. CASE q = r /\ k = i
        BY <1>7, <2>2, <2>3, <3>1
      <3>2. CASE o = r /\ j = i
        BY <1>7, <2>2, <2>3, <3>2
      <3>3. CASE ~(q = r /\ k = i) /\ ~(o = r /\ j = i)
        <4>1. k \in Asset!Written(q) /\ j \in Asset!Written(o)
          BY <1>7, <2>3, <3>3
        <4> QED
          BY <2>3, <4>1 DEF AssetInv, WritersApart
      <3> QED
        BY <3>1, <3>2, <3>3
    <2> QED
      BY <1>1, <1>6, <2>1, <2>3 DEF WritersApart
  <1>12. IndexHolds'
    <2>1. /\ DOMAIN Asset!View(r)' = DOMAIN Asset!View(r) \cup {i}
          /\ Asset!View(r)'[i] = Asset!New(r)[i]
          /\ \A j \in DOMAIN Asset!View(r) : j # i => Asset!View(r)'[j] = Asset!View(r)[j]
      BY <1>1, <1>6, <1>7 DEF Asset!View, Asset!Ids
    <2>2. x \notin AdAccounts => \A j \in DOMAIN Asset!View(r) \ {i} :
            ~(Asset!View(r)[j].x = x /\ Asset!View(r)[j].status = "connected")
      BY DEF Asset!OwnedElsewhere
    <2>3. OneOwner(Asset!View(r))'
      BY <2>1, <2>2 DEF AssetInv, IndexHolds, OneOwner
    <2>4. ASSUME NEW q \in Requests \ {r}
          PROVE  OneOwner(Asset!View(q))'
      <3>1. Asset!View(q)' = Asset!View(q)
        BY <1>1, <1>6, <1>7, <2>4 DEF Asset!View, Asset!Ids
      <3> QED
        BY <2>4, <3>1 DEF AssetInv, IndexHolds, OneOwner
    <2> QED
      BY <1>1, <2>3, <2>4 DEF AssetInv, IndexHolds, OneOwner
  <1> QED
    BY <1>8, <1>9, <1>10, <1>11, <1>12 DEF AssetInv

\* The commit makes what the transaction saw the table.
LEMMA AssetCommitKeeps ==
  ASSUME AssetInv, NEW r \in Requests, Asset!Commit(r)
  PROVE  AssetInv' /\ Asset!ReconnectionIsFresh
  <1>1. /\ cb' = [cb EXCEPT ![r] = Asset!Idle] /\ row' = Asset!View(r)
        /\ UNCHANGED <<oauth, store, refs, closing, faults, exchanged, forgotten>>
        /\ undone' = undone \ Asset!HeldRows(r)
        /\ Asset!Written(r) = Asset!HeldRows(r)
    BY DEF Asset!Commit, Asset!Written
  <1>2. /\ Asset!HeldRows(r)' = {}
        /\ \A q \in Requests \ {r} : /\ Asset!New(q)' = Asset!New(q)
                                     /\ Asset!HeldRows(q)' = Asset!HeldRows(q)
                                     /\ Asset!Written(q)' = Asset!Written(q)
        /\ Asset!Written(r)' = {}
        /\ DOMAIN cb' = Requests /\ \A q \in Requests : Asset!IsCallback(cb'[q])
        /\ RoundTrips'
    BY <1>1, CallbackEnds
  <1>3. /\ DOMAIN row' = DOMAIN row \cup Asset!HeldRows(r)
        /\ \A i \in Asset!HeldRows(r) : row'[i] = Asset!New(r)[i]
        /\ \A i \in DOMAIN row : i \notin Asset!HeldRows(r) => row'[i] = row[i]
    BY <1>1, ViewRows
  <1>4. \A i \in DOMAIN row' :
          i \in Asset!HeldRows(r) \/ (i \in DOMAIN row /\ i \notin Asset!HeldRows(r))
    BY <1>3
  <1>5. Asset!IsTable(row')
    BY <1>3, NewRows DEF AssetInv, Asset!TypeOK, Asset!IsTable
  <1>6. Asset!TypeOK'
    BY <1>1, <1>2, <1>3, <1>5 DEF AssetInv, Asset!TypeOK, Asset!Ids
  <1>7. \A i \in Asset!HeldRows(r) :
          /\ Asset!New(r)[i].ref \in store /\ Asset!New(r)[i].status = "connected"
          /\ \A j \in DOMAIN row : row[j].ref # Asset!New(r)[i].ref
          /\ \A q \in Requests : \A j \in Asset!HeldRows(q) :
               Asset!New(q)[j].ref = Asset!New(r)[i].ref => q = r /\ j = i
    BY DEF AssetInv, CredentialsApart
  <1>8. \A k \in store : k <= refs
    BY AssetConstants DEF AssetInv, Asset!TypeOK
  <1>9. CredentialsApart'
    <2>1. \A i \in DOMAIN row' : row'[i].ref <= refs
      BY <1>3, <1>4, <1>7, <1>8 DEF AssetInv, CredentialsApart
    <2>2. \A i, j \in DOMAIN row' : row'[i].ref = row'[j].ref => i = j
      BY <1>3, <1>4, <1>7 DEF AssetInv, CredentialsApart
    <2>3. ASSUME NEW q \in Requests, NEW i \in Asset!HeldRows(q)'
          PROVE  /\ Asset!New(q)'[i].ref \in store /\ Asset!New(q)'[i].status = "connected"
                 /\ \A j \in DOMAIN row' : row'[j].ref # Asset!New(q)'[i].ref
                 /\ \A o \in Requests : \A j \in Asset!HeldRows(o)' :
                      Asset!New(o)'[j].ref = Asset!New(q)'[i].ref => o = q /\ j = i
      <3>1. q # r /\ i \in Asset!HeldRows(q) /\ Asset!New(q)'[i] = Asset!New(q)[i]
        BY <1>2, <2>3
      <3>2. /\ Asset!New(q)[i].ref \in store /\ Asset!New(q)[i].status = "connected"
            /\ \A j \in DOMAIN row : row[j].ref # Asset!New(q)[i].ref
            /\ \A o \in Requests : \A j \in Asset!HeldRows(o) :
                 Asset!New(o)[j].ref = Asset!New(q)[i].ref => o = q /\ j = i
        BY <3>1 DEF AssetInv, CredentialsApart
      <3> QED
        BY <1>2, <1>3, <1>4, <3>1, <3>2
    <2> QED
      BY <1>1, <2>1, <2>2, <2>3 DEF CredentialsApart
  <1>10. WritersApart'
    BY <1>1, <1>2 DEF AssetInv, WritersApart
  <1>11. IndexHolds'
    <2>1. OneOwner(row)'
      BY <1>1 DEF AssetInv, IndexHolds, OneOwner
    <2>2. ASSUME NEW q \in Requests
          PROVE  OneOwner(Asset!View(q))'
      <3>1. CASE q = r
        <4>1. Asset!View(r)' = [i \in DOMAIN row' |-> row'[i]]
          BY <1>2 DEF Asset!View, Asset!Ids
        <4> QED
          BY <2>1, <3>1, <4>1 DEF OneOwner
      <3>2. CASE q # r
        <4>1. /\ DOMAIN Asset!View(q)' = DOMAIN row' \cup Asset!Written(q)
              /\ \A i \in Asset!Written(q) : Asset!View(q)'[i] = Asset!New(q)[i]
              /\ \A i \in DOMAIN row' : i \notin Asset!Written(q) => Asset!View(q)'[i] = row'[i]
          BY <1>2, <3>2 DEF Asset!View, Asset!Ids
        <4>2. ASSUME NEW i \in Asset!HeldRows(r)
              PROVE  /\ i \notin Asset!Written(q)
                     /\ \A j \in Asset!Written(q) :
                          Asset!New(r)[i].x = Asset!New(q)[j].x => Asset!New(r)[i].x \in AdAccounts
          BY <1>1, <3>2, <4>2, ViewRows DEF AssetInv, WritersApart
        <4>3. OneOwner(Asset!View(q)) /\ OneOwner(row')
          BY <2>1 DEF AssetInv, IndexHolds
        <4>4. ASSUME NEW i \in DOMAIN Asset!View(q)', NEW j \in DOMAIN Asset!View(q)',
                     Asset!View(q)'[i].x = Asset!View(q)'[j].x,
                     Asset!View(q)'[i].status = "connected", Asset!View(q)'[j].status = "connected",
                     Asset!View(q)'[i].x \notin AdAccounts
              PROVE  i = j
          <5>1. CASE i \in Asset!HeldRows(r)
            <6>1. Asset!View(q)'[i] = row'[i] /\ i \in DOMAIN row' /\ row'[i] = Asset!New(r)[i]
              BY <1>3, <4>1, <4>2, <5>1
            <6>2. CASE j \in Asset!Written(q)
              BY <4>1, <4>2, <4>4, <5>1, <6>1, <6>2
            <6>3. CASE j \notin Asset!Written(q)
              BY <4>1, <4>3, <4>4, <6>1, <6>3 DEF OneOwner
            <6> QED
              BY <6>2, <6>3
          <5>2. CASE j \in Asset!HeldRows(r)
            <6>1. Asset!View(q)'[j] = row'[j] /\ j \in DOMAIN row' /\ row'[j] = Asset!New(r)[j]
              BY <1>3, <4>1, <4>2, <5>2
            <6>2. CASE i \in Asset!Written(q)
              BY <4>1, <4>2, <4>4, <5>2, <6>1, <6>2
            <6>3. CASE i \notin Asset!Written(q)
              BY <4>1, <4>3, <4>4, <6>1, <6>3 DEF OneOwner
            <6> QED
              BY <6>2, <6>3
          <5>3. CASE i \notin Asset!HeldRows(r) /\ j \notin Asset!HeldRows(r)
            <6>1. \A k : k \in DOMAIN Asset!View(q)' /\ k \notin Asset!HeldRows(r)
                           => k \in DOMAIN Asset!View(q) /\ Asset!View(q)'[k] = Asset!View(q)[k]
              BY <1>3, <1>4, <4>1, ViewRows
            <6> QED
              BY <4>3, <4>4, <5>3, <6>1 DEF OneOwner
          <5> QED
            BY <5>1, <5>2, <5>3
        <4> QED
          BY <4>4 DEF OneOwner
      <3> QED
        BY <3>1, <3>2
    <2> QED
      BY <2>1, <2>2 DEF IndexHolds
  <1>12. CredentialsGone'
    <2>1. \A i \in Asset!HeldRows(r) : i \notin closing
      BY DEF AssetInv, WritersApart
    <2> QED
      BY <1>1, <1>3, <1>4, <1>7, <2>1 DEF AssetInv, CredentialsGone
  <1>13. Asset!CredentialPresent'
    <2>1. ASSUME NEW i \in DOMAIN row', i \notin closing, row'[i].status = "connected",
                 row'[i].ref \notin store, i \notin undone', ~(row'[i].ref <= forgotten)
          PROVE  \E q \in Requests : i \in Asset!HeldRows(q)'
      <3>1. i \in DOMAIN row /\ i \notin Asset!HeldRows(r) /\ row'[i] = row[i]
        BY <1>3, <1>4, <1>7, <2>1
      <3>2. PICK q \in Requests : i \in Asset!HeldRows(q)
        BY <1>1, <2>1, <3>1 DEF AssetInv, Asset!CredentialPresent, Asset!Ids
      <3> QED
        BY <1>2, <3>1, <3>2
    <2> QED
      BY <1>1, <2>1 DEF Asset!CredentialPresent, Asset!Ids
  <1>14. Asset!ReconnectionIsFresh
    BY <1>3, <1>7 DEF Asset!ReconnectionIsFresh, Asset!Ids
  <1> QED
    BY <1>2, <1>6, <1>9, <1>10, <1>11, <1>12, <1>13, <1>14 DEF AssetInv

\* A step on one row that nobody else holds: it may change the status, delete the
\* credential and take or give back the row.
LEMMA RowStepKeeps ==
  ASSUME AssetInv, NEW i \in DOMAIN row, \A q \in Requests : i \notin Asset!HeldRows(q),
         NEW status \in Asset!Statuses, DOMAIN row' = DOMAIN row,
         \A j \in DOMAIN row : /\ row'[j] \in Asset!Row
                               /\ row'[j].x = row[j].x /\ row'[j].ref = row[j].ref
                               /\ row'[j].status = IF j = i THEN status ELSE row[j].status,
         UNCHANGED <<oauth, exchanged, cb, refs, forgotten>>, faults' \in 0 .. MaxFaults,
         closing' \subseteq closing \cup {i}, closing \ {i} \subseteq closing',
         store' \in {store, store \ {row[i].ref}},
         undone' \in {undone, undone \cup {i}, undone \ {i}},
         \* the index, and what the row tells of its credential
         status = "connected" /\ row[i].status # "connected" =>
           \/ row[i].x \in AdAccounts
           \/ /\ \A j \in DOMAIN row \ {i} : row[j].x # row[i].x \/ row[j].status # "connected"
              /\ \A q \in Requests : ~Asset!Claims(q, row[i].x),
         i \in closing' \/ status = "disconnected" => row[i].ref \notin store',
         i \in closing' \/ status # "connected" \/ row[i].ref \in store' \/ i \in undone'
  PROVE  AssetInv'
  <1>1. \A q \in Requests : Asset!New(q)' = Asset!New(q)
    BY DEF Asset!New, Asset!Writing
  <1>2. \A q \in Requests : /\ Asset!HeldRows(q)' = Asset!HeldRows(q)
                             /\ Asset!Written(q)' = Asset!Written(q)
    BY <1>1 DEF Asset!HeldRows, Asset!Written, Asset!Writing
  <1>3. /\ Asset!IsTable(row) /\ closing \subseteq DOMAIN row /\ undone \subseteq DOMAIN row
        /\ store \subseteq 1 .. refs
    BY DEF AssetInv, Asset!TypeOK, Asset!Ids
  <1>5. Asset!TypeOK'
    BY <1>3 DEF AssetInv, Asset!TypeOK, Asset!IsTable, Asset!IsCallback, Asset!Ids
  <1>6. RoundTrips'
    BY DEF AssetInv, RoundTrips
  <1>7. CredentialsApart'
    <2>1. \A q \in Requests : \A j \in Asset!HeldRows(q) : Asset!New(q)[j].ref \in store'
      BY DEF AssetInv, CredentialsApart
    <2> QED
      BY <1>1, <1>2, <2>1 DEF AssetInv, CredentialsApart
  <1>8. WritersApart'
    BY <1>1, <1>2 DEF AssetInv, WritersApart
  <1>9. IndexHolds'
    <2>1. OneOwner(row)'
      BY DEF AssetInv, IndexHolds, OneOwner
    <2>2. ASSUME NEW q \in Requests
          PROVE  OneOwner(Asset!View(q))'
      <3>1. /\ DOMAIN Asset!View(q)' = DOMAIN Asset!View(q) /\ i \in DOMAIN Asset!View(q)
            /\ \A j \in DOMAIN Asset!View(q) :
                 /\ Asset!View(q)'[j].x = Asset!View(q)[j].x
                 /\ Asset!View(q)'[j].status = IF j = i THEN status ELSE Asset!View(q)[j].status
            /\ Asset!View(q)[i] = row[i]
        BY <1>1, <1>2, ViewRows DEF Asset!View, Asset!Ids
      <3>2. OneOwner(Asset!View(q))
        BY DEF AssetInv, IndexHolds
      <3>3. CASE status = "connected" => row[i].status = "connected" \/ row[i].x \in AdAccounts
        BY <3>1, <3>2, <3>3 DEF OneOwner
      <3>4. CASE /\ \A j \in DOMAIN row \ {i} : row[j].x # row[i].x \/ row[j].status # "connected"
                 /\ ~Asset!Claims(q, row[i].x)
        <4>1. \A j \in DOMAIN Asset!View(q) \ {i} :
                Asset!View(q)[j].x # row[i].x \/ Asset!View(q)[j].status # "connected"
          BY <3>4, ViewRows DEF Asset!Claims
        <4> QED
          BY <3>1, <3>2, <4>1 DEF OneOwner
      <3> QED
        BY <3>3, <3>4
    <2> QED
      BY <2>1, <2>2 DEF IndexHolds
  <1>10. CredentialsGone'
    BY DEF AssetInv, CredentialsGone
  <1>11. Asset!CredentialPresent'
    <2>1. ASSUME NEW j \in DOMAIN row, j \notin closing', row'[j].status = "connected",
                 row[j].ref \notin store', j \notin undone', ~(row[j].ref <= forgotten)
          PROVE  \E q \in Requests : j \in Asset!HeldRows(q)
      <3>1. j # i /\ j \notin closing /\ row[j].status = "connected" /\ j \notin undone
        BY <2>1
      <3>2. row[j].ref \notin store
        BY <2>1, <3>1 DEF AssetInv, CredentialsApart
      <3> QED
        BY <2>1, <3>1, <3>2 DEF AssetInv, Asset!CredentialPresent, Asset!Ids
    <2> QED
      BY <1>2, <2>1 DEF Asset!CredentialPresent, Asset!Ids
  <1> QED
    BY <1>5, <1>6, <1>7, <1>8, <1>9, <1>10, <1>11 DEF AssetInv

\* A row that is being disconnected is held by no callback.
LEMMA ClosingUnheld ==
  ASSUME AssetInv, NEW i \in closing
  PROVE  i \in DOMAIN row /\ \A q \in Requests : i \notin Asset!HeldRows(q)
  BY DEF AssetInv, WritersApart, Asset!TypeOK, Asset!Ids

\* The credential goes first, the status with the commit; a lost request leaves the
\* row connected without its credential.
LEMMA DisconnectKeeps ==
  ASSUME AssetInv, NEW i \in DOMAIN row,
         \/ Asset!DisconnectBegin(i) \/ Asset!DisconnectCommit(i) \/ Asset!DisconnectLost(i)
  PROVE  AssetInv' /\ Asset!ReconnectionIsFresh
  <1>1. /\ Asset!IsTable(row) /\ faults \in 0 .. MaxFaults
        /\ store \subseteq 1 .. refs /\ closing \subseteq DOMAIN row
    BY DEF AssetInv, Asset!TypeOK, Asset!Ids
  <1>2. row[i] \in Asset!Row /\ row[i].status \in Asset!Statuses
    BY <1>1 DEF Asset!IsTable, Asset!Row
  <1>3. CASE Asset!DisconnectBegin(i)
    <2>1. /\ i \notin closing /\ \A q \in Requests : i \notin Asset!HeldRows(q)
          /\ store' = store \ {row[i].ref} /\ closing' = closing \cup {i}
          /\ UNCHANGED <<oauth, row, refs, cb, faults, exchanged, undone, forgotten>>
      BY <1>3 DEF Asset!DisconnectBegin, Asset!Unlocked
    <2>2. \A j \in DOMAIN row :
            /\ row'[j] \in Asset!Row
            /\ row'[j].x = row[j].x /\ row'[j].ref = row[j].ref
            /\ row'[j].status = IF j = i THEN row[i].status ELSE row[j].status
      BY <1>1, <2>1 DEF Asset!IsTable
    <2>3. AssetInv'
      BY <1>1, <1>2, <2>1, <2>2, RowStepKeeps
    <2> QED
      BY <2>1, <2>3 DEF Asset!ReconnectionIsFresh
  <1>4. CASE Asset!DisconnectCommit(i)
    <2>1. /\ i \in closing /\ row' = [row EXCEPT ![i].status = "disconnected"]
          /\ closing' = closing \ {i}
          /\ undone' = undone \ {i}
          /\ UNCHANGED <<oauth, store, refs, cb, faults, exchanged, forgotten>>
      BY <1>4 DEF Asset!DisconnectCommit
    <2>2. \A j \in DOMAIN row :
            /\ row'[j] \in Asset!Row
            /\ row'[j].x = row[j].x /\ row'[j].ref = row[j].ref
            /\ row'[j].status = IF j = i THEN "disconnected" ELSE row[j].status
      BY <1>1, <2>1 DEF Asset!IsTable, Asset!Row, Asset!Statuses
    <2>3. DOMAIN row' = DOMAIN row /\ "disconnected" \in Asset!Statuses
      BY <2>1 DEF Asset!Statuses
    <2>4. row[i].ref \notin store /\ \A q \in Requests : i \notin Asset!HeldRows(q)
      BY <2>1, ClosingUnheld DEF AssetInv, CredentialsGone
    <2>5. AssetInv'
      BY <1>1, <2>1, <2>2, <2>3, <2>4, RowStepKeeps
    <2> QED
      BY <2>2, <2>5 DEF Asset!ReconnectionIsFresh, Asset!Ids
  <1>5. CASE Asset!DisconnectLost(i)
    <2>1. /\ i \in closing /\ faults < MaxFaults /\ faults' = faults + 1
          /\ closing' = closing \ {i} /\ undone' = undone \cup {i}
          /\ UNCHANGED <<oauth, row, store, refs, cb, exchanged, forgotten>>
      BY <1>5 DEF Asset!DisconnectLost
    <2>2. \A j \in DOMAIN row :
            /\ row'[j] \in Asset!Row
            /\ row'[j].x = row[j].x /\ row'[j].ref = row[j].ref
            /\ row'[j].status = IF j = i THEN row[i].status ELSE row[j].status
      BY <1>1, <2>1 DEF Asset!IsTable
    <2>3. faults' \in 0 .. MaxFaults
      BY <1>1, <2>1, AssetConstants
    <2>4. row[i].ref \notin store /\ \A q \in Requests : i \notin Asset!HeldRows(q)
      BY <2>1, ClosingUnheld DEF AssetInv, CredentialsGone
    <2>5. AssetInv'
      BY <1>1, <1>2, <2>1, <2>2, <2>3, <2>4, RowStepKeeps
    <2> QED
      BY <2>1, <2>5 DEF Asset!ReconnectionIsFresh
  <1> QED
    BY <1>3, <1>4, <1>5

\* What the provider says of an asset never revives a credential.
LEMMA RevalidateKeeps ==
  ASSUME AssetInv, NEW i \in DOMAIN row, NEW status \in Asset!Statuses,
         Asset!Revalidate(i, status)
  PROVE  AssetInv' /\ Asset!ReconnectionIsFresh
  <1>1. /\ i \notin closing /\ \A q \in Requests : i \notin Asset!HeldRows(q)
        /\ row' = [row EXCEPT ![i].status = status]
        /\ UNCHANGED <<oauth, store, refs, cb, closing, faults, exchanged, undone, forgotten>>
    BY DEF Asset!Revalidate, Asset!Unlocked
  <1>2. /\ status # "disconnected"
        /\ status = "connected" =>
             /\ row[i].ref \in store
             /\ \/ row[i].x \in AdAccounts
                \/ /\ \A j \in DOMAIN row \ {i} : row[j].x # row[i].x \/ row[j].status # "connected"
                   /\ \A q \in Requests : ~Asset!Claims(q, row[i].x)
    BY DEF Asset!Revalidate, Asset!Revalidated, Asset!Ids
  <1>3. Asset!IsTable(row) /\ faults \in 0 .. MaxFaults
    BY DEF AssetInv, Asset!TypeOK
  <1>4. \A j \in DOMAIN row :
          /\ row'[j] \in Asset!Row
          /\ row'[j].x = row[j].x /\ row'[j].ref = row[j].ref
          /\ row'[j].status = IF j = i THEN status ELSE row[j].status
    BY <1>1, <1>3 DEF Asset!IsTable, Asset!Row
  <1>5. DOMAIN row' = DOMAIN row
    BY <1>1
  <1>6. AssetInv'
    BY <1>1, <1>2, <1>3, <1>4, <1>5, RowStepKeeps
  <1>7. Asset!ReconnectionIsFresh
    BY <1>2, <1>4 DEF AssetInv, CredentialsGone, Asset!ReconnectionIsFresh, Asset!Ids
  <1> QED
    BY <1>6, <1>7

\* A restart empties the store and gives every request up.
LEMMA AssetRestartKeeps ==
  ASSUME AssetInv, Asset!Restart
  PROVE  AssetInv'
  <1>1. /\ faults < MaxFaults /\ faults' = faults + 1 /\ store' = {} /\ forgotten' = refs
        /\ cb' = [r \in Requests |-> Asset!Idle] /\ closing' = {}
        /\ UNCHANGED <<oauth, row, refs, exchanged, undone>>
    BY DEF Asset!Restart
  <1>2. \A q \in Requests : Asset!HeldRows(q)' = {} /\ Asset!Written(q)' = {}
    <2>1. \A q \in Requests : Asset!New(q)' = <<>> /\ Asset!Written(q)' = {}
      BY <1>1 DEF Asset!New, Asset!Written, Asset!Writing, Asset!Idle
    <2> QED
      BY <2>1 DEF Asset!HeldRows
  <1>3. Asset!TypeOK'
    BY <1>1, AssetConstants DEF AssetInv, Asset!TypeOK, Asset!IsTable, Asset!IsCallback, Asset!Ids
  <1>4. RoundTrips' /\ CredentialsApart' /\ WritersApart' /\ CredentialsGone'
    BY <1>1, <1>2 DEF AssetInv, RoundTrips, CredentialsApart, WritersApart, CredentialsGone
  <1>5. IndexHolds'
    <2>1. \A q \in Requests : Asset!View(q)' = [i \in DOMAIN row |-> row[i]]
      BY <1>1, <1>2 DEF Asset!View, Asset!Ids
    <2> QED
      BY <1>1, <2>1 DEF AssetInv, IndexHolds, OneOwner
  <1>6. Asset!CredentialPresent'
    BY <1>1 DEF AssetInv, CredentialsApart, Asset!CredentialPresent, Asset!Ids
  <1> QED
    BY <1>3, <1>4, <1>5, <1>6 DEF AssetInv

\* Every step of ChannelAssets keeps the invariant, and what is disconnected comes
\* back only with a new credential.
LEMMA AssetNext ==
  ASSUME AssetInv, Asset!Next
  PROVE  AssetInv' /\ Asset!ReconnectionIsFresh
  <1>1. (row' = row) => Asset!ReconnectionIsFresh
    BY DEF Asset!ReconnectionIsFresh
  <1>2. ASSUME NEW s \in States, NEW t \in Owners,
               Asset!StartConnection(s, t) \/ Asset!StateExpires(s) \/ Asset!RejectOAuth(s)
        PROVE  AssetInv' /\ Asset!ReconnectionIsFresh
    BY <1>1, <1>2, StateStepKeeps
       DEF Asset!StartConnection, Asset!StateExpires, Asset!RejectOAuth, Asset!assetSame
  <1>3. ASSUME NEW s \in States, Asset!StateExpires(s) \/ Asset!RejectOAuth(s)
        PROVE  AssetInv' /\ Asset!ReconnectionIsFresh
    <2>1. oauth[s].t \in Owners
      BY <1>3 DEF Asset!StateExpires, Asset!RejectOAuth, Asset!Consumable, AssetInv,
                  Asset!TypeOK, Asset!State
    <2> QED
      BY <1>2, <1>3, <2>1
  <1>4. ASSUME NEW r \in Requests, NEW s \in States, Asset!CompleteBegin(r, s)
        PROVE  AssetInv' /\ Asset!ReconnectionIsFresh
    BY <1>1, <1>4, CompleteBeginKeeps DEF Asset!CompleteBegin, Asset!assetSame
  <1>5. ASSUME NEW r \in Requests, Asset!RemoteFails(r) \/ \E f \in Found : Asset!Discover(r, f)
        PROVE  AssetInv' /\ Asset!ReconnectionIsFresh
    <2>1. row' = row
      BY <1>5 DEF Asset!RemoteFails, Asset!Discover, Asset!assetSame
    <2> QED
      BY <1>1, <1>5, <2>1, RemoteKeeps
  <1>6. ASSUME NEW r \in Requests, NEW i \in Asset!RowIds, Asset!Select(r, i) \/ Asset!Flush(r, i)
        PROVE  AssetInv' /\ Asset!ReconnectionIsFresh
    <2>1. row' = row
      BY <1>6 DEF Asset!Select, Asset!Flush
    <2> QED
      BY <1>1, <1>6, <2>1, SelectKeeps, FlushKeeps, FlushRefusedKeeps
  <1>7. ASSUME NEW r \in Requests, Asset!Commit(r) \/ Asset!CallbackLost(r)
        PROVE  AssetInv' /\ Asset!ReconnectionIsFresh
    BY <1>1, <1>7, AssetCommitKeeps, CallbackLostKeeps DEF Asset!CallbackLost
  <1>8. ASSUME NEW i \in DOMAIN row,
               \/ Asset!DisconnectBegin(i) \/ Asset!DisconnectCommit(i) \/ Asset!DisconnectLost(i)
               \/ \E status \in Asset!Statuses : Asset!Revalidate(i, status)
        PROVE  AssetInv' /\ Asset!ReconnectionIsFresh
    BY <1>8, DisconnectKeeps, RevalidateKeeps
  <1>9. Asset!Restart => AssetInv' /\ Asset!ReconnectionIsFresh
    BY <1>1, AssetRestartKeeps DEF Asset!Restart
  <1> QED
    BY <1>2, <1>3, <1>4, <1>5, <1>6, <1>7, <1>8, <1>9 DEF Asset!Next, Asset!Ids

\* Nothing is connected at first.
LEMMA AssetInit == Asset!Init => AssetInv
  <1> SUFFICES ASSUME Asset!Init
               PROVE  AssetInv
    OBVIOUS
  <1>1. /\ oauth = [s \in States |-> [t |-> NoOne, used |-> FALSE, live |-> TRUE]]
        /\ row = <<>> /\ store = {} /\ refs = 0 /\ cb = [r \in Requests |-> Asset!Idle]
        /\ closing = {} /\ faults = 0 /\ exchanged = [s \in States |-> 0] /\ undone = {} /\ forgotten = 0
        /\ DOMAIN row = {}
    BY DEF Asset!Init
  <1>2. \A q \in Requests : /\ Asset!New(q) = <<>> /\ Asset!HeldRows(q) = {}
                             /\ Asset!Written(q) = {}
    BY <1>1 DEF Asset!New, Asset!HeldRows, Asset!Written, Asset!Writing, Asset!Idle
  <1>3. \A q \in Requests : DOMAIN Asset!View(q) = {}
    BY <1>1, <1>2 DEF Asset!View, Asset!Ids
  <1>4. Asset!TypeOK
    BY <1>1, AssetConstants
       DEF Asset!TypeOK, Asset!IsTable, Asset!IsCallback, Asset!State, Asset!Ids
  <1>5. RoundTrips
    BY <1>1 DEF RoundTrips
  <1>6. CredentialsApart /\ WritersApart
    BY <1>1, <1>2 DEF CredentialsApart, WritersApart
  <1>7. IndexHolds
    BY <1>1, <1>3 DEF IndexHolds, OneOwner
  <1>8. CredentialsGone /\ Asset!CredentialPresent
    BY <1>1 DEF CredentialsGone, Asset!CredentialPresent, Asset!Ids
  <1> QED
    BY <1>4, <1>5, <1>6, <1>7, <1>8 DEF AssetInv

\* The other parts leave the assets alone.
LEMMA AssetStep ==
  ASSUME AssetInv, [Next]_vars
  PROVE  AssetInv' /\ [Asset!ReconnectionIsFresh]_vars
  <1>1. CASE UNCHANGED assetVars
    <2>1. /\ UNCHANGED <<oauth, cb, faults, exchanged>> /\ UNCHANGED Asset!assetSame
          /\ UNCHANGED <<row, store, refs, closing, undone, forgotten>>
      BY <1>1 DEF assetVars, Asset!assetSame
    <2>2. Asset!TypeOK'
      BY <2>1 DEF AssetInv, Asset!TypeOK, Asset!IsTable, Asset!IsCallback, Asset!Ids
    <2>3. RoundTrips' /\ \A q \in Requests : /\ Asset!New(q)' = Asset!New(q)
                                             /\ Asset!Written(q)' = Asset!Written(q)
      BY <2>1 DEF AssetInv, RoundTrips, Asset!New, Asset!Written, Asset!HeldRows, Asset!Writing
    <2> QED
      BY <2>1, <2>2, <2>3, TablesSame DEF Asset!ReconnectionIsFresh
  <1>2. CASE Asset!Next
    BY <1>2, AssetNext
  <1> QED
    BY <1>1, <1>2 DEF Next, vars

\* An inbound event finds at most one owner, and an OAuth state is exchanged once.
LEMMA AssetIsSafe ==
  ASSUME AssetInv
  PROVE  Asset!RouteUnambiguous /\ Asset!StateUsedOnce
  <1>1. ASSUME NEW x \in Externals \ AdAccounts
        PROVE  Asset!Route(x) # "ambiguous_asset"
    <2> DEFINE C == Asset!Candidates(x)
    <2>1. \A i, j \in C : i = j
      BY DEF AssetInv, IndexHolds, OneOwner, Asset!Candidates, Asset!Ids
    <2>2. C # {} => Asset!Cardinality(C) = 1
      <3> SUFFICES ASSUME C # {}
                   PROVE  Asset!Cardinality(C) = 1
        OBVIOUS
      <3>1. PICK i : i \in C
        OBVIOUS
      <3>2. C = {i}
        BY <2>1, <3>1
      <3>3. Cardinality(C) = 1
        BY <3>2, FS_Singleton
      <3> QED
        BY <3>3 DEF Asset!Cardinality, Cardinality
    <2> HIDE DEF C
    <2>3. CASE C = {}
      <3>1. Asset!Cardinality(C) = 0
        BY <2>3, FS_EmptySet DEF Asset!Cardinality, Cardinality
      <3> QED
        BY <2>3, <3>1 DEF Asset!Route, C
    <2>4. CASE C # {}
      <3>1. Asset!Cardinality(C) = 1 /\ ~(Asset!Cardinality(C) > 1)
        BY <2>2, <2>4
      <3> QED
        BY <2>4, <3>1 DEF Asset!Route, C
    <2> QED
      BY <2>3, <2>4
  <1>2. Asset!StateUsedOnce
    BY DEF AssetInv, RoundTrips, Asset!StateUsedOnce
  <1> QED
    BY <1>1, <1>2 DEF Asset!RouteUnambiguous

\* meta_oauth.py, channel_assets.py: inbound events never find two owners of an
\* asset, an OAuth state is exchanged once, a connected asset has its credential
\* unless a restart or a failed request took it, and a disconnected one comes back
\* only with a new credential.
THEOREM AssetsAreSafe == Spec => AssetSafety
  <1>1. Init => AssetInv
    BY AssetInit DEF Init
  <1>2. AssetInv /\ [Next]_vars => AssetInv' /\ [Asset!ReconnectionIsFresh]_vars
    BY AssetStep
  <1>3. AssetInv => /\ Asset!TypeOK /\ Asset!RouteUnambiguous
                    /\ Asset!StateUsedOnce /\ Asset!CredentialPresent
    BY AssetIsSafe DEF AssetInv
  <1> QED
    BY <1>1, <1>2, <1>3, PTL DEF Spec, AssetSafety

-----------------------------------------------------------------------------
(* Settings: windows of a day, and the columns that are written.           *)

\* A day that the validators enumerate is a sequence of windows.
LEMMA DaysAreSequences == Settings!Days \subseteq Seq(Settings!Windows)
  <1> SUFFICES ASSUME NEW n \in 0 .. MaxWindows, NEW day \in [1 .. n -> Settings!Windows]
               PROVE  day \in Seq(Settings!Windows)
    BY DEF Settings!Days
  <1>1. MaxWindows \in Nat
    BY CompanyAssumption DEF Settings!SettingsAssumption
  <1>2. n \in Nat
    BY <1>1
  <1>3. day \in Seq(Settings!Windows)
    BY <1>2
  <1> QED
    BY <1>3

\* The positions and times of a day are numbers.
LEMMA WindowsOfDay ==
  ASSUME NEW day \in Seq(Settings!Windows)
  PROVE  /\ DOMAIN day \in SUBSET Nat
         /\ \A i \in DOMAIN day : /\ day[i].open \in Nat /\ day[i].close \in Nat
                                  /\ day[i].open < day[i].close
  <1>1. DOMAIN day = 1 .. Len(day) /\ Len(day) \in Nat
        /\ \A i \in DOMAIN day : day[i] \in Settings!Windows
    OBVIOUS
  <1>2. Hours \subseteq Nat
    BY CompanyAssumption DEF Settings!SettingsAssumption
  <1>3. \A w \in Settings!Windows : w.open \in Nat /\ w.close \in Nat /\ w.open < w.close
    BY <1>2 DEF Settings!Windows
  <1> QED
    BY <1>1, <1>3

\* Between a window and a later one lies its neighbour: of those that are later,
\* the first by opening and then by position.
LEMMA NextWindow ==
  ASSUME NEW day \in Seq(Settings!Windows), NEW i \in DOMAIN day, NEW j \in DOMAIN day,
         Settings!Sooner(day, i, j)
  PROVE  \E s \in DOMAIN day : Settings!Adjacent(day, i, s) /\ day[s].open <= day[j].open
  <1> DEFINE Later  == {k \in DOMAIN day : Settings!Sooner(day, i, k)}
             Opens  == {day[k].open : k \in Later}
  <1>1. Opens \in SUBSET Nat /\ Opens # {} /\ day[j].open \in Opens
    BY WindowsOfDay
  <1>2. PICK m \in Opens : \A o \in Opens : m <= o
    <2> HIDE DEF Opens
    <2> QED
      BY <1>1, LeastNumber
  <1> DEFINE First == {k \in Later : day[k].open = m}
  <1>3. First \in SUBSET Nat /\ First # {}
    BY WindowsOfDay
  <1>4. PICK s \in First : \A k \in First : s <= k
    <2> HIDE DEF First
    <2> QED
      BY <1>3, LeastNumber
  <1>5. s \in DOMAIN day /\ Settings!Sooner(day, i, s) /\ day[s].open = m
    BY <1>4
  <1>6. ASSUME NEW k \in DOMAIN day, Settings!Sooner(day, i, k), Settings!Sooner(day, k, s)
        PROVE  FALSE
    <2>1. k \in Later /\ m <= day[k].open
      BY <1>2, <1>6
    <2>2. day[k].open \in Nat /\ day[s].open \in Nat /\ k \in Nat /\ s \in Nat
      BY <1>5, WindowsOfDay
    <2>3. day[k].open = m /\ k < s
      BY <2>1, <2>2, <1>5, <1>6 DEF Settings!Sooner
    <2> QED
      BY <2>1, <2>2, <2>3, <1>4
  <1>7. day[s].open <= day[j].open
    BY <1>1, <1>2, <1>5
  <1> QED
    BY <1>5, <1>6, <1>7 DEF Settings!Adjacent

\* no_overlaps compares neighbours only, and that is enough for every pair.
LEMMA NeighboursSuffice ==
  ASSUME NEW day \in Seq(Settings!Windows), Settings!NoOverlaps(day),
         NEW i \in DOMAIN day, NEW j \in DOMAIN day, i # j
  PROVE  day[i].close <= day[j].open \/ day[j].close <= day[i].open
  <1>1. ASSUME NEW a \in DOMAIN day, NEW b \in DOMAIN day, Settings!Sooner(day, a, b)
        PROVE  day[a].close <= day[b].open
    <2>1. PICK s \in DOMAIN day : Settings!Adjacent(day, a, s) /\ day[s].open <= day[b].open
      BY <1>1, NextWindow
    <2>2. ~(day[s].open < day[a].close)
      BY <2>1 DEF Settings!NoOverlaps
    <2> QED
      BY <2>1, <2>2, WindowsOfDay
  <1>2. Settings!Sooner(day, i, j) \/ Settings!Sooner(day, j, i)
    BY WindowsOfDay DEF Settings!Sooner
  <1> QED
    BY <1>1, <1>2

\* What a request has prepared for its commit.
Prepared == [at : {"get", "put"}, insert : BOOLEAN, seen : Settings!Columns,
             new : Settings!Columns]

\* Hours that were validated are everywhere: in the row, in what a request read or
\* brings, in the last audit event.  A first reader inserts the defaults.
SettingsInv ==
  /\ Settings!TypeOK /\ Settings!StoredAsAudited
  /\ Settings!NoOverlaps(settings.hours) /\ Settings!NoOverlaps(audited.hours)
  /\ \A r \in Requests : settingsReq[r] # Settings!Idle =>
       /\ Settings!NoOverlaps(settingsReq[r].seen.hours)
       /\ Settings!NoOverlaps(settingsReq[r].new.hours)
       /\ settingsReq[r].at = "get" => /\ settingsReq[r].insert
                              /\ settingsReq[r].new = Settings!Defaults
                              /\ settingsReq[r].seen = Settings!Defaults
  /\ settings = Settings!NoRow => audited = Settings!Defaults

\* The defaults are settings with no hours, and the missing row is none.
LEMMA SettingsFacts ==
  /\ Settings!Defaults \in Settings!Columns /\ Settings!NoRow \notin Settings!Columns
  /\ Settings!NoOverlaps(Settings!Defaults.hours) /\ Settings!NoOverlaps(Settings!NoRow.hours)
  /\ \A p \in Settings!Columns : p.hours \in Seq(Settings!Windows)
  <1>1. MaxWindows \in Nat /\ Policies # {} /\ "no row" \notin Policies
    BY CompanyAssumption DEF Settings!SettingsAssumption
  <1>2. Settings!Defaults.hours = <<>> /\ Settings!Defaults.policy \in Policies
    BY <1>1 DEF Settings!Defaults
  <1>4. <<>> \in Seq(Settings!Windows)
    OBVIOUS
  <1>5. Settings!Defaults \in Settings!Columns
    BY <1>2, <1>4 DEF Settings!Columns, Settings!Defaults
  <1>6. Settings!NoOverlaps(<<>>)
    BY DEF Settings!NoOverlaps
  <1>7. Settings!NoRow.policy = "no row" /\ Settings!NoRow.hours = <<>>
    BY DEF Settings!NoRow
  <1> QED
    BY <1>1, <1>2, <1>5, <1>6, <1>7 DEF Settings!Columns

\* No row, and defaults that the audit has not contradicted.
LEMMA SettingsInit == Settings!Init => SettingsInv
  BY SettingsFacts
     DEF Settings!Init, SettingsInv, Settings!TypeOK, Settings!StoredAsAudited

\* What a request reads was validated.
LEMMA LoadedType ==
  ASSUME SettingsInv
  PROVE  Settings!Loaded \in Settings!Columns /\ Settings!NoOverlaps(Settings!Loaded.hours)
  BY SettingsFacts DEF SettingsInv, Settings!TypeOK, Settings!Loaded

\* A first reader prepares the insert of the defaults.
LEMMA GetKeeps ==
  ASSUME SettingsInv, NEW r \in Requests, Settings!GetSettings(r)
  PROVE  SettingsInv'
  <1> DEFINE q == [at |-> "get", insert |-> TRUE, seen |-> Settings!Loaded, new |-> Settings!Loaded]
  <1>1. /\ settingsReq' = [settingsReq EXCEPT ![r] = q]
        /\ UNCHANGED <<settings, puts, audited, crossed>>
        /\ Settings!Loaded = Settings!Defaults
    BY DEF Settings!GetSettings, Settings!Loaded
  <1>2. /\ q \in Prepared
        /\ q.insert /\ q.seen = Settings!Loaded /\ q.new = Settings!Loaded
    BY LoadedType DEF Prepared
  <1> HIDE DEF q
  <1>3. Settings!TypeOK'
    BY <1>1, <1>2 DEF SettingsInv, Settings!TypeOK, Prepared
  <1>4. \A s \in Requests : settingsReq'[s] = IF s = r THEN q ELSE settingsReq[s]
    BY <1>1 DEF SettingsInv, Settings!TypeOK, Prepared
  <1> QED
    BY <1>1, <1>2, <1>3, <1>4, LoadedType DEF SettingsInv, Settings!StoredAsAudited

\* A replacement brings validated hours.
LEMMA PutKeeps ==
  ASSUME SettingsInv, NEW r \in Requests, NEW p \in Settings!Payloads, Settings!PutSettings(r, p)
  PROVE  SettingsInv'
  <1> DEFINE q == [at |-> "put", insert |-> settings = Settings!NoRow,
                   seen |-> Settings!Loaded, new |-> p]
  <1>1. /\ settingsReq' = [settingsReq EXCEPT ![r] = q]
        /\ UNCHANGED <<settings, audited, crossed>>
    BY DEF Settings!PutSettings
  <1>2. /\ q \in Prepared
        /\ q.at = "put" /\ q.seen = Settings!Loaded /\ q.new = p /\ Settings!NoOverlaps(p.hours)
    <2>1. p \in Settings!Columns /\ Settings!NoOverlaps(p.hours)
      BY DaysAreSequences DEF Settings!Payloads, Settings!Columns
    <2> QED
      BY <2>1, LoadedType DEF Prepared
  <1> HIDE DEF q
  <1>3. Settings!TypeOK'
    BY <1>1, <1>2 DEF SettingsInv, Settings!TypeOK, Prepared
  <1>4. \A s \in Requests : settingsReq'[s] = IF s = r THEN q ELSE settingsReq[s]
    BY <1>1 DEF SettingsInv, Settings!TypeOK, Prepared
  <1> QED
    BY <1>1, <1>2, <1>3, <1>4, LoadedType DEF SettingsInv, Settings!StoredAsAudited

\* A commit writes either the hours it brings or leaves those it meets; when it
\* meets what it read, the row becomes what the audit says.
LEMMA CommitKeeps ==
  ASSUME SettingsInv, NEW r \in Requests, Settings!Commit(r)
  PROVE  SettingsInv'
  <1> DEFINE q == settingsReq[r]
  <1>1. /\ q.at \in {"get", "put"}
        /\ q.insert => settings = Settings!NoRow
        /\ settings' = Settings!Flushed(q.seen, q.new)
        /\ audited' = IF q.at = "put" THEN q.new ELSE audited
        /\ crossed' = (Settings!Loaded # q.seen)
        /\ settingsReq' = [settingsReq EXCEPT ![r] = Settings!Idle]
    BY DEF Settings!Commit
  <1>2. q # Settings!Idle
    BY <1>1 DEF Settings!Idle
  <1>3. /\ q \in Prepared
        /\ Settings!NoOverlaps(q.seen.hours) /\ Settings!NoOverlaps(q.new.hours)
        /\ q.at = "get" => /\ q.insert /\ q.new = Settings!Defaults /\ q.seen = Settings!Defaults
    BY <1>2 DEF SettingsInv, Settings!TypeOK, Prepared
  <1>4. q.seen \in Settings!Columns /\ q.new \in Settings!Columns
    BY <1>3 DEF Prepared
  <1> HIDE DEF q
  <1>5. /\ settings' \in Settings!Columns
        /\ settings'.hours \in {Settings!Loaded.hours, q.new.hours}
        /\ Settings!Loaded = q.seen => settings' = q.new
    BY <1>1, <1>4, LoadedType DEF Settings!Flushed, Settings!Columns
  <1>6. Settings!NoOverlaps(settings'.hours)
    BY <1>3, <1>5, LoadedType
  <1>7. settingsReq' \in [Requests -> {Settings!Idle} \cup Prepared]
    BY <1>1 DEF SettingsInv, Settings!TypeOK, Prepared
  <1>8. audited' \in Settings!Columns /\ Settings!NoOverlaps(audited'.hours)
    BY <1>1, <1>3, <1>4 DEF SettingsInv, Settings!TypeOK, Prepared
  <1>9. Settings!TypeOK'
    BY <1>5, <1>7, <1>8 DEF Settings!TypeOK, Prepared
  <1>10. \A s \in Requests : settingsReq'[s] = IF s = r THEN Settings!Idle ELSE settingsReq[s]
    BY <1>1 DEF SettingsInv, Settings!TypeOK, Prepared
  <1>11. Settings!StoredAsAudited'
    <2>1. CASE q.at = "put"
      BY <2>1, <1>1, <1>5 DEF Settings!StoredAsAudited
    <2>2. CASE q.at = "get"
      <3>1. audited' = Settings!Defaults /\ q.new = Settings!Defaults
        BY <2>2, <1>1, <1>3 DEF SettingsInv
      <3> QED
        BY <3>1, <1>1, <1>5 DEF Settings!StoredAsAudited
    <2> QED
      BY <2>1, <2>2, <1>1
  <1>12. settings' # Settings!NoRow
    BY <1>5, SettingsFacts
  <1> QED
    BY <1>6, <1>8, <1>9, <1>10, <1>11, <1>12 DEF SettingsInv

\* A collision writes nothing.
LEMMA CollideKeeps ==
  ASSUME SettingsInv, NEW r \in Requests, Settings!Collide(r)
  PROVE  SettingsInv'
  BY DEF Settings!Collide, SettingsInv, Settings!TypeOK, Settings!StoredAsAudited

\* Every step of the settings keeps the invariant, the others leave it.
LEMMA SettingsStep == SettingsInv /\ [Next]_vars => SettingsInv'
  <1> SUFFICES ASSUME SettingsInv, [Next]_vars
               PROVE  SettingsInv'
    OBVIOUS
  <1>1. CASE UNCHANGED settingsVars
    BY <1>1 DEF settingsVars, SettingsInv, Settings!TypeOK, Settings!StoredAsAudited,
           Settings!NoOverlaps, Settings!Adjacent, Settings!Sooner
  <1>2. CASE SettingsNext
    BY <1>2, GetKeeps, PutKeeps, CommitKeeps, CollideKeeps DEF SettingsNext, Payloads
  <1> QED
    BY <1>1, <1>2 DEF Next, vars

\* TenantSettingsPayload and update_settings: the stored windows never overlap, and
\* the row is what the last audit event gives unless two replacements crossed.
THEOREM SettingsAreSafe == Spec => []SettingsSafety
  <1>1. Init => SettingsInv
    BY SettingsInit DEF Init
  <1>2. SettingsInv /\ [Next]_vars => SettingsInv'
    BY SettingsStep
  <1>3. SettingsInv => SettingsSafety
    <2> SUFFICES ASSUME SettingsInv
                 PROVE  Settings!HoursDisjoint
      BY DEF SettingsInv, SettingsSafety
    <2>1. CASE settings = Settings!NoRow
      <3>1. settings.hours = <<>>
        BY <2>1 DEF Settings!NoRow
      <3>2. DOMAIN settings.hours = {}
        BY <3>1
      <3> QED
        BY <3>2 DEF Settings!HoursDisjoint
    <2>2. CASE settings # Settings!NoRow
      <3>1. settings.hours \in Seq(Settings!Windows)
        BY <2>2, SettingsFacts DEF SettingsInv, Settings!TypeOK
      <3> QED
        BY <3>1, NeighboursSuffice DEF SettingsInv, Settings!HoursDisjoint
    <2> QED
      BY <2>1, <2>2
  <1> QED
    BY <1>1, <1>2, <1>3, PTL DEF Spec

-----------------------------------------------------------------------------
(* The request limit.                                                      *)

\* The positions of s with a time later than x.
After(s, x) == {n \in DOMAIN s : s[n] > x}

\* The requests of key k that were allowed later than x.
Allowed(k, x) ==
  {j \in DOMAIN served : /\ served[j].allowed
                         /\ served[j].client = k[1]
                         /\ served[j].path = k[2]
                         /\ served[j].at > x}

\* The keys that the limiter counts.
Limited == Clients \X (Paths \ Exempt)

\* A queue is in order of time and has no time to come.
QueuesInOrder ==
  \A k \in Clients \X Paths :
    /\ \A m, n \in DOMAIN events[k] : m <= n => events[k][m] <= events[k][n]
    /\ \A n \in DOMAIN events[k] : events[k][n] <= now

\* For every time within the last window, a queue counts the requests allowed
\* since.
QueuesExact ==
  \A k \in Limited : \A x \in Int :
    x >= now - Window => Cardinality(Allowed(k, x)) = Cardinality(After(events[k], x))

\* What the history says of a request.
Answers == [client : Clients, path : Paths, at : 0 .. MaxTime, allowed : BOOLEAN]

\* The inductive invariant of RateLimit.
RateInv ==
  /\ Rate!TypeOK /\ Rate!WindowExact
  /\ events \in [Clients \X Paths -> Seq(0 .. MaxTime)]
  /\ served \in Seq(Answers)
  /\ QueuesInOrder /\ QueuesExact

\* What is known of the constants.
LEMMA RateConstants ==
  /\ AuthLimit \in Nat /\ PathLimit \in Nat /\ Window \in Nat \ {0} /\ MaxTime \in Nat
  /\ Exempt \subseteq Paths
  /\ \A path : Rate!Limits(path) \in Nat
  BY CompanyAssumption DEF Rate!LimitAssumption, Rate!Limits

\* The instance counts as the library does.
LEMMA RateCardinality == \A S : Rate!Cardinality(S) = Cardinality(S)
  BY DEF Rate!Cardinality, Cardinality

\* The positions of a sequence are finitely many.
LEMMA DomainsFinite ==
  ASSUME NEW T, NEW s \in Seq(T), NEW S \in SUBSET DOMAIN s
  PROVE  IsFiniteSet(S) /\ Cardinality(S) \in Nat
  <1>1. DOMAIN s = 1 .. Len(s) /\ Len(s) \in Nat
    OBVIOUS
  <1>2. IsFiniteSet(1 .. Len(s))
    BY <1>1, FS_Interval
  <1>3. IsFiniteSet(S)
    BY <1>1, <1>2, FS_Subset
  <1> QED
    BY <1>3, FS_CardinalityType

\* popleft takes exactly what lies a window back.
LEMMA PoppedIsExpired ==
  ASSUME RateInv, NEW k \in Clients \X Paths
  PROVE  /\ Rate!Popped(k) \in 0 .. Len(events[k])
         /\ \A n \in 1 .. Rate!Popped(k) : events[k][n] <= now - Window
         /\ \A n \in Rate!Popped(k) + 1 .. Len(events[k]) : events[k][n] > now - Window
  <1> DEFINE e    == events[k]
             kept == {i \in DOMAIN e : ~Rate!Expired(e[i], now)}
  <1>1. /\ e \in Seq(0 .. MaxTime) /\ now \in Int /\ Window \in Int /\ Len(e) \in Nat
        /\ DOMAIN e = 1 .. Len(e) /\ \A n \in DOMAIN e : e[n] \in Int
    BY RateConstants DEF RateInv, Rate!TypeOK
  <1>2. \A i \in DOMAIN e : i \in kept <=> e[i] > now - Window
    BY <1>1 DEF Rate!Expired
  <1>3. kept \in SUBSET DOMAIN e
    OBVIOUS
  <1>4. \A m, n \in DOMAIN e : m <= n => e[m] <= e[n]
    BY DEF RateInv, QueuesInOrder
  <1>5. Rate!Popped(k) = IF kept = {} THEN Len(e) ELSE Rate!Min(kept) - 1
    BY DEF Rate!Popped
  <1> HIDE DEF kept, e
  <1>6. CASE kept = {}
    <2>1. Rate!Popped(k) = Len(e)
      BY <1>5, <1>6
    <2>2. \A n \in 1 .. Len(e) : e[n] <= now - Window
      <3> SUFFICES ASSUME NEW n \in 1 .. Len(e)
                   PROVE  e[n] <= now - Window
        OBVIOUS
      <3>1. n \in DOMAIN e /\ n \notin kept
        BY <1>1, <1>6
      <3> QED
        BY <3>1, <1>1, <1>2
    <2>3. Len(e) + 1 .. Len(e) = {}
      BY <1>1
    <2> QED
      BY <1>1, <2>1, <2>2, <2>3 DEF e
  <1>7. CASE kept # {}
    <2>1. \E m \in kept : \A i \in kept : m <= i
      <3>1. kept \in SUBSET Nat
        BY <1>1, <1>3
      <3> QED
        BY <3>1, <1>7, LeastNumber
    <2> DEFINE m == Rate!Min(kept)
    <2>2. m \in kept /\ \A i \in kept : m <= i
      BY <2>1 DEF Rate!Min
    <2> HIDE DEF m
    <2>3. m \in 1 .. Len(e) /\ e[m] > now - Window
      BY <2>2, <1>1, <1>2, <1>3
    <2>4. \A n \in 1 .. m - 1 : e[n] <= now - Window
      <3> SUFFICES ASSUME NEW n \in 1 .. m - 1
                   PROVE  e[n] <= now - Window
        OBVIOUS
      <3>1. n \in DOMAIN e /\ ~(m <= n)
        BY <2>3, <1>1
      <3> QED
        BY <3>1, <2>2, <1>1, <1>2
    <2>5. \A n \in m .. Len(e) : e[n] > now - Window
      <3> SUFFICES ASSUME NEW n \in m .. Len(e)
                   PROVE  e[n] > now - Window
        OBVIOUS
      <3>1. n \in DOMAIN e /\ m \in DOMAIN e /\ m <= n
        BY <2>3, <1>1
      <3> QED
        BY <3>1, <2>3, <1>1, <1>4
    <2>6. Rate!Popped(k) = m - 1
      BY <1>5, <1>7 DEF m
    <2> QED
      BY <2>3, <2>4, <2>5, <2>6, <1>1 DEF e
  <1> QED
    BY <1>6, <1>7

\* What is left is the rest of the queue.
LEMMA CurrentShifts ==
  ASSUME RateInv, NEW k \in Clients \X Paths
  PROVE  /\ Rate!Current(k) \in Seq(0 .. MaxTime)
         /\ Len(Rate!Current(k)) = Len(events[k]) - Rate!Popped(k)
         /\ \A n \in 1 .. Len(Rate!Current(k)) : Rate!Current(k)[n] = events[k][n + Rate!Popped(k)]
  <1> DEFINE e == events[k]
             p == Rate!Popped(k)
  <1>1. /\ e \in Seq(0 .. MaxTime) /\ Len(e) \in Nat /\ DOMAIN e = 1 .. Len(e)
        /\ \A n \in DOMAIN e : e[n] \in 0 .. MaxTime
        /\ p \in 0 .. Len(e)
    <2>1. e \in Seq(0 .. MaxTime)
      BY DEF RateInv
    <2>2. p \in 0 .. Len(e)
      BY PoppedIsExpired
    <2> HIDE DEF e, p
    <2>3. Len(e) \in Nat /\ DOMAIN e = 1 .. Len(e)
      BY <2>1
    <2>4. \A n \in DOMAIN e : e[n] \in 0 .. MaxTime
      BY <2>1, RateConstants
    <2> QED
      BY <2>1, <2>2, <2>3, <2>4
  <1>2. Rate!Current(k) = SubSeq(e, p + 1, Len(e))
    BY DEF Rate!Current
  <1> HIDE DEF e, p
  <1>3. \A i \in p + 1 .. Len(e) : e[i] \in 0 .. MaxTime
    BY <1>1
  <1>4. /\ SubSeq(e, p + 1, Len(e)) \in Seq(0 .. MaxTime)
        /\ Len(SubSeq(e, p + 1, Len(e))) = IF p + 1 <= Len(e) THEN Len(e) - (p + 1) + 1 ELSE 0
        /\ \A i \in 1 .. Len(e) - (p + 1) + 1 : SubSeq(e, p + 1, Len(e))[i] = e[p + 1 + i - 1]
    <2>1. p + 1 \in Int /\ Len(e) \in Int
      BY <1>1
    <2> QED
      BY <2>1, <1>3, SubSeqProperties
  <1>5. Len(SubSeq(e, p + 1, Len(e))) = Len(e) - p
    <2>1. p \in Nat /\ p <= Len(e)
      BY <1>1
    <2>2. CASE p + 1 <= Len(e)
      BY <2>1, <2>2, <1>1, <1>4
    <2>3. CASE ~(p + 1 <= Len(e))
      <3>1. p \in Nat /\ Len(e) \in Nat /\ p <= Len(e) /\ ~(p + 1 <= Len(e))
        BY <2>1, <2>3, <1>1
      <3>2. p = Len(e)
        BY <3>1
      <3> QED
        BY <3>2, <2>3, <1>1, <1>4
    <2> QED
      BY <2>2, <2>3
  <1>6. \A i \in 1 .. Len(e) - p : SubSeq(e, p + 1, Len(e))[i] = e[i + p]
    <2> SUFFICES ASSUME NEW i \in 1 .. Len(e) - p
                 PROVE  SubSeq(e, p + 1, Len(e))[i] = e[i + p]
      OBVIOUS
    <2>1. i \in 1 .. Len(e) - (p + 1) + 1 /\ p + 1 + i - 1 = i + p
      BY <1>1
    <2> QED
      BY <2>1, <1>4
  <1> QED
    BY <1>2, <1>4, <1>5, <1>6 DEF e, p

\* It counts the same as the queue for every time within the window.
LEMMA CurrentCounts ==
  ASSUME RateInv, NEW k \in Clients \X Paths, NEW x \in Int, x >= now - Window
  PROVE  Cardinality(After(Rate!Current(k), x)) = Cardinality(After(events[k], x))
  <1> DEFINE e == events[k]
             c == Rate!Current(k)
             p == Rate!Popped(k)
             f == [n \in After(c, x) |-> n + p]
  <1>1. /\ e \in Seq(0 .. MaxTime) /\ Len(e) \in Nat /\ DOMAIN e = 1 .. Len(e)
        /\ \A n \in DOMAIN e : e[n] \in Int
        /\ p \in 0 .. Len(e) /\ now \in Int /\ Window \in Int
    BY PoppedIsExpired, RateConstants DEF RateInv, Rate!TypeOK
  <1>2. /\ c \in Seq(0 .. MaxTime) /\ Len(c) = Len(e) - p /\ DOMAIN c = 1 .. Len(c)
        /\ \A n \in 1 .. Len(c) : c[n] = e[n + p]
    BY CurrentShifts
  <1>3. \A n \in 1 .. p : e[n] <= now - Window
    BY PoppedIsExpired
  <1> HIDE DEF e, c, p
  <1>4. f \in [After(c, x) -> After(e, x)]
    BY <1>1, <1>2 DEF After
  <1>5. \A a, b \in After(c, x) : f[a] = f[b] => a = b
    BY <1>1, <1>2 DEF After
  <1>6. \A n \in After(e, x) : \E a \in After(c, x) : f[a] = n
    <2> SUFFICES ASSUME NEW n \in After(e, x)
                 PROVE  \E a \in After(c, x) : f[a] = n
      OBVIOUS
    <2>1. n \in 1 .. Len(e) /\ e[n] > x
      BY <1>1 DEF After
    <2>2. n > p
      BY <2>1, <1>1, <1>3
    <2>3. n - p \in 1 .. Len(c) /\ c[n - p] = e[n]
      BY <2>1, <2>2, <1>1, <1>2
    <2>4. n - p \in After(c, x)
      BY <2>1, <2>3, <1>2 DEF After
    <2>5. f[n - p] = n
      BY <2>1, <2>4, <1>1
    <2> QED
      BY <2>4, <2>5
  <1>7. f \in Bijection(After(c, x), After(e, x))
    <2> HIDE DEF f
    <2>1. f \in Injection(After(c, x), After(e, x))
      BY <1>4, <1>5 DEF Injection, IsInjective
    <2>2. f \in Surjection(After(c, x), After(e, x))
      BY <1>4, <1>6 DEF Surjection
    <2> QED
      BY <2>1, <2>2 DEF Bijection
  <1>8. ExistsBijection(After(c, x), After(e, x))
    BY <1>7 DEF ExistsBijection
  <1>9. IsFiniteSet(After(c, x))
    BY <1>2, DomainsFinite DEF After
  <1> QED
    BY <1>8, <1>9, FS_Bijection DEF e, c

\* Its length is the number of requests allowed within the window.
LEMMA CurrentIsWindow ==
  ASSUME RateInv, NEW k \in Limited
  PROVE  Len(Rate!Current(k)) = Cardinality(Allowed(k, now - Window))
  <1> DEFINE c == Rate!Current(k)
  <1>1. k \in Clients \X Paths /\ now \in Int /\ Window \in Int /\ now - Window \in Int
    BY RateConstants DEF RateInv, Rate!TypeOK, Limited
  <1>2. /\ c \in Seq(0 .. MaxTime) /\ Len(c) = Len(events[k]) - Rate!Popped(k)
        /\ \A n \in 1 .. Len(c) : c[n] = events[k][n + Rate!Popped(k)]
    BY <1>1, CurrentShifts
  <1>3. /\ Rate!Popped(k) \in 0 .. Len(events[k]) /\ Len(events[k]) \in Nat
        /\ \A n \in Rate!Popped(k) + 1 .. Len(events[k]) : events[k][n] > now - Window
    BY <1>1, PoppedIsExpired DEF RateInv
  <1> HIDE DEF c
  <1>4. \A n \in 1 .. Len(c) : c[n] > now - Window
    <2> SUFFICES ASSUME NEW n \in 1 .. Len(c)
                 PROVE  c[n] > now - Window
      OBVIOUS
    <2>1. n + Rate!Popped(k) \in Rate!Popped(k) + 1 .. Len(events[k])
      BY <1>2, <1>3
    <2> QED
      BY <2>1, <1>2, <1>3
  <1>5. After(c, now - Window) = 1 .. Len(c) /\ Len(c) \in Nat
    BY <1>2, <1>4 DEF After
  <1>6. Cardinality(1 .. Len(c)) = Len(c)
    <2>1. 1 \in Int /\ Len(c) \in Int /\ Len(c) \in Nat
      BY <1>5
    <2>2. Cardinality(1 .. Len(c)) = IF 1 > Len(c) THEN 0 ELSE Len(c) - 1 + 1
      BY <2>1, FS_Interval
    <2> QED
      BY <2>1, <2>2
  <1>7. Cardinality(After(c, now - Window)) = Cardinality(After(events[k], now - Window))
    BY <1>1, CurrentCounts DEF c
  <1>8. Cardinality(Allowed(k, now - Window)) = Cardinality(After(events[k], now - Window))
    BY <1>1 DEF RateInv, QueuesExact
  <1> QED
    BY <1>5, <1>6, <1>7, <1>8 DEF c

\* The history with one more request.
LEMMA ServedGrows ==
  ASSUME RateInv, NEW a \in Answers, served' = Append(served, a)
  PROVE  /\ served' \in Seq(Answers) /\ Len(served) \in Nat
         /\ DOMAIN served' = 1 .. Len(served) + 1 /\ DOMAIN served = 1 .. Len(served)
         /\ \A i \in 1 .. Len(served) : served'[i] = served[i]
         /\ served'[Len(served) + 1] = a
  BY DEF RateInv

\* The answer to a request is exact when it was given by the count of its window;
\* the windows of the earlier requests have not changed.
LEMMA ServedExact ==
  ASSUME RateInv,
         \E a \in Answers :
           /\ served' = Append(served, a)
           /\ a.path \notin Exempt =>
                (a.allowed <=> Cardinality(Allowed(<<a.client, a.path>>, a.at - Window))
                                 < Rate!Limits(a.path))
  PROVE  Rate!WindowExact'
  <1>1. PICK a \in Answers :
           /\ served' = Append(served, a)
           /\ a.path \notin Exempt =>
                (a.allowed <=> Cardinality(Allowed(<<a.client, a.path>>, a.at - Window))
                                 < Rate!Limits(a.path))
    OBVIOUS
  <1>2. /\ Len(served) \in Nat
        /\ DOMAIN served' = 1 .. Len(served) + 1 /\ DOMAIN served = 1 .. Len(served)
        /\ \A i \in 1 .. Len(served) : served'[i] = served[i]
        /\ served'[Len(served) + 1] = a
    BY <1>1, ServedGrows
  <1> SUFFICES ASSUME NEW i \in DOMAIN served', served'[i].path \notin Exempt
               PROVE  served'[i].allowed <=>
                        Rate!Cardinality(Rate!Earlier(i)') < Rate!Limits(served'[i].path)
    BY DEF Rate!WindowExact, Rate!Limits
  <1>3. CASE i \in DOMAIN served
    <2>1. Rate!Earlier(i)' = Rate!Earlier(i)
      BY <1>2, <1>3 DEF Rate!Earlier
    <2>2. served'[i] = served[i]
      BY <1>2, <1>3
    <2>3. served[i].allowed <=> Rate!Cardinality(Rate!Earlier(i)) < Rate!Limits(served[i].path)
      BY <1>3, <2>2 DEF RateInv, Rate!WindowExact
    <2> QED
      BY <2>1, <2>2, <2>3
  <1>4. CASE i = Len(served) + 1
    <2>1. Rate!Earlier(i)' = Allowed(<<a.client, a.path>>, a.at - Window)
      <3>1. i - 1 = Len(served) /\ served'[i] = a
        BY <1>2, <1>4
      <3> QED
        BY <1>2, <3>1 DEF Rate!Earlier, Allowed
    <2> QED
      BY <2>1, <1>1, <1>2, <1>4, RateCardinality
  <1> QED
    BY <1>2, <1>3, <1>4

\* An exempt path is not counted.
LEMMA ExemptKeeps ==
  ASSUME RateInv, NEW client \in Clients, NEW path \in Paths, Rate!ExemptRequest(client, path)
  PROVE  RateInv'
  <1> DEFINE a == [client |-> client, path |-> path, at |-> now, allowed |-> TRUE]
  <1>1. path \in Exempt /\ served' = Append(served, a) /\ UNCHANGED <<now, events>>
    BY DEF Rate!ExemptRequest, Rate!Served
  <1>2. a \in Answers /\ a.path = path
    BY DEF RateInv, Rate!TypeOK, Answers
  <1> HIDE DEF a
  <1>3. Rate!WindowExact'
    BY <1>1, <1>2, ServedExact
  <1>4. /\ served' \in Seq(Answers) /\ Len(served) \in Nat
        /\ DOMAIN served' = 1 .. Len(served) + 1 /\ DOMAIN served = 1 .. Len(served)
        /\ \A i \in 1 .. Len(served) : served'[i] = served[i]
        /\ served'[Len(served) + 1] = a
    BY <1>1, <1>2, ServedGrows
  <1>5. \A k \in Limited : \A x \in Int : Allowed(k, x)' = Allowed(k, x)
    BY <1>1, <1>2, <1>4 DEF Allowed, Limited
  <1>6. QueuesExact' /\ QueuesInOrder' /\ Rate!TypeOK'
    BY <1>1, <1>5 DEF RateInv, QueuesExact, QueuesInOrder, Rate!TypeOK, Rate!Limits, After
  <1> QED
    BY <1>1, <1>3, <1>4, <1>6 DEF RateInv

\* A time more at the end of a queue counts for every time before it.
LEMMA AppendCounts ==
  ASSUME NEW T, NEW s \in Seq(T), NEW t \in Int, NEW x \in Int, t \in T
  PROVE  Cardinality(After(Append(s, t), x)) = Cardinality(After(s, x)) + (IF t > x THEN 1 ELSE 0)
  <1>1. /\ Len(s) \in Nat /\ DOMAIN s = 1 .. Len(s) /\ DOMAIN Append(s, t) = 1 .. Len(s) + 1
        /\ \A n \in 1 .. Len(s) : Append(s, t)[n] = s[n]
        /\ Append(s, t)[Len(s) + 1] = t
    OBVIOUS
  <1>2. IsFiniteSet(After(s, x)) /\ Cardinality(After(s, x)) \in Nat
    BY DomainsFinite DEF After
  <1>3. Len(s) + 1 \notin After(s, x)
    BY <1>1 DEF After
  <1>4. CASE t > x
    <2>1. After(Append(s, t), x) = After(s, x) \cup {Len(s) + 1}
      BY <1>1, <1>4 DEF After
    <2> QED
      BY <2>1, <1>2, <1>3, <1>4, FS_AddElement
  <1>5. CASE ~(t > x)
    <2>1. After(Append(s, t), x) = After(s, x)
      BY <1>1, <1>5 DEF After
    <2> QED
      BY <2>1, <1>2, <1>5
  <1> QED
    BY <1>4, <1>5

\* An allowed request more counts for every time before it.
LEMMA ServedCounts ==
  ASSUME RateInv, NEW a \in Answers, served' = Append(served, a), NEW k, NEW x \in Int
  PROVE  Cardinality(Allowed(k, x)') = Cardinality(Allowed(k, x)) +
           (IF a.allowed /\ a.client = k[1] /\ a.path = k[2] /\ a.at > x THEN 1 ELSE 0)
  <1>1. /\ Len(served) \in Nat
        /\ DOMAIN served' = 1 .. Len(served) + 1 /\ DOMAIN served = 1 .. Len(served)
        /\ \A i \in 1 .. Len(served) : served'[i] = served[i]
        /\ served'[Len(served) + 1] = a
    BY ServedGrows
  <1>2. IsFiniteSet(Allowed(k, x)) /\ Cardinality(Allowed(k, x)) \in Nat
    BY DomainsFinite DEF Allowed, RateInv
  <1>3. Len(served) + 1 \notin Allowed(k, x)
    BY <1>1 DEF Allowed
  <1>4. CASE a.allowed /\ a.client = k[1] /\ a.path = k[2] /\ a.at > x
    <2>1. Allowed(k, x)' = Allowed(k, x) \cup {Len(served) + 1}
      BY <1>1, <1>4 DEF Allowed
    <2> QED
      BY <2>1, <1>2, <1>3, <1>4, FS_AddElement
  <1>5. CASE ~(a.allowed /\ a.client = k[1] /\ a.path = k[2] /\ a.at > x)
    <2>1. Allowed(k, x)' = Allowed(k, x)
      BY <1>1, <1>5 DEF Allowed
    <2> QED
      BY <2>1, <1>2, <1>5
  <1> QED
    BY <1>4, <1>5

\* An allowed request goes into the queue and into the history alike.
LEMMA RequestKeeps ==
  ASSUME RateInv, NEW client \in Clients, NEW path \in Paths, Rate!Request(client, path)
  PROVE  RateInv'
  <1> DEFINE k == <<client, path>>
             c == Rate!Current(k)
             q == IF Rate!Allows(k) THEN Append(c, now) ELSE c
             a == [client |-> client, path |-> path, at |-> now, allowed |-> Rate!Allows(k)]
  <1>1. /\ path \notin Exempt /\ served' = Append(served, a)
        /\ events' = [events EXCEPT ![k] = q] /\ now' = now
    BY DEF Rate!Request, Rate!Served
  <1>2. /\ Rate!Allows(k) \in BOOLEAN
        /\ Rate!Allows(k) <=> Len(c) < Rate!Limits(path)
    BY DEF Rate!Allows
  <1>3. /\ a \in Answers /\ a.path = path /\ a.client = client /\ a.at = now
        /\ (a.allowed <=> Rate!Allows(k))
    BY <1>2 DEF RateInv, Rate!TypeOK, Answers
  <1>4. k \in Limited /\ k \in Clients \X Paths /\ k[1] = client /\ k[2] = path
    BY <1>1 DEF Limited
  <1>5. /\ now \in 0 .. MaxTime /\ now \in Int
        /\ Window \in Nat \ {0} /\ now - Window \in Int /\ MaxTime \in Nat
    BY RateConstants DEF RateInv, Rate!TypeOK
  <1>6. /\ c \in Seq(0 .. MaxTime) /\ Len(c) = Len(events[k]) - Rate!Popped(k)
        /\ \A n \in 1 .. Len(c) : c[n] = events[k][n + Rate!Popped(k)]
    BY <1>4, CurrentShifts
  <1>7. /\ events[k] \in Seq(0 .. MaxTime) /\ Rate!Popped(k) \in 0 .. Len(events[k])
        /\ Len(events[k]) \in Nat /\ Len(events[k]) <= Rate!Limits(path)
        /\ \A m, n \in 1 .. Len(events[k]) : m <= n => events[k][m] <= events[k][n]
        /\ \A n \in 1 .. Len(events[k]) : events[k][n] <= now
    <2>1. events[k] \in Seq(0 .. MaxTime) /\ Rate!Popped(k) \in 0 .. Len(events[k])
      BY <1>4, PoppedIsExpired DEF RateInv
    <2>2. Len(events[k]) <= Rate!Limits(path)
      BY <1>4 DEF RateInv, Rate!TypeOK
    <2>3. DOMAIN events[k] = 1 .. Len(events[k]) /\ Len(events[k]) \in Nat
      BY <2>1
    <2> QED
      BY <1>4, <2>1, <2>2, <2>3 DEF RateInv, QueuesInOrder
  <1>8. Rate!Limits(path) \in Nat
    BY RateConstants
  <1>9. Len(c) = Cardinality(Allowed(k, now - Window))
    BY <1>4, CurrentIsWindow
  <1>10. \A x \in Int : x >= now - Window => Cardinality(After(c, x)) = Cardinality(Allowed(k, x))
    BY <1>4, CurrentCounts DEF RateInv, QueuesExact
  <1> HIDE DEF a, c, k
  <1>11. /\ q \in Seq(0 .. MaxTime) /\ Len(q) <= Rate!Limits(path)
         /\ \A m, n \in 1 .. Len(q) : m <= n => q[m] <= q[n]
         /\ \A n \in 1 .. Len(q) : q[n] <= now
    <2>1. /\ Len(c) \in Nat /\ Len(c) <= Rate!Limits(path) /\ \A n \in 1 .. Len(c) : c[n] \in Int
          /\ \A m, n \in 1 .. Len(c) : m <= n => c[m] <= c[n]
          /\ \A n \in 1 .. Len(c) : c[n] <= now
      <3> DEFINE p == Rate!Popped(k)
                 e == events[k]
      <3>1. /\ Len(c) \in Nat /\ Len(c) = Len(e) - p /\ Len(e) \in Nat /\ p \in Nat
            /\ Len(c) <= Rate!Limits(path)
        BY <1>6, <1>7, <1>8
      <3>2. \A n \in 1 .. Len(c) : n + p \in 1 .. Len(e) /\ c[n] = e[n + p]
        <4>1. \A n \in 1 .. Len(c) : c[n] = e[n + p]
          BY <1>6
        <4> HIDE DEF p, e
        <4> QED
          BY <3>1, <4>1
      <3>3. /\ \A m, n \in 1 .. Len(e) : m <= n => e[m] <= e[n]
            /\ \A n \in 1 .. Len(e) : e[n] <= now
        BY <1>7
      <3>4. \A n \in 1 .. Len(c) : c[n] \in Int
        BY <1>5, <1>6
      <3> HIDE DEF p, e
      <3>5. \A m, n \in 1 .. Len(c) : m <= n => c[m] <= c[n]
        BY <3>1, <3>2, <3>3
      <3>6. \A n \in 1 .. Len(c) : c[n] <= now
        BY <3>2, <3>3
      <3> QED
        BY <3>1, <3>4, <3>5, <3>6
    <2>2. CASE Rate!Allows(k)
      <3>1. q = Append(c, now) /\ Len(c) + 1 <= Rate!Limits(path)
        BY <2>1, <2>2, <1>2, <1>8 DEF k
      <3>2. /\ Append(c, now) \in Seq(0 .. MaxTime) /\ Len(Append(c, now)) = Len(c) + 1
            /\ \A n \in 1 .. Len(c) : Append(c, now)[n] = c[n]
            /\ Append(c, now)[Len(c) + 1] = now
        BY <1>5, <1>6
      <3> HIDE DEF q
      <3> QED
        BY <2>1, <3>1, <3>2, <1>5
    <2>3. CASE ~Rate!Allows(k)
      BY <2>1, <2>3, <1>6
    <2> QED
      BY <2>2, <2>3
  <1>12. \A x \in Int : x >= now - Window =>
           Cardinality(After(q, x)) =
             Cardinality(After(c, x)) + (IF Rate!Allows(k) /\ now > x THEN 1 ELSE 0)
    <2> SUFFICES ASSUME NEW x \in Int
                 PROVE  Cardinality(After(q, x)) =
                          Cardinality(After(c, x)) + (IF Rate!Allows(k) /\ now > x THEN 1 ELSE 0)
      OBVIOUS
    <2>1. Cardinality(After(c, x)) \in Nat
      BY <1>6, DomainsFinite DEF After
    <2>2. CASE Rate!Allows(k)
      BY <2>2, <1>5, <1>6, AppendCounts
    <2>3. CASE ~Rate!Allows(k)
      BY <2>1, <2>3
    <2> QED
      BY <2>2, <2>3
  <1> HIDE DEF q
  <1>13. \A l \in Clients \X Paths : events'[l] = IF l = k THEN q ELSE events[l]
    BY <1>1, <1>4 DEF RateInv
  <1>14. QueuesExact'
    <2> SUFFICES ASSUME NEW l \in Limited, NEW x \in Int, x >= now - Window
                 PROVE  Cardinality(Allowed(l, x)') = Cardinality(After(events'[l], x))
      BY <1>1 DEF QueuesExact
    <2>1. Cardinality(Allowed(l, x)') = Cardinality(Allowed(l, x)) +
           (IF Rate!Allows(k) /\ client = l[1] /\ path = l[2] /\ now > x THEN 1 ELSE 0)
      BY <1>1, <1>3, ServedCounts
    <2>2. Cardinality(Allowed(l, x)) = Cardinality(After(events[l], x)) /\ l \in Clients \X Paths
      BY DEF RateInv, QueuesExact, Limited
    <2>3. CASE l = k
      <3>1. client = l[1] /\ path = l[2] /\ events'[l] = q
        BY <2>2, <2>3, <1>4, <1>13
      <3> QED
        BY <2>1, <2>3, <3>1, <1>10, <1>12
    <2>4. CASE l # k
      <3>1. ~(client = l[1] /\ path = l[2]) /\ events'[l] = events[l]
        BY <2>2, <2>4, <1>13 DEF k
      <3>2. Cardinality(Allowed(l, x)) \in Nat
        BY DomainsFinite DEF RateInv, Allowed
      <3> QED
        BY <2>1, <2>2, <3>1, <3>2
    <2> QED
      BY <2>3, <2>4
  <1>15. Rate!WindowExact'
    <2>1. <<a.client, a.path>> = k /\ a.at - Window = now - Window
      BY <1>3 DEF k
    <2>2. a.allowed <=>
            Cardinality(Allowed(<<a.client, a.path>>, a.at - Window)) < Rate!Limits(a.path)
      BY <2>1, <1>2, <1>3, <1>9 DEF k
    <2> QED
      BY <2>2, <1>1, <1>3, ServedExact
  <1>16. served' \in Seq(Answers)
    BY <1>1, <1>3, ServedGrows
  <1>17. events' \in [Clients \X Paths -> Seq(0 .. MaxTime)]
    BY <1>1, <1>11 DEF RateInv
  <1>18. Rate!TypeOK'
    BY <1>1, <1>4, <1>5, <1>11, <1>13, <1>17 DEF RateInv, Rate!TypeOK, Rate!Limits
  <1>19. QueuesInOrder'
    <2>1. DOMAIN q = 1 .. Len(q)
      BY <1>11
    <2> QED
      BY <2>1, <1>1, <1>11, <1>13 DEF RateInv, QueuesInOrder
  <1> QED
    BY <1>14, <1>15, <1>16, <1>17, <1>18, <1>19 DEF RateInv

\* As time passes, fewer times are asked about.
LEMMA TickKeeps ==
  ASSUME RateInv, Rate!Tick
  PROVE  RateInv'
  <1>1. now < MaxTime /\ now' = now + 1 /\ UNCHANGED <<events, served>>
    BY DEF Rate!Tick
  <1>2. now \in Nat /\ MaxTime \in Nat /\ Window \in Nat /\ now' \in 0 .. MaxTime
    BY <1>1, RateConstants DEF RateInv, Rate!TypeOK
  <1>3. Rate!TypeOK'
    BY <1>1, <1>2 DEF RateInv, Rate!TypeOK, Rate!Limits
  <1>4. Rate!WindowExact'
    BY <1>1 DEF RateInv, Rate!WindowExact, Rate!Earlier, Rate!Limits
  <1>5. QueuesInOrder'
    <2> SUFFICES ASSUME NEW k \in Clients \X Paths
                 PROVE  /\ \A m, n \in DOMAIN events[k] : m <= n => events[k][m] <= events[k][n]
                        /\ \A n \in DOMAIN events[k] : events[k][n] <= now + 1
      BY <1>1 DEF QueuesInOrder
    <2>1. events[k] \in Seq(0 .. MaxTime)
      BY DEF RateInv
    <2>2. \A n \in DOMAIN events[k] : events[k][n] \in Int /\ events[k][n] <= now
      BY <2>1, <1>2 DEF RateInv, QueuesInOrder
    <2>3. \A n \in DOMAIN events[k] : events[k][n] <= now + 1
      BY <2>2, <1>2
    <2> QED
      BY <2>3 DEF RateInv, QueuesInOrder
  <1>6. QueuesExact'
    <2> SUFFICES ASSUME NEW k \in Limited, NEW x \in Int, x >= now' - Window
                 PROVE  Cardinality(Allowed(k, x)') = Cardinality(After(events'[k], x))
      BY DEF QueuesExact
    <2>1. x >= now - Window
      BY <1>1, <1>2
    <2>2. Allowed(k, x)' = Allowed(k, x) /\ events' = events
      BY <1>1 DEF Allowed
    <2> QED
      BY <2>1, <2>2 DEF RateInv, QueuesExact
  <1> QED
    BY <1>1, <1>3, <1>4, <1>5, <1>6 DEF RateInv

\* Empty queues count nothing.
LEMMA EmptyQueues ==
  now \in 0 .. MaxTime /\ events = [k \in Clients \X Paths |-> <<>>] /\ served = <<>> => RateInv
  <1> SUFFICES ASSUME now \in 0 .. MaxTime,
                      events = [k \in Clients \X Paths |-> <<>>], served = <<>>
               PROVE  RateInv
    OBVIOUS
  <1>1. \A k \in Clients \X Paths : events[k] = <<>>
    OBVIOUS
  <1>2. <<>> \in Seq(0 .. MaxTime) /\ Len(<<>>) = 0 /\ DOMAIN <<>> = {} /\ <<>> \in Seq(Answers)
    OBVIOUS
  <1>3. events \in [Clients \X Paths -> Seq(0 .. MaxTime)]
    BY <1>2
  <1>4. Rate!TypeOK
    <2> SUFFICES ASSUME NEW k \in Clients \X Paths
                 PROVE  Len(events[k]) <= Rate!Limits(k[2])
      BY <1>3 DEF Rate!TypeOK
    <2> QED
      BY <1>1, <1>2, RateConstants
  <1>5. Rate!WindowExact /\ QueuesInOrder
    BY <1>1, <1>2 DEF Rate!WindowExact, QueuesInOrder
  <1>6. QueuesExact
    BY <1>1, <1>2 DEF QueuesExact, Allowed, After, Limited
  <1> QED
    BY <1>2, <1>3, <1>4, <1>5, <1>6 DEF RateInv

\* A restart empties both.
LEMMA RestartKeeps == RateInv /\ Rate!Restart => RateInv'
  <1>1. RateInv /\ Rate!Restart =>
          (now \in 0 .. MaxTime /\ events = [k \in Clients \X Paths |-> <<>>] /\ served = <<>>)'
    BY DEF Rate!Restart, RateInv, Rate!TypeOK
  <1> QED
    BY <1>1, EmptyQueues, PTL

\* Every step of the limiter keeps the invariant, the others leave it.
LEMMA RateStep == RateInv /\ [Next]_vars => RateInv'
  <1> SUFFICES ASSUME RateInv, [Next]_vars
               PROVE  RateInv'
    OBVIOUS
  <1>1. CASE UNCHANGED rateVars
    BY <1>1 DEF rateVars, RateInv, Rate!TypeOK, Rate!WindowExact, Rate!Earlier, Rate!Limits,
        QueuesInOrder, QueuesExact, Allowed, After
  <1>2. CASE Rate!Next
    BY <1>2, RequestKeeps, ExemptKeeps, TickKeeps, RestartKeeps DEF Rate!Next
  <1> QED
    BY <1>1, <1>2 DEF Next, vars

\* InMemoryLimiter.check_limit: a request is refused if and only if its client has
\* had the limit of the path in the window that ends with the request.
THEOREM WindowIsExact == Spec => []WindowExact
  <1>1. Init => RateInv
    <2>1. Rate!Init => now \in 0 .. MaxTime
      BY RateConstants DEF Rate!Init
    <2> QED
      BY <2>1, EmptyQueues DEF Init, Rate!Init
  <1>2. RateInv /\ [Next]_vars => RateInv'
    BY RateStep
  <1>3. RateInv => WindowExact
    BY DEF RateInv, WindowExact
  <1> QED
    BY <1>1, <1>2, <1>3, PTL DEF Spec

-----------------------------------------------------------------------------
(* Lists page by page.                                                     *)

\* The rows that the WHERE clause of the cursor lets through.
Rest == {k \in rows : cursor = List!None \/ List!Past(k, cursor)}

\* The client has what is not past the cursor, as far as it was there all the
\* time, and nothing else.
ListInv ==
  /\ List!TypeOK /\ List!PagesInOrder /\ List!NothingSkipped
  /\ at \in {"begin", "more", "done"} /\ IsFiniteSet(rows)
  /\ at = "begin" => got = <<>>
  /\ at = "more" =>
       /\ \A i \in DOMAIN got : \A k \in got[i] : ~List!Past(k, cursor)
       /\ \A k \in steady : ~List!Past(k, cursor) => \E i \in DOMAIN got : k \in got[i]

\* The instance counts as the library does.
LEMMA ListCardinality ==
  /\ \A S : List!Cardinality(S) = Cardinality(S)
  /\ \A S : List!IsFiniteSet(S) <=> IsFiniteSet(S)
  BY DEF List!Cardinality, Cardinality, List!IsFiniteSet, IsFiniteSet

\* The order of keys is total and strict, and the WHERE clause follows it.
LEMMA KeyOrder ==
  /\ \A j \in List!Keys : ~List!Before(j, j)
  /\ \A j, k \in List!Keys : j = k \/ List!Before(j, k) \/ List!Before(k, j)
  /\ \A j, k \in List!Keys : List!Before(j, k) => ~List!Before(k, j)
  /\ \A j, k, l \in List!Keys : List!Before(j, k) /\ List!Before(k, l) => List!Before(j, l)
  /\ \A j, k \in List!Keys : List!Past(k, j) <=> List!Before(j, k)
  /\ List!None \notin List!Keys
  <1>1. \A k \in List!Keys : k[1] \in Nat /\ k[2] \in Nat /\ k = <<k[1], k[2]>>
    <2>1. Items \subseteq Nat /\ Times \subseteq Nat
      BY CompanyAssumption DEF List!PageAssumption
    <2>2. \A k \in Times \X Items : k[1] \in Times /\ k[2] \in Items /\ k = <<k[1], k[2]>>
      OBVIOUS
    <2> QED
      BY <2>1, <2>2 DEF List!Keys
  <1>2. \A j, k \in List!Keys : j = k <=> j[1] = k[1] /\ j[2] = k[2]
    BY <1>1
  <1>3. List!None \notin List!Keys
    BY DEF List!None, List!Keys
  <1> QED
    BY <1>1, <1>2, <1>3 DEF List!Before, List!Past

\* Ranks follow the order, strictly below a row that is counted.
LEMMA RankOrder ==
  ASSUME NEW S, S \subseteq List!Keys, IsFiniteSet(S), NEW j \in List!Keys, NEW k \in List!Keys
  PROVE  /\ List!Rank(k, S) \in Nat
         /\ List!Before(j, k) => List!Rank(j, S) <= List!Rank(k, S)
         /\ j \in S /\ List!Before(j, k) => List!Rank(j, S) < List!Rank(k, S)
         /\ k \in S => List!Rank(k, S) < Cardinality(S)
         /\ List!Rank(k, S) <= Cardinality(S)
  <1> DEFINE Below(l) == {i \in S : List!Before(i, l)}
  <1>1. \A l : Below(l) \subseteq S /\ IsFiniteSet(Below(l)) /\ Cardinality(Below(l)) \in Nat
              /\ List!Rank(l, S) = Cardinality(Below(l))
    <2> TAKE l
    <2>1. Below(l) \subseteq S
      OBVIOUS
    <2>2. List!Rank(l, S) = Cardinality(Below(l))
      BY ListCardinality DEF List!Rank
    <2> HIDE DEF Below
    <2> QED
      BY <2>1, <2>2, FS_Subset, FS_CardinalityType
  <1>2. ASSUME List!Before(j, k)
        PROVE  Below(j) \subseteq Below(k)
    BY <1>2, KeyOrder
  <1>3. k \notin Below(k) /\ (j \in S /\ List!Before(j, k) => j \in Below(k) \ Below(j))
    BY KeyOrder
  <1>4. Cardinality(S) \in Nat
    BY FS_CardinalityType
  <1> HIDE DEF Below
  <1>5. List!Before(j, k) => Cardinality(Below(j)) <= Cardinality(Below(k))
    BY <1>1, <1>2, FS_Subset
  <1>6. j \in S /\ List!Before(j, k) => Cardinality(Below(j)) # Cardinality(Below(k))
    BY <1>1, <1>2, <1>3, FS_Subset
  <1>7. /\ Cardinality(Below(k)) <= Cardinality(S)
        /\ (k \in S => Cardinality(Below(k)) # Cardinality(S))
    BY <1>1, <1>3, FS_Subset
  <1> QED
    BY <1>1, <1>4, <1>5, <1>6, <1>7

\* Some row comes before all others.
LEMMA LowestKey ==
  ASSUME NEW S, S \subseteq List!Keys, IsFiniteSet(S), NEW T, T \subseteq S, T # {}
  PROVE  \E m \in T : \A k \in T : k = m \/ List!Before(m, k)
  <1> DEFINE Ranks == {List!Rank(k, S) : k \in T}
  <1>1. Ranks \in SUBSET Nat /\ Ranks # {}
    BY RankOrder
  <1>2. PICK r \in Ranks : \A q \in Ranks : r <= q
    <2> HIDE DEF Ranks
    <2> QED
      BY <1>1, LeastNumber
  <1>3. PICK m \in T : r = List!Rank(m, S)
    OBVIOUS
  <1>4. ASSUME NEW k \in T, k # m
        PROVE  List!Before(m, k)
    <2>1. List!Rank(m, S) <= List!Rank(k, S)
      BY <1>2, <1>3
    <2>2. List!Before(k, m) => List!Rank(k, S) < List!Rank(m, S)
      BY RankOrder
    <2>3. List!Rank(k, S) \in Nat /\ List!Rank(m, S) \in Nat
      BY RankOrder
    <2> QED
      BY <2>1, <2>2, <2>3, <1>4, KeyOrder
  <1> QED
    BY <1>4

\* Some row comes after all others.
LEMMA HighestKey ==
  ASSUME NEW S, S \subseteq List!Keys, IsFiniteSet(S), S # {}
  PROVE  \E m \in S : \A k \in S : k = m \/ List!Before(k, m)
  <1> DEFINE Ranks == {Cardinality(S) - List!Rank(k, S) : k \in S}
  <1>1. Ranks \in SUBSET Nat /\ Ranks # {}
    <2>1. \A k \in S : List!Rank(k, S) \in Nat /\ List!Rank(k, S) <= Cardinality(S)
      BY RankOrder
    <2>2. Cardinality(S) \in Nat
      BY FS_CardinalityType
    <2> QED
      BY <2>1, <2>2
  <1>2. PICK r \in Ranks : \A q \in Ranks : r <= q
    <2> HIDE DEF Ranks
    <2> QED
      BY <1>1, LeastNumber
  <1>3. PICK m \in S : r = Cardinality(S) - List!Rank(m, S)
    OBVIOUS
  <1>4. ASSUME NEW k \in S, k # m
        PROVE  List!Before(k, m)
    <2>1. Cardinality(S) - List!Rank(m, S) <= Cardinality(S) - List!Rank(k, S)
      BY <1>2, <1>3
    <2>2. List!Before(m, k) => List!Rank(m, S) < List!Rank(k, S)
      BY RankOrder
    <2>3. List!Rank(k, S) \in Nat /\ List!Rank(m, S) \in Nat /\ Cardinality(S) \in Nat
      BY RankOrder, FS_CardinalityType
    <2> QED
      BY <2>1, <2>2, <2>3, <1>4, KeyOrder
  <1> QED
    BY <1>4

\* A page has room for a row.
LEMMA ListConstants == Limit \in Nat \ {0}
  BY CompanyAssumption DEF List!PageAssumption

\* The rows of the page that Page hands out.
PageOf == {k \in List!Selected : List!Rank(k, List!Selected) < Limit}

\* What is selected is a finite part of the rest, and the page a part of it.
LEMMA SelectedRows ==
  ASSUME ListInv
  PROVE  /\ List!Selected = {k \in Rest : List!Rank(k, Rest) < Limit + 1}
         /\ Rest \subseteq rows /\ Rest \subseteq List!Keys /\ IsFiniteSet(Rest)
         /\ List!Selected \subseteq Rest /\ IsFiniteSet(List!Selected)
         /\ PageOf \subseteq List!Selected /\ IsFiniteSet(PageOf)
  <1>1. List!Selected = {k \in Rest : List!Rank(k, Rest) < Limit + 1}
    BY DEF List!Selected, Rest
  <1>2. Rest \subseteq rows /\ Rest \subseteq List!Keys /\ IsFiniteSet(Rest)
    BY FS_Subset DEF ListInv, List!TypeOK, Rest
  <1>3. List!Selected \subseteq Rest /\ PageOf \subseteq List!Selected
    BY <1>1 DEF PageOf
  <1> QED
    BY <1>1, <1>2, <1>3, FS_Subset

\* A page leaves out no row before its last one.
LEMMA PageIsPrefix ==
  ASSUME ListInv, NEW last \in PageOf, NEW k \in Rest, k = last \/ List!Before(k, last)
  PROVE  k \in PageOf
  <1>1. last \in Rest /\ last \in List!Selected /\ last \in List!Keys /\ k \in List!Keys
    BY SelectedRows
  <1>2. List!Rank(k, Rest) <= List!Rank(last, Rest) /\ List!Rank(k, Rest) \in Nat
        /\ List!Rank(last, Rest) \in Nat
    BY <1>1, SelectedRows, RankOrder
  <1>3. k \in List!Selected
    BY <1>1, <1>2, SelectedRows, ListConstants
  <1>4. List!Rank(k, List!Selected) <= List!Rank(last, List!Selected)
        /\ List!Rank(k, List!Selected) \in Nat /\ List!Rank(last, List!Selected) \in Nat
    BY <1>1, SelectedRows, RankOrder
  <1>5. List!Rank(last, List!Selected) < Limit
    BY DEF PageOf
  <1> QED
    BY <1>3, <1>4, <1>5, ListConstants DEF PageOf

\* When no more rows are selected than the page holds, the page has all the rest.
LEMMA LastPageIsRest ==
  ASSUME ListInv, ~(Cardinality(List!Selected) > Limit)
  PROVE  PageOf = Rest
  <1>1. Cardinality(List!Selected) \in Nat /\ Cardinality(List!Selected) <= Limit
    BY SelectedRows, FS_CardinalityType, ListConstants
  <1>2. List!Selected = Rest
    <2> SUFFICES ASSUME Rest \ List!Selected # {}
                 PROVE  FALSE
      BY SelectedRows
    <2>1. PICK k \in Rest \ List!Selected :
            \A j \in Rest \ List!Selected : j = k \/ List!Before(k, j)
      BY SelectedRows, LowestKey
    <2> DEFINE Below == {j \in Rest : List!Before(j, k)}
    <2>2. Below \subseteq List!Selected
      BY <2>1, SelectedRows, KeyOrder
    <2>3. List!Rank(k, Rest) = Cardinality(Below)
      BY ListCardinality DEF List!Rank
    <2> HIDE DEF Below
    <2>4. Cardinality(Below) <= Cardinality(List!Selected)
      BY <2>2, SelectedRows, FS_Subset
    <2>5. List!Rank(k, Rest) \in Nat /\ ~(List!Rank(k, Rest) < Limit + 1)
      BY <2>1, SelectedRows, RankOrder
    <2> QED
      BY <2>3, <2>4, <2>5, <1>1, ListConstants
  <1>3. \A k \in List!Selected : List!Rank(k, List!Selected) < Cardinality(List!Selected)
                                 /\ List!Rank(k, List!Selected) \in Nat
    BY SelectedRows, RankOrder
  <1>4. PageOf = List!Selected
    BY <1>1, <1>3, ListConstants DEF PageOf
  <1> QED
    BY <1>2, <1>4

\* A page that more rows follow has a last row.
LEMMA FullPageHasLast ==
  ASSUME ListInv, Cardinality(List!Selected) > Limit
  PROVE  /\ List!LastOf(PageOf) \in PageOf
         /\ \A k \in PageOf : k = List!LastOf(PageOf) \/ List!Before(k, List!LastOf(PageOf))
  <1>1. List!Selected # {}
    BY FS_EmptySet, ListConstants
  <1>2. PICK m \in List!Selected : \A k \in List!Selected : k = m \/ List!Before(m, k)
    BY <1>1, SelectedRows, LowestKey
  <1>3. {j \in List!Selected : List!Before(j, m)} = {}
    BY <1>2, SelectedRows, KeyOrder
  <1>4. List!Rank(m, List!Selected) = 0
    BY <1>3, ListCardinality, FS_EmptySet DEF List!Rank
  <1>5. PageOf # {}
    BY <1>4, ListConstants DEF PageOf
  <1>6. PageOf \subseteq List!Keys
    BY SelectedRows
  <1>7. \E l \in PageOf : \A k \in PageOf : k = l \/ List!Before(k, l)
    BY <1>5, <1>6, SelectedRows, HighestKey
  <1> QED
    BY <1>7 DEF List!LastOf

\* The effect of Page.
LEMMA PageGiven ==
  ASSUME ListInv, List!Page
  PROVE  /\ at # "done" /\ got' = Append(got, PageOf) /\ rows' = rows
         /\ steady' = IF at = "begin" THEN rows ELSE steady
         /\ IF Cardinality(List!Selected) > Limit
            THEN cursor' = List!LastOf(PageOf) /\ at' = "more"
            ELSE cursor' = List!None /\ at' = "done"
         /\ Len(got) \in Nat /\ DOMAIN got = 1 .. Len(got) /\ DOMAIN got' = 1 .. Len(got) + 1
         /\ \A i \in 1 .. Len(got) : got'[i] = got[i]
         /\ got'[Len(got) + 1] = PageOf
  <1>1. /\ at # "done" /\ got' = Append(got, PageOf) /\ rows' = rows
        /\ steady' = IF at = "begin" THEN rows ELSE steady
    BY DEF List!Page, PageOf
  <1>2. IF Cardinality(List!Selected) > Limit
        THEN cursor' = List!LastOf(PageOf) /\ at' = "more"
        ELSE cursor' = List!None /\ at' = "done"
    BY ListCardinality DEF List!Page, List!NextCursor, PageOf
  <1>3. got \in Seq(SUBSET List!Keys)
    BY DEF ListInv, List!TypeOK
  <1>4. PageOf \in SUBSET List!Keys
    BY SelectedRows
  <1> HIDE DEF PageOf
  <1> QED
    BY <1>1, <1>2, <1>3, <1>4

\* What the client has is not past the cursor, what is to come is.
LEMMA CursorDivides ==
  ASSUME ListInv, at # "done"
  PROVE  /\ \A i \in DOMAIN got : \A k \in got[i] :
              at = "more" /\ ~List!Past(k, cursor) /\ k \in List!Keys
         /\ \A k \in Rest : at = "more" => List!Past(k, cursor)
         /\ \A k \in rows \ Rest : at = "more" /\ ~List!Past(k, cursor)
         /\ at = "more" => cursor \in List!Keys
  <1>1. CASE at = "begin"
    <2>1. got = <<>> /\ cursor = List!None
      BY <1>1 DEF ListInv, List!TypeOK
    <2>2. Rest = rows /\ DOMAIN got = {}
      BY <2>1 DEF Rest
    <2> QED
      BY <1>1, <2>1, <2>2
  <1>2. CASE at = "more"
    <2>1. cursor # List!None /\ cursor \in List!Keys
      BY <1>2 DEF ListInv, List!TypeOK
    <2>2. got \in Seq(SUBSET List!Keys)
      BY DEF ListInv, List!TypeOK
    <2>3. \A i \in DOMAIN got : \A k \in got[i] : k \in List!Keys
      BY <2>2
    <2> QED
      BY <1>2, <2>1, <2>3 DEF ListInv, Rest
  <1> QED
    BY <1>1, <1>2 DEF ListInv

\* A page follows what the client has, and leaves out no row up to its last one.
LEMMA PageKeeps ==
  ASSUME ListInv, List!Page
  PROVE  ListInv'
  <1>1. /\ at # "done" /\ got' = Append(got, PageOf) /\ rows' = rows
        /\ steady' = IF at = "begin" THEN rows ELSE steady
        /\ Len(got) \in Nat /\ DOMAIN got = 1 .. Len(got) /\ DOMAIN got' = 1 .. Len(got) + 1
        /\ \A i \in 1 .. Len(got) : got'[i] = got[i]
        /\ got'[Len(got) + 1] = PageOf
    BY PageGiven
  <1>2. /\ PageOf \subseteq Rest /\ Rest \subseteq rows
        /\ PageOf \subseteq List!Keys /\ rows \subseteq List!Keys
    BY SelectedRows DEF ListInv, List!TypeOK
  <1>3. got' \in Seq(SUBSET List!Keys)
    BY <1>1, <1>2 DEF ListInv, List!TypeOK
  <1>4. steady' \subseteq rows' /\ rows' \subseteq List!Keys /\ IsFiniteSet(rows)'
    BY <1>1, <1>2 DEF ListInv, List!TypeOK
  <1>5. List!PagesInOrder'
    <2> SUFFICES ASSUME NEW i \in DOMAIN got', NEW j \in DOMAIN got', i < j,
                        NEW k \in got'[i], NEW l \in got'[j]
                 PROVE  List!Before(k, l)
      BY DEF List!PagesInOrder, List!Before
    <2>1. i \in 1 .. Len(got) /\ k \in got[i]
      BY <1>1
    <2>2. CASE j \in 1 .. Len(got)
      BY <1>1, <2>1, <2>2 DEF ListInv, List!PagesInOrder
    <2>3. CASE j = Len(got) + 1
      <3>1. l \in Rest /\ l \in List!Keys
        BY <1>1, <1>2, <2>3
      <3>2. at = "more" /\ ~List!Past(k, cursor) /\ k \in List!Keys
        BY <1>1, <2>1, CursorDivides
      <3>3. List!Past(l, cursor) /\ cursor \in List!Keys
        BY <1>1, <3>1, <3>2, CursorDivides
      <3>4. List!Before(cursor, l) /\ (k = cursor \/ List!Before(k, cursor))
        BY <3>1, <3>2, <3>3, KeyOrder
      <3> QED
        BY <3>1, <3>2, <3>3, <3>4, KeyOrder
    <2> QED
      BY <1>1, <2>2, <2>3
  <1>6. \A k \in steady' : k \in Rest \/ \E i \in DOMAIN got : k \in got[i]
    <2> SUFFICES ASSUME NEW k \in steady', k \notin Rest
                 PROVE  \E i \in DOMAIN got : k \in got[i]
      OBVIOUS
    <2>1. k \in rows
      BY <1>1, <1>4
    <2>2. at = "more" /\ ~List!Past(k, cursor)
      BY <2>1, <1>1, CursorDivides
    <2>3. k \in steady
      BY <2>2, <1>1
    <2> QED
      BY <2>2, <2>3 DEF ListInv
  <1>7. \A k : (k \in PageOf \/ \E i \in DOMAIN got : k \in got[i]) =>
          \E i \in DOMAIN got' : k \in got'[i]
    BY <1>1
  <1>8. CASE Cardinality(List!Selected) > Limit
    <2>1. cursor' = List!LastOf(PageOf) /\ at' = "more"
      BY <1>8, PageGiven
    <2>2. cursor' \in PageOf /\ \A k \in PageOf : k = cursor' \/ List!Before(k, cursor')
      BY <1>8, <2>1, FullPageHasLast
    <2>3. cursor' \in List!Keys /\ cursor' # List!None
      BY <1>2, <2>2, KeyOrder
    <2>4. List!TypeOK'
      BY <1>3, <1>4, <2>1, <2>3 DEF List!TypeOK, List!Keys, List!None
    <2>5. \A i \in DOMAIN got' : \A k \in got'[i] : ~List!Past(k, cursor')
      <3> SUFFICES ASSUME NEW i \in DOMAIN got', NEW k \in got'[i]
                   PROVE  ~List!Past(k, cursor')
        OBVIOUS
      <3>1. CASE i \in 1 .. Len(got)
        <4>1. at = "more" /\ ~List!Past(k, cursor) /\ k \in List!Keys
          BY <1>1, <3>1, CursorDivides
        <4>2. List!Past(cursor', cursor) /\ cursor \in List!Keys
          BY <1>1, <1>2, <2>2, <4>1, CursorDivides
        <4>3. List!Before(cursor, cursor') /\ (k = cursor \/ List!Before(k, cursor))
          BY <4>1, <4>2, <2>3, KeyOrder
        <4>4. List!Before(k, cursor')
          BY <4>1, <4>2, <4>3, <2>3, KeyOrder
        <4> QED
          BY <4>1, <4>4, <2>3, KeyOrder
      <3>2. CASE i = Len(got) + 1
        <4>1. k \in PageOf /\ k \in List!Keys
          BY <1>1, <1>2, <3>2
        <4>2. k = cursor' \/ List!Before(k, cursor')
          BY <4>1, <2>2
        <4> QED
          BY <4>1, <4>2, <2>3, KeyOrder
      <3> QED
        BY <1>1, <3>1, <3>2
    <2>6. \A k \in steady' : ~List!Past(k, cursor') => \E i \in DOMAIN got' : k \in got'[i]
      <3> SUFFICES ASSUME NEW k \in steady', ~List!Past(k, cursor')
                   PROVE  \E i \in DOMAIN got' : k \in got'[i]
        OBVIOUS
      <3>1. k \in List!Keys
        BY <1>4
      <3>2. k = cursor' \/ List!Before(k, cursor')
        BY <3>1, <2>3, KeyOrder
      <3>3. k \in Rest => k \in PageOf
        BY <3>2, <2>2, PageIsPrefix
      <3> QED
        BY <3>3, <1>6, <1>7
    <2>7. List!NothingSkipped'
      BY <2>1 DEF List!NothingSkipped
    <2>8. /\ \A i \in DOMAIN got' : \A k \in got'[i] : ~List!Past(k, cursor)'
          /\ \A k \in steady' : ~List!Past(k, cursor)' => \E i \in DOMAIN got' : k \in got'[i]
      BY <2>5, <2>6 DEF List!Past
    <2> QED
      BY <1>4, <1>5, <2>1, <2>4, <2>7, <2>8 DEF ListInv
  <1>9. CASE ~(Cardinality(List!Selected) > Limit)
    <2>1. cursor' = List!None /\ at' = "done"
      BY <1>9, PageGiven
    <2>2. PageOf = Rest
      BY <1>9, LastPageIsRest
    <2>3. List!TypeOK'
      BY <1>3, <1>4, <2>1 DEF List!TypeOK, List!Keys, List!None
    <2>4. List!NothingSkipped'
      BY <1>6, <1>7, <2>2 DEF List!NothingSkipped
    <2> QED
      BY <1>4, <1>5, <2>1, <2>3, <2>4 DEF ListInv
  <1> QED
    BY <1>8, <1>9

\* A row that comes or goes changes nothing that the client has; one that comes is
\* not one that was there all the time.
LEMMA RowsChangeKeeps ==
  ASSUME ListInv, NEW k \in List!Keys, List!RowAppears(k) \/ List!RowLeaves(k)
  PROVE  ListInv'
  <1>1. /\ rows' = rows \cup {k} \/ rows' = rows \ {k}
        /\ steady' \subseteq steady /\ steady' \subseteq rows'
        /\ UNCHANGED <<cursor, at, got>>
    BY DEF List!RowAppears, List!RowLeaves, ListInv, List!TypeOK
  <1>2. IsFiniteSet(rows') /\ rows' \subseteq List!Keys
    <2>1. IsFiniteSet(rows \cup {k})
      BY FS_AddElement DEF ListInv
    <2>2. IsFiniteSet(rows \ {k})
      BY FS_RemoveElement DEF ListInv
    <2> QED
      BY <1>1, <2>1, <2>2 DEF ListInv, List!TypeOK
  <1>3. List!TypeOK'
    BY <1>1, <1>2 DEF ListInv, List!TypeOK, List!Keys, List!None
  <1>4. List!PagesInOrder' /\ List!NothingSkipped'
    BY <1>1 DEF ListInv, List!PagesInOrder, List!NothingSkipped, List!Before
  <1> QED
    BY <1>1, <1>2, <1>3, <1>4 DEF ListInv, List!Past

\* A client that has not started has no page.
LEMMA ListInit == List!Init => ListInv
  <1> SUFFICES ASSUME List!Init
               PROVE  ListInv
    OBVIOUS
  <1>1. /\ rows \subseteq List!Keys /\ IsFiniteSet(rows)
        /\ cursor = List!None /\ at = "begin" /\ got = <<>> /\ steady = {}
    BY ListCardinality DEF List!Init
  <1>2. <<>> \in Seq(SUBSET List!Keys) /\ DOMAIN <<>> = {}
    OBVIOUS
  <1> QED
    BY <1>1, <1>2 DEF ListInv, List!TypeOK, List!PagesInOrder, List!NothingSkipped

\* Every step of the list keeps the invariant, the others leave it.
LEMMA ListStep == ListInv /\ [Next]_vars => ListInv'
  <1> SUFFICES ASSUME ListInv, [Next]_vars
               PROVE  ListInv'
    OBVIOUS
  <1>1. CASE UNCHANGED listVars
    BY <1>1 DEF listVars, ListInv, List!TypeOK, List!PagesInOrder, List!NothingSkipped,
        List!Past, List!Before, List!Keys, List!None
  <1>2. CASE List!Next
    BY <1>2, PageKeeps, RowsChangeKeeps DEF List!Next
  <1> QED
    BY <1>1, <1>2 DEF Next, vars

\* paginate: the pages follow each other in order, no row is in two of them, and
\* no row is skipped that was there all the time, whatever comes and goes.
THEOREM PagesAreComplete == Spec => []PagesComplete
  <1>1. Init => ListInv
    BY ListInit DEF Init
  <1>2. ListInv /\ [Next]_vars => ListInv'
    BY ListStep
  <1>3. ListInv => PagesComplete
    BY DEF ListInv, PagesComplete
  <1> QED
    BY <1>1, <1>2, <1>3, PTL DEF Spec
=============================================================================
