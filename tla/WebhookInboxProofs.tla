-------------------------- MODULE WebhookInboxProofs --------------------------
(***************************************************************************)
(* Theorems about WebhookInbox for every set of events, batches, requests  *)
(* and workers.                                                            *)
(***************************************************************************)
EXTENDS WebhookInbox, TLAPS

Staging == UNION {[K -> Tenants \cup {NoOne}] : K \in SUBSET Keys}

-----------------------------------------------------------------------------
(* Type correctness.                                                       *)

\* What a request carries while it runs.
LEMMA RequestFields ==
  ASSUME NEW q \in Request, q # Idle
  PROVE  /\ q.at \in {"lookup", "insert"} /\ q.batch \in Batches /\ q.i \in Nat \ {0}
         /\ q.route \in Tenants \cup {NoOne} /\ q.staged \in Staging
         /\ q = [at |-> q.at, batch |-> q.batch, i |-> q.i, route |-> q.route,
                 staged |-> q.staged]
  BY DEF Request, Staging

\* A request is at a step of its own only while it runs.
LEMMA RequestRuns ==
  ASSUME NEW q \in Request, q.at \in {"lookup", "insert"}
  PROVE  q # Idle
  BY DEF Idle

\* The staged keys are keys, each with a tenant or none.
LEMMA StagingFields ==
  ASSUME NEW f \in Staging
  PROVE  /\ DOMAIN f \subseteq Keys
         /\ \A k \in DOMAIN f : f[k] \in Tenants \cup {NoOne}
  BY DEF Staging

\* A worker carries an event and its lease token until it is idle again.
LEMMA WorkerFields ==
  ASSUME NEW v \in Worker, v # Idle
  PROVE  v.at \in {"claimed", "effect", "failing"} /\ v.k \in Keys /\ v.token \in Nat
  BY DEF Worker

LEMMA WorkerActs ==
  ASSUME NEW v \in Worker, v.at \in {"claimed", "effect", "failing"}
  PROVE  v # Idle
  BY DEF Idle

\* The inbox starts out empty and well formed.
LEMMA InitTypeOK == InboxAssumption /\ Init => TypeOK
  BY DEF InboxAssumption, Init, TypeOK, Row, Absent, Statuses, Request, Worker, Idle

\* An insert is always of an event within the batch.
Within == \A r \in Requests : req[r].at = "insert" => req[r].i \in 1 .. Len(req[r].batch)

\* What a step makes of a request: the next event, one event more staged, an
\* event to insert.
Advanced(q)  == [q EXCEPT !.at = "lookup", !.i = @ + 1]
Staged(q, f) == [q EXCEPT !.staged = f]
Missed(q, n) == [q EXCEPT !.at = "insert", !.route = n]

LEMMA RequestExcept ==
  ASSUME NEW q \in Request, q # Idle, NEW f \in Staging, NEW n \in Tenants \cup {NoOne}
  PROVE  /\ Advanced(q) \in Request /\ Advanced(q).at = "lookup"
         /\ Advanced(q).batch = q.batch /\ Advanced(q).i = q.i + 1
         /\ Advanced(q).staged = q.staged
         /\ Staged(q, f) \in Request /\ Staged(q, f).at = q.at
         /\ Staged(q, f).batch = q.batch /\ Staged(q, f).i = q.i
         /\ Staged(q, f).staged = f
         /\ Missed(q, n) \in Request /\ Missed(q, n).at = "insert"
         /\ Missed(q, n).batch = q.batch /\ Missed(q, n).i = q.i
         /\ Missed(q, n).staged = q.staged
  <1> DEFINE R == [at : {"lookup", "insert"}, batch : Batches, i : Nat \ {0},
                   route : Tenants \cup {NoOne}, staged : Staging]
  <1>1. q \in R /\ R \subseteq Request
    BY DEF Request, Staging
  <1>2. Advanced(q) \in R
    <2>1. \A j \in Nat \ {0} : [q EXCEPT !.at = "lookup", !.i = j] \in R
      BY <1>1
    <2>2. q.i + 1 \in Nat \ {0}
      BY <1>1
    <2> QED
      BY <2>1, <2>2 DEF Advanced
  <1>3. Staged(q, f) \in R
    BY <1>1 DEF Staged
  <1>4. Missed(q, n) \in R
    BY <1>1 DEF Missed
  <1>5. /\ Advanced(q).at = "lookup" /\ Advanced(q).batch = q.batch
        /\ Advanced(q).i = q.i + 1 /\ Advanced(q).staged = q.staged
    BY <1>1 DEF Advanced
  <1>6. /\ Staged(q, f).at = q.at /\ Staged(q, f).batch = q.batch
        /\ Staged(q, f).i = q.i /\ Staged(q, f).staged = f
    BY <1>1 DEF Staged
  <1>7. /\ Missed(q, n).at = "insert" /\ Missed(q, n).batch = q.batch
        /\ Missed(q, n).i = q.i /\ Missed(q, n).staged = q.staged
    BY <1>1 DEF Missed
  <1> QED
    BY <1>1, <1>2, <1>3, <1>4, <1>5, <1>6, <1>7

\* The event a running request is at.
LEMMA CurrentKey ==
  ASSUME InboxAssumption, TypeOK, NEW r \in Requests, req[r] # Idle,
         req[r].i \in 1 .. Len(req[r].batch)
  PROVE  Current(r) \in Keys
  <1>1. req[r].batch \in Seq(Keys)
    BY RequestFields DEF TypeOK, InboxAssumption
  <1> QED
    BY <1>1 DEF Current

\* Every step of a request keeps the inbox well formed.
LEMMA IngressTypeOK ==
  ASSUME InboxAssumption, TypeOK, Within, NEW r \in Requests,
         (\E b \in Batches : Post(r, b)) \/ IngressStep(r) \/ RequestLost(r)
  PROVE  TypeOK' /\ Within'
  <1> USE DEF inboxSame
  <1>0. req[r] \in Request /\ Idle \in Request
    BY DEF TypeOK, Request
  <1>a. ASSUME NEW q \in Request, req' = [req EXCEPT ![r] = q],
               q.at = "insert" => q.i \in 1 .. Len(q.batch),
               UNCHANGED <<row, acked, owner, work, claims, effects, foreign>>,
               faults' \in 0 .. MaxFaults
        PROVE  TypeOK' /\ Within'
    BY <1>a DEF TypeOK, Within
  <1>b. faults \in 0 .. MaxFaults
    BY DEF TypeOK
  <1>1. ASSUME NEW b \in Batches, Post(r, b) PROVE TypeOK' /\ Within'
    <2>1. <<>> \in Staging
      <3>1. <<>> \in [{} -> Tenants \cup {NoOne}]
        OBVIOUS
      <3> QED
        BY <3>1 DEF Staging
    <2>2. [at |-> "lookup", batch |-> b, i |-> 1, route |-> NoOne, staged |-> <<>>]
            \in Request
      BY <2>1 DEF Request, Staging
    <2> QED
      BY <1>1, <1>a, <1>b, <2>2 DEF Post
  <1>2. ASSUME LookupFinds(r) PROVE TypeOK' /\ Within'
    <2>1. req[r] # Idle
      BY <1>0, <1>2, RequestRuns DEF LookupFinds, Reading
    <2>2. req[r].staged \in Staging /\ req[r].route \in Tenants \cup {NoOne}
      BY <1>0, <2>1, RequestFields
    <2>3. Advanced(req[r]) \in Request /\ Advanced(req[r]).at = "lookup"
      BY <1>0, <2>1, <2>2, RequestExcept
    <2>4. req' = [req EXCEPT ![r] = Advanced(req[r])]
      BY <1>2 DEF LookupFinds, Next1, Advanced
    <2> QED
      BY <1>2, <1>a, <1>b, <2>3, <2>4 DEF LookupFinds
  <1>3. ASSUME LookupMisses(r) PROVE TypeOK' /\ Within'
    <2>1. req[r] # Idle
      BY <1>0, <1>3, RequestRuns DEF LookupMisses, Reading
    <2>2. req[r].i \in 1 .. Len(req[r].batch)
      BY <1>0, <1>3, <2>1, RequestFields DEF LookupMisses, Reading, InboxAssumption
    <2>3. owner[AssetOf[Current(r)]] \in Tenants \cup {NoOne}
      BY <2>1, <2>2, CurrentKey DEF TypeOK, InboxAssumption
    <2> DEFINE n == owner[AssetOf[Current(r)]]
    <2>4. req' = [req EXCEPT ![r] = Missed(req[r], n)]
      BY <1>3 DEF LookupMisses, Missed, TypeOK
    <2>5. req[r].staged \in Staging
      BY <1>0, <2>1, RequestFields
    <2>6. /\ Missed(req[r], n) \in Request /\ Missed(req[r], n).i = req[r].i
          /\ Missed(req[r], n).batch = req[r].batch
      BY <1>0, <2>1, <2>3, <2>5, RequestExcept
    <2> HIDE DEF n
    <2> QED
      BY <1>3, <1>a, <1>b, <2>2, <2>4, <2>6 DEF LookupMisses
  <1>4. ASSUME Insert(r) PROVE TypeOK' /\ Within'
    <2>1. req[r] # Idle /\ Current(r) \in Keys
      BY <1>0, <1>4, RequestRuns, CurrentKey DEF Insert, Insertable, Within
    <2> DEFINE f == [j \in DOMAIN req[r].staged \cup {Current(r)} |->
                       IF j = Current(r) THEN req[r].route ELSE req[r].staged[j]]
    <2>2. f \in Staging
      <3>1. req[r].staged \in Staging /\ req[r].route \in Tenants \cup {NoOne}
        BY <1>0, <2>1, RequestFields
      <3>2. DOMAIN req[r].staged \cup {Current(r)} \in SUBSET Keys
        BY <2>1, <3>1, StagingFields
      <3>3. f \in [DOMAIN req[r].staged \cup {Current(r)} -> Tenants \cup {NoOne}]
        BY <3>1, StagingFields
      <3> QED
        BY <3>2, <3>3 DEF Staging
    <2>3. req' = [req EXCEPT ![r] = Staged(Advanced(req[r]), f)]
      BY <1>4 DEF Insert, Next1, Advanced, Staged
    <2>4. req[r].route \in Tenants \cup {NoOne}
      BY <1>0, <2>1, RequestFields
    <2> HIDE DEF f
    <2>5. Advanced(req[r]) \in Request /\ Advanced(req[r]).at = "lookup"
      BY <1>0, <2>1, <2>2, <2>4, RequestExcept
    <2>6. Advanced(req[r]) # Idle
      BY <2>5, RequestRuns
    <2>7. /\ Staged(Advanced(req[r]), f) \in Request
          /\ Staged(Advanced(req[r]), f).at = "lookup"
      BY <2>2, <2>4, <2>5, <2>6, RequestExcept
    <2> QED
      BY <1>4, <1>a, <1>b, <2>3, <2>7 DEF Insert
  <1>5. ASSUME Rollback(r), faults' \in 0 .. MaxFaults PROVE TypeOK' /\ Within'
    BY <1>0, <1>5, <1>a DEF Rollback, Idle
  <1>6. ASSUME Accept(r) PROVE TypeOK' /\ Within'
    <2>1. req[r] # Idle
      BY <1>0, <1>6, RequestRuns DEF Accept, Finished
    <2>2. req[r].batch \in Batches /\ req[r].staged \in Staging
      BY <1>0, <2>1, RequestFields
    <2>3. \A n \in Tenants \cup {NoOne} : Received(n) \in Row
      BY DEF Received, Absent, Row, Statuses
    <2>4. row' \in [Keys -> Row]
      BY <1>6, <2>2, <2>3, StagingFields DEF Accept, TypeOK
    <2> QED
      BY <1>0, <1>6, <2>2, <2>4 DEF Accept, TypeOK, Within, Idle
  <1>7. RequestLost(r) => faults' \in 0 .. MaxFaults
    BY <1>b DEF RequestLost, InboxAssumption
  <1> QED
    BY <1>1, <1>2, <1>3, <1>4, <1>5, <1>6, <1>7, <1>b
    DEF IngressStep, InsertCollides, DeadlockVictim, RequestLost

\* A step of a worker, or of the time that passes over an event.
Working ==
  \/ \E w \in Workers : \/ \E k \in Keys : Claim(w, k)
                        \/ EffectBegin(w) \/ Complete(w) \/ CompleteRefused(w)
                        \/ EffectRaises(w) \/ Fail(w) \/ WorkerLost(w)
  \/ \E k \in Keys : LeaseExpires(k) \/ BackoffEnds(k) \/ Redrive(k)

\* What such a step may do to the table: a worker's record stays well formed.
LEMMA WorkerKept ==
  ASSUME TypeOK, NEW w \in Workers
  PROVE  /\ Leave(w) => work' \in [Workers -> Worker] /\ work'[w] = Idle
         /\ \A at \in {"effect", "failing"} :
              work[w] # Idle /\ Goto(w, at) => work' \in [Workers -> Worker]
  <1>1. Leave(w) => work' \in [Workers -> Worker] /\ work'[w] = Idle
    BY DEF TypeOK, Leave, Worker
  <1>2. ASSUME NEW at \in {"effect", "failing"}, work[w] # Idle, Goto(w, at)
        PROVE  work' \in [Workers -> Worker]
    <2> DEFINE R == [at : {"claimed", "effect", "failing"}, k : Keys, token : Nat]
    <2>1. work[w] \in R /\ R \subseteq Worker
      BY <1>2 DEF TypeOK, Worker
    <2>2. [work[w] EXCEPT !.at = at] \in R
      BY <2>1
    <2> QED
      BY <1>2, <2>1, <2>2 DEF Goto, TypeOK
  <1> QED
    BY <1>1, <1>2

\* Every step of a worker keeps the inbox well formed.
LEMMA WorkingTypeOK ==
  ASSUME InboxAssumption, TypeOK, Working
  PROVE  TypeOK'
  <1> USE DEF ingressSame
  <1>1. ASSUME NEW w \in Workers, NEW k \in Keys, Claim(w, k) PROVE TypeOK'
    <2>1. claims[k] + 1 \in 0 .. MaxClaims /\ claims[k] + 1 \in Nat
      BY <1>1 DEF Claim, TypeOK, InboxAssumption
    <2>2. [at |-> "claimed", k |-> k, token |-> claims[k] + 1] \in Worker
      BY <2>1 DEF Worker
    <2> DEFINE token == claims[k] + 1
               attempts == row[k].attempts + 1
               e == [row[k] EXCEPT !.status = "processing", !.attempts = attempts,
                                   !.token = token, !.live = TRUE]
    <2>3. row[k] \in Row /\ attempts \in Nat
      BY DEF TypeOK, Row
    <2>4. row' = [row EXCEPT ![k] = e]
      BY <1>1 DEF Claim
    <2>5. e \in Row
      <3> HIDE DEF token, attempts
      <3>1. token \in Nat
        BY <2>1 DEF token
      <3> QED
        BY <2>3, <3>1 DEF Row, Statuses
    <2> HIDE DEF e
    <2> QED
      BY <1>1, <2>1, <2>2, <2>4, <2>5 DEF Claim, TypeOK
  <1>2. ASSUME NEW w \in Workers, EffectBegin(w) PROVE TypeOK'
    <2>1. work[w] # Idle
      BY <1>2 DEF EffectBegin, Idle
    <2> QED
      BY <1>2, <2>1, WorkerKept DEF EffectBegin, TypeOK
  <1>3. ASSUME NEW w \in Workers, Complete(w) PROVE TypeOK'
    <2>1. work[w] # Idle
      BY <1>3 DEF Complete, Idle
    <2>2. work[w].k \in Keys
      BY <2>1, WorkerFields DEF TypeOK
    <2>3. [row[work[w].k] EXCEPT !.status = "processed", !.live = FALSE] \in Row
      <3>1. row[work[w].k] \in Row
        BY <2>2 DEF TypeOK
      <3> QED
        BY <3>1 DEF Row, Statuses
    <2>4. work' \in [Workers -> Worker]
      BY <1>3, WorkerKept DEF Complete
    <2>5. effects' \in [Keys -> Nat] /\ foreign' \subseteq Keys
      BY <1>3, <2>2 DEF Complete, TypeOK
    <2> QED
      BY <1>3, <2>2, <2>3, <2>4, <2>5 DEF Complete, TypeOK
  <1>4. ASSUME NEW w \in Workers, CompleteRefused(w) PROVE TypeOK'
    BY <1>4, WorkerKept DEF CompleteRefused, TypeOK
  <1>5. ASSUME NEW w \in Workers, EffectRaises(w) PROVE TypeOK'
    <2>1. work[w] # Idle
      BY <1>5 DEF EffectRaises, Idle
    <2> QED
      BY <1>5, <2>1, WorkerKept DEF EffectRaises, TypeOK
  <1>6. ASSUME NEW w \in Workers, Fail(w) PROVE TypeOK'
    <2>1. work[w] # Idle
      BY <1>6 DEF Fail, Idle
    <2>2. work[w].k \in Keys
      BY <2>1, WorkerFields DEF TypeOK
    <2>3. Failed(row[work[w].k]) \in Row
      <3>1. row[work[w].k] \in Row
        BY <2>2 DEF TypeOK
      <3>2. \A s \in Statuses, b \in BOOLEAN :
              [row[work[w].k] EXCEPT !.status = s, !.live = FALSE, !.due = b] \in Row
        BY <3>1 DEF Row
      <3> DEFINE status == IF row[work[w].k].attempts >= MaxAttempts THEN "dead_letter"
                                                                     ELSE "failed"
                 due    == row[work[w].k].attempts >= MaxAttempts
      <3>3. status \in Statuses /\ due \in BOOLEAN
        BY DEF Statuses
      <3>4. Failed(row[work[w].k])
              = [row[work[w].k] EXCEPT !.status = status, !.live = FALSE, !.due = due]
        BY DEF Failed
      <3> HIDE DEF status, due
      <3> QED
        BY <3>2, <3>3, <3>4
    <2>4. work' \in [Workers -> Worker]
      BY <1>6, WorkerKept DEF Fail
    <2> QED
      BY <1>6, <2>2, <2>3, <2>4 DEF Fail, TypeOK
  <1>7. ASSUME NEW w \in Workers, WorkerLost(w) PROVE TypeOK'
    BY <1>7, WorkerKept DEF WorkerLost, TypeOK, InboxAssumption
  <1>8. ASSUME NEW k \in Keys, LeaseExpires(k) \/ BackoffEnds(k) PROVE TypeOK'
    <2>1. /\ [row[k] EXCEPT !.live = FALSE] \in Row
          /\ [row[k] EXCEPT !.due = TRUE] \in Row
      BY DEF TypeOK, Row
    <2> QED
      BY <1>8, <2>1 DEF LeaseExpires, BackoffEnds, TypeOK
  <1>9. ASSUME NEW k \in Keys, Redrive(k) PROVE TypeOK'
    <2>1. [row[k] EXCEPT !.status = "received", !.attempts = 0, !.due = TRUE] \in Row
      BY DEF TypeOK, Row, Statuses
    <2> QED
      BY <1>9, <2>1 DEF Redrive, TypeOK
  <1> QED
    BY <1>1, <1>2, <1>3, <1>4, <1>5, <1>6, <1>7, <1>8, <1>9 DEF Working

-----------------------------------------------------------------------------
(* The inductive invariant.                                                *)

\* The unique index: what a request has staged is in no row, and no other
\* request has staged it.
StagedOnce ==
  \A r \in Requests : req[r] # Idle =>
    \A k \in DOMAIN req[r].staged :
      /\ ~Stored(k)
      /\ \A q \in Requests : q # r /\ req[q] # Idle => k \notin DOMAIN req[q].staged

\* A request has stored or staged, or found stored, all it has passed.
Walked ==
  \A r \in Requests : req[r] # Idle =>
    \A j \in 1 .. Len(req[r].batch) : j < req[r].i =>
      Stored(req[r].batch[j]) \/ req[r].batch[j] \in DOMAIN req[r].staged

\* Nobody leases or delays an event without a tenant.
QuarantineRests ==
  \A k \in Keys : row[k].status = "quarantined" => ~row[k].live /\ row[k].due

IInv ==
  /\ TypeOK /\ Within /\ StagedOnce /\ Walked /\ QuarantineRests
  /\ AcceptedIsStored /\ EffectsOnce

LEMMA InitIInv == InboxAssumption /\ Init => IInv
  <1> SUFFICES ASSUME InboxAssumption, Init PROVE IInv
    OBVIOUS
  <1>1. TypeOK
    BY InitTypeOK
  <1> QED
    BY <1>1 DEF Init, IInv, Within, StagedOnce, Walked, QuarantineRests, AcceptedIsStored,
                EffectsOnce, Stored, Absent, Idle

\* A request that goes on or ends without committing keeps the invariant, if
\* what it then has staged and passed is in order.
LEMMA RequestKeeps ==
  ASSUME InboxAssumption, IInv, TypeOK', Within', NEW r \in Requests,
         NEW q \in Request, req' = [req EXCEPT ![r] = q],
         UNCHANGED <<row, acked, effects>>,
         q # Idle =>
           /\ \A k \in DOMAIN q.staged :
                /\ ~Stored(k)
                /\ \A p \in Requests : p # r /\ req[p] # Idle => k \notin DOMAIN req[p].staged
           /\ \A j \in 1 .. Len(q.batch) : j < q.i =>
                Stored(q.batch[j]) \/ q.batch[j] \in DOMAIN q.staged
  PROVE  IInv'
  <1>1. req'[r] = q /\ \A p \in Requests : p # r => req'[p] = req[p]
    BY DEF IInv, TypeOK
  <1>2. \A k : Stored(k)' <=> Stored(k)
    BY DEF Stored
  <1>3. StagedOnce'
    <2> SUFFICES ASSUME NEW p \in Requests, req'[p] # Idle, NEW k \in DOMAIN req'[p].staged
                 PROVE  /\ ~Stored(k)
                        /\ \A o \in Requests : o # p /\ req'[o] # Idle =>
                             k \notin DOMAIN req'[o].staged
      BY <1>2 DEF StagedOnce
    <2>1. CASE p = r
      BY <2>1, <1>1
    <2>2. CASE p # r
      BY <2>2, <1>1 DEF IInv, StagedOnce
    <2> QED
      BY <2>1, <2>2
  <1>4. Walked'
    <2> SUFFICES ASSUME NEW p \in Requests, req'[p] # Idle,
                        NEW j \in 1 .. Len(req'[p].batch), j < req'[p].i
                 PROVE  \/ Stored(req'[p].batch[j])
                        \/ req'[p].batch[j] \in DOMAIN req'[p].staged
      BY <1>2 DEF Walked
    <2>1. CASE p = r
      BY <2>1, <1>1
    <2>2. CASE p # r
      BY <2>2, <1>1 DEF IInv, Walked
    <2> QED
      BY <2>1, <2>2
  <1> QED
    BY <1>2, <1>3, <1>4 DEF IInv, QuarantineRests, AcceptedIsStored, EffectsOnce

LEMMA IngressIInv ==
  ASSUME InboxAssumption, IInv, NEW r \in Requests,
         (\E b \in Batches : Post(r, b)) \/ IngressStep(r) \/ RequestLost(r)
  PROVE  IInv'
  <1> USE DEF inboxSame
  <1>0. req[r] \in Request /\ Idle \in Request
    BY DEF IInv, TypeOK, Request
  <1>t. TypeOK' /\ Within'
    BY IngressTypeOK DEF IInv
  <1>f. req[r] # Idle =>
          /\ req[r].staged \in Staging /\ req[r].route \in Tenants \cup {NoOne}
          /\ req[r].batch \in Seq(Keys) /\ req[r].i \in Nat \ {0}
    BY <1>0, RequestFields DEF InboxAssumption
  <1>1. ASSUME NEW b \in Batches, Post(r, b) PROVE IInv'
    <2> DEFINE q == [at |-> "lookup", batch |-> b, i |-> 1, route |-> NoOne, staged |-> <<>>]
    <2>1. req' = [req EXCEPT ![r] = q] /\ q \in Request
      BY <1>1, <1>t DEF Post, IInv, TypeOK
    <2>2. DOMAIN q.staged = {} /\ \A j \in 1 .. Len(q.batch) : ~(j < q.i)
      OBVIOUS
    <2> HIDE DEF q
    <2> QED
      BY <1>1, <1>t, <2>1, <2>2, RequestKeeps DEF Post
  <1>2. ASSUME LookupFinds(r) PROVE IInv'
    <2>1. req[r] # Idle
      BY <1>0, <1>2, RequestRuns DEF LookupFinds, Reading
    <2> DEFINE q == Advanced(req[r])
    <2>2. req' = [req EXCEPT ![r] = q]
      BY <1>2 DEF LookupFinds, Next1, Advanced
    <2>3. /\ q \in Request /\ q.batch = req[r].batch /\ q.i = req[r].i + 1
          /\ q.staged = req[r].staged
      BY <1>0, <1>f, <2>1, RequestExcept
    <2>4. ASSUME NEW j \in 1 .. Len(q.batch), j < q.i
          PROVE  Stored(q.batch[j]) \/ q.batch[j] \in DOMAIN q.staged
      <3>1. CASE j < req[r].i
        BY <2>1, <2>3, <2>4, <3>1 DEF IInv, Walked
      <3>2. CASE j = req[r].i
        BY <1>2, <2>3, <3>2 DEF LookupFinds, Seen, Current
      <3> QED
        BY <1>f, <2>1, <2>3, <2>4, <3>1, <3>2
    <2> HIDE DEF q
    <2>5. \A k \in DOMAIN q.staged :
            /\ ~Stored(k)
            /\ \A p \in Requests : p # r /\ req[p] # Idle => k \notin DOMAIN req[p].staged
      BY <2>1, <2>3 DEF IInv, StagedOnce
    <2> QED
      BY <1>2, <1>t, <2>2, <2>3, <2>4, <2>5, RequestKeeps DEF LookupFinds
  <1>3. ASSUME LookupMisses(r) PROVE IInv'
    <2>1. req[r] # Idle
      BY <1>0, <1>3, RequestRuns DEF LookupMisses, Reading
    <2> DEFINE n == owner[AssetOf[Current(r)]]
               q == Missed(req[r], n)
    <2>2. req' = [req EXCEPT ![r] = q]
      BY <1>3 DEF LookupMisses, Missed, IInv, TypeOK
    <2>3. n \in Tenants \cup {NoOne}
      <3>1. req[r].i \in 1 .. Len(req[r].batch)
        BY <1>3, <1>f, <2>1 DEF LookupMisses, Reading
      <3> QED
        BY <2>1, <3>1, CurrentKey DEF IInv, TypeOK, InboxAssumption
    <2>4. /\ q \in Request /\ q.batch = req[r].batch /\ q.i = req[r].i
          /\ q.staged = req[r].staged
      BY <1>0, <1>f, <2>1, <2>3, RequestExcept
    <2> HIDE DEF q
    <2> QED
      BY <1>3, <1>t, <2>1, <2>2, <2>4, RequestKeeps
      DEF LookupMisses, IInv, StagedOnce, Walked
  <1>4. ASSUME Insert(r) PROVE IInv'
    <2>1. req[r] # Idle /\ req[r].at = "insert"
      BY <1>0, <1>4, RequestRuns DEF Insert, Insertable
    <2> DEFINE K == DOMAIN req[r].staged \cup {Current(r)}
               f == [j \in K |-> IF j = Current(r) THEN req[r].route
                                                   ELSE req[r].staged[j]]
               q == Staged(Advanced(req[r]), f)
    <2>2. req' = [req EXCEPT ![r] = q]
      BY <1>4 DEF Insert, Next1, Advanced, Staged
    <2>3. f \in Staging
      <3>1. Current(r) \in Keys
        BY <2>1, CurrentKey DEF IInv, Within
      <3>2. K \in SUBSET Keys
        BY <1>f, <2>1, <3>1, StagingFields
      <3>3. f \in [K -> Tenants \cup {NoOne}]
        BY <1>f, <2>1, StagingFields
      <3> QED
        BY <3>2, <3>3 DEF Staging
    <2>4. DOMAIN f = K
      OBVIOUS
    <2> HIDE DEF f
    <2>5. /\ Advanced(req[r]) \in Request /\ Advanced(req[r]).at = "lookup"
          /\ Advanced(req[r]).batch = req[r].batch /\ Advanced(req[r]).i = req[r].i + 1
      BY <1>0, <1>f, <2>1, RequestExcept
    <2>6. /\ q \in Request /\ q.batch = req[r].batch /\ q.i = req[r].i + 1
          /\ q.staged = f
      <3>1. Advanced(req[r]) # Idle
        BY <2>5, RequestRuns
      <3> QED
        BY <1>f, <2>1, <2>3, <2>5, <3>1, RequestExcept
    <2> HIDE DEF q
    <2>7. ASSUME NEW j \in 1 .. Len(q.batch), j < q.i
          PROVE  Stored(q.batch[j]) \/ q.batch[j] \in DOMAIN q.staged
      <3>1. CASE j < req[r].i
        BY <2>1, <2>4, <2>6, <2>7, <3>1 DEF IInv, Walked
      <3>2. CASE j = req[r].i
        BY <2>4, <2>6, <3>2 DEF Current
      <3> QED
        BY <1>f, <2>1, <2>6, <2>7, <3>1, <3>2
    <2>8. ASSUME NEW k \in DOMAIN q.staged
          PROVE  /\ ~Stored(k)
                 /\ \A p \in Requests : p # r /\ req[p] # Idle =>
                      k \notin DOMAIN req[p].staged
      <3>1. CASE k = Current(r)
        BY <1>4, <3>1 DEF Insert, Insertable, Awaits
      <3>2. CASE k \in DOMAIN req[r].staged
        BY <2>1, <3>2 DEF IInv, StagedOnce
      <3> QED
        BY <2>4, <2>6, <2>8, <3>1, <3>2
    <2> QED
      BY <1>4, <1>t, <2>2, <2>6, <2>7, <2>8, RequestKeeps DEF Insert
  <1>5. ASSUME Rollback(r) PROVE IInv'
    BY <1>0, <1>5, <1>t, RequestKeeps DEF Rollback
  <1>6. ASSUME Accept(r) PROVE IInv'
    <2>1. req[r] # Idle
      BY <1>0, <1>6, RequestRuns DEF Accept, Finished
    <2>2. /\ req'[r] = Idle
          /\ \A p \in Requests : p # r => req'[p] = req[p]
      BY <1>6 DEF Accept, IInv, TypeOK
    <2>3. DOMAIN req[r].staged \subseteq Keys
      BY <1>f, <2>1, StagingFields
    <2>4. \A k \in Keys \ DOMAIN req[r].staged : row'[k] = row[k]
      BY <1>6 DEF Accept
    <2>5. \A k \in DOMAIN req[r].staged :
            /\ row'[k].status \in {"received", "quarantined"}
            /\ ~row'[k].live /\ row'[k].due
      <3>1. \A n : /\ Received(n).status \in {"received", "quarantined"}
                   /\ ~Received(n).live /\ Received(n).due
        BY DEF Received, Absent
      <3> QED
        BY <1>6, <2>3, <3>1 DEF Accept
    <2>6. \A k \in Keys : Stored(k)' <=> Stored(k) \/ k \in DOMAIN req[r].staged
      BY <2>4, <2>5 DEF Stored
    <2>7. \A p \in Requests : req[p] # Idle => DOMAIN req[p].staged \subseteq Keys
      BY RequestFields, StagingFields DEF IInv, TypeOK
    <2>8. StagedOnce'
      <3> SUFFICES ASSUME NEW p \in Requests, req'[p] # Idle,
                          NEW k \in DOMAIN req'[p].staged
                   PROVE  /\ ~Stored(k)'
                          /\ \A o \in Requests : o # p /\ req'[o] # Idle =>
                               k \notin DOMAIN req'[o].staged
        BY DEF StagedOnce
      <3>1. p # r /\ req'[p] = req[p] /\ k \in Keys
        BY <2>2, <2>7
      <3>2. ~Stored(k) /\ k \notin DOMAIN req[r].staged
        BY <2>1, <3>1 DEF IInv, StagedOnce
      <3> QED
        BY <2>2, <2>6, <3>1, <3>2 DEF IInv, StagedOnce
    <2>9. Walked'
      <3> SUFFICES ASSUME NEW p \in Requests, req'[p] # Idle,
                          NEW j \in 1 .. Len(req'[p].batch), j < req'[p].i
                   PROVE  \/ Stored(req[p].batch[j])'
                          \/ req'[p].batch[j] \in DOMAIN req'[p].staged
        BY DEF Walked
      <3>1. req'[p] = req[p]
        BY <2>2
      <3>2. req[p].batch[j] \in Keys
        <4>1. req[p].batch \in Seq(Keys)
          BY <3>1, RequestFields DEF IInv, TypeOK, InboxAssumption
        <4> QED
          BY <3>1, <4>1
      <3>3. Stored(req[p].batch[j])' <=> row'[req[p].batch[j]].status # "absent"
        BY <3>1 DEF Stored
      <3> QED
        BY <2>6, <3>1, <3>2, <3>3 DEF IInv, Walked, Stored
    <2>10. AcceptedIsStored'
      <3> SUFFICES ASSUME NEW b \in acked', NEW j \in DOMAIN b PROVE Stored(b[j])'
        BY DEF AcceptedIsStored
      <3>1. b \in Seq(Keys)
        BY <1>f, <2>1, <1>6 DEF Accept, IInv, TypeOK, InboxAssumption
      <3>2. b[j] \in Keys /\ j \in 1 .. Len(b)
        BY <3>1
      <3>3. CASE b \in acked
        BY <2>6, <3>2, <3>3 DEF IInv, AcceptedIsStored
      <3>4. CASE b = req[r].batch
        <4>1. j < req[r].i
          BY <1>6, <1>f, <2>1, <3>2, <3>4 DEF Accept, Finished
        <4> QED
          BY <2>1, <2>6, <3>2, <3>4, <4>1 DEF IInv, Walked
      <3> QED
        BY <1>6, <3>3, <3>4 DEF Accept
    <2>11. QuarantineRests' /\ EffectsOnce'
      <3> SUFFICES ASSUME NEW k \in Keys
                   PROVE  /\ row'[k].status = "quarantined" => ~row'[k].live /\ row'[k].due
                          /\ effects'[k] = IF row'[k].status = "processed" THEN 1 ELSE 0
        BY DEF QuarantineRests, EffectsOnce
      <3>1. effects' = effects
        BY <1>6 DEF Accept
      <3>2. CASE k \in DOMAIN req[r].staged
        <4>1. row[k].status = "absent"
          BY <2>1, <3>2 DEF IInv, StagedOnce, Stored
        <4> QED
          BY <2>5, <3>1, <3>2, <4>1 DEF IInv, EffectsOnce
      <3>3. CASE k \notin DOMAIN req[r].staged
        BY <2>4, <3>1, <3>3 DEF IInv, EffectsOnce, QuarantineRests
      <3> QED
        BY <3>2, <3>3
    <2> QED
      BY <1>t, <2>8, <2>9, <2>10, <2>11 DEF IInv
  <1> QED
    BY <1>1, <1>2, <1>3, <1>4, <1>5, <1>6
    DEF IngressStep, InsertCollides, DeadlockVictim, RequestLost

\* What a step of a worker may do to a row: it stays stored or not, it leaves
\* processing and becomes processed only under the lease of the worker that
\* ends its work, and a quarantined or processed row stays as it is but for the
\* flags of the lease.
RowKept(k) ==
  /\ row'[k].tenant = row[k].tenant
  /\ Stored(k) <=> row'[k].status # "absent"
  /\ row[k].status = "quarantined" => row'[k] = row[k]
  /\ row'[k].status = "quarantined" => row'[k] = row[k]
  /\ row[k].status = "processing" /\ row'[k].status # "processing" =>
       \E w \in Workers : /\ work[w] # Idle /\ work'[w] = Idle
                          /\ work[w].k = k /\ work[w].token = row[k].token
  /\ effects'[k] = IF row'[k].status = "processed" THEN 1 ELSE 0

LEMMA WorkingRows ==
  ASSUME InboxAssumption, IInv, Working, NEW k \in Keys
  PROVE  RowKept(k)
  <1> USE DEF ingressSame
  <1>0. /\ row \in [Keys -> Row] /\ work \in [Workers -> Worker]
        /\ effects \in [Keys -> Nat] /\ row[k] \in Row
        /\ effects[k] = IF row[k].status = "processed" THEN 1 ELSE 0
        /\ row[k].status = "quarantined" => ~row[k].live /\ row[k].due
    BY DEF IInv, TypeOK, EffectsOnce, QuarantineRests
  <1>1. ASSUME NEW w \in Workers, NEW j \in Keys, Claim(w, j)
        PROVE  /\ row'[k].tenant = row[k].tenant /\ effects' = effects
               /\ k # j => row'[k] = row[k]
               /\ row'[j].status = "processing" /\ row[j].status # "absent"
               /\ row[j].status # "quarantined" /\ row[j].status # "processed"
    BY <1>0, <1>1 DEF Claim, Claimable, Row
  <1>2. ASSUME NEW w \in Workers, Complete(w)
        PROVE  /\ row'[k].tenant = row[k].tenant
               /\ work[w] # Idle /\ work'[w] = Idle /\ work[w].k \in Keys
               /\ row[work[w].k].status = "processing"
               /\ row[work[w].k].token = work[w].token
               /\ k # work[w].k => row'[k] = row[k] /\ effects'[k] = effects[k]
               /\ row'[work[w].k].status = "processed"
               /\ effects'[work[w].k] = effects[work[w].k] + 1
    <2>1. work[w] # Idle
      BY <1>2 DEF Complete, Idle
    <2>2. work[w].k \in Keys
      BY <1>0, <2>1, WorkerFields
    <2> QED
      BY <1>0, <1>2, <2>1, <2>2 DEF Complete, Holds, Leave, Row
  <1>3. ASSUME NEW w \in Workers, Fail(w), Holds(w)
        PROVE  /\ row'[k].tenant = row[k].tenant /\ effects' = effects
               /\ work[w] # Idle /\ work'[w] = Idle /\ work[w].k \in Keys
               /\ row[work[w].k].status = "processing"
               /\ row[work[w].k].token = work[w].token
               /\ k # work[w].k => row'[k] = row[k]
               /\ row'[work[w].k].status \in {"dead_letter", "failed"}
    <2>1. work[w] # Idle
      BY <1>3 DEF Fail, Idle
    <2>2. work[w].k \in Keys
      BY <1>0, <2>1, WorkerFields
    <2>3. /\ Failed(row[work[w].k]).status \in {"dead_letter", "failed"}
          /\ Failed(row[work[w].k]).tenant = row[work[w].k].tenant
      <3>1. row[work[w].k] \in Row
        BY <1>0, <2>2
      <3> QED
        BY <3>1 DEF Failed, Row
    <2> QED
      BY <1>0, <1>3, <2>1, <2>2, <2>3 DEF Fail, Holds, Leave
  <1>4. ASSUME NEW j \in Keys, LeaseExpires(j) \/ BackoffEnds(j)
        PROVE  /\ row'[k].tenant = row[k].tenant /\ effects' = effects
               /\ row'[k].status = row[k].status
               /\ row[k].status = "quarantined" => row'[k] = row[k]
    <2>1. CASE k = j
      BY <1>0, <1>4, <2>1 DEF LeaseExpires, BackoffEnds, Row
    <2>2. CASE k # j
      BY <1>0, <1>4, <2>2 DEF LeaseExpires, BackoffEnds
    <2> QED
      BY <2>1, <2>2
  <1>5. ASSUME NEW j \in Keys, Redrive(j)
        PROVE  /\ row'[k].tenant = row[k].tenant /\ effects' = effects
               /\ k # j => row'[k] = row[k]
               /\ row[j].status = "dead_letter" /\ row'[j].status = "received"
    BY <1>0, <1>5 DEF Redrive, Redrivable, Row
  <1>6. UNCHANGED <<row, effects>> => RowKept(k)
    BY <1>0 DEF RowKept, Stored
  <1>7. ASSUME NEW w \in Workers, NEW j \in Keys, Claim(w, j) PROVE RowKept(k)
    BY <1>0, <1>1, <1>7 DEF RowKept, Stored
  <1>8. ASSUME NEW w \in Workers, Complete(w) PROVE RowKept(k)
    BY <1>0, <1>2, <1>8 DEF RowKept, Stored
  <1>9. ASSUME NEW w \in Workers, Fail(w) PROVE RowKept(k)
    <2>1. CASE Holds(w)
      BY <1>0, <1>3, <1>9, <2>1 DEF RowKept, Stored
    <2>2. CASE ~Holds(w)
      BY <1>6, <1>9, <2>2 DEF Fail
    <2> QED
      BY <2>1, <2>2
  <1>10. ASSUME NEW w \in Workers,
                EffectBegin(w) \/ CompleteRefused(w) \/ EffectRaises(w) \/ WorkerLost(w)
         PROVE  RowKept(k)
    BY <1>6, <1>10 DEF EffectBegin, CompleteRefused, EffectRaises, WorkerLost
  <1>11. ASSUME NEW j \in Keys, LeaseExpires(j) \/ BackoffEnds(j) PROVE RowKept(k)
    BY <1>0, <1>4, <1>11 DEF RowKept, Stored
  <1>12. ASSUME NEW j \in Keys, Redrive(j) PROVE RowKept(k)
    BY <1>0, <1>5, <1>12 DEF RowKept, Stored
  <1> QED
    BY <1>7, <1>8, <1>9, <1>10, <1>11, <1>12 DEF Working

LEMMA WorkingIInv ==
  ASSUME InboxAssumption, IInv, Working
  PROVE  IInv'
  <1>1. TypeOK'
    BY WorkingTypeOK DEF IInv
  <1>2. UNCHANGED <<req, acked>>
    BY DEF Working, ingressSame, Claim, EffectBegin, Complete, CompleteRefused, EffectRaises,
           Fail, WorkerLost, LeaseExpires, BackoffEnds, Redrive
  <1>3. \A k \in Keys : Stored(k)' <=> Stored(k)
    BY WorkingRows DEF RowKept, Stored
  <1>4. QuarantineRests' /\ EffectsOnce'
    BY WorkingRows DEF RowKept, IInv, QuarantineRests, EffectsOnce
  <1>5. \A r \in Requests : req[r] # Idle =>
          DOMAIN req[r].staged \subseteq Keys /\ req[r].batch \in Seq(Keys)
    BY RequestFields, StagingFields DEF IInv, TypeOK, InboxAssumption
  <1>6. StagedOnce'
    BY <1>2, <1>3, <1>5 DEF IInv, StagedOnce
  <1>7. Walked'
    <2> SUFFICES ASSUME NEW r \in Requests, req[r] # Idle,
                        NEW j \in 1 .. Len(req[r].batch), j < req[r].i
                 PROVE  \/ Stored(req[r].batch[j])'
                        \/ req[r].batch[j] \in DOMAIN req[r].staged
      BY <1>2 DEF Walked, Stored
    <2>1. req[r].batch[j] \in Keys
      <3>1. req[r].batch \in Seq(Keys)
        BY <1>5
      <3> QED
        BY <3>1
    <2>2. Stored(req[r].batch[j]) \/ req[r].batch[j] \in DOMAIN req[r].staged
      BY DEF IInv, Walked
    <2> QED
      BY <1>2, <1>3, <2>1, <2>2 DEF Stored
  <1>8. AcceptedIsStored'
    <2> SUFFICES ASSUME NEW b \in acked, NEW j \in DOMAIN b PROVE Stored(b[j])'
      BY <1>2 DEF AcceptedIsStored
    <2>1. b \in Seq(Keys)
      BY DEF IInv, TypeOK, InboxAssumption
    <2>2. b[j] \in Keys
      BY <2>1
    <2> QED
      BY <1>3, <2>2 DEF IInv, AcceptedIsStored
  <1> QED
    BY <1>1, <1>2, <1>4, <1>6, <1>7, <1>8 DEF IInv, Within

LEMMA NextIInv == InboxAssumption /\ IInv /\ [Next]_vars => IInv'
  <1> SUFFICES ASSUME InboxAssumption, IInv, [Next]_vars PROVE IInv'
    OBVIOUS
  <1>1. CASE \E r \in Requests : \/ \E b \in Batches : Post(r, b)
                                 \/ IngressStep(r) \/ RequestLost(r)
    BY <1>1, IngressIInv
  <1>2. CASE Working
    BY <1>2, WorkingIInv
  <1>3. ASSUME NEW a \in Assets, NEW tenant \in Tenants \cup {NoOne}, AssetChanges(a, tenant)
        PROVE  IInv'
    <2>1. TypeOK'
      BY <1>3 DEF AssetChanges, IInv, TypeOK, InboxAssumption
    <2> QED
      BY <1>3, <2>1 DEF AssetChanges, IInv, Within, StagedOnce, Walked, QuarantineRests,
                        AcceptedIsStored, EffectsOnce, Stored
  <1>4. CASE UNCHANGED vars
    BY <1>4 DEF vars, IInv, TypeOK, Within, StagedOnce, Walked, QuarantineRests,
                AcceptedIsStored, EffectsOnce, Stored
  <1>5. \/ \E r \in Requests : \/ \E b \in Batches : Post(r, b)
                               \/ IngressStep(r) \/ RequestLost(r)
        \/ Working
        \/ \E a \in Assets, tenant \in Tenants \cup {NoOne} : AssetChanges(a, tenant)
        \/ UNCHANGED vars
    BY Zenon DEF Next, Working
  <1> QED
    BY <1>1, <1>2, <1>3, <1>4, <1>5

LEMMA Invariance == ASSUME InboxAssumption PROVE Spec => []IInv
  BY InitIInv, NextIInv, PTL DEF Spec

-----------------------------------------------------------------------------
(* Theorems.                                                               *)

\* Events, requests and workers keep the shape the code gives them.
THEOREM TypeCorrect == ASSUME InboxAssumption PROVE Spec => []TypeOK
  <1>1. IInv => TypeOK
    BY DEF IInv
  <1> QED
    BY <1>1, Invariance, PTL

\* receive_meta_webhook: a batch answered with 200 has all its events in the
\* inbox, whatever other requests insert, wait for or roll back meanwhile.
THEOREM AcceptedStaysStored == ASSUME InboxAssumption PROVE Spec => []AcceptedIsStored
  <1>1. IInv => AcceptedIsStored
    BY DEF IInv
  <1> QED
    BY <1>1, Invariance, PTL

\* complete_webhook_event: the effects of an event are committed when it becomes
\* processed and never again, however many workers lost their lease of it.
THEOREM EffectsHappenOnce == ASSUME InboxAssumption PROVE Spec => []EffectsOnce
  <1>1. IInv => EffectsOnce
    BY DEF IInv
  <1> QED
    BY <1>1, Invariance, PTL

\* The steps of others and the writes of the ingress leave a leased row alone,
\* and a stored one its tenant.
LEMMA StepsRespect ==
  ASSUME InboxAssumption, IInv, [Next]_vars
  PROVE  [LeaseRespectedStep /\ RoutingIsFixedStep]_vars
  <1> SUFFICES ASSUME NEW k \in Keys
               PROVE  /\ row[k].status = "processing" /\ row'[k].status # "processing" =>
                           \E w \in Workers : /\ work[w] # Idle /\ work'[w] = Idle
                                              /\ work[w].k = k /\ work[w].token = row[k].token
                      /\ Stored(k) => /\ row'[k].tenant = row[k].tenant
                                      /\ row[k].status = "quarantined" => row'[k] = row[k]
    BY DEF LeaseRespectedStep, RoutingIsFixedStep
  <1>1. CASE Working
    BY <1>1, WorkingRows DEF RowKept
  <1>2. ASSUME NEW r \in Requests, Accept(r)
        PROVE  Stored(k) => row'[k] = row[k]
    <2>1. req[r] # Idle
      BY <1>2, RequestRuns DEF Accept, Finished, IInv, TypeOK
    <2> QED
      BY <1>2, <2>1 DEF Accept, IInv, StagedOnce
  <1>3. ASSUME NEW r \in Requests,
               \/ \E b \in Batches : Post(r, b)
               \/ LookupFinds(r) \/ LookupMisses(r) \/ Insert(r)
               \/ InsertCollides(r) \/ DeadlockVictim(r) \/ RequestLost(r)
        PROVE  row' = row
    BY <1>3 DEF Post, LookupFinds, LookupMisses, Insert, InsertCollides, DeadlockVictim,
                RequestLost, Rollback
  <1>4. CASE \E a \in Assets, tenant \in Tenants \cup {NoOne} : AssetChanges(a, tenant)
    BY <1>4 DEF AssetChanges
  <1>5. CASE UNCHANGED vars
    BY <1>5 DEF vars
  <1>6. CASE \E r \in Requests : \/ \E b \in Batches : Post(r, b)
                                 \/ IngressStep(r) \/ RequestLost(r)
    <2>1. Stored(k) => row'[k] = row[k]
      BY <1>2, <1>3, <1>6 DEF IngressStep
    <2> QED
      BY <2>1 DEF Stored
  <1>7. \/ \E r \in Requests : \/ \E b \in Batches : Post(r, b)
                               \/ IngressStep(r) \/ RequestLost(r)
        \/ Working
        \/ \E a \in Assets, tenant \in Tenants \cup {NoOne} : AssetChanges(a, tenant)
        \/ UNCHANGED vars
    BY Zenon DEF Next, Working
  <1> QED
    BY <1>1, <1>4, <1>5, <1>6, <1>7

\* complete_webhook_event and fail_webhook_event compare the lease token: only
\* the worker whose token the row carries takes it out of processing.
THEOREM LeasesAreRespected == ASSUME InboxAssumption PROVE Spec => LeaseRespected
  <1>1. IInv /\ [Next]_vars => [LeaseRespectedStep]_vars
    BY StepsRespect
  <1> QED
    BY <1>1, Invariance, PTL DEF Spec, LeaseRespected

\* A stored event keeps its tenant, and nothing touches one without a tenant.
THEOREM RoutesAreFixed == ASSUME InboxAssumption PROVE Spec => RoutingIsFixed
  <1>1. IInv /\ [Next]_vars => [RoutingIsFixedStep]_vars
    BY StepsRespect
  <1> QED
    BY <1>1, Invariance, PTL DEF Spec, RoutingIsFixed
=============================================================================
