---------------------------- MODULE WebhookInbox ----------------------------
(***************************************************************************)
(* The durable inbox of provider webhooks.  A request stores the events of *)
(* one signed batch in one transaction; workers claim an event with a      *)
(* lease, apply its effects and complete it, or fail it until it becomes a *)
(* dead letter, which an administrator may redrive.                        *)
(*                                                                         *)
(* The repository holds these operations but no worker that calls them in  *)
(* turn: the one below claims, then runs commit_webhook_effects in a       *)
(* transaction that it rolls back when the answer is False, then fails the *)
(* event when its effect raised.                                           *)
(***************************************************************************)
EXTENDS Naturals, Sequences, FiniteSets

CONSTANTS
  Keys,        \* webhook_events.event_key
  Batches,     \* sequences of keys the provider posts
  Assets, Tenants,
  AssetOf,     \* the asset an event's routing id names
  Requests, Workers,
  MaxAttempts, \* len(BACKOFF_SECONDS)
  MaxClaims,   \* bound: claims of one event
  MaxFaults,   \* bound: crashes and changes of an asset's owner
  NoOne

\* What the constants must satisfy.
InboxAssumption ==
  /\ Batches \subseteq Seq(Keys)
  /\ AssetOf \in [Keys -> Assets]
  /\ MaxAttempts \in Nat \ {0} /\ MaxClaims \in Nat /\ MaxFaults \in Nat
  /\ NoOne \notin Tenants

VARIABLES
  row,      \* webhook_events
  owner,    \* the tenant whose asset is connected under this external id
  req,      \* receive_meta_webhook requests in progress
  work,     \* workers
  acked,    \* batches answered with 200
  claims,   \* lease tokens drawn so far, per event
  faults,   \* crashes and ownership changes so far
  effects,  \* history: effects committed per event
  foreign   \* history: events whose effects met another owner of the asset

vars == <<row, owner, req, work, acked, claims, faults, effects, foreign>>

Statuses == {"absent", "received", "quarantined", "processing", "processed",
             "failed", "dead_letter"}

\* live: lease_expires_at is in the future; due: next_attempt_at has passed.
Row == [status : Statuses, attempts : Nat, token : Nat, live : BOOLEAN,
        due : BOOLEAN, tenant : Tenants \cup {NoOne}]

Absent == [status |-> "absent", attempts |-> 0, token |-> 0, live |-> FALSE,
           due |-> TRUE, tenant |-> NoOne]

Idle == [at |-> "idle"]

\* staged: the keys inserted and not committed, with the tenant of each.
Request ==
       {Idle}
  \cup [at : {"lookup", "insert"}, batch : Batches, i : Nat \ {0},
        route : Tenants \cup {NoOne},
        staged : UNION {[K -> Tenants \cup {NoOne}] : K \in SUBSET Keys}]

Worker == {Idle} \cup [at : {"claimed", "effect", "failing"},
                       k : Keys, token : Nat]

Init ==
  /\ row     = [k \in Keys |-> Absent]
  /\ owner   \in [Assets -> Tenants \cup {NoOne}]
  /\ req     = [r \in Requests |-> Idle]
  /\ work    = [w \in Workers |-> Idle]
  /\ acked   = {}
  /\ claims  = [k \in Keys |-> 0]
  /\ faults  = 0
  /\ effects = [k \in Keys |-> 0]
  /\ foreign = {}

Stored(k) == row[k].status # "absent"

-----------------------------------------------------------------------------
(* Ingress: one transaction per batch, no lock taken before the insert.    *)

inboxSame == <<owner, work, claims, effects, foreign>>

\* A valid signature and payload.  The provider posts a batch again, also
\* when it was already accepted.
Post(r, b) ==
  /\ req[r] = Idle
  /\ req' = [req EXCEPT ![r] = [at |-> "lookup", batch |-> b, i |-> 1,
                                route |-> NoOne, staged |-> <<>>]]
  /\ UNCHANGED <<row, acked, faults, inboxSame>>

Current(r) == req[r].batch[req[r].i]
Reading(r) == req[r].at = "lookup" /\ req[r].i <= Len(req[r].batch)
Next1(r)   == [req[r] EXCEPT !.at = "lookup", !.i = @ + 1]

\* Mutant: only the events of this batch are looked up.
SeenStaged(r) == Current(r) \in DOMAIN req[r].staged

\* The SELECT flushes what the session holds and sees it.
Seen(r) == Stored(Current(r)) \/ Current(r) \in DOMAIN req[r].staged

LookupFinds(r) ==
  /\ Reading(r)
  /\ Seen(r)
  /\ req' = [req EXCEPT ![r] = Next1(r)]
  /\ UNCHANGED <<row, acked, faults, inboxSame>>

\* No such event: the connected asset decides the tenant.
LookupMisses(r) ==
  /\ Reading(r)
  /\ ~Seen(r)
  /\ req' = [req EXCEPT ![r].at = "insert", ![r].route = owner[AssetOf[Current(r)]]]
  /\ UNCHANGED <<row, acked, faults, inboxSame>>

\* The unique index makes an insert wait for the uncommitted one of another.
Awaits(r, q) ==
  /\ r # q
  /\ req[r].at = "insert"
  /\ req[q] # Idle
  /\ Current(r) \in DOMAIN req[q].staged

Insertable(r) == req[r].at = "insert" /\ \A q \in Requests : ~Awaits(r, q)

Insert(r) ==
  LET k == Current(r) IN
  /\ Insertable(r)
  /\ ~Stored(k)
  /\ req' = [req EXCEPT ![r] =
       [Next1(r) EXCEPT !.staged =
          [j \in DOMAIN req[r].staged \cup {k} |->
             IF j = k THEN req[r].route ELSE req[r].staged[j]]]]
  /\ UNCHANGED <<row, acked, faults, inboxSame>>

Rollback(r) ==
  /\ req' = [req EXCEPT ![r] = Idle]
  /\ UNCHANGED <<row, acked, inboxSame>>

\* Another request stored the event since the lookup: the whole batch is
\* rolled back and answered with 503.
InsertCollides(r) ==
  /\ Insertable(r)
  /\ Stored(Current(r))
  /\ Rollback(r)
  /\ UNCHANGED faults

\* PostgreSQL aborts one of two transactions that wait for each other.
DeadlockVictim(r) ==
  /\ \E q \in Requests : Awaits(r, q) /\ Awaits(q, r)
  /\ Rollback(r)
  /\ UNCHANGED faults

RequestLost(r) ==
  /\ req[r] # Idle
  /\ faults < MaxFaults
  /\ faults' = faults + 1
  /\ Rollback(r)

Finished(r) == req[r].at = "lookup" /\ req[r].i > Len(req[r].batch)

Received(tenant) ==
  [Absent EXCEPT !.status = IF tenant = NoOne THEN "quarantined" ELSE "received",
                 !.tenant = tenant]

\* Mutant: each event of the batch is committed on its own.
AcceptEarly(r) ==
  /\ req[r].at = "lookup"
  /\ row' = [k \in Keys |-> IF k \in DOMAIN req[r].staged
                              THEN Received(req[r].staged[k]) ELSE row[k]]
  /\ acked' = acked \cup {req[r].batch}
  /\ req' = [req EXCEPT ![r] = Idle]
  /\ UNCHANGED <<faults, inboxSame>>

Accept(r) ==
  /\ Finished(r)
  /\ row' = [k \in Keys |-> IF k \in DOMAIN req[r].staged
                              THEN Received(req[r].staged[k]) ELSE row[k]]
  /\ acked' = acked \cup {req[r].batch}
  /\ req' = [req EXCEPT ![r] = Idle]
  /\ UNCHANGED <<faults, inboxSame>>

-----------------------------------------------------------------------------
(* Processing.                                                             *)

ingressSame == <<owner, req, acked>>

\* Mutant: whatever is not finished may be claimed.
ClaimableOpen(k) ==
  row[k].status \in {"received", "failed", "quarantined"} /\ row[k].due

Claimable(k) ==
  /\ \/ row[k].status \in {"received", "failed"}
     \/ row[k].status = "processing" /\ ~row[k].live
  /\ row[k].due

Claim(w, k) ==
  /\ work[w] = Idle
  /\ Claimable(k)
  /\ claims[k] < MaxClaims
  /\ claims' = [claims EXCEPT ![k] = @ + 1]
  /\ row' = [row EXCEPT ![k] = [@ EXCEPT !.status = "processing",
               !.attempts = row[k].attempts + 1, !.token = claims[k] + 1, !.live = TRUE]]
  /\ work' = [work EXCEPT ![w] = [at |-> "claimed", k |-> k,
                                  token |-> claims[k] + 1]]
  /\ UNCHANGED <<ingressSame, faults, effects, foreign>>

\* Mutant: the token is not compared.
HoldsAny(w) == row[work[w].k].status = "processing"

Holds(w) ==
  /\ row[work[w].k].status = "processing"
  /\ row[work[w].k].token = work[w].token

Goto(w, at) == work' = [work EXCEPT ![w] = [@ EXCEPT !.at = at]]
Leave(w)    == work' = [work EXCEPT ![w] = Idle]

\* commit_webhook_effects: the event is read without a lock, then the effect
\* runs in the open transaction.
EffectBegin(w) ==
  /\ work[w].at = "claimed"
  /\ IF Holds(w) THEN Goto(w, "effect") ELSE Leave(w)
  /\ UNCHANGED <<ingressSame, row, claims, faults, effects, foreign>>

\* complete_webhook_event locks the row and compares the token again; it and
\* the effects commit together.
Complete(w) ==
  LET k == work[w].k IN
  /\ work[w].at = "effect"
  /\ Holds(w)
  /\ row' = [row EXCEPT ![k] = [@ EXCEPT !.status = "processed", !.live = FALSE]]
  /\ effects' = [effects EXCEPT ![k] = @ + 1]
  /\ foreign' = IF owner[AssetOf[k]] # row[k].tenant THEN foreign \cup {k} ELSE foreign
  /\ Leave(w)
  /\ UNCHANGED <<ingressSame, claims, faults>>

\* Another worker took the event over: the effects are rolled back.
CompleteRefused(w) ==
  /\ work[w].at = "effect"
  /\ ~Holds(w)
  /\ Leave(w)
  /\ UNCHANGED <<ingressSame, row, claims, faults, effects, foreign>>

EffectRaises(w) ==
  /\ work[w].at = "effect"
  /\ Goto(w, "failing")
  /\ UNCHANGED <<ingressSame, row, claims, faults, effects, foreign>>

\* Mutant: a status the CHECK constraint does not list.
FailedUnlisted(e) == [e EXCEPT !.status = "retry", !.live = FALSE]

Failed(e) ==
  [e EXCEPT !.status = IF e.attempts >= MaxAttempts THEN "dead_letter" ELSE "failed",
            !.live = FALSE, !.due = e.attempts >= MaxAttempts]

Fail(w) ==
  /\ work[w].at = "failing"
  /\ row' = IF Holds(w) THEN [row EXCEPT ![work[w].k] = Failed(@)] ELSE row
  /\ Leave(w)
  /\ UNCHANGED <<ingressSame, claims, faults, effects, foreign>>

WorkerLost(w) ==
  /\ work[w] # Idle
  /\ faults < MaxFaults
  /\ faults' = faults + 1
  /\ Leave(w)
  /\ UNCHANGED <<ingressSame, row, claims, effects, foreign>>

LeaseExpires(k) ==
  /\ row[k].live
  /\ row' = [row EXCEPT ![k].live = FALSE]
  /\ UNCHANGED <<ingressSame, work, claims, faults, effects, foreign>>

BackoffEnds(k) ==
  /\ ~row[k].due
  /\ row' = [row EXCEPT ![k].due = TRUE]
  /\ UNCHANGED <<ingressSame, work, claims, faults, effects, foreign>>

\* Mutant: any event that is not in work may be redriven.
RedrivableOpen(k) == row[k].status \in {"dead_letter", "processed", "failed"}

Redrivable(k) == row[k].status = "dead_letter"

Redrive(k) ==
  /\ Redrivable(k)
  /\ claims[k] < MaxClaims
  /\ row' = [row EXCEPT ![k] = [@ EXCEPT !.status = "received", !.attempts = 0,
                                         !.due = TRUE]]
  /\ UNCHANGED <<ingressSame, work, claims, faults, effects, foreign>>

\* The asset is connected, disconnected or moves to another tenant.
AssetChanges(a, tenant) ==
  /\ faults < MaxFaults
  /\ owner[a] # tenant
  /\ owner' = [owner EXCEPT ![a] = tenant]
  /\ faults' = faults + 1
  /\ UNCHANGED <<row, req, work, acked, claims, effects, foreign>>

IngressStep(r) ==
  \/ LookupFinds(r) \/ LookupMisses(r) \/ Insert(r) \/ InsertCollides(r)
  \/ DeadlockVictim(r) \/ Accept(r)

Next ==
  \/ \E r \in Requests : \/ \E b \in Batches : Post(r, b)
                         \/ IngressStep(r)
                         \/ RequestLost(r)
  \/ \E w \in Workers : \/ \E k \in Keys : Claim(w, k)
                        \/ EffectBegin(w) \/ Complete(w) \/ CompleteRefused(w)
                        \/ EffectRaises(w) \/ Fail(w) \/ WorkerLost(w)
  \/ \E k \in Keys : LeaseExpires(k) \/ BackoffEnds(k) \/ Redrive(k)
  \/ \E a \in Assets, tenant \in Tenants \cup {NoOne} : AssetChanges(a, tenant)

Spec == Init /\ [][Next]_vars

\* The provider posts a batch until it is accepted, and finds a free request:
\* the server serves more at once than the model.  A request runs to its end,
\* and an insert goes on when the transaction it waited for has ended.
Fairness ==
  /\ \A r \in Requests : WF_vars(IngressStep(r))
  /\ \A r \in Requests, b \in Batches, i \in 1..Cardinality(Keys) :
       SF_vars(req[r].at = "insert" /\ req[r].batch = b /\ req[r].i = i /\ Insert(r))
  /\ \A b \in Batches :
       SF_vars(b \notin acked /\ \E r \in Requests : Post(r, b))

FairSpec == Spec /\ Fairness

-----------------------------------------------------------------------------
(* Properties.                                                             *)

TypeOK ==
  /\ row     \in [Keys -> Row]
  /\ owner   \in [Assets -> Tenants \cup {NoOne}]
  /\ req     \in [Requests -> Request]
  /\ work    \in [Workers -> Worker]
  /\ acked   \subseteq Batches
  /\ claims  \in [Keys -> 0..MaxClaims]
  /\ faults  \in 0..MaxFaults
  /\ effects \in [Keys -> Nat]
  /\ foreign \subseteq Keys

\* A batch answered with 200 has all its events in the inbox, whatever other
\* requests stored or rolled back at the same time.
AcceptedIsStored ==
  \A b \in acked : \A i \in DOMAIN b : Stored(b[i])

\* The effects of an event are committed exactly when it becomes processed,
\* and at most once, although leases expire while a worker is still at work.
EffectsOnce ==
  \A k \in Keys : effects[k] = IF row[k].status = "processed" THEN 1 ELSE 0

\* Only the worker with the current lease token takes an event out of
\* processing: one whose lease ran out neither completes nor fails the attempt
\* of the worker that took the event over.
LeaseRespectedStep ==
  \A k \in Keys :
     row[k].status = "processing" /\ row'[k].status # "processing" =>
       \E w \in Workers : /\ work[w] # Idle /\ work'[w] = Idle
                          /\ work[w].k = k /\ work[w].token = row[k].token
LeaseRespected == [][LeaseRespectedStep]_vars

\* A stored event keeps the tenant its asset had when it was looked up, and
\* one without a tenant is never claimed, processed or redriven.
RoutingIsFixedStep ==
  \A k \in Keys : Stored(k) =>
     /\ row'[k].tenant = row[k].tenant
     /\ row[k].status = "quarantined" => row'[k] = row[k]
RoutingIsFixed == [][RoutingIsFixedStep]_vars

\* Every batch the provider insists on is accepted in the end, although
\* requests collide on the unique index, deadlock and are lost.
EveryBatchAccepted == \A b \in Batches : <>(b \in acked)

\* What the README says of workers: the asset is still connected to the
\* event's tenant when the effects are produced.
EffectsRevalidated == foreign = {}
=============================================================================
