----------------------------- MODULE EventRelay -----------------------------
(***************************************************************************)
(* The transactional outbox of domain events.  publish_domain_event adds a *)
(* row to outbox_events in its caller's transaction; the beat task         *)
(* outbox.relay, started every five seconds, locks the due rows, hands     *)
(* each to Celery and marks it published when its transaction commits.     *)
(*                                                                         *)
(* Time is counted in runs of the relay: next_attempt_at is the number of  *)
(* runs that still skip a row.                                             *)
(***************************************************************************)
EXTENDS Integers, Sequences, FiniteSets, SequencesExt

CONSTANTS
  Events,
  Poison,      \* events that the queue never accepts
  Relays,      \* workers that run outbox.relay
  Limit,       \* rows of one run
  Period,      \* seconds between runs
  MaxExponent, \* cap of the exponent of the backoff
  MaxFaults    \* bound: lost relays and lost answers of the broker

\* What the constants must satisfy.  The last fact is arithmetic that the
\* provers do not know.
RelayAssumption ==
  /\ Poison \subseteq Events
  /\ Limit \in Nat \ {0} /\ Period \in Nat \ {0}
  /\ MaxExponent \in Nat /\ MaxFaults \in Nat
  /\ \A n \in 0 .. MaxExponent : 2 ^ n \in Nat  \* true of any n

VARIABLES
  order,     \* events in order of created_at
  published, \* events with published_at
  attempts, next_attempt_at,
  relay,     \* runs in progress, each in its own transaction
  faults,
  queue,     \* external: how often the broker took automation.process_event
  lost       \* history: how many of these no commit will record, because the
             \* broker's answer or the relay was lost

vars == <<order, published, attempts, next_attempt_at, relay, faults, queue, lost>>

Idle == [at |-> "idle"]
\* todo: selected rows the loop has not reached; ok: those it enqueued.
Run  == [at : {"relaying"}, rows : SUBSET Events, todo : SUBSET Events,
         ok : SUBSET Events]

Init ==
  /\ order = <<>> /\ published = {}
  /\ attempts        = [e \in Events |-> 0]
  /\ next_attempt_at = [e \in Events |-> 0]
  /\ relay  = [r \in Relays |-> Idle]
  /\ faults = 0
  /\ queue  = [e \in Events |-> 0]
  /\ lost   = [e \in Events |-> 0]

\* The caller's transaction commits.
PublishDomainEvent(e) ==
  /\ ~Contains(order, e)
  /\ order' = Append(order, e)
  /\ UNCHANGED <<published, attempts, next_attempt_at, relay, faults, queue, lost>>

\* Mutant: rows are not locked.
LockedNever(e) == FALSE

Locked(e) == \E r \in Relays : relay[r] # Idle /\ e \in relay[r].rows

Due(e) == /\ Contains(order, e) /\ e \notin published
          /\ next_attempt_at[e] = 0 /\ ~Locked(e)

Before(d, e) == \E i, j \in DOMAIN order : i < j /\ order[i] = d /\ order[j] = e

\* ORDER BY created_at LIMIT.
Selected ==
  {e \in Events : Due(e) /\ Cardinality({d \in Events : Due(d) /\ Before(d, e)}) < Limit}

\* SELECT ... FOR UPDATE SKIP LOCKED; one more period has passed.
Start(r) ==
  /\ relay[r] = Idle
  /\ relay' = [relay EXCEPT ![r] = [at |-> "relaying", rows |-> Selected,
                                    todo |-> Selected, ok |-> {}]]
  /\ next_attempt_at' = [e \in Events |-> IF next_attempt_at[e] = 0 THEN 0
                                          ELSE next_attempt_at[e] - 1]
  /\ UNCHANGED <<order, published, attempts, faults, queue, lost>>

Handling(r, e) ==
  /\ relay[r] # Idle
  /\ e \in relay[r].todo
  /\ \A d \in relay[r].todo : ~Before(d, e)

\* send_task publishes again when the connection fails, and the broker may have
\* taken what it did not answer: tries without an answer, then the answered ones.
Publish(e, unanswered, answered) ==
  /\ faults' = faults + unanswered
  /\ \E taken \in 0 .. unanswered :
       /\ queue' = [queue EXCEPT ![e] = @ + taken + answered]
       /\ lost'  = [lost EXCEPT ![e] = @ + taken]

Enqueue(r, e) ==
  /\ Handling(r, e)
  /\ e \notin Poison
  /\ \E n \in 0 .. MaxFaults - faults : Publish(e, n, 1)
  /\ relay' = [relay EXCEPT ![r].todo = @ \ {e}, ![r].ok = @ \cup {e}]
  /\ UNCHANGED <<order, published, attempts, next_attempt_at>>

\* enqueue raises, whether the broker took the event or not: the row is postponed
\* and the loop goes on.
EnqueueFails(r, e) ==
  /\ Handling(r, e)
  /\ \/ e \in Poison /\ UNCHANGED <<faults, queue, lost>>
     \/ e \notin Poison /\ \E n \in 1 .. MaxFaults - faults : Publish(e, n, 0)
  /\ relay' = [relay EXCEPT ![r].todo = @ \ {e}]
  /\ UNCHANGED <<order, published, attempts, next_attempt_at>>

LeastOf(m, n) == IF m < n THEN m ELSE n

\* Mutant: a failed row is due at once.
BackoffNone(n) == 0

\* Runs of the relay that pass before the row is due again.
Backoff(n) == LeastOf(300, 2 ^ LeastOf(n, MaxExponent)) \div Period

\* Mutant: every selected row is marked.
MarkedAll(r) == relay[r].rows

Marked(r) == relay[r].ok

Commit(r) ==
  /\ relay[r] # Idle
  /\ relay[r].todo = {}
  /\ LET n(e) == LeastOf(attempts[e] + 1, MaxExponent)
     IN /\ attempts' = [e \in Events |-> IF e \in relay[r].rows THEN n(e) ELSE attempts[e]]
        /\ next_attempt_at' = [e \in Events |->
             IF e \in relay[r].rows \ Marked(r) THEN Backoff(n(e)) ELSE next_attempt_at[e]]
  /\ published' = published \cup Marked(r)
  /\ relay' = [relay EXCEPT ![r] = Idle]
  /\ UNCHANGED <<order, faults, queue, lost>>

\* The worker dies or its transaction fails: what it enqueued stays enqueued.
RelayLost(r) ==
  /\ relay[r] # Idle
  /\ faults < MaxFaults
  /\ faults' = faults + 1
  /\ lost' = [e \in Events |-> lost[e] + (IF e \in relay[r].ok THEN 1 ELSE 0)]
  /\ relay' = [relay EXCEPT ![r] = Idle]
  /\ UNCHANGED <<order, published, attempts, next_attempt_at, queue>>

RelayStep(r) ==
  \/ Start(r) \/ Commit(r)
  \/ \E e \in Events : Enqueue(r, e) \/ EnqueueFails(r, e)

Next ==
  \/ \E e \in Events : PublishDomainEvent(e)
  \/ \E r \in Relays : RelayStep(r) \/ RelayLost(r)

Spec == Init /\ [][Next]_vars

\* Beat starts the relay for ever, and a run is never suspended for ever.
FairSpec == Spec /\ \A r \in Relays : WF_vars(RelayStep(r))

-----------------------------------------------------------------------------
\* Every row, run and counter has its type.
TypeOK ==
  /\ order \in Seq(Events) /\ published \subseteq Events
  /\ attempts \in [Events -> 0 .. MaxExponent]
  /\ next_attempt_at \in [Events -> Nat]
  /\ relay \in [Relays -> {Idle} \cup Run]
  /\ faults \in 0 .. MaxFaults
  /\ queue \in [Events -> Nat] /\ lost \in [Events -> Nat]

\* A row marked as published was taken by the queue: a refused or lost one is
\* never forgotten (relay_outbox_events:40-49).
PublishedWasQueued == \A e \in published : queue[e] > 0

\* Of all the times the broker took an event, all but one are explained by an
\* answer or a relay that was lost before the commit; runs that overlap never
\* share a row, and a row that is published is not handed over again.
DuplicatesExplained == \A e \in Events : queue[e] <= 1 + lost[e]

\* Every sound event is published in the end, behind events that always fail
\* and fill a whole run, because the backoff outgrows the period of the relay.
EveryEventPublished ==
  \A e \in Events \ Poison : Contains(order, e) ~> e \in published
=============================================================================
