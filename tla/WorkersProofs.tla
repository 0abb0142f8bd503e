---------------------------- MODULE WorkersProofs ----------------------------
(***************************************************************************)
(* The workers' safety properties, proved for every value of the           *)
(* constants: the relay of domain events, the engine of automation rules   *)
(* and the e-mail outbox.  Each has an inductive invariant of its own,     *)
(* which the steps of the other two leave alone.                           *)
(***************************************************************************)
EXTENDS MCWorkers, FiniteSetTheorems, TLAPS

-----------------------------------------------------------------------------
(* The relay of the domain events.                                         *)

\* An event that a relay has enqueued, committed or not.
Taken(e) == e \in published \/ \E r \in Relays : relay[r] # Relay!Idle /\ e \in relay[r].ok

\* Rows that are held are not published, each is held by one relay, and what
\* was enqueued is no longer to be done.
RunsApart ==
  \A r \in Relays : relay[r] # Relay!Idle =>
    /\ relay[r].todo \cap relay[r].ok = {}
    /\ relay[r].rows \cap published = {}
    /\ relay[r].ok \cup relay[r].todo \subseteq relay[r].rows
    /\ \A s \in Relays \ {r} : relay[s] # Relay!Idle => relay[r].rows \cap relay[s].rows = {}

\* The broker has an event as often as its answer or a relay was lost after it
\* took the event, and once more while it is taken.
HandedOver ==
  \A e \in Events :
    /\ queue[e] <= lost[e] + (IF Taken(e) THEN 1 ELSE 0)
    /\ Taken(e) => queue[e] > 0

RelayInv == Relay!TypeOK /\ RunsApart /\ HandedOver

\* What a run in progress carries.
LEMMA RunFields ==
  ASSUME Relay!TypeOK, NEW r \in Relays, relay[r] # Relay!Idle
  PROVE  /\ relay[r] \in Relay!Run
         /\ relay[r].rows \subseteq Events /\ relay[r].todo \subseteq Events
         /\ relay[r].ok \subseteq Events
  BY DEF Relay!TypeOK, Relay!Run, Relay!Idle

\* The waiting time after a failure is a number of runs.
LEMMA BackoffType ==
  ASSUME NEW n \in 0 .. MaxExponent
  PROVE  Relay!Backoff(n) \in Nat
  <1>1. 2 ^ n \in Nat /\ Period \in Nat \ {0} /\ MaxExponent \in Nat
    BY WorkerAssumption DEF Relay!RelayAssumption
  <1>2. Relay!LeastOf(n, MaxExponent) = n
    BY <1>1 DEF Relay!LeastOf
  <1>3. Relay!LeastOf(300, 2 ^ n) \in Nat
    BY <1>1 DEF Relay!LeastOf
  <1>4. \A k \in Nat, p \in Nat \ {0} : k \div p \in Nat
    OBVIOUS
  <1> QED
    BY <1>1, <1>2, <1>3, <1>4 DEF Relay!Backoff

\* A relay that has not started holds nothing.
LEMMA RelayInit == Relay!Init => RelayInv
  BY WorkerAssumption
     DEF Relay!Init, RelayInv, Relay!TypeOK, RunsApart, HandedOver, Taken, Relay!Idle,
         Relay!RelayAssumption

\* A new row of the outbox.
LEMMA PublishKeeps ==
  ASSUME RelayInv, NEW e \in Events, Relay!PublishDomainEvent(e)
  PROVE  RelayInv'
  BY DEF RelayInv, Relay!PublishDomainEvent, Relay!TypeOK, RunsApart, HandedOver, Taken

\* A run starts with rows that are due, so that nobody holds them.
LEMMA StartKeeps ==
  ASSUME RelayInv, NEW r \in Relays, Relay!Start(r)
  PROVE  RelayInv'
  <1>1. /\ relay[r] = Relay!Idle
        /\ relay' = [relay EXCEPT ![r] = [at |-> "relaying", rows |-> Relay!Selected,
                                          todo |-> Relay!Selected, ok |-> {}]]
        /\ UNCHANGED <<order, published, attempts, relayFaults, queue, lost>>
    BY DEF Relay!Start
  <1>2. /\ Relay!Selected \subseteq Events
        /\ Relay!Selected \cap published = {}
        /\ \A s \in Relays : relay[s] # Relay!Idle => Relay!Selected \cap relay[s].rows = {}
    BY DEF Relay!Selected, Relay!Due, Relay!Locked
  <1> DEFINE run == [at |-> "relaying", rows |-> Relay!Selected, todo |-> Relay!Selected,
                     ok |-> {}]
  <1>3. run \in Relay!Run /\ run # Relay!Idle
    BY <1>2 DEF Relay!Run, Relay!Idle
  <1>4. relay \in [Relays -> {Relay!Idle} \cup Relay!Run]
    BY DEF RelayInv, Relay!TypeOK
  <1>5. run.rows = Relay!Selected /\ run.todo = Relay!Selected /\ run.ok = {}
    OBVIOUS
  <1>6. \A s \in Relays : relay'[s] = IF s = r THEN run ELSE relay[s]
    BY <1>1, <1>4
  <1>7. relay' \in [Relays -> {Relay!Idle} \cup Relay!Run]
    BY <1>1, <1>3, <1>4
  <1> HIDE DEF run
  <1>8. next_attempt_at' \in [Events -> Nat]
    BY DEF Relay!Start, RelayInv, Relay!TypeOK
  <1>9. Relay!TypeOK'
    BY <1>1, <1>7, <1>8 DEF RelayInv, Relay!TypeOK
  <1>10. RunsApart'
    BY <1>1, <1>2, <1>3, <1>5, <1>6 DEF RelayInv, RunsApart
  <1>11. \A e \in Events : Taken(e)' <=> Taken(e)
    BY <1>1, <1>3, <1>5, <1>6 DEF Taken
  <1>12. HandedOver'
    BY <1>1, <1>11 DEF RelayInv, HandedOver
  <1> QED
    BY <1>9, <1>10, <1>12 DEF RelayInv

\* What a hand-over does to the counts: every copy is answered or counted as lost.
LEMMA Published ==
  ASSUME Relay!TypeOK, NEW e \in Events, NEW n \in 0 .. MaxRelayFaults - relayFaults,
         NEW k \in {0, 1}, Relay!Publish(e, n, k)
  PROVE  /\ relayFaults' \in 0 .. MaxRelayFaults
         /\ queue' \in [Events -> Nat] /\ lost' \in [Events -> Nat]
         /\ queue'[e] - lost'[e] = queue[e] - lost[e] + k /\ queue'[e] >= queue[e] + k
         /\ \A d \in Events \ {e} : queue'[d] = queue[d] /\ lost'[d] = lost[d]
  <1>1. PICK taken \in 0 .. n : /\ queue' = [queue EXCEPT ![e] = @ + taken + k]
                               /\ lost'  = [lost EXCEPT ![e] = @ + taken]
    BY DEF Relay!Publish
  <1>2. /\ queue \in [Events -> Nat] /\ lost \in [Events -> Nat]
        /\ relayFaults \in 0 .. MaxRelayFaults /\ MaxRelayFaults \in Nat
    BY WorkerAssumption DEF Relay!TypeOK, Relay!RelayAssumption
  <1>3. queue'[e] = queue[e] + taken + k /\ lost'[e] = lost[e] + taken
    BY <1>1, <1>2
  <1>4. queue[e] \in Nat /\ lost[e] \in Nat /\ taken \in Nat /\ n \in Nat
    BY <1>2
  <1>5. relayFaults' \in 0 .. MaxRelayFaults
    BY <1>2 DEF Relay!Publish
  <1> QED
    BY <1>1, <1>2, <1>3, <1>4, <1>5

\* The loop enqueues a row that is still to be done.
LEMMA EnqueueKeeps ==
  ASSUME RelayInv, NEW r \in Relays, NEW e \in Events, Relay!Enqueue(r, e)
  PROVE  RelayInv'
  <1>1. relay[r] # Relay!Idle /\ e \in relay[r].todo
    BY DEF Relay!Enqueue, Relay!Handling
  <1> DEFINE run == [relay[r] EXCEPT !.todo = @ \ {e}, !.ok = @ \cup {e}]
  <1>2. run \in Relay!Run /\ run # Relay!Idle /\ run.rows = relay[r].rows
        /\ run.todo = relay[r].todo \ {e} /\ run.ok = relay[r].ok \cup {e}
    BY <1>1, RunFields DEF RelayInv, Relay!Run, Relay!Idle
  <1>3. relay' = [relay EXCEPT ![r] = run]
    BY DEF Relay!Enqueue
  <1>4. relay \in [Relays -> {Relay!Idle} \cup Relay!Run]
    BY DEF RelayInv, Relay!TypeOK
  <1> HIDE DEF run
  <1>5. \A s \in Relays : relay'[s] = IF s = r THEN run ELSE relay[s]
    BY <1>3, <1>4
  <1>6. relay' \in [Relays -> {Relay!Idle} \cup Relay!Run]
    BY <1>2, <1>3, <1>4
  <1>7. UNCHANGED <<order, published, attempts, next_attempt_at>>
    BY DEF Relay!Enqueue
  <1>8. PICK n \in 0 .. MaxRelayFaults - relayFaults : Relay!Publish(e, n, 1)
    BY DEF Relay!Enqueue
  <1>9. /\ relayFaults' \in 0 .. MaxRelayFaults
        /\ queue' \in [Events -> Nat] /\ lost' \in [Events -> Nat]
        /\ queue'[e] - lost'[e] = queue[e] - lost[e] + 1 /\ queue'[e] > queue[e]
        /\ \A d \in Events \ {e} : queue'[d] = queue[d] /\ lost'[d] = lost[d]
    <2>1. /\ relayFaults' \in 0 .. MaxRelayFaults
          /\ queue' \in [Events -> Nat] /\ lost' \in [Events -> Nat]
          /\ queue'[e] - lost'[e] = queue[e] - lost[e] + 1 /\ queue'[e] >= queue[e] + 1
          /\ \A d \in Events \ {e} : queue'[d] = queue[d] /\ lost'[d] = lost[d]
      BY <1>8, Published DEF RelayInv
    <2>2. queue[e] \in Nat /\ queue'[e] \in Nat
      BY <2>1 DEF RelayInv, Relay!TypeOK
    <2> QED
      BY <2>1, <2>2
  <1>10. Relay!TypeOK'
    BY <1>6, <1>7, <1>9 DEF RelayInv, Relay!TypeOK
  <1>11. RunsApart'
    BY <1>1, <1>2, <1>5, <1>7 DEF RelayInv, RunsApart
  <1>12. ~Taken(e) /\ Taken(e)'
    <2>1. e \notin published /\ e \notin relay[r].ok
      BY <1>1 DEF RelayInv, RunsApart
    <2>2. \A s \in Relays \ {r} : relay[s] # Relay!Idle => e \notin relay[s].ok
      BY <1>1 DEF RelayInv, RunsApart
    <2> QED
      BY <2>1, <2>2, <1>2, <1>5 DEF Taken
  <1>13. \A d \in Events \ {e} : Taken(d)' <=> Taken(d)
    BY <1>1, <1>2, <1>5, <1>7 DEF Taken
  <1>14. HandedOver'
    <2>1. /\ queue[e] \in Nat /\ lost[e] \in Nat
          /\ queue'[e] \in Nat /\ lost'[e] \in Nat
      BY <1>9 DEF RelayInv, Relay!TypeOK
    <2>2. /\ queue'[e] <= lost'[e] + (IF Taken(e)' THEN 1 ELSE 0)
          /\ Taken(e)' => queue'[e] > 0
      BY <1>12, <1>9, <2>1 DEF RelayInv, HandedOver
    <2>3. \A d \in Events \ {e} :
            /\ queue'[d] <= lost'[d] + (IF Taken(d)' THEN 1 ELSE 0)
            /\ Taken(d)' => queue'[d] > 0
      BY <1>13, <1>9 DEF RelayInv, HandedOver
    <2> QED
      BY <2>2, <2>3 DEF HandedOver
  <1> QED
    BY <1>10, <1>11, <1>14 DEF RelayInv

\* A row that the queue refuses is passed over.
LEMMA EnqueueFailsKeeps ==
  ASSUME RelayInv, NEW r \in Relays, NEW e \in Events, Relay!EnqueueFails(r, e)
  PROVE  RelayInv'
  <1>1. relay[r] # Relay!Idle /\ e \in relay[r].todo
    BY DEF Relay!EnqueueFails, Relay!Handling
  <1> DEFINE run == [relay[r] EXCEPT !.todo = @ \ {e}]
  <1>2. run \in Relay!Run /\ run # Relay!Idle /\ run.rows = relay[r].rows
        /\ run.todo = relay[r].todo \ {e} /\ run.ok = relay[r].ok
    BY <1>1, RunFields DEF RelayInv, Relay!Run, Relay!Idle
  <1>3. relay' = [relay EXCEPT ![r] = run]
    BY DEF Relay!EnqueueFails
  <1>4. relay \in [Relays -> {Relay!Idle} \cup Relay!Run]
    BY DEF RelayInv, Relay!TypeOK
  <1> HIDE DEF run
  <1>5. \A s \in Relays : relay'[s] = IF s = r THEN run ELSE relay[s]
    BY <1>3, <1>4
  <1>6. relay' \in [Relays -> {Relay!Idle} \cup Relay!Run]
    BY <1>2, <1>3, <1>4
  <1>7. UNCHANGED <<order, published, attempts, next_attempt_at>>
    BY DEF Relay!EnqueueFails
  <1>8. /\ relayFaults' \in 0 .. MaxRelayFaults
        /\ queue' \in [Events -> Nat] /\ lost' \in [Events -> Nat]
        /\ \A d \in Events : queue'[d] - lost'[d] = queue[d] - lost[d] /\ queue'[d] >= queue[d]
    <2>1. CASE UNCHANGED <<relayFaults, queue, lost>>
      BY <2>1 DEF RelayInv, Relay!TypeOK
    <2>2. ASSUME NEW n \in 1 .. MaxRelayFaults - relayFaults, Relay!Publish(e, n, 0)
          PROVE  /\ relayFaults' \in 0 .. MaxRelayFaults
                 /\ queue' \in [Events -> Nat] /\ lost' \in [Events -> Nat]
                 /\ \A d \in Events : /\ queue'[d] - lost'[d] = queue[d] - lost[d]
                                      /\ queue'[d] >= queue[d]
      <3>1. n \in 0 .. MaxRelayFaults - relayFaults
        BY WorkerAssumption DEF RelayInv, Relay!TypeOK, Relay!RelayAssumption
      <3>2. /\ relayFaults' \in 0 .. MaxRelayFaults
            /\ queue' \in [Events -> Nat] /\ lost' \in [Events -> Nat]
            /\ queue'[e] - lost'[e] = queue[e] - lost[e] + 0 /\ queue'[e] >= queue[e] + 0
            /\ \A d \in Events \ {e} : queue'[d] = queue[d] /\ lost'[d] = lost[d]
        BY <2>2, <3>1, Published DEF RelayInv
      <3>3. \A d \in Events : queue[d] \in Nat /\ lost[d] \in Nat
        BY DEF RelayInv, Relay!TypeOK
      <3>4. \A d \in Events : queue'[d] \in Nat /\ lost'[d] \in Nat
        BY <3>2
      <3>5. queue'[e] - lost'[e] = queue[e] - lost[e] /\ queue'[e] >= queue[e]
        BY <3>2, <3>3, <3>4
      <3>6. \A d \in Events \ {e} : /\ queue'[d] - lost'[d] = queue[d] - lost[d]
                                     /\ queue'[d] >= queue[d]
        BY <3>2, <3>3
      <3> QED
        BY <3>2, <3>5, <3>6
    <2> QED
      BY <2>1, <2>2 DEF Relay!EnqueueFails
  <1>9. Relay!TypeOK'
    BY <1>6, <1>7, <1>8 DEF RelayInv, Relay!TypeOK
  <1>10. RunsApart'
    BY <1>1, <1>2, <1>5, <1>7 DEF RelayInv, RunsApart
  <1>11. \A d \in Events : Taken(d)' <=> Taken(d)
    BY <1>1, <1>2, <1>5, <1>7 DEF Taken
  <1>12. HandedOver'
    <2>1. \A d \in Events : /\ queue[d] \in Nat /\ lost[d] \in Nat
                            /\ queue'[d] \in Nat /\ lost'[d] \in Nat
      BY <1>8 DEF RelayInv, Relay!TypeOK
    <2> QED
      BY <1>8, <1>11, <2>1 DEF RelayInv, HandedOver
  <1> QED
    BY <1>9, <1>10, <1>12 DEF RelayInv

\* What a run that ends leaves behind.
LEMMA EndedRun ==
  ASSUME RelayInv, NEW r \in Relays, relay[r] # Relay!Idle,
         relay' = [relay EXCEPT ![r] = Relay!Idle]
  PROVE  /\ relay' \in [Relays -> {Relay!Idle} \cup Relay!Run]
         /\ relay'[r] = Relay!Idle
         /\ \A s \in Relays \ {r} : relay'[s] = relay[s]
  BY DEF RelayInv, Relay!TypeOK

\* A run commits: what it enqueued is published.
LEMMA CommitKeeps ==
  ASSUME RelayInv, NEW r \in Relays, Relay!Commit(r)
  PROVE  RelayInv'
  <1>1. /\ relay[r] # Relay!Idle
        /\ published' = published \cup relay[r].ok
        /\ relay' = [relay EXCEPT ![r] = Relay!Idle]
        /\ UNCHANGED <<order, relayFaults, queue, lost>>
    BY DEF Relay!Commit, Relay!Marked
  <1>2. /\ relay' \in [Relays -> {Relay!Idle} \cup Relay!Run]
        /\ relay'[r] = Relay!Idle
        /\ \A s \in Relays \ {r} : relay'[s] = relay[s]
    BY <1>1, EndedRun
  <1>3. \A e \in Events : Relay!LeastOf(attempts[e] + 1, MaxExponent) \in 0 .. MaxExponent
    BY WorkerAssumption DEF Relay!LeastOf, RelayInv, Relay!TypeOK, Relay!RelayAssumption
  <1>4. attempts' \in [Events -> 0 .. MaxExponent]
    BY <1>3 DEF Relay!Commit, RelayInv, Relay!TypeOK
  <1>5. \A e \in Events : Relay!Backoff(Relay!LeastOf(attempts[e] + 1, MaxExponent)) \in Nat
    BY <1>3, BackoffType
  <1>6. next_attempt_at' \in [Events -> Nat]
    BY <1>5 DEF Relay!Commit, RelayInv, Relay!TypeOK
  <1>7. relay[r].ok \subseteq Events
    BY <1>1, RunFields DEF RelayInv
  <1>8. Relay!TypeOK'
    BY <1>1, <1>2, <1>4, <1>6, <1>7 DEF RelayInv, Relay!TypeOK
  <1>9. RunsApart'
    <2>1. \A s \in Relays \ {r} : relay[s] # Relay!Idle => relay[s].rows \cap relay[r].ok = {}
      BY <1>1 DEF RelayInv, RunsApart
    <2> QED
      BY <1>1, <1>2, <2>1 DEF RelayInv, RunsApart
  <1>10. \A e \in Events : Taken(e)' <=> Taken(e)
    BY <1>1, <1>2 DEF Taken
  <1>11. HandedOver'
    BY <1>1, <1>10 DEF RelayInv, HandedOver
  <1> QED
    BY <1>8, <1>9, <1>11 DEF RelayInv

\* A run is lost: what it enqueued stays in the queue and is due again.
LEMMA RelayLostKeeps ==
  ASSUME RelayInv, NEW r \in Relays, Relay!RelayLost(r)
  PROVE  RelayInv'
  <1>1. /\ relay[r] # Relay!Idle
        /\ relayFaults < MaxRelayFaults /\ relayFaults' = relayFaults + 1
        /\ lost' = [e \in Events |-> lost[e] + (IF e \in relay[r].ok THEN 1 ELSE 0)]
        /\ relay' = [relay EXCEPT ![r] = Relay!Idle]
        /\ UNCHANGED <<order, published, attempts, next_attempt_at, queue>>
    BY DEF Relay!RelayLost
  <1>2. /\ relay' \in [Relays -> {Relay!Idle} \cup Relay!Run]
        /\ relay'[r] = Relay!Idle
        /\ \A s \in Relays \ {r} : relay'[s] = relay[s]
    BY <1>1, EndedRun
  <1>3. \A e \in Events : lost[e] \in Nat /\ queue[e] \in Nat
    BY DEF RelayInv, Relay!TypeOK
  <1>4. lost' \in [Events -> Nat]
    BY <1>1, <1>3
  <1>5. relayFaults' \in 0 .. MaxRelayFaults
    BY <1>1, WorkerAssumption DEF RelayInv, Relay!TypeOK, Relay!RelayAssumption
  <1>6. Relay!TypeOK'
    BY <1>1, <1>2, <1>4, <1>5 DEF RelayInv, Relay!TypeOK
  <1>7. RunsApart'
    BY <1>1, <1>2 DEF RelayInv, RunsApart
  <1>8. \A e \in Events : Taken(e)' => Taken(e)
    BY <1>1, <1>2 DEF Taken
  <1>9. \A e \in Events : e \notin relay[r].ok => (Taken(e) => Taken(e)')
    BY <1>1, <1>2 DEF Taken
  <1>10. HandedOver'
    <2> SUFFICES ASSUME NEW e \in Events
                 PROVE  /\ queue[e] <= lost'[e] + (IF Taken(e)' THEN 1 ELSE 0)
                        /\ Taken(e)' => queue[e] > 0
      BY <1>1 DEF HandedOver
    <2>1. lost'[e] = lost[e] + (IF e \in relay[r].ok THEN 1 ELSE 0)
      BY <1>1
    <2>2. /\ queue[e] <= lost[e] + (IF Taken(e) THEN 1 ELSE 0)
          /\ Taken(e) => queue[e] > 0
      BY DEF RelayInv, HandedOver
    <2>3. CASE e \in relay[r].ok
      BY <1>3, <1>8, <2>1, <2>2, <2>3
    <2>4. CASE e \notin relay[r].ok
      BY <1>3, <1>8, <1>9, <2>1, <2>2, <2>4
    <2> QED
      BY <2>3, <2>4
  <1> QED
    BY <1>6, <1>7, <1>10 DEF RelayInv

\* Every step of the relay keeps its invariant.
LEMMA RelayNext == RelayInv /\ Relay!Next => RelayInv'
  <1> SUFFICES ASSUME RelayInv, Relay!Next PROVE RelayInv'
    OBVIOUS
  <1>1. CASE \E e \in Events : Relay!PublishDomainEvent(e)
    BY <1>1, PublishKeeps
  <1>2. ASSUME NEW r \in Relays, Relay!RelayStep(r) PROVE RelayInv'
    BY <1>2, StartKeeps, CommitKeeps, EnqueueKeeps, EnqueueFailsKeeps DEF Relay!RelayStep
  <1>3. ASSUME NEW r \in Relays, Relay!RelayLost(r) PROVE RelayInv'
    BY <1>3, RelayLostKeeps
  <1> QED
    BY <1>1, <1>2, <1>3 DEF Relay!Next

\* The steps of the other components keep it.
LEMMA RelayRests == RelayInv /\ UNCHANGED relayVars => RelayInv'
  BY DEF RelayInv, relayVars, Relay!TypeOK, RunsApart, HandedOver, Taken

\* What the invariant says of the events.
LEMMA RelayMeans == RelayInv => RelaySafety
  <1> SUFFICES ASSUME RelayInv PROVE RelaySafety
    OBVIOUS
  <1>1. \A e \in published : queue[e] > 0
    BY DEF RelayInv, HandedOver, Taken, Relay!TypeOK
  <1>2. \A e \in Events : queue[e] \in Nat /\ lost[e] \in Nat
    BY DEF RelayInv, Relay!TypeOK
  <1>3. \A e \in Events : queue[e] <= 1 + lost[e]
    BY <1>2 DEF RelayInv, HandedOver
  <1> QED
    BY <1>1, <1>3 DEF RelayInv, RelaySafety, Relay!PublishedWasQueued, Relay!DuplicatesExplained

\* An event marked as published was taken by the broker, which took it again only
\* for an answer, or a relay before its commit, that was lost (relay_outbox_events).
THEOREM RelayIsSafe == Spec => []RelaySafety
  <1>1. Init => RelayInv
    BY RelayInit DEF Init
  <1>2. RelayInv /\ [Next]_vars => RelayInv'
    BY RelayNext, RelayRests DEF Next, vars
  <1> QED
    BY <1>1, <1>2, RelayMeans, PTL DEF Spec

-----------------------------------------------------------------------------
(* Executions of automation rules: types.                                  *)

\* What is known of the constants.
LEMMA RuleConstants ==
  /\ NActions \in Nat \ {0} /\ MaxAttempts \in Nat \ {0}
  /\ MaxClaims \in Nat /\ MaxRuleFaults \in Nat
  BY WorkerAssumption DEF Rule!AutomationAssumption

\* The attempts a transaction has written.
Stagings == UNION {[S -> Rule!AttemptStatuses] : S \in SUBSET Rule!Actions}

\* What a worker carries.
LEMMA WorkingFields ==
  ASSUME Rule!TypeOK, NEW w \in Workers, work[w] # Rule!Idle
  PROVE  /\ work[w] \in Rule!Working
         /\ work[w].at \in {"claimed", "acting", "inserting"}
         /\ work[w].x \in Executions /\ work[w].seen \in Nat /\ work[w].token \in Nat
         /\ work[w].loaded \in Rule!ExecStatuses
         /\ work[w].i \in 1 .. NActions + 1 /\ work[w].blocked \in BOOLEAN
         /\ work[w].did \subseteq Rule!Actions /\ work[w].staged \in Stagings
         /\ DOMAIN work[w].staged \subseteq Rule!Actions
         /\ \A j \in DOMAIN work[w].staged : work[w].staged[j] \in Rule!AttemptStatuses
  <1>1. work[w] \in Rule!Working
    BY DEF Rule!TypeOK
  <1>2. /\ work[w].at \in {"claimed", "acting", "inserting"}
        /\ work[w].x \in Executions /\ work[w].seen \in Nat /\ work[w].token \in Nat
        /\ work[w].loaded \in Rule!ExecStatuses
        /\ work[w].i \in 1 .. NActions + 1 /\ work[w].blocked \in BOOLEAN
        /\ work[w].did \subseteq Rule!Actions /\ work[w].staged \in Stagings
    BY <1>1 DEF Rule!Working, Stagings
  <1>3. PICK S \in SUBSET Rule!Actions : work[w].staged \in [S -> Rule!AttemptStatuses]
    BY <1>2 DEF Stagings
  <1>4. DOMAIN work[w].staged = S
    BY <1>3
  <1> QED
    BY <1>1, <1>2, <1>3, <1>4

\* A worker at a step of its own is not idle.
LEMMA WorkerBusy ==
  ASSUME NEW w, work[w].at \in {"claimed", "acting", "inserting"}
  PROVE  work[w] # Rule!Idle
  BY DEF Rule!Idle

\* The staged attempts after one more result.
Result(f, i, status) == [j \in DOMAIN f \cup {i} |-> IF j = i THEN status ELSE f[j]]

\* A result is added to what is staged, or replaces it.
LEMMA ResultType ==
  ASSUME NEW f \in Stagings, NEW i \in Rule!Actions, NEW status \in Rule!AttemptStatuses
  PROVE  /\ Result(f, i, status) \in Stagings
         /\ DOMAIN Result(f, i, status) = DOMAIN f \cup {i}
         /\ Result(f, i, status)[i] = status
         /\ \A j \in DOMAIN f \ {i} : Result(f, i, status)[j] = f[j]
  <1>1. PICK S \in SUBSET Rule!Actions : f \in [S -> Rule!AttemptStatuses]
    BY DEF Stagings
  <1>2. Result(f, i, status) \in [S \cup {i} -> Rule!AttemptStatuses]
    BY <1>1 DEF Result
  <1>3. S \cup {i} \in SUBSET Rule!Actions
    OBVIOUS
  <1> QED
    BY <1>1, <1>2, <1>3 DEF Result, Stagings

\* What one step makes of a worker: it begins, passes over an action, waits for
\* an insert, or has a result.
Begun(t, n, status) == [t EXCEPT !.at = "acting", !.seen = n, !.loaded = status]
Passed(t, n) == [t EXCEPT !.i = n]
Queued(t)    == [t EXCEPT !.at = "inserting"]
Done(t, n, did, f, b) == [t EXCEPT !.at = "acting", !.i = n, !.did = did, !.staged = f,
                                   !.blocked = b]

\* What Begin makes of a worker.
LEMMA BegunType ==
  ASSUME NEW t \in Rule!Working, NEW n \in Nat, NEW status \in Rule!ExecStatuses
  PROVE  /\ Begun(t, n, status) \in Rule!Working /\ Begun(t, n, status).at = "acting"
         /\ Begun(t, n, status).x = t.x /\ Begun(t, n, status).i = t.i /\ Begun(t, n, status).did = t.did
         /\ Begun(t, n, status).staged = t.staged /\ Begun(t, n, status).seen = n
  BY DEF Rule!Working, Begun

\* What SkipDone makes of it.
LEMMA PassedType ==
  ASSUME NEW t \in Rule!Working, NEW n \in 1 .. NActions + 1
  PROVE  /\ Passed(t, n) \in Rule!Working /\ Passed(t, n).at = t.at
         /\ Passed(t, n).x = t.x /\ Passed(t, n).i = n /\ Passed(t, n).did = t.did
         /\ Passed(t, n).staged = t.staged /\ Passed(t, n).seen = t.seen
  BY DEF Rule!Working, Passed

\* What InsertWaits makes of it.
LEMMA QueuedType ==
  ASSUME NEW t \in Rule!Working
  PROVE  /\ Queued(t) \in Rule!Working /\ Queued(t).at = "inserting"
         /\ Queued(t).x = t.x /\ Queued(t).i = t.i /\ Queued(t).did = t.did
         /\ Queued(t).staged = t.staged /\ Queued(t).seen = t.seen
  BY DEF Rule!Working, Queued

\* What a result makes of it.
LEMMA DoneType ==
  ASSUME NEW t \in Rule!Working, NEW n \in 1 .. NActions + 1, NEW did \in SUBSET Rule!Actions,
         NEW f \in Stagings, NEW b \in BOOLEAN
  PROVE  /\ Done(t, n, did, f, b) \in Rule!Working /\ Done(t, n, did, f, b).at = "acting"
         /\ Done(t, n, did, f, b).x = t.x /\ Done(t, n, did, f, b).i = n
         /\ Done(t, n, did, f, b).did = did /\ Done(t, n, did, f, b).staged = f
         /\ Done(t, n, did, f, b).seen = t.seen
  BY DEF Rule!Working, Done, Stagings

-----------------------------------------------------------------------------
(* What holds of the workers, the ledger and the claims.                   *)

\* The loop of one worker: before its index every action is done, by this
\* transaction or an earlier one, unless the loop ended on an unknown result;
\* a staged effect has a result that admits it, and an attempt that had
\* succeeded is not staged again.
LoopOf(t) ==
  /\ t.at = "claimed" => t.i = 1 /\ DOMAIN t.staged = {} /\ t.did = {}
  /\ t.at = "inserting" => t.i \in Rule!Actions
  /\ t.did \subseteq DOMAIN t.staged
  /\ \A j \in DOMAIN t.staged :
       /\ j < t.i
       /\ attempt[t.x][j] # "succeeded"
       /\ t.staged[j] = "succeeded" => j \in t.did
       /\ j \in t.did => t.staged[j] \in {"succeeded", "unknown"}
  /\ \/ \E j \in DOMAIN t.staged : t.staged[j] = "unknown"
     \/ \A j \in Rule!Actions : j < t.i => j \in DOMAIN t.staged \/ attempt[t.x][j] = "succeeded"

Loops == \A w \in Workers : work[w] # Rule!Idle => LoopOf(work[w])

\* Two transactions never stage the same attempt.
StagedApart ==
  \A v, w \in Workers :
    v # w /\ work[v] # Rule!Idle /\ work[w] # Rule!Idle /\ work[v].x = work[w].x
      => DOMAIN work[v].staged \cap DOMAIN work[w].staged = {}

\* What the committed rows say of the effects.
Ledger ==
  \A x \in Executions :
    /\ \A i \in Rule!Actions :
         /\ effects[x][i] <= doubts[x][i] + (IF attempt[x][i] = "succeeded" THEN 1 ELSE 0)
         /\ attempt[x][i] = "succeeded" => effects[x][i] > 0
    /\ exec[x].status = "success" => \A i \in Rule!Actions : attempt[x][i] = "succeeded"
    /\ x \notin omitted /\ exec[x].status \in {"failed", "dead_letter"} =>
         \A i \in Rule!Actions : attempt[x][i] # "unknown"

\* Executions that can be claimed, now or when their backoff ends.
Open(x) == \/ exec[x].status \in {"received", "partial", "failed"}
           \/ exec[x].status = "processing" /\ exec[x].live = FALSE

Active(x) == {w \in Workers : work[w] # Rule!Idle /\ work[w].x = x}

\* Workers whose failure makes the execution claimable again.
Reopening(x) == {w \in Active(x) : work[w].at # "claimed" /\ work[w].seen < MaxAttempts}

One(b) == IF b THEN 1 ELSE 0

\* Each worker beyond the first needs an excuse, and so does a chance to claim
\* while a worker is active; once the backoff is used up, each chance to claim
\* that is left does.
Chances ==
  \A x \in Executions :
    /\ IsFiniteSet(Active(x))
    /\ Cardinality(Active(x)) + One(Open(x)) <= excuses[x] + 1
    /\ exec[x].attempts >= MaxAttempts =>
         Cardinality(Reopening(x)) + One(Open(x)) + exec[x].attempts
           <= MaxAttempts + excuses[x]

RuleInv == Rule!TypeOK /\ Loops /\ StagedApart /\ Ledger /\ Chances

\* One counts to one.
LEMMA OneIsNumber == ASSUME NEW b PROVE One(b) \in {0, 1}
  BY DEF One

\* Executions that nobody has claimed.
LEMMA RuleInit == Rule!Init => RuleInv
  <1> SUFFICES ASSUME Rule!Init PROVE RuleInv
    OBVIOUS
  <1>1. Rule!TypeOK
    BY RuleConstants DEF Rule!Init, Rule!TypeOK, Rule!Exec, Rule!ExecStatuses, Rule!AttemptStatuses
  <1>2. Loops /\ StagedApart
    BY DEF Rule!Init, Loops, StagedApart
  <1>3. Ledger
    BY DEF Rule!Init, Ledger
  <1>4. \A x \in Executions : Active(x) = {}
    BY DEF Rule!Init, Active
  <1>6. ASSUME NEW x \in Executions
        PROVE  exec[x].attempts = 0 /\ excuses[x] = 0
    BY <1>6 DEF Rule!Init
  <1>7. IsFiniteSet({}) /\ Cardinality({}) = 0
    BY FS_EmptySet
  <1>8. ASSUME NEW x \in Executions
        PROVE  /\ IsFiniteSet(Active(x))
               /\ Cardinality(Active(x)) + One(Open(x)) <= excuses[x] + 1
               /\ ~(exec[x].attempts >= MaxAttempts)
    <2>1. /\ IsFiniteSet(Active(x)) /\ Cardinality(Active(x)) = 0
          /\ exec[x].attempts = 0 /\ excuses[x] = 0
      BY <1>4, <1>6, <1>7
    <2>2. One(Open(x)) \in {0, 1}
      BY OneIsNumber
    <2> QED
      BY <2>1, <2>2, RuleConstants
  <1>9. Chances
    BY <1>8 DEF Chances
  <1> QED
    BY <1>1, <1>2, <1>3, <1>9 DEF RuleInv

\* Only worker w changes.
OnlyWorker(w) == /\ work' \in [Workers -> {Rule!Idle} \cup Rule!Working]
                 /\ \A v \in Workers \ {w} : work'[v] = work[v]

\* Only execution x changes.
OnlyExecution(x) == /\ exec' \in [Executions -> Rule!Exec]
                    /\ excuses' \in [Executions -> Nat]
                    /\ \A y \in Executions \ {x} : /\ exec'[y] = exec[y]
                                                   /\ excuses'[y] = excuses[y]

\* The sets of active workers when one of them begins or ends.
LEMMA ActiveChanges ==
  ASSUME NEW w \in Workers, OnlyWorker(w), NEW x \in Executions
  PROVE  /\ Active(x)' = IF work'[w] # Rule!Idle /\ work'[w].x = x THEN Active(x) \cup {w}
                         ELSE Active(x) \ {w}
         /\ Reopening(x)' =
              IF /\ work'[w] # Rule!Idle /\ work'[w].x = x
                 /\ work'[w].at # "claimed" /\ work'[w].seen < MaxAttempts
              THEN Reopening(x) \cup {w} ELSE Reopening(x) \ {w}
  BY DEF OnlyWorker, Active, Reopening

\* The sizes that Chances speaks of are numbers.
LEMMA SizesAreNumbers ==
  ASSUME RuleInv, NEW x \in Executions
  PROVE  /\ IsFiniteSet(Active(x)) /\ IsFiniteSet(Reopening(x))
         /\ Cardinality(Active(x)) \in Nat /\ Cardinality(Reopening(x)) \in Nat
         /\ Cardinality(Reopening(x)) <= Cardinality(Active(x))
         /\ exec[x].attempts \in Nat /\ excuses[x] \in Nat
  <1>1. IsFiniteSet(Active(x))
    BY DEF RuleInv, Chances
  <1>2. Reopening(x) \subseteq Active(x)
    BY DEF Reopening
  <1>3. exec[x].attempts \in Nat /\ excuses[x] \in Nat
    BY DEF RuleInv, Rule!TypeOK, Rule!Exec
  <1> QED
    BY <1>1, <1>2, <1>3, FS_Subset, FS_CardinalityType

-----------------------------------------------------------------------------
(* The actions of a worker that commit nothing.                            *)

\* A worker gives up: its transaction is rolled back.
LEMMA WorkerLeaves ==
  ASSUME RuleInv, NEW w \in Workers, OnlyWorker(w), work'[w] = Rule!Idle,
         UNCHANGED Rule!actSame, faults' \in 0 .. MaxRuleFaults
  PROVE  RuleInv'
  <1> USE DEF RuleInv
  <1>0. UNCHANGED <<exec, attempt, effects, doubts, excuses, omitted>>
    BY DEF Rule!actSame
  <1>1. Rule!TypeOK'
    BY <1>0 DEF Rule!TypeOK, OnlyWorker
  <1>2. work'[w] = Rule!Idle /\ \A v \in Workers \ {w} : work'[v] = work[v]
    BY DEF OnlyWorker
  <1>3. Loops' /\ StagedApart'
    <2>1. Loops'
      BY <1>0, <1>2 DEF Loops, LoopOf
    <2>2. StagedApart'
      BY <1>2 DEF StagedApart
    <2> QED
      BY <2>1, <2>2
  <1>4. Ledger'
    BY <1>0 DEF Ledger
  <1>5. ASSUME NEW x \in Executions
        PROVE  /\ Active(x)' = Active(x) \ {w} /\ Reopening(x)' = Reopening(x) \ {w}
               /\ IsFiniteSet(Active(x)') /\ Cardinality(Active(x)') <= Cardinality(Active(x))
               /\ Cardinality(Reopening(x)') <= Cardinality(Reopening(x))
               /\ Cardinality(Active(x)') \in Nat /\ Cardinality(Reopening(x)') \in Nat
    <2>1. Active(x)' = Active(x) \ {w} /\ Reopening(x)' = Reopening(x) \ {w}
      BY ActiveChanges
    <2>2. IsFiniteSet(Active(x)) /\ IsFiniteSet(Reopening(x))
      BY SizesAreNumbers
    <2> QED
      BY <2>1, <2>2, FS_Subset, FS_CardinalityType
  <1>6. Chances'
    <2> SUFFICES ASSUME NEW x \in Executions
                 PROVE  /\ IsFiniteSet(Active(x)')
                        /\ Cardinality(Active(x)') + One(Open(x)') <= excuses[x] + 1
                        /\ exec[x].attempts >= MaxAttempts =>
                             Cardinality(Reopening(x)') + One(Open(x)') + exec[x].attempts
                               <= MaxAttempts + excuses[x]
      BY <1>0 DEF Chances, One
    <2>1. Open(x)' <=> Open(x)
      BY <1>0 DEF Open
    <2>2. One(Open(x)') = One(Open(x)) /\ One(Open(x)) \in {0, 1}
      BY <2>1 DEF One
    <2> QED
      BY <1>5, <2>2, SizesAreNumbers, RuleConstants DEF Chances
  <1> QED
    BY <1>1, <1>3, <1>4, <1>6

\* A worker goes on with the execution it has.
LEMMA WorkerGoesOn ==
  ASSUME RuleInv, NEW w \in Workers, OnlyWorker(w), work[w] # Rule!Idle,
         work'[w] \in Rule!Working,
         UNCHANGED Rule!actSame, faults' \in 0 .. MaxRuleFaults,
         work'[w].x = work[w].x, work'[w].at # "claimed", LoopOf(work'[w]),
         \A j \in DOMAIN work'[w].staged : j \in DOMAIN work[w].staged \/ ~Rule!HeldElsewhere(w, j),
         \/ work[w].at # "claimed" /\ work'[w].seen = work[w].seen
         \/ work'[w].seen = exec[work'[w].x].attempts
  PROVE  RuleInv'
  <1> USE DEF RuleInv
  <1>0. UNCHANGED <<exec, attempt, effects, doubts, excuses, omitted>>
    BY DEF Rule!actSame
  <1>1. Rule!TypeOK'
    BY <1>0 DEF Rule!TypeOK, OnlyWorker
  <1>2. \A v \in Workers \ {w} : work'[v] = work[v]
    BY DEF OnlyWorker
  <1>t. work'[w] # Rule!Idle /\ work'[w].x \in Executions /\ work'[w].seen \in Nat
    BY DEF Rule!Working, Rule!Idle
  <1>3. Loops'
    BY <1>0, <1>2 DEF Loops, LoopOf
  <1>4. StagedApart'
    <2>1. ASSUME NEW v \in Workers \ {w}, work[v] # Rule!Idle, work[v].x = work'[w].x
          PROVE  DOMAIN work[v].staged \cap DOMAIN work'[w].staged = {}
      <3> SUFFICES ASSUME NEW j \in DOMAIN work[v].staged, j \in DOMAIN work'[w].staged PROVE FALSE
        OBVIOUS
      <3>1. work[v].at \in {"acting", "inserting"}
        <4>1. work[v].at \in {"claimed", "acting", "inserting"}
          BY <2>1, WorkingFields
        <4>2. LoopOf(work[v])
          BY <2>1 DEF Loops
        <4> QED
          BY <4>1, <4>2 DEF LoopOf
      <3>2. Rule!HeldElsewhere(w, j)
        BY <2>1, <3>1 DEF Rule!HeldElsewhere
      <3>3. j \in DOMAIN work[w].staged
        BY <3>2
      <3> QED
        BY <2>1, <3>3 DEF StagedApart
    <2> QED
      BY <1>2, <2>1 DEF StagedApart
  <1>5. Ledger'
    BY <1>0 DEF Ledger
  <1>6. ASSUME NEW x \in Executions
        PROVE  /\ IsFiniteSet(Active(x)')
               /\ Cardinality(Active(x)') + One(Open(x)') <= excuses[x] + 1
               /\ exec[x].attempts >= MaxAttempts =>
                    Cardinality(Reopening(x)') + One(Open(x)') + exec[x].attempts
                      <= MaxAttempts + excuses[x]
    <2>1. Active(x)' = Active(x)
      BY <1>t, ActiveChanges DEF Active
    <2>2. One(Open(x)') = One(Open(x)) /\ One(Open(x)) \in {0, 1}
      BY <1>0 DEF Open, One
    <2>3. exec[x].attempts >= MaxAttempts => Reopening(x)' \subseteq Reopening(x)
      <3>1. SUFFICES ASSUME exec[x].attempts >= MaxAttempts, NEW v \in Reopening(x)'
                     PROVE  v \in Reopening(x)
        BY DEF Reopening, Active
      <3>2. v \in Workers /\ v \in Active(x)
        BY <3>1, <2>1 DEF Reopening, Active
      <3>3. CASE v # w
        BY <3>1, <3>2, <3>3, <1>2 DEF Reopening, Active
      <3>4. CASE v = w
        <4>1. work'[w].x = x /\ work'[w].seen < MaxAttempts
          BY <3>1, <3>4, <1>2 DEF Reopening, Active
        <4>2. work'[w].seen # exec[work'[w].x].attempts
          BY <4>1, <3>1, <1>t, RuleConstants, SizesAreNumbers
        <4> QED
          BY <4>1, <4>2, <3>2, <3>4 DEF Reopening
      <3> QED
        BY <3>3, <3>4
    <2>4. IsFiniteSet(Reopening(x)) /\ exec[x].attempts >= MaxAttempts =>
            Cardinality(Reopening(x)') <= Cardinality(Reopening(x))
            /\ Cardinality(Reopening(x)') \in Nat
      BY <2>3, SizesAreNumbers, FS_Subset, FS_CardinalityType
    <2> QED
      BY <2>1, <2>2, <2>4, SizesAreNumbers, RuleConstants DEF Chances
  <1>7. Chances'
    BY <1>0, <1>6 DEF Chances, One
  <1> QED
    BY <1>1, <1>3, <1>4, <1>5, <1>7

-----------------------------------------------------------------------------
(* The actions on the execution alone.                                     *)

\* An execution changes while its workers stay.
LEMMA ExecutionChanges ==
  ASSUME RuleInv, NEW x \in Executions, OnlyExecution(x),
         UNCHANGED <<attempt, work, effects, doubts, omitted>>, faults' \in 0 .. MaxRuleFaults,
         exec'[x].status = "success" => exec[x].status = "success",
         exec'[x].status \in {"failed", "dead_letter"} => exec[x].status \in {"failed", "dead_letter"},
         exec'[x].attempts = exec[x].attempts,
         excuses'[x] = excuses[x] => \/ exec'[x].status = exec[x].status /\ exec'[x].live = exec[x].live
                          \/ exec'[x].status \in {"success", "dead_letter", "blocked"},
         excuses'[x] = excuses[x] \/ excuses'[x] = excuses[x] + 1
  PROVE  RuleInv'
  <1> USE DEF RuleInv
  <1>1. Rule!TypeOK'
    BY DEF Rule!TypeOK, OnlyExecution
  <1>2. \A y \in Executions \ {x} : exec'[y] = exec[y] /\ excuses'[y] = excuses[y]
    BY DEF OnlyExecution
  <1>3. Loops' /\ StagedApart'
    BY DEF Loops, LoopOf, StagedApart
  <1>4. Ledger'
    BY <1>2 DEF Ledger
  <1>5. ASSUME NEW y \in Executions
        PROVE  /\ IsFiniteSet(Active(y)')
               /\ Cardinality(Active(y)') + One(Open(y)') <= excuses'[y] + 1
               /\ exec'[y].attempts >= MaxAttempts =>
                    Cardinality(Reopening(y)') + One(Open(y)') + exec'[y].attempts
                      <= MaxAttempts + excuses'[y]
    <2>1. Active(y)' = Active(y) /\ Reopening(y)' = Reopening(y)
      BY DEF Active, Reopening
    <2>2. exec'[y].attempts = exec[y].attempts
      BY <1>2
    <2>3. One(Open(y)') \in {0, 1} /\ One(Open(y)) \in {0, 1}
      BY DEF One
    <2>4. \/ One(Open(y)') <= One(Open(y)) /\ excuses'[y] = excuses[y]
          \/ excuses'[y] = excuses[y] + 1
      BY <1>2 DEF Open, One
    <2> QED
      BY <2>1, <2>2, <2>3, <2>4, SizesAreNumbers, RuleConstants DEF Chances
  <1>6. Chances'
    BY <1>5 DEF Chances, One
  <1> QED
    BY <1>1, <1>3, <1>4, <1>6

\* A lease ends, and so does a backoff.
LEMMA LeaseExpiresKeeps ==
  ASSUME RuleInv, NEW x \in Executions, Rule!LeaseExpires(x)
  PROVE  RuleInv'
  <1>1. exec[x] \in Rule!Exec /\ excuses[x] \in Nat
    BY DEF RuleInv, Rule!TypeOK
  <1>2. OnlyExecution(x) /\ excuses'[x] = excuses[x] + 1
    <2>1. exec' \in [Executions -> Rule!Exec] /\ \A y \in Executions \ {x} : exec'[y] = exec[y]
      BY <1>1 DEF Rule!LeaseExpires, RuleInv, Rule!TypeOK, Rule!Exec
    <2>2. /\ excuses' \in [Executions -> Nat] /\ excuses'[x] = excuses[x] + 1
          /\ \A y \in Executions \ {x} : excuses'[y] = excuses[y]
      BY <1>1 DEF Rule!LeaseExpires, RuleInv, Rule!TypeOK
    <2> QED
      BY <2>1, <2>2 DEF OnlyExecution
  <1>3. exec'[x].status = exec[x].status /\ exec'[x].attempts = exec[x].attempts
    BY <1>1 DEF Rule!LeaseExpires, RuleInv, Rule!TypeOK, Rule!Exec
  <1>4. UNCHANGED <<attempt, work, effects, doubts, omitted>> /\ faults' \in 0 .. MaxRuleFaults
    BY DEF Rule!LeaseExpires, RuleInv, Rule!TypeOK
  <1> QED
    BY <1>1, <1>2, <1>3, <1>4, ExecutionChanges

\* The waiting time is over.
LEMMA BackoffEndsKeeps ==
  ASSUME RuleInv, NEW x \in Executions, Rule!BackoffEnds(x)
  PROVE  RuleInv'
  <1>1. exec[x] \in Rule!Exec /\ excuses[x] \in Nat
    BY DEF RuleInv, Rule!TypeOK
  <1>2. OnlyExecution(x) /\ excuses'[x] = excuses[x]
    BY <1>1 DEF Rule!BackoffEnds, RuleInv, Rule!TypeOK, OnlyExecution, Rule!Exec
  <1>3. /\ exec'[x].status = exec[x].status /\ exec'[x].attempts = exec[x].attempts
        /\ exec'[x].live = exec[x].live
    BY <1>1 DEF Rule!BackoffEnds, RuleInv, Rule!TypeOK, Rule!Exec
  <1>4. UNCHANGED <<attempt, work, effects, doubts, omitted>> /\ faults' \in 0 .. MaxRuleFaults
    BY DEF Rule!BackoffEnds, RuleInv, Rule!TypeOK
  <1> QED
    BY <1>1, <1>2, <1>3, <1>4, ExecutionChanges

\* An administrator takes a failed execution up again.
LEMMA RedriveKeeps ==
  ASSUME RuleInv, NEW x \in Executions, Rule!Redrive(x)
  PROVE  RuleInv'
  <1> DEFINE e == [exec[x] EXCEPT !.status = "received", !.due = TRUE,
                                  !.token = 0, !.live = FALSE]
  <1>1. exec[x] \in Rule!Exec /\ excuses[x] \in Nat
    BY DEF RuleInv, Rule!TypeOK
  <1>2. e \in Rule!Exec /\ e.status = "received" /\ e.attempts = exec[x].attempts
    BY <1>1 DEF Rule!Exec, Rule!ExecStatuses
  <1>3. exec' = [exec EXCEPT ![x] = e] /\ excuses' = [excuses EXCEPT ![x] = @ + 1]
    BY DEF Rule!Redrive
  <1> HIDE DEF e
  <1>4. /\ OnlyExecution(x) /\ excuses'[x] = excuses[x] + 1
        /\ exec'[x].status = "received" /\ exec'[x].attempts = exec[x].attempts
    BY <1>1, <1>2, <1>3 DEF RuleInv, Rule!TypeOK, OnlyExecution
  <1>5. UNCHANGED <<attempt, work, effects, doubts, omitted>> /\ faults' \in 0 .. MaxRuleFaults
    BY RuleConstants DEF Rule!Redrive, RuleInv, Rule!TypeOK
  <1> QED
    BY <1>1, <1>4, <1>5, ExecutionChanges

\* A claim: one worker more, and one chance less.
Claimed(e, n) == [e EXCEPT !.status = "processing", !.attempts = n, !.token = n, !.live = TRUE]

\* What a claim makes of the row.
LEMMA ClaimedType ==
  ASSUME NEW e \in Rule!Exec, NEW n \in Nat
  PROVE  /\ Claimed(e, n) \in Rule!Exec /\ Claimed(e, n).status = "processing"
         /\ Claimed(e, n).attempts = n /\ Claimed(e, n).live = TRUE
  BY DEF Rule!Exec, Rule!ExecStatuses, Claimed

Claimant(x, n) == [at |-> "claimed", x |-> x, token |-> n, seen |-> n, i |-> 1,
                   loaded |-> "processing", did |-> {}, blocked |-> FALSE, staged |-> <<>>]

\* What a claim makes of the worker.
LEMMA ClaimantType ==
  ASSUME NEW x \in Executions, NEW n \in Nat
  PROVE  /\ Claimant(x, n) \in Rule!Working /\ Claimant(x, n) # Rule!Idle
         /\ Claimant(x, n).at = "claimed" /\ Claimant(x, n).x = x /\ Claimant(x, n).i = 1
         /\ Claimant(x, n).did = {} /\ DOMAIN Claimant(x, n).staged = {}
  <1>1. <<>> \in Stagings /\ DOMAIN <<>> = {}
    <2>1. <<>> = [i \in {} |-> "absent"]
      OBVIOUS
    <2>2. <<>> \in [{} -> Rule!AttemptStatuses]
      BY <2>1
    <2> QED
      BY <2>2 DEF Stagings
  <1> QED
    BY <1>1, RuleConstants DEF Rule!Working, Rule!ExecStatuses, Stagings, Rule!Idle, Claimant

\* A claim that uses up the backoff had an excuse for every other worker.
LEMMA ClaimExecutionKeeps ==
  ASSUME RuleInv, NEW w \in Workers, NEW x \in Executions, Rule!ClaimExecution(w, x)
  PROVE  RuleInv'
  <1>1. exec[x] \in Rule!Exec /\ exec[x].attempts \in Nat /\ excuses[x] \in Nat
    BY DEF RuleInv, Rule!TypeOK, Rule!Exec
  <1>2. /\ exec' = [exec EXCEPT ![x] = Claimed(exec[x], exec[x].attempts + 1)]
        /\ work' = [work EXCEPT ![w] = Claimant(x, exec[x].attempts + 1)]
    BY DEF Rule!ClaimExecution, Claimed, Claimant
  <1>3. /\ work[w] = Rule!Idle /\ Open(x)
        /\ UNCHANGED <<attempt, faults, effects, doubts, excuses>>
        /\ omitted' = omitted \ {x}
    BY <1>1 DEF Rule!ClaimExecution, Rule!ExecutionClaimable, Open, Rule!Exec, Rule!ExecStatuses
  <1>4. /\ exec' \in [Executions -> Rule!Exec]
        /\ \A y \in Executions \ {x} : exec'[y] = exec[y]
        /\ exec'[x].status = "processing" /\ exec'[x].live = TRUE
        /\ exec'[x].attempts = exec[x].attempts + 1
    <2> DEFINE e == Claimed(exec[x], exec[x].attempts + 1)
    <2>0. exec[x].attempts + 1 \in Nat
      BY <1>1
    <2>1. /\ e \in Rule!Exec /\ e.status = "processing" /\ e.live = TRUE
          /\ e.attempts = exec[x].attempts + 1
      BY <1>1, <2>0, ClaimedType
    <2>2. exec' = [exec EXCEPT ![x] = e] /\ exec \in [Executions -> Rule!Exec]
      BY <1>2 DEF RuleInv, Rule!TypeOK
    <2> HIDE DEF e
    <2> QED
      BY <2>1, <2>2
  <1>5. /\ OnlyWorker(w) /\ work'[w] # Rule!Idle /\ work'[w].at = "claimed"
        /\ work'[w].x = x /\ work'[w].i = 1 /\ work'[w].did = {} /\ DOMAIN work'[w].staged = {}
    BY <1>1, <1>2, ClaimantType DEF RuleInv, Rule!TypeOK, OnlyWorker
  <1>6. \A v \in Workers \ {w} : work'[v] = work[v]
    BY <1>5 DEF OnlyWorker
  <1>8. Rule!TypeOK'
    BY <1>3, <1>4, <1>5 DEF RuleInv, Rule!TypeOK, OnlyWorker
  <1>9. LoopOf(work'[w])
    BY <1>5 DEF LoopOf, Rule!Actions
  <1>10. Loops' /\ StagedApart'
    <2>1. Loops'
      BY <1>3, <1>6, <1>9 DEF RuleInv, Loops, LoopOf
    <2>2. StagedApart'
      BY <1>5, <1>6 DEF RuleInv, StagedApart
    <2> QED
      BY <2>1, <2>2
  <1>11. Ledger'
    BY <1>3, <1>4 DEF RuleInv, Ledger
  <1>12. ASSUME NEW y \in Executions
        PROVE  /\ IsFiniteSet(Active(y)')
               /\ Cardinality(Active(y)') + One(Open(y)') <= excuses[y] + 1
               /\ exec'[y].attempts >= MaxAttempts =>
                    Cardinality(Reopening(y)') + One(Open(y)') + exec'[y].attempts
                      <= MaxAttempts + excuses[y]
    <2>1. w \notin Active(y) /\ w \notin Reopening(y)
      BY <1>3 DEF Active, Reopening
    <2>2. Reopening(y)' = Reopening(y)
      BY <1>5, <2>1, ActiveChanges
    <2>3. CASE y = x
      <3>1. Active(y)' = Active(y) \cup {w}
        BY <1>5, <2>3, ActiveChanges
      <3>2. IsFiniteSet(Active(y)') /\ Cardinality(Active(y)') = Cardinality(Active(y)) + 1
        BY <2>1, <3>1, SizesAreNumbers, FS_AddElement
      <3>3. One(Open(y)) = 1 /\ One(Open(y)') = 0
        BY <1>3, <1>4, <2>3 DEF One, Open
      <3>4. exec'[y].attempts = exec[y].attempts + 1
        BY <1>4, <2>3
      <3> QED
        BY <2>2, <3>2, <3>3, <3>4, SizesAreNumbers, RuleConstants DEF RuleInv, Chances
    <2>4. CASE y # x
      <3>1. Active(y)' = Active(y)
        BY <1>5, <2>1, <2>4, ActiveChanges
      <3>2. exec'[y] = exec[y] /\ One(Open(y)') = One(Open(y)) /\ One(Open(y)) \in {0, 1}
        BY <1>4, <2>4 DEF One, Open
      <3> QED
        BY <2>2, <3>1, <3>2, SizesAreNumbers, RuleConstants DEF RuleInv, Chances
    <2> QED
      BY <2>3, <2>4
  <1>13. Chances'
    BY <1>3, <1>12 DEF Chances, One
  <1> QED
    BY <1>8, <1>10, <1>11, <1>13 DEF RuleInv

-----------------------------------------------------------------------------
(* The steps of a worker.                                                  *)

\* The second transaction reads the attempts again.
LEMMA BeginKeeps ==
  ASSUME RuleInv, NEW w \in Workers, Rule!Begin(w)
  PROVE  RuleInv'
  <1>1. work[w] # Rule!Idle /\ work[w].at = "claimed"
    BY WorkerBusy DEF Rule!Begin
  <1>2. /\ work[w] \in Rule!Working /\ work[w].x \in Executions
        /\ exec[work[w].x].attempts \in Nat /\ exec[work[w].x].status \in Rule!ExecStatuses
        /\ LoopOf(work[w])
    BY <1>1, WorkingFields DEF RuleInv, Rule!TypeOK, Rule!Exec, Loops
  <1>3. work' = [work EXCEPT ![w] = Begun(work[w], exec[work[w].x].attempts, exec[work[w].x].status)]
    BY DEF Rule!Begin, Begun
  <1>4. /\ OnlyWorker(w)
        /\ work'[w] = Begun(work[w], exec[work[w].x].attempts, exec[work[w].x].status)
        /\ work'[w] \in Rule!Working /\ work'[w].at = "acting"
        /\ work'[w].x = work[w].x /\ work'[w].i = work[w].i /\ work'[w].did = work[w].did
        /\ work'[w].staged = work[w].staged /\ work'[w].seen = exec[work[w].x].attempts
    BY <1>2, <1>3, BegunType DEF RuleInv, Rule!TypeOK, OnlyWorker
  <1>5. UNCHANGED Rule!actSame /\ faults' \in 0 .. MaxRuleFaults
    BY DEF Rule!Begin, RuleInv, Rule!TypeOK
  <1>6. LoopOf(work'[w])
    BY <1>1, <1>2, <1>4 DEF LoopOf
  <1> QED
    BY <1>1, <1>4, <1>5, <1>6, WorkerGoesOn

\* An action that had succeeded is passed over.
LEMMA SkipDoneKeeps ==
  ASSUME RuleInv, NEW w \in Workers, NEW i \in Rule!Actions, Rule!SkipDone(w, i)
  PROVE  RuleInv'
  <1>1. /\ work[w] # Rule!Idle /\ work[w].at = "acting" /\ work[w].i = i
        /\ attempt[work[w].x][i] = "succeeded"
    BY WorkerBusy DEF Rule!SkipDone, Rule!Acts, Rule!ActionDone
  <1>2. work[w] \in Rule!Working /\ LoopOf(work[w]) /\ i + 1 \in 1 .. NActions + 1
    BY <1>1, WorkingFields, RuleConstants DEF RuleInv, Loops, Rule!Actions
  <1>3. work' = [work EXCEPT ![w] = Passed(work[w], i + 1)]
    BY DEF Rule!SkipDone, Passed
  <1>4. /\ OnlyWorker(w)
        /\ work'[w] \in Rule!Working /\ work'[w].at = "acting"
        /\ work'[w].x = work[w].x /\ work'[w].i = i + 1 /\ work'[w].did = work[w].did
        /\ work'[w].staged = work[w].staged /\ work'[w].seen = work[w].seen
    BY <1>1, <1>2, <1>3, PassedType DEF RuleInv, Rule!TypeOK, OnlyWorker
  <1>5. UNCHANGED Rule!actSame /\ faults' \in 0 .. MaxRuleFaults
    BY DEF Rule!SkipDone, RuleInv, Rule!TypeOK
  <1>6. LoopOf(work'[w])
    BY <1>1, <1>2, <1>4, WorkingFields DEF RuleInv, LoopOf, Rule!Actions
  <1> QED
    BY <1>1, <1>4, <1>5, <1>6, WorkerGoesOn

\* An insert waits for the other transaction.
LEMMA InsertWaitsKeeps ==
  ASSUME RuleInv, NEW w \in Workers, NEW i \in Rule!Actions, Rule!InsertWaits(w, i)
  PROVE  RuleInv'
  <1>1. work[w] # Rule!Idle /\ work[w].at = "acting" /\ work[w].i = i
    BY WorkerBusy DEF Rule!InsertWaits, Rule!Acts
  <1>2. work[w] \in Rule!Working /\ LoopOf(work[w])
    BY <1>1, WorkingFields DEF RuleInv, Loops
  <1>3. work' = [work EXCEPT ![w] = Queued(work[w])]
    BY DEF Rule!InsertWaits, Queued
  <1>4. /\ OnlyWorker(w)
        /\ work'[w] \in Rule!Working /\ work'[w].at = "inserting"
        /\ work'[w].x = work[w].x /\ work'[w].i = work[w].i /\ work'[w].did = work[w].did
        /\ work'[w].staged = work[w].staged /\ work'[w].seen = work[w].seen
    BY <1>2, <1>3, QueuedType DEF RuleInv, Rule!TypeOK, OnlyWorker
  <1>5. UNCHANGED Rule!actSame /\ faults' \in 0 .. MaxRuleFaults
    BY DEF Rule!InsertWaits, RuleInv, Rule!TypeOK
  <1>6. LoopOf(work'[w])
    BY <1>1, <1>2, <1>4 DEF LoopOf
  <1> QED
    BY <1>1, <1>4, <1>5, <1>6, WorkerGoesOn

\* The worker after one action.
After(t, i, status, effect, b) ==
  Done(t, IF status = "unknown" THEN NActions + 1 ELSE i + 1,
       IF effect THEN t.did \cup {i} ELSE t.did, Result(t.staged, i, status), b)

\* Its fields.
LEMMA AfterFields ==
  ASSUME NEW t \in Rule!Working, NEW i \in Rule!Actions,
         NEW status \in Rule!AttemptStatuses, NEW effect \in BOOLEAN, NEW b \in BOOLEAN
  PROVE  /\ After(t, i, status, effect, b) \in Rule!Working
         /\ After(t, i, status, effect, b).at = "acting"
         /\ After(t, i, status, effect, b).x = t.x
         /\ After(t, i, status, effect, b).seen = t.seen
         /\ After(t, i, status, effect, b).i =
              IF status = "unknown" THEN NActions + 1 ELSE i + 1
         /\ After(t, i, status, effect, b).did = IF effect THEN t.did \cup {i} ELSE t.did
         /\ DOMAIN After(t, i, status, effect, b).staged = DOMAIN t.staged \cup {i}
         /\ After(t, i, status, effect, b).staged[i] = status
         /\ \A j \in DOMAIN t.staged \ {i} :
              After(t, i, status, effect, b).staged[j] = t.staged[j]
  <1> DEFINE n   == IF status = "unknown" THEN NActions + 1 ELSE i + 1
             did == IF effect THEN t.did \cup {i} ELSE t.did
             f   == Result(t.staged, i, status)
  <1>1. t.did \in SUBSET Rule!Actions /\ t.staged \in Stagings
    BY DEF Rule!Working, Stagings
  <1>2. n \in 1 .. NActions + 1
    BY RuleConstants DEF Rule!Actions
  <1>3. did \in SUBSET Rule!Actions
    BY <1>1
  <1>4. /\ f \in Stagings /\ DOMAIN f = DOMAIN t.staged \cup {i} /\ f[i] = status
        /\ \A j \in DOMAIN t.staged \ {i} : f[j] = t.staged[j]
    BY <1>1, ResultType
  <1>5. After(t, i, status, effect, b) = Done(t, n, did, f, b)
    BY DEF After
  <1>6. n = IF status = "unknown" THEN NActions + 1 ELSE i + 1
    OBVIOUS
  <1>7. did = IF effect THEN t.did \cup {i} ELSE t.did
    OBVIOUS
  <1> HIDE DEF n, did, f
  <1>8. /\ Done(t, n, did, f, b) \in Rule!Working /\ Done(t, n, did, f, b).at = "acting"
        /\ Done(t, n, did, f, b).x = t.x /\ Done(t, n, did, f, b).i = n
        /\ Done(t, n, did, f, b).did = did /\ Done(t, n, did, f, b).staged = f
        /\ Done(t, n, did, f, b).seen = t.seen
    BY <1>2, <1>3, <1>4, DoneType
  <1> QED
    BY <1>4, <1>5, <1>6, <1>7, <1>8

\* The worker that RunAction leaves.
LEMMA EndedIsAfter ==
  ASSUME Rule!TypeOK, NEW w \in Workers, work[w] # Rule!Idle, NEW i \in Rule!Actions
  PROVE  \A status \in Rule!AttemptStatuses, effect \in BOOLEAN :
           /\ Rule!Ended(w, i, status, effect) =
                After(work[w], i, status, effect, work[w].blocked)
           /\ [Rule!Ended(w, i, status, effect) EXCEPT !.blocked = TRUE] =
                After(work[w], i, status, effect, TRUE)
  <1> SUFFICES ASSUME NEW status \in Rule!AttemptStatuses, NEW effect \in BOOLEAN
               PROVE  /\ Rule!Ended(w, i, status, effect) =
                           After(work[w], i, status, effect, work[w].blocked)
                      /\ [Rule!Ended(w, i, status, effect) EXCEPT !.blocked = TRUE] =
                           After(work[w], i, status, effect, TRUE)
    OBVIOUS
  <1> DEFINE n   == IF status = "unknown" THEN NActions + 1 ELSE i + 1
             did == IF effect THEN work[w].did \cup {i} ELSE work[w].did
             f   == Result(work[w].staged, i, status)
             e   == [work[w] EXCEPT !.at = "acting", !.i = n, !.did = did, !.staged = f]
  <1>1. work[w] \in Rule!Working
    BY WorkingFields
  <1>2. Rule!Ended(w, i, status, effect) = e
    BY DEF Rule!Ended, Result
  <1>3. \A b : After(work[w], i, status, effect, b) = Done(work[w], n, did, f, b)
    BY DEF After
  <1> HIDE DEF n, did, f
  <1>4. e = Done(work[w], n, did, f, work[w].blocked)
    BY <1>1 DEF Done, Rule!Working
  <1>5. [e EXCEPT !.blocked = TRUE] = Done(work[w], n, did, f, TRUE)
    BY <1>1 DEF Done, Rule!Working
  <1> QED
    BY <1>2, <1>3, <1>4, <1>5

\* An action is carried out, or not, and staged.
LEMMA RunActionKeeps ==
  ASSUME RuleInv, NEW w \in Workers, NEW i \in Rule!Actions, Rule!RunAction(w, i)
  PROVE  RuleInv'
  <1>1. /\ work[w] # Rule!Idle /\ work[w].at \in {"acting", "inserting"} /\ work[w].i = i
        /\ attempt[work[w].x][i] # "succeeded" /\ ~Rule!HeldElsewhere(w, i)
    BY WorkerBusy DEF Rule!RunAction, Rule!Acts, Rule!ActionDone
  <1>2. work[w] \in Rule!Working /\ LoopOf(work[w])
    BY <1>1, WorkingFields DEF RuleInv, Loops
  <1>n. UNCHANGED faults \/ (faults < MaxRuleFaults /\ faults' = faults + 1)
    BY DEF Rule!RunAction
  <1>e. \/ work' = [work EXCEPT ![w] = Rule!Ended(w, i, "succeeded", TRUE)] /\ UNCHANGED faults
        \/ work' = [work EXCEPT ![w] = Rule!Ended(w, i, "failed", FALSE)] /\ UNCHANGED faults
        \/ /\ work' = [work EXCEPT ![w] = [Rule!Ended(w, i, "failed", FALSE) EXCEPT !.blocked = TRUE]]
           /\ UNCHANGED faults
        \/ /\ faults < MaxRuleFaults /\ faults' = faults + 1
           /\ \E effect \in BOOLEAN :
                work' = [work EXCEPT ![w] = Rule!Ended(w, i, "unknown", effect)]
    BY DEF Rule!RunAction
  <1>3. UNCHANGED Rule!actSame /\ faults' \in 0 .. MaxRuleFaults
    <2>1. UNCHANGED Rule!actSame
      BY DEF Rule!RunAction
    <2> QED
      BY <1>n, <2>1, RuleConstants DEF RuleInv, Rule!TypeOK
  <1>4. PICK status \in Rule!AttemptStatuses, effect \in BOOLEAN, b \in BOOLEAN :
          /\ work' = [work EXCEPT ![w] = After(work[w], i, status, effect, b)]
          /\ status = "succeeded" => effect = TRUE
          /\ effect = TRUE => status \in {"succeeded", "unknown"}
    <2>1. \A status \in Rule!AttemptStatuses, effect \in BOOLEAN :
            /\ Rule!Ended(w, i, status, effect) =
                 After(work[w], i, status, effect, work[w].blocked)
            /\ [Rule!Ended(w, i, status, effect) EXCEPT !.blocked = TRUE] =
                 After(work[w], i, status, effect, TRUE)
      BY <1>1, EndedIsAfter DEF RuleInv
    <2>2. /\ "succeeded" \in Rule!AttemptStatuses /\ "failed" \in Rule!AttemptStatuses
          /\ "unknown" \in Rule!AttemptStatuses
          /\ work[w].blocked \in BOOLEAN /\ TRUE \in BOOLEAN /\ FALSE \in BOOLEAN
      BY <1>1, WorkingFields DEF RuleInv, Rule!AttemptStatuses
    <2>3. CASE work' = [work EXCEPT ![w] = Rule!Ended(w, i, "succeeded", TRUE)]
      BY Zenon, <2>1, <2>2, <2>3
    <2>4. CASE work' = [work EXCEPT ![w] = Rule!Ended(w, i, "failed", FALSE)]
      BY Zenon, <2>1, <2>2, <2>4
    <2>5. CASE work' = [work EXCEPT ![w] = [Rule!Ended(w, i, "failed", FALSE) EXCEPT !.blocked = TRUE]]
      BY Zenon, <2>1, <2>2, <2>5
    <2>6. CASE \E effect \in BOOLEAN :
                 work' = [work EXCEPT ![w] = Rule!Ended(w, i, "unknown", effect)]
      BY Zenon, <2>1, <2>2, <2>6
    <2> QED
      BY Zenon, <1>e, <2>3, <2>4, <2>5, <2>6
  <1> DEFINE t == After(work[w], i, status, effect, b)
  <1>5. /\ t \in Rule!Working /\ t.at = "acting" /\ t.x = work[w].x /\ t.seen = work[w].seen
        /\ t.i = IF status = "unknown" THEN NActions + 1 ELSE i + 1
        /\ t.did = IF effect THEN work[w].did \cup {i} ELSE work[w].did
        /\ DOMAIN t.staged = DOMAIN work[w].staged \cup {i} /\ t.staged[i] = status
        /\ \A j \in DOMAIN work[w].staged \ {i} : t.staged[j] = work[w].staged[j]
    BY <1>2, AfterFields
  <1>6. work' = [work EXCEPT ![w] = t]
    BY <1>4
  <1> HIDE DEF t
  <1>7. OnlyWorker(w) /\ work'[w] = t
    BY <1>5, <1>6 DEF RuleInv, Rule!TypeOK, OnlyWorker
  <1>8. LoopOf(t)
    <2>1. i \notin DOMAIN work[w].staged /\ i \in Nat /\ work[w].did \subseteq DOMAIN work[w].staged
      BY <1>1, <1>2, RuleConstants DEF LoopOf, Rule!Actions
    <2>2. ASSUME NEW j \in DOMAIN t.staged
          PROVE  /\ j < t.i /\ attempt[t.x][j] # "succeeded"
                 /\ t.staged[j] = "succeeded" => j \in t.did
                 /\ j \in t.did => t.staged[j] \in {"succeeded", "unknown"}
      <3>1. CASE j = i
        BY <1>1, <1>4, <1>5, <2>1, <3>1, RuleConstants DEF Rule!Actions
      <3>2. CASE j # i
        <4>1. j \in DOMAIN work[w].staged /\ j \in 1 .. NActions
          BY <1>1, <1>5, <2>2, <3>2, WorkingFields DEF RuleInv, Rule!Actions
        <4>2. j < work[w].i /\ (j \in t.did <=> j \in work[w].did)
          BY <1>2, <1>5, <3>2, <4>1 DEF LoopOf
        <4>3. j < t.i
          BY <1>1, <1>5, <4>1, <4>2, <2>1, RuleConstants
        <4>4. t.staged[j] = work[w].staged[j]
          BY <1>5, <3>2, <4>1
        <4> QED
          BY <1>2, <1>5, <4>1, <4>2, <4>3, <4>4 DEF LoopOf
      <3> QED
        BY <3>1, <3>2
    <2>3. \/ \E j \in DOMAIN t.staged : t.staged[j] = "unknown"
          \/ \A j \in Rule!Actions : j < t.i => j \in DOMAIN t.staged \/ attempt[t.x][j] = "succeeded"
      <3>1. CASE status = "unknown"
        BY <1>5, <3>1
      <3>2. CASE status # "unknown" /\ \E j \in DOMAIN work[w].staged : work[w].staged[j] = "unknown"
        BY <1>5, <2>1, <3>2
      <3>3. CASE /\ status # "unknown"
                 /\ \A j \in Rule!Actions :
                      j < work[w].i => \/ j \in DOMAIN work[w].staged
                                       \/ attempt[work[w].x][j] = "succeeded"
        <4> SUFFICES ASSUME NEW j \in Rule!Actions, j < t.i
                     PROVE  j \in DOMAIN t.staged \/ attempt[t.x][j] = "succeeded"
          OBVIOUS
        <4>1. j < i \/ j = i
          BY <1>5, <3>3, RuleConstants DEF Rule!Actions
        <4> QED
          BY <1>1, <1>5, <3>3, <4>1
      <3> QED
        BY <1>2, <3>1, <3>2, <3>3 DEF LoopOf
    <2>4. t.did \subseteq DOMAIN t.staged
      BY <1>5, <2>1
    <2> QED
      BY <1>5, <2>2, <2>3, <2>4 DEF LoopOf
  <1>9. \A j \in DOMAIN t.staged : j \in DOMAIN work[w].staged \/ ~Rule!HeldElsewhere(w, j)
    BY <1>1, <1>5
  <1> QED
    BY <1>1, <1>3, <1>5, <1>7, <1>8, <1>9, WorkerGoesOn

\* A worker that ends without committing.
LEMMA LeavingKeeps ==
  ASSUME RuleInv, NEW w \in Workers,
         Rule!InsertCollides(w) \/ Rule!WorkerLost(w) \/ Rule!CompleteRefused(w)
  PROVE  RuleInv'
  <1>1. work' = [work EXCEPT ![w] = Rule!Idle] /\ UNCHANGED Rule!actSame
    BY DEF Rule!InsertCollides, Rule!WorkerLost, Rule!CompleteRefused
  <1>2. faults' \in 0 .. MaxRuleFaults
    BY RuleConstants
       DEF Rule!InsertCollides, Rule!WorkerLost, Rule!CompleteRefused, RuleInv, Rule!TypeOK
  <1>3. OnlyWorker(w) /\ work'[w] = Rule!Idle
    BY <1>1 DEF RuleInv, Rule!TypeOK, OnlyWorker
  <1> QED
    BY <1>1, <1>2, <1>3, WorkerLeaves

-----------------------------------------------------------------------------
(* The commits.                                                            *)

\* What the committed rows are: the staged results over the stored ones.
LEMMA CommittedRows ==
  ASSUME RuleInv, NEW w \in Workers, work[w] # Rule!Idle, NEW x \in Executions,
         x = work[w].x, NEW e \in Rule!Exec, Rule!CommitActions(w, x, e)
  PROVE  /\ \/ Rule!TypeOK' \/ excuses' \notin [Executions -> Nat]
            \/ ~(omitted' \subseteq Executions)
         /\ OnlyWorker(w) /\ work'[w] = Rule!Idle
         /\ exec'[x] = e
         /\ \A y \in Executions \ {x} :
              /\ exec'[y] = exec[y] /\ attempt'[y] = attempt[y]
              /\ effects'[y] = effects[y] /\ doubts'[y] = doubts[y]
         /\ \A i \in Rule!Actions :
              /\ attempt'[x][i] = IF i \in DOMAIN work[w].staged THEN work[w].staged[i]
                                  ELSE attempt[x][i]
              /\ effects'[x][i] = effects[x][i] + (IF i \in work[w].did THEN 1 ELSE 0)
              /\ doubts'[x][i] = doubts[x][i] +
                   (IF i \in DOMAIN work[w].staged /\ work[w].staged[i] = "unknown"
                    THEN 1 ELSE 0)
  <1>1. Rule!TypeOK
    BY DEF RuleInv
  <1>2. \A j \in DOMAIN work[w].staged : work[w].staged[j] \in Rule!AttemptStatuses
    BY <1>1, WorkingFields
  <1>3. /\ exec' = [exec EXCEPT ![x] = e]
        /\ attempt' = [attempt EXCEPT ![x] = Rule!Saved(w, x)]
        /\ work' = [work EXCEPT ![w] = Rule!Idle]
        /\ UNCHANGED faults
    BY DEF Rule!CommitActions
  <1>4. /\ effects' = [effects EXCEPT ![x] = [i \in Rule!Actions |->
                   effects[x][i] + (IF i \in work[w].did THEN 1 ELSE 0)]]
        /\ doubts' = [doubts EXCEPT ![x] = [i \in Rule!Actions |-> doubts[x][i] +
                  (IF i \in DOMAIN work[w].staged /\ work[w].staged[i] = "unknown"
                   THEN 1 ELSE 0)]]
    BY DEF Rule!CommitActions
  <1>5. Rule!Saved(w, x) \in [Rule!Actions -> Rule!AttemptStatuses]
    BY <1>1, <1>2 DEF Rule!Saved, Rule!TypeOK
  <1>6. /\ exec' \in [Executions -> Rule!Exec] /\ exec'[x] = e
        /\ \A y \in Executions \ {x} : exec'[y] = exec[y]
    BY <1>1, <1>3 DEF Rule!TypeOK
  <1>7. /\ attempt' \in [Executions -> [Rule!Actions -> Rule!AttemptStatuses]]
        /\ attempt'[x] = Rule!Saved(w, x)
        /\ \A y \in Executions \ {x} : attempt'[y] = attempt[y]
    BY <1>1, <1>3, <1>5 DEF Rule!TypeOK
  <1>8. \A i \in Rule!Actions :
          attempt'[x][i] = IF i \in DOMAIN work[w].staged THEN work[w].staged[i]
                           ELSE attempt[x][i]
    BY <1>7 DEF Rule!Saved
  <1>9. /\ effects' \in [Executions -> [Rule!Actions -> Nat]]
        /\ \A y \in Executions \ {x} : effects'[y] = effects[y]
        /\ \A i \in Rule!Actions :
             effects'[x][i] = effects[x][i] + (IF i \in work[w].did THEN 1 ELSE 0)
    BY <1>1, <1>4 DEF Rule!TypeOK
  <1>10. /\ doubts' \in [Executions -> [Rule!Actions -> Nat]]
         /\ \A y \in Executions \ {x} : doubts'[y] = doubts[y]
         /\ \A i \in Rule!Actions :
              doubts'[x][i] = doubts[x][i] +
                   (IF i \in DOMAIN work[w].staged /\ work[w].staged[i] = "unknown"
                    THEN 1 ELSE 0)
    BY <1>1, <1>4 DEF Rule!TypeOK
  <1>11. OnlyWorker(w) /\ work'[w] = Rule!Idle
    BY <1>1, <1>3 DEF Rule!TypeOK, OnlyWorker
  <1>12. \/ Rule!TypeOK' \/ excuses' \notin [Executions -> Nat]
         \/ ~(omitted' \subseteq Executions)
    BY <1>1, <1>3, <1>6, <1>7, <1>9, <1>10, <1>11 DEF Rule!TypeOK, OnlyWorker
  <1> QED
    BY <1>6, <1>7, <1>8, <1>9, <1>10, <1>11, <1>12

\* A commit keeps the invariant if the status it stores is honest, or the one
\* that stood, and, where the execution can be claimed again, it could be before,
\* or the worker was due a retry or has an excuse.
LEMMA SettlementKeeps ==
  ASSUME RuleInv, NEW w \in Workers, work[w] # Rule!Idle, NEW x \in Executions,
         x = work[w].x, NEW e \in Rule!Exec, Rule!CommitActions(w, x, e),
         e.status = "success" => Rule!AllSucceeded(w) \/ exec[x].status = "success",
         x \notin omitted' /\ e.status \in {"failed", "dead_letter"} =>
           Rule!AtEnd(w) /\ ~Rule!AnyUnknown(w),
         omitted' \subseteq Executions, \A y \in Executions \ {x} : y \in omitted <=> y \in omitted',
         e.attempts = exec[x].attempts,
         excuses' \in [Executions -> Nat],
         \A y \in Executions \ {x} : excuses'[y] = excuses[y],
         \/ excuses'[x] = excuses[x] + 1
         \/ /\ excuses'[x] = excuses[x]
            /\ \/ w \in Reopening(x)
               \/ e.status \in {"success", "blocked", "dead_letter"}
               \/ e.status = exec[x].status /\ e.live = exec[x].live
  PROVE  RuleInv'
  <1> DEFINE f   == work[w].staged
             did == work[w].did
  <1>1. /\ Rule!TypeOK' /\ OnlyWorker(w) /\ work'[w] = Rule!Idle
        /\ exec'[x] = e
        /\ \A y \in Executions \ {x} :
             /\ exec'[y] = exec[y] /\ attempt'[y] = attempt[y]
             /\ effects'[y] = effects[y] /\ doubts'[y] = doubts[y]
    BY CommittedRows
  <1>2. \A i \in Rule!Actions :
          /\ attempt'[x][i] = IF i \in DOMAIN f THEN f[i] ELSE attempt[x][i]
          /\ effects'[x][i] = effects[x][i] + (IF i \in did THEN 1 ELSE 0)
          /\ doubts'[x][i] = doubts[x][i] +
               (IF i \in DOMAIN f /\ f[i] = "unknown" THEN 1 ELSE 0)
    BY CommittedRows
  <1>3. /\ DOMAIN f \subseteq Rule!Actions /\ did \subseteq DOMAIN f
        /\ \A j \in DOMAIN f : /\ attempt[x][j] # "succeeded"
                               /\ f[j] = "succeeded" => j \in did
                               /\ j \in did => f[j] \in {"succeeded", "unknown"}
    BY WorkingFields DEF RuleInv, Loops, LoopOf
  <1>4. \A v \in Workers \ {w} : work'[v] = work[v]
    BY <1>1 DEF OnlyWorker
  <1>5. Loops'
    <2> SUFFICES ASSUME NEW v \in Workers, work'[v] # Rule!Idle PROVE LoopOf(work[v])'
      BY DEF Loops
    <2>1. v # w /\ work'[v] = work[v] /\ LoopOf(work[v])
      BY <1>1, <1>4 DEF RuleInv, Loops
    <2>2. work[v].x \in Executions /\ DOMAIN work[v].staged \subseteq Rule!Actions
      BY <2>1, WorkingFields DEF RuleInv
    <2>3. CASE work[v].x # x
      BY <1>1, <2>1, <2>2, <2>3 DEF LoopOf
    <2>4. CASE work[v].x = x
      <3>1. DOMAIN work[v].staged \cap DOMAIN f = {}
        BY <2>1, <2>4 DEF RuleInv, StagedApart
      <3>2. \A j \in DOMAIN work[v].staged : attempt'[x][j] = attempt[x][j]
        BY <1>2, <2>2, <3>1
      <3>3. \A j \in Rule!Actions : attempt[x][j] = "succeeded" => attempt'[x][j] = "succeeded"
        BY <1>2, <1>3
      <3> QED
        BY <2>1, <2>4, <3>2, <3>3 DEF LoopOf
    <2> QED
      BY <2>3, <2>4
  <1>6. StagedApart'
    BY <1>1, <1>4 DEF RuleInv, StagedApart
  <1>7. Ledger'
    <2>1. ASSUME NEW i \in Rule!Actions
          PROVE  /\ effects'[x][i] <= doubts'[x][i] + (IF attempt'[x][i] = "succeeded" THEN 1 ELSE 0)
                 /\ attempt'[x][i] = "succeeded" => effects'[x][i] > 0
      <3>1. /\ effects[x][i] \in Nat /\ doubts[x][i] \in Nat
            /\ effects[x][i] <= doubts[x][i] + (IF attempt[x][i] = "succeeded" THEN 1 ELSE 0)
            /\ attempt[x][i] = "succeeded" => effects[x][i] > 0
        BY DEF RuleInv, Ledger, Rule!TypeOK
      <3>2. CASE i \in DOMAIN f
        BY <1>2, <1>3, <3>1, <3>2
      <3>3. CASE i \notin DOMAIN f
        BY <1>2, <1>3, <3>1, <3>3
      <3> QED
        BY <3>2, <3>3
    <2>2. e.status = "success" => \A i \in Rule!Actions : attempt'[x][i] = "succeeded"
      BY <1>2, <1>3 DEF RuleInv, Ledger, Rule!AllSucceeded, Rule!Saved
    <2>3. x \notin omitted' /\ e.status \in {"failed", "dead_letter"} =>
            \A i \in Rule!Actions : attempt'[x][i] # "unknown"
      <3> SUFFICES ASSUME Rule!AtEnd(w), ~Rule!AnyUnknown(w), NEW i \in Rule!Actions
                   PROVE  attempt'[x][i] # "unknown"
        OBVIOUS
      <3>1. i < work[w].i
        BY RuleConstants, WorkingFields DEF RuleInv, Rule!AtEnd, Rule!Actions
      <3>2. i \in DOMAIN f \/ attempt[x][i] = "succeeded"
        BY <3>1 DEF RuleInv, Loops, LoopOf, Rule!AnyUnknown
      <3> QED
        BY <1>2, <3>2 DEF Rule!AnyUnknown
    <2> QED
      BY <1>1, <2>1, <2>2, <2>3 DEF RuleInv, Ledger
  <1>8. ASSUME NEW y \in Executions
        PROVE  /\ IsFiniteSet(Active(y)')
               /\ Cardinality(Active(y)') + One(Open(y)') <= excuses'[y] + 1
               /\ exec'[y].attempts >= MaxAttempts =>
                    Cardinality(Reopening(y)') + One(Open(y)') + exec'[y].attempts
                      <= MaxAttempts + excuses'[y]
    <2>1. Active(y)' = Active(y) \ {w} /\ Reopening(y)' = Reopening(y) \ {w}
      BY <1>1, ActiveChanges
    <2>2. /\ IsFiniteSet(Active(y)) /\ IsFiniteSet(Reopening(y))
          /\ Cardinality(Active(y)) \in Nat /\ Cardinality(Reopening(y)) \in Nat
          /\ exec[y].attempts \in Nat /\ excuses[y] \in Nat
      BY SizesAreNumbers
    <2>3. /\ IsFiniteSet(Active(y)')
          /\ Cardinality(Active(y)') =
               IF w \in Active(y) THEN Cardinality(Active(y)) - 1 ELSE Cardinality(Active(y))
          /\ Cardinality(Reopening(y)') =
               IF w \in Reopening(y) THEN Cardinality(Reopening(y)) - 1
               ELSE Cardinality(Reopening(y))
      <3>1. \A S : IsFiniteSet(S) => /\ IsFiniteSet(S \ {w})
                                    /\ Cardinality(S \ {w}) =
                                         IF w \in S THEN Cardinality(S) - 1 ELSE Cardinality(S)
        BY FS_RemoveElement
      <3>2. Active(y)' = Active(y) \ {w} /\ IsFiniteSet(Active(y))
        BY <2>1, <2>2
      <3>3. Reopening(y)' = Reopening(y) \ {w} /\ IsFiniteSet(Reopening(y))
        BY <2>1, <2>2
      <3> QED
        BY <3>1, <3>2, <3>3
    <2>4. One(Open(y)') \in {0, 1} /\ One(Open(y)) \in {0, 1}
      BY DEF One
    <2>5. CASE y # x
      <3>1. w \notin Active(y) /\ w \notin Reopening(y)
        BY <2>5 DEF Active, Reopening
      <3>2. /\ exec'[y] = exec[y] /\ excuses'[y] = excuses[y]
            /\ One(Open(y)') = One(Open(y))
        BY <1>1, <2>5 DEF Open, One
      <3> QED
        BY <2>2, <2>3, <2>4, <3>1, <3>2, RuleConstants DEF RuleInv, Chances
    <2>6. CASE y = x
      <3>1. w \in Active(y)
        BY <2>6 DEF Active
      <3>2. exec'[y].attempts = exec[y].attempts
        BY <1>1, <2>6
      <3>3. \/ excuses'[y] = excuses[y] + 1
            \/ excuses'[y] = excuses[y] /\ w \in Reopening(y)
            \/ excuses'[y] = excuses[y] /\ One(Open(y)') <= One(Open(y))
        BY <1>1, <2>4, <2>6 DEF Open, One
      <3> QED
        BY <2>2, <2>3, <2>4, <3>1, <3>2, <3>3, RuleConstants DEF RuleInv, Chances
    <2> QED
      BY <2>5, <2>6
  <1>9. Chances'
    BY <1>8 DEF Chances, One
  <1> QED
    BY <1>1, <1>5, <1>6, <1>7, <1>9 DEF RuleInv

\* What the ORM stores as a status is one.
LEMMA StoredType ==
  ASSUME RuleInv, NEW w \in Workers, work[w] # Rule!Idle, NEW status \in Rule!ExecStatuses
  PROVE  Rule!Stored(w, status) \in Rule!ExecStatuses
  <1>1. exec[work[w].x] \in Rule!Exec
    BY WorkingFields DEF RuleInv, Rule!TypeOK
  <1> QED
    BY <1>1 DEF Rule!Stored, Rule!Exec

\* A worker settles its execution.
LEMMA SettleKeeps ==
  ASSUME RuleInv, NEW w \in Workers, Rule!Settle(w)
  PROVE  RuleInv'
  <1> DEFINE x == work[w].x
  <1>1. work[w] # Rule!Idle /\ Rule!AtEnd(w)
    BY WorkerBusy DEF Rule!Settle, Rule!CompleteExecution, Rule!CompleteRefused,
         Rule!KeepBlocked, Rule!RetryUnknown, Rule!RetryLater, Rule!AtEnd
  <1>2. /\ work[w].at = "acting" /\ x \in Executions /\ exec[x] \in Rule!Exec
        /\ excuses \in [Executions -> Nat] /\ excuses[x] \in Nat /\ work[w].seen \in Nat
    BY <1>1, WorkingFields DEF RuleInv, Rule!TypeOK, Rule!AtEnd
  <1>3. CASE Rule!CompleteExecution(w)
    <2> DEFINE e == [exec[x] EXCEPT !.status = "success", !.live = FALSE]
    <2>1. e \in Rule!Exec /\ e.status = "success" /\ e.attempts = exec[x].attempts
      BY <1>2 DEF Rule!Exec, Rule!ExecStatuses
    <2>2. /\ Rule!CommitActions(w, x, e) /\ Rule!AllSucceeded(w) /\ UNCHANGED excuses
          /\ omitted' = omitted \ {x}
      BY <1>3 DEF Rule!CompleteExecution
    <2>3. omitted' \subseteq Executions
      BY <2>2 DEF RuleInv, Rule!TypeOK
    <2> HIDE DEF e
    <2> QED
      BY <1>1, <1>2, <2>1, <2>2, <2>3, SettlementKeeps
  <1>4. CASE Rule!CompleteRefused(w)
    BY <1>4, LeavingKeeps
  <1>5. CASE Rule!KeepBlocked(w)
    <2> DEFINE e == [exec[x] EXCEPT !.status = Rule!Stored(w, "blocked")]
    <2>0. Rule!Stored(w, "blocked") \in Rule!ExecStatuses
      BY <1>1, StoredType DEF Rule!ExecStatuses
    <2>1. /\ e \in Rule!Exec /\ e.status = Rule!Stored(w, "blocked")
          /\ e.attempts = exec[x].attempts /\ e.live = exec[x].live
      BY <1>2, <2>0 DEF Rule!Exec
    <2>2. /\ Rule!CommitActions(w, x, e) /\ UNCHANGED excuses
          /\ omitted' = IF e.status = "blocked" THEN omitted \ {x} ELSE omitted \cup {x}
      BY <1>5, <2>1 DEF Rule!KeepBlocked, Rule!CommitStatus
    <2>3. \/ e.status = "blocked" /\ x \notin omitted'
          \/ e.status = exec[x].status /\ x \in omitted'
      BY <1>2, <2>1, <2>2 DEF Rule!Stored
    <2>4. omitted' \subseteq Executions
      BY <1>2, <2>2 DEF RuleInv, Rule!TypeOK
    <2>5. \A y \in Executions \ {x} : y \in omitted <=> y \in omitted'
      BY <2>2
    <2> HIDE DEF e
    <2> QED
      BY <1>1, <1>2, <2>1, <2>2, <2>3, <2>4, <2>5, SettlementKeeps
  <1>6. CASE Rule!RetryUnknown(w)
    <2> DEFINE e == [exec[x] EXCEPT !.status = Rule!Stored(w, "partial")]
    <2>0. Rule!Stored(w, "partial") \in Rule!ExecStatuses
      BY <1>1, StoredType DEF Rule!ExecStatuses
    <2>1. /\ e \in Rule!Exec /\ e.status = Rule!Stored(w, "partial")
          /\ e.attempts = exec[x].attempts /\ e.live = exec[x].live
      BY <1>2, <2>0 DEF Rule!Exec
    <2>2. /\ Rule!CommitActions(w, x, e) /\ excuses' = [excuses EXCEPT ![x] = @ + 1]
          /\ omitted' = IF e.status = "partial" THEN omitted \ {x} ELSE omitted \cup {x}
      BY <1>6, <2>1 DEF Rule!RetryUnknown, Rule!CommitStatus
    <2>3. /\ excuses' \in [Executions -> Nat] /\ excuses'[x] = excuses[x] + 1
          /\ \A y \in Executions \ {x} : excuses'[y] = excuses[y]
      BY <1>2, <2>2
    <2>4. \/ e.status = "partial"
          \/ e.status = exec[x].status /\ x \in omitted'
      BY <1>2, <2>1, <2>2 DEF Rule!Stored
    <2>5. omitted' \subseteq Executions
      BY <1>2, <2>2 DEF RuleInv, Rule!TypeOK
    <2>6. \A y \in Executions \ {x} : y \in omitted <=> y \in omitted'
      BY <2>2
    <2> HIDE DEF e
    <2> QED
      BY <1>1, <1>2, <2>1, <2>2, <2>3, <2>4, <2>5, <2>6, SettlementKeeps
  <1>7. CASE Rule!RetryLater(w)
    <2> DEFINE s == Rule!RetryStatus(work[w].seen)
               e == [exec[x] EXCEPT !.due = FALSE, !.status = Rule!Stored(w, s)]
    <2>0. s \in {"failed", "dead_letter"} /\ Rule!Stored(w, s) \in Rule!ExecStatuses
      BY <1>1, StoredType DEF Rule!ExecStatuses, Rule!RetryStatus
    <2>1. /\ e \in Rule!Exec /\ e.status = Rule!Stored(w, s)
          /\ e.attempts = exec[x].attempts /\ e.live = exec[x].live
      BY <1>2, <2>0 DEF Rule!Exec
    <2>2. /\ Rule!CommitActions(w, x, e) /\ ~Rule!AnyUnknown(w) /\ UNCHANGED excuses
          /\ omitted' = IF e.status = s THEN omitted \ {x} ELSE omitted \cup {x}
      BY <1>7, <2>1 DEF Rule!RetryLater, Rule!CommitStatus
    <2>3. w \in Reopening(x) \/ s = "dead_letter"
      BY <1>1, <1>2 DEF Rule!RetryStatus, Reopening, Active
    <2>4. e.status = s \/ e.status = exec[x].status
      BY <2>1 DEF Rule!Stored
    <2>5. omitted' \subseteq Executions /\ \A y \in Executions \ {x} : y \in omitted <=> y \in omitted'
      BY <1>2, <2>2 DEF RuleInv, Rule!TypeOK
    <2> HIDE DEF e, s
    <2> QED
      BY <1>1, <1>2, <2>0, <2>1, <2>2, <2>3, <2>4, <2>5, SettlementKeeps
  <1> QED
    BY <1>3, <1>4, <1>5, <1>6, <1>7 DEF Rule!Settle

-----------------------------------------------------------------------------
(* The theorem.                                                            *)

\* Every step of the engine keeps its invariant.
LEMMA RuleNext == RuleInv /\ Rule!Next => RuleInv'
  <1> SUFFICES ASSUME RuleInv, Rule!Next PROVE RuleInv'
    OBVIOUS
  <1>1. ASSUME NEW x \in Executions,
               Rule!LeaseExpires(x) \/ Rule!BackoffEnds(x) \/ Rule!Redrive(x)
        PROVE  RuleInv'
    BY <1>1, LeaseExpiresKeeps, BackoffEndsKeeps, RedriveKeeps
  <1>2. ASSUME NEW w \in Workers, NEW x \in Executions, Rule!ClaimExecution(w, x)
        PROVE  RuleInv'
    BY <1>2, ClaimExecutionKeeps
  <1>3. ASSUME NEW w \in Workers,
               \/ Rule!Begin(w) \/ Rule!InsertCollides(w) \/ Rule!WorkerLost(w)
               \/ Rule!Settle(w)
        PROVE  RuleInv'
    BY <1>3, BeginKeeps, LeavingKeeps, SettleKeeps
  <1>4. ASSUME NEW w \in Workers, NEW i \in Rule!Actions,
               Rule!SkipDone(w, i) \/ Rule!RunAction(w, i) \/ Rule!InsertWaits(w, i)
        PROVE  RuleInv'
    BY <1>4, SkipDoneKeeps, RunActionKeeps, InsertWaitsKeeps
  <1> QED
    BY <1>1, <1>2, <1>3, <1>4 DEF Rule!Next

\* What the invariant says of effects, statuses and claims.
LEMMA RuleInvImplies == RuleInv => RuleSafety
  <1> SUFFICES ASSUME RuleInv PROVE RuleSafety
    OBVIOUS
  <1>1. ASSUME NEW x \in Executions, NEW i \in Rule!Actions
        PROVE  effects[x][i] <= 1 + doubts[x][i]
    <2>1. /\ effects[x][i] \in Nat /\ doubts[x][i] \in Nat
          /\ effects[x][i] <= doubts[x][i] + (IF attempt[x][i] = "succeeded" THEN 1 ELSE 0)
      BY DEF RuleInv, Ledger, Rule!TypeOK
    <2> QED
      BY <2>1
  <1>2. ASSUME NEW x \in Executions
        PROVE  exec[x].attempts <= MaxAttempts + excuses[x]
    BY SizesAreNumbers, OneIsNumber, RuleConstants DEF RuleInv, Chances
  <1> QED
    BY <1>1, <1>2 DEF RuleInv, Ledger, RuleSafety, Rule!ActionOnce, Rule!SuccessIsComplete,
         Rule!FailedIsKnown, Rule!ClaimsBounded

\* The steps of the other components keep it.
LEMMA RuleRests == RuleInv /\ UNCHANGED ruleVars => RuleInv'
  <1> SUFFICES ASSUME RuleInv, UNCHANGED ruleVars PROVE RuleInv'
    OBVIOUS
  <1>0. UNCHANGED <<exec, attempt, work, faults, effects, doubts, excuses, omitted>>
    BY DEF ruleVars
  <1>1. Rule!TypeOK' /\ Loops' /\ StagedApart' /\ Ledger'
    BY <1>0 DEF RuleInv, Rule!TypeOK, Loops, LoopOf, StagedApart, Ledger
  <1>2. \A x \in Executions : /\ Active(x)' = Active(x) /\ Reopening(x)' = Reopening(x)
                             /\ One(Open(x)') = One(Open(x))
    BY <1>0 DEF Active, Reopening, Open, One
  <1>3. Chances'
    BY <1>0, <1>2 DEF RuleInv, Chances, One
  <1> QED
    BY <1>1, <1>3 DEF RuleInv

\* An action takes effect once unless its result was unknown, a successful
\* execution carried out every action, a failed one knows every result unless its
\* last settlement stored no status, and failures alone do not claim it beyond the
\* backoff (schedule_execution_retry).
THEOREM RuleIsSafe == Spec => []RuleSafety
  <1>1. Init => RuleInv
    BY RuleInit DEF Init
  <1>2. RuleInv /\ [Next]_vars => RuleInv'
    BY RuleNext, RuleRests DEF Next, vars
  <1> QED
    BY <1>1, <1>2, RuleInvImplies, PTL DEF Spec

-----------------------------------------------------------------------------
(* The e-mail outbox.                                                      *)

\* What is known of the constants.
LEMMA MailConstants ==
  /\ Verifications \subseteq Mails /\ UserOf \in [Mails -> Users]
  /\ MaxRetries \in Nat /\ MaxSends \in Nat /\ MaxMailFaults \in Nat
  BY WorkerAssumption DEF Mail!OutboxAssumption

\* The instance's Cardinality is that of the library.
LEMMA MailCardinality == \A S : Mail!Cardinality(S) = Cardinality(S)
  BY DEF Mail!Cardinality, Cardinality

\* A task between its claim and its record.
Flying(t) == task[t].at \in {"sending", "answered"}

\* What each stage of a task carries.
LEMMA TaskFields ==
  ASSUME Mail!TypeOK, NEW t \in Tasks
  PROVE  /\ task[t] \in Mail!Task
         /\ task[t].at \in {"unused", "ready", "done", "sending", "answered"}
         /\ task[t].at # "unused" => task[t].o \in Mails /\ task[t].retries \in 0 .. MaxRetries
         /\ Flying(t) => task[t].n \in Mail!Claims
         /\ task[t].at = "answered" => task[t].result \in {"sent", "failed", "unknown"}
         /\ task[t] = Mail!Unused <=> task[t].at = "unused"
  <1>1. task[t] \in Mail!Task
    BY DEF Mail!TypeOK
  <1> QED
    BY <1>1 DEF Mail!Task, Mail!Unused, Flying

\* The columns of a row.
LEMMA RowFields ==
  ASSUME Mail!TypeOK, NEW o \in Mails
  PROVE  /\ mail[o].status \in Mail!Statuses /\ mail[o].attempts \in 0 .. MaxSends
         /\ mail[o] \in [status : Mail!Statuses, attempts : 0 .. MaxSends]
         /\ inbox[o] \subseteq Mail!Claims /\ unsaid[o] \subseteq Mail!Claims
         /\ \A n \in Mail!Claims : token[o][n] \in {"none", "live", "used", "expired"}
         /\ mailFaults[o] \in Nat => TRUE
  BY DEF Mail!TypeOK

\* A row has one task in flight.
SendersApart ==
  \A t, u \in Tasks : Flying(t) /\ Flying(u) /\ task[t].o = task[u].o => t = u

\* The task in flight made the latest claim of a row that cannot be claimed;
\* its answer agrees with what the server did.
SenderOf(t) ==
  LET o == task[t].o
      n == task[t].n
  IN /\ mail[o].status \in {"processing", "unknown"}
     /\ n = mail[o].attempts
     /\ task[t].at = "sending" => n \notin inbox[o]
     /\ task[t].at = "answered" /\ task[t].result = "sent" => n \in inbox[o]
     /\ task[t].at = "answered" /\ task[t].result = "failed" /\ n \in inbox[o] => n \in unsaid[o]

Senders == \A t \in Tasks : Flying(t) => SenderOf(t)

\* What the server took was claimed; a message of an earlier claim was reported
\* as failed, and so was the last one of a row that can be claimed.
RowOf(o) ==
  /\ \A m \in inbox[o] : /\ m <= mail[o].attempts
                         /\ m < mail[o].attempts => m \in unsaid[o]
  /\ mail[o].status \in {"queued", "failed"} =>
       (mail[o].attempts \in inbox[o] => mail[o].attempts \in unsaid[o])
  /\ mail[o].status = "sent" => mail[o].attempts \in inbox[o]
  /\ o \in Verifications =>
       \A n \in Mail!Claims : n <= mail[o].attempts => token[o][n] # "none"

Rows == \A o \in Mails : RowOf(o)

MailInv == Mail!TypeOK /\ SendersApart /\ Senders /\ Rows

\* Rows that no task has claimed.
LEMMA MailInit == Mail!Init => MailInv
  <1> SUFFICES ASSUME Mail!Init PROVE MailInv
    OBVIOUS
  <1>1. Mail!TypeOK
    BY MailConstants DEF Mail!Init, Mail!TypeOK, Mail!Statuses, Mail!Task
  <1>2. \A t \in Tasks : ~Flying(t)
    BY DEF Mail!Init, Flying, Mail!Unused
  <1>3. ASSUME NEW o \in Mails PROVE RowOf(o)
    <2>1. mail[o].attempts = 0 /\ mail[o].status = "queued" /\ inbox[o] = {}
      BY DEF Mail!Init
    <2>2. \A n \in Mail!Claims : ~(n <= 0)
      BY DEF Mail!Claims
    <2> QED
      BY <2>1, <2>2 DEF RowOf
  <1> QED
    BY <1>1, <1>2, <1>3 DEF MailInv, SendersApart, Senders, Rows

\* Only task t changes.
OnlyTask(t) == /\ task' \in [Tasks -> Mail!Task]
               /\ \A u \in Tasks \ {t} : task'[u] = task[u]

-----------------------------------------------------------------------------
(* Steps that end a flight, or take place before one.                      *)

\* A task leaves its row, with the message taken or not.
LEMMA TaskLands ==
  ASSUME MailInv, NEW t \in Tasks, OnlyTask(t),
         task'[t].at \notin {"sending", "answered"},
         UNCHANGED <<mail, token, verified, unsaid>>,
         mailFaults' \in [Mails -> 0 .. MaxMailFaults],
         \/ UNCHANGED inbox
         \/ /\ task[t].at = "sending"
            /\ inbox' = [inbox EXCEPT ![task[t].o] = @ \cup {task[t].n}]
  PROVE  MailInv'
  <1>1. /\ task[t].at = "sending" => task[t].o \in Mails /\ task[t].n \in Mail!Claims
        /\ inbox \in [Mails -> SUBSET Mail!Claims]
    BY TaskFields DEF MailInv, Flying, Mail!TypeOK
  <1>2. inbox' \in [Mails -> SUBSET Mail!Claims]
    BY <1>1
  <1>3. Mail!TypeOK'
    BY <1>2 DEF MailInv, Mail!TypeOK, OnlyTask
  <1>4. \A u \in Tasks : Flying(u)' => u # t /\ Flying(u) /\ task'[u] = task[u]
    BY DEF Flying, OnlyTask
  <1>5. SendersApart'
    BY <1>4 DEF MailInv, SendersApart
  <1>6. Senders'
    <2> SUFFICES ASSUME NEW u \in Tasks, Flying(u)' PROVE SenderOf(u)'
      BY DEF Senders
    <2>1. /\ u # t /\ Flying(u) /\ task'[u] = task[u] /\ SenderOf(u)
          /\ task[u].o \in Mails /\ task[u].at # "unused"
      BY <1>4, TaskFields DEF MailInv, Senders, Flying
    <2>2. inbox'[task[u].o] = inbox[task[u].o]
      <3>1. CASE UNCHANGED inbox
        BY <3>1
      <3>2. CASE /\ task[t].at = "sending"
                 /\ inbox' = [inbox EXCEPT ![task[t].o] = @ \cup {task[t].n}]
        <4>1. task[u].o # task[t].o
          BY <2>1, <3>2 DEF MailInv, SendersApart, Flying
        <4> QED
          BY <1>1, <2>1, <3>2, <4>1
      <3> QED
        BY <3>1, <3>2
    <2> QED
      BY <2>1, <2>2 DEF SenderOf
  <1>7. Rows'
    <2> SUFFICES ASSUME NEW o \in Mails PROVE RowOf(o)'
      BY DEF Rows
    <2>1. RowOf(o)
      BY DEF MailInv, Rows
    <2>2. CASE inbox'[o] = inbox[o]
      BY <2>1, <2>2 DEF RowOf
    <2>3. CASE inbox'[o] # inbox[o]
      <3>1. /\ task[t].at = "sending" /\ task[t].o = o
            /\ inbox'[o] = inbox[o] \cup {task[t].n}
        BY <1>1, <2>3
      <3>2. mail[o].status \in {"processing", "unknown"} /\ task[t].n = mail[o].attempts
        BY <3>1 DEF MailInv, Senders, SenderOf, Flying
      <3>3. mail[o].attempts \in Nat
        BY RowFields DEF MailInv
      <3> QED
        BY <2>1, <3>1, <3>2, <3>3 DEF RowOf
    <2> QED
      BY <2>2, <2>3
  <1> QED
    BY <1>3, <1>5, <1>6, <1>7 DEF MailInv

\* A task is published.
LEMMA PublishMailKeeps ==
  ASSUME MailInv, NEW t \in Tasks, NEW o \in Mails, Mail!Publish(t, o)
  PROVE  MailInv'
  <1>1. /\ task' = [task EXCEPT ![t] = [at |-> "ready", o |-> o, retries |-> 0]]
        /\ UNCHANGED <<mail, token, verified, mailFaults, inbox, unsaid>>
    BY DEF Mail!Publish
  <1>2. [at |-> "ready", o |-> o, retries |-> 0] \in Mail!Task
    BY MailConstants DEF Mail!Task
  <1>3. OnlyTask(t) /\ task'[t].at = "ready"
    BY <1>1, <1>2 DEF MailInv, Mail!TypeOK, OnlyTask
  <1> QED
    BY <1>1, <1>3, TaskLands DEF MailInv, Mail!TypeOK

\* The forms of a task that has left its row.
LEMMA LandedTypes ==
  ASSUME MailInv, NEW t \in Tasks, task[t].at # "unused"
  PROVE  /\ Mail!Finished(t) \in Mail!Task /\ Mail!Finished(t).at = "done"
         /\ Mail!Requeued(t) \in Mail!Task /\ Mail!Requeued(t).at = "ready"
         /\ task[t].retries < MaxRetries =>
              [at |-> "ready", o |-> task[t].o, retries |-> task[t].retries + 1] \in Mail!Task
  <1>1. task[t].o \in Mails /\ task[t].retries \in 0 .. MaxRetries
    BY TaskFields DEF MailInv
  <1> QED
    BY <1>1, MailConstants DEF Mail!Finished, Mail!Requeued, Mail!Task

\* A task gives up on a row it may not claim.
LEMMA ClaimRefusedKeeps ==
  ASSUME MailInv, NEW t \in Tasks, Mail!ClaimRefused(t)
  PROVE  MailInv'
  <1>1. /\ task[t].at = "ready"
        /\ task' = [task EXCEPT ![t] = Mail!Finished(t)]
        /\ UNCHANGED <<mail, token, verified, mailFaults, inbox, unsaid>>
    BY DEF Mail!ClaimRefused
  <1>2. OnlyTask(t) /\ task'[t].at = "done"
    BY <1>1, LandedTypes DEF MailInv, Mail!TypeOK, OnlyTask
  <1> QED
    BY <1>1, <1>2, TaskLands DEF MailInv, Mail!TypeOK

\* Faults are counted.
LEMMA FaultType ==
  ASSUME Mail!TypeOK, NEW o \in Mails, Mail!Fault(o)
  PROVE  mailFaults' \in [Mails -> 0 .. MaxMailFaults]
  BY MailConstants DEF Mail!TypeOK, Mail!Fault

\* A task raises and is retried, or ends.
LEMMA RaiseKeeps ==
  ASSUME MailInv, NEW t \in Tasks, Mail!Raise(t)
  PROVE  MailInv'
  <1>1. task[t].at # "unused" /\ task[t].o \in Mails
    BY TaskFields DEF Mail!Raise, Mail!Running, MailInv
  <1> DEFINE next == IF task[t].retries < MaxRetries
                     THEN [at |-> "ready", o |-> task[t].o, retries |-> task[t].retries + 1]
                     ELSE Mail!Finished(t)
  <1>2. next \in Mail!Task /\ next.at \in {"ready", "done"}
    BY <1>1, LandedTypes
  <1>3. task' = [task EXCEPT ![t] = next]
    BY DEF Mail!Raise
  <1> HIDE DEF next
  <1>4. OnlyTask(t) /\ task'[t].at \in {"ready", "done"}
    BY <1>2, <1>3 DEF MailInv, Mail!TypeOK, OnlyTask
  <1>5. mailFaults' \in [Mails -> 0 .. MaxMailFaults]
    BY <1>1, FaultType DEF MailInv, Mail!Raise
  <1>6. /\ UNCHANGED <<mail, token, verified, unsaid>>
        /\ \/ UNCHANGED inbox
           \/ /\ task[t].at = "sending"
              /\ inbox' = [inbox EXCEPT ![task[t].o] = @ \cup {task[t].n}]
    BY DEF Mail!Raise
  <1> QED
    BY <1>4, <1>5, <1>6, TaskLands

\* The task of a lost worker returns to the queue.
LEMMA WorkerLostKeeps ==
  ASSUME MailInv, NEW t \in Tasks, Mail!WorkerLost(t)
  PROVE  MailInv'
  <1>1. task[t].at # "unused" /\ task[t].o \in Mails
    BY TaskFields DEF Mail!WorkerLost, MailInv
  <1>2. OnlyTask(t) /\ task'[t].at = "ready"
    BY <1>1, LandedTypes DEF Mail!WorkerLost, MailInv, Mail!TypeOK, OnlyTask
  <1>3. mailFaults' \in [Mails -> 0 .. MaxMailFaults]
    BY <1>1, FaultType DEF MailInv, Mail!WorkerLost
  <1>4. /\ UNCHANGED <<mail, token, verified, unsaid>>
        /\ \/ UNCHANGED inbox
           \/ /\ task[t].at = "sending"
              /\ inbox' = [inbox EXCEPT ![task[t].o] = @ \cup {task[t].n}]
    BY DEF Mail!WorkerLost
  <1> QED
    BY <1>2, <1>3, <1>4, TaskLands

-----------------------------------------------------------------------------
(* The claim, the answer and the record.                                   *)

\* A claim finds no other task in flight, and earlier copies explained.
LEMMA ClaimMailKeeps ==
  ASSUME MailInv, NEW t \in Tasks, Mail!Claim(t)
  PROVE  MailInv'
  <1> DEFINE o == task[t].o
             n == mail[o].attempts + 1
             r == [at |-> "sending", o |-> o, retries |-> task[t].retries, n |-> n]
             q == [status |-> "processing", attempts |-> n]
  <1>1. /\ task[t].at = "ready" /\ o \in Mails /\ task[t].retries \in 0 .. MaxRetries
        /\ mail[o].attempts \in 0 .. MaxSends /\ mail[o].status \in Mail!Statuses
    BY TaskFields, RowFields DEF MailInv, Mail!Claim
  <1>2. /\ mail[o].status \in {"queued", "failed"} /\ n <= MaxSends
        /\ mail' = [mail EXCEPT ![o] = q]
        /\ token' = [token EXCEPT ![o][n] = IF o \in Verifications THEN "live" ELSE @]
        /\ task' = [task EXCEPT ![t] = r]
        /\ UNCHANGED <<verified, mailFaults, inbox, unsaid>>
    BY <1>1 DEF Mail!Claim, Mail!Claimable, Mail!Row, Mail!Statuses
  <1>3. n \in Mail!Claims /\ n = mail[o].attempts + 1
    BY <1>1, <1>2, MailConstants DEF Mail!Claims
  <1>4. r \in Mail!Task /\ r.at = "sending" /\ r.o = o /\ r.n = n
    BY <1>1, <1>3 DEF Mail!Task
  <1>5. q \in [status : Mail!Statuses, attempts : 0 .. MaxSends]
        /\ q.status = "processing" /\ q.attempts = n
    BY <1>3 DEF Mail!Statuses, Mail!Claims
  <1>o. o = task[t].o
    OBVIOUS
  <1> HIDE DEF o, n, r, q
  <1>6. OnlyTask(t) /\ task'[t].at = "sending" /\ task'[t].o = o /\ task'[t].n = n
    BY <1>2, <1>4 DEF MailInv, Mail!TypeOK, OnlyTask
  <1>7. /\ mail' \in [Mails -> [status : Mail!Statuses, attempts : 0 .. MaxSends]]
        /\ mail'[o].status = "processing" /\ mail'[o].attempts = n
        /\ \A p \in Mails \ {o} : mail'[p] = mail[p]
    BY <1>1, <1>2, <1>5 DEF MailInv, Mail!TypeOK
  <1>8. /\ token' \in [Mails -> [Mail!Claims -> {"none", "live", "used", "expired"}]]
        /\ \A p \in Mails \ {o} : token'[p] = token[p]
        /\ \A m \in Mail!Claims \ {n} : token'[o][m] = token[o][m]
        /\ o \in Verifications => token'[o][n] = "live"
    BY <1>1, <1>2, <1>3 DEF MailInv, Mail!TypeOK
  <1>9. Mail!TypeOK'
    BY <1>2, <1>6, <1>7, <1>8 DEF MailInv, Mail!TypeOK, OnlyTask
  <1>10. \A u \in Tasks : Flying(u) => task[u].o # o
    BY <1>2 DEF MailInv, Senders, SenderOf
  <1>11. \A u \in Tasks : Flying(u)' => u = t \/ (Flying(u) /\ task'[u] = task[u])
    BY <1>6 DEF Flying, OnlyTask
  <1>12. SendersApart'
    BY <1>6, <1>10, <1>11 DEF MailInv, SendersApart
  <1>13. \A m \in inbox[o] : m \in Nat /\ m < n /\ m \in unsaid[o]
    <2>1. RowOf(o) /\ inbox[o] \subseteq Mail!Claims
      BY <1>1, RowFields DEF MailInv, Rows
    <2> QED
      BY <1>1, <1>2, <1>3, <2>1 DEF RowOf, Mail!Claims
  <1>14. Senders'
    <2> SUFFICES ASSUME NEW u \in Tasks, Flying(u)' PROVE SenderOf(u)'
      BY DEF Senders
    <2>1. CASE u = t
      BY <1>2, <1>3, <1>6, <1>7, <1>13, <2>1 DEF SenderOf, Mail!Claims
    <2>2. CASE u # t
      <3>1. Flying(u) /\ task'[u] = task[u] /\ SenderOf(u) /\ task[u].o # o
        BY <1>10, <1>11, <2>2 DEF MailInv, Senders
      <3>2. task[u].o \in Mails
        BY <3>1, TaskFields DEF MailInv, Flying
      <3> QED
        BY <1>2, <1>7, <3>1, <3>2 DEF SenderOf
    <2> QED
      BY <2>1, <2>2
  <1>15. Rows'
    <2> SUFFICES ASSUME NEW p \in Mails PROVE RowOf(p)'
      BY DEF Rows
    <2>1. RowOf(p)
      BY DEF MailInv, Rows
    <2>2. CASE p # o
      BY <1>2, <1>7, <1>8, <2>1, <2>2 DEF RowOf
    <2>3. CASE p = o
      <3>1. \A m \in Mail!Claims : m <= n => m = n \/ m <= mail[o].attempts
        BY <1>1, <1>3 DEF Mail!Claims
      <3>2. o \in Verifications => \A m \in Mail!Claims : m <= n => token'[o][m] # "none"
        BY <1>8, <2>1, <2>3, <3>1 DEF RowOf
      <3> QED
        BY <1>2, <1>3, <1>7, <1>13, <2>3, <3>2 DEF RowOf, Mail!Claims
    <2> QED
      BY <2>2, <2>3
  <1> QED
    BY <1>9, <1>12, <1>14, <1>15 DEF MailInv

\* The server takes the message or not, and its answer says so or lies.
LEMMA SendKeeps ==
  ASSUME MailInv, NEW t \in Tasks, NEW answer \in Mail!Answers, Mail!Send(t, answer)
  PROVE  MailInv'
  <1> DEFINE o == task[t].o
             n == task[t].n
             r == [at |-> "answered", o |-> o, retries |-> task[t].retries, n |-> n,
                   result |-> answer[1]]
  <1>1. /\ task[t].at = "sending" /\ o \in Mails /\ task[t].retries \in 0 .. MaxRetries
        /\ n \in Mail!Claims
    BY TaskFields DEF MailInv, Mail!Send, Flying
  <1>a. /\ answer[1] \in {"sent", "failed", "unknown"}
        /\ answer[1] = "sent" => answer[2] = TRUE
        /\ answer[1] = "failed" /\ answer[2] = TRUE => answer = <<"failed", TRUE>>
        /\ answer = <<"failed", TRUE>> => answer[1] = "failed" /\ answer[2] = TRUE
    <2>1. CASE answer = <<"sent", TRUE>>
      BY <2>1
    <2>2. CASE answer = <<"failed", FALSE>>
      BY <2>2
    <2>3. CASE answer = <<"failed", TRUE>>
      BY <2>3
    <2>4. CASE answer = <<"unknown", FALSE>>
      BY <2>4
    <2>5. CASE answer = <<"unknown", TRUE>>
      BY <2>5
    <2> QED
      BY <2>1, <2>2, <2>3, <2>4, <2>5 DEF Mail!Answers
  <1>2. /\ task' = [task EXCEPT ![t] = r]
        /\ inbox' = [inbox EXCEPT ![o] = IF answer[2] THEN inbox[o] \cup {n} ELSE inbox[o]]
        /\ unsaid' = [unsaid EXCEPT ![o] = IF answer = <<"failed", TRUE>> THEN unsaid[o] \cup {n}
                                           ELSE unsaid[o]]
        /\ UNCHANGED <<mail, token, verified, mailFaults>>
    BY DEF Mail!Send
  <1>3. r \in Mail!Task /\ r.at = "answered" /\ r.o = o /\ r.n = n /\ r.result = answer[1]
    BY <1>1, <1>a DEF Mail!Task
  <1>o. o = task[t].o /\ n = task[t].n
    OBVIOUS
  <1> HIDE DEF o, n, r
  <1>4. /\ OnlyTask(t) /\ task'[t].at = "answered" /\ task'[t].o = o /\ task'[t].n = n
        /\ task'[t].result = answer[1]
    BY <1>2, <1>3 DEF MailInv, Mail!TypeOK, OnlyTask
  <1>5. /\ inbox' \in [Mails -> SUBSET Mail!Claims]
        /\ \A p \in Mails \ {o} : inbox'[p] = inbox[p]
        /\ inbox'[o] = inbox[o] \/ inbox'[o] = inbox[o] \cup {n}
        /\ answer[2] = TRUE => n \in inbox'[o]
        /\ answer[2] # TRUE => inbox'[o] = inbox[o]
    BY <1>1, <1>2 DEF MailInv, Mail!TypeOK
  <1>6. /\ unsaid' \in [Mails -> SUBSET Mail!Claims]
        /\ \A p \in Mails : unsaid[p] \subseteq unsaid'[p]
        /\ \A p \in Mails \ {o} : unsaid'[p] = unsaid[p]
        /\ answer = <<"failed", TRUE>> => n \in unsaid'[o]
    BY <1>1, <1>2 DEF MailInv, Mail!TypeOK
  <1>7. Mail!TypeOK'
    BY <1>2, <1>4, <1>5, <1>6 DEF MailInv, Mail!TypeOK, OnlyTask
  <1>8. /\ mail[o].status \in {"processing", "unknown"} /\ n = mail[o].attempts
        /\ n \notin inbox[o] /\ n \in Nat
    BY <1>1, <1>o DEF MailInv, Senders, SenderOf, Flying, Mail!Claims
  <1>9. \A u \in Tasks : Flying(u)' => Flying(u) /\ task'[u].o = task[u].o
    BY <1>1, <1>4, <1>o DEF Flying, OnlyTask
  <1>10. SendersApart'
    BY <1>9 DEF MailInv, SendersApart
  <1>11. Senders'
    <2> SUFFICES ASSUME NEW u \in Tasks, Flying(u)' PROVE SenderOf(u)'
      BY DEF Senders
    <2>1. CASE u = t
      <3>1. answer[1] = "sent" => n \in inbox'[o]
        BY <1>a, <1>5
      <3>2. answer[1] = "failed" /\ n \in inbox'[o] => n \in unsaid'[o]
        BY <1>a, <1>5, <1>6, <1>8
      <3> QED
        BY <1>2, <1>4, <1>8, <2>1, <3>1, <3>2 DEF SenderOf
    <2>2. CASE u # t
      <3>1. Flying(u) /\ task'[u] = task[u] /\ SenderOf(u) /\ task[u].o # o
        BY <1>1, <1>4, <1>9, <1>o, <2>2 DEF MailInv, Senders, SendersApart, OnlyTask, Flying
      <3>2. task[u].o \in Mails
        BY <3>1, TaskFields DEF MailInv, Flying
      <3> QED
        BY <1>2, <1>5, <1>6, <3>1, <3>2 DEF SenderOf
    <2> QED
      BY <2>1, <2>2
  <1>12. Rows'
    <2> SUFFICES ASSUME NEW p \in Mails PROVE RowOf(p)'
      BY DEF Rows
    <2>1. RowOf(p)
      BY DEF MailInv, Rows
    <2>2. CASE p # o
      BY <1>2, <1>5, <1>6, <2>1, <2>2 DEF RowOf
    <2>3. CASE p = o
      <3>1. /\ \A m \in inbox'[p] : m = n \/ m \in inbox[p]
            /\ mail[p].status \in {"processing", "unknown"} /\ n = mail[p].attempts
            /\ n \in Nat /\ unsaid[p] \subseteq unsaid'[p]
        BY <1>5, <1>6, <1>8, <2>3
      <3>2. mail'[p] = mail[p] /\ token'[p] = token[p]
        BY <1>2
      <3>3. \A m \in inbox'[p] : /\ m <= mail[p].attempts
                                  /\ m < mail[p].attempts => m \in unsaid'[p]
        BY <2>1, <3>1 DEF RowOf
      <3> QED
        BY <2>1, <3>1, <3>2, <3>3 DEF RowOf
    <2> QED
      BY <2>2, <2>3
  <1> QED
    BY <1>7, <1>10, <1>11, <1>12 DEF MailInv

\* The answer is recorded over whatever status the row has.
LEMMA RecordKeeps ==
  ASSUME MailInv, NEW t \in Tasks, Mail!Record(t)
  PROVE  MailInv'
  <1> DEFINE o == task[t].o
             n == task[t].n
             q == [mail[o] EXCEPT !.status = task[t].result]
  <1>1. /\ task[t].at = "answered" /\ o \in Mails /\ n \in Mail!Claims
        /\ task[t].result \in {"sent", "failed", "unknown"}
        /\ mail[o] \in [status : Mail!Statuses, attempts : 0 .. MaxSends]
    BY TaskFields, RowFields DEF MailInv, Mail!Record, Flying
  <1>2. SenderOf(t)
    BY <1>1 DEF MailInv, Senders, Flying
  <1>3. /\ q \in [status : Mail!Statuses, attempts : 0 .. MaxSends]
        /\ q.status = task[t].result /\ q.attempts = mail[o].attempts
    BY <1>1 DEF Mail!Statuses
  <1>4. /\ mail' = [mail EXCEPT ![o] = q]
        /\ task' = [task EXCEPT ![t] = Mail!Finished(t)]
        /\ UNCHANGED <<token, verified, mailFaults, inbox, unsaid>>
    BY <1>1 DEF Mail!Record, MailInv, Mail!TypeOK
  <1>o. o = task[t].o /\ n = task[t].n
    OBVIOUS
  <1> HIDE DEF o, n, q
  <1>5. OnlyTask(t) /\ task'[t].at = "done"
    BY <1>1, <1>4, LandedTypes DEF MailInv, Mail!TypeOK, OnlyTask
  <1>6. /\ mail' \in [Mails -> [status : Mail!Statuses, attempts : 0 .. MaxSends]]
        /\ mail'[o].status = task[t].result /\ mail'[o].attempts = mail[o].attempts
        /\ \A p \in Mails \ {o} : mail'[p] = mail[p]
    BY <1>1, <1>3, <1>4 DEF MailInv, Mail!TypeOK
  <1>7. Mail!TypeOK'
    BY <1>4, <1>5, <1>6 DEF MailInv, Mail!TypeOK, OnlyTask
  <1>8. \A u \in Tasks : Flying(u)' => u # t /\ Flying(u) /\ task'[u] = task[u]
    BY <1>5 DEF Flying, OnlyTask
  <1>9. SendersApart'
    BY <1>8 DEF MailInv, SendersApart
  <1>10. Senders'
    <2> SUFFICES ASSUME NEW u \in Tasks, Flying(u)' PROVE SenderOf(u)'
      BY DEF Senders
    <2>1. Flying(u) /\ task'[u] = task[u] /\ SenderOf(u) /\ task[u].o # o
      BY <1>1, <1>8, <1>o DEF MailInv, Senders, SendersApart, Flying
    <2>2. task[u].o \in Mails
      BY <2>1, TaskFields DEF MailInv, Flying
    <2> QED
      BY <1>4, <1>6, <2>1, <2>2 DEF SenderOf
  <1>11. Rows'
    <2> SUFFICES ASSUME NEW p \in Mails PROVE RowOf(p)'
      BY DEF Rows
    <2>1. RowOf(p)
      BY DEF MailInv, Rows
    <2>2. CASE p # o
      BY <1>4, <1>6, <2>1, <2>2 DEF RowOf
    <2>3. CASE p = o
      BY <1>1, <1>2, <1>4, <1>6, <1>o, <2>1, <2>3 DEF RowOf, SenderOf
    <2> QED
      BY <2>2, <2>3
  <1> QED
    BY <1>7, <1>9, <1>10, <1>11 DEF MailInv

-----------------------------------------------------------------------------
(* Operators and readers.                                                  *)

\* Steps that leave the tasks and what was taken alone.
LEMMA RowsOnly ==
  ASSUME MailInv, UNCHANGED <<task, mailFaults, inbox, unsaid>>, verified' \subseteq Users,
         mail' \in [Mails -> [status : Mail!Statuses, attempts : 0 .. MaxSends]],
         token' \in [Mails -> [Mail!Claims -> {"none", "live", "used", "expired"}]],
         \A o \in Mails :
           /\ mail'[o].attempts = mail[o].attempts
           /\ \/ mail'[o].status = mail[o].status
              \/ mail'[o].status = "unknown" /\ mail[o].status = "processing"
           /\ \A n \in Mail!Claims : token'[o][n] = "none" => token[o][n] = "none"
  PROVE  MailInv'
  <1>1. Mail!TypeOK'
    BY DEF MailInv, Mail!TypeOK
  <1>2. SendersApart'
    BY DEF MailInv, SendersApart, Flying
  <1>3. Senders'
    <2> SUFFICES ASSUME NEW u \in Tasks, Flying(u)' PROVE SenderOf(u)'
      BY DEF Senders
    <2>1. Flying(u) /\ SenderOf(u) /\ task[u].o \in Mails
      BY TaskFields DEF MailInv, Senders, Flying
    <2> QED
      BY <2>1 DEF SenderOf
  <1>4. Rows'
    <2> SUFFICES ASSUME NEW o \in Mails PROVE RowOf(o)'
      BY DEF Rows
    <2>1. RowOf(o)
      BY DEF MailInv, Rows
    <2> QED
      BY <2>1 DEF RowOf
  <1> QED
    BY <1>1, <1>2, <1>3, <1>4 DEF MailInv

\* An operator gives a row up.
LEMMA MarkStaleKeeps ==
  ASSUME MailInv, NEW o \in Mails, Mail!MarkStale(o)
  PROVE  MailInv'
  <1>1. /\ mail[o].status = "processing"
        /\ mail' = [mail EXCEPT ![o].status = "unknown"]
        /\ UNCHANGED <<task, token, verified, mailFaults, inbox, unsaid>>
    BY DEF Mail!MarkStale
  <1>2. mail' \in [Mails -> [status : Mail!Statuses, attempts : 0 .. MaxSends]]
    BY <1>1 DEF MailInv, Mail!TypeOK, Mail!Statuses
  <1>3. \A p \in Mails :
          /\ mail'[p].attempts = mail[p].attempts
          /\ \/ mail'[p].status = mail[p].status
             \/ mail'[p].status = "unknown" /\ mail[p].status = "processing"
    BY <1>1 DEF MailInv, Mail!TypeOK
  <1> QED
    BY <1>1, <1>2, <1>3, RowsOnly DEF MailInv, Mail!TypeOK

\* A token is redeemed or expires.
LEMMA VerifyKeeps ==
  ASSUME MailInv, NEW o \in Mails, NEW n \in Mail!Claims,
         Mail!VerifyEmail(o, n) \/ Mail!TokenExpires(o, n)
  PROVE  MailInv'
  <1>1. PICK s \in {"used", "expired"} : token' = [token EXCEPT ![o][n] = s]
    BY DEF Mail!VerifyEmail, Mail!TokenExpires
  <1>2. UNCHANGED <<mail, task, mailFaults, inbox, unsaid>>
    BY DEF Mail!VerifyEmail, Mail!TokenExpires
  <1>3. verified' \subseteq Users
    BY MailConstants DEF MailInv, Mail!TypeOK, Mail!VerifyEmail, Mail!TokenExpires
  <1>4. /\ token' \in [Mails -> [Mail!Claims -> {"none", "live", "used", "expired"}]]
        /\ \A p \in Mails : \A m \in Mail!Claims : token'[p][m] = "none" => token[p][m] = "none"
    BY <1>1 DEF MailInv, Mail!TypeOK
  <1> QED
    BY <1>2, <1>3, <1>4, RowsOnly DEF MailInv, Mail!TypeOK

-----------------------------------------------------------------------------
(* The theorem.                                                            *)

\* Every step of the outbox keeps its invariant.
LEMMA MailNext == MailInv /\ Mail!Next => MailInv'
  <1> SUFFICES ASSUME MailInv, Mail!Next PROVE MailInv'
    OBVIOUS
  <1>1. ASSUME NEW t \in Tasks, NEW o \in Mails, Mail!Publish(t, o) PROVE MailInv'
    BY <1>1, PublishMailKeeps
  <1>2. ASSUME NEW t \in Tasks, Mail!Deliver(t) PROVE MailInv'
    BY <1>2, ClaimMailKeeps, ClaimRefusedKeeps, SendKeeps, RecordKeeps DEF Mail!Deliver
  <1>3. ASSUME NEW t \in Tasks, Mail!Raise(t) \/ Mail!WorkerLost(t) PROVE MailInv'
    BY <1>3, RaiseKeeps, WorkerLostKeeps
  <1>4. ASSUME NEW o \in Mails,
               Mail!MarkStale(o) \/ \E n \in Mail!Claims : Mail!VerifyEmail(o, n) \/ Mail!TokenExpires(o, n)
        PROVE  MailInv'
    BY <1>4, MarkStaleKeeps, VerifyKeeps
  <1> QED
    BY <1>1, <1>2, <1>3, <1>4 DEF Mail!Next

\* The steps of the other components keep it.
LEMMA MailRests == MailInv /\ UNCHANGED mailVars => MailInv'
  BY DEF MailInv, mailVars, Mail!TypeOK, SendersApart, Senders, SenderOf, Flying, Rows, RowOf

\* What the invariant says of senders and copies.
LEMMA MailInvImplies ==
  MailInv => Mail!TypeOK /\ Mail!OneSender /\ Mail!MailCopiesExplained /\ Mail!MailWasTaken
  <1> SUFFICES ASSUME MailInv
               PROVE  Mail!TypeOK /\ Mail!OneSender /\ Mail!MailCopiesExplained
                      /\ Mail!MailWasTaken
    OBVIOUS
  <1>1. ASSUME NEW o \in Mails
        PROVE  /\ Cardinality(Mail!InFlight(o)) <= 1
               /\ \A t \in Mail!InFlight(o) : /\ mail[o].status \in {"processing", "unknown"}
                                              /\ task[t].n = mail[o].attempts
    <2>1. \A t \in Mail!InFlight(o) : t \in Tasks /\ Flying(t) /\ task[t].o = o /\ SenderOf(t)
      BY DEF MailInv, Senders, Mail!InFlight, Flying
    <2>2. \A t, u \in Mail!InFlight(o) : t = u
      BY <2>1 DEF MailInv, SendersApart
    <2>3. CASE Mail!InFlight(o) = {}
      BY <2>3, FS_EmptySet
    <2>4. CASE Mail!InFlight(o) # {}
      <3>1. PICK t : t \in Mail!InFlight(o)
        BY <2>4
      <3>2. Mail!InFlight(o) = {t}
        BY <2>2, <3>1
      <3> QED
        BY <2>1, <3>2, FS_Singleton DEF SenderOf
    <2> QED
      BY <2>3, <2>4
  <1>2. ASSUME NEW o \in Mails
        PROVE  /\ \A m, n \in inbox[o] : m < n => m \in unsaid[o]
               /\ mail[o].status = "sent" => mail[o].attempts \in inbox[o]
               /\ o \in Verifications => \A n \in inbox[o] : token[o][n] # "none"
    <2>1. RowOf(o) /\ inbox[o] \subseteq Mail!Claims /\ mail[o].attempts \in Nat
      BY RowFields DEF MailInv, Rows
    <2> QED
      BY <2>1 DEF RowOf, Mail!Claims
  <1> QED
    <2>0. Mail!OneSender
      BY <1>1, MailCardinality DEF Mail!OneSender
    <2>1. Mail!TypeOK /\ Mail!OneSender
      BY <2>0 DEF MailInv
    <2>2. Mail!MailCopiesExplained /\ Mail!MailWasTaken
      BY <1>2 DEF Mail!MailCopiesExplained, Mail!MailWasTaken
    <2> QED
      BY <2>1, <2>2

SentStays == \A o \in Mails : mail[o].status = "sent" => mail'[o] = mail[o]

\* No step changes a row that is sent.
LEMMA SentStep ==
  MailInv /\ Mail!Next => SentStays
  <1> SUFFICES ASSUME MailInv, Mail!Next, NEW o \in Mails, mail[o].status = "sent"
               PROVE  mail'[o] = mail[o]
    BY DEF SentStays
  <1>1. ASSUME NEW t \in Tasks, Mail!Claim(t) PROVE mail'[o] = mail[o]
    <2>1. mail[task[t].o].status # "sent"
      BY <1>1 DEF Mail!Claim, Mail!Claimable, Mail!Row
    <2> QED
      BY <1>1, <2>1 DEF Mail!Claim, MailInv, Mail!TypeOK
  <1>2. ASSUME NEW t \in Tasks, Mail!Record(t) PROVE mail'[o] = mail[o]
    <2>1. mail[task[t].o].status # "sent"
      BY <1>2 DEF Mail!Record, MailInv, Senders, SenderOf, Flying
    <2> QED
      BY <1>2, <2>1 DEF Mail!Record, MailInv, Mail!TypeOK
  <1>3. ASSUME NEW p \in Mails, Mail!MarkStale(p) PROVE mail'[o] = mail[o]
    BY <1>3 DEF Mail!MarkStale, MailInv, Mail!TypeOK
  <1>4. ASSUME NEW t \in Tasks,
               \/ \E p \in Mails : Mail!Publish(t, p)
               \/ Mail!ClaimRefused(t) \/ \E a \in Mail!Answers : Mail!Send(t, a)
               \/ Mail!Raise(t) \/ Mail!WorkerLost(t)
        PROVE  mail' = mail
    BY <1>4 DEF Mail!Publish, Mail!ClaimRefused, Mail!Send, Mail!Raise, Mail!WorkerLost
  <1>5. ASSUME NEW p \in Mails, NEW n \in Mail!Claims,
               Mail!VerifyEmail(p, n) \/ Mail!TokenExpires(p, n)
        PROVE  mail' = mail
    BY <1>5 DEF Mail!VerifyEmail, Mail!TokenExpires
  <1> QED
    BY <1>1, <1>2, <1>3, <1>4, <1>5 DEF Mail!Next, Mail!Deliver

\* A row has one sender at a time, second copies are explained by a failure
\* reported for a message that was taken, and what is sent was taken, carries its
\* token and stays sent (deliver_email_outbox).
THEOREM MailIsSafe == Spec => MailSafety
  <1>1. Init => MailInv
    BY MailInit DEF Init
  <1>2. MailInv /\ [Next]_vars => MailInv'
    BY MailNext, MailRests DEF Next, vars
  <1>3. MailInv /\ [Next]_vars =>
          [\A o \in Mails : mail[o].status = "sent" => mail'[o] = mail[o]]_Mail!vars
    BY SentStep DEF Next, vars, mailVars, Mail!vars, SentStays
  <1> QED
    BY <1>1, <1>2, <1>3, MailInvImplies, PTL DEF Spec, MailSafety, Mail!SentIsFinal
=============================================================================
