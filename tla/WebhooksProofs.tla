---------------------------- MODULE WebhooksProofs ----------------------------
(***************************************************************************)
(* The theorems of WebhookInboxProofs, for the parts of MCWebhooks and     *)
(* every value of its constants.                                           *)
(***************************************************************************)
EXTENDS MCWebhooks, TLAPS

-----------------------------------------------------------------------------
(* The part ingress.                                                        *)

IngressFacts == INSTANCE WebhookInboxProofs WITH
  Keys <- Events["ingress"], Batches <- Postings["ingress"], AssetOf <- Routing["ingress"],
  Requests <- Intakes["ingress"], Workers <- Claimers["ingress"], MaxClaims <- Leases["ingress"]

\* The theorems speak of the same initial states and steps ...
LEMMA SameIngressNext == Ingress!Next <=> IngressFacts!Next
  BY DEF Ingress!Next, IngressFacts!Next, Ingress!Post, IngressFacts!Post,
         Ingress!IngressStep, IngressFacts!IngressStep, Ingress!LookupFinds,
         IngressFacts!LookupFinds, Ingress!LookupMisses, IngressFacts!LookupMisses,
         Ingress!Insert, IngressFacts!Insert, Ingress!InsertCollides,
         IngressFacts!InsertCollides, Ingress!DeadlockVictim, IngressFacts!DeadlockVictim,
         Ingress!Accept, IngressFacts!Accept, Ingress!RequestLost, IngressFacts!RequestLost,
         Ingress!Claim, IngressFacts!Claim, Ingress!EffectBegin, IngressFacts!EffectBegin,
         Ingress!Complete, IngressFacts!Complete, Ingress!CompleteRefused,
         IngressFacts!CompleteRefused, Ingress!EffectRaises, IngressFacts!EffectRaises,
         Ingress!Fail, IngressFacts!Fail, Ingress!WorkerLost, IngressFacts!WorkerLost,
         Ingress!LeaseExpires, IngressFacts!LeaseExpires, Ingress!BackoffEnds,
         IngressFacts!BackoffEnds, Ingress!Redrive, IngressFacts!Redrive,
         Ingress!AssetChanges, IngressFacts!AssetChanges, Ingress!inboxSame,
         IngressFacts!inboxSame, Ingress!ingressSame, IngressFacts!ingressSame,
         Ingress!Current, IngressFacts!Current, Ingress!Reading, IngressFacts!Reading,
         Ingress!Next1, IngressFacts!Next1, Ingress!Seen, IngressFacts!Seen, Ingress!Awaits,
         IngressFacts!Awaits, Ingress!Insertable, IngressFacts!Insertable, Ingress!Rollback,
         IngressFacts!Rollback, Ingress!Finished, IngressFacts!Finished, Ingress!Received,
         IngressFacts!Received, Ingress!Claimable, IngressFacts!Claimable, Ingress!Holds,
         IngressFacts!Holds, Ingress!Goto, IngressFacts!Goto, Ingress!Leave,
         IngressFacts!Leave, Ingress!Failed, IngressFacts!Failed, Ingress!Redrivable,
         IngressFacts!Redrivable, Ingress!Stored, IngressFacts!Stored, Ingress!Idle,
         IngressFacts!Idle, Ingress!Absent, IngressFacts!Absent

\* ... and of the same properties.
LEMMA SameIngressProperties ==
  /\ Ingress!InboxAssumption <=> IngressFacts!InboxAssumption
  /\ Ingress!Init <=> IngressFacts!Init
  /\ Ingress!TypeOK <=> IngressFacts!TypeOK
  /\ Ingress!AcceptedIsStored <=> IngressFacts!AcceptedIsStored
  /\ Ingress!EffectsOnce <=> IngressFacts!EffectsOnce
  /\ Ingress!LeaseRespectedStep <=> IngressFacts!LeaseRespectedStep
  /\ Ingress!RoutingIsFixedStep <=> IngressFacts!RoutingIsFixedStep
  BY DEF Ingress!InboxAssumption, IngressFacts!InboxAssumption, Ingress!Init,
         IngressFacts!Init, Ingress!TypeOK, IngressFacts!TypeOK, Ingress!AcceptedIsStored,
         IngressFacts!AcceptedIsStored, Ingress!EffectsOnce, IngressFacts!EffectsOnce,
         Ingress!LeaseRespectedStep, IngressFacts!LeaseRespectedStep,
         Ingress!RoutingIsFixedStep, IngressFacts!RoutingIsFixedStep, Ingress!Stored,
         IngressFacts!Stored, Ingress!Row, IngressFacts!Row, Ingress!Absent,
         IngressFacts!Absent, Ingress!Statuses, IngressFacts!Statuses, Ingress!Request,
         IngressFacts!Request, Ingress!Worker, IngressFacts!Worker, Ingress!Idle,
         IngressFacts!Idle

\* The invariant of the inbox, while the part runs.
LEMMA IngressInvariance == Spec => [](part = "ingress" => IngressFacts!IInv)
  <1> DEFINE Inv == part = "ingress" => IngressFacts!IInv
  <1>0. IngressFacts!InboxAssumption
    BY WebhookAssumption, SameIngressProperties
  <1>1. Init => Inv
    BY <1>0, SameIngressProperties, IngressFacts!InitIInv DEF Init
  <1>2. Inv /\ [Next]_vars => Inv'
    <2> SUFFICES ASSUME part = "ingress", part' = "ingress", IngressFacts!IInv, [Next]_vars
                 PROVE  IngressFacts!IInv'
      BY DEF Next, Only, vars
    <2>1. [IngressFacts!Next]_(IngressFacts!vars)
      BY SameIngressNext DEF Next, Only, vars, IngressFacts!vars
    <2> QED
      BY <1>0, <2>1, IngressFacts!NextIInv
  <1> QED
    BY <1>1, <1>2, PTL DEF Spec

-----------------------------------------------------------------------------
(* The part lease.                                                          *)

LeaseFacts == INSTANCE WebhookInboxProofs WITH
  Keys <- Events["lease"], Batches <- Postings["lease"], AssetOf <- Routing["lease"],
  Requests <- Intakes["lease"], Workers <- Claimers["lease"], MaxClaims <- Leases["lease"]

\* The theorems speak of the same initial states and steps ...
LEMMA SameLeaseNext == Lease!Next <=> LeaseFacts!Next
  BY DEF Lease!Next, LeaseFacts!Next, Lease!Post, LeaseFacts!Post, Lease!IngressStep,
         LeaseFacts!IngressStep, Lease!LookupFinds, LeaseFacts!LookupFinds,
         Lease!LookupMisses, LeaseFacts!LookupMisses, Lease!Insert, LeaseFacts!Insert,
         Lease!InsertCollides, LeaseFacts!InsertCollides, Lease!DeadlockVictim,
         LeaseFacts!DeadlockVictim, Lease!Accept, LeaseFacts!Accept, Lease!RequestLost,
         LeaseFacts!RequestLost, Lease!Claim, LeaseFacts!Claim, Lease!EffectBegin,
         LeaseFacts!EffectBegin, Lease!Complete, LeaseFacts!Complete, Lease!CompleteRefused,
         LeaseFacts!CompleteRefused, Lease!EffectRaises, LeaseFacts!EffectRaises,
         Lease!Fail, LeaseFacts!Fail, Lease!WorkerLost, LeaseFacts!WorkerLost,
         Lease!LeaseExpires, LeaseFacts!LeaseExpires, Lease!BackoffEnds,
         LeaseFacts!BackoffEnds, Lease!Redrive, LeaseFacts!Redrive, Lease!AssetChanges,
         LeaseFacts!AssetChanges, Lease!inboxSame, LeaseFacts!inboxSame, Lease!ingressSame,
         LeaseFacts!ingressSame, Lease!Current, LeaseFacts!Current, Lease!Reading,
         LeaseFacts!Reading, Lease!Next1, LeaseFacts!Next1, Lease!Seen, LeaseFacts!Seen,
         Lease!Awaits, LeaseFacts!Awaits, Lease!Insertable, LeaseFacts!Insertable,
         Lease!Rollback, LeaseFacts!Rollback, Lease!Finished, LeaseFacts!Finished,
         Lease!Received, LeaseFacts!Received, Lease!Claimable, LeaseFacts!Claimable,
         Lease!Holds, LeaseFacts!Holds, Lease!Goto, LeaseFacts!Goto, Lease!Leave,
         LeaseFacts!Leave, Lease!Failed, LeaseFacts!Failed, Lease!Redrivable,
         LeaseFacts!Redrivable, Lease!Stored, LeaseFacts!Stored, Lease!Idle,
         LeaseFacts!Idle, Lease!Absent, LeaseFacts!Absent

\* ... and of the same properties.
LEMMA SameLeaseProperties ==
  /\ Lease!InboxAssumption <=> LeaseFacts!InboxAssumption
  /\ Lease!Init <=> LeaseFacts!Init
  /\ Lease!TypeOK <=> LeaseFacts!TypeOK
  /\ Lease!AcceptedIsStored <=> LeaseFacts!AcceptedIsStored
  /\ Lease!EffectsOnce <=> LeaseFacts!EffectsOnce
  /\ Lease!LeaseRespectedStep <=> LeaseFacts!LeaseRespectedStep
  /\ Lease!RoutingIsFixedStep <=> LeaseFacts!RoutingIsFixedStep
  BY DEF Lease!InboxAssumption, LeaseFacts!InboxAssumption, Lease!Init, LeaseFacts!Init,
         Lease!TypeOK, LeaseFacts!TypeOK, Lease!AcceptedIsStored,
         LeaseFacts!AcceptedIsStored, Lease!EffectsOnce, LeaseFacts!EffectsOnce,
         Lease!LeaseRespectedStep, LeaseFacts!LeaseRespectedStep, Lease!RoutingIsFixedStep,
         LeaseFacts!RoutingIsFixedStep, Lease!Stored, LeaseFacts!Stored, Lease!Row,
         LeaseFacts!Row, Lease!Absent, LeaseFacts!Absent, Lease!Statuses,
         LeaseFacts!Statuses, Lease!Request, LeaseFacts!Request, Lease!Worker,
         LeaseFacts!Worker, Lease!Idle, LeaseFacts!Idle

\* The invariant of the inbox, while the part runs.
LEMMA LeaseInvariance == Spec => [](part = "lease" => LeaseFacts!IInv)
  <1> DEFINE Inv == part = "lease" => LeaseFacts!IInv
  <1>0. LeaseFacts!InboxAssumption
    BY WebhookAssumption, SameLeaseProperties
  <1>1. Init => Inv
    BY <1>0, SameLeaseProperties, LeaseFacts!InitIInv DEF Init
  <1>2. Inv /\ [Next]_vars => Inv'
    <2> SUFFICES ASSUME part = "lease", part' = "lease", LeaseFacts!IInv, [Next]_vars
                 PROVE  LeaseFacts!IInv'
      BY DEF Next, Only, vars
    <2>1. [LeaseFacts!Next]_(LeaseFacts!vars)
      BY SameLeaseNext DEF Next, Only, vars, LeaseFacts!vars
    <2> QED
      BY <1>0, <2>1, LeaseFacts!NextIInv
  <1> QED
    BY <1>1, <1>2, PTL DEF Spec

-----------------------------------------------------------------------------
(* Theorems.                                                               *)

\* receive_meta_webhook: a batch answered with 200 has all its events in the inbox,
\* whatever other requests insert, wait for or roll back meanwhile.
THEOREM IngressIsSafe ==
  Spec => [](part = "ingress" => Ingress!TypeOK /\ Ingress!AcceptedIsStored)
  <1>1. (part = "ingress" => IngressFacts!IInv)
          => (part = "ingress" => Ingress!TypeOK /\ Ingress!AcceptedIsStored)
    BY SameIngressProperties DEF IngressFacts!IInv
  <1> QED
    BY <1>1, IngressInvariance, PTL

\* complete_webhook_event: the effects of an event are committed when it becomes processed
\* and never again, however many workers lost their lease of it.
THEOREM EffectsHappenOnce == Spec => []EffectsOnce
  <1>1. (part = "lease" => LeaseFacts!IInv) => EffectsOnce
    BY SameLeaseProperties DEF LeaseFacts!IInv, EffectsOnce
  <1> QED
    BY <1>1, LeaseInvariance, PTL

\* complete_webhook_event and fail_webhook_event compare the lease token: only the worker
\* whose token the row carries takes it out of processing, and a stored event keeps its
\* tenant.
THEOREM LeasesAreRespected == Spec => LeaseRespected
  <1>1. (part = "lease" => LeaseFacts!IInv) /\ [Next]_vars =>
          [part = "lease" => Lease!LeaseRespectedStep /\ Lease!RoutingIsFixedStep]_vars
    <2> SUFFICES ASSUME part = "lease", LeaseFacts!IInv, Next
                 PROVE  Lease!LeaseRespectedStep /\ Lease!RoutingIsFixedStep
      OBVIOUS
    <2>1. LeaseFacts!Next /\ LeaseFacts!InboxAssumption
      BY SameLeaseNext, SameLeaseProperties, WebhookAssumption DEF Next, Only
    <2>2. [LeaseFacts!LeaseRespectedStep /\ LeaseFacts!RoutingIsFixedStep]_(LeaseFacts!vars)
      BY <2>1, LeaseFacts!StepsRespect
    <2>3. UNCHANGED LeaseFacts!vars =>
            Lease!LeaseRespectedStep /\ Lease!RoutingIsFixedStep
      BY DEF LeaseFacts!vars, Lease!LeaseRespectedStep, Lease!RoutingIsFixedStep
    <2> QED
      BY <2>2, <2>3, SameLeaseProperties
  <1> QED
    BY <1>1, LeaseInvariance, PTL DEF Spec, LeaseRespected
=============================================================================
