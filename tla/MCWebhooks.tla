----------------------------- MODULE MCWebhooks -----------------------------
(***************************************************************************)
(* Instances of WebhookInbox for TLC: two requests that store the same     *)
(* events in opposite orders, and two workers over one stored event.  Part *)
(* names the instance a behaviour belongs to.                              *)
(***************************************************************************)
EXTENDS Naturals, TLC

CONSTANTS
  k1, k2, a1, r1, r2, w1, w2, NoOne,
  Assets, Tenants, MaxAttempts, MaxFaults,
  Events, Postings, Routing, Intakes, Claimers, Leases

VARIABLES part, row, owner, req, work, acked, claims, faults, effects, foreign

Ingress == INSTANCE WebhookInbox WITH
  Keys <- Events["ingress"], Batches <- Postings["ingress"], AssetOf <- Routing["ingress"],
  Requests <- Intakes["ingress"], Workers <- Claimers["ingress"], MaxClaims <- Leases["ingress"]
Lease == INSTANCE WebhookInbox WITH
  Keys <- Events["lease"], Batches <- Postings["lease"], AssetOf <- Routing["lease"],
  Requests <- Intakes["lease"], Workers <- Claimers["lease"], MaxClaims <- Leases["lease"]

ASSUME WebhookAssumption == Ingress!InboxAssumption /\ Lease!InboxAssumption

vars == <<part, row, owner, req, work, acked, claims, faults, effects, foreign>>

Init == \/ part = "ingress" /\ Ingress!Init
        \/ part = "lease" /\ Lease!Init

Only(p, action) == part = p /\ action /\ part' = part

Next == Only("ingress", Ingress!Next) \/ Only("lease", Lease!Next)

Spec == Init /\ [][Next]_vars

\* The fairness of WebhookInbox, for the requests.
FairSpec ==
  /\ Spec
  /\ \A r \in Intakes["ingress"] : WF_vars(Only("ingress", Ingress!IngressStep(r)))
  /\ \A r \in Intakes["ingress"], b \in Postings["ingress"], i \in 1..2 :
       SF_vars(Only("ingress", req[r].at = "insert" /\ req[r].batch = b /\ req[r].i = i
                                 /\ Ingress!Insert(r)))
  /\ \A b \in Postings["ingress"] :
       SF_vars(Only("ingress", b \notin acked /\ \E r \in Intakes["ingress"] : Ingress!Post(r, b)))

\* The constants that differ between the parts.
EventsByPart == [ingress |-> {k1, k2}, lease |-> {k1}]
PostingsByPart == [ingress |-> {<<k1, k2>>, <<k2, k1>>}, lease |-> {<<k1>>}]
RoutingByPart == [ingress |-> [k \in {k1, k2} |-> a1], lease |-> [k \in {k1} |-> a1]]
IntakesByPart == [ingress |-> {r1, r2}, lease |-> {r1}]
ClaimersByPart == [ingress |-> {}, lease |-> {w1, w2}]
LeasesByPart == [ingress |-> 0, lease |-> 4]

-----------------------------------------------------------------------------
\* A batch answered with 200 has all its events in the inbox, and every batch
\* the provider insists on is answered with 200 in the end.
IngressSettles ==
  /\ [](part = "ingress" => Ingress!TypeOK /\ Ingress!AcceptedIsStored)
  /\ part = "ingress" => Ingress!EveryBatchAccepted

\* The effects of an event are committed exactly when it becomes processed, and
\* at most once, although leases expire while their workers are at work.
EffectsOnce == part = "lease" => Lease!TypeOK /\ Lease!EffectsOnce

\* Only the worker with the current lease takes an event out of processing; a
\* stored event keeps its tenant, and one without a tenant is left alone.
LeaseRespected ==
  [][part = "lease" => Lease!LeaseRespectedStep /\ Lease!RoutingIsFixedStep]_vars

\* The README: a worker revalidates asset, status and company before effects.
EffectsRevalidated == part = "lease" => Lease!EffectsRevalidated
=============================================================================
