------------------------------ MODULE Messaging ------------------------------
(***************************************************************************)
(* The messaging core of one tenant: conversation control, outbound        *)
(* dispatch, inbound routing and timers over the same rows, with           *)
(* transactions that fail at any point.                                    *)
(***************************************************************************)
EXTENDS ConversationControl, MessageDispatch

Work == {Idle} \cup ControlWork \cup TimerWork \cup DispatchWork

\* A transaction ends without committing: an exception, a crash, a lost
\* connection, a violated constraint, a refused authorisation, or PostgreSQL
\* choosing it as the victim of a deadlock.  What the provider took stays taken.
Rollback(t) ==
  /\ tx[t] # Idle
  /\ lost' = [m \in Messages |-> lost[m] +
       IF tx[t].op = "answered" /\ tx[t].m = m /\ tx[t].outcome.taken
         THEN 1 ELSE 0]
  /\ End(t)
  /\ UNCHANGED <<conv, msg, transfer, timing, copies, acked>>

Init == StoreInit

Next == ControlNext \/ TimersNext \/ DispatchNext \/ \E t \in Tx : Rollback(t)

Spec == Init /\ [][Next]_vars

-----------------------------------------------------------------------------
(* Waiting.  PostgreSQL grants a row lock to the transactions queued for   *)
(* it in turn, and aborts a member of every cycle of waiting transactions. *)

\* The rows a transaction must lock in its next step.
Wanted(t) ==
  CASE tx[t].op \in {"human", "handoff"} -> tx[t].targets
    [] tx[t].op = "takeover"  -> PendingTransfers(tx[t].c)
    [] tx[t].op = "accept"    -> {transfer[tx[t].g].conversation_id}
    [] tx[t].op = "claimed"   -> {ConversationOf(t)}
    [] tx[t].op = "intent"    -> {tx[t].existing} \ {NoOne}
    [] tx[t].op = "composing" -> {tx[t].c}
    [] tx[t].op = "firing"    -> {tx[t].timer.conversation_id}
    [] tx[t].op = "routing"   ->
         TimerLocks(tx[t].c, "customer_unanswered", "team_unanswered")
    [] tx[t].op = "answered"  ->
         IF tx[t].outcome.status # "sent" THEN {}
           ELSE TimerLocks(ConversationOf(t), "team_unanswered",
                           "customer_unanswered")
    [] OTHER -> {}

WaitsFor(t, u) == \E r \in Wanted(t) : lock[r] = u

Stuck(S) == \A t \in S : \E u \in S : WaitsFor(t, u)

\* S is one cycle: everybody in it waits for somebody in it, and no part of it
\* does.
Cycle(S) == /\ S # {} /\ Stuck(S)
            /\ \A R \in SUBSET S : R \notin {{}, S} => ~Stuck(R)

DeadlockVictim(t) ==
  /\ \E S \in SUBSET Tx : t \in S /\ Cycle(S)
  /\ Rollback(t)

\* The constraint or the authorisation that the next step of t would break.
Refused(t) ==
  \/ /\ tx[t].op = "answered"
     /\ tx[t].outcome.id /\ msg[tx[t].m].author_type = "system"
  \/ /\ tx[t].op = "handoff" /\ transfer[tx[t].g].status # "absent"
  \/ /\ tx[t].op = "routing" /\ tx[t].id \in inbound
  \/ /\ tx[t].op = "accept"
     /\ LET c == transfer[tx[t].g].conversation_id IN
          tx[t].user \in Agents
            /\ conv[c].assigned_user_id \notin {NoOne, tx[t].user}
  \/ /\ tx[t].op \in {"composing", "intent"}
     /\ \/ \A m \in Messages : msg[m].status # "absent"  \* bound: no slot left
        \/ Keyed(tx[t].c, tx[t].key) # {}

\* The steps a transaction takes once it has begun.
Proceed(t) ==
  \/ SetModeHuman(t) \/ TakeoverFence(t) \/ TakeoverWithoutTransfer(t)
  \/ \E g \in Triggers : TakeoverWithTransfer(t, g)
  \/ Handoff(t) \/ AcceptHandoff(t)
  \/ RouteInbound(t) \/ RouteInboundOffHours(t) \/ FireTimer(t)
  \/ FenceMessage(t) \/ FailUnsupported(t) \/ CallProvider(t)
  \/ \E outcome \in Outcomes : ProviderAnswers(t, outcome)
  \/ RecordFailure(t) \/ RecordSent(t)
  \/ \E m \in Messages : SendIntentInsert(t, m) \/ ComposeInsert(t, m)
  \/ SendIntentReplay(t)
  \/ Refused(t) /\ Rollback(t)

\* The lock queue is strongly fair, deadlock detection weakly; dispatch waits
\* at most 15 s for the provider.
Fairness ==
  /\ \A t \in Tx : SF_vars(Proceed(t))
  /\ WF_vars(\E t \in Tx : DeadlockVictim(t))

FairSpec == Spec /\ Fairness

-----------------------------------------------------------------------------
(* Properties.                                                             *)

\* Every row and every transaction has the shape the schema gives it.
TypeOK ==
  /\ conv \in [Conversations -> Conversation]
  /\ msg \in [Messages -> Message]
  /\ transfer \in [Triggers -> Transfer]
  /\ rule \in [Rules -> Rule]
  /\ timers \subseteq Timer
  /\ inbound \subseteq InboundIds
  /\ tasks \in [Conversations -> [open : Nat, closed : Nat]]
  /\ outbox \in Seq(Timer)
  /\ kpi \in [Conversations -> Nat]
  /\ lock \in [Rows -> Tx \cup {NoOne}]
  /\ tx \in [Tx -> Work]
  /\ copies \in [Messages -> Nat]
  /\ lost \in [Messages -> Nat]
  /\ acked \in [Messages -> Nat]
  /\ windows \in [Conversations -> Nat]
  /\ last \in [Conversations -> {"none", "inbound", "outbound"}]

\* The rows a transaction has locked by the time it reaches a step.
Holding(t) ==
  CASE tx[t].op \in {"human", "handoff", "intent", "routing"} -> {tx[t].c}
    [] tx[t].op = "takeover" -> {tx[t].c} \cup tx[t].targets
    [] tx[t].op = "accept"   -> {tx[t].g}
    [] tx[t].op = "firing"   -> {TimerRow(tx[t].timer)}
    [] tx[t].op = "claimed"  -> {tx[t].m}
    [] tx[t].op \in {"calling", "answered"} -> {tx[t].m, ConversationOf(t)}
    [] OTHER -> {}

\* No interleaving of commits, rollbacks and waits robs a transaction of a row
\* it locked, and the message a dispatcher claimed is still queued.
ClaimsHeld ==
  \A t \in Tx :
    /\ \A r \in Holding(t) : lock[r] = t
    /\ tx[t].op \in {"claimed", "calling", "answered"} =>
         msg[tx[t].m].status = "queued"

\* The control fence of dispatch_queued_message: as long as the call that sends
\* an AI reply is under way, the conversation is in AI mode, and a reply that
\* carries a control_version carries the conversation's.
AiCallFenced ==
  \A t \in Tx, m \in Messages :
    Sending(t, m) /\ msg[m].author_type = "ai" =>
      LET c == conv[msg[m].conversation_id] IN
        c.ai_mode = "active" /\ (msg[m].stamped => msg[m].composed = c.control_version)

\* The provider took m in a call whose outcome is not committed yet.
TakenInFlight(m) ==
  \E t \in Tx : tx[t].op = "answered" /\ tx[t].m = m /\ tx[t].outcome.taken

\* A customer gets a second copy only for a reason on record: a person
\* acknowledged the duplicate risk, or a send was rolled back after the
\* provider took it.  A message that is queued or was cancelled has reached
\* nobody otherwise.
CopiesExplained ==
  \A m \in Messages :
    LET excused == lost[m] + acked[m] IN
      copies[m] <= excused +
        IF msg[m].status \in {"absent", "queued", "cancelled"} /\ ~TakenInFlight(m)
          THEN 0 ELSE 1

\* A message shown as sent, delivered or read was taken by the provider, unless
\* a person vouched for it with a receipt.
SentWasTaken ==
  \A m \in Messages :
    msg[m].status \in Accepted /\ ~msg[m].receipt => copies[m] > 0

\* The message an operator finds unknown, and may resend, is one whose last
\* committed attempt timed out, and it has no provider id by which a delivery
\* status could still settle it.
UnknownIsOpen ==
  \A m \in Messages : msg[m].status = "unknown" =>
    /\ msg[m].attempts # <<>>
    /\ msg[m].attempts[Len(msg[m].attempts)] = "unknown"
    /\ ~msg[m].provider_message_id

\* Cancelling is final: no dispatch, resolution or delivery status revives a
\* message that the fence or a takeover cancelled, nor does it reach anyone.
CancelledIsFinal ==
  [][\A m \in Messages : msg[m].status = "cancelled" =>
       msg'[m].status = "cancelled" /\ copies'[m] = copies[m]]_vars

\* How far the call that sends m has come.
SendPhase(m) ==
  IF \E t \in Tx : tx[t].op = "calling" /\ tx[t].m = m THEN "calling"
  ELSE IF TakenInFlight(m) THEN "taken"
  ELSE IF \E t \in Tx : tx[t].op = "answered" /\ tx[t].m = m THEN "refused"
  ELSE "rest"

Lifecycle == INSTANCE MessageLifecycle WITH
  status  <- [m \in Messages |-> msg[m].status],
  phase   <- [m \in Messages |-> SendPhase(m)],
  copies  <- copies,
  excused <- [m \in Messages |-> lost[m] + acked[m]],
  known   <- {m \in Messages : msg[m].provider_message_id},
  vouched <- {m \in Messages : msg[m].receipt}

\* Locks, fences, rollbacks and concurrent requests together implement the
\* lifecycle that MessageLifecycle promises for each message.
ImplementsLifecycle == Lifecycle!Spec

\* However handoffs, acceptances and takeovers interleave, a conversation
\* waits for at most one acceptance: the lookup of handoff under the
\* conversation's lock suffices, and the partial unique index on pending
\* transfers never has to refuse a handoff.
OnePendingTransfer ==
  \A c \in Conversations : \A g, h \in PendingTransfers(c) : g = h

\* What create_send_intent found out about the Idempotency-Key stays true until
\* it inserts, whatever retries and automations run together: a retry is
\* answered with the stored message and never fails on the unique index.
RetryIsAnswered ==
  \A t \in Tx : tx[t].op = "intent" /\ tx[t].existing = NoOne =>
    Keyed(tx[t].c, tx[t].key) = {}

\* Every response window is measured once: it is open, or one kpi_event closed
\* it.
WindowsMeasured ==
  \A c \in Conversations :
    kpi[c] + (IF conv[c].response_window THEN 1 ELSE 0) = windows[c]

\* A pending timer waits for the silence there is: team_unanswered after the
\* customer's message, customer_unanswered after an accepted reply, and only
\* one per rule.
TimersMatchActivity ==
  \A x \in timers : x.status = "pending" =>
    /\ last[x.conversation_id] =
         IF x.trigger_type = "team_unanswered" THEN "inbound" ELSE "outbound"
    /\ \A y \in timers :
         y.status = "pending" /\ TimerRow(x) = TimerRow(y) => x = y

\* Two workers and any number of rollbacks publish one event per timer, and
\* none for a conversation that was answered before the event commits.
SilenceReportedOnce ==
  [][outbox' # outbox =>
       LET x == outbox'[Len(outbox')] IN
         /\ \A i \in 1..Len(outbox) : outbox[i] # x
         /\ last[x.conversation_id] =
              IF x.trigger_type = "team_unanswered" THEN "inbound" ELSE "outbound"]_vars

\* Locks are taken in opposite orders (message then conversation by dispatch,
\* conversation then message by a takeover), yet every transaction ends.
TransactionsEnd == \A t \in Tx : tx[t] # Idle ~> tx[t] = Idle

-----------------------------------------------------------------------------
(* What the documentation says and the code does not do.                   *)

\* models/crm.py: system_message_not_dispatched.
SystemNotDispatched ==
  \A m \in Messages : msg[m].author_type = "system" => copies[m] = 0

\* README: "una toma humana invalida una respuesta aun no enviada": a reply that
\* was composed before a takeover and is still queued when a person holds the
\* conversation is never sent afterwards.
TakeoverInvalidatesReply ==
  \A m \in Messages :
    []( (/\ msg[m].status = "queued" /\ msg[m].author_type = "ai"
         /\ conv[msg[m].conversation_id].ai_mode = "human"
         /\ msg[m].composed < conv[msg[m].conversation_id].control_version)
        => [](\A t \in Tx : ~Sending(t, m)) )
=============================================================================
