--------------------------- MODULE MessageDispatch ---------------------------
(***************************************************************************)
(* The life of an outbound message: queued by a person, the AI, an         *)
(* automation or the off-hours reply; dispatched to the provider inside a  *)
(* transaction that holds the message and its conversation; resolved by a  *)
(* person when the provider's answer is unknown; moved on by the           *)
(* provider's delivery statuses.                                           *)
(*                                                                         *)
(*   dispatch_queued_message  message -> conversation -> pending timers    *)
(*   create_send_intent       conversation -> the message with the key     *)
(*   send_outbound_message    reads the conversation, then inserts         *)
(*   resolve_unknown_message, apply_whatsapp_delivery_status: the message  *)
(***************************************************************************)
EXTENDS ConversationTimers

\* What one call to the provider comes to: the status dispatch stores, whether
\* it has a provider_message_id, and whether the provider took the message.  A
\* response without an id still counts as sent.  Any error of the adapter, its
\* own 10 s read timeout included, is stored as a rejection; only the 15 s
\* limit around the call is stored as unknown.
Outcomes ==
       [status : {"sent"}, id : BOOLEAN, taken : {TRUE}]
  \cup [status : {"failed", "unknown"}, id : {FALSE}, taken : BOOLEAN]

DispatchWork ==
       [op : {"claimed", "calling"}, m : Messages]
  \cup [op : {"answered"}, m : Messages, outcome : Outcomes]
  \cup [op : {"intent"}, c : Conversations, key : Keys \cup {NoOne},
        existing : Messages \cup {NoOne}]
  \cup [op : {"composing"}, c : Conversations, author : {"ai", "automation"},
        composed : Nat, stamped : BOOLEAN, key : Keys \cup {NoOne}]

\* What send_outbound_message may be asked to send: an automation's message,
\* keyed by its action, or an AI reply.  An action that is executed once is as
\* good as no key.  send_outbound_message stores no control_version; a caller of
\* create_message may.
Drafts ==
       [author : {"automation"}, stamped : {FALSE}, key : Keys \cup {NoOne}]
  \cup [author : {"ai"}, stamped : BOOLEAN, key : {NoOne}]

\* The messages of c with the idempotency key.
Keyed(c, key) ==
  {m \in Messages : /\ msg[m].status # "absent"
                    /\ msg[m].conversation_id = c
                    /\ key # NoOne /\ msg[m].key = key}

\* The transaction is sending m: its call may have reached the provider.
Sending(t, m) == tx[t].op \in {"calling", "answered"} /\ tx[t].m = m

ConversationOf(t) == msg[tx[t].m].conversation_id

\* Mutant: the message's status is stored in the attempt.
AttemptStatusUnmapped(status) == status

\* message_send_attempts.status for the status of the message
AttemptStatus(status) ==
  CASE status = "sent"    -> "accepted"
    [] status = "failed"  -> "rejected"
    [] status = "unknown" -> "unknown"

-----------------------------------------------------------------------------
(* dispatch_queued_message                                                 *)

\* Mutant: an unknown outcome is retried by itself.
ClaimQueuedOrUnknown(t, m) ==
  /\ msg[m].status \in {"queued", "unknown"}
  /\ lost[m] <= MaxLost
  /\ Begin(t, [op |-> "claimed", m |-> m], m)
  /\ UNCHANGED <<conv, msg, transfer, timing, sending>>

ClaimQueued(t, m) ==
  /\ msg[m].status = "queued"
  /\ lost[m] <= MaxLost
  /\ Begin(t, [op |-> "claimed", m |-> m], m)
  /\ UNCHANGED <<conv, msg, transfer, timing, sending>>

\* An AI reply must not go out once a person took over, nor one stamped with a
\* control_version that is no longer the conversation's.
Fenced(m) ==
  LET c == conv[msg[m].conversation_id] IN
  /\ msg[m].author_type = "ai"
  /\ \/ c.ai_mode # "active"
     \/ msg[m].stamped /\ msg[m].composed # c.control_version

FenceMessage(t) ==
  /\ tx[t].op = "claimed"
  /\ Free(ConversationOf(t))
  /\ Fenced(tx[t].m)
  /\ msg' = [msg EXCEPT ![tx[t].m] = WithStatus(@, "cancelled")]
  /\ End(t)
  /\ UNCHANGED <<conv, transfer, timing, sending>>

\* The asset's channel has no adapter.
FailUnsupported(t) ==
  /\ tx[t].op = "claimed"
  /\ Free(ConversationOf(t))
  /\ ~Fenced(tx[t].m)
  /\ ConversationOf(t) \in Unsupported
  /\ msg' = [msg EXCEPT ![tx[t].m] = WithStatus(@, "failed")]
  /\ End(t)
  /\ UNCHANGED <<conv, transfer, timing, sending>>

\* Mutant: the conversation is checked but not locked.
CallProviderUnlocked(t) ==
  /\ tx[t].op = "claimed"
  /\ ~Fenced(tx[t].m)
  /\ ConversationOf(t) \notin Unsupported
  /\ Goto(t, [op |-> "calling", m |-> tx[t].m])
  /\ UNCHANGED <<conv, msg, transfer, lock, timing, sending>>

\* status "dispatching" and the attempt row are flushed, not committed.
CallProvider(t) ==
  /\ tx[t].op = "claimed"
  /\ Free(ConversationOf(t))
  /\ ~Fenced(tx[t].m)
  /\ ConversationOf(t) \notin Unsupported
  /\ Goto(t, [op |-> "calling", m |-> tx[t].m])
  /\ Lock(t, {ConversationOf(t)})
  /\ UNCHANGED <<conv, msg, transfer, timing, sending>>

ProviderAnswers(t, outcome) ==
  /\ tx[t].op = "calling"
  /\ Goto(t, [op |-> "answered", m |-> tx[t].m, outcome |-> outcome])
  /\ copies' = [copies EXCEPT ![tx[t].m] = @ + IF outcome.taken THEN 1 ELSE 0]
  /\ UNCHANGED <<conv, msg, transfer, lock, timing, lost, acked>>

Recorded(m, outcome) ==
  LET row == WithAttempt(WithStatus(msg[m], outcome.status),
                         AttemptStatus(outcome.status))
  IN IF outcome.status = "sent" THEN WithProviderId(row, outcome.id) ELSE row

\* Mutants: a failed call shown as sent, one whose attempt is not finished, and
\* one recorded through a second database session, which waits for the first.
RecordFailureAsSent(t) ==
  /\ tx[t].op = "answered"
  /\ tx[t].outcome.status # "sent"
  /\ msg' = [msg EXCEPT ![tx[t].m] = WithStatus(@, "sent")]
  /\ End(t)
  /\ UNCHANGED <<conv, transfer, timing, sending>>

RecordFailureWithoutAttempt(t) ==
  /\ tx[t].op = "answered"
  /\ tx[t].outcome.status # "sent"
  /\ msg' = [msg EXCEPT ![tx[t].m] = WithStatus(@, tx[t].outcome.status)]
  /\ End(t)
  /\ UNCHANGED <<conv, transfer, timing, sending>>

RecordFailureElsewhere(t) ==
  /\ tx[t].op = "answered"
  /\ tx[t].outcome.status # "sent"
  /\ Free(tx[t].m)
  /\ msg' = [msg EXCEPT ![tx[t].m] = Recorded(tx[t].m, tx[t].outcome)]
  /\ End(t)
  /\ UNCHANGED <<conv, transfer, timing, sending>>

RecordFailure(t) ==
  /\ tx[t].op = "answered"
  /\ tx[t].outcome.status # "sent"
  /\ msg' = [msg EXCEPT ![tx[t].m] = Recorded(tx[t].m, tx[t].outcome)]
  /\ End(t)
  /\ UNCHANGED <<conv, transfer, timing, sending>>

\* close_response_window: a reply by a person, the AI or an automation is
\* measured once per window; a system message does not answer the customer.
Responds(m) == msg[m].author_type # "system"

\* Mutant: every reply is measured, window or not.
ClosesAlways(m) == Responds(m)

Closes(m) == Responds(m) /\ conv[msg[m].conversation_id].response_window

\* The message is sent; the window closes and the timers turn around.  A system
\* message with a provider id violates system_message_not_dispatched: that
\* transaction can only roll back.
RecordSent(t) ==
  LET m == tx[t].m
      c == ConversationOf(t)
      closes == Closes(m)
      kind   == "customer_unanswered"
  IN
  /\ tx[t].op = "answered"
  /\ tx[t].outcome.status = "sent"
  /\ ~(msg[m].author_type = "system" /\ tx[t].outcome.id)
  /\ AllFree({TimerRow(x) : x \in Pending(c, "team_unanswered")})
  /\ Responds(m) => AllFree(TimerLocks(c, "team_unanswered", kind))
  /\ msg'    = [msg EXCEPT ![m] = Recorded(m, tx[t].outcome)]
  /\ conv'   = [conv EXCEPT ![c] = WithWindow(@, @.response_window /\ ~closes)]
  /\ kpi'    = [kpi EXCEPT ![c] = @ + IF closes THEN 1 ELSE 0]
  /\ timers' = CancelTimers(c, "team_unanswered")
                 \cup IF Responds(m) THEN NewTimers(c, kind) ELSE {}
  /\ last'   = [last EXCEPT ![c] = "outbound"]
  /\ End(t)
  /\ UNCHANGED <<transfer, rule, inbound, tasks, outbox, windows, sending>>

-----------------------------------------------------------------------------
(* Producers.                                                              *)

\* Mutant: the key is looked up without locking the conversation.
SendIntentBeginUnlocked(t, u, c, key) ==
  /\ MayControl(u, c)
  /\ tx[t] = Idle
  /\ \E existing \in Messages \cup {NoOne} :
       /\ IF Keyed(c, key) = {} THEN existing = NoOne
                               ELSE existing \in Keyed(c, key)
       /\ Goto(t, [op |-> "intent", c |-> c, key |-> key, existing |-> existing])
  /\ UNCHANGED <<conv, msg, transfer, lock, timing, sending>>

\* POST /conversations/{id}/messages: lock, authorise, look the key up.
SendIntentBegin(t, u, c, key) ==
  /\ MayControl(u, c)
  /\ \E existing \in Messages \cup {NoOne} :
       /\ IF Keyed(c, key) = {} THEN existing = NoOne
                               ELSE existing \in Keyed(c, key)
       /\ Begin(t, [op |-> "intent", c |-> c, key |-> key,
                    existing |-> existing], c)
  /\ UNCHANGED <<conv, msg, transfer, timing, sending>>

SendIntentInsert(t, m) ==
  /\ tx[t].op = "intent"
  /\ tx[t].existing = NoOne
  /\ Keyed(tx[t].c, tx[t].key) = {}  \* uq_messages_client_idempotency
  /\ Insert(m, NewMessage(tx[t].c, "user", 0, FALSE, tx[t].key))
  /\ End(t)
  /\ UNCHANGED <<conv, transfer, timing, sending>>

\* The stored message is returned, or a conflict if the bodies differ.
SendIntentReplay(t) ==
  /\ tx[t].op = "intent"
  /\ tx[t].existing # NoOne
  /\ Free(tx[t].existing)
  /\ End(t)
  /\ UNCHANGED <<conv, msg, transfer, timing, sending>>

\* send_outbound_message reads the conversation without locking it.
ComposeBegin(t, c, draft) ==
  /\ tx[t] = Idle
  /\ Goto(t, [op |-> "composing", c |-> c, author |-> draft.author,
              composed |-> IF draft.author = "ai" THEN conv[c].control_version
                             ELSE 0,
              stamped |-> draft.stamped, key |-> draft.key])
  /\ UNCHANGED <<conv, msg, transfer, lock, timing, sending>>

\* The foreign key makes the insert wait for a locked conversation.
ComposeInsert(t, m) ==
  /\ tx[t].op = "composing"
  /\ Free(tx[t].c)
  /\ Keyed(tx[t].c, tx[t].key) = {}  \* uq_messages_client_idempotency
  /\ Insert(m, NewMessage(tx[t].c, tx[t].author, tx[t].composed, tx[t].stamped,
                          tx[t].key))
  /\ End(t)
  /\ UNCHANGED <<conv, transfer, timing, sending>>

-----------------------------------------------------------------------------
(* After the call.                                                         *)

\* POST /messages/{id}/resolve-unknown with a receipt, or with resend and the
\* duplicate risk acknowledged.
ResolveWithReceipt(u, m) ==
  /\ msg[m].status = "unknown"
  /\ Free(m)
  /\ MayControl(u, msg[m].conversation_id)
  /\ msg[m].author_type # "system"   \* system_message_not_dispatched
  /\ msg' = [msg EXCEPT ![m] =
                 WithReceipt(WithProviderId(WithStatus(@, "sent"), TRUE))]
  /\ UNCHANGED <<conv, transfer, lock, tx, timing, sending>>

\* Mutant: any message can be resent.
ResolveAnyWithResend(u, m) ==
  /\ acked[m] < MaxResends
  /\ Free(m)
  /\ MayControl(u, msg[m].conversation_id)
  /\ msg'   = [msg EXCEPT ![m] = WithStatus(@, "queued")]
  /\ acked' = [acked EXCEPT ![m] = @ + 1]
  /\ UNCHANGED <<conv, transfer, lock, tx, timing, copies, lost>>

ResolveWithResend(u, m) ==
  /\ msg[m].status = "unknown"
  /\ acked[m] < MaxResends
  /\ Free(m)
  /\ MayControl(u, msg[m].conversation_id)
  /\ msg'   = [msg EXCEPT ![m] = WithStatus(@, "queued")]
  /\ acked' = [acked EXCEPT ![m] = @ + 1]
  /\ UNCHANGED <<conv, transfer, lock, tx, timing, copies, lost>>

StatusOrder(status) ==
  CASE status = "dispatching" -> 1 [] status = "sent" -> 2
    [] status = "delivered" -> 3   [] status = "read" -> 4
    [] OTHER -> 0

\* A late status never moves the message back, except to "failed".
ApplyDeliveryStatus(m, status) ==
  /\ msg[m].provider_message_id
  /\ Free(m)
  /\ status = "failed" \/ StatusOrder(status) >= StatusOrder(msg[m].status)
  /\ msg' = [msg EXCEPT ![m] = WithStatus(@, status)]
  /\ UNCHANGED <<conv, transfer, lock, tx, timing, sending>>

DispatchNext ==
  \/ \E t \in Tx :
       \/ \E m \in Messages : ClaimQueued(t, m)
       \/ FenceMessage(t)
       \/ FailUnsupported(t)
       \/ CallProvider(t)
       \/ \E outcome \in Outcomes : ProviderAnswers(t, outcome)
       \/ RecordFailure(t)
       \/ RecordSent(t)
       \/ \E u \in Users, c \in Conversations, key \in Keys \cup {NoOne} :
            SendIntentBegin(t, u, c, key)
       \/ \E m \in Messages : SendIntentInsert(t, m)
       \/ SendIntentReplay(t)
       \/ \E c \in Conversations, draft \in Drafts : ComposeBegin(t, c, draft)
       \/ \E m \in Messages : ComposeInsert(t, m)
  \/ \E u \in Users, m \in Messages :
       ResolveWithReceipt(u, m) \/ ResolveWithResend(u, m)
  \/ \E m \in Messages, status \in {"sent", "delivered", "read", "failed"} :
       ApplyDeliveryStatus(m, status)
=============================================================================
