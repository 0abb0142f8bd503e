------------------------------ MODULE CrmStore ------------------------------
(***************************************************************************)
(* The rows one tenant's conversations live in, and the PostgreSQL row     *)
(* locks the services take on them (SELECT ... FOR UPDATE).                *)
(*                                                                         *)
(* Every service function runs inside the transaction of its caller and    *)
(* only flushes, so its writes become visible when the caller commits      *)
(* (session_scope).  A transaction is one entry of tx: the step it is at   *)
(* (op) and what it has read.  Writes reach the tables in the step that    *)
(* commits; a rolled back transaction leaves behind only what the outside  *)
(* world saw.  A transaction whose first lock is taken by another one has  *)
(* not begun: it holds nothing and has read nothing.                       *)
(***************************************************************************)
EXTENDS Naturals, Sequences, FiniteSets

CONSTANTS
  Conversations, Messages, Triggers, Rules,
  InboundIds,         \* provider ids of inbound messages
  Users, Agents,      \* Agents: the users whose role is agente_comercial
  Unsupported,        \* conversations whose channel has no send adapter
  Keys,               \* Idempotency-Key headers
  Tx,                 \* database sessions: HTTP requests and workers
  NoOne,              \* SQL NULL
  MaxVersion,         \* bound on conversations.control_version
  MaxRuleVersion,     \* bound on automation_rules.version
  MaxLost,            \* a message that lost more sends is not claimed again
  MaxResends          \* bound on acknowledged resends of one message

ASSUME StoreAssumption ==
  /\ Agents \subseteq Users
  /\ Unsupported \subseteq Conversations
  /\ NoOne \notin Users \cup Messages \cup Triggers \cup Conversations
  /\ NoOne \notin Keys \cup InboundIds \cup Tx
  /\ {MaxVersion, MaxRuleVersion, MaxLost, MaxResends} \subseteq Nat

VARIABLES
  conv,       \* table conversations
  msg,        \* table messages, each with its message_send_attempts
  transfer,   \* table conversation_transfers, by trigger_id
  rule,       \* table automation_rules (the unanswered-conversation rules)
  timers,     \* table conversation_timers
  inbound,    \* provider_message_ids of the inbound rows of messages
  tasks,      \* open and closed off-hours tasks per conversation
  outbox,     \* the timers whose domain event is in outbox_events, in order
  kpi,        \* number of kpi_events per conversation
  lock,       \* row -> the transaction that holds its lock, or NoOne
  tx,         \* the transactions
  copies,     \* external: how often the provider accepted each message
  lost,       \* history: accepted sends whose transaction was rolled back
  acked,      \* history: resends authorised with the duplicate risk
  windows,    \* history: response windows opened per conversation
  last        \* history: direction of the last activity per conversation

timing  == <<rule, timers, inbound, tasks, outbox, kpi, windows, last>>
sending == <<copies, lost, acked>>
vars    == <<conv, msg, transfer, rule, timers, inbound, tasks, outbox, kpi,
             lock, tx, copies, lost, acked, windows, last>>

-----------------------------------------------------------------------------
(* Rows.  A row that does not exist has status "absent".                   *)

AiModes  == {"active", "handoff_pending", "human"}
Statuses == {"absent", "queued", "dispatching", "sent", "delivered", "read",
             "failed", "unknown", "cancelled"}
Authors  == {"user", "ai", "automation", "system"}
Accepted == {"sent", "delivered", "read"}

\* trigger_type of an unanswered rule and of its timers
TimerKinds == {"team_unanswered", "customer_unanswered"}

\* response_window: response_window_id is not NULL
Conversation ==
  [status : {"open", "pending"}, ai_mode : AiModes, control_version : Nat,
   assigned_user_id : Users \cup {NoOne}, response_window : BOOLEAN]

\* provider_message_id: whether it is not NULL.  attempts: the outcomes of the
\* committed message_send_attempts.  receipt: unknown_resolution is
\* "verified_receipt".  composed: the control_version an AI producer read;
\* stamped: whether the producer stored it as message_metadata.control_version.
Message ==
  [status : Statuses, author_type : Authors, conversation_id : Conversations,
   composed : Nat, stamped : BOOLEAN, provider_message_id : BOOLEAN,
   attempts : Seq({"accepted", "rejected", "unknown"}), receipt : BOOLEAN,
   key : Keys \cup {NoOne}]

Transfer ==
  [status : {"absent", "pending", "accepted"},
   conversation_id : Conversations, recipient_user_id : Users \cup {NoOne}]

Rule == [exists : BOOLEAN, enabled : BOOLEAN, version : Nat,
         trigger_type : TimerKinds]

Timer ==
  [conversation_id : Conversations, rule_id : Rules, rule_version : Nat,
   trigger_type : TimerKinds, activity_version : Nat,
   status : {"pending", "fired", "cancelled"}]

NewMessage(c, author, composed, stamped, key) ==
  [status |-> "queued", author_type |-> author, conversation_id |-> c,
   composed |-> composed, stamped |-> stamped, provider_message_id |-> FALSE,
   attempts |-> <<>>, receipt |-> FALSE, key |-> key]

\* Column assignments.
WithMode(row, mode)      == [row EXCEPT !.ai_mode = mode]
WithVersionBumped(row)   == [row EXCEPT !.control_version = @ + 1]
WithAssignee(row, u)     == [row EXCEPT !.assigned_user_id = u]
WithWindow(row, open)    == [row EXCEPT !.response_window = open]
WithStatus(row, status)  == [row EXCEPT !.status = status]
WithProviderId(row, set) == [row EXCEPT !.provider_message_id = set]
WithReceipt(row)         == [row EXCEPT !.receipt = TRUE]
WithAttempt(row, result) == [row EXCEPT !.attempts = Append(@, result)]

\* create_message: insert one row into an unused slot of the table.
Insert(m, row) ==
  /\ msg[m].status = "absent"
  /\ msg' = [msg EXCEPT ![m] = row]

\* An agente_comercial may only act on conversations assigned to them.
MayControl(u, c) == u \in Agents => conv[c].assigned_user_id = u

QueuedAi(c) ==
  {m \in Messages : /\ msg[m].conversation_id = c
                    /\ msg[m].author_type = "ai"
                    /\ msg[m].status = "queued"}

-----------------------------------------------------------------------------
(* Transactions and row locks.                                             *)

\* At most one timer is pending per conversation, rule and kind.
TimerRow(x) == <<x.conversation_id, x.rule_id, x.trigger_type>>
TimerRows   == Conversations \X Rules \X TimerKinds
Rows        == Conversations \cup Messages \cup Triggers \cup TimerRows

Idle == [op |-> "idle"]

Free(r)        == lock[r] = NoOne
AllFree(rows)  == \A r \in rows : Free(r)
Lock(t, rows)  == lock' = [r \in Rows |-> IF r \in rows THEN t ELSE lock[r]]
Goto(t, work)  == tx' = [tx EXCEPT ![t] = work]

Begin(t, work, row) ==
  /\ tx[t] = Idle
  /\ Free(row)
  /\ Goto(t, work)
  /\ Lock(t, {row})

\* Commit and rollback both release every row lock of the transaction.
End(t) ==
  /\ Goto(t, Idle)
  /\ lock' = [r \in Rows |-> IF lock[r] = t THEN NoOne ELSE lock[r]]

\* The tables at the start: conversations as their first message created them,
\* rules as created, no message and no transfer yet.
FirstConversation ==
  [status : {"open"}, ai_mode : {"active"}, control_version : {0},
   assigned_user_id : Users \cup {NoOne}, response_window : {FALSE}]
NoMessage  == {WithStatus(NewMessage(c, "system", 0, FALSE, NoOne), "absent") :
                 c \in Conversations}
NoTransfer == [status : {"absent"}, conversation_id : Conversations,
               recipient_user_id : {NoOne}]
FirstRule  == [exists : {TRUE}, enabled : {TRUE}, version : {1},
               trigger_type : TimerKinds]

StoreInit ==
  /\ conv     \in [Conversations -> FirstConversation]
  /\ msg      \in [Messages -> NoMessage]
  /\ transfer \in [Triggers -> NoTransfer]
  /\ rule     \in [Rules -> FirstRule]
  /\ timers  = {}
  /\ inbound = {}
  /\ tasks   = [c \in Conversations |-> [open |-> 0, closed |-> 0]]
  /\ outbox  = <<>>
  /\ kpi     = [c \in Conversations |-> 0]
  /\ lock    = [r \in Rows |-> NoOne]
  /\ tx      = [t \in Tx |-> Idle]
  /\ copies  = [m \in Messages |-> 0]
  /\ lost    = [m \in Messages |-> 0]
  /\ acked   = [m \in Messages |-> 0]
  /\ windows = [c \in Conversations |-> 0]
  /\ last    = [c \in Conversations |-> "none"]
=============================================================================
