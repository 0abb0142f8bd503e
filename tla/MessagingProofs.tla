--------------------------- MODULE MessagingProofs ---------------------------
(***************************************************************************)
(* Theorems about Messaging for every set of rows, users and transactions, *)
(* and the proof that it implements MessageLifecycle.                      *)
(***************************************************************************)
EXTENDS Messaging, TLAPS

-----------------------------------------------------------------------------
(* Rows and the work of a transaction.                                     *)

\* What a transaction carries, by the step it is at.
LEMMA WorkFields ==
  ASSUME NEW w \in Work
  PROVE  /\ w.op = "human" => /\ w.c \in Conversations /\ w.user \in Users
                              /\ w.targets \subseteq Messages
         /\ w.op = "takeover" => /\ w.c \in Conversations /\ w.user \in Users
                                 /\ w.targets \subseteq Messages
         /\ w.op = "handoff" => /\ w.c \in Conversations /\ w.g \in Triggers
                                /\ w.recipient \in Users \cup {NoOne}
                                /\ w.targets \subseteq Messages
         /\ w.op = "accept" => w.g \in Triggers /\ w.user \in Users
         /\ w.op = "routing" => w.c \in Conversations /\ w.id \in InboundIds
         /\ w.op = "firing" => w.timer \in Timer /\ w.live \in BOOLEAN
         /\ w.op \in {"claimed", "calling", "answered"} => w.m \in Messages
         /\ w.op = "answered" => w.outcome \in Outcomes
         /\ w.op = "intent" => /\ w.c \in Conversations
                               /\ w.key \in Keys \cup {NoOne}
                               /\ w.existing \in Messages \cup {NoOne}
         /\ w.op = "composing" => /\ w.c \in Conversations
                                  /\ w.author \in {"ai", "automation"}
                                  /\ w.composed \in Nat /\ w.stamped \in BOOLEAN
                                  /\ w.key \in Keys \cup {NoOne}
  BY DEF Work, Idle, ControlWork, TimerWork, DispatchWork

\* Column assignments keep a conversation a conversation ...
LEMMA ConversationColumns ==
  ASSUME NEW row \in Conversation
  PROVE  /\ \A mode \in AiModes : WithMode(row, mode) \in Conversation
         /\ WithVersionBumped(row) \in Conversation
         /\ \A u \in Users \cup {NoOne} : WithAssignee(row, u) \in Conversation
         /\ \A open \in BOOLEAN : WithWindow(row, open) \in Conversation
         /\ \A status \in {"open", "pending"} :
              WithStatus(row, status) \in Conversation
  <1>1. ASSUME NEW mode \in AiModes PROVE WithMode(row, mode) \in Conversation
    BY DEF WithMode, Conversation
  <1>2. WithVersionBumped(row) \in Conversation
    BY DEF WithVersionBumped, Conversation
  <1>3. ASSUME NEW u \in Users \cup {NoOne}
        PROVE  WithAssignee(row, u) \in Conversation
    BY DEF WithAssignee, Conversation
  <1>4. ASSUME NEW open \in BOOLEAN PROVE WithWindow(row, open) \in Conversation
    BY DEF WithWindow, Conversation
  <1>5. ASSUME NEW status \in {"open", "pending"}
        PROVE  WithStatus(row, status) \in Conversation
    BY DEF WithStatus, Conversation
  <1> QED
    BY <1>1, <1>2, <1>3, <1>4, <1>5

\* ... and a message a message.
LEMMA MessageColumns ==
  ASSUME NEW row \in Message
  PROVE  /\ \A status \in Statuses : WithStatus(row, status) \in Message
         /\ \A set \in BOOLEAN : WithProviderId(row, set) \in Message
         /\ WithReceipt(row) \in Message
         /\ \A result \in {"accepted", "rejected", "unknown"} :
              WithAttempt(row, result) \in Message
  <1>1. ASSUME NEW status \in Statuses PROVE WithStatus(row, status) \in Message
    BY DEF WithStatus, Message
  <1>2. ASSUME NEW set \in BOOLEAN PROVE WithProviderId(row, set) \in Message
    BY DEF WithProviderId, Message
  <1>3. WithReceipt(row) \in Message
    BY DEF WithReceipt, Message
  <1>4. ASSUME NEW result \in {"accepted", "rejected", "unknown"}
        PROVE  WithAttempt(row, result) \in Message
    BY DEF WithAttempt, Message
  <1> QED
    BY <1>1, <1>2, <1>3, <1>4

\* The row dispatch stores after the call is a message row.
LEMMA RecordedType ==
  ASSUME NEW m \in Messages, msg[m] \in Message, NEW outcome \in Outcomes
  PROVE  Recorded(m, outcome) \in Message
  <1>1. /\ outcome.status \in {"sent", "failed", "unknown"}
        /\ AttemptStatus(outcome.status) \in {"accepted", "rejected", "unknown"}
    BY DEF Outcomes, AttemptStatus
  <1>2. outcome.id \in BOOLEAN
    BY DEF Outcomes
  <1>3. WithStatus(msg[m], outcome.status) \in Message
    BY <1>1, MessageColumns DEF Statuses
  <1>4. WithAttempt(WithStatus(msg[m], outcome.status), AttemptStatus(outcome.status))
          \in Message
    BY <1>1, <1>3, MessageColumns
  <1> QED
    BY <1>2, <1>4, MessageColumns DEF Recorded

\* Accepting a transfer keeps its row well formed ...
LEMMA TransferColumns ==
  ASSUME NEW row \in Transfer
  PROVE  WithStatus(row, "accepted") \in Transfer
  BY DEF WithStatus, Transfer

\* ... and so does firing or cancelling a timer.
LEMMA TimerColumns ==
  ASSUME NEW x \in Timer, NEW status \in {"fired", "cancelled"}
  PROVE  WithStatus(x, status) \in Timer
  BY DEF WithStatus, Timer

\* create_message inserts a well-formed row.
LEMMA NewMessageType ==
  ASSUME NEW c \in Conversations, NEW author \in Authors, NEW n \in Nat,
         NEW s \in BOOLEAN, NEW k \in Keys \cup {NoOne}
  PROVE  NewMessage(c, author, n, s, k) \in Message
  <1>1. <<>> \in Seq({"accepted", "rejected", "unknown"})
    OBVIOUS
  <1> QED
    BY <1>1 DEF NewMessage, Message, Statuses

\* The tables start out well formed.
LEMMA InitTypeOK == Init => TypeOK
  <1> SUFFICES ASSUME StoreInit PROVE TypeOK
    BY DEF Init
  <1>1. conv \in [Conversations -> Conversation]
    <2>1. ASSUME NEW x \in FirstConversation PROVE x \in Conversation
      <3>1. x.response_window \in BOOLEAN
        BY Zenon DEF FirstConversation
      <3> QED
        BY <3>1, SMT DEF FirstConversation, Conversation, AiModes
    <2> QED
      BY <2>1 DEF StoreInit
  <1>2. msg \in [Messages -> Message]
    <2>1. ASSUME NEW c \in Conversations
          PROVE  WithStatus(NewMessage(c, "system", 0, FALSE, NoOne), "absent")
                   \in Message
      <3>1. NewMessage(c, "system", 0, FALSE, NoOne) \in Message
        BY NewMessageType DEF Authors
      <3> QED
        BY <3>1, MessageColumns DEF Statuses
    <2>2. NoMessage \subseteq Message
      BY <2>1 DEF NoMessage
    <2> QED
      BY <2>2 DEF StoreInit
  <1>3. transfer \in [Triggers -> Transfer] /\ rule \in [Rules -> Rule]
    <2>1. ASSUME NEW x \in NoTransfer PROVE x \in Transfer
      BY DEF NoTransfer, Transfer
    <2>2. ASSUME NEW x \in FirstRule PROVE x \in Rule
      <3>1. x.exists \in BOOLEAN /\ x.enabled \in BOOLEAN
        BY Zenon DEF FirstRule
      <3> QED
        BY <3>1, SMT DEF FirstRule, Rule
    <2> QED
      BY <2>1, <2>2 DEF StoreInit
  <1>4. tasks \in [Conversations -> [open : Nat, closed : Nat]]
    BY DEF StoreInit
  <1>5. lock \in [Rows -> Tx \cup {NoOne}] /\ tx \in [Tx -> Work]
    BY DEF StoreInit, Work
  <1>6. timers \subseteq Timer /\ inbound \subseteq InboundIds /\ outbox \in Seq(Timer)
    BY DEF StoreInit
  <1> QED
    BY <1>1, <1>2, <1>3, <1>4, <1>5, <1>6 DEF StoreInit, TypeOK

-----------------------------------------------------------------------------
(* Type correctness.                                                       *)

\* Commit and rollback keep the lock table and the transactions well formed ...
LEMMA EndType ==
  ASSUME TypeOK, NEW t \in Tx, End(t)
  PROVE  lock' \in [Rows -> Tx \cup {NoOne}] /\ tx' \in [Tx -> Work]
  BY DEF TypeOK, End, Goto, Work

\* ... as do taking locks ...
LEMMA LockType ==
  ASSUME TypeOK, NEW t \in Tx, NEW rows, Lock(t, rows)
  PROVE  lock' \in [Rows -> Tx \cup {NoOne}]
  BY DEF TypeOK, Lock

\* ... and moving on to another step.
LEMMA GotoType ==
  ASSUME TypeOK, NEW t \in Tx, NEW work \in Work, Goto(t, work)
  PROVE  tx' \in [Tx -> Work]
  BY DEF TypeOK, Goto

\* Changing the mode, the version and the assignee keeps the conversation row
\* well formed.
LEMMA ControlledType ==
  ASSUME TypeOK, NEW c \in Conversations, NEW mode \in AiModes
  PROVE  /\ Controlled(c, mode) \in Conversation
         /\ \A u \in Users \cup {NoOne} :
              /\ WithAssignee(Controlled(c, mode), u) \in Conversation
              /\ WithAssignee(WithVersionBumped(Controlled(c, mode)), u)
                   \in Conversation
  <1>1. conv[c] \in Conversation
    BY DEF TypeOK
  <1>2. WithMode(conv[c], mode) \in Conversation
    BY <1>1, ConversationColumns
  <1>3. Controlled(c, mode) \in Conversation
    BY <1>2, ConversationColumns DEF Controlled
  <1>4. WithVersionBumped(Controlled(c, mode)) \in Conversation
    BY <1>3, ConversationColumns
  <1> QED
    BY <1>3, <1>4, ConversationColumns

\* The UPDATE that cancels queued AI messages writes well-formed rows.
LEMMA CancelledType ==
  ASSUME TypeOK, NEW c, NEW targets
  PROVE  Cancelled(c, targets) \in [Messages -> Message]
  <1>1. \A m \in Messages : WithStatus(msg[m], "cancelled") \in Message
    BY MessageColumns DEF TypeOK, Statuses
  <1> QED
    BY <1>1 DEF Cancelled, TypeOK

\* The control operations keep the types ...
LEMMA ControlTypeOK == TypeOK /\ ControlNext => TypeOK'
  <1> SUFFICES ASSUME TypeOK, ControlNext PROVE TypeOK'
    OBVIOUS
  <1> USE DEF timing, sending
  <1>modes. {"active", "handoff_pending", "human"} = AiModes
    BY DEF AiModes
  <1>1. ASSUME NEW u \in Users, NEW c \in Conversations, SetModeActive(u, c)
        PROVE  TypeOK'
    <2>1. Controlled(c, "active") \in Conversation
      BY <1>modes, ControlledType
    <2> QED
      BY <1>1, <2>1 DEF SetModeActive, TypeOK
  <1>2. ASSUME NEW t \in Tx, NEW u \in Users, NEW c \in Conversations,
               NEW takeover \in BOOLEAN, SetModeHumanBegin(t, u, c, takeover)
        PROVE  TypeOK'
    <2>1. [op |-> "human", c |-> c, user |-> u, takeover |-> takeover,
           targets |-> QueuedAi(c)] \in Work
      BY DEF Work, ControlWork, QueuedAi
    <2>2. lock' \in [Rows -> Tx \cup {NoOne}] /\ tx' \in [Tx -> Work]
      BY <1>2, <2>1, LockType, GotoType DEF SetModeHumanBegin, Begin
    <2> QED
      BY <1>2, <2>2 DEF SetModeHumanBegin, TypeOK
  <1>3. ASSUME NEW t \in Tx, SetModeHuman(t)
        PROVE  TypeOK'
    <2>1. tx[t].c \in Conversations
      BY <1>3, WorkFields DEF SetModeHuman, TypeOK
    <2>2. Controlled(tx[t].c, "human") \in Conversation
      BY <2>1, <1>modes, ControlledType
    <2>3. msg' \in [Messages -> Message]
      BY <1>3, CancelledType DEF SetModeHuman
    <2>4. lock' \in [Rows -> Tx \cup {NoOne}] /\ tx' \in [Tx -> Work]
      BY <1>3, EndType DEF SetModeHuman
    <2> QED
      BY <1>3, <2>1, <2>2, <2>3, <2>4 DEF SetModeHuman, TypeOK
  <1>4. ASSUME NEW t \in Tx, TakeoverFence(t)
        PROVE  TypeOK'
    <2> DEFINE hit == tx[t].targets \cap QueuedAi(tx[t].c)
    <2>1. [op |-> "takeover", c |-> tx[t].c, user |-> tx[t].user,
           targets |-> hit] \in Work
      <3>1. tx[t].c \in Conversations /\ tx[t].user \in Users
        BY <1>4, WorkFields DEF TakeoverFence, TypeOK
      <3>2. hit \in SUBSET Messages
        BY DEF QueuedAi
      <3> QED
        BY <3>1, <3>2 DEF Work, ControlWork
    <2>2. lock' \in [Rows -> Tx \cup {NoOne}] /\ tx' \in [Tx -> Work]
      BY <1>4, <2>1, LockType, GotoType DEF TakeoverFence
    <2> QED
      BY <1>4, <2>2 DEF TakeoverFence, TypeOK
  <1>5. ASSUME NEW t \in Tx, TakeoverWithoutTransfer(t)
        PROVE  TypeOK'
    <2>1. tx[t].c \in Conversations
      BY <1>5, WorkFields DEF TakeoverWithoutTransfer, TypeOK
    <2>2. Controlled(tx[t].c, "human") \in Conversation
      BY <2>1, <1>modes, ControlledType
    <2>3. msg' \in [Messages -> Message]
      BY <1>5, CancelledType DEF TakeoverWithoutTransfer
    <2>4. lock' \in [Rows -> Tx \cup {NoOne}] /\ tx' \in [Tx -> Work]
      BY <1>5, EndType DEF TakeoverWithoutTransfer
    <2> QED
      BY <1>5, <2>1, <2>2, <2>3, <2>4 DEF TakeoverWithoutTransfer, TypeOK
  <1>6. ASSUME NEW t \in Tx, NEW g \in Triggers, TakeoverWithTransfer(t, g)
        PROVE  TypeOK'
    <2>1. tx[t].c \in Conversations /\ tx[t].user \in Users
      BY <1>6, WorkFields DEF TakeoverWithTransfer, TypeOK
    <2>2. transfer[g] \in Transfer /\ Assignee(g, tx[t].user) \in Users \cup {NoOne}
      BY <2>1 DEF Assignee, TypeOK, Transfer
    <2>3. WithAssignee(WithVersionBumped(Controlled(tx[t].c, "human")),
                       Assignee(g, tx[t].user)) \in Conversation
      BY <2>1, <2>2, <1>modes, ControlledType
    <2>4. msg' \in [Messages -> Message]
      BY <1>6, CancelledType DEF TakeoverWithTransfer
    <2>5. lock' \in [Rows -> Tx \cup {NoOne}] /\ tx' \in [Tx -> Work]
      BY <1>6, EndType DEF TakeoverWithTransfer
    <2>6. WithStatus(transfer[g], "accepted") \in Transfer
      BY <2>2, TransferColumns
    <2> QED
      BY <1>6, <2>1, <2>3, <2>4, <2>5, <2>6 DEF TakeoverWithTransfer, TypeOK
  <1>7. ASSUME NEW t \in Tx, NEW by \in Users \cup {NoOne},
               NEW recipient \in Users \cup {NoOne}, NEW c \in Conversations,
               NEW g \in Triggers, HandoffBegin(t, by, c, g, recipient)
        PROVE  TypeOK'
    <2>1. [op |-> "handoff", c |-> c, g |-> g, recipient |-> recipient,
           targets |-> QueuedAi(c)] \in Work
      BY DEF Work, ControlWork, QueuedAi
    <2>2. lock' \in [Rows -> Tx \cup {NoOne}] /\ tx' \in [Tx -> Work]
      BY <1>7, <2>1, LockType, GotoType DEF HandoffBegin, Begin
    <2> QED
      BY <1>7, <2>2 DEF HandoffBegin, TypeOK
  <1>8. ASSUME NEW t \in Tx, Handoff(t)
        PROVE  TypeOK'
    <2>1. /\ tx[t].c \in Conversations /\ tx[t].g \in Triggers
          /\ tx[t].recipient \in Users \cup {NoOne}
      BY <1>8, WorkFields DEF Handoff, TypeOK
    <2>2. Controlled(tx[t].c, "handoff_pending") \in Conversation
      BY <2>1, <1>modes, ControlledType
    <2>3. msg' \in [Messages -> Message]
      BY <1>8, CancelledType DEF Handoff
    <2>4. lock' \in [Rows -> Tx \cup {NoOne}] /\ tx' \in [Tx -> Work]
      BY <1>8, EndType DEF Handoff
    <2>5. [status |-> "pending", conversation_id |-> tx[t].c,
           recipient_user_id |-> tx[t].recipient] \in Transfer
      BY <2>1 DEF Transfer
    <2> QED
      BY <1>8, <2>1, <2>2, <2>3, <2>4, <2>5 DEF Handoff, TypeOK
  <1>9. ASSUME NEW t \in Tx, NEW u \in Users, NEW g \in Triggers,
               AcceptHandoffBegin(t, u, g)
        PROVE  TypeOK'
    <2>1. [op |-> "accept", g |-> g, user |-> u] \in Work
      BY DEF Work, ControlWork
    <2>2. lock' \in [Rows -> Tx \cup {NoOne}] /\ tx' \in [Tx -> Work]
      BY <1>9, <2>1, LockType, GotoType DEF AcceptHandoffBegin, Begin
    <2> QED
      BY <1>9, <2>2 DEF AcceptHandoffBegin, TypeOK
  <1>10. ASSUME NEW t \in Tx, AcceptHandoff(t)
         PROVE  TypeOK'
    <2> DEFINE g == tx[t].g
               c == transfer[g].conversation_id
    <2>1. g \in Triggers /\ tx[t].user \in Users
      BY <1>10, WorkFields DEF AcceptHandoff, TypeOK
    <2>2. /\ transfer[g] \in Transfer /\ c \in Conversations
          /\ Assignee(g, tx[t].user) \in Users \cup {NoOne}
      BY <2>1 DEF Assignee, TypeOK, Transfer
    <2>3. WithAssignee(Controlled(c, "human"), Assignee(g, tx[t].user))
            \in Conversation
      BY <2>2, <1>modes, ControlledType
    <2>4. lock' \in [Rows -> Tx \cup {NoOne}] /\ tx' \in [Tx -> Work]
      BY <1>10, EndType DEF AcceptHandoff
    <2>5. WithStatus(transfer[g], "accepted") \in Transfer
      BY <2>2, TransferColumns
    <2> QED
      BY <1>10, <2>1, <2>2, <2>3, <2>4, <2>5 DEF AcceptHandoff, TypeOK
  <1> QED
    BY <1>1, <1>2, <1>3, <1>4, <1>5, <1>6, <1>7, <1>8, <1>9, <1>10
       DEF ControlNext

\* Cancelling and scheduling timers only makes timer rows.
LEMMA TimerSetsType ==
  ASSUME TypeOK, NEW c \in Conversations, NEW kind \in TimerKinds
  PROVE  CancelTimers(c, kind) \subseteq Timer /\ NewTimers(c, kind) \subseteq Timer
  <1>1. CancelTimers(c, kind) \subseteq Timer
    <2>1. Pending(c, kind) \subseteq Timer
      BY DEF Pending, TypeOK
    <2>2. \A x \in Pending(c, kind) : WithStatus(x, "cancelled") \in Timer
      BY <2>1, TimerColumns
    <2> QED
      BY <2>2 DEF CancelTimers, TypeOK
  <1>2. ASSUME NEW r \in Idling(c, kind), NEW n \in Latest(c, r)
        PROVE  NewTimer(c, r, kind, n + 1) \in Timer
    <2>1. r \in Rules
      BY DEF Idling, Watching
    <2>2. n \in Nat
      BY DEF Latest, TypeOK, Timer
    <2>3. rule[r].version \in Nat
      BY <2>1 DEF TypeOK, Rule
    <2> QED
      BY <2>1, <2>2, <2>3 DEF NewTimer, Timer
  <1> QED
    BY <1>1, <1>2 DEF NewTimers

\* What both ways of routing an inbound message write.
LEMMA InboundEffectsType ==
  ASSUME TypeOK, NEW t \in Tx, InboundEffects(t)
  PROVE  /\ tx[t].c \in Conversations
         /\ inbound' \subseteq InboundIds
         /\ windows' \in [Conversations -> Nat]
         /\ timers' \subseteq Timer
         /\ last' \in [Conversations -> {"none", "inbound", "outbound"}]
         /\ lock' \in [Rows -> Tx \cup {NoOne}] /\ tx' \in [Tx -> Work]
         /\ UNCHANGED <<transfer, rule, outbox, kpi, copies, lost, acked>>
  <1> USE DEF sending
  <1>1. tx[t].c \in Conversations /\ tx[t].id \in InboundIds
    BY WorkFields DEF InboundEffects, TypeOK
  <1>2. inbound' \subseteq InboundIds
    BY <1>1 DEF InboundEffects, TypeOK
  <1>3. windows' \in [Conversations -> Nat]
    BY <1>1 DEF InboundEffects, TypeOK
  <1>4. timers' \subseteq Timer
    BY <1>1, TimerSetsType DEF InboundEffects, TimerKinds
  <1>5. last' \in [Conversations -> {"none", "inbound", "outbound"}]
    BY <1>1 DEF InboundEffects, TypeOK
  <1>6. lock' \in [Rows -> Tx \cup {NoOne}] /\ tx' \in [Tx -> Work]
    BY EndType DEF InboundEffects
  <1> QED
    BY <1>1, <1>2, <1>3, <1>4, <1>5, <1>6 DEF InboundEffects

\* ... so do inbound routing, timers, rules and tasks ...
LEMMA TimersTypeOK == TypeOK /\ TimersNext => TypeOK'
  <1> SUFFICES ASSUME TypeOK, TimersNext PROVE TypeOK'
    OBVIOUS
  <1> USE DEF timing, sending
  <1>1. ASSUME NEW t \in Tx, NEW c \in Conversations, NEW id \in InboundIds,
               RouteInboundBegin(t, c, id)
        PROVE  TypeOK'
    <2>1. [op |-> "routing", c |-> c, id |-> id] \in Work
      BY DEF Work, TimerWork
    <2>2. lock' \in [Rows -> Tx \cup {NoOne}] /\ tx' \in [Tx -> Work]
      BY <1>1, <2>1, LockType, GotoType DEF RouteInboundBegin, Begin
    <2> QED
      BY <1>1, <2>2 DEF RouteInboundBegin, TypeOK
  <1>2. ASSUME NEW t \in Tx, RouteInbound(t)
        PROVE  TypeOK'
    <2>1. InboundEffects(t)
      BY <1>2 DEF RouteInbound
    <2>2. WithWindow(conv[tx[t].c], TRUE) \in Conversation
      BY <2>1, InboundEffectsType, ConversationColumns DEF TypeOK
    <2>3. conv' \in [Conversations -> Conversation]
      BY <1>2, <2>2 DEF RouteInbound, TypeOK
    <2> QED
      BY <1>2, <2>1, <2>3, InboundEffectsType DEF RouteInbound, TypeOK
  <1>3. ASSUME NEW t \in Tx, RouteInboundOffHours(t)
        PROVE  TypeOK'
    <2> DEFINE c == tx[t].c
    <2>1. InboundEffects(t) /\ c \in Conversations
      BY <1>3, InboundEffectsType DEF RouteInboundOffHours
    <2>2. WithWindow(conv[c], TRUE) \in Conversation
      BY <2>1, ConversationColumns DEF TypeOK
    <2>3. WithStatus(WithWindow(conv[c], TRUE), "pending") \in Conversation
      BY <2>2, ConversationColumns
    <2>4. conv' \in [Conversations -> Conversation]
      BY <1>3, <2>3 DEF RouteInboundOffHours, TypeOK
    <2>5. tasks' \in [Conversations -> [open : Nat, closed : Nat]]
      BY <1>3, <2>1 DEF RouteInboundOffHours, TypeOK
    <2>6. NewMessage(c, "system", 0, FALSE, NoOne) \in Message
      BY <2>1, NewMessageType DEF Authors
    <2>7. msg' \in [Messages -> Message]
      BY <1>3, <2>6 DEF RouteInboundOffHours, Insert, TypeOK
    <2> QED
      BY <2>1, <2>4, <2>5, <2>7, InboundEffectsType DEF TypeOK
  <1>4. ASSUME NEW t \in Tx, NEW x \in timers, FireTimerBegin(t, x)
        PROVE  TypeOK'
    <2> DEFINE r == rule[x.rule_id]
               live == r.exists /\ r.enabled /\ r.version = x.rule_version
    <2>1. [op |-> "firing", timer |-> x, live |-> live] \in Work
      BY DEF Work, TimerWork, TypeOK
    <2>2. lock' \in [Rows -> Tx \cup {NoOne}] /\ tx' \in [Tx -> Work]
      BY <1>4, <2>1, LockType, GotoType DEF FireTimerBegin, Begin
    <2> QED
      BY <1>4, <2>2 DEF FireTimerBegin, TypeOK
  <1>5. ASSUME NEW t \in Tx, FireTimer(t)
        PROVE  TypeOK'
    <2> DEFINE x == tx[t].timer
    <2>1. x \in Timer
      BY <1>5, WorkFields DEF FireTimer, TypeOK
    <2>2. \A s \in {"fired", "cancelled"} : WithStatus(x, s) \in Timer
      BY <2>1, TimerColumns
    <2>3. timers' \subseteq Timer
      BY <1>5, <2>2 DEF FireTimer, TypeOK
    <2>4. outbox' \in Seq(Timer)
      BY <1>5, <2>1 DEF FireTimer, TypeOK
    <2>5. lock' \in [Rows -> Tx \cup {NoOne}] /\ tx' \in [Tx -> Work]
      BY <1>5, EndType DEF FireTimer
    <2> QED
      BY <1>5, <2>3, <2>4, <2>5 DEF FireTimer, TypeOK
  <1>6. ASSUME NEW c \in Conversations, CloseTask(c) \/ ReopenTask(c)
        PROVE  TypeOK'
    <2>1. tasks[c].open \in Nat /\ tasks[c].closed \in Nat
      BY DEF TypeOK
    <2>2. CASE CloseTask(c)
      <3>1. [open |-> tasks[c].open - 1, closed |-> tasks[c].closed + 1]
              \in [open : Nat, closed : Nat]
        BY <2>1, <2>2 DEF CloseTask
      <3> QED
        BY <2>2, <3>1 DEF CloseTask, TypeOK
    <2>3. CASE ReopenTask(c)
      <3>1. [open |-> tasks[c].open + 1, closed |-> tasks[c].closed - 1]
              \in [open : Nat, closed : Nat]
        BY <2>1, <2>3 DEF ReopenTask
      <3> QED
        BY <2>3, <3>1 DEF ReopenTask, TypeOK
    <2> QED
      BY <1>6, <2>2, <2>3
  <1>7. ASSUME NEW r \in Rules, NEW enabled \in BOOLEAN, NEW kind \in TimerKinds,
               UpdateRule(r, enabled, kind)
        PROVE  TypeOK'
    <2>1. rule[r].version + 1 \in Nat
      BY DEF TypeOK, Rule
    <2>2. [exists |-> TRUE, enabled |-> enabled, version |-> rule[r].version + 1,
           trigger_type |-> kind] \in Rule
      BY <2>1 DEF Rule
    <2>3. rule' \in [Rules -> Rule]
      BY <1>7, <2>2 DEF UpdateRule, TypeOK
    <2> QED
      BY <1>7, <2>3 DEF UpdateRule, TypeOK
  <1>8. ASSUME NEW r \in Rules, DeleteRule(r)
        PROVE  TypeOK'
    <2>1. [rule[r] EXCEPT !.exists = FALSE] \in Rule
      BY DEF TypeOK, Rule
    <2>2. rule' \in [Rules -> Rule]
      BY <1>8, <2>1 DEF DeleteRule, TypeOK
    <2> QED
      BY <1>8, <2>2 DEF DeleteRule, TypeOK
  <1> QED
    BY <1>1, <1>2, <1>3, <1>4, <1>5, <1>6, <1>7, <1>8 DEF TimersNext

\* ... so do dispatch, the producers and what follows a call ...
LEMMA DispatchTypeOK == TypeOK /\ DispatchNext => TypeOK'
  <1> SUFFICES ASSUME TypeOK, DispatchNext PROVE TypeOK'
    OBVIOUS
  <1> USE DEF timing, sending
  <1>status. \A m \in Messages, s \in Statuses : WithStatus(msg[m], s) \in Message
    BY MessageColumns DEF TypeOK
  <1>1. ASSUME NEW t \in Tx, NEW m \in Messages, ClaimQueued(t, m)
        PROVE  TypeOK'
    <2>1. [op |-> "claimed", m |-> m] \in Work
      BY DEF Work, DispatchWork
    <2>2. lock' \in [Rows -> Tx \cup {NoOne}] /\ tx' \in [Tx -> Work]
      BY <1>1, <2>1, LockType, GotoType DEF ClaimQueued, Begin
    <2> QED
      BY <1>1, <2>2 DEF ClaimQueued, TypeOK
  <1>2. ASSUME NEW t \in Tx, FenceMessage(t)
        PROVE  TypeOK'
    <2>1. tx[t].m \in Messages
      BY <1>2, WorkFields DEF FenceMessage, TypeOK
    <2>2. WithStatus(msg[tx[t].m], "cancelled") \in Message
      BY <2>1, <1>status DEF Statuses
    <2>3. lock' \in [Rows -> Tx \cup {NoOne}] /\ tx' \in [Tx -> Work]
      BY <1>2, EndType DEF FenceMessage
    <2> QED
      BY <1>2, <2>1, <2>2, <2>3 DEF FenceMessage, TypeOK
  <1>3. ASSUME NEW t \in Tx, FailUnsupported(t)
        PROVE  TypeOK'
    <2>1. tx[t].m \in Messages
      BY <1>3, WorkFields DEF FailUnsupported, TypeOK
    <2>2. WithStatus(msg[tx[t].m], "failed") \in Message
      BY <2>1, <1>status DEF Statuses
    <2>3. lock' \in [Rows -> Tx \cup {NoOne}] /\ tx' \in [Tx -> Work]
      BY <1>3, EndType DEF FailUnsupported
    <2> QED
      BY <1>3, <2>1, <2>2, <2>3 DEF FailUnsupported, TypeOK
  <1>4. ASSUME NEW t \in Tx, CallProvider(t)
        PROVE  TypeOK'
    <2>1. tx[t].m \in Messages
      BY <1>4, WorkFields DEF CallProvider, TypeOK
    <2>2. [op |-> "calling", m |-> tx[t].m] \in Work
      BY <2>1 DEF Work, DispatchWork
    <2>3. lock' \in [Rows -> Tx \cup {NoOne}] /\ tx' \in [Tx -> Work]
      BY <1>4, <2>2, LockType, GotoType DEF CallProvider
    <2> QED
      BY <1>4, <2>3 DEF CallProvider, TypeOK
  <1>5. ASSUME NEW t \in Tx, NEW outcome \in Outcomes, ProviderAnswers(t, outcome)
        PROVE  TypeOK'
    <2>1. tx[t].m \in Messages
      BY <1>5, WorkFields DEF ProviderAnswers, TypeOK
    <2>2. [op |-> "answered", m |-> tx[t].m, outcome |-> outcome] \in Work
      BY <2>1 DEF Work, DispatchWork
    <2>3. tx' \in [Tx -> Work]
      BY <1>5, <2>2, GotoType DEF ProviderAnswers
    <2>4. copies' \in [Messages -> Nat]
      BY <1>5, <2>1 DEF ProviderAnswers, TypeOK
    <2> QED
      BY <1>5, <2>3, <2>4 DEF ProviderAnswers, TypeOK
  <1>6. ASSUME NEW t \in Tx, RecordFailure(t)
        PROVE  TypeOK'
    <2>1. tx[t].m \in Messages /\ tx[t].outcome \in Outcomes
      BY <1>6, WorkFields DEF RecordFailure, TypeOK
    <2>2. Recorded(tx[t].m, tx[t].outcome) \in Message
      BY <2>1, RecordedType DEF TypeOK
    <2>3. lock' \in [Rows -> Tx \cup {NoOne}] /\ tx' \in [Tx -> Work]
      BY <1>6, EndType DEF RecordFailure
    <2> QED
      BY <1>6, <2>1, <2>2, <2>3 DEF RecordFailure, TypeOK
  <1>7. ASSUME NEW t \in Tx, RecordSent(t)
        PROVE  TypeOK'
    <2> DEFINE m == tx[t].m
               c == ConversationOf(t)
               open == conv[c].response_window
                         /\ ~Closes(m)
    <2>1. m \in Messages /\ tx[t].outcome \in Outcomes
      BY <1>7, WorkFields DEF RecordSent, TypeOK
    <2>2. c \in Conversations
      BY <2>1 DEF ConversationOf, TypeOK, Message
    <2>3. msg' \in [Messages -> Message]
      <3>1. Recorded(m, tx[t].outcome) \in Message
        BY <2>1, RecordedType DEF TypeOK
      <3> QED
        BY <1>7, <2>1, <3>1 DEF RecordSent, TypeOK
    <2>4. conv' \in [Conversations -> Conversation]
      <3>1. open \in BOOLEAN
        OBVIOUS
      <3>2. WithWindow(conv[c], open) \in Conversation
        BY <2>2, <3>1, ConversationColumns DEF TypeOK
      <3> QED
        BY <1>7, <2>2, <3>2 DEF RecordSent, TypeOK
    <2>5. kpi' \in [Conversations -> Nat]
      BY <1>7, <2>2 DEF RecordSent, TypeOK
    <2>6. timers' \subseteq Timer
      BY <1>7, <2>2, TimerSetsType DEF RecordSent, TimerKinds
    <2>7. last' \in [Conversations -> {"none", "inbound", "outbound"}]
      BY <1>7, <2>2 DEF RecordSent, TypeOK
    <2>8. lock' \in [Rows -> Tx \cup {NoOne}] /\ tx' \in [Tx -> Work]
      BY <1>7, EndType DEF RecordSent
    <2> QED
      BY <1>7, <2>3, <2>4, <2>5, <2>6, <2>7, <2>8 DEF RecordSent, TypeOK
  <1>8. ASSUME NEW t \in Tx, NEW u \in Users, NEW c \in Conversations,
               NEW key \in Keys \cup {NoOne}, SendIntentBegin(t, u, c, key)
        PROVE  TypeOK'
    <2>1. PICK existing \in Messages \cup {NoOne} :
            Begin(t, [op |-> "intent", c |-> c, key |-> key,
                      existing |-> existing], c)
      BY <1>8 DEF SendIntentBegin
    <2>2. [op |-> "intent", c |-> c, key |-> key, existing |-> existing] \in Work
      BY DEF Work, DispatchWork
    <2>3. lock' \in [Rows -> Tx \cup {NoOne}] /\ tx' \in [Tx -> Work]
      BY <2>1, <2>2, LockType, GotoType DEF Begin
    <2> QED
      BY <1>8, <2>3 DEF SendIntentBegin, TypeOK
  <1>9. ASSUME NEW t \in Tx, NEW m \in Messages, SendIntentInsert(t, m)
        PROVE  TypeOK'
    <2>1. tx[t].c \in Conversations /\ tx[t].key \in Keys \cup {NoOne}
      BY <1>9, WorkFields DEF SendIntentInsert, TypeOK
    <2>2. NewMessage(tx[t].c, "user", 0, FALSE, tx[t].key) \in Message
      BY <2>1, NewMessageType DEF Authors
    <2>3. lock' \in [Rows -> Tx \cup {NoOne}] /\ tx' \in [Tx -> Work]
      BY <1>9, EndType DEF SendIntentInsert
    <2> QED
      BY <1>9, <2>2, <2>3 DEF SendIntentInsert, Insert, TypeOK
  <1>10. ASSUME NEW t \in Tx, SendIntentReplay(t)
         PROVE  TypeOK'
    <2>1. lock' \in [Rows -> Tx \cup {NoOne}] /\ tx' \in [Tx -> Work]
      BY <1>10, EndType DEF SendIntentReplay
    <2> QED
      BY <1>10, <2>1 DEF SendIntentReplay, TypeOK
  <1>11. ASSUME NEW t \in Tx, NEW c \in Conversations, NEW draft \in Drafts,
                ComposeBegin(t, c, draft)
         PROVE  TypeOK'
    <2> DEFINE composed == IF draft.author = "ai" THEN conv[c].control_version ELSE 0
    <2>1. composed \in Nat
      BY DEF TypeOK, Conversation
    <2>2. draft.author \in {"ai", "automation"}
      BY DEF Drafts
    <2>3. draft.stamped \in BOOLEAN
      BY Zenon DEF Drafts
    <2>k. draft.key \in Keys \cup {NoOne}
      BY DEF Drafts
    <2>4. [op |-> "composing", c |-> c, author |-> draft.author,
           composed |-> composed, stamped |-> draft.stamped,
           key |-> draft.key] \in Work
      BY <2>1, <2>2, <2>3, <2>k DEF Work, DispatchWork
    <2>5. tx' \in [Tx -> Work]
      BY <1>11, <2>4, GotoType DEF ComposeBegin
    <2> QED
      BY <1>11, <2>5 DEF ComposeBegin, TypeOK
  <1>12. ASSUME NEW t \in Tx, NEW m \in Messages, ComposeInsert(t, m)
         PROVE  TypeOK'
    <2>1. /\ tx[t].c \in Conversations /\ tx[t].author \in Authors
          /\ tx[t].composed \in Nat /\ tx[t].stamped \in BOOLEAN
          /\ tx[t].key \in Keys \cup {NoOne}
      BY <1>12, WorkFields DEF ComposeInsert, TypeOK, Authors
    <2>2. NewMessage(tx[t].c, tx[t].author, tx[t].composed, tx[t].stamped,
                     tx[t].key) \in Message
      BY <2>1, NewMessageType
    <2>3. lock' \in [Rows -> Tx \cup {NoOne}] /\ tx' \in [Tx -> Work]
      BY <1>12, EndType DEF ComposeInsert
    <2> QED
      BY <1>12, <2>2, <2>3 DEF ComposeInsert, Insert, TypeOK
  <1>13. ASSUME NEW u \in Users, NEW m \in Messages, ResolveWithReceipt(u, m)
         PROVE  TypeOK'
    <2>1. WithStatus(msg[m], "sent") \in Message
      BY <1>status DEF Statuses
    <2>2. WithProviderId(WithStatus(msg[m], "sent"), TRUE) \in Message
      BY <2>1, MessageColumns
    <2>3. WithReceipt(WithProviderId(WithStatus(msg[m], "sent"), TRUE)) \in Message
      BY <2>2, MessageColumns
    <2> QED
      BY <1>13, <2>3 DEF ResolveWithReceipt, TypeOK
  <1>14. ASSUME NEW u \in Users, NEW m \in Messages, ResolveWithResend(u, m)
         PROVE  TypeOK'
    <2>1. WithStatus(msg[m], "queued") \in Message
      BY <1>status DEF Statuses
    <2> QED
      BY <1>14, <2>1 DEF ResolveWithResend, TypeOK
  <1>15. ASSUME NEW m \in Messages, NEW status \in {"sent", "delivered", "read", "failed"},
                ApplyDeliveryStatus(m, status)
         PROVE  TypeOK'
    <2>1. WithStatus(msg[m], status) \in Message
      BY <1>status DEF Statuses
    <2> QED
      BY <1>15, <2>1 DEF ApplyDeliveryStatus, TypeOK
  <1> QED
    BY <1>1, <1>2, <1>3, <1>4, <1>5, <1>6, <1>7, <1>8, <1>9, <1>10, <1>11,
       <1>12, <1>13, <1>14, <1>15 DEF DispatchNext

\* ... and a rollback.
LEMMA RollbackTypeOK ==
  ASSUME TypeOK, NEW t \in Tx, Rollback(t)
  PROVE  TypeOK'
  <1>1. lock' \in [Rows -> Tx \cup {NoOne}] /\ tx' \in [Tx -> Work]
    BY EndType DEF Rollback
  <1>2. lost' \in [Messages -> Nat]
    BY DEF Rollback, TypeOK
  <1> QED
    BY <1>1, <1>2 DEF Rollback, TypeOK, timing

\* Nothing changes when nothing changes.
LEMMA StutterTypeOK == TypeOK /\ UNCHANGED vars => TypeOK'
  BY DEF TypeOK, vars

\* Every step keeps the types.
LEMMA NextTypeOK == TypeOK /\ [Next]_vars => TypeOK'
  BY ControlTypeOK, TimersTypeOK, DispatchTypeOK, RollbackTypeOK, StutterTypeOK
     DEF Next

\* Every reachable state of the tables and transactions is well formed.
THEOREM TypeCorrect == Spec => []TypeOK
  BY InitTypeOK, NextTypeOK, PTL DEF Spec

-----------------------------------------------------------------------------
(* Frames.  A transaction that does not take the step keeps its place,     *)
(* its locks, and the rows under them.                                     *)

Kept(u) ==
  /\ tx'[u] = tx[u]
  /\ \A r \in Rows : lock[r] = u => lock'[r] = u

Untouched(u) ==
  /\ Kept(u)
  /\ \A m \in Messages :
       lock[m] = u /\ msg[m].status # "absent" => msg'[m] = msg[m]
  /\ \A c \in Conversations : lock[c] = u => conv'[c] = conv[c]
  /\ \A g \in Triggers :
       lock[g] = u /\ transfer[g].status # "absent" => transfer'[g] = transfer[g]

\* A transaction that ends leaves the others their steps and locks ...
LEMMA EndKeeps ==
  ASSUME TypeOK, NEW t \in Tx, End(t)
  PROVE  tx'[t] = Idle /\ \A u \in Tx \ {t} : Kept(u)
  BY StoreAssumption DEF TypeOK, End, Goto, Kept

\* ... and so does one that takes locks that were free ...
LEMMA LockKeeps ==
  ASSUME TypeOK, NEW t \in Tx, NEW rows, AllFree(rows), Lock(t, rows),
         NEW work, Goto(t, work)
  PROVE  /\ tx'[t] = work
         /\ \A r \in rows \cap Rows : lock'[r] = t
         /\ \A r \in Rows : lock[r] = t => lock'[r] = t
         /\ \A u \in Tx \ {t} : Kept(u)
  BY StoreAssumption DEF TypeOK, Lock, Goto, Kept, AllFree, Free

\* ... or begins.
LEMMA BeginKeeps ==
  ASSUME TypeOK, NEW t \in Tx, NEW row \in Rows, NEW work, Begin(t, work, row)
  PROVE  /\ tx'[t] = work
         /\ lock'[row] = t
         /\ \A u \in Tx \ {t} : Kept(u)
  BY LockKeeps DEF Begin, AllFree

\* A step that holds, or finds free, the rows it writes touches nobody else.
LEMMA WritersUntouched ==
  ASSUME TypeOK, NEW t \in Tx,
         \A u \in Tx \ {t} : Kept(u),
         \A m \in Messages : \/ msg'[m] = msg[m] \/ msg[m].status = "absent"
                              \/ lock[m] \in {t, NoOne},
         \A c \in Conversations : conv'[c] = conv[c] \/ lock[c] \in {t, NoOne},
         \A g \in Triggers : \/ transfer'[g] = transfer[g]
                              \/ transfer[g].status = "absent"
                              \/ lock[g] \in {t, NoOne}
  PROVE  \A u \in Tx \ {t} : Untouched(u)
  BY StoreAssumption DEF Untouched

\* A one-step transaction that writes only free rows touches nobody.
LEMMA FreeUntouched ==
  ASSUME TypeOK, UNCHANGED <<tx, lock>>,
         \A m \in Messages : msg'[m] = msg[m] \/ Free(m),
         \A c \in Conversations : conv'[c] = conv[c] \/ Free(c),
         UNCHANGED transfer
  PROVE  \A u \in Tx : Untouched(u)
  BY StoreAssumption DEF Untouched, Kept, Free

IInv == TypeOK /\ ClaimsHeld

\* A transaction nobody touched still holds what it held.
LEMMA UntouchedKeepsClaims ==
  ASSUME IInv, NEW u \in Tx, Untouched(u)
  PROVE  /\ \A r \in Holding(u)' : lock'[r] = u
         /\ (tx[u].op \in {"claimed", "calling", "answered"} =>
               msg[tx[u].m].status = "queued")'
  <1>1. tx'[u] = tx[u] /\ tx[u] \in Work
    BY DEF Untouched, Kept, IInv, TypeOK
  <1>2. Holding(u) \subseteq Rows
    <2>1. tx[u].op = "firing" => TimerRow(tx[u].timer) \in Rows
      BY <1>1, WorkFields DEF TimerRow, Timer, Rows, TimerRows
    <2>2. tx[u].op \in {"calling", "answered"} => ConversationOf(u) \in Rows
      BY <1>1, WorkFields DEF ConversationOf, IInv, TypeOK, Message, Rows
    <2> QED
      BY <1>1, <2>1, <2>2, WorkFields DEF Holding, Rows
  <1>3. CASE tx[u].op \in {"claimed", "calling", "answered"}
    <2>1. tx[u].m \in Messages /\ lock[tx[u].m] = u
      BY <1>1, <1>3, WorkFields DEF IInv, ClaimsHeld, Holding
    <2>2. msg'[tx[u].m] = msg[tx[u].m]
      BY <2>1, <1>3 DEF Untouched, IInv, ClaimsHeld
    <2>3. Holding(u)' = Holding(u)
      BY <1>1, <1>3, <2>2 DEF Holding, ConversationOf
    <2> QED
      BY <1>1, <1>2, <1>3, <2>2, <2>3 DEF IInv, ClaimsHeld, Untouched, Kept
  <1>4. CASE tx[u].op \notin {"claimed", "calling", "answered"}
    <2>1. Holding(u)' = Holding(u)
      BY <1>1, <1>4 DEF Holding
    <2> QED
      BY <1>1, <1>2, <1>4, <2>1 DEF IInv, ClaimsHeld, Untouched, Kept
  <1> QED
    BY <1>3, <1>4

\* A step of t: t moves, keeps its own promises and touches nobody else.
Moves(t) ==
  /\ tx'[t] # tx[t]
  /\ \A r \in Holding(t)' : lock'[r] = t
  /\ (tx[t].op \in {"claimed", "calling", "answered"} =>
         msg[tx[t].m].status = "queued")'
  /\ \A u \in Tx \ {t} : Untouched(u)

Isolated == (\A u \in Tx : Untouched(u)) \/ (\E t \in Tx : Moves(t))

\* A transaction that ends holds nothing.
LEMMA EndMoves ==
  ASSUME TypeOK, NEW t \in Tx, End(t), tx[t].op # "idle",
         \A u \in Tx \ {t} : Untouched(u)
  PROVE  Moves(t)
  <1>1. tx'[t] = Idle
    BY EndKeeps
  <1> QED
    BY <1>1 DEF Moves, Holding, Idle

\* The cancelling UPDATE writes no row outside its targets.
LEMMA CancelledWrites ==
  ASSUME NEW m \in Messages, NEW c, NEW targets, msg' = Cancelled(c, targets)
  PROVE  msg'[m] = msg[m] \/ m \in targets
  BY DEF Cancelled

\* The control operations write only rows they hold or find free ...
LEMMA ControlIsolated == IInv /\ ControlNext => Isolated
  <1> SUFFICES ASSUME IInv, ControlNext PROVE Isolated
    OBVIOUS
  <1> USE DEF timing, sending
  <1>ty. TypeOK
    BY DEF IInv
  <1>1. ASSUME NEW u \in Users, NEW c \in Conversations, SetModeActive(u, c)
        PROVE  Isolated
    <2>1. \A d \in Conversations : conv'[d] = conv[d] \/ Free(d)
      BY <1>1, <1>ty DEF SetModeActive, TypeOK
    <2> QED
      BY <1>1, <1>ty, <2>1, FreeUntouched DEF SetModeActive, Isolated
  <1>2. ASSUME NEW t \in Tx, NEW u \in Users, NEW c \in Conversations,
               NEW takeover \in BOOLEAN, SetModeHumanBegin(t, u, c, takeover)
        PROVE  Moves(t)
    <2> DEFINE work == [op |-> "human", c |-> c, user |-> u,
                        takeover |-> takeover, targets |-> QueuedAi(c)]
    <2>1. Begin(t, work, c) /\ c \in Rows
      BY <1>2 DEF SetModeHumanBegin, Rows
    <2>2. /\ tx'[t] = work /\ lock'[c] = t
          /\ \A v \in Tx \ {t} : Kept(v)
      BY <2>1, <1>ty, BeginKeeps
    <2>3. \A v \in Tx \ {t} : Untouched(v)
      BY <1>2, <1>ty, <2>2, WritersUntouched DEF SetModeHumanBegin
    <2> QED
      BY <2>1, <2>2, <2>3 DEF Moves, Begin, Holding, Idle
  <1>3. ASSUME NEW t \in Tx, SetModeHuman(t)
        PROVE  Moves(t)
    <2>1. /\ tx[t].op = "human" /\ End(t) /\ AllFree(tx[t].targets)
          /\ lock[tx[t].c] = t
          /\ msg' = Cancelled(tx[t].c, tx[t].targets)
      BY <1>3 DEF SetModeHuman, IInv, ClaimsHeld, Holding
    <2>2. \A v \in Tx \ {t} : Kept(v)
      BY <2>1, <1>ty, EndKeeps
    <2>3. \A m \in Messages : msg'[m] = msg[m] \/ lock[m] \in {t, NoOne}
      BY <2>1, CancelledWrites DEF AllFree, Free
    <2>4. \A c \in Conversations : conv'[c] = conv[c] \/ lock[c] \in {t, NoOne}
      BY <1>3, <1>ty, <2>1 DEF SetModeHuman, TypeOK
    <2>5. \A v \in Tx \ {t} : Untouched(v)
      BY <1>3, <1>ty, <2>2, <2>3, <2>4, WritersUntouched DEF SetModeHuman
    <2> QED
      BY <1>ty, <2>1, <2>5, EndMoves
  <1>4. ASSUME NEW t \in Tx, TakeoverFence(t)
        PROVE  Moves(t)
    <2> DEFINE hit  == tx[t].targets \cap QueuedAi(tx[t].c)
               work == [op |-> "takeover", c |-> tx[t].c, user |-> tx[t].user,
                        targets |-> hit]
    <2>1. /\ tx[t].op = "human" /\ AllFree(hit) /\ lock[tx[t].c] = t
          /\ Lock(t, hit) /\ Goto(t, work)
      BY <1>4 DEF TakeoverFence, AllFree, IInv, ClaimsHeld, Holding
    <2>2. tx[t].c \in Rows /\ hit \subseteq Rows
      BY <1>4, <1>ty, WorkFields DEF TakeoverFence, TypeOK, QueuedAi, Rows
    <2>3. /\ tx'[t] = work
          /\ \A r \in hit \cap Rows : lock'[r] = t
          /\ lock'[tx[t].c] = t
          /\ \A v \in Tx \ {t} : Kept(v)
      BY <1>ty, <2>1, <2>2, LockKeeps
    <2>4. \A v \in Tx \ {t} : Untouched(v)
      BY <1>4, <1>ty, <2>3, WritersUntouched DEF TakeoverFence
    <2> QED
      BY <2>1, <2>2, <2>3, <2>4 DEF Moves, Holding
  <1>5. ASSUME NEW t \in Tx, TakeoverWithoutTransfer(t)
        PROVE  Moves(t)
    <2>1. /\ tx[t].op = "takeover" /\ End(t)
          /\ lock[tx[t].c] = t /\ \A m \in tx[t].targets : lock[m] = t
          /\ msg' = Cancelled(tx[t].c, tx[t].targets)
      BY <1>5 DEF TakeoverWithoutTransfer, IInv, ClaimsHeld, Holding
    <2>2. \A v \in Tx \ {t} : Kept(v)
      BY <2>1, <1>ty, EndKeeps
    <2>3. \A m \in Messages : msg'[m] = msg[m] \/ lock[m] \in {t, NoOne}
      BY <2>1, CancelledWrites
    <2>4. \A c \in Conversations : conv'[c] = conv[c] \/ lock[c] \in {t, NoOne}
      BY <1>5, <1>ty, <2>1 DEF TakeoverWithoutTransfer, TypeOK
    <2>5. \A v \in Tx \ {t} : Untouched(v)
      BY <1>5, <1>ty, <2>2, <2>3, <2>4, WritersUntouched
         DEF TakeoverWithoutTransfer
    <2> QED
      BY <1>ty, <2>1, <2>5, EndMoves
  <1>6. ASSUME NEW t \in Tx, NEW g \in Triggers, TakeoverWithTransfer(t, g)
        PROVE  Moves(t)
    <2>1. /\ tx[t].op = "takeover" /\ End(t) /\ Free(g)
          /\ lock[tx[t].c] = t /\ \A m \in tx[t].targets : lock[m] = t
          /\ msg' = Cancelled(tx[t].c, tx[t].targets)
      BY <1>6 DEF TakeoverWithTransfer, IInv, ClaimsHeld, Holding
    <2>2. \A v \in Tx \ {t} : Kept(v)
      BY <2>1, <1>ty, EndKeeps
    <2>3. \A m \in Messages : msg'[m] = msg[m] \/ lock[m] \in {t, NoOne}
      BY <2>1, CancelledWrites
    <2>4. \A c \in Conversations : conv'[c] = conv[c] \/ lock[c] \in {t, NoOne}
      BY <1>6, <1>ty, <2>1 DEF TakeoverWithTransfer, TypeOK
    <2>5. \A h \in Triggers : transfer'[h] = transfer[h] \/ lock[h] \in {t, NoOne}
      BY <1>6, <1>ty, <2>1 DEF TakeoverWithTransfer, TypeOK, Free
    <2>6. \A v \in Tx \ {t} : Untouched(v)
      BY <1>ty, <2>2, <2>3, <2>4, <2>5, WritersUntouched
    <2> QED
      BY <1>ty, <2>1, <2>6, EndMoves
  <1>7. ASSUME NEW t \in Tx, NEW by \in Users \cup {NoOne},
               NEW recipient \in Users \cup {NoOne}, NEW c \in Conversations,
               NEW g \in Triggers, HandoffBegin(t, by, c, g, recipient)
        PROVE  Moves(t)
    <2> DEFINE work == [op |-> "handoff", c |-> c, g |-> g,
                        recipient |-> recipient, targets |-> QueuedAi(c)]
    <2>1. Begin(t, work, c) /\ c \in Rows
      BY <1>7 DEF HandoffBegin, Rows
    <2>2. /\ tx'[t] = work /\ lock'[c] = t
          /\ \A v \in Tx \ {t} : Kept(v)
      BY <2>1, <1>ty, BeginKeeps
    <2>3. \A v \in Tx \ {t} : Untouched(v)
      BY <1>7, <1>ty, <2>2, WritersUntouched DEF HandoffBegin
    <2> QED
      BY <2>1, <2>2, <2>3 DEF Moves, Begin, Holding, Idle
  <1>8. ASSUME NEW t \in Tx, Handoff(t)
        PROVE  Moves(t)
    <2>1. /\ tx[t].op = "handoff" /\ End(t) /\ AllFree(tx[t].targets)
          /\ lock[tx[t].c] = t
          /\ msg' = Cancelled(tx[t].c, tx[t].targets)
      BY <1>8 DEF Handoff, IInv, ClaimsHeld, Holding
    <2>2. \A v \in Tx \ {t} : Kept(v)
      BY <2>1, <1>ty, EndKeeps
    <2>3. \A m \in Messages : msg'[m] = msg[m] \/ lock[m] \in {t, NoOne}
      BY <2>1, CancelledWrites DEF AllFree, Free
    <2>4. \A c \in Conversations : conv'[c] = conv[c] \/ lock[c] \in {t, NoOne}
      BY <1>8, <1>ty, <2>1 DEF Handoff, TypeOK
    <2>5. \A h \in Triggers : transfer'[h] = transfer[h] \/ transfer[h].status = "absent"
      BY <1>8, <1>ty DEF Handoff, TypeOK
    <2>6. \A v \in Tx \ {t} : Untouched(v)
      BY <1>8, <1>ty, <2>2, <2>3, <2>4, <2>5, WritersUntouched
    <2> QED
      BY <1>ty, <2>1, <2>6, EndMoves
  <1>9. ASSUME NEW t \in Tx, NEW u \in Users, NEW g \in Triggers,
               AcceptHandoffBegin(t, u, g)
        PROVE  Moves(t)
    <2> DEFINE work == [op |-> "accept", g |-> g, user |-> u]
    <2>1. Begin(t, work, g) /\ g \in Rows
      BY <1>9 DEF AcceptHandoffBegin, Rows
    <2>2. /\ tx'[t] = work /\ lock'[g] = t
          /\ \A v \in Tx \ {t} : Kept(v)
      BY <2>1, <1>ty, BeginKeeps
    <2>3. \A v \in Tx \ {t} : Untouched(v)
      BY <1>9, <1>ty, <2>2, WritersUntouched DEF AcceptHandoffBegin
    <2> QED
      BY <2>1, <2>2, <2>3 DEF Moves, Begin, Holding, Idle
  <1>10. ASSUME NEW t \in Tx, AcceptHandoff(t)
         PROVE  Moves(t)
    <2>1. /\ tx[t].op = "accept" /\ End(t) /\ lock[tx[t].g] = t
          /\ Free(transfer[tx[t].g].conversation_id)
      BY <1>10 DEF AcceptHandoff, IInv, ClaimsHeld, Holding
    <2>2. \A v \in Tx \ {t} : Kept(v)
      BY <2>1, <1>ty, EndKeeps
    <2>3. \A c \in Conversations : conv'[c] = conv[c] \/ lock[c] \in {t, NoOne}
      BY <1>10, <1>ty, <2>1 DEF AcceptHandoff, TypeOK, Free
    <2>4. \A h \in Triggers : transfer'[h] = transfer[h] \/ lock[h] \in {t, NoOne}
      BY <1>10, <1>ty, <2>1 DEF AcceptHandoff, TypeOK
    <2>5. \A v \in Tx \ {t} : Untouched(v)
      BY <1>10, <1>ty, <2>2, <2>3, <2>4, WritersUntouched DEF AcceptHandoff
    <2> QED
      BY <1>ty, <2>1, <2>5, EndMoves
  <1> QED
    BY <1>1, <1>2, <1>3, <1>4, <1>5, <1>6, <1>7, <1>8, <1>9, <1>10
       DEF ControlNext, Isolated

\* ... so do inbound routing, timers, rules and tasks ...
LEMMA TimersIsolated == IInv /\ TimersNext => Isolated
  <1> SUFFICES ASSUME IInv, TimersNext PROVE Isolated
    OBVIOUS
  <1> USE DEF timing, sending
  <1>ty. TypeOK
    BY DEF IInv
  <1>1. ASSUME NEW t \in Tx, NEW c \in Conversations, NEW id \in InboundIds,
               RouteInboundBegin(t, c, id)
        PROVE  Moves(t)
    <2> DEFINE work == [op |-> "routing", c |-> c, id |-> id]
    <2>1. Begin(t, work, c) /\ c \in Rows
      BY <1>1 DEF RouteInboundBegin, Rows
    <2>2. /\ tx'[t] = work /\ lock'[c] = t
          /\ \A v \in Tx \ {t} : Kept(v)
      BY <2>1, <1>ty, BeginKeeps
    <2>3. \A v \in Tx \ {t} : Untouched(v)
      BY <1>1, <1>ty, <2>2, WritersUntouched DEF RouteInboundBegin
    <2> QED
      BY <2>1, <2>2, <2>3 DEF Moves, Begin, Holding, Idle
  <1>2. ASSUME NEW t \in Tx, RouteInbound(t) \/ RouteInboundOffHours(t)
        PROVE  Moves(t)
    <2>1. /\ tx[t].op = "routing" /\ End(t) /\ lock[tx[t].c] = t
          /\ UNCHANGED transfer
      BY <1>2 DEF RouteInbound, RouteInboundOffHours, InboundEffects, IInv,
                  ClaimsHeld, Holding
    <2>2. \A v \in Tx \ {t} : Kept(v)
      BY <2>1, <1>ty, EndKeeps
    <2>3. \A m \in Messages : msg'[m] = msg[m] \/ msg[m].status = "absent"
      BY <1>2, <1>ty DEF RouteInbound, RouteInboundOffHours, Insert, TypeOK
    <2>4. \A c \in Conversations : conv'[c] = conv[c] \/ lock[c] \in {t, NoOne}
      BY <1>2, <1>ty, <2>1 DEF RouteInbound, RouteInboundOffHours, TypeOK
    <2>5. \A v \in Tx \ {t} : Untouched(v)
      BY <1>ty, <2>1, <2>2, <2>3, <2>4, WritersUntouched
    <2> QED
      BY <1>ty, <2>1, <2>5, EndMoves
  <1>3. ASSUME NEW t \in Tx, NEW x \in timers, FireTimerBegin(t, x)
        PROVE  Moves(t)
    <2> DEFINE r == rule[x.rule_id]
               work == [op |-> "firing", timer |-> x,
                        live |-> r.exists /\ r.enabled /\ r.version = x.rule_version]
    <2>1. Begin(t, work, TimerRow(x)) /\ TimerRow(x) \in Rows
      BY <1>3, <1>ty DEF FireTimerBegin, TypeOK, TimerRow, Timer, Rows, TimerRows
    <2>2. /\ tx'[t] = work /\ lock'[TimerRow(x)] = t
          /\ \A v \in Tx \ {t} : Kept(v)
      BY <2>1, <1>ty, BeginKeeps
    <2>3. \A v \in Tx \ {t} : Untouched(v)
      BY <1>3, <1>ty, <2>2, WritersUntouched DEF FireTimerBegin
    <2>4. tx[t] = Idle /\ tx'[t].op = "firing" /\ tx'[t].timer = x
      BY <2>1, <2>2 DEF Begin
    <2>5. Holding(t)' = {TimerRow(x)}
      BY <2>4 DEF Holding, TimerRow
    <2> QED
      BY <2>2, <2>3, <2>4, <2>5 DEF Moves, Idle
  <1>4. ASSUME NEW t \in Tx, FireTimer(t)
        PROVE  Moves(t)
    <2>1. tx[t].op = "firing" /\ End(t)
      BY <1>4 DEF FireTimer
    <2>2. \A v \in Tx \ {t} : Untouched(v)
      BY <1>4, <1>ty, <2>1, EndKeeps, WritersUntouched DEF FireTimer
    <2> QED
      BY <1>ty, <2>1, <2>2, EndMoves
  <1>5. ASSUME NEW c \in Conversations, CloseTask(c) \/ ReopenTask(c)
        PROVE  Isolated
    BY <1>5, <1>ty, FreeUntouched DEF CloseTask, ReopenTask, Isolated
  <1>6. ASSUME NEW r \in Rules, NEW enabled \in BOOLEAN, NEW kind \in TimerKinds,
               UpdateRule(r, enabled, kind)
        PROVE  Isolated
    BY <1>6, <1>ty, FreeUntouched DEF UpdateRule, Isolated
  <1>7. ASSUME NEW r \in Rules, DeleteRule(r)
        PROVE  Isolated
    BY <1>7, <1>ty, FreeUntouched DEF DeleteRule, Isolated
  <1> QED
    BY <1>1, <1>2, <1>3, <1>4, <1>5, <1>6, <1>7 DEF TimersNext, Isolated

\* ... so do dispatch, the producers and what follows a call ...
LEMMA DispatchIsolated == IInv /\ DispatchNext => Isolated
  <1> SUFFICES ASSUME IInv, DispatchNext PROVE Isolated
    OBVIOUS
  <1> USE DEF timing, sending
  <1>ty. TypeOK
    BY DEF IInv
  <1>1. ASSUME NEW t \in Tx, NEW m \in Messages, ClaimQueued(t, m)
        PROVE  Moves(t)
    <2> DEFINE work == [op |-> "claimed", m |-> m]
    <2>1. Begin(t, work, m) /\ m \in Rows
      BY <1>1 DEF ClaimQueued, Rows
    <2>2. /\ tx'[t] = work /\ lock'[m] = t
          /\ \A v \in Tx \ {t} : Kept(v)
      BY <2>1, <1>ty, BeginKeeps
    <2>3. \A v \in Tx \ {t} : Untouched(v)
      BY <1>1, <1>ty, <2>2, WritersUntouched DEF ClaimQueued
    <2> QED
      BY <1>1, <2>1, <2>2, <2>3 DEF Moves, Begin, Holding, Idle, ClaimQueued
  <1>2. ASSUME NEW t \in Tx, FenceMessage(t) \/ FailUnsupported(t)
        PROVE  Moves(t)
    <2>1. tx[t].op = "claimed" /\ End(t) /\ lock[tx[t].m] = t
      BY <1>2 DEF FenceMessage, FailUnsupported, IInv, ClaimsHeld, Holding
    <2>2. \A v \in Tx \ {t} : Kept(v)
      BY <2>1, <1>ty, EndKeeps
    <2>3. \A m \in Messages : msg'[m] = msg[m] \/ lock[m] \in {t, NoOne}
      BY <1>2, <1>ty, <2>1 DEF FenceMessage, FailUnsupported, TypeOK
    <2>4. \A v \in Tx \ {t} : Untouched(v)
      BY <1>2, <1>ty, <2>2, <2>3, WritersUntouched DEF FenceMessage, FailUnsupported
    <2> QED
      BY <1>ty, <2>1, <2>4, EndMoves
  <1>3. ASSUME NEW t \in Tx, CallProvider(t)
        PROVE  Moves(t)
    <2> DEFINE c == ConversationOf(t)
               work == [op |-> "calling", m |-> tx[t].m]
    <2>1. /\ tx[t].op = "claimed" /\ lock[tx[t].m] = t
          /\ msg[tx[t].m].status = "queued"
          /\ AllFree({c}) /\ Lock(t, {c}) /\ Goto(t, work)
          /\ UNCHANGED msg
      BY <1>3 DEF CallProvider, AllFree, IInv, ClaimsHeld, Holding
    <2>2. tx[t].m \in Rows /\ c \in Rows
      BY <2>1, <1>ty, WorkFields DEF TypeOK, ConversationOf, Message, Rows
    <2>3. /\ tx'[t] = work /\ lock'[c] = t /\ lock'[tx[t].m] = t
          /\ \A v \in Tx \ {t} : Kept(v)
      BY <1>ty, <2>1, <2>2, LockKeeps
    <2>4. \A v \in Tx \ {t} : Untouched(v)
      BY <1>3, <1>ty, <2>3, WritersUntouched DEF CallProvider
    <2>5. Holding(t)' = {tx[t].m, c}
      BY <2>1, <2>3 DEF Holding, ConversationOf
    <2> QED
      BY <2>1, <2>3, <2>4, <2>5 DEF Moves
  <1>4. ASSUME NEW t \in Tx, NEW outcome \in Outcomes, ProviderAnswers(t, outcome)
        PROVE  Moves(t)
    <2>1. /\ tx[t].op = "calling" /\ lock[tx[t].m] = t
          /\ lock[ConversationOf(t)] = t /\ msg[tx[t].m].status = "queued"
          /\ UNCHANGED <<msg, lock>>
      BY <1>4 DEF ProviderAnswers, IInv, ClaimsHeld, Holding
    <2>2. /\ tx'[t] = [op |-> "answered", m |-> tx[t].m, outcome |-> outcome]
          /\ \A v \in Tx \ {t} : tx'[v] = tx[v]
      BY <1>4, <1>ty DEF ProviderAnswers, Goto, TypeOK
    <2>3. \A v \in Tx \ {t} : Untouched(v)
      BY <1>4, <2>2 DEF ProviderAnswers, Untouched, Kept
    <2>4. Holding(t)' = {tx[t].m, ConversationOf(t)}
      BY <2>1, <2>2 DEF Holding, ConversationOf
    <2> QED
      BY <2>1, <2>2, <2>3, <2>4 DEF Moves
  <1>5. ASSUME NEW t \in Tx, RecordFailure(t) \/ RecordSent(t)
        PROVE  Moves(t)
    <2>1. /\ tx[t].op = "answered" /\ End(t) /\ lock[tx[t].m] = t
          /\ lock[ConversationOf(t)] = t
          /\ UNCHANGED transfer
      BY <1>5 DEF RecordFailure, RecordSent, IInv, ClaimsHeld, Holding
    <2>2. \A v \in Tx \ {t} : Kept(v)
      BY <2>1, <1>ty, EndKeeps
    <2>3. \A m \in Messages : msg'[m] = msg[m] \/ lock[m] \in {t, NoOne}
      BY <1>5, <1>ty, <2>1 DEF RecordFailure, RecordSent, TypeOK
    <2>4. \A c \in Conversations : conv'[c] = conv[c] \/ lock[c] \in {t, NoOne}
      BY <1>5, <1>ty, <2>1 DEF RecordFailure, RecordSent, TypeOK
    <2>5. \A v \in Tx \ {t} : Untouched(v)
      BY <1>ty, <2>1, <2>2, <2>3, <2>4, WritersUntouched
    <2> QED
      BY <1>ty, <2>1, <2>5, EndMoves
  <1>6. ASSUME NEW t \in Tx, NEW u \in Users, NEW c \in Conversations,
               NEW key \in Keys \cup {NoOne}, SendIntentBegin(t, u, c, key)
        PROVE  Moves(t)
    <2>1. PICK existing \in Messages \cup {NoOne} :
            Begin(t, [op |-> "intent", c |-> c, key |-> key,
                      existing |-> existing], c)
      BY <1>6 DEF SendIntentBegin
    <2> DEFINE work == [op |-> "intent", c |-> c, key |-> key, existing |-> existing]
    <2>2. /\ tx'[t] = work /\ lock'[c] = t
          /\ \A v \in Tx \ {t} : Kept(v)
      BY <2>1, <1>ty, BeginKeeps DEF Rows
    <2>3. \A v \in Tx \ {t} : Untouched(v)
      BY <1>6, <1>ty, <2>2, WritersUntouched DEF SendIntentBegin
    <2> QED
      BY <2>1, <2>2, <2>3 DEF Moves, Begin, Holding, Idle
  <1>7. ASSUME NEW t \in Tx, NEW m \in Messages,
               SendIntentInsert(t, m) \/ SendIntentReplay(t) \/ ComposeInsert(t, m)
        PROVE  Moves(t)
    <2>1. tx[t].op # "idle" /\ End(t) /\ UNCHANGED <<conv, transfer>>
      BY <1>7 DEF SendIntentInsert, SendIntentReplay, ComposeInsert
    <2>2. \A n \in Messages : msg'[n] = msg[n] \/ msg[n].status = "absent"
      BY <1>7, <1>ty DEF SendIntentInsert, SendIntentReplay, ComposeInsert,
                         Insert, TypeOK
    <2>3. \A v \in Tx \ {t} : Untouched(v)
      BY <1>ty, <2>1, <2>2, EndKeeps, WritersUntouched
    <2> QED
      BY <1>ty, <2>1, <2>3, EndMoves
  <1>8. ASSUME NEW t \in Tx, SendIntentReplay(t)
        PROVE  Moves(t)
    <2>1. tx[t].op # "idle" /\ End(t)
      BY <1>8 DEF SendIntentReplay
    <2>2. \A v \in Tx \ {t} : Untouched(v)
      BY <1>8, <1>ty, <2>1, EndKeeps, WritersUntouched DEF SendIntentReplay
    <2> QED
      BY <1>ty, <2>1, <2>2, EndMoves
  <1>9. ASSUME NEW t \in Tx, NEW c \in Conversations, NEW draft \in Drafts,
               ComposeBegin(t, c, draft)
        PROVE  Moves(t)
    <2>1. /\ tx[t] = Idle /\ tx'[t].op = "composing"
          /\ \A v \in Tx \ {t} : tx'[v] = tx[v]
      BY <1>9, <1>ty DEF ComposeBegin, Goto, TypeOK
    <2>2. \A v \in Tx \ {t} : Untouched(v)
      BY <1>9, <2>1 DEF ComposeBegin, Untouched, Kept
    <2>3. Holding(t)' = {}
      BY <2>1 DEF Holding
    <2> QED
      BY <2>1, <2>2, <2>3 DEF Moves, Idle
  <1>10. ASSUME NEW u \in Users, NEW m \in Messages,
                ResolveWithReceipt(u, m) \/ ResolveWithResend(u, m)
         PROVE  Isolated
    <2>1. \A n \in Messages : msg'[n] = msg[n] \/ Free(n)
      BY <1>10, <1>ty DEF ResolveWithReceipt, ResolveWithResend, TypeOK
    <2> QED
      BY <1>10, <1>ty, <2>1, FreeUntouched
         DEF ResolveWithReceipt, ResolveWithResend, Isolated
  <1>11. ASSUME NEW m \in Messages, NEW status \in {"sent", "delivered", "read", "failed"},
                ApplyDeliveryStatus(m, status)
         PROVE  Isolated
    <2>1. \A n \in Messages : msg'[n] = msg[n] \/ Free(n)
      BY <1>11, <1>ty DEF ApplyDeliveryStatus, TypeOK
    <2> QED
      BY <1>11, <1>ty, <2>1, FreeUntouched DEF ApplyDeliveryStatus, Isolated
  <1> QED
    BY <1>1, <1>2, <1>3, <1>4, <1>5, <1>6, <1>7, <1>8, <1>9, <1>10, <1>11
       DEF DispatchNext, Isolated

\* ... and a rollback writes no row.
LEMMA RollbackIsolated ==
  ASSUME IInv, NEW t \in Tx, Rollback(t)
  PROVE  Isolated
  <1>1. TypeOK /\ End(t) /\ UNCHANGED <<conv, msg, transfer>>
    BY DEF IInv, Rollback
  <1>2. \A u \in Tx \ {t} : Untouched(u)
    BY <1>1, EndKeeps, WritersUntouched
  <1>3. tx'[t] = Idle /\ tx'[t] # tx[t]
    BY <1>1, EndKeeps DEF Rollback
  <1>4. Moves(t)
    BY <1>2, <1>3 DEF Moves, Holding, Idle
  <1> QED
    BY <1>4 DEF Isolated

\* Every step is isolated.
LEMMA NextIsolated == IInv /\ Next => Isolated
  BY ControlIsolated, TimersIsolated, DispatchIsolated, RollbackIsolated DEF Next

\* Isolated steps keep every claim.
LEMMA IsolatedKeepsClaims == IInv /\ Isolated => ClaimsHeld'
  <1> SUFFICES ASSUME IInv, Isolated, NEW u \in Tx
               PROVE  /\ \A r \in Holding(u)' : lock'[r] = u
                      /\ (tx[u].op \in {"claimed", "calling", "answered"} =>
                            msg[tx[u].m].status = "queued")'
    BY DEF ClaimsHeld
  <1>1. CASE Untouched(u)
    BY <1>1, UntouchedKeepsClaims
  <1>2. CASE Moves(u)
    BY <1>2 DEF Moves
  <1> QED
    BY <1>1, <1>2 DEF Isolated, Moves

\* The inductive invariant holds at the start ...
LEMMA InitIInv == Init => IInv
  <1> SUFFICES ASSUME Init PROVE IInv
    OBVIOUS
  <1>1. \A t \in Tx : tx[t].op = "idle"
    BY DEF Init, StoreInit, Idle
  <1> QED
    BY <1>1, InitTypeOK DEF IInv, ClaimsHeld, Holding

\* ... and every step keeps it.
LEMMA NextIInv == IInv /\ [Next]_vars => IInv'
  <1> SUFFICES ASSUME IInv, [Next]_vars PROVE ClaimsHeld'
    BY NextTypeOK DEF IInv
  <1>1. CASE Next
    BY <1>1, NextIsolated, IsolatedKeepsClaims
  <1>2. CASE UNCHANGED vars
    BY <1>2 DEF IInv, ClaimsHeld, Holding, ConversationOf, TimerRow, vars
  <1> QED
    BY <1>1, <1>2

\* No transaction loses a row it locked, and a claimed message stays queued
\* until its dispatcher commits.
THEOREM ClaimsAreHeld == Spec => []ClaimsHeld
  BY InitIInv, NextIInv, PTL DEF Spec, IInv

-----------------------------------------------------------------------------
(***************************************************************************)
(* Who is in control: no AI reply is on its way to the customer of a       *)
(* conversation a person holds, and a conversation waits for at most one   *)
(* acceptance.                                                             *)
(***************************************************************************)

InCall == {"calling", "answered"}

\* Where the transaction that takes a step can be afterwards.
LEMMA GotoOnly ==
  ASSUME TypeOK, NEW t \in Tx, NEW work, Goto(t, work), NEW u \in Tx
  PROVE  tx'[u] = IF u = t THEN work ELSE tx[u]
  BY DEF TypeOK, Goto

\* A transaction that was not in a call enters one only through CallProvider.
LEMMA CallsBegin ==
  ASSUME TypeOK, Next, NEW t \in Tx, tx'[t].op \in InCall, tx'[t] # tx[t]
  PROVE  CallProvider(t) \/ \E outcome \in Outcomes : ProviderAnswers(t, outcome)
  <1> USE DEF timing, sending
  <1> SUFFICES ASSUME ~CallProvider(t), \A outcome \in Outcomes : ~ProviderAnswers(t, outcome)
               PROVE  FALSE
    OBVIOUS
  <1>1. ASSUME NEW s \in Tx, End(s) PROVE FALSE
    BY <1>1, GotoOnly DEF End, Idle, InCall
  <1>2. ASSUME NEW s \in Tx, NEW work, NEW row, Begin(s, work, row),
               work.op \notin InCall
        PROVE  FALSE
    BY <1>2, GotoOnly DEF Begin
  <1>3. CASE ControlNext
    <2>1. ASSUME NEW s \in Tx, NEW u \in Users, NEW c \in Conversations,
                 NEW takeover \in BOOLEAN, SetModeHumanBegin(s, u, c, takeover)
          PROVE  FALSE
      BY <1>2, <2>1 DEF SetModeHumanBegin, InCall
    <2>2. ASSUME NEW s \in Tx, NEW by \in Users \cup {NoOne},
                 NEW recipient \in Users \cup {NoOne}, NEW c \in Conversations,
                 NEW g \in Triggers, HandoffBegin(s, by, c, g, recipient)
          PROVE  FALSE
      BY <1>2, <2>2 DEF HandoffBegin, InCall
    <2>3. ASSUME NEW s \in Tx, NEW u \in Users, NEW g \in Triggers,
                 AcceptHandoffBegin(s, u, g)
          PROVE  FALSE
      BY <1>2, <2>3 DEF AcceptHandoffBegin, InCall
    <2>4. ASSUME NEW s \in Tx, TakeoverFence(s) PROVE FALSE
      BY <2>4, GotoOnly DEF TakeoverFence, InCall
    <2>5. ASSUME NEW u \in Users, NEW c \in Conversations, SetModeActive(u, c)
          PROVE  FALSE
      BY <2>5 DEF SetModeActive
    <2> QED
      BY <1>1, <1>3, <2>1, <2>2, <2>3, <2>4, <2>5
         DEF ControlNext, SetModeHuman, TakeoverWithoutTransfer,
             TakeoverWithTransfer, Handoff, AcceptHandoff
  <1>4. CASE TimersNext
    <2>1. ASSUME NEW s \in Tx, NEW c \in Conversations, NEW id \in InboundIds,
                 RouteInboundBegin(s, c, id)
          PROVE  FALSE
      BY <1>2, <2>1 DEF RouteInboundBegin, InCall
    <2>2. ASSUME NEW s \in Tx, NEW x \in timers, FireTimerBegin(s, x)
          PROVE  FALSE
      BY <1>2, <2>2 DEF FireTimerBegin, InCall
    <2> QED
      BY <1>1, <1>4, <2>1, <2>2
         DEF TimersNext, RouteInbound, RouteInboundOffHours, InboundEffects,
             FireTimer, CloseTask, ReopenTask, UpdateRule, DeleteRule
  <1>5. CASE DispatchNext
    <2>1. ASSUME NEW s \in Tx, NEW m \in Messages, ClaimQueued(s, m) PROVE FALSE
      BY <1>2, <2>1 DEF ClaimQueued, InCall
    <2>2. ASSUME NEW s \in Tx, NEW u \in Users, NEW c \in Conversations,
                 NEW key \in Keys \cup {NoOne}, SendIntentBegin(s, u, c, key)
          PROVE  FALSE
      BY <1>2, <2>2 DEF SendIntentBegin, InCall
    <2>3. ASSUME NEW s \in Tx, NEW c \in Conversations, NEW draft \in Drafts,
                 ComposeBegin(s, c, draft)
          PROVE  FALSE
      BY <2>3, GotoOnly DEF ComposeBegin, InCall
    <2>4. ASSUME NEW s \in Tx, CallProvider(s) PROVE FALSE
      BY <2>4, GotoOnly DEF CallProvider
    <2>5. ASSUME NEW s \in Tx, NEW outcome \in Outcomes, ProviderAnswers(s, outcome)
          PROVE  FALSE
      BY <2>5, GotoOnly DEF ProviderAnswers
    <2> QED
      BY <1>1, <1>5, <2>1, <2>2, <2>3, <2>4, <2>5
         DEF DispatchNext, FenceMessage, FailUnsupported, RecordFailure, RecordSent,
             SendIntentInsert, SendIntentReplay, ComposeInsert, ResolveWithReceipt,
             ResolveWithResend, ApplyDeliveryStatus
  <1>6. ASSUME NEW s \in Tx, Rollback(s) PROVE FALSE
    BY <1>1, <1>6 DEF Rollback
  <1> QED
    BY <1>3, <1>4, <1>5, <1>6 DEF Next

\* The fence survives every step: a bystander cannot write the rows the caller
\* holds, and the caller checked them when it locked them.
LEMMA FenceKept == IInv /\ AiCallFenced /\ [Next]_vars => AiCallFenced'
  <1> SUFFICES ASSUME IInv, AiCallFenced, [Next]_vars, NEW t \in Tx, NEW m \in Messages,
                      Sending(t, m)', (msg[m].author_type = "ai")'
               PROVE  (LET c == conv[msg[m].conversation_id] IN
                         /\ c.ai_mode = "active"
                         /\ msg[m].stamped => msg[m].composed = c.control_version)'
    BY DEF AiCallFenced
  <1>ty. TypeOK /\ msg[m] \in Message
    BY DEF IInv, TypeOK
  <1>1. CASE UNCHANGED vars
    BY <1>1 DEF vars, AiCallFenced, Sending
  <1>2. CASE Next /\ tx'[t] = tx[t]
    <2>1. Sending(t, m) /\ lock[m] = t /\ lock[msg[m].conversation_id] = t
          /\ msg[m].status = "queued"
      BY <1>2 DEF Sending, IInv, ClaimsHeld, Holding, ConversationOf
    <2>2. Untouched(t)
      BY <1>2, NextIsolated DEF Isolated, Moves
    <2>3. msg'[m] = msg[m] /\ conv'[msg[m].conversation_id] = conv[msg[m].conversation_id]
      BY <1>ty, <2>1, <2>2 DEF Untouched, Message
    <2> QED
      BY <2>1, <2>3 DEF AiCallFenced
  <1>3. CASE Next /\ tx'[t] # tx[t]
    <2>1. CallProvider(t) \/ \E outcome \in Outcomes : ProviderAnswers(t, outcome)
      BY <1>ty, <1>3, CallsBegin DEF Sending, InCall
    <2>2. CASE CallProvider(t)
      <3>1. ~Fenced(m) /\ UNCHANGED <<conv, msg>>
        BY <1>ty, <2>2, GotoOnly DEF CallProvider, Sending
      <3> QED
        BY <3>1 DEF Fenced
    <2>3. ASSUME NEW outcome \in Outcomes, ProviderAnswers(t, outcome)
          PROVE  Sending(t, m) /\ UNCHANGED <<conv, msg>>
      BY <1>ty, <2>3, GotoOnly DEF ProviderAnswers, Sending
    <2> QED
      BY <2>1, <2>2, <2>3 DEF AiCallFenced
  <1> QED
    BY <1>1, <1>2, <1>3

\* The control fence holds for any number of dispatchers, takeovers, handoffs
\* and mode changes: while the call that sends an AI reply is under way, its
\* conversation stays in AI mode.
THEOREM AiCallsAreFenced == Spec => []AiCallFenced
  <1>1. Init => AiCallFenced
    BY DEF Init, StoreInit, Idle, AiCallFenced, Sending
  <1> QED
    BY <1>1, FenceKept, InitIInv, NextIInv, PTL DEF Spec
-----------------------------------------------------------------------------
(* One pending transfer.                                                   *)

\* A handoff under way found no pending transfer and keeps it that way, because
\* a second handoff of the conversation waits for its row lock.
HandoffClear ==
  \A t \in Tx : tx[t].op = "handoff" => PendingTransfers(tx[t].c) = {}

TInv == IInv /\ HandoffClear /\ OnePendingTransfer

\* What a step can do to the transfers.
LEMMA TransferSteps ==
  ASSUME TypeOK, Next
  PROVE  \/ UNCHANGED transfer
         \/ \E t \in Tx : Handoff(t)
         \/ \E g \in Triggers :
              transfer' = [transfer EXCEPT ![g] = WithStatus(transfer[g], "accepted")]
  <1> USE DEF timing, sending
  <1>1. CASE ControlNext
    <2>1. ASSUME NEW t \in Tx, NEW g \in Triggers, TakeoverWithTransfer(t, g)
          PROVE  transfer' = [transfer EXCEPT ![g] = WithStatus(transfer[g], "accepted")]
      BY <2>1 DEF TakeoverWithTransfer
    <2>2. ASSUME NEW t \in Tx, AcceptHandoff(t)
          PROVE  \E g \in Triggers :
                   transfer' = [transfer EXCEPT ![g] = WithStatus(transfer[g], "accepted")]
      <3>1. PICK g \in Triggers : g = tx[t].g
        BY <2>2, WorkFields DEF AcceptHandoff, TypeOK
      <3>2. transfer' = [transfer EXCEPT ![g] = WithStatus(transfer[g], "accepted")]
        BY <2>2, <3>1 DEF AcceptHandoff
      <3> QED
        BY <3>2
    <2> QED
      BY <1>1, <2>1, <2>2
         DEF ControlNext, SetModeActive, SetModeHumanBegin, SetModeHuman, TakeoverFence,
             TakeoverWithoutTransfer, HandoffBegin, AcceptHandoffBegin
  <1>2. CASE TimersNext
    BY <1>2 DEF TimersNext, RouteInboundBegin, RouteInbound, RouteInboundOffHours,
                InboundEffects, FireTimerBegin, FireTimer, CloseTask, ReopenTask,
                UpdateRule, DeleteRule
  <1>3. CASE DispatchNext
    BY <1>3 DEF DispatchNext, ClaimQueued, FenceMessage, FailUnsupported, CallProvider,
                ProviderAnswers, RecordFailure, RecordSent, SendIntentBegin,
                SendIntentInsert, SendIntentReplay, ComposeBegin, ComposeInsert,
                ResolveWithReceipt, ResolveWithResend, ApplyDeliveryStatus
  <1>4. CASE \E t \in Tx : Rollback(t)
    BY <1>4 DEF Rollback
  <1> QED
    BY <1>1, <1>2, <1>3, <1>4 DEF Next

\* A transaction becomes a handoff only through HandoffBegin.
LEMMA HandoffsBegin ==
  ASSUME TypeOK, Next, NEW t \in Tx, tx'[t].op = "handoff", tx'[t] # tx[t]
  PROVE  PendingTransfers(tx'[t].c) = {} /\ UNCHANGED transfer
  <1> USE DEF timing, sending
  <1> SUFFICES ASSUME ~(PendingTransfers(tx'[t].c) = {} /\ UNCHANGED transfer)
               PROVE  FALSE
    OBVIOUS
  <1>1. ASSUME NEW s \in Tx, End(s) PROVE FALSE
    BY <1>1, GotoOnly DEF End, Idle
  <1>2. ASSUME NEW s \in Tx, NEW work, NEW row, Begin(s, work, row),
               work.op # "handoff"
        PROVE  FALSE
    BY <1>2, GotoOnly DEF Begin
  <1>3. CASE ControlNext
    <2>1. ASSUME NEW s \in Tx, NEW u \in Users, NEW c \in Conversations,
                 NEW takeover \in BOOLEAN, SetModeHumanBegin(s, u, c, takeover)
          PROVE  FALSE
      BY <1>2, <2>1 DEF SetModeHumanBegin
    <2>2. ASSUME NEW s \in Tx, NEW by \in Users \cup {NoOne},
                 NEW recipient \in Users \cup {NoOne}, NEW c \in Conversations,
                 NEW g \in Triggers, HandoffBegin(s, by, c, g, recipient)
          PROVE  FALSE
      BY <2>2, GotoOnly DEF HandoffBegin, Begin
    <2>3. ASSUME NEW s \in Tx, NEW u \in Users, NEW g \in Triggers,
                 AcceptHandoffBegin(s, u, g)
          PROVE  FALSE
      BY <1>2, <2>3 DEF AcceptHandoffBegin
    <2>4. ASSUME NEW s \in Tx, TakeoverFence(s) PROVE FALSE
      BY <2>4, GotoOnly DEF TakeoverFence
    <2>5. ASSUME NEW u \in Users, NEW c \in Conversations, SetModeActive(u, c)
          PROVE  FALSE
      BY <2>5 DEF SetModeActive
    <2> QED
      BY <1>1, <1>3, <2>1, <2>2, <2>3, <2>4, <2>5
         DEF ControlNext, SetModeHuman, TakeoverWithoutTransfer,
             TakeoverWithTransfer, Handoff, AcceptHandoff
  <1>4. CASE TimersNext
    <2>1. ASSUME NEW s \in Tx, NEW c \in Conversations, NEW id \in InboundIds,
                 RouteInboundBegin(s, c, id)
          PROVE  FALSE
      BY <1>2, <2>1 DEF RouteInboundBegin
    <2>2. ASSUME NEW s \in Tx, NEW x \in timers, FireTimerBegin(s, x)
          PROVE  FALSE
      BY <1>2, <2>2 DEF FireTimerBegin
    <2> QED
      BY <1>1, <1>4, <2>1, <2>2
         DEF TimersNext, RouteInbound, RouteInboundOffHours, InboundEffects,
             FireTimer, CloseTask, ReopenTask, UpdateRule, DeleteRule
  <1>5. CASE DispatchNext
    <2>1. ASSUME NEW s \in Tx, NEW m \in Messages, ClaimQueued(s, m) PROVE FALSE
      BY <1>2, <2>1 DEF ClaimQueued
    <2>2. ASSUME NEW s \in Tx, NEW u \in Users, NEW c \in Conversations,
                 NEW key \in Keys \cup {NoOne}, SendIntentBegin(s, u, c, key)
          PROVE  FALSE
      BY <1>2, <2>2 DEF SendIntentBegin
    <2>3. ASSUME NEW s \in Tx, NEW c \in Conversations, NEW draft \in Drafts,
                 ComposeBegin(s, c, draft)
          PROVE  FALSE
      BY <2>3, GotoOnly DEF ComposeBegin
    <2>4. ASSUME NEW s \in Tx, CallProvider(s) PROVE FALSE
      BY <2>4, GotoOnly DEF CallProvider
    <2>5. ASSUME NEW s \in Tx, NEW outcome \in Outcomes, ProviderAnswers(s, outcome)
          PROVE  FALSE
      BY <2>5, GotoOnly DEF ProviderAnswers
    <2> QED
      BY <1>1, <1>5, <2>1, <2>2, <2>3, <2>4, <2>5
         DEF DispatchNext, FenceMessage, FailUnsupported, RecordFailure, RecordSent,
             SendIntentInsert, SendIntentReplay, ComposeInsert, ResolveWithReceipt,
             ResolveWithResend, ApplyDeliveryStatus
  <1>6. ASSUME NEW s \in Tx, Rollback(s) PROVE FALSE
    BY <1>1, <1>6 DEF Rollback
  <1> QED
    BY <1>3, <1>4, <1>5, <1>6 DEF Next

\* A step keeps at most one transfer pending.
LEMMA TransfersKept == TInv /\ [Next]_vars => HandoffClear' /\ OnePendingTransfer'
  <1> SUFFICES ASSUME TInv, [Next]_vars PROVE HandoffClear' /\ OnePendingTransfer'
    OBVIOUS
  <1>inv. IInv /\ TypeOK
    BY DEF TInv, IInv
  <1>1. CASE UNCHANGED vars
    BY <1>1 DEF vars, TInv, HandoffClear, OnePendingTransfer, PendingTransfers
  <1>2. CASE Next
    <2>1. \/ \A d \in Conversations : PendingTransfers(d)' \subseteq PendingTransfers(d)
          \/ \E t \in Tx : Handoff(t)
      <3>1. ASSUME NEW g \in Triggers,
                   transfer' = [transfer EXCEPT ![g] = WithStatus(transfer[g], "accepted")]
            PROVE  \A d \in Conversations : PendingTransfers(d)' \subseteq PendingTransfers(d)
        <4>1. transfer[g] \in Transfer
          BY <1>inv DEF TypeOK
        <4>2. \A h \in Triggers : transfer'[h] =
                IF h = g THEN WithStatus(transfer[g], "accepted") ELSE transfer[h]
          BY <3>1, <1>inv DEF TypeOK
        <4>3. WithStatus(transfer[g], "accepted").status = "accepted"
          BY <4>1 DEF WithStatus, Transfer
        <4> QED
          BY <4>2, <4>3 DEF PendingTransfers
      <3> QED
        BY <1>2, <1>inv, <3>1, TransferSteps DEF PendingTransfers
    <2>2. ASSUME NEW t \in Tx, tx[t].op = "handoff"
          PROVE  tx[t].c \in Conversations /\ lock[tx[t].c] = t
      BY <1>inv, <2>2, WorkFields DEF TypeOK, IInv, ClaimsHeld, Holding
    <2>3. CASE \A d \in Conversations : PendingTransfers(d)' \subseteq PendingTransfers(d)
      <3>1. OnePendingTransfer'
        BY <2>3 DEF TInv, OnePendingTransfer
      <3>2. ASSUME NEW t \in Tx, tx'[t].op = "handoff", tx'[t] = tx[t]
            PROVE  PendingTransfers(tx[t].c)' = {}
        BY <2>2, <2>3, <3>2 DEF TInv, HandoffClear
      <3>3. ASSUME NEW t \in Tx, tx'[t].op = "handoff", tx'[t] # tx[t]
            PROVE  PendingTransfers(tx[t].c)' = {}
        BY <1>inv, <1>2, <3>3, HandoffsBegin DEF PendingTransfers
      <3> QED
        BY <3>1, <3>2, <3>3 DEF HandoffClear
    <2>4. ASSUME NEW t \in Tx, Handoff(t)
          PROVE  HandoffClear' /\ OnePendingTransfer'
      <3>1. PICK c \in Conversations, g \in Triggers : c = tx[t].c /\ g = tx[t].g
        BY <1>inv, <2>4, WorkFields DEF Handoff, TypeOK
      <3>2. PendingTransfers(c) = {} /\ lock[c] = t
        BY <2>2, <2>4, <3>1 DEF Handoff, TInv, HandoffClear
      <3>3. \A h \in Triggers \ {g} : transfer'[h] = transfer[h]
        BY <1>inv, <2>4, <3>1 DEF Handoff, TypeOK
      <3>4. transfer'[g].conversation_id = c
        BY <1>inv, <2>4, <3>1 DEF Handoff, TypeOK
      <3>5. /\ PendingTransfers(c)' \subseteq {g}
            /\ \A d \in Conversations \ {c} :
                 PendingTransfers(d)' \subseteq PendingTransfers(d)
        BY <3>2, <3>3, <3>4 DEF PendingTransfers
      <3>6. OnePendingTransfer'
        BY <3>5 DEF TInv, OnePendingTransfer
      <3>7. tx'[t] = Idle /\ \A u \in Tx \ {t} : tx'[u] = tx[u]
        BY <1>inv, <2>4, EndKeeps DEF Handoff, Kept
      <3>8. ASSUME NEW u \in Tx, tx'[u].op = "handoff"
            PROVE  PendingTransfers(tx[u].c)' = {}
        <4>1. u # t /\ tx'[u] = tx[u]
          BY <3>7, <3>8 DEF Idle
        <4>2. tx[u].c \in Conversations \ {c} /\ PendingTransfers(tx[u].c) = {}
          BY <2>2, <3>2, <3>8, <4>1 DEF TInv, HandoffClear
        <4>3. PICK d \in Conversations \ {c} : d = tx[u].c
          BY <4>2
        <4>4. PendingTransfers(d)' = {}
          BY <3>5, <4>2, <4>3
        <4> QED
          BY <4>1, <4>3, <4>4 DEF PendingTransfers
      <3> QED
        BY <3>6, <3>8 DEF HandoffClear
    <2> QED
      BY <2>1, <2>3, <2>4
  <1> QED
    BY <1>1, <1>2

\* However handoffs, acceptances, takeovers and rollbacks interleave, at most
\* one transfer of a conversation is pending.
THEOREM OneTransferPending == Spec => []OnePendingTransfer
  <1>1. Init => TInv
    BY InitIInv DEF Init, StoreInit, NoTransfer, Idle, TInv, HandoffClear,
                    OnePendingTransfer, PendingTransfers
  <1>2. TInv /\ [Next]_vars => TInv'
    BY NextIInv, TransfersKept DEF TInv
  <1> QED
    BY <1>1, <1>2, PTL DEF Spec, TInv

-----------------------------------------------------------------------------
(***************************************************************************)
(* What becomes of one message's row, of one idempotency key, of one       *)
(* response window and of the timers, in every interleaving of the         *)
(* messaging core.                                                         *)
(***************************************************************************)

(* The ways a step can write the row of a message.                         *)

\* The columns nobody writes after the insert.
SameLetter(m) ==
  /\ msg[m].status # "absent"
  /\ msg'[m].conversation_id = msg[m].conversation_id
  /\ msg'[m].key = msg[m].key

\* Cancelled, refused by the fence or by the channel, or queued again: the
\* attempts and the provider id stay.
Restated(m) ==
  /\ msg[m].status \in {"queued", "unknown"}
  /\ msg'[m].status \in {"cancelled", "failed", "queued"}
  /\ msg'[m].provider_message_id = msg[m].provider_message_id

\* dispatch stores what the call came to.
Answered(m) ==
  /\ msg[m].status = "queued"
  /\ \E outcome \in Outcomes : msg'[m] = Recorded(m, outcome)

\* A receipt or a delivery status.
Settled(m) ==
  /\ msg[m].status = "unknown" \/ msg[m].provider_message_id
  /\ msg'[m].status \in Accepted \cup {"failed"}

\* A row is inserted by a request that holds the conversation or finds it free;
\* an automatic reply has no key.
Inserted(m) ==
  /\ msg[m].status = "absent"
  /\ msg'[m].status = "queued" /\ ~msg'[m].provider_message_id
  /\ \/ msg'[m].key = NoOne
     \/ Free(msg'[m].conversation_id)
     \/ \E t \in Tx : /\ tx[t].op = "intent" /\ tx'[t] = Idle
                      /\ lock[msg'[m].conversation_id] = t

RowStep(m) ==
  \/ msg'[m] = msg[m]
  \/ Inserted(m)
  \/ SameLetter(m) /\ (Restated(m) \/ Answered(m) \/ Settled(m))

\* Column assignments leave the other columns.
LEMMA StatusKeeps ==
  ASSUME NEW row \in Message, NEW s
  PROVE  /\ WithStatus(row, s).status = s
         /\ WithStatus(row, s).conversation_id = row.conversation_id
         /\ WithStatus(row, s).key = row.key
         /\ WithStatus(row, s).attempts = row.attempts
         /\ WithStatus(row, s).provider_message_id = row.provider_message_id
  BY DEF WithStatus, Message

\* What a receipt makes of the row.
LEMMA ReceiptKeeps ==
  ASSUME NEW row \in Message, NEW s
  PROVE  LET new == WithReceipt(WithProviderId(WithStatus(row, s), TRUE))
         IN  /\ new.status = s
             /\ new.conversation_id = row.conversation_id
             /\ new.key = row.key
  BY DEF WithReceipt, WithProviderId, WithStatus, Message

\* What dispatch makes of the row.
LEMMA RecordedKeeps ==
  ASSUME NEW m \in Messages, msg[m] \in Message, NEW outcome \in Outcomes
  PROVE  /\ Recorded(m, outcome).status = outcome.status
         /\ Recorded(m, outcome).conversation_id = msg[m].conversation_id
         /\ Recorded(m, outcome).key = msg[m].key
         /\ Recorded(m, outcome).attempts =
              Append(msg[m].attempts, AttemptStatus(outcome.status))
         /\ outcome.status # "sent" =>
              Recorded(m, outcome).provider_message_id = msg[m].provider_message_id
  <1> DEFINE row == WithStatus(msg[m], outcome.status)
             tried == WithAttempt(row, AttemptStatus(outcome.status))
  <1>1. row \in [status : {outcome.status}, author_type : Authors,
                 conversation_id : Conversations, composed : Nat, stamped : BOOLEAN,
                 provider_message_id : BOOLEAN,
                 attempts : Seq({"accepted", "rejected", "unknown"}),
                 receipt : BOOLEAN, key : Keys \cup {NoOne}]
    BY DEF WithStatus, Message
  <1>2. /\ tried.status = outcome.status
        /\ tried.conversation_id = msg[m].conversation_id
        /\ tried.key = msg[m].key
        /\ tried.attempts = Append(msg[m].attempts, AttemptStatus(outcome.status))
        /\ tried.provider_message_id = msg[m].provider_message_id
    BY <1>1, StatusKeeps DEF WithAttempt
  <1>3. LET r == WithProviderId(tried, outcome.id)
        IN  /\ r.status = tried.status /\ r.conversation_id = tried.conversation_id
            /\ r.key = tried.key /\ r.attempts = tried.attempts
    BY <1>1 DEF WithAttempt, WithProviderId
  <1> QED
    BY <1>2, <1>3 DEF Recorded

\* The cancelling UPDATE restates queued messages and no others.
LEMMA CancelRow ==
  ASSUME TypeOK, NEW m \in Messages, NEW c, NEW targets, msg' = Cancelled(c, targets)
  PROVE  RowStep(m)
  <1>1. msg[m] \in Message
    BY DEF TypeOK
  <1>2. CASE m \in targets \cap QueuedAi(c)
    <2>1. msg'[m] = WithStatus(msg[m], "cancelled") /\ msg[m].status = "queued"
      BY <1>2 DEF Cancelled, QueuedAi
    <2> QED
      BY <1>1, <2>1, StatusKeeps DEF RowStep, SameLetter, Restated
  <1>3. CASE m \notin targets \cap QueuedAi(c)
    BY <1>3 DEF Cancelled, RowStep
  <1> QED
    BY <1>2, <1>3

\* A message is restated by a status alone.
LEMMA RestatedRow ==
  ASSUME TypeOK, NEW m \in Messages, NEW n \in Messages,
         msg[n].status \in {"queued", "unknown"},
         NEW s \in {"cancelled", "failed", "queued"},
         msg' = [msg EXCEPT ![n] = WithStatus(msg[n], s)]
  PROVE  RowStep(m)
  <1>1. msg[n] \in Message /\ msg'[m] = IF m = n THEN WithStatus(msg[n], s) ELSE msg[m]
    BY DEF TypeOK
  <1> QED
    BY <1>1, StatusKeeps DEF RowStep, SameLetter, Restated

\* An inserted row.
LEMMA InsertedRow ==
  ASSUME TypeOK, NEW m \in Messages, NEW n \in Messages, NEW c, NEW author,
         NEW composed, NEW stamped, NEW key,
         Insert(n, NewMessage(c, author, composed, stamped, key)),
         \/ key = NoOne
         \/ Free(c)
         \/ \E t \in Tx : tx[t].op = "intent" /\ tx'[t] = Idle /\ lock[c] = t
  PROVE  RowStep(m)
  <1> DEFINE row == NewMessage(c, author, composed, stamped, key)
  <1>1. msg[n].status = "absent" /\ msg'[m] = IF m = n THEN row ELSE msg[m]
    BY DEF TypeOK, Insert
  <1>2. /\ row.status = "queued" /\ ~row.provider_message_id
        /\ row.key = key /\ row.conversation_id = c
    BY DEF NewMessage
  <1> QED
    BY <1>1, <1>2 DEF RowStep, Inserted

\* The provider's id is known of messages that were sent, even if the provider
\* reports a failure afterwards.
KnownWasSent ==
  \A m \in Messages :
    msg[m].provider_message_id => msg[m].status \in Accepted \cup {"failed"}

\* Every step writes each message in one of these ways.
LEMMA RowSteps ==
  ASSUME IInv, KnownWasSent, Next, NEW m \in Messages
  PROVE  RowStep(m)
  <1> USE DEF timing, sending
  <1>ty. TypeOK
    BY DEF IInv
  <1>rows. \A n \in Messages : msg[n] \in Message
    BY <1>ty DEF TypeOK
  <1>1. CASE ControlNext
    <2>1. ASSUME NEW t \in Tx,
                 \/ SetModeHuman(t) \/ TakeoverWithoutTransfer(t) \/ Handoff(t)
                 \/ \E g \in Triggers : TakeoverWithTransfer(t, g)
          PROVE  \E c, targets : msg' = Cancelled(c, targets)
      BY <2>1 DEF SetModeHuman, TakeoverWithoutTransfer, TakeoverWithTransfer, Handoff
    <2>2. UNCHANGED msg \/ \E c, targets : msg' = Cancelled(c, targets)
      BY <1>1, <2>1 DEF ControlNext, SetModeActive, SetModeHumanBegin, TakeoverFence,
                        HandoffBegin, AcceptHandoffBegin, AcceptHandoff
    <2> QED
      BY <1>ty, <2>2, CancelRow DEF RowStep
  <1>2. CASE TimersNext
    <2>1. ASSUME NEW t \in Tx, RouteInboundOffHours(t) PROVE RowStep(m)
      <3>1. \/ UNCHANGED msg
            \/ \E n \in Messages :
                 Insert(n, NewMessage(tx[t].c, "system", 0, FALSE, NoOne))
        BY <2>1 DEF RouteInboundOffHours
      <3> QED
        BY <1>ty, <3>1, InsertedRow DEF RowStep
    <2>2. UNCHANGED msg \/ \E t \in Tx : RouteInboundOffHours(t)
      BY <1>2 DEF TimersNext, RouteInboundBegin, RouteInbound, InboundEffects,
                  FireTimerBegin, FireTimer, CloseTask, ReopenTask, UpdateRule,
                  DeleteRule
    <2> QED
      BY <2>1, <2>2 DEF RowStep
  <1>3. CASE DispatchNext
    <2>1. ASSUME NEW t \in Tx, FenceMessage(t) \/ FailUnsupported(t)
          PROVE  RowStep(m)
      <3>1. PICK n \in Messages : n = tx[t].m /\ msg[n].status = "queued"
        BY <2>1, <1>ty, WorkFields
           DEF FenceMessage, FailUnsupported, IInv, ClaimsHeld, TypeOK
      <3>2. \E s \in {"cancelled", "failed"} :
              msg' = [msg EXCEPT ![n] = WithStatus(msg[n], s)]
        BY <2>1, <3>1 DEF FenceMessage, FailUnsupported
      <3> QED
        BY <1>ty, <3>1, <3>2, RestatedRow
    <2>2. ASSUME NEW t \in Tx, RecordFailure(t) \/ RecordSent(t)
          PROVE  RowStep(m)
      <3>1. PICK n \in Messages, outcome \in Outcomes :
              n = tx[t].m /\ outcome = tx[t].outcome /\ msg[n].status = "queued"
        BY <2>2, <1>ty, WorkFields
           DEF RecordFailure, RecordSent, IInv, ClaimsHeld, TypeOK
      <3>2. msg' = [msg EXCEPT ![n] = Recorded(n, outcome)]
        BY <2>2, <3>1 DEF RecordFailure, RecordSent
      <3>3. msg'[m] = IF m = n THEN Recorded(n, outcome) ELSE msg[m]
        BY <1>ty, <3>2 DEF TypeOK
      <3> QED
        BY <1>rows, <3>1, <3>3, RecordedKeeps DEF RowStep, SameLetter, Answered
    <2>3. ASSUME NEW t \in Tx, NEW n \in Messages, SendIntentInsert(t, n)
          PROVE  RowStep(m)
      <3>1. /\ tx[t].op = "intent" /\ tx'[t] = Idle /\ lock[tx[t].c] = t
            /\ Insert(n, NewMessage(tx[t].c, "user", 0, FALSE, tx[t].key))
        BY <2>3, <1>ty, EndKeeps DEF SendIntentInsert, IInv, ClaimsHeld, Holding
      <3> QED
        BY <1>ty, <3>1, InsertedRow
    <2>4. ASSUME NEW t \in Tx, NEW n \in Messages, ComposeInsert(t, n)
          PROVE  RowStep(m)
      BY <1>ty, <2>4, InsertedRow DEF ComposeInsert
    <2>5. ASSUME NEW u \in Users, NEW n \in Messages, ResolveWithReceipt(u, n)
          PROVE  RowStep(m)
      <3> DEFINE row == WithReceipt(WithProviderId(WithStatus(msg[n], "sent"), TRUE))
      <3>1. msg[n].status = "unknown" /\ msg'[m] = IF m = n THEN row ELSE msg[m]
        BY <2>5, <1>ty DEF ResolveWithReceipt, TypeOK
      <3>2. /\ row.status = "sent" /\ row.key = msg[n].key
            /\ row.conversation_id = msg[n].conversation_id
        BY <1>rows, ReceiptKeeps
      <3> QED
        BY <3>1, <3>2 DEF RowStep, SameLetter, Settled, Accepted
    <2>6. ASSUME NEW u \in Users, NEW n \in Messages, ResolveWithResend(u, n)
          PROVE  RowStep(m)
      <3>1. /\ msg[n].status = "unknown"
            /\ msg' = [msg EXCEPT ![n] = WithStatus(msg[n], "queued")]
        BY <2>6 DEF ResolveWithResend
      <3> QED
        BY <1>ty, <3>1, RestatedRow
    <2>7. ASSUME NEW n \in Messages, NEW s \in {"sent", "delivered", "read", "failed"},
                 ApplyDeliveryStatus(n, s)
          PROVE  RowStep(m)
      <3>1. /\ msg[n].provider_message_id /\ msg[n].status # "absent"
            /\ msg'[m] = IF m = n THEN WithStatus(msg[n], s) ELSE msg[m]
        BY <2>7, <1>ty DEF ApplyDeliveryStatus, KnownWasSent, Accepted, TypeOK
      <3> QED
        BY <1>rows, <3>1, StatusKeeps DEF RowStep, SameLetter, Settled, Accepted
    <2>8. ASSUME NEW t \in Tx,
                 \/ \E n \in Messages : ClaimQueued(t, n)
                 \/ CallProvider(t) \/ \E outcome \in Outcomes : ProviderAnswers(t, outcome)
                 \/ \E u \in Users, c \in Conversations, key \in Keys \cup {NoOne} :
                      SendIntentBegin(t, u, c, key)
                 \/ SendIntentReplay(t)
                 \/ \E c \in Conversations, draft \in Drafts : ComposeBegin(t, c, draft)
          PROVE  RowStep(m)
      BY <2>8 DEF ClaimQueued, CallProvider, ProviderAnswers, SendIntentBegin,
                  SendIntentReplay, ComposeBegin, RowStep
    <2> QED
      BY <1>3, <2>1, <2>2, <2>3, <2>4, <2>5, <2>6, <2>7, <2>8
         DEF DispatchNext
  <1>4. CASE \E t \in Tx : Rollback(t)
    BY <1>4 DEF Rollback, RowStep
  <1> QED
    BY <1>1, <1>2, <1>3, <1>4 DEF Next
-----------------------------------------------------------------------------
(* An unknown outcome stays open.                                          *)

UInv == IInv /\ KnownWasSent /\ UnknownIsOpen

\* One row keeps both facts.
LEMMA RowKeepsOpen ==
  ASSUME UInv, NEW m \in Messages, RowStep(m)
  PROVE  /\ msg'[m].provider_message_id => msg'[m].status \in Accepted \cup {"failed"}
         /\ msg'[m].status = "unknown" =>
              /\ msg'[m].attempts # <<>>
              /\ msg'[m].attempts[Len(msg'[m].attempts)] = "unknown"
              /\ ~msg'[m].provider_message_id
  <1>ty. msg[m] \in Message
    BY DEF UInv, IInv, TypeOK
  <1>1. CASE msg'[m] = msg[m]
    BY <1>1 DEF UInv, KnownWasSent, UnknownIsOpen
  <1>2. CASE Inserted(m)
    BY <1>2 DEF Inserted
  <1>3. CASE Restated(m)
    BY <1>3 DEF Restated, UInv, KnownWasSent, Accepted
  <1>4. CASE Answered(m)
    <2>1. PICK outcome \in Outcomes : msg'[m] = Recorded(m, outcome)
      BY <1>4 DEF Answered
    <2>2. msg[m].status = "queued" /\ ~msg[m].provider_message_id
      BY <1>4 DEF Answered, UInv, KnownWasSent, Accepted
    <2>3. CASE outcome.status = "unknown"
      <3>1. /\ AttemptStatus(outcome.status) = "unknown"
            /\ msg[m].attempts \in Seq({"accepted", "rejected", "unknown"})
        BY <1>ty, <2>3 DEF AttemptStatus, Message
      <3>2. /\ msg'[m].attempts = Append(msg[m].attempts, "unknown")
            /\ ~msg'[m].provider_message_id
        BY <1>ty, <2>1, <2>2, <2>3, <3>1, RecordedKeeps
      <3>3. LET a == Append(msg[m].attempts, "unknown")
            IN  a # <<>> /\ a[Len(a)] = "unknown"
        BY <3>1
      <3> QED
        BY <3>2, <3>3
    <2>4. CASE outcome.status # "unknown"
      BY <1>ty, <2>1, <2>2, <2>4, RecordedKeeps DEF Outcomes, Accepted
    <2> QED
      BY <2>3, <2>4
  <1>5. CASE Settled(m)
    BY <1>5 DEF Settled, Accepted
  <1> QED
    BY <1>1, <1>2, <1>3, <1>4, <1>5 DEF RowStep

\* Every step keeps unknown messages open.
LEMMA OpenKept == UInv /\ [Next]_vars => UInv'
  <1> SUFFICES ASSUME UInv, [Next]_vars PROVE KnownWasSent' /\ UnknownIsOpen'
    BY NextIInv DEF UInv
  <1>1. CASE Next
    <2>1. \A m \in Messages : RowStep(m)
      BY <1>1, RowSteps DEF UInv
    <2> QED
      BY <2>1, RowKeepsOpen DEF KnownWasSent, UnknownIsOpen
  <1>2. CASE UNCHANGED vars
    BY <1>2 DEF vars, UInv, KnownWasSent, UnknownIsOpen
  <1> QED
    BY <1>1, <1>2

\* No message exists at the start.
LEMMA InitUInv == Init => UInv
  <1> SUFFICES ASSUME Init, NEW m \in Messages
               PROVE  ~msg[m].provider_message_id /\ msg[m].status # "unknown"
    BY InitIInv DEF UInv, KnownWasSent, UnknownIsOpen
  <1>1. PICK c \in Conversations :
          msg[m] = WithStatus(NewMessage(c, "system", 0, FALSE, NoOne), "absent")
    BY DEF Init, StoreInit, NoMessage
  <1> QED
    BY <1>1 DEF WithStatus, NewMessage

\* Whatever dispatchers, operators and delivery statuses do in whatever order, a
\* message shown as unknown has a last attempt that timed out and no provider id
\* by which the provider could still settle it.
THEOREM UnknownStaysOpen == Spec => []UnknownIsOpen
  BY InitUInv, OpenKept, PTL DEF Spec, UInv
-----------------------------------------------------------------------------
(* Response windows.                                                       *)

\* What a step can do to the window of c: nothing, open it, or close it with a
\* measurement.
WindowStep(c) ==
  LET open == conv[c].response_window
      then == conv'[c].response_window
  IN \/ then = open /\ kpi'[c] = kpi[c] /\ windows'[c] = windows[c]
     \/ open = FALSE /\ then = TRUE /\ kpi'[c] = kpi[c] /\ windows'[c] = windows[c] + 1
     \/ open = TRUE /\ then = FALSE /\ kpi'[c] = kpi[c] + 1 /\ windows'[c] = windows[c]

\* Changes of control leave the window alone.
LEMMA ControlKeepsWindow ==
  ASSUME NEW d \in Conversations, conv[d] \in Conversation, NEW mode, NEW u
  PROVE  /\ Controlled(d, mode).response_window = conv[d].response_window
         /\ WithAssignee(Controlled(d, mode), u).response_window =
              conv[d].response_window
         /\ WithAssignee(WithVersionBumped(Controlled(d, mode)), u).response_window =
              conv[d].response_window
  BY DEF Controlled, WithMode, WithVersionBumped, WithAssignee, Conversation

\* Every step does one of these to every window.
LEMMA WindowSteps == ASSUME IInv, Next, NEW c \in Conversations PROVE WindowStep(c)
  <1> USE DEF timing, sending
  <1>ty. TypeOK
    BY DEF IInv
  <1>rows. \A d \in Conversations : conv[d] \in Conversation
    BY <1>ty DEF TypeOK
  <1>1. CASE ControlNext
    <2>1. ASSUME NEW d \in Conversations, NEW row,
                 row.response_window = conv[d].response_window,
                 conv' = [conv EXCEPT ![d] = row]
          PROVE  conv'[c].response_window = conv[c].response_window
      BY <1>ty, <2>1 DEF TypeOK
    <2>2. ASSUME NEW t \in Tx, SetModeHuman(t) \/ TakeoverWithoutTransfer(t) \/ Handoff(t)
          PROVE  conv'[c].response_window = conv[c].response_window
      <3>1. PICK d \in Conversations : d = tx[t].c
        BY <1>ty, <2>2, WorkFields
           DEF TypeOK, SetModeHuman, TakeoverWithoutTransfer, Handoff
      <3>2. \E mode : conv' = [conv EXCEPT ![d] = Controlled(d, mode)]
        BY <2>2, <3>1 DEF SetModeHuman, TakeoverWithoutTransfer, Handoff
      <3> QED
        BY <1>rows, <2>1, <3>2, ControlKeepsWindow
    <2>3. ASSUME NEW t \in Tx, NEW g \in Triggers, TakeoverWithTransfer(t, g)
          PROVE  conv'[c].response_window = conv[c].response_window
      <3>1. PICK d \in Conversations : d = tx[t].c
        BY <1>ty, <2>3, WorkFields DEF TypeOK, TakeoverWithTransfer
      <3>2. \E u : conv' = [conv EXCEPT ![d] =
                WithAssignee(WithVersionBumped(Controlled(d, "human")), u)]
        BY <2>3, <3>1 DEF TakeoverWithTransfer
      <3> QED
        BY <1>rows, <2>1, <3>2, ControlKeepsWindow
    <2>4. ASSUME NEW t \in Tx, AcceptHandoff(t)
          PROVE  conv'[c].response_window = conv[c].response_window
      <3>1. PICK d \in Conversations : d = transfer[tx[t].g].conversation_id
        BY <1>ty, <2>4, WorkFields DEF TypeOK, AcceptHandoff, Transfer
      <3>2. \E u : conv' = [conv EXCEPT ![d] = WithAssignee(Controlled(d, "human"), u)]
        BY <2>4, <3>1 DEF AcceptHandoff
      <3> QED
        BY <1>rows, <2>1, <3>2, ControlKeepsWindow
    <2>5. ASSUME NEW u \in Users, NEW d \in Conversations, SetModeActive(u, d)
          PROVE  conv'[c].response_window = conv[c].response_window
      BY <1>rows, <2>1, <2>5, ControlKeepsWindow DEF SetModeActive
    <2>6. conv'[c].response_window = conv[c].response_window
      BY <1>1, <2>2, <2>3, <2>4, <2>5
         DEF ControlNext, SetModeHumanBegin, TakeoverFence, HandoffBegin,
             AcceptHandoffBegin
    <2>7. UNCHANGED <<kpi, windows>>
      BY <1>1 DEF ControlNext, SetModeActive, SetModeHumanBegin, SetModeHuman,
                  TakeoverFence, TakeoverWithoutTransfer, TakeoverWithTransfer,
                  HandoffBegin, Handoff, AcceptHandoffBegin, AcceptHandoff
    <2> QED
      BY <2>6, <2>7 DEF WindowStep
  <1>2. CASE TimersNext
    <2>1. ASSUME NEW t \in Tx, RouteInbound(t) \/ RouteInboundOffHours(t)
          PROVE  WindowStep(c)
      <3>1. PICK d \in Conversations : d = tx[t].c
        BY <1>ty, <2>1, WorkFields
           DEF TypeOK, RouteInbound, RouteInboundOffHours, InboundEffects
      <3>2. /\ windows' = [windows EXCEPT ![d] =
                              windows[d] + IF conv[d].response_window THEN 0 ELSE 1]
            /\ UNCHANGED kpi
        BY <2>1, <3>1 DEF RouteInbound, RouteInboundOffHours, InboundEffects
      <3>3. \E row : row.response_window = TRUE /\ conv' = [conv EXCEPT ![d] = row]
        <4>1. /\ WithWindow(conv[d], TRUE).response_window = TRUE
              /\ WithStatus(WithWindow(conv[d], TRUE), "pending").response_window = TRUE
          BY <1>rows DEF WithWindow, WithStatus, Conversation
        <4> QED
          BY <2>1, <3>1, <4>1 DEF RouteInbound, RouteInboundOffHours
      <3>4. /\ conv'[d].response_window = TRUE
            /\ \A e \in Conversations \ {d} : conv'[e] = conv[e]
        BY <1>ty, <3>3 DEF TypeOK
      <3>5. /\ windows'[d] = windows[d] + IF conv[d].response_window THEN 0 ELSE 1
            /\ \A e \in Conversations \ {d} : windows'[e] = windows[e]
        BY <1>ty, <3>2 DEF TypeOK
      <3>6. windows[d] \in Nat /\ conv[d].response_window \in BOOLEAN
        BY <1>ty, <1>rows DEF TypeOK, Conversation
      <3>7. CASE c # d
        BY <3>2, <3>4, <3>5, <3>7 DEF WindowStep
      <3>8. CASE c = d /\ conv[d].response_window = TRUE
        <4>1. windows'[d] = windows[d]
          BY <3>5, <3>6, <3>8
        <4> QED
          BY <3>2, <3>4, <3>8, <4>1 DEF WindowStep
      <3>9. CASE c = d /\ conv[d].response_window = FALSE
        <4>1. windows'[d] = windows[d] + 1
          BY <3>5, <3>9
        <4> QED
          BY <3>2, <3>4, <3>9, <4>1 DEF WindowStep
      <3> QED
        BY <3>6, <3>7, <3>8, <3>9
    <2>2. \/ UNCHANGED <<conv, kpi, windows>>
          \/ \E t \in Tx : RouteInbound(t) \/ RouteInboundOffHours(t)
      BY <1>2 DEF TimersNext, RouteInboundBegin, FireTimerBegin, FireTimer, CloseTask,
                  ReopenTask, UpdateRule, DeleteRule
    <2> QED
      BY <2>1, <2>2 DEF WindowStep
  <1>3. CASE DispatchNext
    <2>1. ASSUME NEW t \in Tx, RecordSent(t) PROVE WindowStep(c)
      <3>1. PICK m \in Messages : m = tx[t].m
        BY <1>ty, <2>1, WorkFields DEF TypeOK, RecordSent
      <3>2. PICK d \in Conversations : d = msg[m].conversation_id
        BY <1>ty DEF TypeOK, Message
      <3> DEFINE open == conv[d].response_window
                 row  == WithWindow(conv[d], open /\ ~Closes(m))
      <3>3. /\ conv' = [conv EXCEPT ![d] = row]
            /\ kpi' = [kpi EXCEPT ![d] = kpi[d] + IF Closes(m) THEN 1 ELSE 0]
            /\ UNCHANGED windows
        BY <2>1, <3>1, <3>2 DEF RecordSent, ConversationOf
      <3>4. row.response_window = (open /\ ~Closes(m))
        BY <1>rows DEF WithWindow, Conversation
      <3>5. Closes(m) => open
        BY <3>2 DEF Closes
      <3>6. /\ conv'[d] = row
            /\ \A e \in Conversations \ {d} : conv'[e] = conv[e]
        BY <1>ty, <3>3 DEF TypeOK
      <3>7. /\ kpi'[d] = kpi[d] + IF Closes(m) THEN 1 ELSE 0
            /\ \A e \in Conversations \ {d} : kpi'[e] = kpi[e]
        BY <1>ty, <3>3 DEF TypeOK
      <3>8. kpi[d] \in Nat /\ open \in BOOLEAN
        BY <1>ty, <1>rows DEF TypeOK, Conversation
      <3> HIDE DEF row
      <3>9. CASE c # d
        BY <3>3, <3>6, <3>7, <3>9 DEF WindowStep
      <3>10. CASE c = d /\ Closes(m)
        <4>1. kpi'[d] = kpi[d] + 1
          BY <3>7, <3>10
        <4>2. open = TRUE /\ conv'[d].response_window = FALSE
          BY <3>4, <3>5, <3>6, <3>8, <3>10
        <4> QED
          BY <3>3, <3>10, <4>1, <4>2 DEF WindowStep
      <3>11. CASE c = d /\ ~Closes(m)
        <4>1. kpi'[d] = kpi[d]
          BY <3>7, <3>8, <3>11
        <4>2. conv'[d].response_window = open
          BY <3>4, <3>6, <3>8, <3>11
        <4> QED
          BY <3>3, <3>11, <4>1, <4>2 DEF WindowStep
      <3> QED
        BY <3>9, <3>10, <3>11
    <2>2. UNCHANGED <<conv, kpi, windows>> \/ \E t \in Tx : RecordSent(t)
      BY <1>3 DEF DispatchNext, ClaimQueued, FenceMessage, FailUnsupported, CallProvider,
                  ProviderAnswers, RecordFailure, SendIntentBegin, SendIntentInsert,
                  SendIntentReplay, ComposeBegin, ComposeInsert, ResolveWithReceipt,
                  ResolveWithResend, ApplyDeliveryStatus
    <2> QED
      BY <2>1, <2>2 DEF WindowStep
  <1>4. CASE \E t \in Tx : Rollback(t)
    BY <1>4 DEF Rollback, WindowStep
  <1> QED
    BY <1>1, <1>2, <1>3, <1>4 DEF Next

\* Every step keeps the count.
LEMMA CountKept == IInv /\ WindowsMeasured /\ [Next]_vars => WindowsMeasured'
  <1> SUFFICES ASSUME IInv, WindowsMeasured, [Next]_vars, NEW c \in Conversations
               PROVE  (kpi[c] + (IF conv[c].response_window THEN 1 ELSE 0) = windows[c])'
    BY DEF WindowsMeasured
  <1>1. /\ kpi[c] \in Nat /\ windows[c] \in Nat
        /\ kpi[c] + (IF conv[c].response_window THEN 1 ELSE 0) = windows[c]
    BY DEF IInv, TypeOK, WindowsMeasured
  <1>2. CASE Next
    <2>1. WindowStep(c)
      BY <1>2, WindowSteps
    <2> QED
      BY <1>1, <2>1 DEF WindowStep
  <1>3. CASE UNCHANGED vars
    BY <1>1, <1>3 DEF vars
  <1> QED
    BY <1>2, <1>3

\* Replies, inbound messages, rollbacks and changes of control in any order:
\* every response window is open, or measured exactly once.
THEOREM WindowsAreMeasured == Spec => []WindowsMeasured
  <1>1. Init => WindowsMeasured
    <2>1. \A row \in FirstConversation : row.response_window = FALSE
      BY DEF FirstConversation
    <2> SUFFICES ASSUME Init, NEW c \in Conversations
                 PROVE  kpi[c] + (IF conv[c].response_window THEN 1 ELSE 0) = windows[c]
      BY DEF WindowsMeasured
    <2>2. conv[c].response_window = FALSE /\ kpi[c] = 0 /\ windows[c] = 0
      BY <2>1 DEF Init, StoreInit
    <2> QED
      BY <2>2
  <1> QED
    BY <1>1, CountKept, InitIInv, NextIInv, PTL DEF Spec
-----------------------------------------------------------------------------
(* Idempotency keys.                                                       *)

\* What t read in the step that just made it a send intent, or the firing of a
\* timer.
Looked(t) ==
  /\ UNCHANGED <<msg, timers>>
  /\ tx'[t].op = "intent" =>
       (tx'[t].existing = NoOne => Keyed(tx'[t].c, tx'[t].key) = {})
  /\ tx'[t].op = "firing" =>
       tx'[t].timer \in timers /\ tx'[t].timer.status = "pending"

\* A transaction becomes a send intent only by looking its key up, and fires a
\* timer only if it found it pending.
LEMMA WorkBegins ==
  ASSUME TypeOK, Next, NEW t \in Tx, tx'[t].op \in {"intent", "firing"}, tx'[t] # tx[t]
  PROVE  Looked(t)
  <1> USE DEF timing, sending
  <1>1. ASSUME NEW s \in Tx, End(s) PROVE FALSE
    BY <1>1, GotoOnly DEF End, Idle
  <1>2. ASSUME NEW s \in Tx, NEW work, NEW row, Begin(s, work, row),
               work.op \notin {"intent", "firing"}
        PROVE  FALSE
    BY <1>2, GotoOnly DEF Begin
  <1>3. ASSUME NEW s \in Tx, NEW work, Goto(s, work),
               work.op \notin {"intent", "firing"}
        PROVE  FALSE
    BY <1>3, GotoOnly
  <1>4. CASE ControlNext
    <2>1. ASSUME NEW s \in Tx, NEW u \in Users, NEW c \in Conversations,
                 NEW takeover \in BOOLEAN, SetModeHumanBegin(s, u, c, takeover)
          PROVE  FALSE
      BY <1>2, <2>1 DEF SetModeHumanBegin
    <2>2. ASSUME NEW s \in Tx, NEW by \in Users \cup {NoOne},
                 NEW recipient \in Users \cup {NoOne}, NEW c \in Conversations,
                 NEW g \in Triggers, HandoffBegin(s, by, c, g, recipient)
          PROVE  FALSE
      BY <1>2, <2>2 DEF HandoffBegin
    <2>3. ASSUME NEW s \in Tx, NEW u \in Users, NEW g \in Triggers,
                 AcceptHandoffBegin(s, u, g)
          PROVE  FALSE
      BY <1>2, <2>3 DEF AcceptHandoffBegin
    <2>4. ASSUME NEW s \in Tx, TakeoverFence(s) PROVE FALSE
      BY <1>3, <2>4 DEF TakeoverFence
    <2>5. ASSUME NEW u \in Users, NEW c \in Conversations, SetModeActive(u, c)
          PROVE  FALSE
      BY <2>5 DEF SetModeActive
    <2> QED
      BY <1>1, <1>4, <2>1, <2>2, <2>3, <2>4, <2>5
         DEF ControlNext, SetModeHuman, TakeoverWithoutTransfer,
             TakeoverWithTransfer, Handoff, AcceptHandoff
  <1>5. CASE TimersNext
    <2>1. ASSUME NEW s \in Tx, NEW c \in Conversations, NEW id \in InboundIds,
                 RouteInboundBegin(s, c, id)
          PROVE  FALSE
      BY <1>2, <2>1 DEF RouteInboundBegin
    <2>2. ASSUME NEW s \in Tx, NEW x \in timers, FireTimerBegin(s, x)
          PROVE  Looked(t)
      <3>1. \E live : tx' = [tx EXCEPT ![s] = [op |-> "firing", timer |-> x, live |-> live]]
        BY <2>2 DEF FireTimerBegin, Begin, Goto
      <3>2. tx'[t].op = "firing" /\ tx'[t].timer = x
        BY <3>1 DEF TypeOK
      <3> QED
        BY <2>2, <3>2 DEF FireTimerBegin, Looked
    <2> QED
      BY <1>1, <1>5, <2>1, <2>2
         DEF TimersNext, RouteInbound, RouteInboundOffHours, InboundEffects,
             FireTimer, CloseTask, ReopenTask, UpdateRule, DeleteRule
  <1>6. CASE DispatchNext
    <2>1. ASSUME NEW s \in Tx, NEW m \in Messages, ClaimQueued(s, m) PROVE FALSE
      BY <1>2, <2>1 DEF ClaimQueued
    <2>2. ASSUME NEW s \in Tx, NEW u \in Users, NEW c \in Conversations,
                 NEW key \in Keys \cup {NoOne}, SendIntentBegin(s, u, c, key)
          PROVE  Looked(t)
      <3>1. PICK existing \in Messages \cup {NoOne} :
              /\ IF Keyed(c, key) = {} THEN existing = NoOne
                                       ELSE existing \in Keyed(c, key)
              /\ Begin(s, [op |-> "intent", c |-> c, key |-> key,
                           existing |-> existing], c)
        BY <2>2 DEF SendIntentBegin
      <3>2. tx'[t] = [op |-> "intent", c |-> c, key |-> key, existing |-> existing]
        BY <3>1, GotoOnly DEF Begin
      <3>3. existing = NoOne => Keyed(c, key) = {}
        BY <3>1, StoreAssumption DEF Keyed
      <3> QED
        BY <2>2, <3>2, <3>3 DEF SendIntentBegin, Looked
    <2>3. ASSUME NEW s \in Tx, NEW c \in Conversations, NEW draft \in Drafts,
                 ComposeBegin(s, c, draft)
          PROVE  FALSE
      BY <2>3, GotoOnly DEF ComposeBegin
    <2>4. ASSUME NEW s \in Tx, CallProvider(s) PROVE FALSE
      BY <1>3, <2>4 DEF CallProvider
    <2>5. ASSUME NEW s \in Tx, NEW outcome \in Outcomes, ProviderAnswers(s, outcome)
          PROVE  FALSE
      BY <1>3, <2>5 DEF ProviderAnswers
    <2>6. ASSUME NEW s \in Tx,
                 \/ FenceMessage(s) \/ FailUnsupported(s) \/ RecordFailure(s)
                 \/ RecordSent(s) \/ SendIntentReplay(s)
                 \/ \E m \in Messages : SendIntentInsert(s, m) \/ ComposeInsert(s, m)
          PROVE  FALSE
      BY <1>1, <2>6 DEF FenceMessage, FailUnsupported, RecordFailure, RecordSent,
                        SendIntentReplay, SendIntentInsert, ComposeInsert
    <2>7. ASSUME UNCHANGED tx PROVE FALSE
      BY <2>7
    <2> QED
      BY <1>6, <2>1, <2>2, <2>3, <2>4, <2>5, <2>6, <2>7
         DEF DispatchNext, ResolveWithReceipt, ResolveWithResend, ApplyDeliveryStatus
  <1>7. ASSUME NEW s \in Tx, Rollback(s) PROVE FALSE
    BY <1>1, <1>7 DEF Rollback
  <1> QED
    BY <1>4, <1>5, <1>6, <1>7 DEF Next

\* Nobody stores a message with the key while the request that found none holds
\* the conversation.
LEMMA AnswerKept == UInv /\ RetryIsAnswered /\ [Next]_vars => RetryIsAnswered'
  <1> SUFFICES ASSUME UInv, RetryIsAnswered, [Next]_vars, NEW t \in Tx,
                      tx'[t].op = "intent", tx'[t].existing = NoOne
               PROVE  Keyed(tx[t].c, tx[t].key)' = {}
    BY DEF RetryIsAnswered
  <1>inv. IInv /\ TypeOK
    BY DEF UInv, IInv
  <1>1. CASE UNCHANGED vars
    BY <1>1 DEF vars, RetryIsAnswered, Keyed
  <1>2. CASE Next /\ tx'[t] = tx[t]
    <2>1. lock[tx[t].c] = t /\ Keyed(tx[t].c, tx[t].key) = {}
      BY <1>inv, <1>2 DEF IInv, ClaimsHeld, Holding, RetryIsAnswered
    <2> SUFFICES ASSUME NEW m \in Messages, m \in Keyed(tx[t].c, tx[t].key)'
                 PROVE  FALSE
      BY DEF Keyed
    <2>2. /\ msg'[m].status # "absent" /\ msg'[m].conversation_id = tx[t].c
          /\ msg'[m].key = tx[t].key /\ tx[t].key # NoOne
      BY <1>2 DEF Keyed
    <2>3. RowStep(m)
      BY <1>2, RowSteps DEF UInv
    <2>4. CASE Inserted(m)
      <3>1. ~Free(tx[t].c)
        BY <2>1, StoreAssumption DEF Free
      <3>2. PICK u \in Tx : tx'[u] = Idle /\ lock[tx[t].c] = u
        BY <2>2, <2>4, <3>1 DEF Inserted
      <3> QED
        BY <2>1, <3>2 DEF Idle
    <2>5. CASE msg'[m] = msg[m] \/ SameLetter(m)
      <3>1. m \in Keyed(tx[t].c, tx[t].key)
        BY <2>2, <2>5 DEF SameLetter, Keyed
      <3> QED
        BY <2>1, <3>1
    <2> QED
      BY <2>3, <2>4, <2>5 DEF RowStep
  <1>3. CASE Next /\ tx'[t] # tx[t]
    BY <1>inv, <1>3, WorkBegins DEF Looked, Keyed
  <1> QED
    BY <1>1, <1>2, <1>3

\* Retries and automations that share an Idempotency-Key, in any number: a
\* request that found no message with its key finds none when it inserts.
THEOREM RetriesAreAnswered == Spec => []RetryIsAnswered
  <1>1. Init => RetryIsAnswered
    BY DEF Init, StoreInit, Idle, RetryIsAnswered
  <1> QED
    BY <1>1, AnswerKept, InitUInv, OpenKept, PTL DEF Spec
-----------------------------------------------------------------------------
(* Timers.                                                                 *)

\* The last activity a timer of this kind waits after.
After(kind) == IF kind = "team_unanswered" THEN "inbound" ELSE "outbound"

\* An inbound message, or a reply that was sent: the timers of the silence it
\* ended are cancelled, under their locks, and those of the other may begin.
Turn(c, ended, begun) ==
  /\ timers' \in {CancelTimers(c, ended), CancelTimers(c, ended) \cup NewTimers(c, begun)}
  /\ last' = [last EXCEPT ![c] = After(begun)]
  /\ AllFree({TimerRow(x) : x \in Pending(c, ended)})
  /\ UNCHANGED <<rule, outbox>>

\* No timer, event or activity is written, and no deleted rule comes back.
Quiet ==
  /\ UNCHANGED <<timers, last, outbox>>
  /\ \A r \in Rules : rule'[r].exists => rule[r].exists

\* Every step that writes a timer, an event or an activity is one of these.
LEMMA TimerSteps ==
  ASSUME TypeOK, Next
  PROVE  \/ Quiet
         \/ \E c \in Conversations :
              \/ Turn(c, "customer_unanswered", "team_unanswered")
              \/ Turn(c, "team_unanswered", "customer_unanswered")
         \/ \E t \in Tx : FireTimer(t)
         \/ \E r \in Rules : DeleteRule(r)
  <1> USE DEF timing, sending
  <1>1. CASE ControlNext
    <2>1. UNCHANGED <<rule, timers, last, outbox>>
      BY <1>1 DEF ControlNext, SetModeActive, SetModeHumanBegin, SetModeHuman,
                  TakeoverFence, TakeoverWithoutTransfer, TakeoverWithTransfer,
                  HandoffBegin, Handoff, AcceptHandoffBegin, AcceptHandoff
    <2> QED
      BY <2>1 DEF Quiet
  <1>2. CASE TimersNext
    <2>1. ASSUME NEW t \in Tx, RouteInbound(t) \/ RouteInboundOffHours(t)
          PROVE  \E c \in Conversations : Turn(c, "customer_unanswered", "team_unanswered")
      <3>1. InboundEffects(t)
        BY <2>1 DEF RouteInbound, RouteInboundOffHours
      <3>2. PICK c \in Conversations : c = tx[t].c
        BY <3>1, WorkFields DEF InboundEffects, TypeOK
      <3> QED
        BY <3>1, <3>2 DEF InboundEffects, Turn, After, AllFree, TimerLocks
    <2>2. ASSUME NEW r \in Rules, NEW enabled \in BOOLEAN, NEW kind \in TimerKinds,
                 UpdateRule(r, enabled, kind)
          PROVE  Quiet
      <3>1. /\ rule[r].exists /\ UNCHANGED <<timers, last, outbox>>
            /\ \A q \in Rules \ {r} : rule'[q] = rule[q]
        BY <2>2 DEF UpdateRule, TypeOK
      <3> QED
        BY <3>1 DEF Quiet
    <2>3. ASSUME NEW t \in Tx,
                 \/ \E c \in Conversations, id \in InboundIds : RouteInboundBegin(t, c, id)
                 \/ \E x \in timers : FireTimerBegin(t, x)
          PROVE  Quiet
      BY <2>3 DEF Quiet, RouteInboundBegin, FireTimerBegin
    <2>4. ASSUME NEW c \in Conversations, CloseTask(c) \/ ReopenTask(c)
          PROVE  Quiet
      BY <2>4 DEF Quiet, CloseTask, ReopenTask
    <2> QED
      BY <1>2, <2>1, <2>2, <2>3, <2>4 DEF TimersNext
  <1>3. CASE DispatchNext
    <2>1. ASSUME NEW t \in Tx, RecordSent(t)
          PROVE  \E c \in Conversations : Turn(c, "team_unanswered", "customer_unanswered")
      <3>1. PICK c \in Conversations : c = ConversationOf(t)
        BY <2>1, WorkFields DEF RecordSent, ConversationOf, TypeOK, Message
      <3> QED
        BY <2>1, <3>1 DEF RecordSent, Turn, After
    <2> QED
      BY <1>3, <2>1
         DEF Quiet, DispatchNext, ClaimQueued, FenceMessage, FailUnsupported, CallProvider,
             ProviderAnswers, RecordFailure, SendIntentBegin, SendIntentInsert,
             SendIntentReplay, ComposeBegin, ComposeInsert, ResolveWithReceipt,
             ResolveWithResend, ApplyDeliveryStatus
  <1>4. CASE \E t \in Tx : Rollback(t)
    BY <1>4 DEF Quiet, Rollback
  <1> QED
    BY <1>1, <1>2, <1>3, <1>4 DEF Next

\* A status changes nothing else of a timer.
LEMMA TimerStatus ==
  ASSUME NEW x \in Timer, NEW s
  PROVE  /\ WithStatus(x, s).status = s
         /\ WithStatus(x, s).conversation_id = x.conversation_id
         /\ WithStatus(x, s).rule_id = x.rule_id
         /\ WithStatus(x, s).trigger_type = x.trigger_type
         /\ WithStatus(x, s).activity_version = x.activity_version
  BY DEF WithStatus, Timer

\* schedule_unanswered_timers: one timer per rule, of an enabled rule that has
\* none pending, with an activity_version no timer of the rule has had.
LEMMA NewTimerFacts ==
  ASSUME TypeOK, NEW c \in Conversations, NEW kind \in TimerKinds
  PROVE  /\ \A x \in NewTimers(c, kind) :
              /\ x \in Timer /\ x.status = "pending"
              /\ x.conversation_id = c /\ x.trigger_type = kind
              /\ rule[x.rule_id].exists
              /\ \A y \in Pending(c, kind) : y.rule_id # x.rule_id
              /\ \A y \in timers :
                   y.conversation_id = c /\ y.rule_id = x.rule_id =>
                     y.activity_version < x.activity_version
         /\ \A x, y \in NewTimers(c, kind) : x.rule_id = y.rule_id => x = y
  <1>1. timers \subseteq Timer /\ \A x \in timers : x.activity_version \in Nat
    BY DEF TypeOK, Timer
  <1>2. ASSUME NEW x \in NewTimers(c, kind)
        PROVE  \E r \in Idling(c, kind) : \E n \in Latest(c, r) :
                 x = NewTimer(c, r, kind, n + 1)
    BY DEF NewTimers
  <1>3. ASSUME NEW r \in Rules, NEW n \in Latest(c, r)
        PROVE  /\ n \in Nat
               /\ \A y \in timers : y.conversation_id = c /\ y.rule_id = r =>
                    y.activity_version <= n
               /\ \A k \in Latest(c, r) : k = n
    <2> DEFINE used == {0} \cup {y.activity_version :
                         y \in {z \in timers : z.conversation_id = c /\ z.rule_id = r}}
    <2>1. used \subseteq Nat
      BY <1>1
    <2>2. Latest(c, r) = {m \in used : \A k \in used : k <= m}
      BY DEF Latest
    <2>3. \A y \in timers : y.conversation_id = c /\ y.rule_id = r =>
             y.activity_version \in used
      OBVIOUS
    <2> HIDE DEF used
    <2>4. n \in used /\ \A k \in used : k <= n
      BY <1>3, <2>2
    <2>5. ASSUME NEW k \in Latest(c, r) PROVE k = n
      BY <2>1, <2>2, <2>4
    <2> QED
      BY <2>1, <2>3, <2>4, <2>5
  <1>4. ASSUME NEW r \in Idling(c, kind)
        PROVE  /\ r \in Rules /\ rule[r].exists /\ rule[r].version \in Nat
               /\ \A y \in Pending(c, kind) : y.rule_id # r
    BY DEF Idling, Watching, TypeOK, Rule
  <1>5. ASSUME NEW x \in NewTimers(c, kind)
        PROVE  /\ x \in Timer /\ x.status = "pending"
               /\ x.conversation_id = c /\ x.trigger_type = kind
               /\ rule[x.rule_id].exists
               /\ \A y \in Pending(c, kind) : y.rule_id # x.rule_id
               /\ \A y \in timers :
                    y.conversation_id = c /\ y.rule_id = x.rule_id =>
                      y.activity_version < x.activity_version
    <2>r. PICK r \in Idling(c, kind) : \E n \in Latest(c, r) :
            x = NewTimer(c, r, kind, n + 1)
      BY <1>2
    <2>1. PICK n \in Latest(c, r) : x = NewTimer(c, r, kind, n + 1)
      BY <2>r
    <2>2. r \in Rules /\ n \in Nat
      BY <1>3, <1>4
    <2>3. /\ x.status = "pending" /\ x.conversation_id = c /\ x.trigger_type = kind
          /\ x.rule_id = r /\ x.activity_version = n + 1
      BY <2>1 DEF NewTimer
    <2>4. x \in Timer
      BY <1>4, <2>1, <2>2 DEF NewTimer, Timer
    <2>5. \A y \in timers : y.conversation_id = c /\ y.rule_id = r =>
            y.activity_version < n + 1
      BY <1>1, <1>3, <2>2
    <2> QED
      BY <1>4, <2>3, <2>4, <2>5
  <1>6. ASSUME NEW x \in NewTimers(c, kind), NEW y \in NewTimers(c, kind),
               x.rule_id = y.rule_id
        PROVE  x = y
    <2>r. PICK r \in Idling(c, kind) : \E n \in Latest(c, r) :
            x = NewTimer(c, r, kind, n + 1)
      BY <1>2
    <2>1. PICK n \in Latest(c, r) : x = NewTimer(c, r, kind, n + 1)
      BY <2>r
    <2>s. PICK s \in Idling(c, kind) : \E k \in Latest(c, s) :
            y = NewTimer(c, s, kind, k + 1)
      BY <1>2
    <2>2. PICK k \in Latest(c, s) : y = NewTimer(c, s, kind, k + 1)
      BY <2>s
    <2>3. r = s
      BY <1>6, <2>1, <2>2 DEF NewTimer
    <2>4. k = n
      BY <1>3, <1>4, <2>3
    <2> QED
      BY <2>1, <2>2, <2>3, <2>4
  <1> QED
    BY <1>5, <1>6

\* A timer that is pending after a turn was pending before it, and of another
\* conversation or the other kind, or it is new.
LEMMA TurnPending ==
  ASSUME TypeOK, NEW c \in Conversations, NEW ended \in TimerKinds,
         NEW begun \in TimerKinds, Turn(c, ended, begun)
  PROVE  \A x \in timers' : x.status = "pending" =>
           \/ x \in timers /\ ~(x.conversation_id = c /\ x.trigger_type = ended)
           \/ x \in NewTimers(c, begun)
  <1>1. timers \subseteq Timer
    BY DEF TypeOK
  <1>2. ASSUME NEW x \in CancelTimers(c, ended), x.status = "pending"
        PROVE  x \in timers /\ ~(x.conversation_id = c /\ x.trigger_type = ended)
    <2>1. ASSUME NEW y \in Pending(c, ended), x = WithStatus(y, "cancelled") PROVE FALSE
      BY <1>1, <1>2, <2>1, TimerStatus DEF Pending
    <2> QED
      BY <1>2, <2>1 DEF CancelTimers, Pending
  <1> QED
    BY <1>2 DEF Turn

\* A turn loses no timer: it may only cancel it.
LEMMA TurnKeeps ==
  ASSUME TypeOK, NEW c \in Conversations, NEW ended \in TimerKinds,
         NEW begun \in TimerKinds, Turn(c, ended, begun), NEW x \in timers
  PROVE  /\ \E y \in timers' : /\ y.conversation_id = x.conversation_id
                               /\ y.rule_id = x.rule_id
                               /\ y.activity_version = x.activity_version
         /\ x \notin Pending(c, ended) => x \in timers'
  <1>1. timers \subseteq Timer
    BY DEF TypeOK
  <1>2. CancelTimers(c, ended) \subseteq timers'
    BY DEF Turn
  <1>3. CASE x \in Pending(c, ended)
    <2>1. WithStatus(x, "cancelled") \in timers'
      BY <1>2, <1>3 DEF CancelTimers
    <2> QED
      BY <1>1, <1>3, <2>1, TimerStatus
  <1>4. CASE x \notin Pending(c, ended)
    BY <1>2, <1>4 DEF CancelTimers
  <1> QED
    BY <1>3, <1>4

\* A pending timer's row is in nobody else's hands when it is fired: what a
\* transaction fires was found pending, and nobody wrote it since.
FiringIsDue ==
  \A t \in Tx : tx[t].op = "firing" =>
    tx[t].timer \in timers /\ tx[t].timer.status = "pending"

\* A timer whose event is queued is not pending any more, and its rule, as long
\* as it exists, has a timer that used its activity_version.
Reported ==
  \A i \in 1 .. Len(outbox) :
    /\ outbox[i].status = "pending" /\ outbox[i] \notin timers
    /\ rule[outbox[i].rule_id].exists =>
         \E y \in timers : /\ y.conversation_id = outbox[i].conversation_id
                           /\ y.rule_id = outbox[i].rule_id
                           /\ y.activity_version = outbox[i].activity_version

MInv == IInv /\ TimersMatchActivity /\ FiringIsDue /\ Reported

\* After a turn every pending timer waits for the silence there is.
LEMMA TurnMatches ==
  ASSUME TypeOK, TimersMatchActivity, NEW c \in Conversations,
         NEW ended \in TimerKinds, NEW begun \in TimerKinds, ended # begun,
         Turn(c, ended, begun)
  PROVE  TimersMatchActivity'
  <1>1. \A x \in timers' : x.status = "pending" =>
          \/ x \in timers /\ ~(x.conversation_id = c /\ x.trigger_type = ended)
          \/ x \in NewTimers(c, begun)
    BY TurnPending
  <1>2. \A x \in timers : /\ x.trigger_type \in TimerKinds
                          /\ x.conversation_id \in Conversations
    BY DEF TypeOK, Timer
  <1>3. \A d \in Conversations : last'[d] = IF d = c THEN After(begun) ELSE last[d]
    BY DEF Turn, TypeOK
  <1>4. \A x \in NewTimers(c, begun) :
          /\ x.conversation_id = c /\ x.trigger_type = begun
          /\ \A y \in Pending(c, begun) : y.rule_id # x.rule_id
          /\ \A y \in NewTimers(c, begun) : x.rule_id = y.rule_id => x = y
    BY NewTimerFacts
  <1>5. ASSUME NEW x \in timers', x.status = "pending"
        PROVE  last'[x.conversation_id] = After(x.trigger_type)
    <2>1. CASE x \in NewTimers(c, begun)
      BY <1>3, <1>4, <2>1
    <2>2. CASE x \in timers /\ x.conversation_id = c /\ x.trigger_type # ended
      BY <1>2, <1>3, <2>2 DEF TimerKinds, After
    <2>3. CASE x \in timers /\ x.conversation_id # c
      <3>1. last[x.conversation_id] = After(x.trigger_type)
        BY <1>5, <2>3 DEF TimersMatchActivity, After
      <3> QED
        BY <1>2, <1>3, <2>3, <3>1
    <2> QED
      BY <1>1, <1>5, <2>1, <2>2, <2>3
  <1>6. ASSUME NEW x \in timers', NEW y \in timers', x.status = "pending",
               y.status = "pending", TimerRow(x) = TimerRow(y)
        PROVE  x = y
    <2>1. /\ x.conversation_id = y.conversation_id /\ x.rule_id = y.rule_id
          /\ x.trigger_type = y.trigger_type
      BY <1>6 DEF TimerRow
    <2>2. CASE x \in timers /\ y \in timers
      BY <1>6, <2>2 DEF TimersMatchActivity
    <2>3. CASE x \in NewTimers(c, begun) /\ y \in NewTimers(c, begun)
      BY <1>4, <2>1, <2>3
    <2>4. CASE x \in NewTimers(c, begun) /\ y \in timers
      BY <1>4, <1>6, <2>1, <2>4 DEF Pending
    <2>5. CASE x \in timers /\ y \in NewTimers(c, begun)
      BY <1>4, <1>6, <2>1, <2>5 DEF Pending
    <2> QED
      BY <1>1, <1>6, <2>2, <2>3, <2>4, <2>5
  <1> QED
    BY <1>5, <1>6 DEF TimersMatchActivity, After

\* What firing a timer does to the table and to the outbox.
LEMMA FireFacts ==
  ASSUME MInv, NEW t \in Tx, FireTimer(t)
  PROVE  \E x \in timers, y \in Timer :
           /\ x = tx[t].timer /\ x.status = "pending" /\ lock[TimerRow(x)] = t
           /\ y.status # "pending"
           /\ y.conversation_id = x.conversation_id /\ y.rule_id = x.rule_id
           /\ y.activity_version = x.activity_version
           /\ timers' = (timers \ {x}) \cup {y}
           /\ outbox' \in {outbox, Append(outbox, x)}
           /\ UNCHANGED <<rule, last>>
           /\ tx'[t] = Idle
  <1> USE DEF timing, sending
  <1>1. tx[t].op = "firing" /\ TypeOK /\ IInv
    BY DEF FireTimer, MInv, IInv
  <1>2. PICK x \in timers : x = tx[t].timer /\ x.status = "pending"
    BY <1>1 DEF MInv, FiringIsDue
  <1>3. x \in Timer /\ lock[TimerRow(x)] = t
    BY <1>1, <1>2 DEF IInv, TypeOK, ClaimsHeld, Holding
  <1>4. PICK s \in {"fired", "cancelled"} :
          timers' = (timers \ {x}) \cup {WithStatus(x, s)}
    BY <1>2 DEF FireTimer
  <1>5. WithStatus(x, s) \in Timer /\ WithStatus(x, s).status # "pending"
    BY <1>3, TimerColumns, TimerStatus
  <1>6. outbox' \in {outbox, Append(outbox, x)} /\ UNCHANGED <<rule, last>>
    BY <1>2 DEF FireTimer
  <1>7. tx'[t] = Idle
    BY <1>1, EndKeeps DEF FireTimer
  <1> QED
    BY <1>2, <1>3, <1>4, <1>5, <1>6, <1>7, TimerStatus

\* A rule goes with its timers, whose rows are free.
LEMMA DeleteFacts ==
  ASSUME TypeOK, NEW r \in Rules, DeleteRule(r)
  PROVE  /\ timers' = {x \in timers : x.rule_id # r}
         /\ ~rule'[r].exists
         /\ \A q \in Rules \ {r} : rule'[q] = rule[q]
         /\ \A x \in timers : x.rule_id = r => Free(TimerRow(x))
         /\ UNCHANGED <<outbox, last, tx>>
  <1>1. ASSUME NEW x \in timers, x.rule_id = r PROVE Free(TimerRow(x))
    <2>1. TimerRow(x) \in TimerRows /\ TimerRow(x)[2] = r
      BY <1>1 DEF TypeOK, Timer, TimerRow, TimerRows
    <2> QED
      BY <2>1 DEF DeleteRule, AllFree
  <1>2. ~[rule[r] EXCEPT !.exists = FALSE].exists
    BY DEF TypeOK, Rule
  <1> QED
    BY <1>1, <1>2 DEF DeleteRule, TypeOK

\* A timer that is being fired stays pending: whoever would write it waits for
\* its row lock.
LEMMA FiringKept == MInv /\ Next => FiringIsDue'
  <1> SUFFICES ASSUME MInv, Next, NEW t \in Tx, tx'[t].op = "firing"
               PROVE  tx'[t].timer \in timers' /\ tx'[t].timer.status = "pending"
    BY DEF FiringIsDue
  <1>inv. IInv /\ TypeOK
    BY DEF MInv, IInv
  <1>1. CASE tx'[t] # tx[t]
    BY <1>inv, <1>1, WorkBegins DEF Looked
  <1>2. CASE tx'[t] = tx[t]
    <2>1. PICK x \in timers : x = tx[t].timer /\ x.status = "pending"
      BY <1>2 DEF MInv, FiringIsDue
    <2>2. lock[TimerRow(x)] = t /\ ~Free(TimerRow(x))
      BY <1>inv, <1>2, <2>1, StoreAssumption DEF IInv, ClaimsHeld, Holding, Free
    <2>3. ASSUME NEW c \in Conversations, NEW ended \in TimerKinds,
                 NEW begun \in TimerKinds, Turn(c, ended, begun)
          PROVE  x \in timers'
      <3>1. x \notin Pending(c, ended)
        BY <2>2, <2>3 DEF Turn, AllFree
      <3> QED
        BY <1>inv, <2>3, <3>1, TurnKeeps
    <2>4. ASSUME NEW u \in Tx, FireTimer(u) PROVE x \in timers'
      <3>1. PICK y \in timers, z \in Timer :
              /\ lock[TimerRow(y)] = u /\ tx'[u] = Idle
              /\ timers' = (timers \ {y}) \cup {z}
        BY <2>4, FireFacts
      <3>2. u # t
        BY <3>1 DEF Idle
      <3> QED
        BY <2>2, <3>1, <3>2
    <2>5. ASSUME NEW r \in Rules, DeleteRule(r) PROVE x \in timers'
      BY <1>inv, <2>2, <2>5, DeleteFacts
    <2>6. x \in timers'
      BY <1>inv, <2>3, <2>4, <2>5, TimerSteps DEF Quiet, TimerKinds
    <2> QED
      BY <1>2, <2>1, <2>6
  <1> QED
    BY <1>1, <1>2

\* Every step leaves pending timers that match the last activity.
LEMMA MatchKept == MInv /\ Next => TimersMatchActivity'
  <1> SUFFICES ASSUME MInv, Next PROVE TimersMatchActivity'
    OBVIOUS
  <1>inv. TypeOK /\ TimersMatchActivity
    BY DEF MInv, IInv
  <1>1. ASSUME \A x \in timers' : x.status = "pending" => x \in timers,
               UNCHANGED last
        PROVE  TimersMatchActivity'
    BY <1>inv, <1>1 DEF TimersMatchActivity, TimerRow
  <1>2. ASSUME NEW c \in Conversations,
               \/ Turn(c, "customer_unanswered", "team_unanswered")
               \/ Turn(c, "team_unanswered", "customer_unanswered")
        PROVE  TimersMatchActivity'
    BY <1>inv, <1>2, TurnMatches DEF TimerKinds
  <1>3. ASSUME NEW t \in Tx, FireTimer(t) PROVE TimersMatchActivity'
    <2>1. PICK x \in timers, y \in Timer :
            /\ y.status # "pending" /\ UNCHANGED last
            /\ timers' = (timers \ {x}) \cup {y}
      BY <1>3, FireFacts
    <2> QED
      BY <1>1, <2>1
  <1>4. ASSUME NEW r \in Rules, DeleteRule(r) PROVE TimersMatchActivity'
    BY <1>1, <1>4, <1>inv, DeleteFacts
  <1> QED
    BY <1>1, <1>2, <1>3, <1>4, <1>inv, TimerSteps DEF Quiet

\* The event z has been published and its timer is not pending.
Settles(z) ==
  /\ z.status = "pending" /\ z \notin timers
  /\ rule[z.rule_id].exists =>
       \E y \in timers : /\ y.conversation_id = z.conversation_id
                         /\ y.rule_id = z.rule_id
                         /\ y.activity_version = z.activity_version

\* A turn gives no timer the activity_version of a published one.
LEMMA TurnSettles ==
  ASSUME TypeOK, NEW z \in Timer, Settles(z), NEW c \in Conversations,
         NEW ended \in TimerKinds, NEW begun \in TimerKinds, Turn(c, ended, begun)
  PROVE  Settles(z)'
  <1>1. z \notin timers'
    <2>1. SUFFICES ASSUME z \in NewTimers(c, begun) PROVE FALSE
      BY TurnPending DEF Settles
    <2>2. /\ z.conversation_id = c /\ rule[z.rule_id].exists
          /\ \A y \in timers : y.conversation_id = c /\ y.rule_id = z.rule_id =>
               y.activity_version < z.activity_version
      BY <2>1, NewTimerFacts
    <2>3. PICK y \in timers : /\ y.conversation_id = c /\ y.rule_id = z.rule_id
                             /\ y.activity_version = z.activity_version
      BY <2>2 DEF Settles
    <2>4. z.activity_version \in Nat
      BY DEF Timer
    <2> QED
      BY <2>2, <2>3, <2>4
  <1>2. ASSUME rule'[z.rule_id].exists
        PROVE  \E y \in timers' : /\ y.conversation_id = z.conversation_id
                                  /\ y.rule_id = z.rule_id
                                  /\ y.activity_version = z.activity_version
    <2>1. PICK x \in timers : /\ x.conversation_id = z.conversation_id
                             /\ x.rule_id = z.rule_id
                             /\ x.activity_version = z.activity_version
      BY <1>2 DEF Settles, Turn
    <2> QED
      BY <2>1, TurnKeeps
  <1> QED
    BY <1>1, <1>2 DEF Settles

\* A published event stays settled in every step.
LEMMA SettledStays ==
  ASSUME MInv, Next, NEW z \in Timer, Settles(z)
  PROVE  Settles(z)'
  <1>inv. IInv /\ TypeOK
    BY DEF MInv, IInv
  <1>z. z.rule_id \in Rules
    BY DEF Timer
  <1>1. CASE Quiet
    BY <1>1, <1>z DEF Quiet, Settles
  <1>2. ASSUME NEW t \in Tx, FireTimer(t) PROVE Settles(z)'
    <2>1. PICK x \in timers, y \in Timer :
            /\ y.status # "pending" /\ UNCHANGED rule
            /\ y.conversation_id = x.conversation_id /\ y.rule_id = x.rule_id
            /\ y.activity_version = x.activity_version
            /\ timers' = (timers \ {x}) \cup {y}
      BY <1>2, FireFacts
    <2> QED
      BY <2>1 DEF Settles
  <1>3. ASSUME NEW r \in Rules, DeleteRule(r) PROVE Settles(z)'
    BY <1>inv, <1>z, <1>3, DeleteFacts DEF Settles
  <1> QED
    BY <1>inv, <1>1, <1>2, <1>3, TurnSettles, TimerSteps DEF TimerKinds

\* Every event in the outbox stays settled, the new one included.
LEMMA ReportedKept == MInv /\ Next => Reported'
  <1> SUFFICES ASSUME MInv, Next, NEW i \in 1 .. Len(outbox') PROVE Settles(outbox[i])'
    BY DEF Reported, Settles
  <1>inv. IInv /\ TypeOK /\ outbox \in Seq(Timer)
    BY DEF MInv, IInv, TypeOK
  <1>old. ASSUME NEW j \in 1 .. Len(outbox) PROVE outbox[j] \in Timer /\ Settles(outbox[j])
    <2>1. outbox[j] \in Timer
      BY <1>inv
    <2>2. Settles(outbox[j])
      BY DEF MInv, Reported, Settles
    <2> QED
      BY <2>1, <2>2
  <1>1. CASE UNCHANGED outbox
    BY <1>1, <1>old, SettledStays DEF Settles
  <1>2. ASSUME NEW t \in Tx, FireTimer(t) PROVE Settles(outbox[i])'
    <2>1. PICK x \in timers, y \in Timer :
            /\ x.status = "pending" /\ y.status # "pending"
            /\ y.conversation_id = x.conversation_id /\ y.rule_id = x.rule_id
            /\ y.activity_version = x.activity_version
            /\ timers' = (timers \ {x}) \cup {y}
            /\ outbox' \in {outbox, Append(outbox, x)}
      BY <1>2, FireFacts
    <2>2. x \in Timer
      BY <1>inv DEF TypeOK
    <2>3. CASE i \in 1 .. Len(outbox)
      <3>1. outbox'[i] = outbox[i]
        BY <1>inv, <2>1, <2>2, <2>3
      <3>2. Settles(outbox[i]) /\ outbox[i] \in Timer
        BY <1>old, <2>3
      <3> QED
        BY <3>1, <3>2, SettledStays DEF Settles
    <2>4. CASE i \notin 1 .. Len(outbox)
      <3>1. outbox'[i] = x
        BY <1>inv, <2>1, <2>2, <2>4
      <3> QED
        BY <2>1, <3>1 DEF Settles
    <2> QED
      BY <2>3, <2>4
  <1> QED
    BY <1>inv, <1>1, <1>2, TimerSteps, DeleteFacts DEF Quiet, Turn

\* The timers' invariant holds in every reachable state.
LEMMA TimersInvariant == Spec => []MInv
  <1>1. Init => MInv
    BY InitIInv DEF Init, StoreInit, Idle, MInv, TimersMatchActivity, FiringIsDue, Reported
  <1>2. MInv /\ [Next]_vars => MInv'
    <2>1. MInv /\ Next => MInv'
      BY NextIInv, FiringKept, MatchKept, ReportedKept DEF MInv
    <2>2. MInv /\ UNCHANGED vars => MInv'
      <3> SUFFICES ASSUME MInv, UNCHANGED vars PROVE MInv'
        OBVIOUS
      <3>1. IInv'
        BY NextIInv DEF MInv
      <3> QED
        BY <3>1 DEF vars, MInv, TimersMatchActivity, FiringIsDue, Reported
    <2> QED
      BY <2>1, <2>2
  <1> QED
    BY <1>1, <1>2, PTL DEF Spec

\* Whatever inbound messages, replies, timer workers and rule edits do together,
\* a pending timer waits for the silence there is, and no rule has two.
THEOREM TimersWaitForSilence == Spec => []TimersMatchActivity
  BY TimersInvariant, PTL DEF MInv

\* Any number of timer workers publish one event per timer, and none for a
\* conversation that was answered in the meantime.
THEOREM SilencesReportedOnce == Spec => SilenceReportedOnce
  <1>1. ASSUME MInv, Next, outbox' # outbox
        PROVE  LET x == outbox'[Len(outbox')]
               IN  /\ \A i \in 1 .. Len(outbox) : outbox[i] # x
                   /\ last[x.conversation_id] = After(x.trigger_type)
    <2>inv. TypeOK /\ outbox \in Seq(Timer)
      BY <1>1 DEF MInv, IInv, TypeOK
    <2>1. PICK t \in Tx : FireTimer(t)
      BY <1>1, <2>inv, TimerSteps, DeleteFacts DEF Quiet, Turn
    <2>2. PICK x \in timers : x.status = "pending" /\ outbox' = Append(outbox, x)
      BY <1>1, <2>1, FireFacts
    <2>3. x \in Timer /\ outbox'[Len(outbox')] = x
      BY <2>inv, <2>2 DEF TypeOK
    <2>4. last[x.conversation_id] = After(x.trigger_type)
      BY <1>1, <2>2 DEF MInv, TimersMatchActivity, After
    <2>5. \A i \in 1 .. Len(outbox) : outbox[i] # x
      BY <1>1, <2>2 DEF MInv, Reported
    <2> QED
      BY <2>3, <2>4, <2>5
  <1>2. MInv /\ [Next]_vars =>
          [outbox' # outbox =>
             LET x == outbox'[Len(outbox')] IN
               /\ \A i \in 1..Len(outbox) : outbox[i] # x
               /\ last[x.conversation_id] =
                    IF x.trigger_type = "team_unanswered" THEN "inbound" ELSE "outbound"]_vars
    BY <1>1 DEF After
  <1> QED
    BY <1>2, TimersInvariant, PTL DEF Spec, SilenceReportedOnce

-----------------------------------------------------------------------------
(* Messaging implements MessageLifecycle, and with it what the lifecycle   *)
(* promises about copies, accepted messages and cancellation.              *)

LifecycleStep == Lifecycle!Next \/ UNCHANGED Lifecycle!vars

-----------------------------------------------------------------------------
(* The phase of a message is that of the one transaction sending it.       *)

\* Only the transaction that holds a message can be sending it.
LEMMA SenderHolds ==
  ASSUME IInv, NEW t \in Tx, NEW m \in Messages, Sending(t, m)
  PROVE  lock[m] = t /\ msg[m].status = "queued"
  BY DEF Sending, IInv, ClaimsHeld, Holding

\* The phase of a message is where its sender is ...
LEMMA PhaseOfSender ==
  ASSUME IInv, NEW t \in Tx, NEW m \in Messages, Sending(t, m)
  PROVE  SendPhase(m) = IF tx[t].op = "calling" THEN "calling"
                        ELSE IF tx[t].outcome.taken THEN "taken" ELSE "refused"
  <1>1. \A u \in Tx : Sending(u, m) => u = t
    BY SenderHolds
  <1> QED
    BY <1>1 DEF Sending, SendPhase, TakenInFlight

\* ... and a message nobody sends is at rest.
LEMMA PhaseAtRest ==
  ASSUME NEW m \in Messages, \A t \in Tx : ~Sending(t, m)
  PROVE  SendPhase(m) = "rest"
  BY DEF Sending, SendPhase, TakenInFlight

\* A step that neither starts, moves nor ends a call leaves the phase alone.
LEMMA PhaseKept ==
  ASSUME NEW m \in Messages,
         \A u \in Tx : Sending(u, m) \/ Sending(u, m)' => tx'[u] = tx[u]
  PROVE  SendPhase(m)' = SendPhase(m)
  BY DEF Sending, SendPhase, TakenInFlight

\* A step of a transaction that is in no call, before or after, moves no phase.
LEMMA PhasesKept ==
  ASSUME NEW t \in Tx, \A u \in Tx \ {t} : tx'[u] = tx[u],
         tx[t].op \notin InCall, tx'[t].op \notin InCall
  PROVE  \A m \in Messages : SendPhase(m)' = SendPhase(m)
  BY PhaseKept DEF Sending, InCall

\* A message nobody else holds, met by a transaction that is not in a call.
LEMMA FreeMessageWaits ==
  ASSUME IInv, NEW t \in Tx, tx[t].op \notin InCall, NEW m \in Messages,
         lock[m] \in {t, NoOne}, msg[m].status = "queued"
  PROVE  Lifecycle!Waiting(m)
  <1>1. \A u \in Tx : ~Sending(u, m)
    BY SenderHolds, StoreAssumption DEF Sending, InCall
  <1> QED
    BY <1>1, PhaseAtRest DEF Lifecycle!Waiting

-----------------------------------------------------------------------------
(* Shapes of a step.                                                       *)

\* A step that touches no message and no call is a stutter of the lifecycle.
LEMMA QuietStep ==
  ASSUME UNCHANGED <<msg, copies, lost, acked>>,
         \A m \in Messages : SendPhase(m)' = SendPhase(m)
  PROVE  LifecycleStep
  BY DEF LifecycleStep, Lifecycle!vars

\* The cancelling UPDATE of a mode change or a handoff cancels waiting messages.
LEMMA CancelStep ==
  ASSUME IInv, NEW t \in Tx, tx[t].op \in {"human", "takeover", "handoff"}, End(t),
         NEW c, msg' = Cancelled(c, tx[t].targets), UNCHANGED sending,
         \A m \in tx[t].targets : lock[m] \in {t, NoOne}
  PROVE  LifecycleStep
  <1>ty. TypeOK
    BY DEF IInv
  <1>1. PICK hit \in SUBSET Messages : hit = tx[t].targets \cap QueuedAi(c)
    BY DEF QueuedAi
  <1>2. \A m \in hit : Lifecycle!Waiting(m)
    BY <1>1, FreeMessageWaits DEF QueuedAi, InCall
  <1>3. /\ tx'[t] = Idle
        /\ \A u \in Tx \ {t} : tx'[u] = tx[u]
    BY <1>ty, EndKeeps DEF Kept
  <1>4. \A m \in Messages : SendPhase(m)' = SendPhase(m)
    BY <1>3, PhasesKept DEF InCall, Idle
  <1>5. \A m \in Messages :
          /\ msg[m] \in Message
          /\ msg'[m] = IF m \in hit THEN WithStatus(msg[m], "cancelled") ELSE msg[m]
    BY <1>1, <1>ty DEF Cancelled, TypeOK
  <1>6. \A m \in Messages :
          /\ msg'[m].status = IF m \in hit THEN "cancelled" ELSE msg[m].status
          /\ msg'[m].provider_message_id = msg[m].provider_message_id
          /\ msg'[m].receipt = msg[m].receipt
    BY <1>5 DEF WithStatus, Message
  <1>7. [m \in Messages |-> msg'[m].status] =
          [m \in Messages |->
             IF m \in hit THEN "cancelled"
               ELSE [n \in Messages |-> msg[n].status][m]]
    BY <1>6
  <1>8. UNCHANGED <<[m \in Messages |-> SendPhase(m)], copies,
                    [m \in Messages |-> lost[m] + acked[m]],
                    {m \in Messages : msg[m].provider_message_id},
                    {m \in Messages : msg[m].receipt}>>
    BY <1>4, <1>6 DEF sending
  <1>9. Lifecycle!Cancel(hit)
    BY <1>2, <1>7, <1>8 DEF Lifecycle!Cancel
  <1> QED
    BY <1>1, <1>9 DEF LifecycleStep, Lifecycle!Next

\* An insert queues one message.
LEMMA QueueStep ==
  ASSUME TypeOK, NEW m \in Messages, NEW row \in Message, Insert(m, row),
         row.status = "queued", ~row.provider_message_id, ~row.receipt,
         ~msg[m].provider_message_id, ~msg[m].receipt,
         UNCHANGED sending, \A n \in Messages : SendPhase(n)' = SendPhase(n)
  PROVE  LifecycleStep
  <1>1. \A n \in Messages : msg'[n] = IF n = m THEN row ELSE msg[n]
    BY DEF Insert, TypeOK
  <1>2. Lifecycle!Queue(m)
    BY <1>1 DEF Lifecycle!Queue, sending, Insert, TypeOK
  <1> QED
    BY <1>2 DEF LifecycleStep, Lifecycle!Next
RInv == IInv /\ Lifecycle!LInv

\* A message without an accepted call has no provider id, and one that is not
\* written has no receipt.
LEMMA Blank ==
  ASSUME RInv, NEW m \in Messages
  PROVE  /\ msg[m].status \notin Accepted \cup {"failed"} => ~msg[m].provider_message_id
         /\ msg[m].status = "absent" => ~msg[m].receipt
  BY DEF RInv, Lifecycle!LInv, Lifecycle!InStep, Lifecycle!Accepted, Accepted

-----------------------------------------------------------------------------
(* Every action maps to a step of the lifecycle or to none.                *)

\* The begin of a transaction is a stutter of the lifecycle.
LEMMA BeginRefines ==
  ASSUME TypeOK, NEW t \in Tx, NEW work, NEW row, Begin(t, work, row),
         work.op \notin InCall, UNCHANGED <<msg, copies, lost, acked>>
  PROVE  LifecycleStep
  <1>1. /\ tx[t] = Idle /\ tx'[t] = work
        /\ \A u \in Tx \ {t} : tx'[u] = tx[u]
    BY DEF Begin, Goto, TypeOK
  <1> QED
    BY <1>1, PhasesKept, QuietStep DEF Idle, InCall

\* The control operations cancel waiting messages or none.
LEMMA ControlRefines == RInv /\ ControlNext => LifecycleStep
  <1> SUFFICES ASSUME RInv, ControlNext PROVE LifecycleStep
    OBVIOUS
  <1> USE DEF timing, sending
  <1>inv. IInv /\ TypeOK
    BY DEF RInv, IInv
  <1>1. ASSUME NEW u \in Users, NEW c \in Conversations, SetModeActive(u, c)
        PROVE  LifecycleStep
    BY <1>1, QuietStep, PhaseKept DEF SetModeActive
  <1>3. ASSUME NEW t \in Tx, NEW u \in Users, NEW c \in Conversations,
               NEW takeover \in BOOLEAN, SetModeHumanBegin(t, u, c, takeover)
        PROVE  LifecycleStep
    BY <1>3, <1>inv, BeginRefines DEF SetModeHumanBegin, InCall
  <1>4. ASSUME NEW t \in Tx, SetModeHuman(t) \/ Handoff(t)
        PROVE  LifecycleStep
    <2>1. /\ tx[t].op \in {"human", "handoff"} /\ End(t) /\ UNCHANGED sending
          /\ AllFree(tx[t].targets) /\ msg' = Cancelled(tx[t].c, tx[t].targets)
      BY <1>4 DEF SetModeHuman, Handoff
    <2>2. PICK c : c = tx[t].c
      OBVIOUS
    <2> QED
      BY <1>inv, <2>1, <2>2, CancelStep DEF AllFree, Free
  <1>5. ASSUME NEW t \in Tx, TakeoverFence(t)
        PROVE  LifecycleStep
    <2>1. /\ tx[t].op = "human" /\ tx'[t].op = "takeover"
          /\ \A u \in Tx \ {t} : tx'[u] = tx[u]
      BY <1>5, <1>inv DEF TakeoverFence, Goto, TypeOK
    <2> QED
      BY <1>5, <2>1, PhasesKept, QuietStep DEF TakeoverFence, InCall
  <1>6. ASSUME NEW t \in Tx,
               TakeoverWithoutTransfer(t) \/ \E g \in Triggers : TakeoverWithTransfer(t, g)
        PROVE  LifecycleStep
    <2>1. /\ tx[t].op = "takeover" /\ End(t) /\ UNCHANGED sending
          /\ msg' = Cancelled(tx[t].c, tx[t].targets)
      BY <1>6 DEF TakeoverWithoutTransfer, TakeoverWithTransfer
    <2>2. \A m \in tx[t].targets : lock[m] = t
      BY <1>inv, <2>1 DEF IInv, ClaimsHeld, Holding
    <2>3. PICK c : c = tx[t].c
      OBVIOUS
    <2> QED
      BY <1>inv, <2>1, <2>2, <2>3, CancelStep
  <1>7. ASSUME NEW t \in Tx, NEW by \in Users \cup {NoOne},
               NEW recipient \in Users \cup {NoOne}, NEW c \in Conversations,
               NEW g \in Triggers, HandoffBegin(t, by, c, g, recipient)
        PROVE  LifecycleStep
    BY <1>7, <1>inv, BeginRefines DEF HandoffBegin, InCall
  <1>8. ASSUME NEW t \in Tx, NEW u \in Users, NEW g \in Triggers,
               AcceptHandoffBegin(t, u, g)
        PROVE  LifecycleStep
    BY <1>8, <1>inv, BeginRefines DEF AcceptHandoffBegin, InCall
  <1>9. ASSUME NEW t \in Tx, AcceptHandoff(t)
        PROVE  LifecycleStep
    <2>1. tx[t].op = "accept" /\ End(t)
      BY <1>9 DEF AcceptHandoff
    <2> QED
      BY <1>9, <1>inv, <2>1, EndKeeps, PhasesKept, QuietStep
         DEF AcceptHandoff, Kept, InCall, Idle
  <1> QED
    BY <1>1, <1>3, <1>4, <1>5, <1>6, <1>7, <1>8, <1>9 DEF ControlNext

\* A transaction that was not in a call ends.
LEMMA EndPhases ==
  ASSUME TypeOK, NEW t \in Tx, End(t), tx[t].op \notin InCall
  PROVE  \A m \in Messages : SendPhase(m)' = SendPhase(m)
  BY EndKeeps, PhasesKept DEF Kept, Idle, InCall

\* A new message enters the lifecycle.
LEMMA InsertRefines ==
  ASSUME RInv, NEW t \in Tx, End(t), tx[t].op \notin InCall,
         NEW m \in Messages, NEW c \in Conversations, NEW author \in Authors,
         NEW composed \in Nat, NEW stamped \in BOOLEAN, NEW key \in Keys \cup {NoOne},
         Insert(m, NewMessage(c, author, composed, stamped, key)),
         UNCHANGED <<copies, lost, acked>>
  PROVE  LifecycleStep
  <1>1. PICK row : row = NewMessage(c, author, composed, stamped, key)
    OBVIOUS
  <1>2. /\ row \in Message
        /\ row.status = "queued" /\ ~row.provider_message_id /\ ~row.receipt
    BY <1>1, NewMessageType DEF NewMessage
  <1>3. Insert(m, row) /\ ~msg[m].provider_message_id /\ ~msg[m].receipt
    BY <1>1, Blank DEF Insert, Accepted
  <1>4. TypeOK
    BY DEF RInv, IInv
  <1> QED
    BY <1>2, <1>3, <1>4, EndPhases, QueueStep DEF sending

\* Inbound routing may queue the off-hours reply; timers, rules and tasks stutter.
LEMMA TimersRefine == RInv /\ TimersNext => LifecycleStep
  <1> SUFFICES ASSUME RInv, TimersNext PROVE LifecycleStep
    OBVIOUS
  <1> USE DEF timing, sending
  <1>ty. TypeOK
    BY DEF RInv, IInv
  <1>1. ASSUME NEW t \in Tx, NEW c \in Conversations, NEW id \in InboundIds,
               RouteInboundBegin(t, c, id)
        PROVE  LifecycleStep
    BY <1>1, <1>ty, BeginRefines DEF RouteInboundBegin, InCall
  <1>2. ASSUME NEW t \in Tx, RouteInbound(t) \/ RouteInboundOffHours(t), UNCHANGED msg
        PROVE  LifecycleStep
    <2>1. tx[t].op = "routing" /\ End(t) /\ UNCHANGED sending
      BY <1>2 DEF RouteInbound, RouteInboundOffHours, InboundEffects
    <2> QED
      BY <1>2, <1>ty, <2>1, EndPhases, QuietStep DEF InCall
  <1>3. ASSUME NEW t \in Tx, RouteInboundOffHours(t), ~UNCHANGED msg
        PROVE  LifecycleStep
    <2>1. tx[t].op = "routing" /\ End(t) /\ UNCHANGED sending
      BY <1>3 DEF RouteInboundOffHours, InboundEffects
    <2>2. PICK c \in Conversations : c = tx[t].c
      BY <1>ty, <2>1, WorkFields DEF TypeOK
    <2>3. PICK m \in Messages : Insert(m, NewMessage(c, "system", 0, FALSE, NoOne))
      BY <1>3, <2>2 DEF RouteInboundOffHours
    <2> QED
      BY <2>1, <2>3, InsertRefines DEF Authors, InCall
  <1>4. ASSUME NEW t \in Tx, NEW x \in timers, FireTimerBegin(t, x)
        PROVE  LifecycleStep
    BY <1>4, <1>ty, BeginRefines DEF FireTimerBegin, InCall
  <1>5. ASSUME NEW t \in Tx, FireTimer(t)
        PROVE  LifecycleStep
    <2>1. tx[t].op = "firing" /\ End(t)
      BY <1>5 DEF FireTimer
    <2> QED
      BY <1>5, <1>ty, <2>1, EndPhases, QuietStep DEF FireTimer, InCall
  <1>6. ASSUME UNCHANGED <<msg, tx, sending>>
        PROVE  LifecycleStep
    BY <1>6, PhaseKept, QuietStep
  <1> QED
    BY <1>1, <1>2, <1>3, <1>4, <1>5, <1>6
       DEF TimersNext, RouteInbound, CloseTask, ReopenTask, UpdateRule, DeleteRule

\* What a column assignment leaves alone.
LEMMA StatusFields ==
  ASSUME NEW row \in Message, NEW s
  PROVE  /\ WithStatus(row, s).status = s
         /\ WithStatus(row, s).provider_message_id = row.provider_message_id
         /\ WithStatus(row, s).receipt = row.receipt
  BY DEF WithStatus, Message

\* The same for the other columns.
LEMMA ColumnFields ==
  ASSUME NEW row \in Message, NEW v
  PROVE  /\ WithProviderId(row, v).status = row.status
         /\ WithProviderId(row, v).provider_message_id = v
         /\ WithProviderId(row, v).receipt = row.receipt
         /\ WithAttempt(row, v).status = row.status
         /\ WithAttempt(row, v).provider_message_id = row.provider_message_id
         /\ WithAttempt(row, v).receipt = row.receipt
         /\ WithReceipt(row).status = row.status
         /\ WithReceipt(row).provider_message_id = row.provider_message_id
         /\ WithReceipt(row).receipt = TRUE
  BY DEF WithProviderId, WithAttempt, WithReceipt, Message

\* What dispatch stores of the provider's answer.
LEMMA RecordedFields ==
  ASSUME TypeOK, NEW m \in Messages, NEW outcome \in Outcomes
  PROVE  /\ Recorded(m, outcome).status = outcome.status
         /\ Recorded(m, outcome).receipt = msg[m].receipt
         /\ Recorded(m, outcome).provider_message_id =
              IF outcome.status = "sent" THEN outcome.id
                ELSE msg[m].provider_message_id
  <1>1. /\ msg[m] \in Message /\ outcome.status \in {"sent", "failed", "unknown"}
        /\ AttemptStatus(outcome.status) \in {"accepted", "rejected", "unknown"}
    BY DEF TypeOK, Outcomes, AttemptStatus
  <1> DEFINE row == WithStatus(msg[m], outcome.status)
             tried == WithAttempt(row, AttemptStatus(outcome.status))
  <1>2. row \in Message
    BY <1>1, MessageColumns DEF Statuses
  <1>3. tried \in Message
    BY <1>1, <1>2, MessageColumns
  <1>4. /\ row.status = outcome.status /\ row.receipt = msg[m].receipt
        /\ row.provider_message_id = msg[m].provider_message_id
    BY <1>1, StatusFields
  <1>5. /\ tried.status = row.status /\ tried.receipt = row.receipt
        /\ tried.provider_message_id = row.provider_message_id
    BY <1>2, ColumnFields
  <1>6. CASE outcome.status = "sent"
    <2>1. Recorded(m, outcome) = WithProviderId(tried, outcome.id)
      BY <1>6 DEF Recorded
    <2>2. /\ WithProviderId(tried, outcome.id).status = tried.status
          /\ WithProviderId(tried, outcome.id).receipt = tried.receipt
          /\ WithProviderId(tried, outcome.id).provider_message_id = outcome.id
      BY <1>3, ColumnFields
    <2> QED
      BY <1>4, <1>5, <1>6, <2>1, <2>2
  <1>7. CASE outcome.status # "sent"
    <2>1. Recorded(m, outcome) = tried
      BY <1>7 DEF Recorded
    <2> QED
      BY <1>4, <1>5, <1>7, <2>1
  <1> QED
    BY <1>6, <1>7

\* How one written row changes the abstract statuses and id sets.
LEMMA RowWritten ==
  ASSUME TypeOK, NEW m \in Messages, NEW row, msg' = [msg EXCEPT ![m] = row]
  PROVE  /\ [n \in Messages |-> msg[n].status]' =
              [[n \in Messages |-> msg[n].status] EXCEPT ![m] = row.status]
         /\ row.provider_message_id = msg[m].provider_message_id =>
              UNCHANGED {n \in Messages : msg[n].provider_message_id}
         /\ row.provider_message_id =>
              {n \in Messages : msg[n].provider_message_id}' =
                {n \in Messages : msg[n].provider_message_id} \cup {m}
         /\ row.receipt = msg[m].receipt =>
              UNCHANGED {n \in Messages : msg[n].receipt}
         /\ row.receipt =>
              {n \in Messages : msg[n].receipt}' =
                {n \in Messages : msg[n].receipt} \cup {m}
  <1>1. \A n \in Messages : msg'[n] = IF n = m THEN row ELSE msg[n]
    BY DEF TypeOK
  <1>2. [n \in Messages |-> msg[n].status]' =
          [[n \in Messages |-> msg[n].status] EXCEPT ![m] = row.status]
    <2>1. \A n \in Messages :
            msg'[n].status = IF n = m THEN row.status ELSE msg[n].status
      BY <1>1
    <2> QED
      BY <2>1
  <1>3. ASSUME row.provider_message_id = msg[m].provider_message_id
        PROVE  UNCHANGED {n \in Messages : msg[n].provider_message_id}
    BY <1>1, <1>3
  <1>4. ASSUME row.provider_message_id
        PROVE  {n \in Messages : msg[n].provider_message_id}' =
                 {n \in Messages : msg[n].provider_message_id} \cup {m}
    BY <1>1, <1>4
  <1>5. ASSUME row.receipt = msg[m].receipt
        PROVE  UNCHANGED {n \in Messages : msg[n].receipt}
    BY <1>1, <1>5
  <1>6. ASSUME row.receipt
        PROVE  {n \in Messages : msg[n].receipt}' =
                 {n \in Messages : msg[n].receipt} \cup {m}
    BY <1>1, <1>6
  <1> QED
    BY <1>2, <1>3, <1>4, <1>5, <1>6

\* A call starts, is answered or ends: the phases of the other messages stay.
LEMMA PhaseWritten ==
  ASSUME NEW t \in Tx, NEW m \in Messages, NEW p,
         \A u \in Tx \ {t} : tx'[u] = tx[u],
         \A n \in Messages \ {m} : ~Sending(t, n) /\ ~Sending(t, n)',
         SendPhase(m)' = p
  PROVE  [n \in Messages |-> SendPhase(n)]' =
           [[n \in Messages |-> SendPhase(n)] EXCEPT ![m] = p]
  <1>1. \A n \in Messages \ {m} : SendPhase(n)' = SendPhase(n)
    BY PhaseKept
  <1> QED
    BY <1>1

\* The holder of a message ends: nobody is sending it any more.
LEMMA PhaseEnded ==
  ASSUME IInv, NEW t \in Tx, NEW m \in Messages, lock[m] = t, End(t)
  PROVE  SendPhase(m)' = "rest"
  <1>1. tx'[t] = Idle /\ \A u \in Tx \ {t} : tx'[u] = tx[u]
    BY EndKeeps DEF IInv, Kept
  <1>2. \A u \in Tx : ~Sending(u, m)'
    BY <1>1, SenderHolds DEF Sending, Idle
  <1> QED
    BY <1>2 DEF Sending, SendPhase, TakenInFlight

\* The step at the end of a call writes the message's row and puts it to rest.
LEMMA CallEnds ==
  ASSUME IInv, NEW t \in Tx, NEW m \in Messages, Sending(t, m), End(t)
  PROVE  [n \in Messages |-> SendPhase(n)]' =
           [[n \in Messages |-> SendPhase(n)] EXCEPT ![m] = "rest"]
  <1>1. tx'[t] = Idle /\ \A u \in Tx \ {t} : tx'[u] = tx[u]
    BY EndKeeps DEF IInv, Kept
  <1>2. SendPhase(m)' = "rest"
    BY SenderHolds, PhaseEnded
  <1>3. \A n \in Messages \ {m} : ~Sending(t, n) /\ ~Sending(t, n)'
    BY <1>1 DEF Sending, Idle
  <1> QED
    BY <1>1, <1>2, <1>3, PhaseWritten

\* A claimed message is cancelled by the fence, refused, or its call starts.
LEMMA ClaimedRefines ==
  ASSUME IInv, NEW t \in Tx,
         FenceMessage(t) \/ FailUnsupported(t) \/ CallProvider(t)
  PROVE  LifecycleStep
  <1> USE DEF timing, sending
  <1>ty. TypeOK
    BY DEF IInv
  <1>1. tx[t].op = "claimed" /\ lock[tx[t].m] = t /\ msg[tx[t].m].status = "queued"
    BY DEF FenceMessage, FailUnsupported, CallProvider, IInv, ClaimsHeld, Holding
  <1>2. PICK m \in Messages : m = tx[t].m
    BY <1>ty, <1>1, WorkFields DEF TypeOK
  <1>3. Lifecycle!Waiting(m) /\ msg[m] \in Message
    BY <1>1, <1>2, <1>ty, FreeMessageWaits DEF InCall, TypeOK
  <1>4. CASE FenceMessage(t) \/ FailUnsupported(t)
    <2>1. PICK s \in {"cancelled", "failed"} :
            /\ msg' = [msg EXCEPT ![m] = WithStatus(msg[m], s)]
            /\ FenceMessage(t) => s = "cancelled"
            /\ FailUnsupported(t) => s = "failed"
      BY <1>2, <1>4 DEF FenceMessage, FailUnsupported
    <2>2. PICK row : row = WithStatus(msg[m], s)
      OBVIOUS
    <2>3. /\ msg' = [msg EXCEPT ![m] = row]
          /\ row.status = s /\ row.receipt = msg[m].receipt
          /\ row.provider_message_id = msg[m].provider_message_id
      BY <1>3, <2>1, <2>2, StatusFields
    <2>4. /\ [n \in Messages |-> msg[n].status]' =
               [[n \in Messages |-> msg[n].status] EXCEPT ![m] = s]
          /\ UNCHANGED {n \in Messages : msg[n].provider_message_id}
          /\ UNCHANGED {n \in Messages : msg[n].receipt}
      BY <1>ty, <2>3, RowWritten
    <2>5. UNCHANGED <<[n \in Messages |-> SendPhase(n)], copies, lost, acked>>
      BY <1>ty, <1>1, <1>4, EndPhases DEF FenceMessage, FailUnsupported, InCall
    <2>6. CASE s = "failed"
      <3>1. Lifecycle!Refuse(m)
        BY <1>3, <2>4, <2>5, <2>6 DEF Lifecycle!Refuse
      <3> QED
        BY <3>1 DEF LifecycleStep, Lifecycle!Next
    <2>7. CASE s = "cancelled"
      <3>1. [n \in Messages |-> msg[n].status]' =
              [n \in Messages |-> IF n \in {m} THEN "cancelled"
                 ELSE [k \in Messages |-> msg[k].status][n]]
        BY <2>4, <2>7
      <3>2. Lifecycle!Cancel({m})
        BY <1>3, <2>4, <2>5, <3>1 DEF Lifecycle!Cancel
      <3> QED
        BY <3>2 DEF LifecycleStep, Lifecycle!Next
    <2> QED
      BY <2>6, <2>7
  <1>5. CASE CallProvider(t)
    <2>1. /\ tx'[t] = [op |-> "calling", m |-> m]
          /\ \A u \in Tx \ {t} : tx'[u] = tx[u]
          /\ UNCHANGED <<msg, copies, lost, acked>>
      BY <1>2, <1>5, <1>ty DEF CallProvider, Goto, TypeOK
    <2>2. SendPhase(m)' = "calling"
      BY <2>1 DEF SendPhase
    <2>3. \A n \in Messages \ {m} : ~Sending(t, n) /\ ~Sending(t, n)'
      BY <1>1, <2>1 DEF Sending
    <2>4. [n \in Messages |-> SendPhase(n)]' =
            [[n \in Messages |-> SendPhase(n)] EXCEPT ![m] = "calling"]
      BY <2>1, <2>2, <2>3, PhaseWritten
    <2>5. Lifecycle!Call(m)
      BY <1>3, <2>1, <2>4 DEF Lifecycle!Call
    <2> QED
      BY <2>5 DEF LifecycleStep, Lifecycle!Next
  <1> QED
    BY <1>4, <1>5

\* The answer of the provider, taken or not.
LEMMA AnswerRefines ==
  ASSUME IInv, NEW t \in Tx, NEW outcome \in Outcomes, ProviderAnswers(t, outcome)
  PROVE  LifecycleStep
  <1>ty. TypeOK
    BY DEF IInv
  <1>1. tx[t].op = "calling"
    BY DEF ProviderAnswers
  <1>2. PICK m \in Messages : m = tx[t].m
    BY <1>ty, <1>1, WorkFields DEF TypeOK
  <1>3. Sending(t, m) /\ SendPhase(m) = "calling"
    BY <1>1, <1>2, PhaseOfSender DEF Sending
  <1>4. /\ tx'[t] = [op |-> "answered", m |-> m, outcome |-> outcome]
        /\ \A u \in Tx \ {t} : tx'[u] = tx[u]
        /\ copies' = [copies EXCEPT ![m] = @ + IF outcome.taken THEN 1 ELSE 0]
        /\ UNCHANGED <<msg, lost, acked>>
    BY <1>2, <1>ty DEF ProviderAnswers, Goto, TypeOK
  <1>5. \A u \in Tx \ {t} : ~Sending(u, m) /\ ~Sending(u, m)'
    BY <1>3, <1>4, SenderHolds DEF Sending
  <1>6. SendPhase(m)' = IF outcome.taken THEN "taken" ELSE "refused"
    BY <1>4, <1>5 DEF SendPhase, TakenInFlight, Sending
  <1>7. \A n \in Messages \ {m} : ~Sending(t, n) /\ ~Sending(t, n)'
    BY <1>2, <1>4 DEF Sending
  <1>8. CASE outcome.taken
    <2>1. [n \in Messages |-> SendPhase(n)]' =
            [[n \in Messages |-> SendPhase(n)] EXCEPT ![m] = "taken"]
      BY <1>4, <1>6, <1>7, <1>8, PhaseWritten
    <2>2. Lifecycle!Answer(m)
      BY <1>3, <1>4, <1>8, <2>1 DEF Lifecycle!Answer
    <2> QED
      BY <2>2 DEF LifecycleStep, Lifecycle!Next
  <1>9. CASE ~outcome.taken
    <2>1. [n \in Messages |-> SendPhase(n)]' =
            [[n \in Messages |-> SendPhase(n)] EXCEPT ![m] = "refused"]
      BY <1>4, <1>6, <1>7, <1>9, PhaseWritten
    <2>2. copies' = copies
      BY <1>4, <1>9, <1>ty DEF TypeOK
    <2>3. Lifecycle!Answer(m)
      BY <1>3, <1>4, <2>1, <2>2 DEF Lifecycle!Answer
    <2> QED
      BY <2>3 DEF LifecycleStep, Lifecycle!Next
  <1> QED
    BY <1>8, <1>9

\* Committing the outcome of the call.
LEMMA RecordRefines ==
  ASSUME RInv, NEW t \in Tx, RecordFailure(t) \/ RecordSent(t)
  PROVE  LifecycleStep
  <1> USE DEF timing, sending
  <1>inv. IInv /\ TypeOK
    BY DEF RInv, IInv
  <1>1. tx[t].op = "answered" /\ End(t) /\ UNCHANGED <<copies, lost, acked>>
    BY DEF RecordFailure, RecordSent
  <1>2. PICK m \in Messages, outcome \in Outcomes : m = tx[t].m /\ outcome = tx[t].outcome
    BY <1>inv, <1>1, WorkFields DEF TypeOK
  <1>3. Sending(t, m)
    BY <1>1, <1>2 DEF Sending
  <1>4. /\ outcome.status \in {"sent", "failed", "unknown"}
        /\ outcome.status = "sent" => outcome.taken = TRUE
    BY DEF Outcomes
  <1>5. /\ SendPhase(m) \in {"refused", "taken"}
        /\ outcome.status = "sent" => SendPhase(m) = "taken"
    BY <1>inv, <1>1, <1>2, <1>3, <1>4, PhaseOfSender
  <1>6. [n \in Messages |-> SendPhase(n)]' =
          [[n \in Messages |-> SendPhase(n)] EXCEPT ![m] = "rest"]
    BY <1>inv, <1>1, <1>3, CallEnds
  <1>7. PICK row : row = Recorded(m, outcome)
    OBVIOUS
  <1>upd. msg' = [msg EXCEPT ![m] = row]
    BY <1>2, <1>7 DEF RecordFailure, RecordSent
  <1>8. /\ row.status = outcome.status /\ row.receipt = msg[m].receipt
        /\ row.provider_message_id = IF outcome.status = "sent" THEN outcome.id
                                       ELSE msg[m].provider_message_id
    BY <1>inv, <1>7, RecordedFields
  <1>9. ~msg[m].provider_message_id
    BY <1>inv, <1>3, SenderHolds, Blank DEF Accepted
  <1>10. PICK s \in {"sent", "failed", "unknown"} : s = outcome.status
    BY <1>4
  <1>11. /\ [n \in Messages |-> msg[n].status]' =
              [[n \in Messages |-> msg[n].status] EXCEPT ![m] = s]
         /\ UNCHANGED {n \in Messages : msg[n].receipt}
    <2>1. row.status = s /\ row.receipt = msg[m].receipt
      BY <1>8, <1>10
    <2> QED
      BY <1>inv, <1>upd, <2>1, RowWritten
  <1>12. CASE row.provider_message_id = msg[m].provider_message_id
    <2>1. UNCHANGED {n \in Messages : msg[n].provider_message_id}
      BY <1>inv, <1>upd, <1>12, RowWritten
    <2>2. Lifecycle!Commit(m, s)
      BY <1>1, <1>5, <1>6, <1>10, <1>11, <2>1 DEF Lifecycle!Commit
    <2> QED
      BY <2>2 DEF LifecycleStep, Lifecycle!Next
  <1>13. CASE row.provider_message_id # msg[m].provider_message_id
    <2>1. outcome.status = "sent" /\ outcome.id \in BOOLEAN
      BY <1>8, <1>13 DEF Outcomes
    <2>2. row.provider_message_id
      <3>1. msg[m].provider_message_id \in BOOLEAN
        BY <1>inv DEF TypeOK, Message
      <3> QED
        BY <1>8, <1>9, <1>13, <2>1, <3>1
    <2>3. {n \in Messages : msg[n].provider_message_id}' =
            {n \in Messages : msg[n].provider_message_id} \cup {m}
      BY <1>inv, <1>upd, <2>2, RowWritten
    <2>4. Lifecycle!Commit(m, s)
      BY <1>1, <1>5, <1>6, <1>10, <1>11, <2>1, <2>3 DEF Lifecycle!Commit
    <2> QED
      BY <2>4 DEF LifecycleStep, Lifecycle!Next
  <1> QED
    BY <1>12, <1>13

\* A rolled back dispatch loses the answer; any other rollback changes nothing.
LEMMA RollbackRefines ==
  ASSUME IInv, NEW t \in Tx, Rollback(t)
  PROVE  LifecycleStep
  <1>ty. TypeOK
    BY DEF IInv
  <1>1. End(t) /\ UNCHANGED <<msg, copies, acked>>
    BY DEF Rollback
  <1>2. CASE tx[t].op \notin InCall
    <2>1. lost' = lost
      BY <1>2, <1>ty DEF Rollback, InCall, TypeOK
    <2> QED
      BY <1>ty, <1>1, <1>2, <2>1, EndPhases, QuietStep
  <1>3. CASE tx[t].op \in InCall
    <2>1. PICK m \in Messages : m = tx[t].m
      BY <1>ty, <1>3, WorkFields DEF TypeOK, InCall
    <2>2. Sending(t, m)
      BY <1>3, <2>1 DEF Sending, InCall
    <2>3. [n \in Messages |-> SendPhase(n)]' =
            [[n \in Messages |-> SendPhase(n)] EXCEPT ![m] = "rest"]
      BY <1>1, <2>2, CallEnds
    <2>4. /\ SendPhase(m) # "rest"
          /\ (tx[t].op = "answered" /\ tx[t].outcome.taken) <=> SendPhase(m) = "taken"
      BY <1>3, <2>2, PhaseOfSender DEF InCall
    <2>5. PICK d \in {0, 1} : d = IF SendPhase(m) = "taken" THEN 1 ELSE 0
      OBVIOUS
    <2>6. [n \in Messages |-> lost[n] + acked[n]]' =
            [[n \in Messages |-> lost[n] + acked[n]] EXCEPT ![m] = @ + d]
      <3>1. \A n \in Messages :
              lost'[n] = lost[n] + IF tx[t].op = "answered" /\ tx[t].m = n
                                      /\ tx[t].outcome.taken THEN 1 ELSE 0
        BY DEF Rollback
      <3>2. \A n \in Messages : lost'[n] = IF n = m THEN lost[n] + d ELSE lost[n]
        BY <1>ty, <2>1, <2>4, <2>5, <3>1 DEF TypeOK
      <3>3. \A n \in Messages :
              /\ lost[n] \in Nat /\ acked[n] \in Nat /\ acked'[n] = acked[n]
        BY <1>1, <1>ty DEF TypeOK
      <3>4. \A n \in Messages : lost'[n] + acked'[n] =
              IF n = m THEN (lost[n] + acked[n]) + d ELSE lost[n] + acked[n]
        BY <3>2, <3>3
      <3> QED
        BY <3>4
    <2>7. Lifecycle!Lose(m)
      BY <1>1, <2>3, <2>4, <2>5, <2>6 DEF Lifecycle!Lose
    <2> QED
      BY <2>7 DEF LifecycleStep, Lifecycle!Next
  <1> QED
    BY <1>2, <1>3

\* resolve_unknown_message vouches for a message or queues it again.
LEMMA ResolveRefines ==
  ASSUME RInv, NEW u \in Users, NEW m \in Messages,
         ResolveWithReceipt(u, m) \/ ResolveWithResend(u, m)
  PROVE  LifecycleStep
  <1> USE DEF timing, sending
  <1>ty. TypeOK /\ msg[m] \in Message
    BY DEF RInv, IInv, TypeOK
  <1>1. UNCHANGED <<[n \in Messages |-> SendPhase(n)], copies>> /\ msg[m].status = "unknown"
    BY PhaseKept DEF ResolveWithReceipt, ResolveWithResend
  <1>2. CASE ResolveWithReceipt(u, m)
    <2>1. WithStatus(msg[m], "sent") \in Message
      BY <1>ty, MessageColumns DEF Statuses
    <2>2. WithProviderId(WithStatus(msg[m], "sent"), TRUE) \in Message
      BY <2>1, MessageColumns
    <2>3. PICK row : row = WithReceipt(WithProviderId(WithStatus(msg[m], "sent"), TRUE))
      OBVIOUS
    <2>4. row.status = "sent" /\ row.provider_message_id = TRUE /\ row.receipt = TRUE
      <3> DEFINE a == WithStatus(msg[m], "sent")
                 b == WithProviderId(a, TRUE)
      <3>1. a.status = "sent"
        BY <1>ty, StatusFields
      <3>2. b.status = a.status /\ b.provider_message_id = TRUE
        BY <2>1 DEF WithProviderId, Message
      <3>3. /\ row.status = b.status /\ row.receipt = TRUE
            /\ row.provider_message_id = b.provider_message_id
        BY <2>2, <2>3, ColumnFields
      <3> QED
        BY <3>1, <3>2, <3>3
    <2>5. msg' = [msg EXCEPT ![m] = row] /\ UNCHANGED <<lost, acked>>
      BY <1>2, <2>3 DEF ResolveWithReceipt
    <2>6. /\ [n \in Messages |-> msg[n].status]' =
               [[n \in Messages |-> msg[n].status] EXCEPT ![m] = "sent"]
          /\ {n \in Messages : msg[n].provider_message_id}' =
               {n \in Messages : msg[n].provider_message_id} \cup {m}
          /\ {n \in Messages : msg[n].receipt}' =
               {n \in Messages : msg[n].receipt} \cup {m}
      BY <1>ty, <2>4, <2>5, RowWritten
    <2>7. Lifecycle!Vouch(m)
      BY <1>1, <2>5, <2>6 DEF Lifecycle!Vouch
    <2> QED
      BY <2>7 DEF LifecycleStep, Lifecycle!Next
  <1>3. CASE ResolveWithResend(u, m)
    <2>1. PICK row : row = WithStatus(msg[m], "queued")
      OBVIOUS
    <2>2. /\ row.status = "queued" /\ row.receipt = msg[m].receipt
          /\ row.provider_message_id = msg[m].provider_message_id
      BY <1>ty, <2>1, StatusFields
    <2>upd. msg' = [msg EXCEPT ![m] = row]
      BY <1>3, <2>1 DEF ResolveWithResend
    <2>3. acked' = [acked EXCEPT ![m] = @ + 1] /\ lost' = lost
      BY <1>3 DEF ResolveWithResend
    <2>4. /\ [n \in Messages |-> msg[n].status]' =
               [[n \in Messages |-> msg[n].status] EXCEPT ![m] = "queued"]
          /\ UNCHANGED {n \in Messages : msg[n].provider_message_id}
          /\ UNCHANGED {n \in Messages : msg[n].receipt}
      <3>1. [n \in Messages |-> msg[n].status]' =
              [[n \in Messages |-> msg[n].status] EXCEPT ![m] = row.status]
        BY <1>ty, <2>upd, RowWritten
      <3>2. UNCHANGED {n \in Messages : msg[n].provider_message_id}
        BY <1>ty, <2>2, <2>upd, RowWritten
      <3>3. UNCHANGED {n \in Messages : msg[n].receipt}
        BY <1>ty, <2>2, <2>upd, RowWritten
      <3> QED
        BY <2>2, <3>1, <3>2, <3>3
    <2>5. [n \in Messages |-> lost[n] + acked[n]]' =
            [[n \in Messages |-> lost[n] + acked[n]] EXCEPT ![m] = @ + 1]
      <3>1. \A n \in Messages :
              /\ lost[n] \in Nat /\ acked[n] \in Nat /\ lost'[n] = lost[n]
              /\ acked'[n] = IF n = m THEN acked[n] + 1 ELSE acked[n]
        BY <1>ty, <2>3 DEF TypeOK
      <3>2. \A n \in Messages : lost'[n] + acked'[n] =
              IF n = m THEN (lost[n] + acked[n]) + 1 ELSE lost[n] + acked[n]
        BY <3>1
      <3> QED
        BY <3>2
    <2>6. Lifecycle!Resend(m)
      BY <1>1, <2>4, <2>5 DEF Lifecycle!Resend
    <2> QED
      BY <2>6 DEF LifecycleStep, Lifecycle!Next
  <1> QED
    BY <1>2, <1>3

\* A delivery status is a report about a message the provider knows.
LEMMA DeliveryRefines ==
  ASSUME TypeOK, NEW m \in Messages, NEW s \in Accepted \cup {"failed"},
         ApplyDeliveryStatus(m, s)
  PROVE  LifecycleStep
  <1>1. PICK row : row = WithStatus(msg[m], s)
    OBVIOUS
  <1>2. msg[m] \in Message
    BY DEF TypeOK
  <1>3. /\ row.status = s /\ row.receipt = msg[m].receipt
        /\ row.provider_message_id = msg[m].provider_message_id
    BY <1>1, <1>2, StatusFields
  <1>4. /\ msg' = [msg EXCEPT ![m] = row] /\ msg[m].provider_message_id
        /\ UNCHANGED <<tx, copies, lost, acked>>
    BY <1>1 DEF ApplyDeliveryStatus, sending
  <1>5. UNCHANGED [n \in Messages |-> SendPhase(n)]
    BY <1>4, PhaseKept
  <1>6. Lifecycle!Report(m, s)
    BY <1>3, <1>4, <1>5, RowWritten DEF Lifecycle!Report
  <1> QED
    BY <1>6 DEF LifecycleStep, Lifecycle!Next, Lifecycle!Accepted, Accepted

\* Dispatch, the producers and what follows a call.
LEMMA DispatchRefines == RInv /\ DispatchNext => LifecycleStep
  <1> SUFFICES ASSUME RInv, DispatchNext PROVE LifecycleStep
    OBVIOUS
  <1> USE DEF timing, sending
  <1>inv. IInv /\ TypeOK
    BY DEF RInv, IInv
  <1>1. ASSUME NEW t \in Tx, NEW m \in Messages, ClaimQueued(t, m)
        PROVE  LifecycleStep
    BY <1>1, <1>inv, BeginRefines DEF ClaimQueued, InCall
  <1>2. ASSUME NEW t \in Tx, FenceMessage(t) \/ FailUnsupported(t) \/ CallProvider(t)
        PROVE  LifecycleStep
    BY <1>2, <1>inv, ClaimedRefines
  <1>3. ASSUME NEW t \in Tx, NEW outcome \in Outcomes, ProviderAnswers(t, outcome)
        PROVE  LifecycleStep
    BY <1>3, <1>inv, AnswerRefines
  <1>4. ASSUME NEW t \in Tx, RecordFailure(t) \/ RecordSent(t)
        PROVE  LifecycleStep
    BY <1>4, RecordRefines
  <1>5. ASSUME NEW t \in Tx, NEW u \in Users, NEW c \in Conversations,
               NEW key \in Keys \cup {NoOne}, SendIntentBegin(t, u, c, key)
        PROVE  LifecycleStep
    BY <1>5, <1>inv, BeginRefines DEF SendIntentBegin, InCall
  <1>6. ASSUME NEW t \in Tx, NEW m \in Messages, SendIntentInsert(t, m)
        PROVE  LifecycleStep
    <2>1. tx[t].op = "intent" /\ End(t) /\ UNCHANGED <<copies, lost, acked>>
      BY <1>6 DEF SendIntentInsert
    <2>2. PICK c \in Conversations, key \in Keys \cup {NoOne} :
            c = tx[t].c /\ key = tx[t].key
      BY <1>inv, <2>1, WorkFields DEF TypeOK
    <2>3. Insert(m, NewMessage(c, "user", 0, FALSE, key))
      BY <1>6, <2>2 DEF SendIntentInsert
    <2> QED
      BY <2>1, <2>3, InsertRefines DEF Authors, InCall
  <1>7. ASSUME NEW t \in Tx, SendIntentReplay(t)
        PROVE  LifecycleStep
    <2>1. tx[t].op = "intent" /\ End(t)
      BY <1>7 DEF SendIntentReplay
    <2> QED
      BY <1>7, <1>inv, <2>1, EndPhases, QuietStep DEF SendIntentReplay, InCall
  <1>8. ASSUME NEW t \in Tx, NEW c \in Conversations, NEW draft \in Drafts,
               ComposeBegin(t, c, draft)
        PROVE  LifecycleStep
    <2>1. /\ tx[t] = Idle /\ tx'[t].op = "composing"
          /\ \A u \in Tx \ {t} : tx'[u] = tx[u]
      BY <1>8, <1>inv DEF ComposeBegin, Goto, TypeOK
    <2> QED
      BY <1>8, <2>1, PhasesKept, QuietStep DEF ComposeBegin, InCall, Idle
  <1>9. ASSUME NEW t \in Tx, NEW m \in Messages, ComposeInsert(t, m)
        PROVE  LifecycleStep
    <2>1. tx[t].op = "composing" /\ End(t) /\ UNCHANGED <<copies, lost, acked>>
      BY <1>9 DEF ComposeInsert
    <2>2. PICK c \in Conversations, author \in Authors, composed \in Nat,
               stamped \in BOOLEAN, key \in Keys \cup {NoOne} :
            /\ c = tx[t].c /\ author = tx[t].author
            /\ composed = tx[t].composed /\ stamped = tx[t].stamped
            /\ key = tx[t].key
      BY <1>inv, <2>1, WorkFields DEF TypeOK, Authors
    <2>3. Insert(m, NewMessage(c, author, composed, stamped, key))
      BY <1>9, <2>2 DEF ComposeInsert
    <2> QED
      BY <2>1, <2>3, InsertRefines DEF InCall
  <1>10. ASSUME NEW u \in Users, NEW m \in Messages,
                ResolveWithReceipt(u, m) \/ ResolveWithResend(u, m)
         PROVE  LifecycleStep
    BY <1>10, ResolveRefines
  <1>11. ASSUME NEW m \in Messages,
                NEW s \in {"sent", "delivered", "read", "failed"},
                ApplyDeliveryStatus(m, s)
         PROVE  LifecycleStep
    BY <1>11, <1>inv, DeliveryRefines DEF Accepted
  <1> QED
    BY <1>1, <1>2, <1>3, <1>4, <1>5, <1>6, <1>7, <1>8, <1>9, <1>10, <1>11
       DEF DispatchNext

-----------------------------------------------------------------------------
(* The theorems.                                                           *)

\* Every step is one of the lifecycle, or none ...
LEMMA NextRefines == RInv /\ [Next]_vars => [Lifecycle!Next]_Lifecycle!vars
  <1> SUFFICES ASSUME RInv, [Next]_vars PROVE LifecycleStep
    BY DEF LifecycleStep
  <1>1. CASE UNCHANGED vars
    BY <1>1, PhaseKept, QuietStep DEF vars
  <1>2. CASE Next
    BY <1>2, ControlRefines, TimersRefine, DispatchRefines, RollbackRefines
       DEF Next, RInv
  <1> QED
    BY <1>1, <1>2

\* ... and the initial states are initial states of it.
LEMMA InitRefines == Init => Lifecycle!Init
  <1> SUFFICES ASSUME Init PROVE Lifecycle!Init
    OBVIOUS
  <1>1. \A m \in Messages :
          /\ msg[m].status = "absent"
          /\ ~msg[m].provider_message_id /\ ~msg[m].receipt
    <2> SUFFICES ASSUME NEW m \in Messages
                 PROVE  /\ msg[m].status = "absent"
                        /\ ~msg[m].provider_message_id /\ ~msg[m].receipt
      OBVIOUS
    <2>1. PICK c \in Conversations :
            msg[m] = WithStatus(NewMessage(c, "system", 0, FALSE, NoOne), "absent")
      BY DEF Init, StoreInit, NoMessage
    <2> QED
      BY <2>1 DEF NewMessage, WithStatus
  <1>2. \A m \in Messages : SendPhase(m) = "rest"
    BY PhaseAtRest DEF Init, StoreInit, Idle, Sending
  <1> QED
    BY <1>1, <1>2 DEF Lifecycle!Init, Init, StoreInit

\* The invariant under which steps refine is itself inductive: its lifecycle part
\* follows from the refinement of the step.
LEMMA RInvInductive ==
  /\ Init => RInv
  /\ RInv /\ [Next]_vars => RInv'
  <1>1. Init => RInv
    BY InitIInv, InitRefines, Lifecycle!InitLInv DEF RInv
  <1>2. RInv /\ [Next]_vars => RInv'
    BY NextIInv, NextRefines, Lifecycle!NextLInv DEF RInv
  <1> QED
    BY <1>1, <1>2

\* The implementation, with its locks, fences, waiting UPDATEs, rollbacks and
\* concurrent resolutions, takes no step that the lifecycle forbids.
THEOREM Implements == Spec => ImplementsLifecycle
  BY RInvInductive, InitRefines, NextRefines, PTL
     DEF Spec, ImplementsLifecycle, Lifecycle!Spec

\* Every copy beyond the first is excused by a lost transaction or by an
\* acknowledged resend, for any number of messages, dispatchers and failures.
THEOREM EveryCopyExplained == Spec => []CopiesExplained
  <1>1. RInv => CopiesExplained
    <2> SUFFICES ASSUME RInv, NEW m \in Messages
                 PROVE  copies[m] <= lost[m] + acked[m] +
                          IF msg[m].status \in {"absent", "queued", "cancelled"}
                               /\ ~TakenInFlight(m) THEN 0 ELSE 1
      BY DEF CopiesExplained
    <2>1. copies[m] <= lost[m] + acked[m] +
            IF msg[m].status \in {"absent", "queued", "cancelled"}
                 /\ SendPhase(m) # "taken" THEN 0 ELSE 1
      BY DEF RInv, Lifecycle!LInv, Lifecycle!Explained, Lifecycle!Quiet
    <2>2. SendPhase(m) = "taken" => TakenInFlight(m)
      BY DEF SendPhase
    <2>3. /\ copies[m] \in Nat /\ lost[m] + acked[m] \in Nat
      BY DEF RInv, IInv, TypeOK
    <2> QED
      BY <2>1, <2>2, <2>3
  <1> QED
    BY <1>1, RInvInductive, PTL DEF Spec

\* A message shown as sent, delivered or read was taken by the provider, or a
\* person vouched for it.
THEOREM SentWasReallyTaken == Spec => []SentWasTaken
  <1>1. RInv => SentWasTaken
    BY DEF RInv, Lifecycle!LInv, Lifecycle!Backed, Lifecycle!Accepted,
           SentWasTaken, Accepted
  <1> QED
    BY <1>1, RInvInductive, PTL DEF Spec

\* A cancelled message stays cancelled and reaches nobody.
THEOREM CancellationIsFinal == Spec => CancelledIsFinal
  <1>1. RInv /\ [Next]_vars =>
          [\A m \in Messages : msg[m].status = "cancelled" =>
             msg'[m].status = "cancelled" /\ copies'[m] = copies[m]]_vars
    <2> SUFFICES ASSUME RInv, [Next]_vars, NEW m \in Messages,
                        msg[m].status = "cancelled"
                 PROVE  msg'[m].status = "cancelled" /\ copies'[m] = copies[m]
      OBVIOUS
    <2> USE DEF RInv, Lifecycle!LInv, Lifecycle!Shape, Lifecycle!InStep,
                Lifecycle!Accepted, Lifecycle!Waiting
    <2>1. [Lifecycle!Next]_Lifecycle!vars
      BY NextRefines
    <2> DEFINE st == [n \in Messages |-> msg[n].status]
    <2>2. st[m] = "cancelled"
      OBVIOUS
    <2>3. SendPhase(m) = "rest" /\ ~msg[m].provider_message_id
      OBVIOUS
    <2>4. st'[m] = "cancelled" /\ copies'[m] = copies[m]
      <3>1. ASSUME NEW S \in SUBSET Messages, Lifecycle!Cancel(S)
            PROVE  st'[m] = "cancelled" /\ copies'[m] = copies[m]
        BY <3>1 DEF Lifecycle!Cancel
      <3>2. ASSUME NEW n \in Messages,
                   \/ Lifecycle!Queue(n) \/ Lifecycle!Refuse(n) \/ Lifecycle!Call(n)
                   \/ Lifecycle!Answer(n) \/ Lifecycle!Lose(n) \/ Lifecycle!Vouch(n)
                   \/ Lifecycle!Resend(n)
            PROVE  st'[m] = "cancelled" /\ copies'[m] = copies[m]
        BY <2>2, <2>3, <3>2 DEF Lifecycle!Queue, Lifecycle!Refuse, Lifecycle!Call,
             Lifecycle!Answer, Lifecycle!Lose, Lifecycle!Vouch, Lifecycle!Resend
      <3>3. ASSUME NEW n \in Messages, NEW s \in {"sent", "failed", "unknown"},
                   Lifecycle!Commit(n, s)
            PROVE  st'[m] = "cancelled" /\ copies'[m] = copies[m]
        BY <2>2, <2>3, <3>3 DEF Lifecycle!Commit
      <3>4. ASSUME NEW n \in Messages, NEW s \in Accepted \cup {"failed"},
                   Lifecycle!Report(n, s)
            PROVE  st'[m] = "cancelled" /\ copies'[m] = copies[m]
        BY <2>2, <2>3, <3>4 DEF Lifecycle!Report
      <3>5. CASE UNCHANGED Lifecycle!vars
        BY <2>2, <3>5 DEF Lifecycle!vars
      <3> QED
        BY <2>1, <3>1, <3>2, <3>3, <3>4, <3>5 DEF Lifecycle!Next, Accepted
    <2> QED
      BY <2>4
  <1> QED
    BY <1>1, RInvInductive, PTL DEF Spec, CancelledIsFinal
==============================================================================
