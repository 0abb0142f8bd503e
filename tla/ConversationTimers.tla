------------------------- MODULE ConversationTimers -------------------------
(***************************************************************************)
(* Inbound messages and the timers that watch for an unanswered one.       *)
(*                                                                         *)
(*   route_inbound_message  conversation -> its pending timers             *)
(*   fire_due_timers        timer (skip locked) -> conversation            *)
(*                                                                         *)
(* Deadlines are not modelled: any pending timer may be due.  The batch of *)
(* fire_due_timers is one timer (limit = 1).                               *)
(***************************************************************************)
EXTENDS CrmStore

\* live: what fire_due_timers read of the rule before it locks the conversation
TimerWork ==
       [op : {"routing"}, c : Conversations, id : InboundIds]
  \cup [op : {"firing"}, timer : Timer, live : BOOLEAN]

Pending(c, kind) ==
  {x \in timers : /\ x.conversation_id = c
                  /\ x.trigger_type = kind
                  /\ x.status = "pending"}

\* Enabled rules that wait for this kind of silence.
Watching(kind) ==
  {r \in Rules : rule[r].exists /\ rule[r].enabled /\ rule[r].trigger_type = kind}

\* The highest activity_version of a rule's timers in the conversation.
Latest(c, r) ==
  LET used == {0} \cup {x.activity_version :
                 x \in {y \in timers : y.conversation_id = c /\ y.rule_id = r}}
  IN {n \in used : \A k \in used : k <= n}

\* Mutant: an answer leaves the timers of the silence it ended.
CancelNoTimers(c, kind) == timers

\* cancel_unanswered_timers of one kind ...
CancelTimers(c, kind) ==
  (timers \ Pending(c, kind))
    \cup {WithStatus(x, "cancelled") : x \in Pending(c, kind)}

\* ... and schedule_unanswered_timers of the other: one timer per rule that has
\* none pending.
Idling(c, kind) ==
  {r \in Watching(kind) : \A x \in Pending(c, kind) : x.rule_id # r}

NewTimer(c, r, kind, n) ==
  [conversation_id |-> c, rule_id |-> r, rule_version |-> rule[r].version,
   trigger_type |-> kind, activity_version |-> n, status |-> "pending"]

NewTimers(c, kind) ==
  UNION {{NewTimer(c, r, kind, n + 1) : n \in Latest(c, r)} : r \in Idling(c, kind)}

\* The timer rows the two calls lock.
TimerLocks(c, cancelled, scheduled) ==
  {TimerRow(x) : x \in Pending(c, cancelled)} \cup
  {TimerRow(x) : x \in {y \in Pending(c, scheduled) :
                          y.rule_id \in Watching(scheduled)}}

-----------------------------------------------------------------------------
(* route_inbound_message: a webhook event of a known contact.              *)

\* The conversation is locked; a provider id seen before changes nothing.
RouteInboundBegin(t, c, id) ==
  /\ id \notin inbound
  /\ Begin(t, [op |-> "routing", c |-> c, id |-> id], c)
  /\ UNCHANGED <<conv, msg, transfer, timing, sending>>

\* The message, its response window and its timers.
InboundEffects(t) ==
  LET c == tx[t].c IN
  /\ tx[t].op = "routing"
  /\ tx[t].id \notin inbound         \* uq_messages_provider_identity
  /\ AllFree(TimerLocks(c, "customer_unanswered", "team_unanswered"))
  /\ inbound' = inbound \cup {tx[t].id}
  /\ windows' = [windows EXCEPT ![c] = @ + IF conv[c].response_window THEN 0 ELSE 1]
  /\ timers'  = CancelTimers(c, "customer_unanswered")
                  \cup NewTimers(c, "team_unanswered")
  /\ last'    = [last EXCEPT ![c] = "inbound"]
  /\ End(t)
  /\ UNCHANGED <<transfer, rule, outbox, kpi, sending>>

RouteInbound(t) ==
  /\ InboundEffects(t)
  /\ conv' = [conv EXCEPT ![tx[t].c] = WithWindow(@, TRUE)]
  /\ UNCHANGED <<msg, tasks>>

\* Outside business hours the conversation waits for the next shift: a task,
\* unless one is open, and the tenant's auto-reply, if it has one.
RouteInboundOffHours(t) ==
  LET c == tx[t].c IN
  /\ InboundEffects(t)
  /\ conv' = [conv EXCEPT ![c] = WithStatus(WithWindow(@, TRUE), "pending")]
  /\ tasks' = IF tasks[c].open > 0 THEN tasks
                ELSE [tasks EXCEPT ![c] = [open |-> 1, closed |-> @.closed]]
  /\ \/ UNCHANGED msg
     \/ \E m \in Messages :
          Insert(m, NewMessage(c, "system", 0, FALSE, NoOne))

\* PATCH /tasks/{id}
CloseTask(c) ==
  /\ tasks[c].open > 0
  /\ tasks' = [tasks EXCEPT ![c] = [open |-> @.open - 1,
                                     closed |-> @.closed + 1]]
  /\ UNCHANGED <<conv, msg, transfer, rule, timers, inbound, outbox, kpi,
                 windows, last, lock, tx, sending>>

ReopenTask(c) ==
  /\ tasks[c].closed > 0
  /\ tasks' = [tasks EXCEPT ![c] = [open |-> @.open + 1,
                                     closed |-> @.closed - 1]]
  /\ UNCHANGED <<conv, msg, transfer, rule, timers, inbound, outbox, kpi,
                 windows, last, lock, tx, sending>>

-----------------------------------------------------------------------------
(* fire_due_timers, and the rules it obeys.                                *)

\* Mutant: due timers are selected without FOR UPDATE SKIP LOCKED.
FireTimerBeginUnlocked(t, x) ==
  /\ x \in timers
  /\ x.status = "pending"
  /\ tx[t] = Idle
  /\ LET r == rule[x.rule_id] IN
       Goto(t, [op |-> "firing", timer |-> x,
                live |-> r.exists /\ r.enabled /\ r.version = x.rule_version])
  /\ UNCHANGED <<conv, msg, transfer, lock, timing, sending>>

FireTimerBegin(t, x) ==
  /\ x \in timers
  /\ x.status = "pending"
  /\ LET r == rule[x.rule_id] IN
       Begin(t, [op |-> "firing", timer |-> x,
                 live |-> r.exists /\ r.enabled /\ r.version = x.rule_version],
             TimerRow(x))
  /\ UNCHANGED <<conv, msg, transfer, timing, sending>>

FireTimer(t) ==
  /\ tx[t].op = "firing"
  /\ LET x == tx[t].timer IN
       /\ Free(x.conversation_id)
       /\ timers' = (timers \ {x}) \cup
            {WithStatus(x, IF tx[t].live THEN "fired" ELSE "cancelled")}
       /\ outbox' = IF tx[t].live THEN Append(outbox, x) ELSE outbox
  /\ End(t)
  /\ UNCHANGED <<conv, msg, transfer, rule, inbound, tasks, kpi, windows, last,
                 sending>>

\* PATCH /automation-rules/{id} replaces the rule and bumps its version.
UpdateRule(r, enabled, kind) ==
  /\ rule[r].exists
  /\ rule[r].version < MaxRuleVersion
  /\ rule' = [rule EXCEPT ![r] = [exists |-> TRUE, enabled |-> enabled,
                                  version |-> @.version + 1, trigger_type |-> kind]]
  /\ UNCHANGED <<conv, msg, transfer, timers, inbound, tasks, outbox, kpi,
                 windows, last, lock, tx, sending>>

\* DELETE /automation-rules/{id}: its timers go with it (ON DELETE CASCADE).
DeleteRule(r) ==
  /\ rule[r].exists
  /\ AllFree({row \in TimerRows : row[2] = r})
  /\ rule'   = [rule EXCEPT ![r] = [@ EXCEPT !.exists = FALSE]]
  /\ timers' = {x \in timers : x.rule_id # r}
  /\ UNCHANGED <<conv, msg, transfer, inbound, tasks, outbox, kpi, windows, last,
                 lock, tx, sending>>

TimersNext ==
  \/ \E t \in Tx :
       \/ \E c \in Conversations, id \in InboundIds : RouteInboundBegin(t, c, id)
       \/ RouteInbound(t)
       \/ RouteInboundOffHours(t)
       \/ \E x \in timers : FireTimerBegin(t, x)
       \/ FireTimer(t)
  \/ \E c \in Conversations : CloseTask(c) \/ ReopenTask(c)
  \/ \E r \in Rules :
       \/ \E enabled \in BOOLEAN, kind \in TimerKinds : UpdateRule(r, enabled, kind)
       \/ DeleteRule(r)
=============================================================================
