------------------------ MODULE ConversationControl ------------------------
(***************************************************************************)
(* Who answers a conversation: the AI or a person.                         *)
(*                                                                         *)
(*   ai-mode active   conversation                       (one lock: atomic)*)
(*   ai-mode human    conversation -> queued AI messages                   *)
(*   takeover         conversation -> queued AI messages -> transfer       *)
(*   handoff          conversation -> queued AI messages                   *)
(*   accept transfer  transfer -> conversation                             *)
(*                                                                         *)
(* lists the rows each transaction locks, in order.  Every one of them     *)
(* holds the conversation's row lock when it changes ai_mode and           *)
(* control_version.                                                        *)
(***************************************************************************)
EXTENDS CrmStore

\* targets is the snapshot of the UPDATE that cancels queued AI messages: a
\* message queued while it waits for a row lock is not among them.
ControlWork ==
       [op : {"human"}, c : Conversations, user : Users, takeover : BOOLEAN,
        targets : SUBSET Messages]
  \cup [op : {"takeover"}, c : Conversations, user : Users,
        targets : SUBSET Messages]
  \cup [op : {"handoff"}, c : Conversations, g : Triggers,
        recipient : Users \cup {NoOne}, targets : SUBSET Messages]
  \cup [op : {"accept"}, g : Triggers, user : Users]

\* conversation.ai_mode = mode; conversation.control_version += 1
Controlled(c, mode) == WithVersionBumped(WithMode(conv[c], mode))

\* Mutant: the UPDATE takes failed messages with it.
CancelledIfFailed(c, targets) ==
  [m \in Messages |->
     IF \/ m \in targets \cap QueuedAi(c)
        \/ /\ msg[m].conversation_id = c /\ msg[m].author_type = "ai"
           /\ msg[m].status = "failed"
       THEN WithStatus(msg[m], "cancelled") ELSE msg[m]]

\* UPDATE messages SET status = 'cancelled' WHERE author_type = 'ai' AND
\* status = 'queued', re-evaluated on the rows it waited for.
Cancelled(c, targets) ==
  [m \in Messages |->
     IF m \in targets \cap QueuedAi(c)
       THEN WithStatus(msg[m], "cancelled") ELSE msg[m]]

PendingTransfers(c) ==
  {g \in Triggers : /\ transfer[g].conversation_id = c
                    /\ transfer[g].status = "pending"}

\* conversation.assigned_user_id = transfer.recipient_user_id or user_id
Assignee(g, u) == IF transfer[g].recipient_user_id = NoOne
                    THEN u ELSE transfer[g].recipient_user_id

-----------------------------------------------------------------------------
(* POST /conversations/{id}/ai-mode and /takeover.                         *)

SetModeActive(u, c) ==
  /\ conv[c].control_version < MaxVersion
  /\ Free(c)
  /\ MayControl(u, c)
  /\ conv' = [conv EXCEPT ![c] = Controlled(c, "active")]
  /\ UNCHANGED <<msg, transfer, lock, tx, timing, sending>>

\* Lock and authorise; the UPDATE of the queued AI messages starts.
SetModeHumanBegin(t, u, c, takeover) ==
  /\ conv[c].control_version < MaxVersion
  /\ MayControl(u, c)
  /\ Begin(t, [op |-> "human", c |-> c, user |-> u, takeover |-> takeover,
               targets |-> QueuedAi(c)], c)
  /\ UNCHANGED <<conv, msg, transfer, timing, sending>>

\* Mutant: queued messages are cancelled under a dispatcher's lock.
SetModeHumanUnlocked(t) ==
  /\ tx[t].op = "human"
  /\ ~tx[t].takeover
  /\ LET c == tx[t].c IN
       /\ conv' = [conv EXCEPT ![c] = Controlled(c, "human")]
       /\ msg'  = Cancelled(c, tx[t].targets)
  /\ End(t)
  /\ UNCHANGED <<transfer, timing, sending>>

SetModeHuman(t) ==
  /\ tx[t].op = "human"
  /\ ~tx[t].takeover
  /\ AllFree(tx[t].targets)
  /\ LET c == tx[t].c IN
       /\ conv' = [conv EXCEPT ![c] = Controlled(c, "human")]
       /\ msg'  = Cancelled(c, tx[t].targets)
  /\ End(t)
  /\ UNCHANGED <<transfer, timing, sending>>

\* takeover_conversation goes on in the same transaction, with the rows the
\* UPDATE wrote locked.
TakeoverFence(t) ==
  /\ tx[t].op = "human"
  /\ tx[t].takeover
  /\ AllFree(tx[t].targets)
  /\ LET hit == tx[t].targets \cap QueuedAi(tx[t].c) IN
       /\ Goto(t, [op |-> "takeover", c |-> tx[t].c, user |-> tx[t].user,
                   targets |-> hit])
       /\ Lock(t, hit)
  /\ UNCHANGED <<conv, msg, transfer, timing, sending>>

TakeoverWithoutTransfer(t) ==
  /\ tx[t].op = "takeover"
  /\ PendingTransfers(tx[t].c) = {}
  /\ LET c == tx[t].c IN
       /\ conv' = [conv EXCEPT ![c] = Controlled(c, "human")]
       /\ msg'  = Cancelled(c, tx[t].targets)
  /\ End(t)
  /\ UNCHANGED <<transfer, timing, sending>>

\* The pending transfer is accepted as well, which counts a second change of
\* control.
TakeoverWithTransfer(t, g) ==
  /\ tx[t].op = "takeover"
  /\ g \in PendingTransfers(tx[t].c)
  /\ Free(g)
  /\ LET c == tx[t].c IN
       /\ conv' = [conv EXCEPT ![c] =
                     WithAssignee(WithVersionBumped(Controlled(c, "human")),
                                  Assignee(g, tx[t].user))]
       /\ msg'  = Cancelled(c, tx[t].targets)
  /\ transfer' = [transfer EXCEPT ![g] = WithStatus(@, "accepted")]
  /\ End(t)
  /\ UNCHANGED <<timing, sending>>

-----------------------------------------------------------------------------
(* Handing a conversation to a person, and accepting it.                   *)

\* Mutant: a pending transfer does not stop another handoff.
HandoffBeginAgain(t, by, c, g, recipient) ==
  /\ conv[c].control_version < MaxVersion
  /\ by # NoOne => MayControl(by, c)
  /\ transfer[g].status = "absent"
  /\ Begin(t, [op |-> "handoff", c |-> c, g |-> g, recipient |-> recipient,
               targets |-> QueuedAi(c)], c)
  /\ UNCHANGED <<conv, msg, transfer, timing, sending>>

\* by = NoOne: the AI itself asks for it (route_transfer_trigger).  A trigger
\* already recorded, or a transfer already pending, is returned unchanged.
HandoffBegin(t, by, c, g, recipient) ==
  /\ conv[c].control_version < MaxVersion
  /\ by # NoOne => MayControl(by, c)
  /\ transfer[g].status = "absent"
  /\ PendingTransfers(c) = {}
  /\ Begin(t, [op |-> "handoff", c |-> c, g |-> g, recipient |-> recipient,
               targets |-> QueuedAi(c)], c)
  /\ UNCHANGED <<conv, msg, transfer, timing, sending>>

\* transfer[g] is absent still, or uq_transfers_tenant_trigger makes the insert
\* fail and the transaction rolls back.  uq_transfers_pending_conversation is not
\* a guard: OnePendingTransfer shows that no insert depends on it.
Handoff(t) ==
  /\ tx[t].op = "handoff"
  /\ AllFree(tx[t].targets)
  /\ transfer[tx[t].g].status = "absent"
  /\ LET c == tx[t].c IN
       /\ conv' = [conv EXCEPT ![c] = Controlled(c, "handoff_pending")]
       /\ msg'  = Cancelled(c, tx[t].targets)
       /\ transfer' = [transfer EXCEPT ![tx[t].g] =
            [status |-> "pending", conversation_id |-> c,
             recipient_user_id |-> tx[t].recipient]]
  /\ End(t)
  /\ UNCHANGED <<timing, sending>>

AcceptHandoffBegin(t, u, g) ==
  /\ transfer[g].status = "pending"
  /\ conv[transfer[g].conversation_id].control_version < MaxVersion
  /\ Begin(t, [op |-> "accept", g |-> g, user |-> u], g)
  /\ UNCHANGED <<conv, msg, transfer, timing, sending>>

\* An unassigned conversation may be accepted by any agent.
AcceptHandoff(t) ==
  /\ tx[t].op = "accept"
  /\ LET g == tx[t].g
         u == tx[t].user
         c == transfer[g].conversation_id
     IN /\ Free(c)
        /\ u \in Agents => conv[c].assigned_user_id \in {NoOne, u}
        /\ conv' = [conv EXCEPT ![c] =
                      WithAssignee(Controlled(c, "human"), Assignee(g, u))]
        /\ transfer' = [transfer EXCEPT ![g] = WithStatus(@, "accepted")]
  /\ End(t)
  /\ UNCHANGED <<msg, timing, sending>>

ControlNext ==
  \/ \E u \in Users, c \in Conversations : SetModeActive(u, c)
  \/ \E t \in Tx :
       \/ \E u \in Users, c \in Conversations, takeover \in BOOLEAN :
            SetModeHumanBegin(t, u, c, takeover)
       \/ SetModeHuman(t)
       \/ TakeoverFence(t)
       \/ TakeoverWithoutTransfer(t)
       \/ \E g \in Triggers : TakeoverWithTransfer(t, g)
       \/ \E by, recipient \in Users \cup {NoOne},
             c \in Conversations, g \in Triggers :
            HandoffBegin(t, by, c, g, recipient)
       \/ Handoff(t)
       \/ \E u \in Users, g \in Triggers : AcceptHandoffBegin(t, u, g)
       \/ AcceptHandoff(t)
=============================================================================
