----------------------------- MODULE MCMessaging -----------------------------
(***************************************************************************)
(* Instances of Messaging for TLC.  The rows, users and transactions are   *)
(* model values named in the .cfg files.                                   *)
(*                                                                         *)
(* Everything at once is out of reach, so each instance is explored within *)
(* a union of regions in which a part of the system rests.                 *)
(***************************************************************************)
EXTENDS Messaging, TLC

Busy(ops) == \E t \in Tx : tx[t].op \in ops

\* No inbound message, and the rules as they were created.
InboundRests ==
  /\ inbound = {} /\ ~Busy({"routing"})
  /\ \A r \in Rules : rule[r] = [exists |-> TRUE, enabled |-> TRUE, version |-> 1,
                                 trigger_type |-> "team_unanswered"]

\* Nobody changes the control of a conversation.
ControlRests ==
  /\ ~Busy({"human", "takeover", "handoff", "accept"})
  /\ \A c \in Conversations : conv[c].control_version = 0
  /\ \A g \in Triggers : transfer[g].status = "absent"

\* No message is stored.
MessagesRest == \A m \in Messages : msg[m].status = "absent"

\* Only users and the auto-reply write; a message is sent or fails, and nothing
\* happens to it after that.
OutcomesRest ==
  \A m \in Messages : /\ acked[m] = 0 /\ lost[m] = 0
                      /\ msg[m].author_type \in {"user", "system"}
                      /\ msg[m].status \in {"absent", "queued", "sent", "failed"}

NoResend  == \A m \in Messages : acked[m] = 0
TwoAtOnce == Cardinality({t \in Tx : tx[t] # Idle}) <= 2

\* Messages under changes of control, or under inbound activity and timers.
Flows == InboundRests \/ (ControlRests /\ OutcomesRest)
FlowSpec == Init /\ [][Next /\ Flows']_vars

\* Handoffs without messages, or two requests that write messages.
Requests == MessagesRest \/ (ControlRests /\ NoResend /\ TwoAtOnce)
RequestSpec == Init /\ [][Next /\ Requests']_vars

\* Interchangeable rows and workers.
Symmetric == Permutations(Messages) \cup Permutations(Tx)
==============================================================================
