-------------------------- MODULE MessageLifecycle --------------------------
(***************************************************************************)
(* What the outbound pipeline promises about one message, with no          *)
(* conversations, locks or transactions: which statuses it moves through,  *)
(* when the provider may get it, and what a lost transaction costs.        *)
(***************************************************************************)
EXTENDS Naturals, TLAPS

CONSTANT Messages

VARIABLES
  status,    \* the committed status of each message
  phase,     \* of the call to the provider that is not committed yet
  copies,    \* how often the provider took the message
  excused,   \* lost transactions and acknowledged resends
  known,     \* messages with a provider id
  vouched    \* messages a person marked sent with a receipt

vars == <<status, phase, copies, excused, known, vouched>>

Accepted == {"sent", "delivered", "read"}
Quiet    == {"absent", "queued", "cancelled"}
Phases   == {"rest", "calling", "refused", "taken"}

Init ==
  /\ status  = [m \in Messages |-> "absent"]
  /\ phase   = [m \in Messages |-> "rest"]
  /\ copies  = [m \in Messages |-> 0]
  /\ excused = [m \in Messages |-> 0]
  /\ known   = {}
  /\ vouched = {}

Waiting(m) == status[m] = "queued" /\ phase[m] = "rest"

Queue(m) ==
  /\ status[m] = "absent"
  /\ status' = [status EXCEPT ![m] = "queued"]
  /\ UNCHANGED <<phase, copies, excused, known, vouched>>

\* A change of control cancels any number of messages, none of them on its way
\* to the provider.
Cancel(S) ==
  /\ \A m \in S : Waiting(m)
  /\ status' = [m \in Messages |-> IF m \in S THEN "cancelled" ELSE status[m]]
  /\ UNCHANGED <<phase, copies, excused, known, vouched>>

Refuse(m) ==
  /\ Waiting(m)
  /\ status' = [status EXCEPT ![m] = "failed"]
  /\ UNCHANGED <<phase, copies, excused, known, vouched>>

Call(m) ==
  /\ Waiting(m)
  /\ phase' = [phase EXCEPT ![m] = "calling"]
  /\ UNCHANGED <<status, copies, excused, known, vouched>>

Answer(m) ==
  /\ phase[m] = "calling"
  /\ \/ /\ phase'  = [phase EXCEPT ![m] = "taken"]
        /\ copies' = [copies EXCEPT ![m] = @ + 1]
     \/ /\ phase'  = [phase EXCEPT ![m] = "refused"]
        /\ UNCHANGED copies
  /\ UNCHANGED <<status, excused, known, vouched>>

Commit(m, s) ==
  /\ phase[m] \in {"refused", "taken"}
  /\ s = "sent" => phase[m] = "taken"
  /\ status' = [status EXCEPT ![m] = s]
  /\ phase'  = [phase EXCEPT ![m] = "rest"]
  /\ known' \in {known, IF s = "sent" THEN known \cup {m} ELSE known}
  /\ UNCHANGED <<copies, excused, vouched>>

\* The transaction is gone; what the provider took is not.
Lose(m) ==
  /\ phase[m] # "rest"
  /\ phase'   = [phase EXCEPT ![m] = "rest"]
  /\ excused' = [excused EXCEPT ![m] = @ + IF phase[m] = "taken" THEN 1 ELSE 0]
  /\ UNCHANGED <<status, copies, known, vouched>>

Vouch(m) ==
  /\ status[m] = "unknown"
  /\ status'  = [status EXCEPT ![m] = "sent"]
  /\ known'   = known \cup {m}
  /\ vouched' = vouched \cup {m}
  /\ UNCHANGED <<phase, copies, excused>>

Resend(m) ==
  /\ status[m] = "unknown"
  /\ status'  = [status EXCEPT ![m] = "queued"]
  /\ excused' = [excused EXCEPT ![m] = @ + 1]
  /\ UNCHANGED <<phase, copies, known, vouched>>

Report(m, s) ==
  /\ m \in known
  /\ status' = [status EXCEPT ![m] = s]
  /\ UNCHANGED <<phase, copies, excused, known, vouched>>

Next ==
  \/ \E S \in SUBSET Messages : Cancel(S)
  \/ \E m \in Messages :
       \/ Queue(m) \/ Refuse(m) \/ Call(m) \/ Answer(m) \/ Lose(m)
       \/ Vouch(m) \/ Resend(m)
       \/ \E s \in {"sent", "failed", "unknown"} : Commit(m, s)
       \/ \E s \in Accepted \cup {"failed"} : Report(m, s)

Spec == Init /\ [][Next]_vars
-----------------------------------------------------------------------------
(* The promises, for any set of messages.                                  *)

Shape ==
  /\ status \in [Messages -> Quiet \cup Accepted \cup {"failed", "unknown", "dispatching"}]
  /\ phase \in [Messages -> Phases]
  /\ copies \in [Messages -> Nat]
  /\ excused \in [Messages -> Nat]
  /\ known \subseteq Messages
  /\ vouched \subseteq Messages

\* A call is under way only for a queued message; a message has a provider id
\* only once it was accepted, and no one vouches for a message not written.
InStep ==
  /\ \A m \in Messages : phase[m] # "rest" => status[m] = "queued"
  /\ \A m \in known : status[m] \in Accepted \cup {"failed"}
  /\ \A m \in vouched : status[m] # "absent"

\* At most one copy, beyond the excused ones, and none while the message waits.
Explained ==
  \A m \in Messages :
    copies[m] <= excused[m] +
      IF status[m] \in Quiet /\ phase[m] # "taken" THEN 0 ELSE 1

\* Whatever the system takes for sent, the provider took.
Backed ==
  \A m \in Messages \ vouched :
    (m \in known \/ status[m] \in Accepted \/ phase[m] = "taken") => copies[m] > 0

LInv == Shape /\ InStep /\ Explained /\ Backed

\* The promises hold at the start ...
LEMMA InitLInv == Init => LInv
  BY DEF Init, LInv, Shape, InStep, Explained, Backed, Quiet, Accepted, Phases

\* ... and every step keeps them.
LEMMA NextLInv == LInv /\ [Next]_vars => LInv'
  <1> SUFFICES ASSUME LInv, [Next]_vars PROVE LInv'
    OBVIOUS
  <1> USE DEF LInv, Shape, InStep, Explained, Backed, Quiet, Accepted, Phases,
              Waiting
  <1>1. ASSUME NEW S \in SUBSET Messages, Cancel(S) PROVE LInv'
    BY <1>1 DEF Cancel
  <1>2. ASSUME NEW m \in Messages, Queue(m) PROVE LInv'
    BY <1>2 DEF Queue
  <1>3. ASSUME NEW m \in Messages, Refuse(m) PROVE LInv'
    BY <1>3 DEF Refuse
  <1>4. ASSUME NEW m \in Messages, Call(m) PROVE LInv'
    BY <1>4 DEF Call
  <1>5. ASSUME NEW m \in Messages, Answer(m) PROVE LInv'
    BY <1>5 DEF Answer
  <1>6. ASSUME NEW m \in Messages, Lose(m) PROVE LInv'
    BY <1>6 DEF Lose
  <1>7. ASSUME NEW m \in Messages, Vouch(m) PROVE LInv'
    BY <1>7 DEF Vouch
  <1>8. ASSUME NEW m \in Messages, Resend(m) PROVE LInv'
    BY <1>8 DEF Resend
  <1>9. ASSUME NEW m \in Messages, NEW s \in {"sent", "failed", "unknown"},
               Commit(m, s)
        PROVE  LInv'
    BY <1>9 DEF Commit
  <1>10. ASSUME NEW m \in Messages, NEW s \in Accepted \cup {"failed"},
                Report(m, s)
         PROVE  LInv'
    BY <1>10 DEF Report
  <1>11. CASE UNCHANGED vars
    BY <1>11 DEF vars
  <1> QED
    BY <1>1, <1>2, <1>3, <1>4, <1>5, <1>6, <1>7, <1>8, <1>9, <1>10, <1>11
       DEF Next

\* The lifecycle explains every copy the provider took, and backs every message
\* it shows as accepted.
THEOREM LifecyclePromises == Spec => [](Explained /\ Backed)
  BY InitLInv, NextLInv, PTL DEF Spec, LInv
=============================================================================
