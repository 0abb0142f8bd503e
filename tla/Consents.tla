------------------------------- MODULE Consents -------------------------------
(***************************************************************************)
(* Consent of one contact: grants and opt-outs are rows that are never     *)
(* changed, and the row captured last decides.  A grant is captured by the *)
(* database's clock when its transaction starts, an opt-out by the         *)
(* application's clock in its handler; either is visible when it commits.  *)
(* A proactive message asks once, without a lock, and commits later.       *)
(***************************************************************************)
EXTENDS Integers, FiniteSets

CONSTANTS
  Scopes,      \* channel and purpose of a consent
  Requests,    \* requests, named by the id of the row each inserts
  Messages,    \* proactive messages
  Skew,        \* by how much the application's clock may be off
  MaxClock     \* bound: the time

\* What the constants must satisfy: ids are ordered.
ConsentAssumption == Requests \subseteq Nat /\ Skew \in Nat /\ MaxClock \in Nat

VARIABLES
  now,
  consent,   \* consents, by id; a row is visible once it is answered
  msg,       \* proactive messages
  relied     \* history: for each message, the answered rows of its scope when
             \* it asked

vars == <<now, consent, msg, relied>>

\* began: when the request took its time; at: captured_at.
Row    == [scope : Scopes, status : {"granted", "revoked"}, began : 0 .. MaxClock,
           at : Int, answered : BOOLEAN]
Absent == [answered |-> FALSE]

Init ==
  /\ now = 0
  /\ consent = [r \in Requests |-> Absent]
  /\ msg     = [m \in Messages |-> "none"]
  /\ relied  = [m \in Messages |-> {}]

Tick ==
  /\ now < MaxClock
  /\ now' = now + 1
  /\ UNCHANGED <<consent, msg, relied>>

Insert(r, scope, status, at) ==
  /\ consent[r] = Absent
  /\ consent' = [consent EXCEPT ![r] = [scope |-> scope, status |-> status, began |-> now,
                                        at |-> at, answered |-> FALSE]]
  /\ UNCHANGED <<now, msg, relied>>

GrantConsent(r, scope)  == Insert(r, scope, "granted", now)
RevokeConsent(r, scope) == \E d \in -Skew .. Skew : Insert(r, scope, "revoked", now + d)

Commit(r) ==
  /\ consent[r] # Absent /\ ~consent[r].answered
  /\ consent' = [consent EXCEPT ![r].answered = TRUE]
  /\ UNCHANGED <<now, msg, relied>>

Visible(scope) == {r \in Requests : consent[r].answered /\ consent[r].scope = scope}

\* Mutant: any grant of the scope will do.
LatestGrant(scope) == {r \in Visible(scope) : consent[r].status = "granted"}

\* Mutant: the row with the largest id decides, whenever it was captured.
LatestById(scope) == {r \in Visible(scope) : \A q \in Visible(scope) : q <= r}

\* ORDER BY captured_at DESC, id DESC LIMIT 1.
Latest(scope) ==
  {r \in Visible(scope) : \A q \in Visible(scope) :
     consent[q].at < consent[r].at \/ (consent[q].at = consent[r].at /\ q <= r)}

HasActiveConsent(scope) == \E r \in Latest(scope) : consent[r].status = "granted"

\* assert_proactive_send_allowed reads without a lock; a refusal leaves no message.
Ask(m, scope) ==
  /\ msg[m] = "none"
  /\ HasActiveConsent(scope)
  /\ msg'    = [msg EXCEPT ![m] = "allowed"]
  /\ relied' = [relied EXCEPT ![m] = Visible(scope)]
  /\ UNCHANGED <<now, consent>>

\* The transaction of the caller commits the message.
Queue(m) ==
  /\ msg[m] = "allowed"
  /\ msg' = [msg EXCEPT ![m] = "queued"]
  /\ UNCHANGED <<now, consent, relied>>

\* Or it is rolled back.
Rollback(m) ==
  /\ msg[m] = "allowed"
  /\ msg'    = [msg EXCEPT ![m] = "none"]
  /\ relied' = [relied EXCEPT ![m] = {}]
  /\ UNCHANGED <<now, consent>>

\* The dispatch asks for no consent.
Dispatch(m) ==
  /\ msg[m] = "queued"
  /\ msg' = [msg EXCEPT ![m] = "sent"]
  /\ UNCHANGED <<now, consent, relied>>

Next ==
  \/ Tick
  \/ \E r \in Requests : \/ \E s \in Scopes : GrantConsent(r, s) \/ RevokeConsent(r, s)
                         \/ Commit(r)
  \/ \E m \in Messages : \/ Queue(m) \/ Rollback(m) \/ Dispatch(m)
                         \/ \E s \in Scopes : Ask(m, s)

Spec == Init /\ [][Next]_vars

-----------------------------------------------------------------------------
\* Rows and messages have their types; a message that asked relies on rows that
\* are visible.
TypeOK ==
  /\ now \in 0 .. MaxClock
  /\ consent \in [Requests -> Row \cup {Absent}]
  /\ msg \in [Messages -> {"none", "allowed", "queued", "sent"}]
  /\ relied \in [Messages -> SUBSET {r \in Requests : consent[r].answered}]

\* A proactive message goes out for a grant that, but for the skew of the two
\* clocks, was begun no earlier than any opt-out of its scope answered before the
\* message asked: a slow grant begun before an opt-out and committed after it
\* does not count, and neither does an opt-out of another scope.  What is
\* answered between the question and the dispatch is not seen.
OptOutHonoured ==
  \A m \in Messages : msg[m] # "none" =>
    \E g \in relied[m] :
      /\ consent[g].status = "granted"
      /\ \A o \in relied[m] :
           consent[o].status = "revoked" => consent[o].began <= consent[g].began + Skew
=============================================================================
