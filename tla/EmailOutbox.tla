----------------------------- MODULE EmailOutbox -----------------------------
(***************************************************************************)
(* Transactional mail: the email_outbox table, the Celery task             *)
(* email.deliver that sends a row over SMTP, and the verification tokens   *)
(* that the task issues and GET /auth/verify-email redeems.                *)
(*                                                                         *)
(* A task claims its row in one transaction, talks to the mail server      *)
(* outside of any, and records the answer in a second one.  The queue      *)
(* keeps a task until it is acknowledged, so a lost worker's task starts   *)
(* again; nothing in the repository publishes tasks or calls               *)
(* mark_stale_email_as_unknown, so both come from an operator.             *)
(***************************************************************************)
EXTENDS Naturals, FiniteSets

CONSTANTS
  Mails,         \* rows of email_outbox
  Verifications, \* those of them whose template is verify_email
  Users, UserOf, \* email_outbox.user_id
  Tasks,         \* messages of the email.deliver queue
  MaxRetries,    \* max_retries of the task
  MaxAttempts,   \* bound: claims of one row
  MaxFaults      \* bound: lost workers and raised exceptions, per row

\* What the constants must satisfy.
OutboxAssumption ==
  /\ Verifications \subseteq Mails
  /\ UserOf \in [Mails -> Users]
  /\ MaxRetries \in Nat /\ MaxAttempts \in Nat /\ MaxFaults \in Nat

VARIABLES
  mail,     \* status and attempts of the rows
  task,     \* the tasks and the workers that run them
  token,    \* verification tokens: token[o][n] was issued by claim n of row o
  verified, \* users with email_verified_at
  faults,
  inbox,    \* external: the claims of a row whose message the server took
  unsaid    \* history: claims whose message was taken and recorded as failed

vars == <<mail, task, token, verified, faults, inbox, unsaid>>

Statuses == {"queued", "processing", "sent", "failed", "unknown"}
Claims   == 1 .. MaxAttempts

Unused == [at |-> "unused"]

Task ==
       {Unused}
  \cup [at : {"ready", "done"}, o : Mails, retries : 0 .. MaxRetries]
  \cup [at : {"sending"}, o : Mails, retries : 0 .. MaxRetries, n : Claims]
  \cup [at : {"answered"}, o : Mails, retries : 0 .. MaxRetries, n : Claims,
        result : {"sent", "failed", "unknown"}]

Init ==
  /\ mail     = [o \in Mails |-> [status |-> "queued", attempts |-> 0]]
  /\ task     = [t \in Tasks |-> Unused]
  /\ token    = [o \in Mails |-> [n \in Claims |-> "none"]]
  /\ verified = {}
  /\ faults   = [o \in Mails |-> 0]
  /\ inbox    = [o \in Mails |-> {}]
  /\ unsaid   = [o \in Mails |-> {}]

-----------------------------------------------------------------------------
(* The task.                                                               *)

Publish(t, o) ==
  /\ task[t] = Unused
  /\ task' = [task EXCEPT ![t] = [at |-> "ready", o |-> o, retries |-> 0]]
  /\ UNCHANGED <<mail, token, verified, faults, inbox, unsaid>>

Row(t)       == mail[task[t].o]
Finished(t)  == [at |-> "done", o |-> task[t].o, retries |-> task[t].retries]
Requeued(t)  == [at |-> "ready", o |-> task[t].o, retries |-> task[t].retries]

\* Mutants: rows in processing, or whose result is unknown, are sent again.
ClaimableStuck(t)   == Row(t).status \notin {"sent", "unknown"}
ClaimableUnknown(t) == Row(t).status \notin {"sent", "processing"}
ClaimableSent(t)    == Row(t).status \notin {"processing", "unknown"}

Claimable(t) == Row(t).status \notin {"sent", "processing", "unknown"}

\* The first transaction of deliver_email_outbox.
Claim(t) ==
  LET o == task[t].o
      n == Row(t).attempts + 1
  IN /\ task[t].at = "ready"
     /\ Claimable(t)
     /\ n <= MaxAttempts
     /\ mail' = [mail EXCEPT ![o] = [status |-> "processing", attempts |-> n]]
     /\ token' = [token EXCEPT ![o][n] = IF o \in Verifications THEN "live" ELSE @]
     /\ task' = [task EXCEPT ![t] = [at |-> "sending", o |-> o,
                                     retries |-> @.retries, n |-> n]]
     /\ UNCHANGED <<verified, faults, inbox, unsaid>>

ClaimRefused(t) ==
  /\ task[t].at = "ready"
  /\ ~Claimable(t)
  /\ task' = [task EXCEPT ![t] = Finished(t)]
  /\ UNCHANGED <<mail, token, verified, faults, inbox, unsaid>>

\* Mutant: refused messages count as sent.
AnswersRosy == {<<"sent", TRUE>>, <<"sent", FALSE>>}

\* What send_email returns and whether the server took the message.  Refusals
\* and errors before the connection are failures; a timeout or a lost
\* connection later leaves it open; and an error reply to QUIT, after the
\* message was taken, is an SMTPException like any other.
Answers ==
  {<<"sent", TRUE>>, <<"failed", FALSE>>, <<"failed", TRUE>>,
   <<"unknown", FALSE>>, <<"unknown", TRUE>>}

Send(t, answer) ==
  LET o == task[t].o
      n == task[t].n
  IN /\ task[t].at = "sending"
     /\ task' = [task EXCEPT ![t] = [at |-> "answered", o |-> o,
                    retries |-> @.retries, n |-> n, result |-> answer[1]]]
     /\ inbox' = [inbox EXCEPT ![o] = IF answer[2] THEN @ \cup {n} ELSE @]
     /\ unsaid' = [unsaid EXCEPT ![o] =
                     IF answer = <<"failed", TRUE>> THEN @ \cup {n} ELSE @]
     /\ UNCHANGED <<mail, token, verified, faults>>

\* Mutant: an unknown result is not stored.
RecordCertain(t) ==
  /\ task[t].at = "answered"
  /\ mail' = [mail EXCEPT ![task[t].o].status =
                IF task[t].result = "unknown" THEN @ ELSE task[t].result]
  /\ task' = [task EXCEPT ![t] = Finished(t)]
  /\ UNCHANGED <<token, verified, faults, inbox, unsaid>>

\* The second transaction: the result overwrites whatever status it finds,
\* also the unknown of mark_stale_email_as_unknown.
Record(t) ==
  /\ task[t].at = "answered"
  /\ mail' = [mail EXCEPT ![task[t].o].status = task[t].result]
  /\ task' = [task EXCEPT ![t] = Finished(t)]
  /\ UNCHANGED <<token, verified, faults, inbox, unsaid>>

Fault(o) ==
  /\ faults[o] < MaxFaults
  /\ faults' = [faults EXCEPT ![o] = @ + 1]

Running(t) == task[t].at \in {"ready", "sending", "answered"}

\* A transaction or the sender raises: the task is retried, and finds the row
\* as the last commit left it.  The message may have been taken by then.
Raise(t) ==
  /\ Running(t)
  /\ Fault(task[t].o)
  /\ task' = [task EXCEPT ![t] =
       IF @.retries < MaxRetries
       THEN [at |-> "ready", o |-> @.o, retries |-> @.retries + 1]
       ELSE Finished(t)]
  /\ \/ UNCHANGED inbox
     \/ /\ task[t].at = "sending"
        /\ inbox' = [inbox EXCEPT ![task[t].o] = @ \cup {task[t].n}]
  /\ UNCHANGED <<mail, token, verified, unsaid>>

\* acks_late and reject_on_worker_lost return the task to the queue.
WorkerLost(t) ==
  /\ task[t].at \in {"sending", "answered"}
  /\ Fault(task[t].o)
  /\ task' = [task EXCEPT ![t] = Requeued(t)]
  /\ \/ UNCHANGED inbox
     \/ /\ task[t].at = "sending"
        /\ inbox' = [inbox EXCEPT ![task[t].o] = @ \cup {task[t].n}]
  /\ UNCHANGED <<mail, token, verified, unsaid>>

\* Mutant: a status the table does not know.
MarkStaleUnlisted(o) ==
  /\ mail[o].status = "processing"
  /\ mail' = [mail EXCEPT ![o].status = "stale"]
  /\ UNCHANGED <<task, token, verified, faults, inbox, unsaid>>

MarkStale(o) ==
  /\ mail[o].status = "processing"
  /\ mail' = [mail EXCEPT ![o].status = "unknown"]
  /\ UNCHANGED <<task, token, verified, faults, inbox, unsaid>>

-----------------------------------------------------------------------------
(* Verification links.                                                     *)

Redeemable(o, n) == token[o][n] = "live"

\* A reader follows a link of a message that was delivered.
VerifyEmail(o, n) ==
  /\ n \in inbox[o]
  /\ Redeemable(o, n)
  /\ token' = [token EXCEPT ![o][n] = "used"]
  /\ verified' = verified \cup {UserOf[o]}
  /\ UNCHANGED <<mail, task, faults, inbox, unsaid>>

\* The 24 hours of issue_verification_token have passed.
TokenExpires(o, n) ==
  /\ token[o][n] = "live"
  /\ token' = [token EXCEPT ![o][n] = "expired"]
  /\ UNCHANGED <<mail, task, verified, faults, inbox, unsaid>>

Deliver(t) ==
  \/ Claim(t) \/ ClaimRefused(t)
  \/ \E a \in Answers : Send(t, a)
  \/ Record(t)

Next ==
  \/ \E t \in Tasks : \/ \E o \in Mails : Publish(t, o)
                      \/ Deliver(t) \/ Raise(t) \/ WorkerLost(t)
  \/ \E o \in Mails : \/ MarkStale(o)
                      \/ \E n \in Claims : VerifyEmail(o, n) \/ TokenExpires(o, n)

Spec == Init /\ [][Next]_vars

\* Workers are always running and the SMTP client has a timeout.
FairSpec == Spec /\ \A t \in Tasks : WF_vars(Deliver(t))

-----------------------------------------------------------------------------
(* Properties.                                                             *)

\* Every row, task, token and counter has its type.
TypeOK ==
  /\ mail \in [Mails -> [status : Statuses, attempts : 0 .. MaxAttempts]]
  /\ task \in [Tasks -> Task]
  /\ token \in [Mails -> [Claims -> {"none", "live", "used", "expired"}]]
  /\ verified \subseteq Users
  /\ faults \in [Mails -> 0 .. MaxFaults]
  /\ inbox \in [Mails -> SUBSET Claims]
  /\ unsaid \in [Mails -> SUBSET Claims]

InFlight(o) == {t \in Tasks : task[t].at \in {"sending", "answered"} /\ task[t].o = o}

\* A row has one sender at a time, which made its latest claim, whatever tasks
\* are published twice, redelivered or retried (deliver_email_outbox:30).
OneSender ==
  \A o \in Mails :
    /\ Cardinality(InFlight(o)) <= 1
    /\ \A t \in InFlight(o) : /\ mail[o].status \in {"processing", "unknown"}
                              /\ task[t].n = mail[o].attempts

\* The recipient gets a second copy only when the SMTP client reported a
\* failure for a message that the server had taken (email.py:57): lost workers,
\* retries and operators never cause one.
MailCopiesExplained ==
  \A o \in Mails : \A m, n \in inbox[o] : m < n => m \in unsaid[o]

\* A row recorded as sent was taken by the server, and a verification mail
\* carries a token of the table (deliver_email_outbox:40 commits it first).
MailWasTaken ==
  \A o \in Mails :
    /\ mail[o].status = "sent" => mail[o].attempts \in inbox[o]
    /\ o \in Verifications => \A n \in inbox[o] : token[o][n] # "none"

\* A sent row stays sent and is never claimed again.
SentIsFinal ==
  [][\A o \in Mails : mail[o].status = "sent" => mail'[o] = mail[o]]_vars

\* A row in processing leaves it, unless its own worker was lost or raised: then
\* it may stay there for ever, as the task that starts again gives up on it.
ProcessingSettles ==
  \A o \in Mails :
    mail[o].status = "processing" ~>
      (mail[o].status # "processing" \/ faults[o] > 0)
=============================================================================
