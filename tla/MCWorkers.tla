------------------------------ MODULE MCWorkers ------------------------------
(***************************************************************************)
(* EmailOutbox, EventRelay and Automations side by side.  They share no    *)
(* row: a behaviour runs one of them, named by part, and the others rest   *)
(* in their initial states.                                                *)
(***************************************************************************)
EXTENDS Naturals, TLC

CONSTANTS
  Mails, Verifications, Users, UserOf, Tasks, MaxRetries, MaxSends, MaxMailFaults,
  Events, Poison, Relays, Limit, Period, MaxExponent, MaxRelayFaults,
  Executions, Workers, NActions, MaxAttempts, MaxClaims, MaxRuleFaults

VARIABLES
  part,
  mail, task, token, verified, mailFaults, inbox, unsaid,
  order, published, attempts, next_attempt_at, relay, relayFaults, queue, lost,
  exec, attempt, work, faults, effects, doubts, excuses, omitted

Mail  == INSTANCE EmailOutbox WITH MaxAttempts <- MaxSends, MaxFaults <- MaxMailFaults,
           faults <- mailFaults
Relay == INSTANCE EventRelay WITH MaxFaults <- MaxRelayFaults, faults <- relayFaults
Rule  == INSTANCE Automations WITH MaxFaults <- MaxRuleFaults

\* For TLC: every mail is addressed to one user.
OneUser == [o \in Mails |-> CHOOSE u \in Users : TRUE]

ASSUME WorkerAssumption ==
  Mail!OutboxAssumption /\ Relay!RelayAssumption /\ Rule!AutomationAssumption

mailVars  == <<mail, task, token, verified, mailFaults, inbox, unsaid>>
relayVars == <<order, published, attempts, next_attempt_at, relay, relayFaults, queue, lost>>
ruleVars  == <<exec, attempt, work, faults, effects, doubts, excuses, omitted>>
vars      == <<part, mailVars, relayVars, ruleVars>>

Init == /\ part \in {"mail", "relay", "rule"}
        /\ Mail!Init /\ Relay!Init /\ Rule!Init

Next ==
  \/ part = "mail" /\ Mail!Next /\ UNCHANGED <<part, relayVars, ruleVars>>
  \/ part = "relay" /\ Relay!Next /\ UNCHANGED <<part, mailVars, ruleVars>>
  \/ part = "rule" /\ Rule!Next /\ UNCHANGED <<part, mailVars, relayVars>>

Spec == Init /\ [][Next]_vars

\* For TLC: interchangeable workers.
Symmetry == Permutations(Tasks)

-----------------------------------------------------------------------------
\* A row of the e-mail outbox has one sender at a time; a second copy follows a
\* failure reported for a message the server had taken; what is recorded as
\* sent was taken, carries its token if it is a verification, and stays sent.
MailSafety ==
  /\ [](Mail!TypeOK /\ Mail!OneSender /\ Mail!MailCopiesExplained /\ Mail!MailWasTaken)
  /\ Mail!SentIsFinal

\* An event marked as published was taken by the broker, which took it again only
\* for an answer, or a relay before its commit, that was lost.
RelaySafety == Relay!TypeOK /\ Relay!PublishedWasQueued /\ Relay!DuplicatesExplained

\* An action takes effect once unless its result was unknown; a successful
\* execution has carried out every action, a failed one knows every result
\* unless its last settlement stored no status, and failures alone claim it no
\* more often than the backoff has steps.
RuleSafety ==
  /\ Rule!TypeOK
  /\ Rule!ActionOnce /\ Rule!SuccessIsComplete /\ Rule!FailedIsKnown /\ Rule!ClaimsBounded
=============================================================================
