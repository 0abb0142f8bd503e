------------------------------ MODULE MCSettle ------------------------------
(***************************************************************************)
(* What must happen in the end, for TLC: EmailOutbox, EventRelay,          *)
(* CampaignSync, Jobs and the purge of Contacts.  They share no row: a     *)
(* behaviour runs one of them, named by part, and the others rest in their *)
(* initial states.                                                         *)
(***************************************************************************)
EXTENDS Naturals, TLC

CONSTANTS m1, u1, e1, e2, e3, w1, w2, a, b, x, c1, c2, d1, d2, beat, user, Absent,
          j1, j2, a1, v1, None

VARIABLES
  part,
  mail, task, token, verified, mailFaults, inbox, unsaid,
  order, published, attempts, next_attempt_at, relay, relayFaults, queue, relaysLost,
  row, run, syncFailures, asked,
  job, result, exports, tasks, worker, lost, duplicates, failures, early, raised,
  contact, ident, lead, merges, work, edit, purged, dropped, late, rewritten

Mail == INSTANCE EmailOutbox WITH
  Mails <- {m1}, Verifications <- {}, Users <- {u1}, UserOf <- [o \in {m1} |-> u1],
  Tasks <- {w1, w2}, MaxRetries <- 1, MaxAttempts <- 2, MaxFaults <- 1, faults <- mailFaults

\* Runs of one row, with an event that is refused for ever.
Relay == INSTANCE EventRelay WITH
  Events <- {e1, e2, e3}, Poison <- {e3}, Relays <- {w1}, Limit <- 1, Period <- 5,
  MaxExponent <- 4, MaxFaults <- 2, faults <- relayFaults, lost <- relaysLost

\* a and x belong to one tenant and share c2; b is another tenant's account.
Plans == [r \in {beat, user} |->
            IF r = beat THEN {<<x, a, b>>, <<b, a, x>>} ELSE {<<a, x>>, <<x, a>>}]
Sync == INSTANCE CampaignSync WITH
  Campaigns <- {c1, c2, d1, d2}, Assets <- {a, b, x},
  Lists <- [s \in {a, b, x} |->
              IF s = a THEN <<c1, c2>> ELSE IF s = b THEN <<d1, d2>> ELSE <<c2>>],
  Beat <- beat, Manual <- {user}, Broken <- {x}, MaxFailures <- 1, MaxManual <- 2,
  failures <- syncFailures

Job == INSTANCE Jobs WITH
  JobIds <- {j1, j2}, Workers <- {w1, w2}, MaxLost <- 1, MaxDuplicates <- 1, MaxFailures <- 1

\* One user writes; a second contact has none.
Privacy == INSTANCE Contacts WITH
  Users <- {<<a1, "u">>}, Fields <- {"phone"}, Values <- {v1}, Leads <- {},
  Workers <- {w1}, Editors <- {w2}, Limit <- 2, MaxContacts <- 2, MaxErasures <- 1,
  MaxMerges <- 0, MaxRewrites <- 1

ASSUME SettleAssumption ==
  /\ Mail!OutboxAssumption /\ Relay!RelayAssumption /\ Sync!SyncAssumption
  /\ Job!JobAssumption /\ Privacy!ContactAssumption

mailVars    == <<mail, task, token, verified, mailFaults, inbox, unsaid>>
relayVars   == <<order, published, attempts, next_attempt_at, relay, relayFaults, queue,
                 relaysLost>>
syncVars    == <<row, run, syncFailures, asked>>
jobVars     == <<job, result, exports, tasks, worker, lost, duplicates, failures, early,
                 raised>>
privacyVars == <<contact, ident, lead, merges, work, edit, purged, dropped, late, rewritten>>
vars        == <<part, mailVars, relayVars, syncVars, jobVars, privacyVars>>

Init == /\ part \in {"mail", "relay", "sync", "job", "privacy"}
        /\ Mail!Init /\ Relay!Init /\ Sync!Init /\ Job!Init /\ Privacy!Init

MailDoes(action) ==
  part = "mail" /\ action /\ UNCHANGED <<part, relayVars, syncVars, jobVars, privacyVars>>
RelayDoes(action) ==
  part = "relay" /\ action /\ UNCHANGED <<part, mailVars, syncVars, jobVars, privacyVars>>
SyncDoes(action) ==
  part = "sync" /\ action /\ UNCHANGED <<part, mailVars, relayVars, jobVars, privacyVars>>
JobDoes(action) ==
  part = "job" /\ action /\ UNCHANGED <<part, mailVars, relayVars, syncVars, privacyVars>>
PrivacyDoes(action) ==
  part = "privacy" /\ action /\ UNCHANGED <<part, mailVars, relayVars, syncVars, jobVars>>

Next == \/ MailDoes(Mail!Next) \/ RelayDoes(Relay!Next) \/ SyncDoes(Sync!Next)
        \/ JobDoes(Job!Next) \/ PrivacyDoes(Privacy!Next)

\* The fairness that each module states for itself.
Spec ==
  /\ Init /\ [][Next]_vars
  /\ \A t \in {w1, w2} : WF_mailVars(part = "mail" /\ Mail!Deliver(t))
  /\ WF_relayVars(part = "relay" /\ Relay!RelayStep(w1))
  /\ \A r \in {beat, user} : WF_syncVars(part = "sync" /\ Sync!Step(r))
  /\ WF_syncVars(part = "sync" /\ \E plan \in Plans[beat] : Sync!Start(beat, plan))
  /\ \A w \in {w1, w2} : WF_jobVars(part = "job" /\ Job!Work(w))
  /\ \A j \in {j1, j2} :
       WF_jobVars(part = "job" /\ (Job!RequestCommits(j) \/ Job!RequestUndone(j)))
  /\ WF_privacyVars(part = "privacy" /\ Privacy!Purge)
  /\ \A c \in 1..2 :
       WF_privacyVars(part = "privacy" /\ c \in DOMAIN contact /\ Privacy!RetentionPasses(c))

-----------------------------------------------------------------------------
\* A mail leaves processing unless its worker was lost, and every sound event is
\* published behind one that is always refused.
OutboxesDrain == Mail!ProcessingSettles /\ Relay!EveryEventPublished

\* A campaign that shows no error has its ad sets and ads, and every campaign of
\* an account that answers gets there, beside an account that never answers.
CampaignsSettle ==
  /\ [](Sync!TypeOK /\ Sync!CleanIsComplete)
  /\ part = "sync" => Sync!HealthySynced

\* Every committed job succeeds, unless its work raised or its task was early,
\* and what it then shows as its result never changes.
JobsSettle == []Job!TypeOK /\ Job!ResultIsFinal /\ Job!JobSettles

\* Every erasure request is carried out, and what the purge has cleaned stays
\* clean, unless a late write puts it back.
ErasureSettles == []Privacy!PurgedIsBlank /\ Privacy!ErasurePurged
=============================================================================
