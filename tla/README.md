# Verification of the Omni CRM backend

TLA+ models of the parts of the Omni CRM backend (`src/app`) whose correctness
depends on concurrency, failure and order. TLC checks all of them on small
instances; TLAPS proves for every instance what the runs check of safety, except
in the run `settle`, whose subject is liveness.

## 1. The system

FastAPI handlers and Celery workers share one PostgreSQL database. A handler or
task opens a session (`db/session.py: session_scope`), calls service functions
that only *flush*, and commits at the end; any exception rolls everything back.
Concurrency control is `SELECT ... FOR UPDATE`, a few unique indexes and check
constraints, and leases for the worker queues. Side effects outside the database
(the Graph API, SMTP, Celery's broker, the credential store) take part in no
transaction; the credential store is in memory and does not survive its process.

| Component | State | Operations | What is hard |
|---|---|---|---|
| Conversation control | `conversations.ai_mode`, `control_version`, `assigned_user_id`; `conversation_transfers` | set mode, take over, hand off, accept | opposite lock orders; an UPDATE that waits with an old snapshot |
| Outbound messages | `messages`, `message_send_attempts` | queue, dispatch, resolve unknown, apply delivery status | a provider call inside a transaction: crash, timeout, deadlock after acceptance; stale AI replies |
| Inbound routing and timers | response windows, `conversation_timers`, tasks, `automation_rules`, `kpi_events` | route inbound, schedule, cancel, fire, edit rules | duplicates, two timer workers, rule edits during the wait for a lock |
| Sessions, password reset | `auth_sessions`, `refresh_tokens`, `password_reset_tokens` | sign in, rotate, replay, log out, reset | rotation racing logout; opposite lock orders |
| Second factor | MFA columns of `users`, recovery codes, challenge tokens | login, verify, enrol, confirm, disable, choose a company | challenges nobody can revoke; a password read before a reset |
| Identity and membership | `users`, `tenants`, `memberships`, `invitations` | register, invite, accept, revoke | unique indexes as the only guard; a snapshot older than the lock |
| Webhook inbox | `webhook_events` with leases | receive, claim, complete, fail, redrive | concurrent deliveries, expired leases, an asset that changes owner |
| E-mail outbox | `email_outbox`, verification tokens | claim, send, record, mark stale, verify | lost workers, late answers, redelivered tasks |
| Event relay | `outbox_events` | publish, relay | crash between hand-over and commit; a lost answer of the broker; events that always fail |
| Automations | executions, action attempts | claim, run, settle, retry, redrive | unknown outcomes, leases lost under way, a status that is not stored |
| Contacts and privacy | contacts, identities, leads, messages' contents | resolve a user, ingest a lead, edit, qualify, merge, delete, erase, purge | reads without a lock followed by writes |
| Consent | `consents` | grant, revoke, evaluate | two clocks; the row captured last may commit last or first |
| Opportunities | opportunities, rotation state, stages | create, assign in turn, move | a lock that returns the values of an older read |
| Custom fields, settings | definitions, values; one settings row | CRUD | checks on what another request changes |
| Channel assets | `channel_assets`, OAuth states, credentials | connect, call back, disconnect, revalidate, route | a store outside the transaction and in memory; one asset, two companies or two callbacks |
| Campaign synchronisation | campaigns with their ad sets and ads | beat's run, a user's run | one transaction for all companies |
| Jobs | `jobs`, export store, broker | request, run, redeliver | the task is handed over before the commit |
| Lists, rate limit | cursor; times per client and path | next page; admit or refuse | rows that come and go between pages; the edge of a window |
| AI budget and runs, billing, observability | see section 5 | | |

The components meet in rows. Control cancels what dispatch is about to send;
inbound routing queues the auto-reply that dispatch sends; dispatch closes the
window and turns the timers that inbound opened; timers publish the events the
relay hands to the automations, and automations queue messages. The inbox routes
by the asset that channel assets connect, and its effects resolve contacts.
Registration writes the mail that the e-mail outbox sends. `Messaging` composes
the first group; the others touch through one row each, which each model lets
change as its neighbour may (`AssetChanges` in `WebhookInbox`, `ResetPassword` in
`SecondFactor`, `VerifyEmail` in `Tenancy`).

## 2. Modules

| Module | Contents |
|---|---|
| `CrmStore` | rows, columns, row locks, begin, commit and rollback of one tenant's messaging tables; all variables of the core |
| `ConversationControl`, `ConversationTimers`, `MessageDispatch` | the handlers of the core, one action per lock step |
| `Messaging` | composes the three, adds rollback, deadlock detection, fairness; the properties; the refinement mapping |
| `MessageLifecycle` | abstract: what a message promises to operator and customer, without locks, users or transactions; its own invariant and theorem |
| `Sessions` | sign-in, rotation, replay, logout, password reset: rows, locks, actions, properties |
| `MessagingProofs`, `SessionsProofs`, `WebhookInboxProofs` | the proofs about `Messaging`, `Sessions` and `WebhookInbox` |
| `WebhooksProofs`, `WorkersProofs`, `CustomersProofs`, `CompanyProofs` | the proofs about `MCWebhooks`, `MCWorkers`, `MCCustomers` and `MCCompany`, whose parts are the components |
| `WebhookInbox` | ingress of batches; leases, completion, failure, redrive |
| `EmailOutbox` | the `email.deliver` task, SMTP's answers, verification tokens |
| `EventRelay` | `publish_domain_event` and the beat task `outbox.relay` |
| `Automations` | execution ledger, action loop, retries, redrive |
| `Tenancy`, `SecondFactor` | registration and invitations; login, challenges, MFA |
| `Contacts`, `Consents` | contacts with identities, leads, merging, erasure, purge; opt-outs |
| `Opportunities`, `CustomFields`, `TenantSettings` | the CRM's concurrent edits |
| `ChannelAssets`, `CampaignSync` | the Meta integration |
| `Jobs` | jobs from the request to the acknowledged task |
| `Pagination`, `RateLimit` | keyset pages under changes; the in-memory limiter |
| `MCMessaging`, `MCSessions`, `MCTransactions`, `MCWebhooks`, `MCWorkers`, `MCSettle`, `MCCustomers`, `MCCompany` | the instances TLC checks |

### How state and actions correspond to the code

* A transaction is `tx[t]`: the step it is at (`op`) and what it has read. A
  step starts at the first row lock and ends where the code must wait for the
  next lock or for the provider. Writes appear in the tables in the step that
  commits, because the code only flushes; in between, only `lock` shows them.
  `status = "dispatching"` is therefore never visible to others.
* `lock[r]` is the transaction that holds the row lock of `r`. `Begin` takes the
  first one, `Lock` further ones, `End` releases all (commit and rollback).
  A transaction that waits for its first lock is not represented.
* The UPDATE that cancels queued AI messages has a statement snapshot
  (`targets`) and re-evaluates its condition on every row it had to wait for
  (`Cancelled`), as PostgreSQL does under READ COMMITTED.
* `ComposeInsert` waits for a locked conversation because the foreign key of the
  new message takes a key-share lock on it.
* `copies[m]` counts the times the provider took `m`; `lost`, `acked`, `windows`
  and `last` are history variables that no action reads except for the bound
  `MaxLost`.
* `ProviderAnswers` covers every way a call can end: accepted with or without an
  id; an error of the adapter, including its own 10 s read timeout, after which
  the provider may have taken the message; the 15 s limit around the call. A
  message the provider takes after the limit is counted when the limit strikes.
* `Sessions` has rows, locks and transactions of its own, built the same way:
  authentication shares no row with the messaging tables. Two kinds of lock
  matter there. An insert takes a key-share lock on the row its foreign key
  names; it waits for a row locked FOR UPDATE (the user's by `reset_password`,
  the session's by `revoke_session`: `ForUpdate`) and not for one that a plain
  UPDATE wrote (the session's by a replay or by `revoke_all_user_sessions`).
  `targets` and `sessions` are the snapshots of the UPDATEs.
* `SignInBegin` is the moment `login`, `mfa_verify` or `select_tenant` accepted
  the credentials, `SignIn` is `issue_session_pair` and the commit. `resets`,
  `born` and `loggedOut` are history.
* `response_window` is whether `response_window_id` is set; window times, KPI
  durations, message text and audit records are left out.
* A model outside the core has no lock table. What the code reads and writes
  under locks it takes and keeps to the commit, with nothing to wait for in
  between, is one action; what it reads before it waits, calls out or commits is
  kept in the request's record (`req`, `work`, `cb`) and written by a later action.
* SQLAlchemy's identity map matters in `Opportunities`, `CustomFields` and
  `TenantSettings`: a SELECT ... FOR UPDATE of a row the session has already
  loaded returns the object with its *old* values, and the flush writes only the
  columns that differ from those. Two requests can therefore both pass a check
  that each of them invalidates for the other, and store a mixture.
* `WebhookInbox` and `Automations`: the repository has the operations and no
  worker that calls them in turn. The models assume the documented use (claim and
  commit; effects and completion in one transaction, rolled back when the
  completion answers False; then the failure in a transaction of its own).
* `EmailOutbox`: no code publishes `email.deliver` tasks or calls
  `mark_stale_email_as_unknown`; both are an operator's. A task may be delivered
  again at any time before it is acknowledged. `inbox` is what the server took.
* `EventRelay` counts time in runs of the relay: `next_attempt_at` is how many
  runs still skip a row, `Backoff` the code's seconds divided by beat's period. A
  hand-over is a number of tries without an answer, each taken by the broker or
  not, and at most one that was answered (`Publish`), since Celery publishes again
  when the connection fails. When all fail, `enqueue` raises, and the row is
  postponed although the broker may hold the event (`EnqueueFails`).
* `Automations`: the flush leaves out a status equal to the one the worker loaded
  when its second transaction began (`loaded`, `Stored`), so another worker's status
  can remain. `omitted` remembers the executions it happened to last.
* `Consents` has the two clocks of the code: a grant takes the database's, an opt-out
  the application's, which is off by at most `Skew`. A row is visible once its
  request commits. A message asks (`Ask`) and is committed by its caller later
  (`Queue`); nothing is locked in between and the dispatch asks nothing.
* `Contacts`: `Qualify` is a rule or an AI run that writes a contact's fields under
  its lock, whatever its status. `late` holds the dead contacts a message or a merge
  tied to a user, `rewritten` those whose fields were written.
* `CustomFields`: `loose` holds, per contact and name, the values older than a change
  of the definition that the code does not guard: a rename (both names), options,
  required, deletion, and a change of type read when nothing was stored under the
  name. A change of type that read a value is not among them.
* `ChannelAssets`: the only credential store of the code is a dictionary in the
  memory of the API's process (one uvicorn process, as the Dockerfile starts it).
  What is put there or deleted stays when the request rolls back, and `Restart`
  empties it; `forgotten` is the last reference drawn before. A callback works on a
  candidate in two steps. `Select` locks the row it finds and changes the store;
  `Flush`, before the next query or the commit, waits for a transaction that has
  written the same index entry and fails if that one connected the asset. Two
  callbacks that find no row therefore both get as far as the insert. One request
  may find an external id twice (`discover_meta_assets` joins the lists of Graph and
  removes no duplicates): the second SELECT sees the row the first one flushed.
  `View` is the table as a transaction sees it, its own rows included.
* `CampaignSync`: `Refused` is a row of one account that the database does not take;
  like a collision it undoes the run of all accounts. `MaxFailures` bounds both it and the
  calls that fail.
* `Pagination`: a row's time is fixed before its transaction commits, so a row can
  appear behind the cursor; the property speaks of rows present all the time.
* `RateLimit` is one process: the limiter the application installs keeps its
  windows in memory, and `Restart` empties them.
* AI tools that write (`change_stage`, `update_contact_qualification`,
  `request_human_transfer`) are operations of the rows they write.
* Variables marked "history" are read by no action except through bounds.

## 3. Runs

| Run | Instance | Shows |
|---|---|---|
| `flows` | 1 conversation, 1 message, 1 transfer, 1 rule with 2 versions, 2 inbound ids, 1 user, 2 transactions, 2 control changes, 1 acknowledged resend, 1 lost send | types, lock ownership, the AI fence, explained copies, backed "sent", open "unknown", final cancellation; windows measured once, timers that match the last activity, silences published once; refinement of `MessageLifecycle` |
| `requests` | 2 messages, 2 transfers, an agent and a supervisor, 1 key, a channel without adapter, 3 transactions, 3 control changes | at most one pending transfer; a retried request never fails on the unique index |
| `sessions` | 1 user, 2 sessions, 4 refresh tokens, 2 reset tokens, 3 transactions | tokens do not fork, logout and reset are complete, reset tokens work once |
| `transactions_end` | core: 1 message, 1 transfer, 2 transactions, 1 control change; sessions: 1 session, 3 tokens, 1 reset token, 2 transactions | every transaction ends |
| `webhooks` | ingress: 2 requests with 2 events in opposite orders, 2 faults; leases: 1 event, 2 workers, 4 claims, 2 attempts, 2 faults | acknowledged events are stored and every insisted batch is acknowledged; effects once; only the lease holder ends an event |
| `workers` | mail: 1 verification mail, 3 tasks, 3 attempts, 2 faults; relay: 3 events, one poisoned, 2 relays; rule: 1 execution of 2 actions, 2 workers, 4 claims | one sender, copies and duplicates explained, nothing recorded as done that was not, retries bounded |
| `settle` | smaller instances of mail and relay; 3 ad accounts of 2 companies and 2 runs; 2 jobs, 2 workers; 2 contacts, 1 erasure | what must happen in the end |
| `customers` | contacts: 2 contacts, 2 users of one asset, 2 match keys, 1 erasure, 1 merge, or 1 key, 1 erasure, 1 dead contact written by a rule, or 1 lead with 2 workers; consents: 2 scopes, 3 requests, 1 message, 3 times, a skew of 1; 3 agents, 4 opportunities, 3 requests; 3 moves over 3 stages; 2 definitions, 3 edits and 3 writes (2 and 2 with a longer list of options) | erasure and opt-out hold, one contact per lead, fair turns, audited moves, explained misfits |
| `company` | 3 invitations; 3 companies of 2 people; 2 passwords and 2 secrets, and a choice of 2 companies; 2 companies, 2 externals, 3 assets, where one authorisation finds one id, two ids or one id twice, and 1 fault (a restart or a lost request); 3 windows over 3 hours; 4 rows, pages of 2; 2 clients, a window of 2 | whole registrations, one factor in force, unambiguous routes, disjoint hours, complete pages, exact limits |
| `stale_reply` (violation) | 2 transactions, 2 control changes | a reply from before a takeover is sent after reactivation |
| `system_reply` (violation) | 1 inbound id | the auto-reply is dispatched and then refused by a constraint |
| `webhook_owner` (violation) | that of `webhooks` | effects are committed for an asset its company has disconnected |

**Parts.** `MCTransactions`, `MCWebhooks`, `MCWorkers`, `MCSettle`, `MCCustomers`
and `MCCompany` hold instances of components that share no row. `part` is chosen
once and says which of them moves; the others rest in their initial states, which
loses no interleaving because their actions commute. Their properties join, per
component, the module's own named properties and its type invariant; each part is
a definition of the component's module, where it is stated with its reasons.
`MCWebhooks`, `MCWorkers`, `MCCustomers` and `MCCompany` keep the constants of the
components as constants of their own: the `.cfg` gives them the values of the table,
with a function from parts to values where two parts of one component differ, and the
proofs are about all values that satisfy the assumptions.

**Regions.** The whole core at once is out of TLC's reach. `FlowSpec` explores
states where nothing is inbound, or where nobody changes control and messages
have only their plain outcomes (`Flows`); `RequestSpec` those without messages, or
without control changes and with two transactions at a time (`Requests`). What
crosses a region is covered by the proofs, which exist for every safety property of
the core.

**Bounds.** Two control changes are enough to leave AI mode and come back; three
let a handoff, its acceptance and another handoff fit. `MaxLost = 0` lets a message
lose one send and not be claimed again; one acknowledged resend on top gives two
copies with different excuses. Two transactions, workers or requests give every
pairwise race; the third one is there where three parties matter (transfer,
takeover and acceptance; three creations over three agents; a redelivered task
beside a republished one). Three writes of custom fields let a lost update empty
a value, a change of type find none, and a merge put the old one back; two do not reach
this. Three consents of one scope are
the least with which an earlier grant, an opt-out and a slow grant meet. Rules that
write dead contacts (`MaxRewrites`) are explored with one match key and without merges:
with all of them the run exceeds its time, and the theorem has no such bound. Two attempts reach the dead letter or the exhausted
execution, and claims exceed them so that a lease can expire before and after.
Three refresh tokens are the least with which a family has two consumed tokens and
a live one. Three invitations of one address let a revocation, a supersession and
an acceptance meet. Time in `RateLimit` runs past two windows; opening hours use a
day of three hours, the least with two disjoint windows that touch. Requests,
transactions and users named only by their identity are symmetric; runs with liveness use no
symmetry. A new row draws the least free id (`LeastId`) where ids play no role.

**Deadlock.** TLC checks for deadlock except in `workers`, `settle`, `customers` and
`company`, whose bounded instances come to rest when their bounds are used up.

**Fairness.** Nothing is assumed about requests being made. PostgreSQL queues the
transactions that wait for a row, so a step possible again and again is taken
(strong fairness of `Proceed`), and aborts one of a cycle (weak fairness of
`DeadlockVictim`): `transactions_end`, and `stale_reply`, whose counterexample is
temporal. A request that runs goes on (`IngressStep`, `Step`, `RelayStep`: weak);
an insert that waits for another's is reached in the end, and a provider that got no
200 posts again, which is the premise of the inbox's dedup and of
`EveryBatchAccepted` (strong, `WebhookInbox`). Celery delivers what it
has not been told is done (`Deliver`, `Work`: weak), and beat starts its tasks on
schedule (`EventRelay`, `CampaignSync`, `Purge`: weak); retention is a date that
passes. Loss of a worker is bounded and never assumed away: `ProcessingSettles`
excludes rows whose worker was lost, since nothing takes those up again.

### Disagreements with the documentation

* The README of the repository requires the dispatch layer to compare
  `control_version`, so that a takeover invalidates an unsent reply. Dispatch
  compares it only when the producer stored it, and the shared entry point for
  AI messages stores none (`stale_reply`).
* The constraint `system_message_not_dispatched` forbids what
  `route_inbound_message` queues: the auto-reply is sent, then the commit fails,
  and the message is queued still (`system_reply`).
* The README says that a worker revalidates asset, status and company before it
  applies an event; `commit_webhook_effects` looks the asset up by id and company
  and ignores its status (`webhook_owner`).

### Seen while modelling, without a run

* `models/message_attempts.py` calls the attempt row "durable evidence"; it is
  flushed, not committed, before the call.
* A replayed refresh token revokes the session and the family, except the token
  that a refresh under way adds while the UPDATE waits; the revoked session makes
  it useless (`OneLiveToken` bounds it to one).
* A failure reported by SMTP's QUIT after the server took the message is recorded
  as failed and retried: the excuse in `MailCopiesExplained`.
* `POST /tenants` begins a transaction on a session that has one and always fails.
* A slug collision at registration is answered `EMAIL_ALREADY_REGISTERED`.
* One ad account can be connected by two companies (only assets that receive events
  are exclusive), and both synchronise its campaigns.
* A rename of a custom field leaves its values under the old name; new options, a new
  required or a deletion asks for no values; a change of type is checked before
  values validated under the old type are written; and a merge of values puts back
  what it read beside its own. These are what `loose` excuses in `CustomFields`.
* Consent is asked when a message is queued. An opt-out answered before the dispatch
  is not seen, and neither is one answered before the commit. A merge of contacts moves
  identities, but neither consents nor conversations: an opt-out stays with the
  contact that was dropped.
* A rule and an AI run write fields and tags of contacts that were deleted, erased or
  merged away (`rewritten` in `PurgedIsBlank`).
* A worker that assigns the status it had loaded stores none: an execution that
  another worker failed stays failed while the outcome of one of its actions is
  unknown (the exception in `FailedIsKnown`).
* An account whose data the database refuses each time undoes the campaigns of all
  accounts at every run of beat.
* After a restart of the API every connected asset is without its credential until it
  is connected again, as the README of the repository says of the store; a Celery
  worker has an empty store of its own. Two callbacks of one company that both connect an
  asset for the first time end in an internal error for one of them.
* The README's "no traffic limiting" (line 865) is outdated: the application installs
  the limiter `RateLimit` models.
* The settings' audit event can name values that were never stored together.
* The rate limit of a signed-in user counts the address, not the user.
* `assign_opportunity` looks a user's id up as a membership's, so it never succeeds.
* `tasks.py: update_task` names an undefined variable in its 404 branch.
* The purge marks nothing as purged: with more erased contacts than its limit it may
  take the same ones for ever. `ErasurePurged` is checked with at most `Limit` of them.

Where the code lets a hazard happen, the property that comes nearest excepts exactly
that case and does not catch it: mails whose worker was lost (`ProcessingSettles`), a job's
task that ran before the commit, a move overtaken between its reads, a credential
deleted by a request that was rolled back, a sign-in whose password was read before
a reset. `PROJECT.json` says so in the notes of those hazards.

## 4. Proofs

Each theorem is about a specification whose constants are arbitrary, sets of requests,
workers or rows included, finite or not, under the assumption the module names:
`StoreAssumption`, `SessionsAssumption`, `InboxAssumption`, and `WorkerAssumption`,
`CustomerAssumption`, `CompanyAssumption`, which join those of the components. They ask
what the types of the code give (NULL is not a row, the keys of two tables are disjoint,
limits are naturals, functions have the domains named) and TLC evaluates them in the
runs. TLC checked the inductive invariants of the larger parts on the instances of the
runs before they were proved.

### Messaging (`Messaging!Spec`)

* Types and locks. `IInv == TypeOK /\ ClaimsHeld` is inductive. `ClaimsHeld`
  alone is not: which rows a step must hold (`Holding`) is read off the
  transaction record, so its type is needed. The step lemmas show more than
  `ClaimsHeld'`: each step is a step of one transaction that leaves the locked
  rows of all others untouched (`Isolated`, the frame of the later proofs).
* Refinement. `RInv == IInv /\ Lifecycle!LInv`. The abstract
  invariant is carried through the mapping rather than re-proved: `Implements`
  shows that each step maps to a lifecycle step or a stutter, where `ClaimsHeld`
  is what makes two dispatchers of one message impossible (the mapped `phase` is
  then that of the only one), and `LifecyclePromises` gives the invariant, of
  which `CopiesExplained`, `SentWasTaken` and `CancelledIsFinal` are readings.
* Control. `AiCallFenced` is inductive relative to `IInv`: a call in
  flight holds the conversation, so nothing changes its mode or version.
  `OnePendingTransfer` needs `HandoffClear`: while a handoff waits for queued
  messages, no transfer of its conversation is pending.
* Flows start from what a step can do to one row (`RowStep`) and to one
  window (`WindowStep`). `UnknownIsOpen` needs `KnownWasSent`: a message with a
  provider id was sent, so neither a dispatch nor a resend meets one.
  `WindowsMeasured` is inductive relative to the types. `RetryIsAnswered` rests on
  `ClaimsHeld`: the request that found no message holds the conversation, and an
  insert with a key needs that row, by its own lock or by the foreign key.
  For the timers, `MInv` adds that a timer being fired is still pending
  (`FiringIsDue`: whoever would cancel it waits for its row lock) and that a published
  timer is pending no more and never comes back (`Reported`: its `activity_version`
  stays used as long as its rule exists). `TimersMatchActivity` and
  `SilenceReportedOnce` follow, also where timers and changes of control meet, which
  no region of the runs covers.

### Sessions (`Sessions!Spec`)

None of the properties is inductive: each depends on what a
request that waits still knows. `IInv` adds that (`Claimed`): the token a
refresh holds is unconsumed, unrevoked and locked by it; a logout that holds
the session has all its tokens in view; a reset holds its token, unused, and
from the user's lock on knows all the user's sessions; and tokens and logouts
belong to sessions that exist (`Stored`). Steps that only lock and read are
handled by one lemma (`WaitKeeps`), each commit by its own. The count behind
`ResetTokensSingleUse` is a second induction on top of `IInv`.

### Webhooks (`WebhookInbox!Spec`, `MCWebhooks!Spec`)

* `WebhookInboxProofs`: `IInv` adds to the properties
  what a delivery knows: an event it staged is in no committed row and staged by
  nobody else (`StagedOnce`, the unique index), and all it has passed is stored,
  staged or found (`Walked`); a quarantined row rests, and effects equal one exactly
  for processed rows. That only the lease holder ends an event follows step by step,
  because a worker writes a row only if its token is still the row's.
* `WebhooksProofs` takes these facts to the two parts of the run: it instantiates the
  module of the proofs for each (`IngressFacts`, `LeaseFacts`) and shows that the steps
  of the part are the steps its theorems speak of.

### Workers (`MCWorkers!Spec`)

* `RelayIsSafe`. `HandedOver` counts: the queue has an event as often as it was handed
  over with no commit to record it, because the answer or the relay was lost, and once
  more while it is taken, committed or not. `RunsApart` (SKIP LOCKED: a row is held by
  one run, is unpublished, and is no longer to be done once it is enqueued) is what
  makes the last term at most one.
* `RuleIsSafe`. `Loops` is the loop invariant of a worker: before its index every
  action is done, by this transaction or an earlier one, unless an unknown result ended
  the loop. `StagedApart` is the unique index on attempts, `Ledger` relates effects to
  committed results. A settlement either stores its status, and then the actions are
  known as `FailedIsKnown` asks, or marks the execution as `omitted`. That failures
  alone do not exceed the backoff is a counting argument (`Chances`): every worker
  beyond the first, and every chance to claim beyond the backoff, is paid for by one of
  the `excuses`.
* `MailIsSafe`. One task is in flight per row (`SendersApart`); it made the latest claim
  of a row nobody can claim, and its answer agrees with what the server did
  (`SenderOf`); what the server took of earlier claims was reported as failed (`RowOf`).

### Customers (`MCCustomers!Spec`)

* `ContactsAreSafe`. `Accounted`: a contact that bears a user's id is active, was deleted
  by hand and not erased, or was tied to the user by a late write; writes of its
  fields tie nobody to it (`QualifyKeeps`). With `ErasedIsDead`,
  `ErasedIsUnlinked` and `CutOffExplained` are readings of it; `LeadOnce` is one of
  `LeadRows`. Merging and the purge write many rows at once.
* `OptOutsAreHonoured`. `CapturedNear`: a grant is captured when it was begun, an
  opt-out within the skew of that. The row that is latest when a message asks is then
  the witness for the message (`LatestWins`), and the rows it relied on never change.
* `OpportunitiesAreSafe`. Fairness over every run of turns is not inductive; `RoundShares`
  is: over a run that saw one roster there is an n such that the agents on the way
  round from its first to its last (`Arc`) had n + 1 turns and the others n. A turn adds
  the successor of the last agent, since one request at most is in its turn and chose
  with the row locked (`OneTurn`, `LastTurn`). The moves need that the target an AI run
  has checked suits the opportunity as long as the run holds the row (`Movable`).
* `MisfitsAreExplained`. Soundness must hold of stored values (`StoredSound`), of what a
  pending write brings and of what it read beside that (`PendingSound`), with one
  definition per name; and an edit under way changes the type only over nothing
  (`EditsGuarded`, which is the guard of the code and fails without it). A change of a
  definition leaves sound what is under no name it loosens (`ChangeKeepsSound`), and makes
  what is under the others older, in the table and in every pending write
  (`AgingKeeps`).

### Company (`MCCompany!Spec`)

* `TenanciesAreSafe`. `CompaniesWhole` and `MemberOnce` (a member has used one invitation,
  with the role held, the others none) rest on what waiting requests know
  (`RequestFits`: an invitation found open is locked before a new one is written, and a
  locked row is as it was when it was locked) and on no two of them holding the same
  row, address or slug (`Apart`).
* `FactorIsSafe`. `CodesUnspent`: usable codes are unspent, and so are those of a secret
  not yet drawn or not yet confirmed. `TokensTell`: what the purpose of a challenge says
  of the factor.
* `AssetsAreSafe`. `IndexHolds`: the unique index holds for the table and for what each
  transaction sees of it, because no two have written the same index entry
  (`WritersApart`): `Flush` waits for the other one. `CredentialsApart`: rows, committed
  or not, have credentials of their own, so that deleting a replaced one takes it from no
  other row, and a row not yet committed has its credential (a restart ends its request
  too). `CredentialsGone` (a disconnected row has none) gives the action property
  `ReconnectionIsFresh`.
* `SettingsAreSafe`. Validated hours are everywhere, in what requests have read too. That
  windows compared with their neighbours only are pairwise disjoint is a lemma, for any
  number of windows in a day.
* `PagesAreComplete`. `ListInv`: the client has all that is not past the cursor, as far as
  it was there all the time, and nothing that is. The lemmas are about the
  ranks of finite sets of rows of any size.
* `WindowIsExact`. `QueuesExact`: for *every* time x of the last window, a queue has as many
  entries after x as there were requests allowed after x. For the start of the window
  alone this would not be inductive: the clock moves on and the queue is pruned later.

### Only model-checked

Liveness is beyond TLAPS: `TransactionsEnd`, `IngressSettles` (its safety half is the
theorem `IngressIsSafe`), and `OutboxesDrain`, `CampaignsSettle`, `JobsSettle`,
`ErasureSettles` of the run `settle`. The last three join liveness with safety
(`CleanIsComplete`, `ResultIsFinal`, `PurgedIsBlank`), which is not proved yet.

## 5. Not modelled

* In the core: deadlines and the business clock (any pending timer may be due);
  batches of more than one timer; the creation of a conversation by its first
  message (two concurrent first messages create two: nothing is locked and no
  constraint forbids it); `message_dispatch.py` lines 30-33, unreachable because
  foreign keys keep the conversation and the asset; an idempotency conflict, which
  changes no state; closed conversations, which no code creates; provider statuses
  for inbound messages; KPI aggregation. Consent is asked when a message is queued
  and is modelled in `Consents` alone.
* In sessions and identity: secrets and hashes, TOTP arithmetic, deactivated users
  and memberships (no code deactivates one), the clock (a session may expire, a
  token may be refused at any moment), `POST /tenants`, which always fails.
* Elsewhere: signatures and the splitting of webhook payloads; what an automation's
  action writes; the selection of rules; normalisation of phones and addresses,
  a PATCH that clears a contact's phone or address,
  attribution and the contents of exports; what Graph answers (a choice among
  sequences of external ids), insights; values of opportunities' custom fields, which
  go through the same validator; `Retry-After`; the default pipeline (constants);
  tasks; the audit log's sanitizer.
* Code without a caller: the AI budget (`reserve_token_budget`,
  `settle_token_budget`) and AI runs, billing (`cancel_subscription` aside),
  `update_job_progress`, `reserve_idempotency_key`,
  `propagate_opportunity_assignment`, `RedisSlidingWindowLimiter`,
  `check_provider_limit`. Which transaction they run in, and what follows them, is
  not decided by the code, so a model would be about the callers it invents.
* Prompt assembly, read-only routes, observability and configuration keep no state
  a property could be about.

## 6. Plan

1. Messaging core, sessions, webhook inbox, e-mail outbox, relay, automations, identity,
   second factor, contacts, consents, opportunities, custom fields, settings, channel
   assets, lists and limits: checked, and their safety proved.
2. Jobs, campaign synchronisation and the purge: checked, liveness included.
3. Left: proofs of `ResultIsFinal`, `CleanIsComplete` and `PurgedIsBlank`; an abstract
   specification of a session (signed in, revoked, expired) and of a mail in the
   outbox, implemented by the detailed ones; the creation of conversations, composed
   with the inbox.
