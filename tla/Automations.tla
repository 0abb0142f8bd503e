----------------------------- MODULE Automations -----------------------------
(***************************************************************************)
(* Executions of automation rules: the ledger that leases an execution and *)
(* each of its actions to a worker, the loop that runs the actions, and    *)
(* the administrator's redrive.                                            *)
(*                                                                         *)
(* The repository has these operations but no task that calls them.  The   *)
(* worker below is their documented use: it commits claim_execution, then  *)
(* runs execute_actions and settles the execution in one transaction,      *)
(* rolling back when complete_execution answers False.                     *)
(***************************************************************************)
EXTENDS Naturals, FiniteSets

CONSTANTS
  Executions, Workers,
  NActions,    \* length of rule.actions
  MaxAttempts, \* len(BACKOFF_SECONDS)
  MaxClaims,   \* bound: claims of one execution
  MaxFaults    \* bound: timeouts, crashes and redrives

\* What the constants must satisfy.
AutomationAssumption ==
  /\ NActions \in Nat \ {0} /\ MaxAttempts \in Nat \ {0}
  /\ MaxClaims \in Nat /\ MaxFaults \in Nat

VARIABLES
  exec,     \* automation_executions
  attempt,  \* status of automation_action_attempts, per action index
  work,     \* workers
  faults,
  effects,  \* committed effects of each action
  doubts,   \* history: timeouts of each action that were committed as unknown
  excuses,  \* history: redrives, expired leases, unknown results, per execution
  omitted   \* history: executions whose last settlement stored no status

vars == <<exec, attempt, work, faults, effects, doubts, excuses, omitted>>

Actions == 1 .. NActions

ExecStatuses == {"received", "processing", "success", "partial", "failed",
                 "dead_letter", "blocked"}
AttemptStatuses == {"absent", "succeeded", "failed", "unknown"}

\* token names the claim that holds the lease; 0 is NULL.
Exec == [status : ExecStatuses, attempts : Nat, token : Nat, live : BOOLEAN,
         due : BOOLEAN]

\* seen, loaded: attempts and status of the execution as the second transaction
\* read them; staged: the attempts this transaction wrote; did: the effects it
\* flushed.
Idle    == [at |-> "idle"]
Working == [at : {"claimed", "acting", "inserting"}, x : Executions, token : Nat,
            seen : Nat, loaded : ExecStatuses, i : 1 .. NActions + 1,
            did : SUBSET Actions, blocked : BOOLEAN,
            staged : UNION {[S -> AttemptStatuses] : S \in SUBSET Actions}]

Init ==
  /\ exec = [x \in Executions |-> [status |-> "received", attempts |-> 0,
                                   token |-> 0, live |-> FALSE, due |-> TRUE]]
  /\ attempt = [x \in Executions |-> [i \in Actions |-> "absent"]]
  /\ work    = [w \in Workers |-> Idle]
  /\ faults  = 0
  /\ effects = [x \in Executions |-> [i \in Actions |-> 0]]
  /\ doubts  = [x \in Executions |-> [i \in Actions |-> 0]]
  /\ excuses = [x \in Executions |-> 0]
  /\ omitted = {}

-----------------------------------------------------------------------------
(* claim_execution, in a transaction of its own.                           *)

ExecutionClaimable(x) ==
  /\ ~(exec[x].status = "processing" /\ exec[x].live)
  /\ exec[x].status \notin {"success", "blocked", "dead_letter"}
  /\ exec[x].due

ClaimExecution(w, x) ==
  LET n == exec[x].attempts + 1
  IN /\ work[w] = Idle
     /\ ExecutionClaimable(x)
     /\ n <= MaxClaims
     /\ exec' = [exec EXCEPT ![x] = [@ EXCEPT !.status = "processing",
                   !.attempts = n, !.token = n, !.live = TRUE]]
     /\ work' = [work EXCEPT ![w] = [at |-> "claimed", x |-> x, token |-> n,
                   seen |-> n, loaded |-> "processing", i |-> 1, did |-> {},
                   blocked |-> FALSE, staged |-> <<>>]]
     /\ omitted' = omitted \ {x}
     /\ UNCHANGED <<attempt, faults, effects, doubts, excuses>>

LeaseExpires(x) ==
  /\ exec[x].status = "processing" /\ exec[x].live
  /\ exec' = [exec EXCEPT ![x].live = FALSE]
  /\ excuses' = [excuses EXCEPT ![x] = @ + 1]
  /\ UNCHANGED <<attempt, work, faults, effects, doubts, omitted>>

BackoffEnds(x) ==
  /\ ~exec[x].due
  /\ exec' = [exec EXCEPT ![x].due = TRUE]
  /\ UNCHANGED <<attempt, work, faults, effects, doubts, excuses, omitted>>

-----------------------------------------------------------------------------
(* execute_actions: the rows it touches stay locked until the end.         *)

actSame == <<exec, attempt, effects, doubts, excuses, omitted>>

Begin(w) ==
  /\ work[w].at = "claimed"
  /\ LET e == exec[work[w].x]
     IN work' = [work EXCEPT ![w].at = "acting", ![w].seen = e.attempts,
                             ![w].loaded = e.status]
  /\ UNCHANGED <<faults, actSame>>

Acts(w, i) == work[w].at = "acting" /\ work[w].i = i /\ i \in Actions

\* Another transaction has written this attempt and not ended.
HeldElsewhere(w, i) ==
  \E v \in Workers \ {w} : /\ work[v].at \in {"acting", "inserting"}
                           /\ work[v].x = work[w].x
                           /\ i \in DOMAIN work[v].staged

Ended(w, i, status, effect) ==
  [work[w] EXCEPT !.at = "acting",
     !.i = IF status = "unknown" THEN NActions + 1 ELSE i + 1,
     !.did = IF effect THEN @ \cup {i} ELSE @,
     !.staged = [j \in DOMAIN @ \cup {i} |-> IF j = i THEN status ELSE @[j]]]

\* Mutant: the stored status of the attempt is not looked at.
ActionDoneNever(w, i) == FALSE

ActionDone(w, i) == attempt[work[w].x][i] = "succeeded"

SkipDone(w, i) ==
  /\ Acts(w, i)
  /\ ActionDone(w, i)
  /\ ~HeldElsewhere(w, i)
  /\ work' = [work EXCEPT ![w].i = i + 1]
  /\ UNCHANGED <<faults, actSame>>

\* The attempt is leased, its handler runs and the result is written.  The
\* handler's exceptions become a status, TimeoutError the status unknown, with
\* the effect flushed or not; the send of a withdrawn consent blocks the
\* execution.
RunAction(w, i) ==
  /\ \/ Acts(w, i) /\ ~ActionDone(w, i) /\ ~HeldElsewhere(w, i)
     \/ work[w].at = "inserting" /\ work[w].i = i /\ ~HeldElsewhere(w, i)
        /\ attempt[work[w].x][i] = "absent"
  /\ \/ work' = [work EXCEPT ![w] = Ended(w, i, "succeeded", TRUE)] /\ UNCHANGED faults
     \/ work' = [work EXCEPT ![w] = Ended(w, i, "failed", FALSE)] /\ UNCHANGED faults
     \/ /\ work' = [work EXCEPT ![w] = [Ended(w, i, "failed", FALSE) EXCEPT !.blocked = TRUE]]
        /\ UNCHANGED faults
     \/ /\ faults < MaxFaults
        /\ faults' = faults + 1
        /\ \E effect \in BOOLEAN : work' = [work EXCEPT ![w] = Ended(w, i, "unknown", effect)]
  /\ UNCHANGED actSame

\* Both transactions found no attempt: this insert waits on the unique index.
InsertWaits(w, i) ==
  /\ Acts(w, i)
  /\ attempt[work[w].x][i] = "absent"
  /\ HeldElsewhere(w, i)
  /\ work' = [work EXCEPT ![w].at = "inserting"]
  /\ UNCHANGED <<faults, actSame>>

\* The other one committed: IntegrityError, and everything is rolled back.
InsertCollides(w) ==
  /\ work[w].at = "inserting"
  /\ attempt[work[w].x][work[w].i] # "absent"
  /\ work' = [work EXCEPT ![w] = Idle]
  /\ UNCHANGED <<faults, actSame>>

WorkerLost(w) ==
  /\ work[w] # Idle
  /\ faults < MaxFaults
  /\ faults' = faults + 1
  /\ work' = [work EXCEPT ![w] = Idle]
  /\ UNCHANGED actSame

-----------------------------------------------------------------------------
(* Settling the execution and committing.                                  *)

AtEnd(w) == work[w].at = "acting" /\ work[w].i > NActions

Saved(w, x) ==
  [i \in Actions |-> IF i \in DOMAIN work[w].staged THEN work[w].staged[i]
                     ELSE attempt[x][i]]

CommitActions(w, x, e) ==
  /\ exec' = [exec EXCEPT ![x] = e]
  /\ attempt' = [attempt EXCEPT ![x] = Saved(w, x)]
  /\ effects' = [effects EXCEPT ![x] = [i \in Actions |->
                   @[i] + (IF i \in work[w].did THEN 1 ELSE 0)]]
  /\ doubts' = [doubts EXCEPT ![x] = [i \in Actions |-> @[i] +
                  (IF i \in DOMAIN work[w].staged /\ work[w].staged[i] = "unknown"
                   THEN 1 ELSE 0)]]
  /\ work' = [work EXCEPT ![w] = Idle]
  /\ UNCHANGED faults

\* Mutant: only the attempts of this transaction count.
AllSucceededStaged(w) ==
  \A i \in DOMAIN work[w].staged : work[w].staged[i] \in {"succeeded", "unknown"}

AllSucceeded(w) == \A i \in Actions : Saved(w, work[w].x)[i] = "succeeded"

\* Mutant: only the first result is looked at.
AnyUnknownFirst(w) ==
  1 \in DOMAIN work[w].staged /\ work[w].staged[1] = "unknown"

AnyUnknown(w) == \E i \in DOMAIN work[w].staged : work[w].staged[i] = "unknown"

HoldsLease(w) == exec[work[w].x].token = work[w].token

CompleteExecution(w) ==
  LET x == work[w].x
  IN /\ AtEnd(w) /\ AllSucceeded(w)
     /\ HoldsLease(w)
     /\ CommitActions(w, x, [exec[x] EXCEPT !.status = "success", !.live = FALSE])
     /\ omitted' = omitted \ {x}
     /\ UNCHANGED excuses

CompleteRefused(w) ==
  /\ AtEnd(w) /\ AllSucceeded(w)
  /\ ~HoldsLease(w)
  /\ work' = [work EXCEPT ![w] = Idle]
  /\ UNCHANGED <<faults, actSame>>

\* A status equal to the one loaded is no change to the ORM: the UPDATE leaves the
\* column out, and what another worker stored since then stays.
Stored(w, status) == IF status = work[w].loaded THEN exec[work[w].x].status ELSE status

\* The commit after an assignment of status to the loaded execution.
CommitStatus(w, x, status, e) ==
  /\ CommitActions(w, x, [e EXCEPT !.status = Stored(w, status)])
  /\ omitted' = IF Stored(w, status) = status THEN omitted \ {x} ELSE omitted \cup {x}

\* The policy block that execute_automation_send wrote is left standing.  It is
\* flushed by the action, and its row lock keeps the other writers of the row
\* away until the commit.
KeepBlocked(w) ==
  LET x == work[w].x
  IN /\ AtEnd(w) /\ ~AllSucceeded(w) /\ work[w].blocked
     /\ CommitStatus(w, x, "blocked", exec[x])
     /\ UNCHANGED excuses

\* An unknown result: partial, and not postponed.
RetryUnknown(w) ==
  LET x == work[w].x
  IN /\ AtEnd(w) /\ ~work[w].blocked /\ AnyUnknown(w)
     /\ CommitStatus(w, x, "partial", exec[x])
     /\ excuses' = [excuses EXCEPT ![x] = @ + 1]

\* Mutant: no dead letters.
RetryStatusNever(n) == "failed"

RetryStatus(n) == IF n < MaxAttempts THEN "failed" ELSE "dead_letter"

\* schedule_execution_retry compares no lease: a worker that lost its own
\* writes over the state of the one that took over.
RetryLater(w) ==
  LET x == work[w].x
  IN /\ AtEnd(w) /\ ~work[w].blocked /\ ~AnyUnknown(w) /\ ~AllSucceeded(w)
     /\ CommitStatus(w, x, RetryStatus(work[w].seen), [exec[x] EXCEPT !.due = FALSE])
     /\ UNCHANGED excuses

Redrivable(x) == /\ exec[x].status \in {"failed", "dead_letter"}
                 /\ \A i \in Actions : attempt[x][i] # "unknown"

Redrive(x) ==
  /\ Redrivable(x)
  /\ faults < MaxFaults
  /\ faults' = faults + 1
  /\ exec' = [exec EXCEPT ![x] = [@ EXCEPT !.status = "received", !.due = TRUE,
                                  !.token = 0, !.live = FALSE]]
  /\ excuses' = [excuses EXCEPT ![x] = @ + 1]
  /\ UNCHANGED <<attempt, work, effects, doubts, omitted>>

Settle(w) ==
  \/ CompleteExecution(w) \/ CompleteRefused(w) \/ KeepBlocked(w)
  \/ RetryUnknown(w) \/ RetryLater(w)

Next ==
  \/ \E x \in Executions : LeaseExpires(x) \/ BackoffEnds(x) \/ Redrive(x)
  \/ \E w \in Workers :
       \/ \E x \in Executions : ClaimExecution(w, x)
       \/ Begin(w) \/ InsertCollides(w) \/ WorkerLost(w) \/ Settle(w)
       \/ \E i \in Actions : SkipDone(w, i) \/ RunAction(w, i) \/ InsertWaits(w, i)

Spec == Init /\ [][Next]_vars

-----------------------------------------------------------------------------
\* Every row, worker and counter has its type.
TypeOK ==
  /\ exec \in [Executions -> Exec]
  /\ attempt \in [Executions -> [Actions -> AttemptStatuses]]
  /\ work \in [Workers -> {Idle} \cup Working]
  /\ faults \in 0 .. MaxFaults
  /\ effects \in [Executions -> [Actions -> Nat]]
  /\ doubts \in [Executions -> [Actions -> Nat]]
  /\ excuses \in [Executions -> Nat]
  /\ omitted \subseteq Executions

\* An action takes effect once, however often its execution is leased, retried,
\* taken over or redriven; only an unknown result makes a repetition possible.
ActionOnce ==
  \A x \in Executions, i \in Actions : effects[x][i] <= 1 + doubts[x][i]

\* An execution reported as successful has carried out every action, and a
\* success that a stale worker overwrites loses none of it.
SuccessIsComplete ==
  \A x \in Executions :
    /\ exec[x].status = "success" => \A i \in Actions : attempt[x][i] = "succeeded"
    /\ \A i \in Actions : attempt[x][i] = "succeeded" => effects[x][i] > 0

\* Failures alone cannot claim an execution more often than the backoff has
\* steps; every claim beyond them goes back to a redrive, to an expired lease
\* or to an unknown result (schedule_execution_retry:102).
ClaimsBounded ==
  \A x \in Executions : exec[x].attempts <= MaxAttempts + excuses[x]

\* An execution marked as failed or dead has no action with an unknown result,
\* also when workers without its lease write over each other; the exception is
\* one whose last settlement stored no status, because the worker had loaded the
\* one it assigned (schedule_execution_retry:97, :102).
FailedIsKnown ==
  \A x \in Executions \ omitted :
    exec[x].status \in {"failed", "dead_letter"} =>
      \A i \in Actions : attempt[x][i] # "unknown"
=============================================================================
