----------------------------- MODULE CampaignSync -----------------------------
(***************************************************************************)
(* The reconciliation of campaigns with Meta: beat's run over the ad       *)
(* accounts of all tenants, and the runs that a user asks for. A run is    *)
(* one transaction. Rows carry their tenant in the campaign's name.        *)
(***************************************************************************)
EXTENDS Naturals, Sequences, FiniteSets

CONSTANTS
  Campaigns,
  Assets,      \* connected ad accounts
  Lists,       \* per asset, the campaigns Meta lists
  Beat,        \* the run of all assets
  Manual,      \* runs of one tenant
  Plans,       \* per run, the orders in which its assets may come
  Broken,      \* assets whose calls always fail
  MaxFailures, \* bound: failing calls of the other assets, and rows refused
  MaxManual,   \* bound: runs asked for by users
  Absent

Runs == {Beat} \cup Manual

\* What the constants must satisfy.
SyncAssumption ==
  /\ Lists \in [Assets -> Seq(Campaigns)]
  /\ Plans \in [Runs -> SUBSET Seq(Assets)]
  /\ Broken \subseteq Assets
  /\ MaxFailures \in Nat /\ MaxManual \in Nat

VARIABLES
  row,       \* campaigns, with their ad sets and ads
  run,
  failures, asked

vars == <<row, run, failures, asked>>

\* kids: the ad sets and ads are stored; error: last_sync_error is set.
Row  == [asset : Assets, kids : BOOLEAN, synced : BOOLEAN, error : BOOLEAN]
Maybe == Row \cup {Absent}

Idle    == [at |-> "idle"]
Syncing == [at : {"account", "campaign", "kids"}, todo : Seq(Assets), left : Seq(Campaigns),
            own : [Campaigns -> Maybe]]

Init ==
  /\ row = [c \in Campaigns |-> Absent]
  /\ run = [r \in Runs |-> Idle]
  /\ failures = 0 /\ asked = 0

Start(r, plan) ==
  /\ run[r] = Idle
  /\ plan \in Plans[r]
  /\ r \in Manual => asked < MaxManual
  /\ asked' = IF r \in Manual THEN asked + 1 ELSE asked
  /\ run' = [run EXCEPT ![r] = [at |-> "account", todo |-> plan, left |-> <<>>,
                                own |-> [c \in Campaigns |-> Absent]]]
  /\ UNCHANGED <<row, failures>>

Account(r) == Head(run[r].todo)
Wrote(r)   == IF run[r] = Idle THEN {} ELSE {c \in Campaigns : run[r].own[c] # Absent}
View(r, c) == IF c \in Wrote(r) THEN run[r].own[c] ELSE row[c]
Free(r, c) == \A q \in Runs \ {r} : c \notin Wrote(q)

Answers(r) == Account(r) \notin Broken

ListCampaigns(r) ==
  /\ run[r].at = "account" /\ run[r].todo # <<>> /\ Answers(r)
  /\ run' = [run EXCEPT ![r].at = "campaign", ![r].left = Lists[Account(r)]]
  /\ UNCHANGED <<row, failures, asked>>

\* Mutant: a new campaign is stored without its account.
StoredNoAccount(r, old) ==
  IF old = Absent THEN [asset |-> Absent, kids |-> FALSE, synced |-> FALSE, error |-> FALSE]
  ELSE [old EXCEPT !.asset = Account(r)]

Stored(r, old) ==
  IF old = Absent THEN [asset |-> Account(r), kids |-> FALSE, synced |-> FALSE, error |-> FALSE]
  ELSE [old EXCEPT !.asset = Account(r)]

\* The campaign is stored, and flushed, before its ad sets are asked for.
Upsert(r) ==
  LET c == Head(run[r].left)
  IN /\ run[r].at = "campaign" /\ run[r].left # <<>>
     /\ Free(r, c)
     /\ run' = [run EXCEPT ![r].at = "kids", ![r].own[c] = Stored(r, View(r, c))]
     /\ UNCHANGED <<row, failures, asked>>

SyncChildren(r) ==
  LET c == Head(run[r].left)
  IN /\ run[r].at = "kids" /\ Answers(r)
     /\ run' = [run EXCEPT ![r].at = "campaign", ![r].left = Tail(@),
          ![r].own[c] = [@ EXCEPT !.kids = TRUE, !.synced = TRUE, !.error = FALSE]]
     /\ UNCHANGED <<row, failures, asked>>

AccountDone(r) ==
  /\ run[r].at = "campaign" /\ run[r].left = <<>>
  /\ run' = [run EXCEPT ![r].at = "account", ![r].todo = Tail(@)]
  /\ UNCHANGED <<row, failures, asked>>

\* Mutant: only the campaigns that were there before the run are marked.
MarkedOld(r) == {c \in Campaigns : row[c] # Absent /\ row[c].asset = Account(r)}

Marked(r) == {c \in Campaigns : View(r, c) # Absent /\ View(r, c).asset = Account(r)}

\* Mutant: the failure of one account ends the run.
AfterFailureStop(r) == Idle

\* The handler keeps what was written and goes on with the next account.
AfterFailure(r) ==
  [run[r] EXCEPT !.at = "account", !.todo = Tail(@), !.left = <<>>,
     !.own = [c \in Campaigns |-> IF c \in Marked(r) THEN [View(r, c) EXCEPT !.error = TRUE]
                                  ELSE @[c]]]

CallFails(r) ==
  /\ run[r] # Idle /\ run[r].todo # <<>>
  /\ Account(r) \in Broken \/ failures < MaxFailures
  /\ failures' = IF Account(r) \in Broken THEN failures ELSE failures + 1
  /\ \A c \in Marked(r) : Free(r, c)
  /\ run' = [run EXCEPT ![r] = AfterFailure(r)]
  /\ UNCHANGED <<row, asked>>

\* The row or child that the run wants to insert is being inserted by another
\* run, or both wait for each other. The handler catches the error, but the
\* session is unusable: its next query raises and the whole run is undone.
Collide(r) ==
  /\ run[r].at = "campaign" /\ run[r].left # <<>>
  /\ ~Free(r, Head(run[r].left))
  /\ run' = [run EXCEPT ![r] = Idle]
  /\ UNCHANGED <<row, failures, asked>>

\* The database refuses what Meta answered for an account, a name longer than
\* its column: the handler catches it, but the run is undone as after a collision.
Refused(r) ==
  /\ run[r].at \in {"campaign", "kids"} /\ run[r].left # <<>>
  /\ failures < MaxFailures
  /\ failures' = failures + 1
  /\ run' = [run EXCEPT ![r] = Idle]
  /\ UNCHANGED <<row, asked>>

Commit(r) ==
  /\ run[r].at = "account" /\ run[r].todo = <<>>
  /\ row' = [c \in Campaigns |-> View(r, c)]
  /\ run' = [run EXCEPT ![r] = Idle]
  /\ UNCHANGED <<failures, asked>>

Step(r) ==
  \/ ListCampaigns(r) \/ Upsert(r) \/ SyncChildren(r) \/ AccountDone(r)
  \/ CallFails(r) \/ Collide(r) \/ Refused(r) \/ Commit(r)

Next == \E r \in Runs : Step(r) \/ \E plan \in Plans[r] : Start(r, plan)

\* Beat starts a run at every interval, and a worker that has one goes on.
Spec ==
  /\ Init /\ [][Next]_vars
  /\ \A r \in Runs : WF_vars(Step(r))
  /\ WF_vars(\E plan \in Plans[Beat] : Start(Beat, plan))

-----------------------------------------------------------------------------
\* Rows, runs and counters have their types.
TypeOK ==
  /\ row \in [Campaigns -> Maybe]
  /\ run \in [Runs -> {Idle} \cup Syncing]
  /\ failures \in 0 .. MaxFailures /\ asked \in 0 .. MaxManual

\* A campaign that shows no error has its ad sets and ads, however the calls for
\* it or for its neighbours failed.
CleanIsComplete ==
  \A c \in Campaigns : row[c] # Absent /\ ~row[c].error => row[c].kids /\ row[c].synced

\* Every campaign of an account that answers is stored complete in the end,
\* beside accounts whose calls fail for ever and however the runs collide.  The
\* database refuses rows at most MaxFailures times: one refused at every run
\* would undo the run of all accounts for ever.
HealthySynced ==
  \A c \in Campaigns :
    (\E a \in Assets \ Broken : \E k \in DOMAIN Lists[a] : Lists[a][k] = c)
      => <>(row[c] # Absent /\ row[c].kids)
=============================================================================
