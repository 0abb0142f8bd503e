---------------------------- MODULE Opportunities ----------------------------
(***************************************************************************)
(* Opportunities of one company: creation, with the owner chosen in turn   *)
(* among the sales agents, and the moves between the stages of a pipeline  *)
(* by users, automation rules and AI runs.                                 *)
(*                                                                         *)
(* A user or a rule first reads the opportunity without a lock. The        *)
(* SELECT ... FOR UPDATE that follows returns the object the session       *)
(* already holds, with the values of the first read, and the flush writes  *)
(* only the columns whose value differs from that read.                    *)
(***************************************************************************)
EXTENDS Integers, Sequences, FiniteSets

CONSTANTS
  Agents,      \* user ids, ordered as PostgreSQL orders them
  Opps,
  Stages,      \* the stages of the pipeline of every opportunity
  Foreign,     \* stages of the company's other pipelines
  LostStages,  \* stages whose terminal_type is lost
  Reasons,     \* non-empty loss reasons
  Requests,
  MaxRoster,   \* bound: changes of the roster
  MaxMoves     \* bound: stage changes begun

\* What the constants must satisfy.
OppAssumption ==
  /\ Agents \subseteq Nat
  /\ LostStages \subseteq Stages
  /\ Stages \cap Foreign = {}
  /\ MaxRoster \in Nat /\ MaxMoves \in Nat

VARIABLES
  roster,    \* active memberships whose role is agente_comercial
  rotation,  \* assignment_rotation_state of the company, committed
  opp,       \* opportunities, committed
  ai,        \* stages with ai_can_transition
  req,
  changes, moves,
  turns,     \* history: rosters and agents of the committed turns
  trail,     \* history: the stage the last audit event names
  overtaken  \* history: opportunities changed between a read and its write

vars == <<roster, rotation, opp, ai, req, changes, moves, turns, trail, overtaken>>
rotationVars == <<roster, rotation, changes, turns>>
stageVars == <<opp, ai, moves, trail, overtaken>>

NoRow == -1
Nobody == 0
NoReason == "null"
Empty == ""          \* a reason the request gives as the empty string
Absent == [stage |-> "absent"]
Idle == [at |-> "idle"]

Texts == Reasons \cup {NoReason, Empty}
Rows == [stage : Stages \cup Foreign, reason : Texts, owner : Agents \cup {Nobody}]

Init ==
  /\ roster \in SUBSET Agents
  /\ rotation = NoRow
  /\ opp = [o \in Opps |-> Absent]
  /\ ai = {}
  /\ req = [r \in Requests |-> Idle]
  /\ changes = 0 /\ moves = 0
  /\ turns = <<>>
  /\ trail = [o \in Opps |-> "none"]
  /\ overtaken = {}

Exists(o) == opp[o] # Absent

\* Opportunities whose row lock an AI run holds.
Locked == {req[r].opp : r \in {q \in Requests : req[q].at = "ai"}}

\* Requests that hold, or insert, the rotation row.
Turning == {r \in Requests : req[r].at = "turn"}

-----------------------------------------------------------------------------
(* Creation.                                                               *)

\* Agents join, leave and change role.
RosterChanges(a) ==
  /\ changes < MaxRoster
  /\ changes' = changes + 1
  /\ roster' = IF a \in roster THEN roster \ {a} ELSE roster \cup {a}
  /\ UNCHANGED <<rotation, turns, req, stageVars>>

Least(ids) == CHOOSE i \in ids : \A j \in ids : i <= j

\* The next agent after the last one in the order of ids, else the first.
Successor(ids, last) ==
  LET later == {i \in ids : i > last}
  IN IF last \in ids /\ later # {} THEN Least(later) ELSE Least(ids)

\* Ids of opportunities no request is creating.
Fresh(o) ==
  /\ opp[o] = Absent
  /\ \A q \in Requests : req[q].at \in {"create", "first", "turn"} => req[q].opp # o

Inserted(o, owner) ==
  \E s \in Stages \cup Foreign, t \in Texts :
    opp' = [opp EXCEPT ![o] = [stage |-> s, reason |-> t, owner |-> owner]]

\* The request names the owner.
CreateOwned(o, owner) ==
  /\ Fresh(o)
  /\ Inserted(o, owner)
  /\ UNCHANGED <<rotationVars, req, ai, moves, trail, overtaken>>

\* The request names none and the company has no active agent.
CreateUnowned(o) ==
  /\ Fresh(o) /\ roster = {}
  /\ Inserted(o, Nobody)
  /\ UNCHANGED <<rotationVars, req, ai, moves, trail, overtaken>>

CreateReads(r, o) ==
  /\ req[r] = Idle /\ Fresh(o)
  /\ roster # {}
  /\ req' = [req EXCEPT ![r] = [at |-> "create", opp |-> o, ids |-> roster]]
  /\ UNCHANGED <<rotationVars, stageVars>>

Holding(r, last) == [at |-> "turn", opp |-> req[r].opp, ids |-> req[r].ids,
                     agent |-> Successor(req[r].ids, last)]

\* The last agent is read without the row lock.
TakesTurnUnlocked(r) ==
  /\ req[r].at = "create"
  /\ req' = [req EXCEPT ![r] = Holding(r, rotation)]
  /\ UNCHANGED <<rotationVars, stageVars>>

\* SELECT ... FOR UPDATE waits for the request that holds the row, and finds
\* nothing while the first row is not committed.
TakesTurn(r) ==
  /\ req[r].at = "create"
  /\ \/ /\ rotation # NoRow /\ Turning = {}
        /\ req' = [req EXCEPT ![r] = Holding(r, rotation)]
     \/ /\ rotation = NoRow
        /\ req' = [req EXCEPT ![r].at = "first"]
  /\ UNCHANGED <<rotationVars, stageVars>>

\* The insert waits for another first request and fails when that one
\* commits: the primary key is the company.
InsertsTurn(r) ==
  /\ req[r].at = "first" /\ Turning = {}
  /\ req' = [req EXCEPT ![r] = IF rotation = NoRow THEN Holding(r, rotation) ELSE Idle]
  /\ UNCHANGED <<rotationVars, stageVars>>

CreateCommits(r) ==
  /\ req[r].at = "turn"
  /\ rotation' = req[r].agent
  /\ turns' = Append(turns, [ids |-> req[r].ids, agent |-> req[r].agent])
  /\ Inserted(req[r].opp, req[r].agent)
  /\ req' = [req EXCEPT ![r] = Idle]
  /\ UNCHANGED <<roster, changes, ai, moves, trail, overtaken>>

\* The insert of the opportunity fails and takes the turn with it.
CreateFails(r) ==
  /\ req[r].at = "turn"
  /\ req' = [req EXCEPT ![r] = Idle]
  /\ UNCHANGED <<rotationVars, stageVars>>

-----------------------------------------------------------------------------
(* Stages.                                                                 *)

\* PATCH /opportunities/{id}/stage up to the locked read.
MoveReads(r, o, s, t) ==
  /\ req[r] = Idle /\ Exists(o)
  /\ moves < MaxMoves
  /\ moves' = moves + 1
  /\ req' = [req EXCEPT ![r] = [at |-> "move", opp |-> o, target |-> s, given |-> t,
                                seen |-> opp[o]]]
  /\ UNCHANGED <<rotationVars, opp, ai, trail, overtaken>>

\* The action change_stage of an automation rule gives no reason.
RuleReads(r, o, s) == MoveReads(r, o, s, NoReason)

\* The reason the session's object holds when the stage is checked.
HeldReason(r) == IF req[r].given = NoReason THEN req[r].seen.reason ELSE req[r].given

\* The reason is looked up before the request's own is applied.
AllowedBefore(s, before, reason) ==
  /\ s \in Stages
  /\ s \in LostStages => before \in Reasons

\* The stage is one of the pipeline, and a lost stage has a reason.
Allowed(s, before, reason) ==
  /\ s \in Stages
  /\ s \in LostStages => reason \in Reasons

\* What the flush leaves in a column: only a difference is written.
Written(row, seen, value) == IF value = seen THEN row ELSE value

MoveApplies(r) ==
  LET o == req[r].opp
      seen == req[r].seen
  IN /\ req[r].at = "move" /\ o \notin Locked
     /\ Allowed(req[r].target, seen.reason, HeldReason(r))
     /\ opp' = [opp EXCEPT
          ![o].reason = Written(@, seen.reason, HeldReason(r)),
          ![o].stage = Written(@, seen.stage, req[r].target)]
     /\ trail' = [trail EXCEPT ![o] = req[r].target]
     /\ overtaken' = IF opp[o] = seen THEN overtaken \ {o} ELSE overtaken \cup {o}
     /\ req' = [req EXCEPT ![r] = Idle]
     /\ UNCHANGED <<rotationVars, ai, moves>>

MoveRefused(r) ==
  /\ req[r].at = "move" /\ req[r].opp \notin Locked
  /\ ~Allowed(req[r].target, req[r].seen.reason, HeldReason(r))
  /\ req' = [req EXCEPT ![r] = Idle]
  /\ UNCHANGED <<rotationVars, stageVars>>

\* PATCH /pipelines/stages/{id}.
PolicyChanges(s) ==
  /\ ai' = IF s \in ai THEN ai \ {s} ELSE ai \cup {s}
  /\ UNCHANGED <<rotationVars, opp, req, moves, trail, overtaken>>

\* An AI run locks the opportunity first and keeps it until the run commits.
AiMoves(r, o, s) ==
  /\ req[r] = Idle /\ Exists(o) /\ o \notin Locked
  /\ moves < MaxMoves
  /\ s \in ai /\ Allowed(s, opp[o].reason, opp[o].reason)
  /\ moves' = moves + 1
  /\ req' = [req EXCEPT ![r] = [at |-> "ai", opp |-> o, target |-> s]]
  /\ UNCHANGED <<rotationVars, opp, ai, trail, overtaken>>

AiCommits(r) ==
  LET o == req[r].opp
  IN /\ req[r].at = "ai"
     /\ opp' = [opp EXCEPT ![o].stage = req[r].target]
     /\ trail' = [trail EXCEPT ![o] = req[r].target]
     /\ overtaken' = overtaken \ {o}
     /\ req' = [req EXCEPT ![r] = Idle]
     /\ UNCHANGED <<rotationVars, ai, moves>>

AiUndone(r) ==
  /\ req[r].at = "ai"
  /\ req' = [req EXCEPT ![r] = Idle]
  /\ UNCHANGED <<rotationVars, stageVars>>

-----------------------------------------------------------------------------
CreateStep ==
  \/ \E a \in Agents : RosterChanges(a)
  \/ \E o \in Opps : CreateUnowned(o)
  \/ \E r \in Requests : \/ \E o \in Opps : CreateReads(r, o)
                         \/ TakesTurn(r)
                         \/ InsertsTurn(r)
                         \/ CreateCommits(r)
                         \/ CreateFails(r)

MoveStep ==
  \/ \E o \in Opps, owner \in Agents : CreateOwned(o, owner)
  \/ \E s \in Stages : PolicyChanges(s)
  \/ \E r \in Requests :
       \/ \E o \in Opps, s \in Stages \cup Foreign, t \in Texts : MoveReads(r, o, s, t)
       \/ \E o \in Opps, s \in Stages \cup Foreign : RuleReads(r, o, s)
       \/ \E o \in Opps, s \in Stages : AiMoves(r, o, s)
       \/ MoveApplies(r)
       \/ MoveRefused(r)
       \/ AiCommits(r)
       \/ AiUndone(r)

Next == CreateStep \/ MoveStep

Spec == Init /\ [][Next]_vars

-----------------------------------------------------------------------------
Taking == [at : {"create", "first"}, opp : Opps, ids : SUBSET Agents]
Turns == [at : {"turn"}, opp : Opps, ids : SUBSET Agents, agent : Agents]
Moving == [at : {"move"}, opp : Opps, target : Stages \cup Foreign, given : Texts, seen : Rows]
Running == [at : {"ai"}, opp : Opps, target : Stages]

\* Every variable has its type; a turn that is taken names an agent.
TypeOK ==
  /\ roster \subseteq Agents
  /\ rotation \in Agents \cup {NoRow}
  /\ \A o \in Opps : opp[o] \in Rows \cup {Absent}
  /\ ai \subseteq Stages
  /\ \A r \in Requests : req[r] \in Taking \cup Turns \cup Moving \cup Running \cup {Idle}
  /\ \A o \in Opps : trail[o] \in Stages \cup {"none"}
  /\ overtaken \subseteq Opps

Share(a, i, j) == Cardinality({k \in i..j : turns[k].agent = a})

\* Over any run of consecutive automatic assignments that saw the same
\* roster, no agent gets more than one opportunity more than another,
\* whatever the requests of next_round_robin_agent interleave or undo.
RotationIsFair ==
  \A i, j \in DOMAIN turns :
    (i <= j /\ \A k \in i..j : turns[k].ids = turns[i].ids)
      => \A a, b \in turns[i].ids : Share(a, i, j) <= Share(b, i, j) + 1

\* An opportunity whose last move was made on a current read is where the
\* audit trail says, in a stage of its pipeline, and with a reason if lost:
\* only a move overtaken between its two reads can break this.
MovesAreSound ==
  \A o \in Opps :
    (trail[o] # "none" /\ o \notin overtaken) =>
      /\ opp[o].stage = trail[o]
      /\ opp[o].stage \in Stages
      /\ opp[o].stage \in LostStages => opp[o].reason \in Reasons
=============================================================================
