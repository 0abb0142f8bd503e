--------------------------- MODULE TenantSettings ---------------------------
(***************************************************************************)
(* Settings of one company: the row that the first reader creates, and the *)
(* PUT that replaces every column. Neither locks the row, and a flush      *)
(* writes only the columns whose value differs from the one read, so two   *)
(* overlapping replacements can leave a mixture of both.                   *)
(***************************************************************************)
EXTENDS Integers, Sequences, FiniteSets

CONSTANTS
  Hours,      \* times of day, as numbers
  Policies,   \* values of the other columns, taken as one
  Requests,
  MaxWindows, \* bound: windows of a day
  MaxPuts     \* bound: replacements begun

\* What the constants must satisfy.
SettingsAssumption ==
  /\ Hours \subseteq Nat /\ MaxWindows \in Nat /\ MaxPuts \in Nat
  /\ Policies # {} /\ "no row" \notin Policies

VARIABLES
  row,      \* tenant_settings, committed
  req,
  puts,
  audited,  \* history: the settings the last audit event gives as after
  crossed   \* history: the last commit met a row its request had not read

vars == <<row, req, puts, audited, crossed>>

NoRow == [hours |-> <<>>, policy |-> "no row"]
Idle == [at |-> "idle"]

\* Windows of one weekday, each closing after it opens.
Windows == {w \in [open : Hours, close : Hours] : w.open < w.close}

\* Windows i and j are next to each other when sorted by open; sorted is stable.
Sooner(day, i, j) ==
  day[i].open < day[j].open \/ (day[i].open = day[j].open /\ i < j)

Adjacent(day, i, j) ==
  /\ Sooner(day, i, j)
  /\ ~ \E k \in DOMAIN day : Sooner(day, i, k) /\ Sooner(day, k, j)

\* Two openings are compared.
NoOverlapsOpenings(day) ==
  \A i, j \in DOMAIN day : Adjacent(day, i, j) => day[i].open < day[j].open

\* Each window is compared with the one before.
NoOverlaps(day) ==
  \A i, j \in DOMAIN day : Adjacent(day, i, j) => ~(day[j].open < day[i].close)

Days == UNION {[1..n -> Windows] : n \in 0..MaxWindows}

Columns == [hours : Seq(Windows), policy : Policies]

\* TenantSettingsPayload: what the validators let through.
Payloads == {[hours |-> d, policy |-> p] : d \in {e \in Days : NoOverlaps(e)}, p \in Policies}

Defaults == [hours |-> <<>>, policy |-> CHOOSE p \in Policies : TRUE]

Init ==
  /\ row = NoRow
  /\ req = [r \in Requests |-> Idle]
  /\ puts = 0
  /\ audited = Defaults
  /\ crossed = FALSE

\* _load_settings finds the row, or none and will insert the defaults.
Loaded == IF row = NoRow THEN Defaults ELSE row

GetSettings(r) ==
  /\ req[r] = Idle /\ row = NoRow
  /\ req' = [req EXCEPT ![r] = [at |-> "get", insert |-> TRUE, seen |-> Loaded, new |-> Loaded]]
  /\ UNCHANGED <<row, puts, audited, crossed>>

PutSettings(r, p) ==
  /\ req[r] = Idle /\ puts < MaxPuts
  /\ puts' = puts + 1
  /\ req' = [req EXCEPT ![r] =
       [at |-> "put", insert |-> row = NoRow, seen |-> Loaded, new |-> p]]
  /\ UNCHANGED <<row, audited, crossed>>

\* The hours are not assigned.
FlushedNoHours(seen, new) == [Loaded EXCEPT !.policy = new.policy]

\* The columns that differ from the read are written.
Flushed(seen, new) ==
  [k \in DOMAIN new |-> IF new[k] = seen[k] THEN Loaded[k] ELSE new[k]]

Commit(r) ==
  /\ req[r].at \in {"get", "put"}
  /\ req[r].insert => row = NoRow
  /\ row' = Flushed(req[r].seen, req[r].new)
  /\ audited' = IF req[r].at = "put" THEN req[r].new ELSE audited
  /\ crossed' = (Loaded # req[r].seen)
  /\ req' = [req EXCEPT ![r] = Idle]
  /\ UNCHANGED puts

\* The insert of a second first reader meets the primary key, and the
\* request fails.
Collide(r) ==
  /\ req[r].at \in {"get", "put"}
  /\ req[r].insert /\ row # NoRow
  /\ req' = [req EXCEPT ![r] = Idle]
  /\ UNCHANGED <<row, puts, audited, crossed>>

Next ==
  \E r \in Requests :
    \/ GetSettings(r)
    \/ \E p \in Payloads : PutSettings(r, p)
    \/ Commit(r)
    \/ Collide(r)

Spec == Init /\ [][Next]_vars

-----------------------------------------------------------------------------
\* Every variable has its type; a request sees settings a reader can load.
TypeOK ==
  /\ row \in {NoRow} \cup Columns
  /\ req \in [Requests -> {Idle} \cup [at : {"get", "put"}, insert : BOOLEAN,
                                      seen : Columns, new : Columns]]
  /\ audited \in Columns

\* No moment is in two windows of the stored day: the neighbour test of
\* no_overlaps is enough for every pair, and no mixture of two
\* replacements undoes it.
HoursDisjoint ==
  \A i, j \in DOMAIN row.hours :
    i # j => \/ row.hours[i].close <= row.hours[j].open
             \/ row.hours[j].close <= row.hours[i].open

\* The stored settings are the ones the last audit event gives as after,
\* unless update_settings wrote over a row that changed since its read.
StoredAsAudited == (row # NoRow /\ ~crossed) => row = audited
=============================================================================
