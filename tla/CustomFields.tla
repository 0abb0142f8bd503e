---------------------------- MODULE CustomFields ----------------------------
(***************************************************************************)
(* Custom field definitions of a company and the values its contacts hold. *)
(* A request validates or checks against what it reads first and commits   *)
(* later; no definition is ever locked. Values are kept by field name: a   *)
(* definition owns whatever is stored under its present name.              *)
(***************************************************************************)
EXTENDS Naturals, FiniteSets

CONSTANTS
  Definitions,  \* definition ids
  Names,
  Options,      \* options of a select field
  Contacts,
  Requests,
  MaxEdits,     \* bound: definitions created, edited or deleted
  MaxWrites     \* bound: values written

\* What the constants must satisfy.
FieldAssumption == MaxEdits \in Nat /\ MaxWrites \in Nat

VARIABLES
  definition,  \* custom_field_definitions of one entity type
  values,      \* contacts.custom_fields
  req,
  edits, writes,
  loose        \* history: the contacts and names whose value was stored before a
               \* change of its definition that nothing guards

vars == <<definition, values, req, edits, writes, loose>>

\* number stands for every type whose values no other type accepts.
Types == {"text", "number", "select"}
Values == {"null", "word", "count"} \cup Options
None == "none"
Absent == [name |-> "absent"]
Idle == [at |-> "idle"]

Record == [name : Names, type : Types, options : SUBSET Options, required : BOOLEAN]
\* empty: nothing was stored under the name when the definition was read.
Editing == [at : {"edit"}, id : Definitions, seen : Record, new : Record, empty : BOOLEAN]
\* old: the names whose value, read or validated here, is older than such a change.
Writing == [at : {"user", "ai"}, contact : Contacts, name : Names, value : Values,
            seen : [Names -> Values \cup {None}], old : SUBSET Names]

Init ==
  /\ definition = [d \in Definitions |-> Absent]
  /\ values = [c \in Contacts |-> [n \in Names |-> None]]
  /\ req = [r \in Requests |-> Idle]
  /\ edits = 0 /\ writes = 0
  /\ loose = {}

Defined == {d \in Definitions : definition[d] # Absent}

\* Select fields have options, the others none.
ValidOptions(f) == f.type = "select" <=> f.options # {}

\* validate_custom_field_value.
Fits(f, v) ==
  CASE v = "null" -> ~f.required
    [] f.type = "text" -> v = "word" \/ v \in Options
    [] f.type = "number" -> v = "count"
    [] OTHER -> v \in f.options

\* The check forgets the values that are stored.
HasValuesNever(n) == FALSE

HasValues(n) == \E c \in Contacts : values[c][n] # None

-----------------------------------------------------------------------------
(* Values: PATCH /contacts/{id} and the qualification tool of an AI run.   *)

Accepted(n, v) == \E d \in Defined : definition[d].name = n /\ Fits(definition[d], v)

Held(c) == \E r \in Requests : req[r].at = "ai" /\ req[r].contact = c

Validated(r, by, c, n, v) ==
  /\ req[r] = Idle
  /\ writes < MaxWrites
  /\ Accepted(n, v)
  /\ writes' = writes + 1
  /\ req' = [req EXCEPT ![r] = [at |-> by, contact |-> c, name |-> n, value |-> v,
                                seen |-> values[c],
                                old |-> {m \in Names \ {n} : <<c, m>> \in loose}]]
  /\ UNCHANGED <<definition, values, edits, loose>>

UserWrites(r, c, n, v) == Validated(r, "user", c, n, v)

\* The contact is locked before the definitions are read.
AiWrites(r, c, n, v) == ~Held(c) /\ Validated(r, "ai", c, n, v)

\* The whole column is replaced by the merge over the values read first.
WriteCommits(r) ==
  LET w == req[r]
      same == w.value = w.seen[w.name]
  IN /\ w.at = "ai" \/ (w.at = "user" /\ ~Held(w.contact))
     /\ values' = [values EXCEPT ![w.contact] =
          IF same THEN @ ELSE [w.seen EXCEPT ![w.name] = w.value]]
     /\ loose' = IF same THEN loose
                 ELSE {x \in loose : x[1] # w.contact} \cup ({w.contact} \X w.old)
     /\ req' = [req EXCEPT ![r] = Idle]
     /\ UNCHANGED <<definition, edits, writes>>

-----------------------------------------------------------------------------
(* Definitions.                                                            *)

NameFree(d, n) == \A e \in Defined \ {d} : definition[e].name # n

\* A new id: no definition has it and no request read it.
Fresh(d) == definition[d] = Absent /\ \A r \in Requests : req[r].at = "edit" => req[r].id # d

CreateDefinition(d, f) ==
  /\ Fresh(d) /\ edits < MaxEdits
  /\ ValidOptions(f) /\ NameFree(d, f.name)
  /\ edits' = edits + 1
  /\ definition' = [definition EXCEPT ![d] = f]
  /\ UNCHANGED <<values, req, writes, loose>>

\* A change of type is refused when a contact holds a value.
EditBegins(r, d, f) ==
  /\ req[r] = Idle /\ d \in Defined /\ edits < MaxEdits
  /\ f # definition[d] /\ ValidOptions(f)
  /\ f.type # definition[d].type => ~HasValues(definition[d].name)
  /\ edits' = edits + 1
  /\ req' = [req EXCEPT ![r] =
       [at |-> "edit", id |-> d, seen |-> definition[d], new |-> f,
        empty |-> \A c \in Contacts : values[c][definition[d].name] = None]]
  /\ UNCHANGED <<definition, values, writes, loose>>

\* Only the columns that differ from the read are written.
Flushed(row, seen, new) ==
  [k \in DOMAIN row |-> IF new[k] = seen[k] THEN row[k] ELSE new[k]]

\* The names under which a change leaves values that nothing protects from it:
\* a rename, options, required, and a type over nothing that was stored yet.
Loosened(row, new, empty) ==
  IF row.name # new.name THEN {row.name, new.name}
  ELSE IF row.type = new.type \/ empty THEN {row.name} ELSE {}

\* Such a change makes older what is stored and what a pending write carries:
\* its own value, and those the merge puts back as they were read.
StoredUnder(ns) == {x \in Contacts \X ns : values[x[1]][x[2]] # None}
Carried(w, ns) == {n \in ns : n = w.name \/ w.seen[n] # None}
Aged(q, ns) == IF q.at \in {"user", "ai"} THEN [q EXCEPT !.old = @ \cup Carried(q, ns)] ELSE q

EditCommits(r) ==
  LET d == req[r].id
      new == Flushed(definition[d], req[r].seen, req[r].new)
      ns == Loosened(definition[d], new, req[r].empty)
  IN /\ req[r].at = "edit" /\ d \in Defined
     /\ NameFree(d, new.name)
     /\ definition' = [definition EXCEPT ![d] = new]
     /\ loose' = loose \cup StoredUnder(ns)
     /\ req' = [q \in Requests |-> IF q = r THEN Idle ELSE Aged(req[q], ns)]
     /\ UNCHANGED <<values, edits, writes>>

\* The name is taken, or the definition is gone.
EditFails(r) ==
  LET d == req[r].id
  IN /\ req[r].at = "edit"
     /\ d \in Defined => ~NameFree(d, Flushed(definition[d], req[r].seen, req[r].new).name)
     /\ req' = [req EXCEPT ![r] = Idle]
     /\ UNCHANGED <<definition, values, edits, writes, loose>>

\* The values stay with the contacts.
DeleteDefinition(d, confirm_values) ==
  LET ns == {definition[d].name}
  IN /\ d \in Defined /\ edits < MaxEdits
     /\ HasValues(definition[d].name) => confirm_values
     /\ edits' = edits + 1
     /\ definition' = [definition EXCEPT ![d] = Absent]
     /\ loose' = loose \cup StoredUnder(ns)
     /\ req' = [q \in Requests |-> Aged(req[q], ns)]
     /\ UNCHANGED <<values, writes>>

Next ==
  \/ \E d \in Definitions, f \in Record : CreateDefinition(d, f)
  \/ \E d \in Definitions, b \in BOOLEAN : DeleteDefinition(d, b)
  \/ \E r \in Requests :
       \/ \E d \in Definitions, f \in Record : EditBegins(r, d, f)
       \/ \E c \in Contacts, n \in Names, v \in Values :
            UserWrites(r, c, n, v) \/ AiWrites(r, c, n, v)
       \/ EditCommits(r)
       \/ EditFails(r)
       \/ WriteCommits(r)

Spec == Init /\ [][Next]_vars

-----------------------------------------------------------------------------
\* Every variable has its type; a name has at most one definition.
TypeOK ==
  /\ \A d \in Definitions : definition[d] \in Record \cup {Absent}
  /\ \A d, e \in Defined : definition[d].name = definition[e].name => d = e
  /\ values \in [Contacts -> [Names -> Values \cup {None}]]
  /\ \A r \in Requests : req[r] \in Editing \cup Writing \cup {Idle}
  /\ loose \subseteq Contacts \X Names

\* A stored value is one the present definition of its name accepts, unless
\* the definition saw, after that value was validated, a change that
\* update_custom_field does not guard: a rename, new options, a new required, a
\* deletion, or a change of type read when nothing was stored under the name.
MisfitsExplained ==
  \A c \in Contacts, d \in Defined :
    LET n == definition[d].name
    IN (values[c][n] # None /\ <<c, n>> \notin loose) => Fits(definition[d], values[c][n])
=============================================================================
