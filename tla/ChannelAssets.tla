---------------------------- MODULE ChannelAssets ----------------------------
(***************************************************************************)
(* Connecting Meta assets: the OAuth round trip, the channel_assets table, *)
(* the credential store beside the database, disconnection, revalidation   *)
(* and the routing of inbound events to the connected asset.               *)
(*                                                                         *)
(* The credential store takes part in no transaction: what is put or       *)
(* deleted there stays so when the request is rolled back.  It lives in    *)
(* the memory of the one API process and is empty after a restart.         *)
(***************************************************************************)
EXTENDS Naturals, Sequences, FiniteSets

CONSTANTS
  Tenants,
  Externals,   \* external ids of Meta
  AdAccounts,  \* those of them on the channel ad_account
  States,      \* OAuth states ever created
  Callbacks,   \* requests of /connect/callback
  Found,       \* sequences of external ids that Meta may return
  MaxRows,     \* bound: rows of channel_assets
  MaxRefs,     \* bound: credentials ever stored
  MaxFaults,   \* bound: lost requests and restarts
  NoOne

\* What the constants must satisfy.
AssetAssumption ==
  /\ AdAccounts \subseteq Externals
  /\ Found \subseteq Seq(Externals)
  /\ MaxRows \in Nat /\ MaxRefs \in Nat /\ MaxFaults \in Nat
  /\ NoOne \notin Tenants

VARIABLES
  oauth,     \* meta_oauth_states
  row,       \* channel_assets, a function from the ids in use
  store,     \* references the credential store knows
  refs,      \* references drawn so far
  cb,        \* callbacks
  closing,   \* disconnections in progress: rows held by DELETE requests
  faults,
  exchanged, \* history: how often the code of a state was exchanged
  undone,    \* history: rows whose last writer deleted the credential and was
             \* rolled back
  forgotten  \* history: the references drawn before the last restart

vars == <<oauth, row, store, refs, cb, closing, faults, exchanged, undone, forgotten>>

Statuses == {"connected", "disconnected", "expired", "error"}
Row      == [t : Tenants, x : Externals, status : Statuses, ref : 1 .. MaxRefs]
State    == [t : Tenants \cup {NoOne}, used : BOOLEAN, live : BOOLEAN]

RowIds   == 1 .. MaxRows
IsTable(f) == DOMAIN f \subseteq RowIds /\ \A i \in DOMAIN f : f[i] \in Row

\* new: the rows this transaction has changed, pend: the one of them that is not
\* flushed yet, locked: the rows its queries have locked.
Idle     == [at |-> "idle"]
IsCallback(c) ==
  \/ c = Idle
  \/ /\ DOMAIN c = {"at", "s", "todo", "new", "pend", "locked"}
     /\ c.at \in {"remote", "upsert"} /\ c.s \in States
     /\ c.todo \in Seq(Externals) /\ IsTable(c.new)
     /\ c.pend \subseteq DOMAIN c.new /\ c.locked \subseteq RowIds

Init ==
  /\ oauth = [s \in States |-> [t |-> NoOne, used |-> FALSE, live |-> TRUE]]
  /\ row = <<>> /\ store = {} /\ refs = 0
  /\ cb = [r \in Callbacks |-> Idle]
  /\ closing = {} /\ faults = 0
  /\ exchanged = [s \in States |-> 0]
  /\ undone = {} /\ forgotten = 0

Ids == DOMAIN row

assetSame == <<row, store, refs, closing, undone, forgotten>>

-----------------------------------------------------------------------------
(* The OAuth round trip.                                                   *)

StartConnection(s, t) ==
  /\ oauth[s].t = NoOne
  /\ oauth' = [oauth EXCEPT ![s].t = t]
  /\ UNCHANGED <<cb, faults, exchanged, assetSame>>

StateExpires(s) ==
  /\ oauth[s].t # NoOne /\ oauth[s].live
  /\ oauth' = [oauth EXCEPT ![s].live = FALSE]
  /\ UNCHANGED <<cb, faults, exchanged, assetSame>>

Consumable(s) == oauth[s].t # NoOne /\ ~oauth[s].used /\ oauth[s].live

\* The user refused: the state is consumed all the same.
RejectOAuth(s) ==
  /\ Consumable(s)
  /\ oauth' = [oauth EXCEPT ![s].used = TRUE]
  /\ UNCHANGED <<cb, faults, exchanged, assetSame>>

\* Mutant: the state is only committed together with the assets.
ConsumedLate(s) == oauth

Consumed(s) == [oauth EXCEPT ![s].used = TRUE]

\* The state is consumed and committed before the first remote call.
CompleteBegin(r, s) ==
  /\ cb[r] = Idle
  /\ Consumable(s)
  /\ oauth' = Consumed(s)
  /\ exchanged' = [exchanged EXCEPT ![s] = @ + 1]
  /\ cb' = [cb EXCEPT ![r] = [at |-> "remote", s |-> s, todo |-> <<>>, new |-> <<>>,
                              pend |-> {}, locked |-> {}]]
  /\ UNCHANGED <<faults, assetSame>>

\* Exchange or discovery fails, and the request answers META_OAUTH_FAILED.
RemoteFails(r) ==
  /\ cb[r].at = "remote"
  /\ cb' = [cb EXCEPT ![r] = Idle]
  /\ UNCHANGED <<oauth, faults, exchanged, assetSame>>

Discover(r, found) ==
  /\ cb[r].at = "remote"
  /\ cb' = [cb EXCEPT ![r].at = "upsert", ![r].todo = found]
  /\ UNCHANGED <<oauth, faults, exchanged, assetSame>>

-----------------------------------------------------------------------------
(* upsert_meta_assets.                                                     *)

Owner(r)    == oauth[cb[r].s].t
Writing(r)  == cb[r].at = "upsert"
New(r)      == IF Writing(r) THEN cb[r].new ELSE <<>>
HeldRows(r) == DOMAIN New(r)
Locked(r)   == IF Writing(r) THEN cb[r].locked ELSE {}
Written(r)  == IF Writing(r) THEN HeldRows(r) \ cb[r].pend ELSE {}

\* The table as the transaction sees it.
View(r) == [i \in Ids \cup Written(r) |-> IF i \in Written(r) THEN New(r)[i] ELSE row[i]]

RowFree(r, i) == /\ i \notin closing
                 /\ \A q \in Callbacks \ {r} : i \notin HeldRows(q) \cup Locked(q)

\* The transaction of r has written the index entry of x.
Claims(r, x) == \E i \in Written(r) : New(r)[i].x = x

\* Mutant: only the owner's own rows are compared.
OwnedByOther(r, x, i) ==
  \E j \in DOMAIN View(r) \ {i} :
    View(r)[j].x = x /\ View(r)[j].t = Owner(r) /\ View(r)[j].status = "connected"

\* uq_connected_messaging_asset_owner: no other row is connected.
OwnedElsewhere(r, x, i) ==
  /\ x \notin AdAccounts
  /\ \E j \in DOMAIN View(r) \ {i} : View(r)[j].x = x /\ View(r)[j].status = "connected"

Target(r, x) == {i \in DOMAIN View(r) : View(r)[i].t = Owner(r) /\ View(r)[i].x = x}

\* A new row takes the next id that no row and no transaction uses.
Fresh(i) ==
  LET Unused == {j \in RowIds \ Ids : \A r \in Callbacks : j \notin HeldRows(r)}
  IN  i \in Unused /\ \A j \in Unused : i <= j

\* Mutant: the new credential is deleted in place of the old one.
ReplacedNew(r, i) == refs + 1

\* The reference that the row gave up.
Replaced(r, i) == View(r)[i].ref

\* One candidate: its rows are locked, the credential is put and the old one
\* deleted.  A row that another transaction has not committed is not found.
Select(r, i) ==
  LET x   == Head(cb[r].todo)
      new == [t |-> Owner(r), x |-> x, status |-> "connected", ref |-> refs + 1]
  IN /\ Writing(r) /\ cb[r].pend = {} /\ cb[r].todo # <<>>
     /\ \/ Fresh(i) /\ Target(r, x) = {} /\ store' = store \cup {refs + 1}
        \/ /\ i \in Target(r, x) /\ \A j \in Target(r, x) : RowFree(r, j)
           /\ store' = (store \cup {refs + 1}) \ {Replaced(r, i)}
     /\ refs < MaxRefs
     /\ refs' = refs + 1
     /\ cb' = [cb EXCEPT ![r].todo = Tail(@), ![r].locked = @ \cup Target(r, x),
                         ![r].pend = {i} \ HeldRows(r),
                         ![r].new = [j \in HeldRows(r) \cup {i} |->
                                       IF j = i THEN new ELSE New(r)[j]]]
     /\ UNCHANGED <<oauth, row, closing, faults, exchanged, undone, forgotten>>

\* The flush before the next query or the commit: it waits for a transaction
\* that has written the same index entry; a connected row is an IntegrityError.
Flush(r, i) ==
  LET x == New(r)[i].x
  IN /\ Writing(r) /\ i \in cb[r].pend
     /\ x \notin AdAccounts => \A q \in Callbacks \ {r} : ~Claims(q, x)
     /\ \/ /\ ~OwnedElsewhere(r, x, i)
           /\ cb' = [cb EXCEPT ![r].pend = @ \ {i}]
           /\ UNCHANGED undone
        \/ /\ OwnedElsewhere(r, x, i)
           /\ cb' = [cb EXCEPT ![r] = Idle]
           /\ undone' = undone \cup (HeldRows(r) \cap Ids)
     /\ UNCHANGED <<oauth, row, store, refs, closing, faults, exchanged, forgotten>>

Commit(r) ==
  /\ Writing(r) /\ cb[r].pend = {} /\ cb[r].todo = <<>>
  /\ row' = View(r)
  /\ undone' = undone \ HeldRows(r)
  /\ cb' = [cb EXCEPT ![r] = Idle]
  /\ UNCHANGED <<oauth, store, refs, closing, faults, exchanged, forgotten>>

\* Also the victim of a deadlock between two callbacks.
CallbackLost(r) ==
  /\ cb[r] # Idle
  /\ faults < MaxFaults
  /\ faults' = faults + 1
  /\ cb' = [cb EXCEPT ![r] = Idle]
  /\ undone' = undone \cup (HeldRows(r) \cap Ids)
  /\ UNCHANGED <<oauth, row, store, refs, closing, exchanged, forgotten>>

\* The API process starts again: the store is empty, every request is gone.
Restart ==
  /\ faults < MaxFaults
  /\ faults' = faults + 1
  /\ store' = {} /\ forgotten' = refs
  /\ cb' = [r \in Callbacks |-> Idle]
  /\ closing' = {}
  /\ UNCHANGED <<oauth, row, refs, exchanged, undone>>

-----------------------------------------------------------------------------
(* Disconnection and revalidation.                                         *)

Unlocked(i) ==
  i \in Ids /\ i \notin closing /\ \A r \in Callbacks : i \notin HeldRows(r) \cup Locked(r)

\* The credential is deleted first; the status follows with the commit.
DisconnectBegin(i) ==
  /\ Unlocked(i)
  /\ store' = store \ {row[i].ref}
  /\ closing' = closing \cup {i}
  /\ UNCHANGED <<oauth, row, refs, cb, faults, exchanged, undone, forgotten>>

DisconnectCommit(i) ==
  /\ i \in closing
  /\ row' = [row EXCEPT ![i].status = "disconnected"]
  /\ closing' = closing \ {i}
  /\ undone' = undone \ {i}
  /\ UNCHANGED <<oauth, store, refs, cb, faults, exchanged, forgotten>>

DisconnectLost(i) ==
  /\ i \in closing
  /\ faults < MaxFaults
  /\ faults' = faults + 1
  /\ closing' = closing \ {i}
  /\ undone' = undone \cup {i}
  /\ UNCHANGED <<oauth, row, store, refs, cb, exchanged, forgotten>>

\* Mutant: a missing credential is not an error.
RevalidatedBlind(i) == {"connected", "expired", "error"}

\* What the provider may say: a missing credential or a failed call is an
\* error; a valid token connects the asset, unless another row is connected
\* (the IntegrityError leaves the row as it was).
Revalidated(i) ==
  IF row[i].ref \notin store THEN {"error"}
  ELSE {"expired", "error"} \cup
       (IF row[i].x \notin AdAccounts
           /\ \/ \E j \in Ids \ {i} : row[j].x = row[i].x /\ row[j].status = "connected"
              \/ \E r \in Callbacks : Claims(r, row[i].x)
        THEN {} ELSE {"connected"})

Revalidate(i, status) ==
  /\ Unlocked(i)
  /\ status \in Revalidated(i)
  /\ row' = [row EXCEPT ![i].status = status]
  /\ UNCHANGED <<oauth, store, refs, cb, closing, faults, exchanged, undone, forgotten>>

Next ==
  \/ \E s \in States : \/ \E t \in Tenants : StartConnection(s, t)
                       \/ StateExpires(s) \/ RejectOAuth(s)
  \/ \E r \in Callbacks :
       \/ \E s \in States : CompleteBegin(r, s)
       \/ RemoteFails(r) \/ \E f \in Found : Discover(r, f)
       \/ \E i \in RowIds : Select(r, i) \/ Flush(r, i)
       \/ Commit(r) \/ CallbackLost(r)
  \/ \E i \in Ids : \/ DisconnectBegin(i) \/ DisconnectCommit(i) \/ DisconnectLost(i)
                    \/ \E status \in Statuses : Revalidate(i, status)
  \/ Restart

Spec == Init /\ [][Next]_vars

-----------------------------------------------------------------------------
(* Routing of inbound events.                                              *)

Candidates(x) == {i \in Ids : row[i].x = x /\ row[i].status = "connected"}

Route(x) ==
  CASE Candidates(x) = {}              -> "unknown_asset"
    [] Cardinality(Candidates(x)) > 1  -> "ambiguous_asset"
    [] OTHER                           -> "resolved"

\* Every table, request and counter has its type.
TypeOK ==
  /\ oauth \in [States -> State]
  /\ IsTable(row)
  /\ store \subseteq 1 .. refs /\ refs \in 0 .. MaxRefs
  /\ DOMAIN cb = Callbacks /\ \A r \in Callbacks : IsCallback(cb[r])
  /\ closing \subseteq Ids /\ faults \in 0 .. MaxFaults
  /\ exchanged \in [States -> Nat] /\ undone \subseteq Ids /\ forgotten \in 0 .. refs

\* Two tenants that connect one messaging asset, or one that revalidates an old
\* row while another connects, never make its inbound events ambiguous.
RouteUnambiguous == \A x \in Externals \ AdAccounts : Route(x) # "ambiguous_asset"

\* An OAuth state is exchanged once, also when the exchange fails, the request
\* is lost or two callbacks bring the same state (complete_meta_oauth:342).
StateUsedOnce == \A s \in States : exchanged[s] <= 1

\* A connected asset has its credential in the store, unless the process started
\* again since it was connected, or a request that deleted the credential was
\* rolled back and none has settled the row since.
CredentialPresent ==
  \A i \in Ids \ closing :
    row[i].status = "connected" /\ row[i].ref \notin store
      => \/ row[i].ref <= forgotten
         \/ i \in undone \/ \E r \in Callbacks : i \in HeldRows(r)

\* A disconnected asset is connected again only by its own tenant's consent: the
\* step brings a new credential, never the one that was given up.
ReconnectionIsFresh ==
  \A i \in Ids : row[i].status = "disconnected" /\ row'[i].status = "connected"
                 => row'[i].ref # row[i].ref
=============================================================================
