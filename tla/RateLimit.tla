------------------------------ MODULE RateLimit ------------------------------
(***************************************************************************)
(* The request limit of one server process: a sliding window per client    *)
(* address and path, kept in memory and lost at a restart.                 *)
(***************************************************************************)
EXTENDS Integers, Sequences, FiniteSets, SequencesExt

CONSTANTS
  Clients,    \* addresses
  Paths,
  AuthPaths,  \* paths under /api/v1/auth
  Exempt,     \* health and webhook paths
  AuthLimit, PathLimit,
  Window,
  MaxTime,    \* bound: clock
  MaxRequests \* bound: requests

\* What the constants must satisfy.
LimitAssumption ==
  /\ AuthLimit \in Nat /\ PathLimit \in Nat /\ Window \in Nat \ {0}
  /\ MaxTime \in Nat /\ MaxRequests \in Nat
  /\ AuthPaths \subseteq Paths /\ Exempt \subseteq Paths

VARIABLES
  now,
  events,   \* InMemoryLimiter._events: per key, times still counted
  served    \* history: requests since the start of the process

vars == <<now, events, served>>

Limits(path) == IF path \in AuthPaths THEN AuthLimit ELSE PathLimit

Init ==
  /\ now = 0
  /\ events = [k \in Clients \X Paths |-> <<>>]
  /\ served = <<>>

\* An event of exactly one window ago still counts.
ExpiredAfter(e, t) == e < t - Window

Expired(e, t) == e <= t - Window

\* How many events popleft takes from the old end, until one has not expired.
Popped(k) ==
  LET kept == {i \in DOMAIN events[k] : ~Expired(events[k][i], now)}
  IN IF kept = {} THEN Len(events[k]) ELSE Min(kept) - 1

Current(k) == SubSeq(events[k], Popped(k) + 1, Len(events[k]))

Allows(k) == Len(Current(k)) < Limits(k[2])

Served(client, path, allowed) ==
  served' = Append(served, [client |-> client, path |-> path,
                            at |-> now, allowed |-> allowed])

\* One request through the middleware.
Request(client, path) ==
  LET k == <<client, path>>
  IN /\ path \notin Exempt /\ Len(served) < MaxRequests
     /\ events' = [events EXCEPT ![k] = IF Allows(k) THEN Append(Current(k), now) ELSE Current(k)]
     /\ Served(client, path, Allows(k))
     /\ UNCHANGED now

ExemptRequest(client, path) ==
  /\ path \in Exempt /\ Len(served) < MaxRequests
  /\ Served(client, path, TRUE)
  /\ UNCHANGED <<now, events>>

\* time.monotonic.
Tick == now < MaxTime /\ now' = now + 1 /\ UNCHANGED <<events, served>>

Restart ==
  /\ events' = [k \in Clients \X Paths |-> <<>>]
  /\ served' = <<>>
  /\ UNCHANGED now

Next ==
  \/ \E c \in Clients, p \in Paths : Request(c, p) \/ ExemptRequest(c, p)
  \/ Tick
  \/ Restart

Spec == Init /\ [][Next]_vars

-----------------------------------------------------------------------------
\* Requests of a key allowed in the window that ends with the i-th, before it.
Earlier(i) ==
  {j \in 1..(i - 1) : /\ served[j].allowed
                      /\ served[j].client = served[i].client
                      /\ served[j].path = served[i].path
                      /\ served[j].at > served[i].at - Window}

\* Every variable has its type, and no queue holds more than its limit.
TypeOK ==
  /\ now \in 0..MaxTime
  /\ \A k \in Clients \X Paths : /\ events[k] \in Seq(0..MaxTime)
                                 /\ Len(events[k]) <= Limits(k[2])

\* check_limit is exact: a request is refused if and only if its client had
\* the whole limit of the path in the window that ends with it.
WindowExact ==
  \A i \in DOMAIN served :
    served[i].path \notin Exempt =>
      (served[i].allowed <=> Cardinality(Earlier(i)) < Limits(served[i].path))
=============================================================================
