----------------------------- MODULE Pagination -----------------------------
(***************************************************************************)
(* A client walks through a list page by page while rows come and go. A    *)
(* row's key is its time and its id; the time is fixed before the row is   *)
(* committed (start of the transaction, or the provider's clock), so a row *)
(* can appear behind the cursor.                                           *)
(***************************************************************************)
EXTENDS Integers, Sequences, FiniteSets

CONSTANTS
  Items,     \* row ids, ordered as PostgreSQL orders them
  Times,
  Limit,     \* rows of a page
  MaxChanges \* bound: rows inserted or removed

\* What the constants must satisfy.
PageAssumption ==
  /\ Items \subseteq Nat /\ Times \subseteq Nat
  /\ Limit \in 1..100 /\ MaxChanges \in Nat

VARIABLES
  rows,    \* committed rows that match the query: keys <<time, id>>
  cursor,  \* cursor of the next page; None before the first and after the last
  at,      \* where the client is: begin, more, done
  got,     \* pages the client received, each a set of keys
  changes,
  steady   \* history: rows present at the first page and ever since

vars == <<rows, cursor, at, got, changes, steady>>

None == <<>>
Keys == Times \X Items

Init ==
  /\ rows \in SUBSET Keys /\ IsFiniteSet(rows)
  /\ \A j, k \in rows : j[2] = k[2] => j = k
  /\ cursor = None /\ at = "begin" /\ got = <<>>
  /\ changes = 0
  /\ steady = {}

\* The order of the list.
Before(j, k) == j[1] < k[1] \/ (j[1] = k[1] /\ j[2] < k[2])

\* The tie on equal times is not broken.
PastTime(k, c) == k[1] > c[1]

\* The row of the cursor itself is repeated.
PastOrAt(k, c) == ~Before(k, c)

\* What the WHERE clause of a cursor lets through.
Past(k, c) == k[1] > c[1] \/ (k[1] = c[1] /\ k[2] > c[2])

\* Place of a row among those of S.
Rank(k, S) == Cardinality({j \in S : Before(j, k)})

\* Rows of the statement: at most one more than a page.
Selected ==
  LET rest == {k \in rows : cursor = None \/ Past(k, cursor)}
  IN {k \in rest : Rank(k, rest) < Limit + 1}

LastOf(page) == CHOOSE k \in page : \A j \in page : j = k \/ Before(j, k)

NextCursor(page, has_more) == IF has_more THEN LastOf(page) ELSE None

Page ==
  /\ at # "done"
  /\ LET page == {k \in Selected : Rank(k, Selected) < Limit}
         has_more == Cardinality(Selected) > Limit
     IN /\ got' = Append(got, page)
        /\ cursor' = NextCursor(page, has_more)
        /\ at' = IF has_more THEN "more" ELSE "done"
  /\ steady' = IF at = "begin" THEN rows ELSE steady
  /\ UNCHANGED <<rows, changes>>

RowAppears(k) ==
  /\ changes < MaxChanges
  /\ \A j \in rows : j[2] # k[2]
  /\ \A i \in DOMAIN got : \A j \in got[i] : j[2] # k[2]
  /\ rows' = rows \cup {k}
  /\ changes' = changes + 1
  /\ UNCHANGED <<cursor, at, got, steady>>

\* Deleted, or changed so that the filter no longer matches.
RowLeaves(k) ==
  /\ changes < MaxChanges
  /\ k \in rows
  /\ rows' = rows \ {k}
  /\ changes' = changes + 1
  /\ steady' = steady \ {k}
  /\ UNCHANGED <<cursor, at, got>>

Next == Page \/ \E k \in Keys : RowAppears(k) \/ RowLeaves(k)

Spec == Init /\ [][Next]_vars

-----------------------------------------------------------------------------
\* Every variable has its type.
TypeOK ==
  /\ rows \subseteq Keys
  /\ cursor \in Keys \cup {None}
  /\ at = "more" <=> cursor # None
  /\ got \in Seq(SUBSET Keys)
  /\ steady \subseteq rows

\* Across all pages of paginate the client sees the rows in order and none
\* twice, whatever is inserted or removed between two pages.
PagesInOrder ==
  \A i, j \in DOMAIN got : i < j => \A k \in got[i], l \in got[j] : Before(k, l)

\* A client at the end of the list has every row that was there all the
\* time, also when several rows share a time or the cursor's row is gone.
NothingSkipped ==
  at = "done" => \A k \in steady : \E i \in DOMAIN got : k \in got[i]
=============================================================================
