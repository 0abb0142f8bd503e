----------------------------- MODULE MCSessions -----------------------------
(***************************************************************************)
(* Instances of Sessions for TLC.  The rows and the transactions are model *)
(* values named in the .cfg files.                                         *)
(***************************************************************************)
EXTENDS Sessions, TLC

\* Interchangeable rows and transactions.
Symmetric ==
  Permutations(SessionIds) \cup Permutations(Tokens)
    \cup Permutations(ResetTokens) \cup Permutations(Tx)
=============================================================================
