--------------------------- MODULE MCTransactions ---------------------------
(***************************************************************************)
(* Instances of Transactions for TLC.                                      *)
(***************************************************************************)
EXTENDS Transactions

\* The first transaction takes two operations, the later ones one each: two
\* operations suffice to interleave a write with the restore of another.
TwoThenOne == [t \in 1..MaxTx |-> IF t = 1 THEN 2 ELSE 1]
=============================================================================
