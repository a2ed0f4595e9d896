---------------------------- MODULE DocumentLock ----------------------------
(***************************************************************************)
(* What the transaction manager promises about the lock of a document,     *)
(* with transactions as opaque names: a document has at most one owner, a  *)
(* lock is granted to a transaction that never owned one, and a            *)
(* transaction that lost its lock never owns a lock again.                 *)
(***************************************************************************)
CONSTANTS
  Doc,    (* Documents.                        *)
  Tx,     (* Transactions.                     *)
  NoTx    (* The owner of an unlocked document. *)

VARIABLES
  owner,  (* Who owns the lock of each document.          *)
  spent   (* The transactions that owned one and lost it. *)

lockVars == <<owner, spent>>

LockTypeOK ==
  /\ owner \in [Doc -> Tx \cup {NoTx}]
  /\ spent \in SUBSET Tx

Init ==
  /\ owner = [d \in Doc |-> NoTx]
  /\ spent = {}

Held == {d \in Doc : owner[d] # NoTx}

Freed(R)  == [d \in Doc |-> IF d \in R THEN NoTx ELSE owner[d]]
Losers(R) == {owner[d] : d \in R}

\* Commit, a complete rollback, and a sweep that finds several stale
\* transactions release the locks of a set of documents at once.
Release(R) ==
  /\ owner' = Freed(R)
  /\ spent' = spent \cup Losers(R)

\* A begin may find the lock free, or free it by the sweep it starts with.
Grant(R, d, t) ==
  /\ Freed(R)[d] = NoTx
  /\ t \notin spent
  /\ \A e \in Doc : owner[e] # t
  /\ owner' = [Freed(R) EXCEPT ![d] = t]
  /\ spent' = spent \cup Losers(R)

Next ==
  \E R \in SUBSET Held :
    \/ Release(R)
    \/ \E d \in Doc, t \in Tx : Grant(R, d, t)

LockSpec == Init /\ [][Next]_lockVars

\* No transaction owns two documents, and no owner is one that lost a lock.
Exclusive ==
  /\ \A d, e \in Doc : owner[d] # NoTx /\ owner[d] = owner[e] => d = e
  /\ \A d \in Doc : owner[d] \notin spent
=============================================================================
