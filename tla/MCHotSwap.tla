----------------------------- MODULE MCHotSwap -----------------------------
(***************************************************************************)
(* A baked build and a new one, of two chunks each, the watcher and a tool.*)
(***************************************************************************)
EXTENDS HotSwap

MCChunks == [b \in Build |-> 2]
=============================================================================
