-------------------------- MODULE MCSchematicBatch --------------------------
(***************************************************************************)
(* Instances of SchematicBatch for TLC.                                    *)
(***************************************************************************)
EXTENDS SchematicBatch

\* Every transaction takes as many operations as the longest batch has.
OneBatch == [t \in 1..MaxTx |-> MaxBatch]
=============================================================================
