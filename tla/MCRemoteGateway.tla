-------------------------- MODULE MCRemoteGateway --------------------------
(***************************************************************************)
(* Two relay sockets, two calls of three attempts, one approval.           *)
(***************************************************************************)
EXTENDS RemoteGateway, TLC

CONSTANTS t1, t2, t3, write, read

MCDeed == (t1 :> write) @@ (t2 :> write) @@ (t3 :> read)
=============================================================================
