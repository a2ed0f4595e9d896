-------------------------- MODULE MCExtensionLink --------------------------
(***************************************************************************)
(* Two ports; two runs, so that a second scan meets what a first left.     *)
(***************************************************************************)
EXTENDS ExtensionLink

MCPort == <<"p1", "p2">>
=============================================================================
