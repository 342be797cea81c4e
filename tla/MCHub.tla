------------------------------- MODULE MCHub -------------------------------
(***************************************************************************)
(* Hub as it is; the instance is in the configuration.                     *)
(***************************************************************************)
EXTENDS Hub

=============================================================================
