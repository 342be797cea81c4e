------------------------------- MODULE MCPool -------------------------------
(***************************************************************************)
(* Pool as it is; the instance is in the configuration.                    *)
(***************************************************************************)
EXTENDS Pool

=============================================================================
