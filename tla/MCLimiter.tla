----------------------------- MODULE MCLimiter -----------------------------
(***************************************************************************)
(* Limiter as it is; the instance is in the configuration.                 *)
(***************************************************************************)
EXTENDS Limiter

=============================================================================
