----------------------------- MODULE MCRevocation -----------------------------
(***************************************************************************)
(* Small instances of Revocation: one or two ids, a clock of a few ticks,  *)
(* tokens that live for two of them.                                       *)
(***************************************************************************)
EXTENDS Revocation
=============================================================================
