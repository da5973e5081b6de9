---------------------------- MODULE MCNameRegistry ----------------------------
(* Values of NameRegistry's constants for TLC. *)
EXTENDS NameRegistryClaims
=============================================================================
