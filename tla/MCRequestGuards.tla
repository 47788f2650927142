-------------------------- MODULE MCRequestGuards --------------------------
(* RequestGuards for TLC. *)
EXTENDS RequestGuards

AllPermissions == {"stories.read", "*"}
=============================================================================
