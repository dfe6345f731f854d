----------------------------- MODULE MCLibrary -----------------------------
(* LibraryGenerations for TLC. *)
EXTENDS LibraryGenerations
=============================================================================
