-------------------------- MODULE MCHeadlessProcess --------------------------
(* Instances of HeadlessProcess for TLC. *)
EXTENDS HeadlessProcess

=============================================================================
