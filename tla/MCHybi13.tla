------------------------------ MODULE MCHybi13 ------------------------------
(* An instance of Hybi13 for TLC. *)
EXTENDS Hybi13

=============================================================================
