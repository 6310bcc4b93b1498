------------------------------ MODULE MCWSThread ------------------------------
(* Instances of WSThread for TLC. *)
EXTENDS WSThreadRefinement, TLC

\* Handles and request ids are interchangeable (safety runs only).
Symmetry == Permutations(Conn) \cup Permutations(Id)

===============================================================================
