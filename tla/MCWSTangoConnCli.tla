---------------------------- MODULE MCWSTangoConnCli ----------------------------
(* Instances of WSTangoConnCli for TLC. *)
EXTENDS WSTangoConnCli, TLC

\* Handles and request ids are interchangeable.
Symmetry == Permutations(Conn) \cup Permutations(Id)

===============================================================================
