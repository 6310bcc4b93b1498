---------------------------- MODULE MCEventProcCli ----------------------------
(* Instances of EventProcCli for TLC. *)
EXTENDS EventProcCli, TLC

\* All the names are interchangeable.
Symmetry == Permutations(Hdl) \cup Permutations(EvType) \cup Permutations(SubId)
            \cup Permutations(Dev) \cup Permutations(Attr)

===============================================================================
