-------------------------- MODULE MCWSTangoConnSer --------------------------
(***************************************************************************)
(* Instances of WSTangoConnSer for TLC.                                    *)
(***************************************************************************)
EXTENDS WSTangoConnSer, TLC

\* Clients are interchangeable.
Symmetry == Permutations(Client)
=============================================================================
