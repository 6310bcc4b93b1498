----------------------------- MODULE MCListener -----------------------------
(* An instance of Listener, with and without TLS. *)
EXTENDS Listener
=============================================================================
