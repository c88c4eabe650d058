---------------------------- MODULE MCForwarding ----------------------------
(* A few datagrams, of every kind in every order. *)
EXTENDS Forwarding
=============================================================================
