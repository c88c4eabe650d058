--------------------------- MODULE MCSessionReset ---------------------------
(* Sessions of one link with windows of two slots. *)
EXTENDS SessionReset
=============================================================================
