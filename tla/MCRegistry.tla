----------------------------- MODULE MCRegistry -----------------------------
(* Two clients, two possible tokens, a few tries. *)
EXTENDS Registry
=============================================================================
