-------------------------- MODULE MCCallSignalling --------------------------
(* Calls with a few user actions and at most one copy of a message in flight. *)
EXTENDS CallSignalling
=============================================================================
