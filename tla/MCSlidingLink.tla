--------------------------- MODULE MCSlidingLink ---------------------------
(* The hop on a small instance: windows of two slots, stamps that wrap. *)
EXTENDS SlidingLink
=============================================================================
