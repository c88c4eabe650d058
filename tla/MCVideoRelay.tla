---------------------------- MODULE MCVideoRelay ----------------------------
(* The relay with windows of 2.  Two frames fill a window, the third of the   *)
(* phone meets a full one.                                                   *)
EXTENDS VideoRelay

Frames == [k \in Keys |-> IF k = "VideoPhone" THEN 3 ELSE 2]
=============================================================================
