-------------------------- MODULE MCRobotDownlink --------------------------
(* The robot's receiving hop on small instances. *)
EXTENDS RobotDownlink

(* Bound of the run: the decoder keeps up to one frame behind. *)
DownBufferBound == Len(buffer) <= 1
=============================================================================
