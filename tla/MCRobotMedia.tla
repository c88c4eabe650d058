---------------------------- MODULE MCRobotMedia ----------------------------
(* Three calls with a window of two slots and short buffers. *)
EXTENDS RobotMedia
=============================================================================
