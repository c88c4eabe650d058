--------------------------- MODULE MCRobotUplink ---------------------------
(* The robot's sending hop on a small instance. *)
EXTENDS RobotUplink
=============================================================================
