------------------------- MODULE MCRobotController -------------------------
(* The controller with one heading or more out of every range that the cases *)
(* of the switch tell apart: the borders, their neighbours, and the ends of   *)
(* the ranges that no border is next to.                                     *)
EXTENDS RobotController

Thresholds == {a \in 0 .. 360 : \E b \in Borders : a \in b - 1 .. b + 1}
                \cup {0, 287, 288, 360}
=============================================================================
