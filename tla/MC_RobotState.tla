---------------------------- MODULE MC_RobotState ----------------------------
(* RobotState on a small instance: two cmd_vel samples, two HTTP requests, *)
(* two point names, two map->odom transforms.                             *)
EXTENDS RobotState

CONSTANTS v1, v2, r1, r2, a, b, m1, m2, f1

MCTwists == {v1, v2}
MCReqs == {r1, r2}
MCNames == {a, b}
MCMapOdoms == {m1, m2}
MCBfps == {f1}
=============================================================================
