---------------------------- MODULE MC_FleetHub ----------------------------
(* Model values for FleetHub: two endpoints, two browser bridges.          *)
EXTENDS FleetHub, TLC

CONSTANTS e1, e2, b1, b2, none

MCEndpoints == {e1, e2}
MCBridges == {b1, b2}
=============================================================================
