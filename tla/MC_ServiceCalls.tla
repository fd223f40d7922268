--------------------------- MODULE MC_ServiceCalls ---------------------------
(* Model values for ServiceCalls: calls and service names.                 *)
EXTENDS ServiceCalls

CONSTANTS k1, k2, k3, s1, s2

MCCalls == {k1, k2, k3}
MCServices == {s1, s2}
MCOneService == {s1}
=============================================================================
