-------------------------- MODULE MCSpokeDiscovery ---------------------------
(* Instances of SpokeDiscovery for TLC. *)
EXTENDS SpokeDiscovery

CONSTANTS c1, s1, s2, v1, v2
==============================================================================
