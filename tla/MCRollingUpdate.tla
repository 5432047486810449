--------------------------- MODULE MCRollingUpdate ---------------------------
(* Instances of RollingUpdate for TLC. *)
EXTENDS RollingUpdate, MCPollLoop

third == alert("s1", "g1", 2)
\* Three occurrences in one group.
Three == [t \in Targets |-> {<<first, second>>, <<first, second, third>>}]
==============================================================================
