------------------------------- MODULE MCFleet -------------------------------
(* Instances of Fleet for TLC. *)
EXTENDS Fleet, MCPollLoop

==============================================================================
