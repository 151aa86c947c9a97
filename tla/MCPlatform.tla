----------------------------- MODULE MCPlatform -----------------------------
(***************************************************************************)
(* A small instance of Platform: one REST report and one MQTT report of a  *)
(* device that either account may own, both in the name of the first.      *)
(***************************************************************************)
EXTENDS Platform

CONSTANTS e1, e2, d1

MCDevice  == [s \in Sources |-> d1]
MCUser    == [s \in Sources |-> e1]
MCSeconds == [s \in Sources |-> 60]
=============================================================================
