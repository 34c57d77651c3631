---- MODULE MCAgentServices ----
(* Instances of AgentServices for TLC. *)
EXTENDS AgentServices
====
