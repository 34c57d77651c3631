---- MODULE MCHostServices ----
(* Instances of HostServices for TLC: a streamed run writes a chunk. *)
EXTENDS HostServices
MCMaxChunks ==
  [r \in Detached \cup Streamed |-> IF r \in Streamed THEN 1 ELSE 0]
====
