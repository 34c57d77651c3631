---- MODULE MCEdgeRoutes ----
(* Instances of EdgeRoutes for TLC. *)
EXTENDS EdgeRoutes, TLC

\* Hosts are interchangeable, and so are upstreams.
HostsAndUpstreams == Permutations(Hosts) \cup Permutations(Upstreams)
====
