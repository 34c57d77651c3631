---- MODULE MCControlPlane ----
(* Instances of ControlPlane for TLC. *)
EXTENDS ControlPlane

\* "/", an application's path, and a reserved one below it.
SomePaths == {<<>>, <<"_oyren">>, <<"_oyren", "health">>}
====
