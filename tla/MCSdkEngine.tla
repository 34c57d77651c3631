---- MODULE MCSdkEngine ----
(* Instances of SdkEngine for TLC. *)
EXTENDS SdkEngine
====
