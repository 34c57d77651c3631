----------------------------- MODULE MCAcpEngine -----------------------------
(* Small instances of AcpEngine.                                           *)
EXTENDS AcpEngine
=============================================================================
