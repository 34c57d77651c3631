--------------------------- MODULE MCWrapperBroker ---------------------------
(* Small instances of WrapperBroker.                                       *)
EXTENDS WrapperBroker

CONSTANTS w1, w2, w3, s1

\* All windows are on one session.
OneSession == [w \in Wrappers |-> s1]
=============================================================================
