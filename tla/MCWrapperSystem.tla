--------------------------- MODULE MCWrapperSystem ---------------------------
(* Small instances of WrapperSystem: two windows on one session.           *)
EXTENDS WrapperSystem

CONSTANTS w1, w2, s1

OneSession == [w \in Wrappers |-> s1]
=============================================================================
