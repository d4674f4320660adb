----------------------------- MODULE MCLustreNode ----------------------------
(***************************************************************************)
(* A small instance of LustreNode.                                         *)
(***************************************************************************)
EXTENDS LustreNode

CONSTANTS t1, t2, m1, m2, m3, c1, c2

AllFaults == FaultKinds
=============================================================================
