-------------------------- MODULE MCReconfiguration --------------------------
(***************************************************************************)
(* A small instance of Reconfiguration.                                    *)
(***************************************************************************)
EXTENDS Reconfiguration

CONSTANTS z, p1, p2, c1, c2

AllZfs     == [v \in Volumes |-> "zfs"]
AllUpdates == Proxies \cup {None}
AllFaults  == FaultKinds
AllRoles   == {"get", "list", "watch"}
=============================================================================
