----------------------------- MODULE MCController ----------------------------
(***************************************************************************)
(* Small instances of Controller.  With MB = 2 and GB = 4 the sizes 4, 6   *)
(* and 8 are whole MB and 5 is not.                                        *)
(***************************************************************************)
EXTENDS Controller, TLC

CONSTANTS z, l, p1, p2, c1, c2

ZfsAndLustre == [v \in Volumes |-> IF v = z THEN "zfs" ELSE "lustre"]

NoUpdates    == {}
AllUpdates   == Proxies \cup {None}
\* The storage's answers to lookups are relied upon.
StorageFaults == FaultKinds \ {"pvList", "getVolume"}
LookupFault  == {"answer", "getVolume"}
LostAnswer   == {"answer"}

HandlerSymmetry == Permutations(Calls)
=============================================================================
