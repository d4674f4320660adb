------------------------------ MODULE MCNfsNode ------------------------------
(***************************************************************************)
(* Small instances of NfsNode.  Volumes v1 and v2 are the successive       *)
(* volumes of one claim p.                                                 *)
(***************************************************************************)
EXTENDS NfsNode, TLC

CONSTANTS t1, t2, t3, t4, v1, v2, p, q, rw, ro, s1, s2, c1, c2

\* Three pods use v1, the fourth v2 after p was recreated.
SuccessorVolumeOf == [t \in Targets |-> IF t = t4 THEN v2 ELSE v1]
\* Two claims, each with a volume of its own.
TwoClaimsOf       == [t \in Targets |-> IF t = t1 THEN v1 ELSE v2]
OwnPvcOf          == [v \in Volumes |-> IF v = v1 THEN p ELSE q]
OnePvcOf          == [v \in Volumes |-> p]
OneVipOf          == [v \in Volumes |-> s1]

Plain    == [options |-> rw, vip |-> NoServer]
ReadOnlyMount == [options |-> ro, vip |-> NoServer]
OtherVip == [options |-> rw, vip |-> s2]
SameAnn  == [t \in Targets |-> Plain]
\* t1 and t2 share a group; t3 asks for a read-only mount.
MixedAnn == [t \in Targets |-> IF t = t3 THEN ReadOnlyMount ELSE Plain]
\* t2 names a server of its own.
VipAnn   == [t \in Targets |-> IF t = t2 THEN OtherVip ELSE Plain]

NoEdits     == {}
SomeEdits   == {Plain, ReadOnlyMount}
OwnText     == [o \in Options |-> o]
NoFaults    == {}
AllFaults   == FaultKinds
HandlerSymmetry == Permutations(Calls)
=============================================================================
