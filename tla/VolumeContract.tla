---------------------------- MODULE VolumeContract ---------------------------
(***************************************************************************)
(* What dynamic provisioning promises to a claim, whatever happens on the  *)
(* way: a volume becomes usable at once as a whole (storage and export),   *)
(* stays usable and never gets smaller until its user releases it, and is  *)
(* reclaimed only when nothing of it is left on the storage.               *)
(***************************************************************************)
EXTENDS Naturals

CONSTANTS Volumes, SizesMB

VARIABLES
  use,   \* "none", "usable", "released" or "reclaimed"
  size   \* MB a usable volume has on the storage

vars == <<use, size>>

Init == use = [v \in Volumes |-> "none"] /\ size = [v \in Volumes |-> 0]

Provision(v, mb) ==
  /\ use[v] = "none" /\ mb > 0
  /\ use' = [use EXCEPT ![v] = "usable"]
  /\ size' = [size EXCEPT ![v] = mb]

Grow(v, mb) ==
  /\ use[v] = "usable" /\ mb > size[v]
  /\ size' = [size EXCEPT ![v] = mb]
  /\ UNCHANGED use

\* A claim deleted while it is provisioned releases its volume unused.
Release(v) ==
  /\ use[v] \in {"none", "usable"}
  /\ use' = [use EXCEPT ![v] = "released"]
  /\ size' = [size EXCEPT ![v] = 0]

Reclaim(v) ==
  /\ use[v] = "released"
  /\ use' = [use EXCEPT ![v] = "reclaimed"]
  /\ UNCHANGED size

Next == \E v \in Volumes :
  \/ \E mb \in SizesMB : Provision(v, mb) \/ Grow(v, mb)
  \/ Release(v) \/ Reclaim(v)

Spec == Init /\ [][Next]_vars
=============================================================================
