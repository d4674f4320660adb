----------------------------- MODULE NodeContract ----------------------------
(***************************************************************************)
(* What the node plugin promises to the pods of a node, for either kind of *)
(* volume: a target path shows nothing or the volume of its pod; it is     *)
(* reported as published only while it shows the volume; what it shows     *)
(* goes away when its pod leaves or the node reboots and at no other time; *)
(* and it is reported as gone only when nothing is mounted there.          *)
(***************************************************************************)
CONSTANTS
  Targets,  \* target paths
  Own,      \* Own[t]: the mounts that show the volume of t's pod
  Nothing   \* no mount

VARIABLES
  status,   \* "new", "up", "leaving" or "gone", as the kubelet knows it
  shows,    \* the mount visible at each target
  void      \* the kubelet gave up on a call: nothing is promised any more

vars == <<status, shows, void>>

Init ==
  /\ status = [t \in Targets |-> "new"]
  /\ shows = [t \in Targets |-> Nothing]
  /\ void = FALSE

Show(t) ==
  /\ status[t] = "new" /\ shows[t] = Nothing
  /\ \E s \in Own[t] : shows' = [shows EXCEPT ![t] = s]
  /\ status' \in {status, [status EXCEPT ![t] = "up"]}

Announce(t) ==
  /\ status[t] = "new" /\ shows[t] # Nothing
  /\ status' = [status EXCEPT ![t] = "up"]
  /\ UNCHANGED shows

AskToLeave(t) ==
  /\ status[t] \in {"new", "up"}
  /\ status' = [status EXCEPT ![t] = "leaving"]
  /\ UNCHANGED shows

Hide(t) ==
  /\ status[t] = "leaving"
  /\ shows' = [shows EXCEPT ![t] = Nothing]
  /\ status' \in {status, [status EXCEPT ![t] = "gone"]}

\* A restarted kubelet learns anew what is published.
Forget ==
  /\ status' \in {[t \in Targets |-> IF t \in S THEN "new" ELSE status[t]] :
                    S \in SUBSET {t \in Targets : status[t] = "up"}}
  /\ UNCHANGED shows

Reboot ==
  /\ shows' = [t \in Targets |-> Nothing]
  /\ status' = [t \in Targets |-> IF status[t] = "up" THEN "new" ELSE status[t]]

Promised ==
  \/ \E t \in Targets : Show(t) \/ Announce(t) \/ AskToLeave(t) \/ Hide(t)
  \/ Forget \/ Reboot

Next == void' \/ (UNCHANGED void /\ Promised)

Spec == Init /\ [][Next]_vars
=============================================================================
