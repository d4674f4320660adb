------------------------------ MODULE LustreNode -----------------------------
(***************************************************************************)
(* The Lustre path of the node plugin (pkg/driver/nodeserver.go) for one   *)
(* volume on one node: NodeStageVolume mounts the volume at the staging    *)
(* path in the mount namespace of the host, NodePublishVolume binds that   *)
(* path to a pod's target and remounts it read-only if it is asked to,     *)
(* NodeUnpublishVolume and NodeUnstageVolume undo the two.  Volumes share  *)
(* no path.  One action is one system call or request.                     *)
(***************************************************************************)
EXTENDS Naturals, Sequences

CONSTANTS
  Calls,      \* gRPC handler goroutines that may be in flight at once
  Targets,    \* target paths: one per pod, never used again
  ReadOnly,   \* the targets that are published with readonly
  Mounts,     \* identities of Lustre mounts (bound: mounts alive at once)
  Faults,     \* the operations that may fail, and the restarts
  MaxFaults,  \* bound on failures, restarts and give-ups in one behaviour
  Local,      \* what a bind of the bare staging directory shows
  None        \* no value

FaultKinds == {"stat", "nid", "mount", "umount", "rmDir", "mkdir", "bind",
               "remount", "container", "kubelet", "node", "giveUp"}

ASSUME ConstantsAssumption ==
  /\ ReadOnly \subseteq Targets
  /\ Faults \subseteq FaultKinds
  /\ MaxFaults \in Nat
  /\ Local \notin Mounts /\ None \notin Targets \cup Mounts \cup {Local}

VARIABLES
  \* The kubelet
  kub,     \* its view of each target
  dev,     \* its view of the staging path: "no", "uncertain" or "yes"
  \* The node
  staged,  \* the Lustre mount at the staging path, or None
  sdir,    \* the staging path exists
  tmnt,    \* stack of bind mounts at each target, newest first
  tdirs,   \* targets that exist as directories
  roFs,    \* Lustre mounts whose file system has been remounted read-only
  wiped,   \* RemoveAll has erased the volume's files (history)
  \* The plugin process
  call,    \* the handlers in flight
  \* History
  faults,  \* failures, restarts and give-ups so far
  cut,     \* targets whose publish ended with a bind and before its remount
  late     \* the kubelet has given up on a call that kept running

node    == <<staged, sdir, tmnt, tdirs, roFs, wiped>>
history == <<faults, cut, late>>
vars    == <<kub, dev, node, call, history>>

StageOps     == {"stageCheck", "stageNid", "stageMount",
                 "unstageCheck", "unstageUmount", "unstageRemove"}
PublishOps   == {"pubCheck", "pubBind", "pubRemount"}
UnpublishOps == {"unpubCheck", "unpubUmount", "unpubRemove"}
Idle         == [pc |-> "idle", t |-> None, waited |-> FALSE]

Init ==
  /\ kub = [t \in Targets |-> "new"]
  /\ dev = "no"
  /\ staged = None /\ sdir = FALSE
  /\ tmnt = [t \in Targets |-> <<>>]
  /\ tdirs = {}
  /\ roFs = {}
  /\ wiped = FALSE
  /\ call = [c \in Calls |-> Idle]
  /\ faults = 0 /\ cut = {} /\ late = FALSE

MayFail(op) == op \in Faults /\ faults < MaxFaults /\ faults' = faults + 1
Fine        == UNCHANGED faults

-----------------------------------------------------------------------------
(***************************************************************************)
(* The kubelet: stage, publish and unstage of the volume exclude every     *)
(* other call for it, unpublishes of its targets run in parallel.  A volume*)
(* is staged before it is published and unstaged when no target is left.   *)
(***************************************************************************)
Waiting(pcs) == \E c \in Calls : call[c].waited /\ call[c].pc \in pcs
Anything     == StageOps \cup PublishOps \cup UnpublishOps

StartCall(c, pc, t) ==
  /\ call[c] = Idle
  /\ call' = [call EXCEPT ![c] = [pc |-> pc, t |-> t, waited |-> TRUE]]
  /\ UNCHANGED <<node, history>>

StartStage(c) ==
  /\ dev \in {"no", "uncertain"} /\ ~Waiting(Anything)
  /\ \E t \in Targets : kub[t] \in {"new", "uncertain"}
  /\ StartCall(c, "stageCheck", None)
  /\ dev' = "uncertain" /\ UNCHANGED kub

StartPublish(c, t) ==
  /\ dev = "yes" /\ kub[t] \in {"new", "uncertain"} /\ ~Waiting(Anything)
  /\ StartCall(c, "pubCheck", t)
  /\ kub' = [kub EXCEPT ![t] = "mounting"] /\ UNCHANGED dev

StartUnpublish(c, t) ==
  /\ kub[t] \in {"uncertain", "up", "leaving"}
  /\ ~Waiting(StageOps \cup PublishOps)
  /\ \A d \in Calls : call[d].waited => call[d].t # t
  /\ StartCall(c, "unpubCheck", t)
  /\ kub' = [kub EXCEPT ![t] = "leaving"] /\ UNCHANGED dev

StartUnstage(c) ==
  /\ dev \in {"yes", "uncertain"} /\ ~Waiting(Anything)
  /\ \A t \in Targets : kub[t] \in {"new", "gone"}
  /\ StartCall(c, "unstageCheck", None)
  /\ dev' = "uncertain" /\ UNCHANGED kub

\* The kubelet's RPC deadline passes; no step of these handlers takes its
\* context, so that they all go on.
GiveUp(c) ==
  /\ call[c].waited /\ MayFail("giveUp")
  /\ call' = [call EXCEPT ![c].waited = FALSE]
  /\ kub' = [t \in Targets |-> IF kub[t] = "mounting" /\ call[c].t = t
                               THEN "uncertain" ELSE kub[t]]
  /\ late' = TRUE
  /\ UNCHANGED <<dev, node, cut>>

Uncertain(views) == kub' = [t \in Targets |-> IF kub[t] \in views THEN "uncertain" ELSE kub[t]]

KubeletRestart ==
  /\ MayFail("kubelet")
  /\ Uncertain({"up"})
  /\ dev' = IF dev = "yes" THEN "uncertain" ELSE dev
  /\ UNCHANGED <<node, call, cut, late>>

ProcessDies ==
  /\ call' = [c \in Calls |-> Idle]
  /\ UNCHANGED <<sdir, tdirs, wiped, late>>

\* The mounts are the host's and stay.
ContainerRestart ==
  /\ MayFail("container") /\ ProcessDies /\ Uncertain({"mounting"})
  /\ cut' = cut \cup {call[c].t : c \in {d \in Calls : call[d].pc = "pubRemount"}}
  /\ UNCHANGED <<dev, staged, tmnt, roFs>>

NodeReboot ==
  /\ MayFail("node") /\ ProcessDies /\ Uncertain({"mounting", "up"})
  /\ dev' = IF dev = "yes" THEN "uncertain" ELSE dev
  /\ staged' = None /\ tmnt' = [t \in Targets |-> <<>>]
  /\ roFs' = {} /\ cut' = {}

-----------------------------------------------------------------------------
At(c, pc)   == call[c].pc = pc
Goto(c, pc) == call' = [call EXCEPT ![c].pc = pc] /\ UNCHANGED <<kub, dev>>
Stop(c)     == call' = [call EXCEPT ![c] = Idle]

\* The answer to a call on the staging path, and to one on a target: the
\* kubelet takes it over if it still waits.
ReturnDev(c, view) ==
  /\ Stop(c) /\ UNCHANGED kub
  /\ dev' = IF call[c].waited THEN view ELSE dev

Return(c, view) ==
  /\ Stop(c) /\ UNCHANGED dev
  /\ kub' = IF call[c].waited THEN [kub EXCEPT ![call[c].t] = view] ELSE kub

-----------------------------------------------------------------------------
(***************************************************************************)
(* NodeStageVolume                                                         *)
(***************************************************************************)
\* Mutant: a staging path that exists is taken for mounted.
StageCheckExists(c) ==
  /\ At(c, "stageCheck") /\ Fine
  /\ sdir' = TRUE
  /\ IF sdir THEN ReturnDev(c, "yes") ELSE Goto(c, "stageNid")
  /\ UNCHANGED <<staged, tmnt, tdirs, roFs, wiped, cut, late>>

StageCheck(c) ==
  /\ At(c, "stageCheck")
  /\ \/ /\ Fine /\ sdir' = TRUE
        /\ IF staged # None THEN ReturnDev(c, "yes") ELSE Goto(c, "stageNid")
     \/ MayFail("stat") /\ ReturnDev(c, "uncertain") /\ UNCHANGED sdir
  /\ UNCHANGED <<staged, tmnt, tdirs, roFs, wiped, cut, late>>

\* The proxy of the volume's attributes is asked for the NIDs of the MGS.
StageNid(c) ==
  /\ At(c, "stageNid")
  /\ (Fine /\ Goto(c, "stageMount")) \/ (MayFail("nid") /\ ReturnDev(c, "uncertain"))
  /\ UNCHANGED <<node, cut, late>>

Visible(m) == m = staged \/ \E t \in Targets : \E i \in DOMAIN tmnt[t] : tmnt[t][i] = m

\* mount.lustre refuses a path where the volume is mounted already.
StageMount(c) ==
  /\ At(c, "stageMount")
  /\ LET legal == sdir /\ staged = None IN
       \/ /\ legal /\ Fine /\ ReturnDev(c, "yes")
          /\ \E m \in Mounts : ~Visible(m)
          /\ staged' = CHOOSE m \in Mounts : ~Visible(m)
          /\ roFs' = roFs \ {staged'}
       \/ /\ IF legal THEN MayFail("mount") ELSE Fine
          /\ ReturnDev(c, "uncertain") /\ UNCHANGED <<staged, roFs>>
  /\ UNCHANGED <<sdir, tmnt, tdirs, wiped, cut, late>>

-----------------------------------------------------------------------------
(***************************************************************************)
(* NodeUnstageVolume                                                       *)
(***************************************************************************)
UnstageCheck(c) ==
  /\ At(c, "unstageCheck")
  /\ \/ /\ Fine
        /\ IF staged = None THEN ReturnDev(c, "no") ELSE Goto(c, "unstageUmount")
     \/ MayFail("stat") /\ ReturnDev(c, "uncertain")
  /\ UNCHANGED <<node, cut, late>>

\* Mutant: an error of the unmount is logged and no more.
UnstageUmountLenient(c) ==
  /\ At(c, "unstageUmount")
  /\ \/ Fine /\ staged' = None
     \/ MayFail("umount") /\ UNCHANGED staged
  /\ Goto(c, "unstageRemove")
  /\ UNCHANGED <<sdir, tmnt, tdirs, roFs, wiped, cut, late>>

UnstageUmount(c) ==
  /\ At(c, "unstageUmount")
  /\ \/ staged # None /\ Fine /\ staged' = None /\ Goto(c, "unstageRemove")
     \/ /\ IF staged # None THEN MayFail("umount") ELSE Fine
        /\ ReturnDev(c, "uncertain") /\ UNCHANGED staged
  /\ UNCHANGED <<sdir, tmnt, tdirs, roFs, wiped, cut, late>>

\* os.RemoveAll of the staging path, whose failure is logged: on a path that
\* has been mounted again it deletes the files of the volume.
UnstageRemove(c) ==
  /\ At(c, "unstageRemove")
  /\ \/ /\ Fine
        /\ sdir' = (staged # None)
        /\ wiped' = (wiped \/ (staged # None /\ staged \notin roFs))
     \/ MayFail("rmDir") /\ UNCHANGED <<sdir, wiped>>
  /\ ReturnDev(c, "no")
  /\ UNCHANGED <<staged, tmnt, tdirs, roFs, cut, late>>

-----------------------------------------------------------------------------
(***************************************************************************)
(* nodePublishLustre                                                       *)
(***************************************************************************)
PublishCheck(c) ==
  /\ At(c, "pubCheck")
  /\ \/ /\ Fine /\ tdirs' = tdirs \cup {call[c].t}
        /\ IF tmnt[call[c].t] # <<>> THEN Return(c, "up") ELSE Goto(c, "pubBind")
     \/ MayFail("mkdir") /\ Return(c, "new") /\ UNCHANGED tdirs
  /\ UNCHANGED <<staged, sdir, tmnt, roFs, wiped, cut, late>>

\* The mounter binds with two calls, the bind and the remount that gives it
\* its options: when the second fails the bind is left.
PublishBind(c) ==
  /\ At(c, "pubBind")
  /\ LET possible == sdir /\ call[c].t \in tdirs IN
       \/ /\ possible
          /\ tmnt' = [tmnt EXCEPT ![call[c].t] =
                        <<IF staged = None THEN Local ELSE staged>> \o @]
          /\ \/ /\ Fine /\ UNCHANGED cut
                /\ IF call[c].t \in ReadOnly THEN Goto(c, "pubRemount") ELSE Return(c, "up")
             \/ MayFail("bind") /\ Return(c, "new") /\ cut' = cut \cup {call[c].t}
       \/ /\ IF possible THEN MayFail("bind") ELSE Fine
          /\ Return(c, "new") /\ UNCHANGED <<tmnt, cut>>
  /\ UNCHANGED <<staged, sdir, tdirs, roFs, wiped, late>>

\* Mutant: an error of the remount is logged and no more.
PublishRemountLenient(c) ==
  /\ At(c, "pubRemount")
  /\ \/ Fine /\ roFs' = roFs \cup {Head(tmnt[call[c].t])}
     \/ MayFail("remount") /\ UNCHANGED roFs
  /\ Return(c, "up")
  /\ UNCHANGED <<staged, sdir, tmnt, tdirs, wiped, cut, late>>

\* Mutant: whatever is bound is remounted.
PublishRemountAnything(c) ==
  /\ At(c, "pubRemount") /\ tmnt[call[c].t] # <<>>
  /\ Fine /\ Return(c, "up")
  /\ roFs' = roFs \cup {Head(tmnt[call[c].t])}
  /\ UNCHANGED <<staged, sdir, tmnt, tdirs, wiped, cut, late>>

\* mount(2) with MS_REMOUNT and without MS_BIND changes the file system, that
\* is every bind of the same Lustre mount, and not the one bind alone.
PublishRemount(c) ==
  /\ At(c, "pubRemount")
  /\ LET stack == tmnt[call[c].t]
         legal == stack # <<>> /\ Head(stack) # Local IN
       \/ /\ legal /\ Fine /\ Return(c, "up")
          /\ roFs' = roFs \cup {Head(stack)} /\ UNCHANGED cut
       \/ /\ IF legal THEN MayFail("remount") ELSE Fine
          /\ Return(c, "new")
          /\ cut' = cut \cup {call[c].t} /\ UNCHANGED roFs
  /\ UNCHANGED <<staged, sdir, tmnt, tdirs, wiped, late>>

-----------------------------------------------------------------------------
(***************************************************************************)
(* NodeUnpublishVolume, which finds no meta file of a Lustre volume        *)
(***************************************************************************)
\* Mutant: a target that does not exist is an error.
UnpublishCheckStrict(c) ==
  /\ At(c, "unpubCheck") /\ Fine
  /\ IF call[c].t \notin tdirs THEN Return(c, "leaving")
     ELSE IF tmnt[call[c].t] = <<>> THEN Return(c, "gone") ELSE Goto(c, "unpubUmount")
  /\ UNCHANGED <<node, cut, late>>

UnpublishCheck(c) ==
  /\ At(c, "unpubCheck")
  /\ \/ /\ Fine
        /\ IF call[c].t \notin tdirs \/ tmnt[call[c].t] = <<>>
           THEN Return(c, "gone") ELSE Goto(c, "unpubUmount")
     \/ MayFail("stat") /\ Return(c, "leaving")
  /\ UNCHANGED <<node, cut, late>>

\* Mutant: an error of the unmount is logged and no more.
UnpublishUmountLenient(c) ==
  /\ At(c, "unpubUmount")
  /\ \/ Fine /\ tmnt' = [tmnt EXCEPT ![call[c].t] = IF @ = <<>> THEN @ ELSE Tail(@)]
     \/ MayFail("umount") /\ UNCHANGED tmnt
  /\ Goto(c, "unpubRemove")
  /\ UNCHANGED <<staged, sdir, tdirs, roFs, wiped, cut, late>>

UnpublishUmount(c) ==
  /\ At(c, "unpubUmount")
  /\ LET bound == tmnt[call[c].t] # <<>> IN
       \/ /\ Fine /\ Goto(c, "unpubRemove")
          /\ tmnt' = [tmnt EXCEPT ![call[c].t] = IF bound THEN Tail(@) ELSE @]
          /\ cut' = cut \ {call[c].t}
       \/ bound /\ MayFail("umount") /\ Return(c, "leaving") /\ UNCHANGED <<tmnt, cut>>
  /\ UNCHANGED <<staged, sdir, tdirs, roFs, wiped, late>>

\* A failure to remove the target is logged and no more.
UnpublishRemove(c) ==
  /\ At(c, "unpubRemove")
  /\ \/ /\ Fine
        /\ tdirs' = IF tmnt[call[c].t] = <<>> THEN tdirs \ {call[c].t} ELSE tdirs
     \/ MayFail("rmDir") /\ UNCHANGED tdirs
  /\ Return(c, "gone")
  /\ UNCHANGED <<staged, sdir, tmnt, roFs, wiped, cut, late>>

-----------------------------------------------------------------------------
Stage(c)     == StageCheck(c) \/ StageNid(c) \/ StageMount(c)
Unstage(c)   == UnstageCheck(c) \/ UnstageUmount(c) \/ UnstageRemove(c)
Publish(c)   == PublishCheck(c) \/ PublishBind(c) \/ PublishRemount(c)
Unpublish(c) == UnpublishCheck(c) \/ UnpublishUmount(c) \/ UnpublishRemove(c)
Handler(c)   == Stage(c) \/ Unstage(c) \/ Publish(c) \/ Unpublish(c)

Environment ==
  \/ \E c \in Calls : StartStage(c) \/ StartUnstage(c) \/ GiveUp(c)
  \/ \E c \in Calls, t \in Targets : StartPublish(c, t) \/ StartUnpublish(c, t)
  \/ KubeletRestart \/ ContainerRestart \/ NodeReboot

Next == Environment \/ \E c \in Calls : Handler(c)

Spec == Init /\ [][Next]_vars

\* A handler that runs keeps running; the kubelet retries what it has begun
\* to take down, in the gaps other calls leave.
Fairness ==
  /\ \A c \in Calls : WF_vars(Handler(c))
  /\ \A t \in Targets : SF_vars(\E c \in Calls : kub[t] = "leaving" /\ StartUnpublish(c, t))
  /\ SF_vars(\E c \in Calls : StartUnstage(c))

FairSpec == Spec /\ Fairness

-----------------------------------------------------------------------------
(***************************************************************************)
(* Properties.                                                             *)
(***************************************************************************)
\* Every variable keeps its shape.
TypeOK ==
  /\ kub \in [Targets -> {"new", "mounting", "uncertain", "up", "leaving", "gone"}]
  /\ dev \in {"no", "uncertain", "yes"}
  /\ staged \in Mounts \cup {None}
  /\ sdir \in BOOLEAN /\ wiped \in BOOLEAN /\ late \in BOOLEAN
  /\ tmnt \in [Targets -> Seq(Mounts \cup {Local})]
  /\ tdirs \subseteq Targets /\ cut \subseteq Targets /\ roFs \subseteq Mounts
  /\ call \in [Calls -> [pc : {"idle"} \cup Anything, t : Targets \cup {None},
                         waited : BOOLEAN]]
  /\ faults \in 0..MaxFaults

\* The RemoveAll of NodeUnstageVolume never reaches the files of the volume
\* while the kubelet waits for its calls: nothing is mounted at the staging
\* path again between the unmount and the removal (nodeserver.go:449-456).
DataKept == ~late => ~wiped

\* A target published read-only is on a file system that is read-only, unless
\* its publish was once cut off after the bind: the retry then finds the
\* target mounted and answers at once (nodeserver.go:474-494).
ReadOnlyUnlessCut ==
  \A t \in ReadOnly : ~late /\ kub[t] = "up" => t \in cut \/ Head(tmnt[t]) \in roFs

\* Once the volume is unstaged, nothing of it is left mounted on the node: no
\* Lustre mount, and no bind but that of a publish that was answered with an
\* error last and given up, which undoes no bind (nodeserver.go:443-458, 484).
UnstagedIsClean ==
  dev = "no" /\ ~late =>
    /\ staged = None
    /\ \A t \in Targets : tmnt[t] # <<>> => kub[t] = "new"

\* When every pod is gone the volume is unmounted from the node at last,
\* whatever failed, restarted or was given up before, and every unpublish ends.
VolumeLeaves ==
  /\ \A t \in Targets : kub[t] = "leaving" ~> kub[t] = "gone"
  /\ (\A t \in Targets : kub[t] = "gone") ~> dev = "no"

StatusOf(t) == IF kub[t] \in {"mounting", "uncertain"} THEN "new" ELSE kub[t]

Contract == INSTANCE NodeContract
  WITH Own     <- [t \in Targets |-> Mounts],
       Nothing <- None,
       status  <- [t \in Targets |-> StatusOf(t)],
       shows   <- [t \in Targets |-> IF tmnt[t] = <<>> THEN None ELSE Head(tmnt[t])],
       void    <- late

\* A pod is shown the Lustre volume, from the publish to the unpublish.
KeepsNodeContract == Contract!Spec
=============================================================================
