------------------------------- MODULE NfsNode -------------------------------
(***************************************************************************)
(* The NFS path of the node plugin (pkg/driver/nodeserver.go) on one node. *)
(* A volume is mounted once per group of pods that use the same PVC with   *)
(* the same mount options (the "staging group path"), and every pod gets a *)
(* bind mount of that path.  The group mount is taken down by the unpublish*)
(* that counts no bind mount left in /proc/mounts.  Handlers are gRPC      *)
(* goroutines; nothing in the driver locks anything, so one action is one  *)
(* system call (or one run of calls on state nobody else touches).         *)
(***************************************************************************)
EXTENDS Naturals, Sequences

CONSTANTS
  Calls,      \* gRPC handler goroutines that may be in flight at once
  Targets,    \* target paths: one per pod and volume, never used again
  Volumes,    \* volume handles; a volume's export directory is its own
  PVCs,       \* namespace/name of a claim
  Options,    \* values of the annotation flexa.io/mountOptions (sorted)
  Servers,    \* NFS server addresses
  NoServer,   \* an absent flexa.io/serviceVIP or VolumeContext.vip
  VolumeOf,   \* the volume mounted at each target
  PvcOf,      \* VolumeContext pvcNS/pvcName of each volume
  VipOf,      \* VolumeContext vip of each volume
  MountText,  \* options column of /proc/mounts for each value of Options
  ReadOnly,   \* the option values that contain "ro"
  FirstAnn,   \* the pods' annotations when they are created
  Edits,      \* annotations a user may set on a pod later ({}: never)
  Faults,     \* the operations that may fail
  Timeouts,   \* TRUE: the kubelet may give up on a call that keeps running
  Restarts,   \* TRUE: the container, the kubelet or the node may restart
  Local,      \* a bind mount whose source was no NFS mount
  None        \* no value

Annotations == [options : Options, vip : Servers \cup {NoServer}]
Groups      == PVCs \X Options        \* /mnt/flexa/global/<pvc>/<hash>/mount
Sources     == Servers \X Volumes     \* <server>:<baseDir>
Bind        == [from : Groups, src : Sources \cup {Local}]
Meta        == [group : Groups, source : Sources]
FaultKinds  == {"api", "mkdir", "mount", "chmod", "saveMeta", "recheck", "bind",
                "remount", "stat", "loadMeta", "umount", "rmTarget", "rmMeta",
                "scan", "umountGroup"}

ASSUME ConstantsAssumption ==
  /\ VolumeOf \in [Targets -> Volumes]
  /\ PvcOf \in [Volumes -> PVCs]
  /\ VipOf \in [Volumes -> Servers \cup {NoServer}]
  /\ FirstAnn \in [Targets -> Annotations]
  /\ Edits \subseteq Annotations
  /\ Faults \subseteq FaultKinds
  /\ Timeouts \in BOOLEAN /\ Restarts \in BOOLEAN
  /\ NoServer \notin Servers
  /\ Local \notin Sources
  /\ None \notin Targets \cup Groups \cup Sources \cup Meta

VARIABLES
  \* The cluster and the kubelet, as the driver's calls show them
  ann,     \* annotations of the pod behind each target
  claim,   \* the volume each PVC is bound to
  kub,     \* the kubelet's view of each target
  \* The node
  grp,     \* stack of NFS mounts at each group path, newest first
  dirs,    \* group paths that exist as directories
  tmnt,    \* stack of bind mounts at each target, newest first
  tdirs,   \* targets that exist as directories
  meta,    \* /var/lib/flexa/meta/<volume>/<hash of target>.json
  wiped,   \* volumes whose exported content RemoveAll has erased (history)
  \* The plugin process
  call     \* the handlers in flight

clusterVars == <<ann, claim>>
nodeVars    == <<grp, dirs, tmnt, tdirs, meta, wiped>>
vars        == <<ann, claim, kub, grp, dirs, tmnt, tdirs, meta, wiped, call>>

KubeletViews == {"new", "mounting", "uncertain", "up", "leaving", "gone"}
PublishPC    == {"options", "server", "checkGroup", "mountGroup", "saveMeta",
                 "checkTarget", "recheck", "bind", "remount"}
UnpublishPC  == {"check", "loadMeta", "lustre", "rmLustre", "umount", "rmTarget",
                 "rmMeta", "count", "umountGroup", "removeAll"}
CallRecord   == [pc : {"idle"} \cup PublishPC \cup UnpublishPC,
                 t : Targets \cup {None}, group : Groups \cup {None},
                 source : Sources \cup {None}, waited : BOOLEAN]
Idle == [pc |-> "idle", t |-> None, group |-> None, source |-> None,
         waited |-> FALSE]

Pvc(t) == PvcOf[VolumeOf[t]]

Init ==
  /\ ann = FirstAnn
  /\ claim \in {f \in [PVCs -> Volumes] : \A p \in PVCs :
                   (\E v \in Volumes : PvcOf[v] = p) => PvcOf[f[p]] = p}
  /\ kub = [t \in Targets |-> "new"]
  /\ grp = [g \in Groups |-> <<>>]
  /\ dirs = {}
  /\ tmnt = [t \in Targets |-> <<>>]
  /\ tdirs = {}
  /\ meta = [t \in Targets |-> None]
  /\ wiped = {}
  /\ call = [c \in Calls |-> Idle]

-----------------------------------------------------------------------------
(***************************************************************************)
(* The kubelet.  A publish of a volume excludes every other operation on   *)
(* that volume; unpublishes of one volume run in parallel for its pods.    *)
(***************************************************************************)
Waiting(pcs, t) ==
  \E d \in Calls : /\ call[d].waited /\ call[d].pc \in pcs
                   /\ VolumeOf[call[d].t] = VolumeOf[t]

StartCall(c, t, pc, view) ==
  /\ call[c] = Idle
  /\ call' = [call EXCEPT ![c] = [pc |-> pc, t |-> t, group |-> None,
                                  source |-> None, waited |-> TRUE]]
  /\ kub' = [kub EXCEPT ![t] = view]
  /\ UNCHANGED <<clusterVars, nodeVars>>

StartPublish(c, t) ==
  /\ kub[t] \in {"new", "uncertain"}
  /\ claim[Pvc(t)] = VolumeOf[t]
  /\ ~Waiting(PublishPC \cup UnpublishPC, t)
  /\ StartCall(c, t, "options", "mounting")

StartUnpublish(c, t) ==
  /\ kub[t] \in {"uncertain", "up", "leaving"}
  /\ ~Waiting(PublishPC, t)
  /\ \A d \in Calls : call[d].waited => call[d].t # t
  /\ StartCall(c, t, "check", "leaving")

\* The kubelet's RPC deadline passes; of a handler's steps only the reads of
\* the API server take its context and fail then.
GiveUp(c) ==
  /\ Timeouts /\ call[c].waited
  /\ call' = [call EXCEPT ![c].waited = FALSE]
  /\ kub' = IF kub[call[c].t] = "mounting"
            THEN [kub EXCEPT ![call[c].t] = "uncertain"] ELSE kub
  /\ UNCHANGED <<clusterVars, nodeVars>>

EditAnnotations(t) ==
  /\ \E a \in Edits : ann' = [ann EXCEPT ![t] = a]
  /\ UNCHANGED <<claim, kub, nodeVars, call>>

\* The claim is deleted once no pod uses it, and one of the same name is
\* created and bound to another volume.
RecreateClaim(p, v) ==
  /\ PvcOf[v] = p /\ claim[p] # v
  /\ \A t \in Targets : VolumeOf[t] = claim[p] => kub[t] \in {"new", "gone"}
  /\ claim' = [claim EXCEPT ![p] = v]
  /\ UNCHANGED <<ann, kub, nodeVars, call>>

\* A restarted kubelet knows its mounts no more and mounts them again.
KubeletForgets(t) ==
  /\ Restarts /\ kub[t] = "up"
  /\ kub' = [kub EXCEPT ![t] = "uncertain"]
  /\ UNCHANGED <<clusterVars, nodeVars, call>>

-----------------------------------------------------------------------------
(***************************************************************************)
(* The process dies with its handlers and its mount namespace.  /mnt/flexa *)
(* has no mountPropagation, so the group mounts live in the container      *)
(* alone; the bind mounts under /var/lib/kubelet (Bidirectional) are the   *)
(* host's too and stay.                                                    *)
(***************************************************************************)
ProcessDies ==
  /\ call' = [c \in Calls |-> Idle]
  /\ grp' = [g \in Groups |-> <<>>]
  /\ UNCHANGED <<ann, claim, dirs, tdirs, meta, wiped>>

ContainerRestart ==
  /\ Restarts /\ ProcessDies
  /\ kub' = [t \in Targets |-> IF kub[t] = "mounting" THEN "uncertain" ELSE kub[t]]
  /\ UNCHANGED tmnt

NodeReboot ==
  /\ Restarts /\ ProcessDies
  /\ kub' = [t \in Targets |-> IF kub[t] \in {"mounting", "up"}
                               THEN "uncertain" ELSE kub[t]]
  /\ tmnt' = [t \in Targets |-> <<>>]

-----------------------------------------------------------------------------
(***************************************************************************)
(* What the steps of a handler share.                                      *)
(***************************************************************************)
At(c, pc)   == call[c].pc = pc
Goto(c, pc) == call' = [call EXCEPT ![c].pc = pc] /\ UNCHANGED kub
MayFail(op) == op \in Faults

\* The handler returns; a kubelet that still waits moves the target to view.
Return(c, view) ==
  /\ call' = [call EXCEPT ![c] = Idle]
  /\ kub' = IF call[c].waited THEN [kub EXCEPT ![call[c].t] = view] ELSE kub

Push(stack, m) == <<m>> \o stack
Pop(stack)     == IF stack = <<>> THEN stack ELSE Tail(stack)

\* /proc/mounts has a line for source s at the group path g.
StagingMount(g, s) == \E i \in DOMAIN grp[g] : grp[g][i] = s

\* Mutant: the line of the group itself is counted as well.
BindMountsAndStaging(g, s) ==
  {t \in Targets : \E i \in DOMAIN tmnt[t] : tmnt[t][i].src = s}
  \cup {h \in Groups : StagingMount(h, s) /\ MountText[h[2]] = MountText[g[2]]}

\* Mutant: only group paths are looked at.
BindMountsOfGroups(g, s) == {h \in Groups \ {g} : StagingMount(h, s)}

\* The other mount points of source s with the options text of g: bind
\* mounts, and whatever other group path happens to read the same.
BindMounts(g, s) ==
  {t \in Targets : \E i \in DOMAIN tmnt[t] :
      tmnt[t][i].src = s /\ MountText[tmnt[t][i].from[2]] = MountText[g[2]]}
  \cup
  {h \in Groups \ {g} : StagingMount(h, s) /\ MountText[h[2]] = MountText[g[2]]}

-----------------------------------------------------------------------------
(***************************************************************************)
(* NodePublishVolume                                                       *)
(***************************************************************************)
\* Mutant: the group path has the volume in place of the claim.
GroupPathOfVolume(t) == <<VolumeOf[t], ann[t].options>>

\* Mutant: the group path is made from the mount options alone.
GroupPathOfOptions(t) == <<CHOOSE p \in PVCs : TRUE, ann[t].options>>

GroupPath(t) == <<Pvc(t), ann[t].options>>
Server(t)    == IF ann[t].vip = NoServer THEN VipOf[VolumeOf[t]] ELSE ann[t].vip

PublishOptions(c) ==
  /\ At(c, "options")
  /\ \/ /\ call[c].waited
        /\ call' = [call EXCEPT ![c].pc = "server",
                                ![c].group = GroupPath(call[c].t)]
        /\ UNCHANGED kub
     \/ /\ ~call[c].waited \/ MayFail("api")
        /\ Return(c, "new")
  /\ UNCHANGED <<clusterVars, nodeVars>>

PublishServer(c) ==
  /\ At(c, "server")
  /\ LET s == Server(call[c].t) IN
       \/ /\ s # NoServer /\ call[c].waited
          /\ call' = [call EXCEPT ![c].pc = "checkGroup",
                                  ![c].source = <<s, VolumeOf[call[c].t]>>]
          /\ UNCHANGED kub
       \/ /\ s = NoServer \/ ~call[c].waited \/ MayFail("api")
          /\ Return(c, "new")
  /\ UNCHANGED <<clusterVars, nodeVars>>

\* Mutant: the meta file is written by the pod that mounts the group alone.
PublishCheckGroupMetaOnce(c) ==
  /\ At(c, "checkGroup")
  /\ dirs' = dirs \cup {call[c].group}
  /\ Goto(c, IF grp[call[c].group] = <<>> THEN "mountGroup" ELSE "checkTarget")
  /\ UNCHANGED <<clusterVars, grp, tmnt, tdirs, meta, wiped>>

\* Mutant: a group path that exists is taken for mounted.
PublishCheckGroupExists(c) ==
  /\ At(c, "checkGroup")
  /\ dirs' = dirs \cup {call[c].group}
  /\ Goto(c, IF call[c].group \notin dirs THEN "mountGroup" ELSE "saveMeta")
  /\ UNCHANGED <<clusterVars, grp, tmnt, tdirs, meta, wiped>>

PublishCheckGroup(c) ==
  /\ At(c, "checkGroup")
  /\ \/ /\ dirs' = dirs \cup {call[c].group}
        /\ Goto(c, IF grp[call[c].group] = <<>> THEN "mountGroup" ELSE "saveMeta")
     \/ MayFail("mkdir") /\ Return(c, "new") /\ UNCHANGED dirs
  /\ UNCHANGED <<clusterVars, grp, tmnt, tdirs, meta, wiped>>

\* The kernel refuses a mount at a missing path, and one of the file system
\* that is already on top of the same path.
CannotMount(c) ==
  LET stack == grp[call[c].group] IN
    \/ call[c].group \notin dirs
    \/ stack # <<>> /\ Head(stack) = call[c].source

\* Mutant: an error of the mount is not returned.
PublishMountGroupLenient(c) ==
  /\ At(c, "mountGroup")
  /\ \/ ~CannotMount(c) /\ grp' = [grp EXCEPT ![call[c].group] = Push(@, call[c].source)]
     \/ MayFail("mount") /\ UNCHANGED grp
  /\ Goto(c, "saveMeta")
  /\ UNCHANGED <<clusterVars, dirs, tmnt, tdirs, meta, wiped>>

PublishMountGroup(c) ==
  /\ At(c, "mountGroup")
  /\ \/ /\ ~CannotMount(c)
        /\ grp' = [grp EXCEPT ![call[c].group] = Push(@, call[c].source)]
        /\ Goto(c, "saveMeta") \/ (MayFail("chmod") /\ Return(c, "new"))
     \/ (CannotMount(c) \/ MayFail("mount")) /\ Return(c, "new") /\ UNCHANGED grp
  /\ UNCHANGED <<clusterVars, dirs, tmnt, tdirs, meta, wiped>>

\* Mutant: an error of saveNfsVolMeta is logged and no more.
PublishSaveMetaLenient(c) ==
  /\ At(c, "saveMeta")
  /\ \/ meta' = [meta EXCEPT ![call[c].t] = [group |-> call[c].group,
                                            source |-> call[c].source]]
     \/ MayFail("saveMeta") /\ UNCHANGED meta
  /\ Goto(c, "checkTarget")
  /\ UNCHANGED <<clusterVars, grp, dirs, tmnt, tdirs, wiped>>

PublishSaveMeta(c) ==
  /\ At(c, "saveMeta")
  /\ \/ /\ meta' = [meta EXCEPT ![call[c].t] = [group |-> call[c].group,
                                               source |-> call[c].source]]
        /\ Goto(c, "checkTarget")
     \/ MayFail("saveMeta") /\ Return(c, "new") /\ UNCHANGED meta
  /\ UNCHANGED <<clusterVars, grp, dirs, tmnt, tdirs, wiped>>

\* Mutant: a target that exists is taken for mounted.
PublishCheckTargetExists(c) ==
  /\ At(c, "checkTarget")
  /\ tdirs' = tdirs \cup {call[c].t}
  /\ IF call[c].t \in tdirs THEN Return(c, "up") ELSE Goto(c, "recheck")
  /\ UNCHANGED <<clusterVars, grp, dirs, tmnt, meta, wiped>>

PublishCheckTarget(c) ==
  /\ At(c, "checkTarget")
  /\ \/ /\ tdirs' = tdirs \cup {call[c].t}
        /\ IF tmnt[call[c].t] = <<>> THEN Goto(c, "recheck") ELSE Return(c, "up")
     \/ MayFail("mkdir") /\ Return(c, "new") /\ UNCHANGED tdirs
  /\ UNCHANGED <<clusterVars, grp, dirs, tmnt, meta, wiped>>

Remounts(c) == call[c].group[2] \in ReadOnly

PublishRecheck(c) ==
  /\ At(c, "recheck")
  /\ \/ /\ call[c].t \in tdirs
        /\ IF tmnt[call[c].t] = <<>> THEN Goto(c, "bind")
           ELSE IF Remounts(c) THEN Goto(c, "remount") ELSE Return(c, "up")
     \/ (call[c].t \notin tdirs \/ MayFail("recheck")) /\ Return(c, "new")
  /\ UNCHANGED <<clusterVars, nodeVars>>

\* What a bind mount of the group path shows: the NFS mount on it, else the
\* directory of the node's own file system.
Shown(g) == [from |-> g, src |-> IF grp[g] = <<>> THEN Local ELSE Head(grp[g])]

\* The mounter binds with two calls, the bind and the remount that gives it
\* its options: when the second fails the bind is left.
PublishBind(c) ==
  /\ At(c, "bind")
  /\ LET possible == call[c].group \in dirs /\ call[c].t \in tdirs IN
       \/ /\ possible
          /\ tmnt' = [tmnt EXCEPT ![call[c].t] = Push(@, Shown(call[c].group))]
          /\ \/ IF Remounts(c) THEN Goto(c, "remount") ELSE Return(c, "up")
             \/ MayFail("bind") /\ Return(c, "new")
       \/ (~possible \/ MayFail("bind")) /\ Return(c, "new") /\ UNCHANGED tmnt
  /\ UNCHANGED <<clusterVars, grp, dirs, tdirs, meta, wiped>>

PublishRemount(c) ==
  /\ At(c, "remount")
  /\ Return(c, "up") \/ (MayFail("remount") /\ Return(c, "new"))
  /\ UNCHANGED <<clusterVars, nodeVars>>

-----------------------------------------------------------------------------
(***************************************************************************)
(* NodeUnpublishVolume                                                     *)
(***************************************************************************)
\* Mutant: with its group unmounted a target is taken for unmounted.
UnpublishCheckGroup(c) ==
  /\ At(c, "check")
  /\ IF \/ tmnt[call[c].t] = <<>>
        \/ \E g \in Groups : meta[call[c].t].group = g /\ grp[g] = <<>>
     THEN Return(c, "gone") ELSE Goto(c, "loadMeta")
  /\ UNCHANGED <<clusterVars, nodeVars>>

\* Mutant: a target that does not exist is an error.
UnpublishCheckStrict(c) ==
  /\ At(c, "check")
  /\ IF call[c].t \notin tdirs THEN Return(c, "leaving")
     ELSE IF tmnt[call[c].t] = <<>> THEN Return(c, "gone") ELSE Goto(c, "loadMeta")
  /\ UNCHANGED <<clusterVars, nodeVars>>

UnpublishCheck(c) ==
  /\ At(c, "check")
  /\ \/ IF call[c].t \notin tdirs \/ tmnt[call[c].t] = <<>>
        THEN Return(c, "gone") ELSE Goto(c, "loadMeta")
     \/ MayFail("stat") /\ Return(c, "leaving")
  /\ UNCHANGED <<clusterVars, nodeVars>>

UnpublishLoadMeta(c) ==
  /\ At(c, "loadMeta")
  /\ LET m == meta[call[c].t] IN
       \/ /\ m # None
          /\ call' = [call EXCEPT ![c].pc = "umount", ![c].group = m.group,
                                  ![c].source = m.source]
          /\ UNCHANGED kub
       \/ (m = None \/ MayFail("loadMeta")) /\ Goto(c, "lustre")
  /\ UNCHANGED <<clusterVars, nodeVars>>

\* No meta file: taken for a Lustre volume, whose bind mount is all there is.
UnpublishAsLustre(c) ==
  /\ At(c, "lustre")
  /\ \/ /\ tmnt' = [tmnt EXCEPT ![call[c].t] = Pop(@)]
        /\ Goto(c, "rmLustre")
     \/ MayFail("umount") /\ Return(c, "leaving") /\ UNCHANGED tmnt
  /\ UNCHANGED <<clusterVars, grp, dirs, tdirs, meta, wiped>>

\* A failure to remove the target is logged and no more.
UnpublishRemoveLustre(c) ==
  /\ At(c, "rmLustre")
  /\ \/ tdirs' = IF tmnt[call[c].t] = <<>> THEN tdirs \ {call[c].t} ELSE tdirs
     \/ MayFail("rmTarget") /\ UNCHANGED tdirs
  /\ Return(c, "gone")
  /\ UNCHANGED <<clusterVars, grp, dirs, tmnt, meta, wiped>>

\* Mutant: an error of the unmount is not returned.
UnpublishUmountLenient(c) ==
  /\ At(c, "umount")
  /\ \/ /\ tmnt' = [tmnt EXCEPT ![call[c].t] = Pop(@)]
        /\ Goto(c, "rmTarget")
     \/ MayFail("umount") /\ Return(c, "gone") /\ UNCHANGED tmnt
  /\ UNCHANGED <<clusterVars, grp, dirs, tdirs, meta, wiped>>

UnpublishUmount(c) ==
  /\ At(c, "umount")
  /\ \/ /\ tmnt' = [tmnt EXCEPT ![call[c].t] = Pop(@)]
        /\ Goto(c, "rmTarget")
     \/ MayFail("umount") /\ Return(c, "leaving") /\ UNCHANGED tmnt
  /\ UNCHANGED <<clusterVars, grp, dirs, tdirs, meta, wiped>>

UnpublishRemoveTarget(c) ==
  /\ At(c, "rmTarget")
  /\ LET possible == call[c].t \in tdirs /\ tmnt[call[c].t] = <<>> IN
       \/ possible /\ tdirs' = tdirs \ {call[c].t} /\ Goto(c, "rmMeta")
       \/ /\ ~possible \/ MayFail("rmTarget")
          /\ Return(c, "leaving") /\ UNCHANGED tdirs
  /\ UNCHANGED <<clusterVars, grp, dirs, tmnt, meta, wiped>>

UnpublishRemoveMeta(c) ==
  /\ At(c, "rmMeta")
  /\ \/ meta' = [meta EXCEPT ![call[c].t] = None]
     \/ MayFail("rmMeta") /\ UNCHANGED meta
  /\ Goto(c, "count")
  /\ UNCHANGED <<clusterVars, grp, dirs, tmnt, tdirs, wiped>>

\* countBindMounts dereferences the staging entry without a nil check: with
\* no such line the handler panics, and with it the process.
Panics(c) == ~StagingMount(call[c].group, call[c].source)

\* Mutant: the group path is removed without being unmounted first.
UnpublishCountThenRemove(c) ==
  /\ At(c, "count") /\ ~Panics(c)
  /\ IF BindMounts(call[c].group, call[c].source) = {}
     THEN Goto(c, "removeAll") ELSE Return(c, "gone")
  /\ UNCHANGED <<clusterVars, nodeVars>>

UnpublishCount(c) ==
  /\ At(c, "count")
  /\ \/ /\ ~Panics(c)
        /\ IF BindMounts(call[c].group, call[c].source) = {}
           THEN Goto(c, "umountGroup") ELSE Return(c, "gone")
     \/ MayFail("scan") /\ Return(c, "gone")
  /\ UNCHANGED <<clusterVars, nodeVars>>

UnpublishPanic(c) ==
  /\ At(c, "count") /\ Panics(c)
  /\ ProcessDies
  /\ kub' = [t \in Targets |-> IF kub[t] = "mounting" THEN "uncertain" ELSE kub[t]]
  /\ UNCHANGED tmnt

\* A failure is logged and no more.
UnpublishUmountGroup(c) ==
  /\ At(c, "umountGroup")
  /\ \/ grp' = [grp EXCEPT ![call[c].group] = Pop(@)]
     \/ MayFail("umountGroup") /\ UNCHANGED grp
  /\ Goto(c, "removeAll")
  /\ UNCHANGED <<clusterVars, dirs, tmnt, tdirs, meta, wiped>>

\* os.RemoveAll of the group path: on a path that is still mounted it deletes
\* what the NFS server exports and then fails on the mount point.  Before it
\* the volume's directory of meta files is removed if it is empty: saveNfsVolMeta
\* makes it anew, and one that loses it between its two steps fails like
\* "saveMeta".
UnpublishRemoveAll(c) ==
  /\ At(c, "removeAll")
  /\ LET g == call[c].group IN
       IF grp[g] = <<>> THEN dirs' = dirs \ {g} /\ UNCHANGED wiped
       ELSE wiped' = wiped \cup {Head(grp[g])[2]} /\ UNCHANGED dirs
  /\ Return(c, "gone")
  /\ UNCHANGED <<clusterVars, grp, tmnt, tdirs, meta>>

-----------------------------------------------------------------------------
Publish(c) ==
  \/ PublishOptions(c) \/ PublishServer(c) \/ PublishCheckGroup(c)
  \/ PublishMountGroup(c) \/ PublishSaveMeta(c) \/ PublishCheckTarget(c)
  \/ PublishRecheck(c) \/ PublishBind(c) \/ PublishRemount(c)

Unpublish(c) ==
  \/ UnpublishCheck(c) \/ UnpublishLoadMeta(c) \/ UnpublishAsLustre(c)
  \/ UnpublishRemoveLustre(c) \/ UnpublishUmount(c) \/ UnpublishRemoveTarget(c)
  \/ UnpublishRemoveMeta(c) \/ UnpublishCount(c) \/ UnpublishPanic(c)
  \/ UnpublishUmountGroup(c) \/ UnpublishRemoveAll(c)

Environment ==
  \/ \E c \in Calls, t \in Targets : StartPublish(c, t) \/ StartUnpublish(c, t)
  \/ \E c \in Calls : GiveUp(c)
  \/ \E t \in Targets : EditAnnotations(t) \/ KubeletForgets(t)
  \/ \E p \in PVCs, v \in Volumes : RecreateClaim(p, v)
  \/ ContainerRestart \/ NodeReboot

Next == Environment \/ \E c \in Calls : Publish(c) \/ Unpublish(c)

Spec == Init /\ [][Next]_vars

\* A handler that runs keeps running, and the kubelet's reconciler, which
\* takes unmounts before mounts in every pass, keeps retrying an unpublish.
Fairness ==
  /\ \A c \in Calls : WF_vars(Publish(c) \/ Unpublish(c))
  /\ \A t \in Targets : SF_vars(\E c \in Calls : kub[t] = "leaving" /\ StartUnpublish(c, t))

FairSpec == Spec /\ Fairness

-----------------------------------------------------------------------------
(***************************************************************************)
(* Properties.                                                             *)
(***************************************************************************)
\* Every variable keeps its shape: mount stacks hold NFS sources at group
\* paths and binds at targets, and a handler is at one of its own steps.
TypeOK ==
  /\ ann \in [Targets -> Annotations]
  /\ claim \in [PVCs -> Volumes]
  /\ kub \in [Targets -> KubeletViews]
  /\ grp \in [Groups -> Seq(Sources)]
  /\ dirs \subseteq Groups
  /\ tmnt \in [Targets -> Seq(Bind)]
  /\ tdirs \subseteq Targets
  /\ meta \in [Targets -> Meta \cup {None}]
  /\ wiped \subseteq Volumes
  /\ call \in [Calls -> CallRecord]

\* A bound target has its meta file, so NodeUnpublishVolume never takes an
\* NFS target for a Lustre one and always finds the group to count down
\* (nodeserver.go:642-656).
MetaCoversBound == \A t \in Targets : tmnt[t] # <<>> => meta[t] # None

\* A pod never gets the node's own directory in place of the share: the
\* group path is an NFS mount whenever it is bound (nodeserver.go:583).
NeverLocalDir ==
  \A t \in Targets : \A i \in DOMAIN tmnt[t] : tmnt[t][i].src # Local

\* Removing the directory of a group path never deletes what the NFS server
\* exports: the path is no mount point any more when os.RemoveAll reaches it
\* (nodeserver.go:688-700).
ShareNotWiped == wiped = {}

\* A target the kubelet was told is published shows the export of its own
\* volume, whichever pod mounted the group and whatever claim of the same
\* name came before (nodeserver.go:215-224, 538-585).
PublishedShowsVolume ==
  \A t \in Targets : kub[t] = "up" =>
    tmnt[t] # <<>> /\ Head(tmnt[t]).src \in Servers \X {VolumeOf[t]}

\* A target the kubelet was told is unpublished has no mount left that would
\* keep the volume busy (nodeserver.go:632-664).
GoneIsUnmounted == \A t \in Targets : kub[t] = "gone" => tmnt[t] = <<>>

\* A pod is shown no volume of another claim, however calls overlap, fail or
\* are cut short: a group path belongs to one claim (nodeserver.go:221).
ClaimsIsolated ==
  \A t \in Targets : \A i \in DOMAIN tmnt[t] :
    tmnt[t][i].src # Local => PvcOf[tmnt[t][i].src[2]] = Pvc(t)

\* The counting of bind mounts releases what publish acquired: once every
\* target of a claim is unpublished and no handler runs, no NFS mount of the
\* claim is left on the node (nodeserver.go:678-690).
GroupReleased ==
  \A p \in PVCs :
    (/\ \A c \in Calls : call[c] = Idle
     /\ \A t \in Targets : Pvc(t) = p => kub[t] \in {"new", "gone"})
    => \A o \in Options : grp[<<p, o>>] = <<>>

\* The mount of a group outlives no bind of it: while the unpublish of one
\* pod runs, the group of a pod that stays published remains mounted, unless
\* the process dies with all its handlers (nodeserver.go:678-690).
GroupHeldWhileUp ==
  [][\A t \in Targets :
       kub[t] = "up" /\ kub'[t] = "up" /\ grp[GroupPath(t)] # <<>>
       => \/ grp'[GroupPath(t)] # <<>>
          \/ \A c \in Calls : call'[c] = Idle]_vars

\* An unpublish the kubelet asked for ends: the target is gone for good.
UnpublishEnds == \A t \in Targets : kub[t] = "leaving" ~> kub[t] = "gone"

\* The same when the kubelet may give up on its calls, and once, at last, it
\* gives up on none: handlers that were cut short leave nothing behind that
\* an unpublish could not get past (nodeserver.go:627-704).
Patient == \A c \in Calls : call[c] # Idle => call[c].waited
UnpublishEndsOncePatient == <>[]Patient => UnpublishEnds

\* What the kubelet believes of a target, and what is visible there.
StatusOf(t) == IF kub[t] \in {"mounting", "uncertain"} THEN "new" ELSE kub[t]
ShownAt(t)  == IF tmnt[t] = <<>> THEN None ELSE Head(tmnt[t]).src

Contract == INSTANCE NodeContract
  WITH Own     <- [t \in Targets |-> Servers \X {VolumeOf[t]}],
       Nothing <- None,
       status  <- [t \in Targets |-> StatusOf(t)],
       shows   <- [t \in Targets |-> ShownAt(t)],
       void    <- FALSE

\* A pod is shown its volume when it is told so, keeps it while the group's
\* other pods come and go and the plugin restarts, and loses it when it leaves
\* or the node reboots (nodeserver.go:500-704).
KeepsNodeContract == Contract!Spec

\* "If set, NFS server address for the mount" (README.md:193): a published
\* target is mounted from the server its pod's flexa.io/serviceVIP names.
PublishedFromServiceVIP ==
  \A t \in Targets : kub[t] = "up" /\ ann[t].vip # NoServer =>
    Head(tmnt[t]).src[1] = ann[t].vip

\* NodeUnpublishVolume returns (test/main.go:19 runs it and expects no
\* error): countBindMounts finds the staging mount it dereferences.
UnpublishReturns == \A c \in Calls : At(c, "count") => ~Panics(c)

-----------------------------------------------------------------------------
(***************************************************************************)
(* The inductive invariant behind the safety properties when the kubelet   *)
(* waits for its calls (~Timeouts).                                        *)
(***************************************************************************)
Active(c)  == call[c].pc # "idle"
WithGroup  == (PublishPC \ {"options"}) \cup
              (UnpublishPC \ {"check", "loadMeta", "lustre", "rmLustre"})
WithSource == WithGroup \ {"server"}

\* A handler has read what its step needs.
CallShape ==
  \A c \in Calls :
    /\ Active(c) => call[c].t \in Targets
    /\ call[c].pc \in WithGroup => call[c].group \in Groups
    /\ call[c].pc \in WithSource => call[c].source \in Sources

\* The kubelet's locks: handlers of one volume are unpublishes of different
\* targets, or one handler alone.
Exclusion ==
  /\ \A c \in Calls : Active(c) => call[c].waited
  /\ \A c, d \in Calls :
       (c # d /\ Active(c) /\ Active(d) /\ VolumeOf[call[c].t] = VolumeOf[call[d].t])
       => /\ call[c].pc \in UnpublishPC /\ call[d].pc \in UnpublishPC
          /\ call[c].t # call[d].t

KubeletKnows ==
  \A c \in Calls :
    /\ call[c].pc \in PublishPC => kub[call[c].t] = "mounting"
    /\ call[c].pc \in UnpublishPC => kub[call[c].t] = "leaving"

\* A target in use belongs to the volume its claim is bound to.
ClaimInUse ==
  \A t \in Targets : kub[t] \notin {"new", "gone"} => claim[Pvc(t)] = VolumeOf[t]

\* Group paths are those of the target's own claim.
OwnGroups ==
  /\ \A c \in Calls : call[c].pc \in WithGroup => call[c].group[1] = Pvc(call[c].t)
  /\ \A t \in Targets : meta[t] # None => meta[t].group[1] = Pvc(t)

\* Nothing is ever mounted over another mount.
SingleMounts ==
  /\ \A g \in Groups : Len(grp[g]) <= 1
  /\ \A t \in Targets : Len(tmnt[t]) <= 1
  /\ \A t \in Targets : tmnt[t] # <<>> => t \in tdirs

\* What a handler saw or did before still holds at its later steps.
Sees(c) ==
  /\ call[c].pc = "mountGroup" => grp[call[c].group] = <<>>
  /\ call[c].pc \in {"saveMeta", "checkTarget", "recheck", "bind"} =>
       grp[call[c].group] # <<>>
  /\ call[c].pc \in {"checkTarget", "recheck", "bind", "remount"} =>
       meta[call[c].t] # None
  /\ call[c].pc \in {"bind", "rmLustre", "rmTarget", "rmMeta", "count", "umountGroup",
                      "removeAll"} =>
       tmnt[call[c].t] = <<>>
  /\ call[c].pc = "removeAll" /\ "umountGroup" \notin Faults =>
       grp[call[c].group] = <<>>

NodeSafe ==
  /\ MetaCoversBound
  /\ NeverLocalDir
  /\ GoneIsUnmounted
  /\ ("umountGroup" \notin Faults) => ShareNotWiped

IInv ==
  /\ TypeOK /\ CallShape /\ Exclusion /\ KubeletKnows /\ ClaimInUse
  /\ OwnGroups /\ SingleMounts /\ NodeSafe
  /\ \A c \in Calls : Sees(c)
=============================================================================
