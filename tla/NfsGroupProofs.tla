---------------------------- MODULE NfsGroupProofs ---------------------------
(***************************************************************************)
(* Theorems about what NfsNode shows its pods: that claims are kept apart, *)
(* that a published target shows its own volume (the refinement of         *)
(* NodeContract), and that the mount of a group lives as long as it is     *)
(* needed and no longer.                                                   *)
(***************************************************************************)
EXTENDS NfsNodeProofs

USE DEF At, KubeletViews, CallRecord, PublishPC, UnpublishPC, Idle

-----------------------------------------------------------------------------
(***************************************************************************)
(* What a step changes, told once for the invariants below.                *)
(***************************************************************************)
\* What a handler's step leaves it with: nothing, the group and the source it
\* had, or one that it has just learnt.
LEMMA HandlerLearns ==
  ASSUME TypeInv, NEW c \in Calls, Publish(c) \/ Unpublish(c), ~UnpublishPanic(c),
         NEW t, t = call[c].t
  PROVE  /\ t \in Targets
         /\ \A d \in Calls \ {c} : call'[d] = call[d]
         /\ \/ call'[c].pc \notin WithGroup
            \/ /\ call[c].pc \in WithGroup
               /\ call'[c].pc \in WithSource => call[c].pc \in WithSource
               /\ call'[c].t = t /\ call'[c].group = call[c].group
               /\ call'[c].source = call[c].source
            \/ call'[c].pc = "server" /\ call'[c].t = t /\ call'[c].group = GroupPath(t)
            \/ /\ call[c].pc = "server" /\ call'[c].t = t /\ call'[c].group = call[c].group
               /\ call'[c].source = <<Server(t), VolumeOf[t]>>
            \/ /\ meta[t] # None /\ call'[c].t = t
               /\ call'[c].group = meta[t].group /\ call'[c].source = meta[t].source
<1>1. call \in [Calls -> CallRecord]
  BY DEF TypeInv, TypeOK
<1>2. call[c].pc \in PublishPC \cup UnpublishPC
  BY DEF Publish, PublishOptions, PublishServer, PublishCheckGroup, PublishMountGroup,
     PublishSaveMeta, PublishCheckTarget, PublishRecheck, PublishBind, PublishRemount,
     Unpublish, UnpublishCheck, UnpublishLoadMeta, UnpublishAsLustre,
     UnpublishRemoveLustre, UnpublishUmount, UnpublishRemoveTarget, UnpublishRemoveMeta, UnpublishCount, UnpublishUmountGroup,
     UnpublishRemoveAll
<1>3. t \in Targets
  BY <1>2 DEF TypeInv, CallShape, Active
<1>4. ASSUME NEW view, Return(c, view)
      PROVE  call'[c].pc \notin WithGroup /\ \A d \in Calls \ {c} : call'[d] = call[d]
  BY <1>1, <1>4 DEF Return, WithGroup
<1>5. ASSUME NEW pc, Goto(c, pc)
      PROVE  /\ call'[c].pc = pc /\ call'[c].t = t /\ call'[c].group = call[c].group
             /\ call'[c].source = call[c].source /\ \A d \in Calls \ {c} : call'[d] = call[d]
  BY <1>1, <1>5 DEF Goto
<1>6. CASE PublishOptions(c)
  BY <1>1, <1>3, <1>4, <1>6 DEF PublishOptions
<1>7. CASE PublishServer(c)
  BY <1>1, <1>3, <1>4, <1>7 DEF PublishServer
<1>8. CASE PublishCheckGroup(c) \/ PublishMountGroup(c) \/ PublishSaveMeta(c)
           \/ PublishCheckTarget(c) \/ PublishRecheck(c) \/ PublishBind(c) \/ PublishRemount(c)
  <2>1. (\E view : Return(c, view)) \/ (\E pc : Goto(c, pc))
    BY <1>8 DEF PublishCheckGroup, PublishMountGroup, PublishSaveMeta, PublishCheckTarget,
       PublishRecheck, PublishBind, PublishRemount
  <2>2. call[c].pc \in WithGroup /\ call[c].pc \in WithSource
    BY <1>8 DEF PublishCheckGroup, PublishMountGroup, PublishSaveMeta, PublishCheckTarget,
       PublishRecheck, PublishBind, PublishRemount, WithGroup, WithSource
  <2> QED BY <1>3, <1>4, <1>5, <2>1, <2>2
<1>9. CASE UnpublishCheck(c) \/ UnpublishAsLustre(c) \/ UnpublishRemoveLustre(c)
  <2>1. (\E view : Return(c, view)) \/ (\E pc \in {"loadMeta", "rmLustre"} : Goto(c, pc))
    BY <1>9 DEF UnpublishCheck, UnpublishAsLustre, UnpublishRemoveLustre
  <2> QED BY <1>3, <1>4, <1>5, <2>1 DEF WithGroup
<1>10. CASE UnpublishLoadMeta(c)
  <2>1. CASE Goto(c, "lustre")
    BY <1>3, <1>5, <2>1 DEF WithGroup
  <2>2. CASE /\ meta[t] # None
             /\ call' = [call EXCEPT ![c].pc = "umount", ![c].group = meta[t].group,
                                     ![c].source = meta[t].source]
    BY <1>1, <1>3, <2>2
  <2> QED BY <1>10, <2>1, <2>2 DEF UnpublishLoadMeta
<1>11. CASE UnpublishUmount(c) \/ UnpublishRemoveTarget(c) \/ UnpublishRemoveMeta(c)
            \/ UnpublishCount(c) \/ UnpublishUmountGroup(c) \/ UnpublishRemoveAll(c)
  <2>1. (\E view : Return(c, view)) \/ (\E pc : Goto(c, pc))
    BY <1>11 DEF UnpublishUmount, UnpublishRemoveTarget, UnpublishRemoveMeta,
       UnpublishCount, UnpublishUmountGroup, UnpublishRemoveAll
  <2>2. call[c].pc \in WithGroup /\ call[c].pc \in WithSource
    BY <1>11 DEF UnpublishUmount, UnpublishRemoveTarget, UnpublishRemoveMeta,
       UnpublishCount, UnpublishUmountGroup, UnpublishRemoveAll, WithGroup, WithSource
  <2> QED BY <1>3, <1>4, <1>5, <2>1, <2>2
<1> QED BY <1>6, <1>7, <1>8, <1>9, <1>10, <1>11 DEF Publish, Unpublish

\* What it does to the node.
LEMMA HandlerChanges ==
  ASSUME TypeInv, NEW c \in Calls, Publish(c) \/ Unpublish(c), ~UnpublishPanic(c)
  PROVE  /\ ann' = ann /\ claim' = claim
         /\ \A u \in Targets :
              \/ meta'[u] = meta[u] \/ meta'[u] = None
              \/ /\ u = call[c].t /\ call[c].pc = "saveMeta"
                 /\ meta'[u] = [group |-> call[c].group, source |-> call[c].source]
         /\ \A u \in Targets :
              \/ tmnt'[u] = tmnt[u]
              \/ u = call[c].t /\ call[c].pc \in {"lustre", "umount"} /\ tmnt'[u] = Pop(tmnt[u])
              \/ u = call[c].t /\ call[c].pc = "bind" /\ tmnt'[u] = Push(tmnt[u], Shown(call[c].group))
         /\ \A h \in Groups :
              \/ grp'[h] = grp[h]
              \/ h = call[c].group /\ call[c].pc = "umountGroup" /\ grp'[h] = Pop(grp[h])
              \/ h = call[c].group /\ call[c].pc = "mountGroup" /\ grp'[h] = Push(grp[h], call[c].source)
         /\ \A h \in dirs : h \in dirs' \/ (h = call[c].group /\ call[c].pc = "removeAll")
         /\ \A u \in tdirs : u \in tdirs' \/ u = call[c].t
<1> DEFINE t == call[c].t
           g == call[c].group
<1> USE DEF clusterVars, nodeVars, TypeInv, TypeOK
<1>1. CASE PublishOptions(c) \/ PublishServer(c) \/ PublishCheckGroup(c)
           \/ PublishCheckTarget(c) \/ PublishRecheck(c) \/ PublishRemount(c)
  BY <1>1 DEF PublishOptions, PublishServer, PublishCheckGroup, PublishCheckTarget,
     PublishRecheck, PublishRemount
<1>2. CASE PublishMountGroup(c)
  <2>1. grp' = grp \/ grp' = [grp EXCEPT ![g] = Push(grp[g], call[c].source)]
    BY <1>2 DEF PublishMountGroup
  <2>2. \A h \in Groups : grp'[h] = grp[h] \/ (h = g /\ grp'[h] = Push(grp[h], call[c].source))
    BY <2>1
  <2> QED BY <1>2, <2>2 DEF PublishMountGroup
<1>3. CASE PublishSaveMeta(c)
  BY <1>3 DEF PublishSaveMeta
<1>4. CASE PublishBind(c)
  <2>1. tmnt' = tmnt \/ tmnt' = [tmnt EXCEPT ![t] = Push(tmnt[t], Shown(g))]
    BY <1>4 DEF PublishBind
  <2>2. \A u \in Targets : tmnt'[u] = tmnt[u] \/ (u = t /\ tmnt'[u] = Push(tmnt[u], Shown(g)))
    BY <2>1
  <2> QED BY <1>4, <2>2 DEF PublishBind
<1>5. CASE UnpublishCheck(c) \/ UnpublishLoadMeta(c) \/ UnpublishRemoveTarget(c)
           \/ UnpublishRemoveLustre(c) \/ UnpublishCount(c) \/ UnpublishRemoveAll(c)
  BY <1>5 DEF UnpublishCheck, UnpublishLoadMeta, UnpublishRemoveTarget, UnpublishRemoveLustre,
     UnpublishCount, UnpublishRemoveAll
<1>6. CASE UnpublishAsLustre(c) \/ UnpublishUmount(c)
  <2>1. tmnt' = tmnt \/ tmnt' = [tmnt EXCEPT ![t] = Pop(tmnt[t])]
    BY <1>6 DEF UnpublishAsLustre, UnpublishUmount
  <2>2. \A u \in Targets : tmnt'[u] = tmnt[u] \/ (u = t /\ tmnt'[u] = Pop(tmnt[u]))
    BY <2>1
  <2>3. call[c].pc \in {"lustre", "umount"} /\ \A u \in tdirs : u \in tdirs' \/ u = t
    BY <1>6 DEF UnpublishAsLustre, UnpublishUmount
  <2> QED BY <1>6, <2>2, <2>3 DEF UnpublishAsLustre, UnpublishUmount
<1>7. CASE UnpublishRemoveMeta(c)
  BY <1>7 DEF UnpublishRemoveMeta
<1>8. CASE UnpublishUmountGroup(c)
  <2>1. grp' = grp \/ grp' = [grp EXCEPT ![g] = Pop(grp[g])]
    BY <1>8 DEF UnpublishUmountGroup
  <2>2. \A h \in Groups : grp'[h] = grp[h] \/ (h = g /\ grp'[h] = Pop(grp[h]))
    BY <2>1
  <2> QED BY <1>8, <2>2 DEF UnpublishUmountGroup
<1> QED BY <1>1, <1>2, <1>3, <1>4, <1>5, <1>6, <1>7, <1>8 DEF Publish, Unpublish

\* What the other steps do: the mounts stay with the handlers, or the process
\* dies with its group mounts.
LEMMA EnvironmentChanges ==
  ASSUME TypeInv, Environment \/ (\E c \in Calls : UnpublishPanic(c))
  PROVE  /\ UNCHANGED <<meta, dirs, tdirs>>
         /\ ann' = ann \/ Edits # {}
         /\ claim' = claim \/ \E p \in PVCs, v \in Volumes : RecreateClaim(p, v)
         /\ \/ /\ grp' = grp /\ tmnt' = tmnt
               /\ \A c \in Calls :
                    \/ call[c].pc = "idle" /\ call'[c].pc \in {"options", "check"}
                    \/ /\ call'[c].pc = call[c].pc /\ call'[c].t = call[c].t
                       /\ call'[c].group = call[c].group /\ call'[c].source = call[c].source
            \/ /\ \A g \in Groups : grp'[g] = <<>>
               /\ \A t \in Targets : tmnt'[t] = tmnt[t] \/ tmnt'[t] = <<>>
               /\ \A c \in Calls : call'[c] = Idle
<1> USE DEF clusterVars, nodeVars
<1>1. CASE ContainerRestart \/ NodeReboot \/ \E c \in Calls : UnpublishPanic(c)
  BY <1>1 DEF ContainerRestart, NodeReboot, UnpublishPanic, ProcessDies
<1>2. CASE \E c \in Calls, t \in Targets : StartPublish(c, t) \/ StartUnpublish(c, t)
  <2>1. PICK c \in Calls, t \in Targets : StartPublish(c, t) \/ StartUnpublish(c, t)
    BY <1>2
  <2>2. \A d \in Calls : \/ call'[d] = call[d]
                         \/ call[d].pc = "idle" /\ call'[d].pc \in {"options", "check"}
    BY <2>1 DEF StartPublish, StartUnpublish, StartCall, TypeInv, TypeOK
  <2> QED BY <2>1, <2>2 DEF StartPublish, StartUnpublish, StartCall
<1>3. CASE \E c \in Calls : GiveUp(c)
  <2>1. PICK c \in Calls : GiveUp(c)
    BY <1>3
  <2>2. \A d \in Calls : /\ call'[d].pc = call[d].pc /\ call'[d].t = call[d].t
                         /\ call'[d].group = call[d].group /\ call'[d].source = call[d].source
    BY <2>1 DEF GiveUp, TypeInv, TypeOK
  <2> QED BY <2>1, <2>2 DEF GiveUp
<1>4. CASE \E t \in Targets : EditAnnotations(t)
  <2>1. PICK t \in Targets : EditAnnotations(t)
    BY <1>4
  <2>2. UNCHANGED <<claim, nodeVars, call>> /\ Edits # {}
    BY <2>1 DEF EditAnnotations
  <2> QED BY <2>2
<1>5. CASE \E t \in Targets : KubeletForgets(t)
  <2>1. UNCHANGED <<clusterVars, nodeVars, call>>
    BY <1>5 DEF KubeletForgets
  <2> QED BY <2>1
<1>6. CASE \E p \in PVCs, v \in Volumes : RecreateClaim(p, v)
  <2>1. UNCHANGED <<ann, nodeVars, call>>
    BY <1>6 DEF RecreateClaim
  <2> QED BY <1>6, <2>1
<1> QED BY <1>1, <1>2, <1>3, <1>4, <1>5, <1>6 DEF Environment

-----------------------------------------------------------------------------
(***************************************************************************)
(* Claims are kept apart, whatever fails, restarts or is given up on.      *)
(***************************************************************************)
\* The sources that hold a volume of claim p, and the binds of one.
SourcesOf(p) == {s \in Sources : PvcOf[s[2]] = p}
BindsOf(p)   == {b \in Bind : b.src \in SourcesOf(p) \cup {Local}}

\* A handler works in a group of its pod's claim and with its pod's volume.
CallOwn(c) ==
  /\ call[c].pc \in WithGroup => call[c].group[1] = Pvc(call[c].t)
  /\ call[c].pc \in WithSource => call[c].source[2] = VolumeOf[call[c].t]

MetaOwn(t)  == meta[t] # None => meta[t].group[1] = Pvc(t) /\ meta[t].source[2] = VolumeOf[t]
GroupOwn(g) == grp[g] \in Seq(SourcesOf(g[1]))
BindOwn(t)  == tmnt[t] \in Seq(BindsOf(Pvc(t)))

ClaimInv ==
  /\ \A c \in Calls : CallOwn(c)
  /\ \A t \in Targets : MetaOwn(t) /\ BindOwn(t)
  /\ \A g \in Groups : GroupOwn(g)

LEMMA HandlerOwns ==
  ASSUME TypeInv, ClaimInv, NEW c \in Calls, Publish(c) \/ Unpublish(c), ~UnpublishPanic(c)
  PROVE  ClaimInv'
<1>1. PICK t, g : t = call[c].t /\ g = call[c].group
  OBVIOUS
<1>2. /\ t \in Targets
      /\ call[c].pc \in WithGroup => g \in Groups /\ g[1] = Pvc(t)
      /\ call[c].pc \in WithSource => call[c].source \in SourcesOf(Pvc(t)) /\ call[c].pc \in WithGroup
  BY <1>1, HandlerLearns, ConstantsAssumption
     DEF TypeInv, CallShape, ClaimInv, CallOwn, SourcesOf, Pvc, WithSource
<1>3. ASSUME NEW d \in Calls PROVE CallOwn(d)'
  <2>1. CASE d = c
    <3>1. "server" \in WithGroup /\ "server" \notin WithSource
      BY DEF WithGroup, WithSource
    <3>2. MetaOwn(t) /\ CallOwn(c)
      BY <1>2 DEF ClaimInv
    <3>3. call'[c].pc \in WithSource => call'[c].pc \in WithGroup
      BY DEF WithSource
    <3> QED BY <1>1, <1>2, <2>1, <3>1, <3>2, <3>3, HandlerLearns DEF CallOwn, MetaOwn, GroupPath
  <2>2. CASE d # c
    BY <2>2, HandlerLearns DEF ClaimInv, CallOwn
  <2> QED BY <2>1, <2>2
<1>4. ASSUME NEW u \in Targets PROVE MetaOwn(u)'
  <2>1. call[c].pc = "saveMeta" => call[c].pc \in WithSource
    BY DEF WithSource, WithGroup
  <2>2. \/ meta'[u] = meta[u] \/ meta'[u] = None
        \/ /\ u = t /\ call[c].pc = "saveMeta"
           /\ meta'[u] = [group |-> g, source |-> call[c].source]
    BY <1>1, HandlerChanges
  <2>3. MetaOwn(u) /\ CallOwn(c)
    BY DEF ClaimInv
  <2> QED BY <1>1, <1>2, <2>1, <2>2, <2>3 DEF MetaOwn, CallOwn
<1>5. ASSUME NEW h \in Groups PROVE GroupOwn(h)'
  <2>1. grp[h] \in Seq(SourcesOf(h[1]))
    BY DEF ClaimInv, GroupOwn
  <2>2. Pop(grp[h]) \in Seq(SourcesOf(h[1]))
    BY <2>1, PopTypes
  <2>3. ASSUME h = g, call[c].pc = "mountGroup"
        PROVE  Push(grp[h], call[c].source) \in Seq(SourcesOf(h[1]))
    <3>1. call[c].source \in SourcesOf(h[1])
      BY <1>2, <2>3 DEF WithSource, WithGroup
    <3> QED BY <2>1, <3>1, StackTypes
  <2>4. \/ grp'[h] = grp[h] \/ grp'[h] = Pop(grp[h])
        \/ h = g /\ call[c].pc = "mountGroup" /\ grp'[h] = Push(grp[h], call[c].source)
    BY <1>1, HandlerChanges
  <2>5. grp'[h] \in Seq(SourcesOf(h[1]))
    BY <2>1, <2>2, <2>3, <2>4
  <2> QED BY <2>5 DEF GroupOwn
<1>6. ASSUME NEW u \in Targets PROVE BindOwn(u)'
  <2>1. tmnt[u] \in Seq(BindsOf(Pvc(u)))
    BY DEF ClaimInv, BindOwn
  <2>2. Pop(tmnt[u]) \in Seq(BindsOf(Pvc(u)))
    BY <2>1, PopTypes
  <2>3. ASSUME u = t, call[c].pc = "bind"
        PROVE  Push(tmnt[u], Shown(g)) \in Seq(BindsOf(Pvc(u)))
    <3>1. g \in Groups /\ g[1] = Pvc(u)
      BY <1>2, <2>3 DEF WithGroup
    <3>2. grp[g] # <<>> => Head(grp[g]) \in SourcesOf(g[1])
      BY <3>1 DEF ClaimInv, GroupOwn
    <3>3. Shown(g) \in BindsOf(Pvc(u))
      BY <3>1, <3>2 DEF Shown, BindsOf, Bind, SourcesOf
    <3> QED BY <2>1, <3>3, StackTypes
  <2>4. \/ tmnt'[u] = tmnt[u] \/ tmnt'[u] = Pop(tmnt[u])
        \/ u = t /\ call[c].pc = "bind" /\ tmnt'[u] = Push(tmnt[u], Shown(g))
    BY <1>1, HandlerChanges
  <2>5. tmnt'[u] \in Seq(BindsOf(Pvc(u)))
    BY <2>1, <2>2, <2>3, <2>4
  <2> QED BY <2>5 DEF BindOwn
<1> QED BY <1>3, <1>4, <1>5, <1>6 DEF ClaimInv

LEMMA EnvironmentOwn ==
  ASSUME TypeInv, ClaimInv, Environment \/ (\E c \in Calls : UnpublishPanic(c))
  PROVE  ClaimInv'
<1>1. \A c \in Calls : CallOwn(c)'
  BY EnvironmentChanges DEF ClaimInv, CallOwn, WithGroup, WithSource
<1>2. \A t \in Targets : MetaOwn(t)'
  BY EnvironmentChanges DEF ClaimInv, MetaOwn
<1>3. ASSUME NEW t \in Targets PROVE BindOwn(t)'
  <2>1. <<>> \in Seq(BindsOf(Pvc(t))) /\ tmnt[t] \in Seq(BindsOf(Pvc(t)))
    BY DEF ClaimInv, BindOwn
  <2>2. tmnt'[t] = tmnt[t] \/ tmnt'[t] = <<>>
    BY EnvironmentChanges
  <2>3. tmnt'[t] \in Seq(BindsOf(Pvc(t)))
    BY <2>1, <2>2
  <2> QED BY <2>3 DEF BindOwn
<1>4. ASSUME NEW g \in Groups PROVE GroupOwn(g)'
  <2>1. <<>> \in Seq(SourcesOf(g[1])) /\ grp[g] \in Seq(SourcesOf(g[1]))
    BY DEF ClaimInv, GroupOwn
  <2>2. grp'[g] = grp[g] \/ grp'[g] = <<>>
    BY EnvironmentChanges
  <2>3. grp'[g] \in Seq(SourcesOf(g[1]))
    BY <2>1, <2>2
  <2> QED BY <2>3 DEF GroupOwn
<1> QED BY <1>1, <1>2, <1>3, <1>4 DEF ClaimInv

LEMMA InitOwn == Init => ClaimInv
<1> SUFFICES ASSUME Init PROVE ClaimInv
  OBVIOUS
<1>1. \A c \in Calls : CallOwn(c)
  BY DEF Init, CallOwn, WithGroup, WithSource
<1>2. \A t \in Targets : MetaOwn(t) /\ BindOwn(t)
  BY DEF Init, MetaOwn, BindOwn
<1>3. \A g \in Groups : GroupOwn(g)
  BY DEF Init, GroupOwn
<1> QED BY <1>1, <1>2, <1>3 DEF ClaimInv

LEMMA ClaimStep == TypeInv /\ ClaimInv /\ [Next]_vars => ClaimInv'
<1> SUFFICES ASSUME TypeInv, ClaimInv, [Next]_vars PROVE ClaimInv'
  OBVIOUS
<1>1. CASE UNCHANGED vars
  BY <1>1 DEF vars, ClaimInv, CallOwn, MetaOwn, BindOwn, GroupOwn
<1> QED BY <1>1, HandlerOwns, EnvironmentOwn DEF Next

LEMMA ClaimInvariance == Spec => [](TypeInv /\ ClaimInv)
BY InitType, TypeStep, InitOwn, ClaimStep, PTL DEF Spec

\* A pod is shown no volume of another claim, however calls overlap, fail or
\* are cut short: a group path belongs to one claim (nodeserver.go:221).
THEOREM ClaimsIsolatedHolds == Spec => []ClaimsIsolated
<1>1. ClaimInv => ClaimsIsolated
  <2> SUFFICES ASSUME ClaimInv, NEW t \in Targets, NEW i \in DOMAIN tmnt[t], tmnt[t][i].src # Local
               PROVE  PvcOf[tmnt[t][i].src[2]] = Pvc(t)
    BY DEF ClaimsIsolated
  <2>1. tmnt[t][i] \in BindsOf(Pvc(t))
    BY DEF ClaimInv, BindOwn
  <2> QED BY <2>1 DEF BindsOf, SourcesOf
<1> QED BY <1>1, ClaimInvariance, PTL

-----------------------------------------------------------------------------
(***************************************************************************)
(* What a step of a handler does to its target, and to no other, when the  *)
(* kubelet waits for its calls.                                            *)
(***************************************************************************)
\* A target that is reported published, or about to be, is bound.
UpInv ==
  /\ \A t \in Targets : kub[t] = "up" => tmnt[t] # <<>>
  /\ \A c \in Calls : call[c].pc = "remount" => tmnt[call[c].t] # <<>>

LEMMA PublishShows ==
  ASSUME TypeInv, LocksHeld, NodeHeld, UpInv, NEW c \in Calls, Publish(c),
         NEW t, t = call[c].t
  PROVE  /\ t \in Targets /\ kub[t] = "mounting"
         /\ \A u \in Targets \ {t} : tmnt'[u] = tmnt[u] /\ kub'[u] = kub[u]
         /\ kub'[t] \in {"mounting", "new", "up"}
         /\ \/ /\ tmnt'[t] = tmnt[t]
               /\ kub'[t] = "up" \/ call'[c].pc = "remount" => tmnt[t] # <<>>
            \/ tmnt[t] = <<>> /\ tmnt'[t] # <<>>
<1> USE DEF clusterVars, nodeVars
<1>1. /\ call[c].pc \in PublishPC /\ Active(c) /\ t \in Targets /\ call[c].waited
      /\ kub[t] = "mounting" /\ Sees(c)
  BY PublishEffect DEF Moves, Ends, Active, TypeInv, CallShape, LocksHeld, KubeletKnows,
                       Exclusion, NodeHeld
<1>2. kub \in [Targets -> KubeletViews] /\ call \in [Calls -> CallRecord]
      /\ tmnt \in [Targets -> Seq(Bind)]
  BY DEF TypeInv, TypeOK
<1>3. /\ \A u \in Targets \ {t} : kub'[u] = kub[u]
      /\ kub'[t] \in {"mounting", "new", "up"}
  BY <1>1, <1>2, PublishEffect DEF Moves, Ends
<1>4. ASSUME NEW view, Return(c, view)
      PROVE  kub'[t] = view /\ call'[c].pc = "idle"
  BY <1>1, <1>2, <1>4 DEF Return
<1>5. ASSUME NEW pc, Goto(c, pc)
      PROVE  kub'[t] = "mounting" /\ call'[c].pc = pc
  BY <1>1, <1>2, <1>5 DEF Goto
<1>6. CASE PublishBind(c)
  <2>1. tmnt[t] = <<>>
    BY <1>1, <1>6 DEF PublishBind, Sees
  <2>2. CASE tmnt' = tmnt /\ Return(c, "new")
    BY <1>1, <1>3, <1>4, <2>2
  <2>3. CASE tmnt' = [tmnt EXCEPT ![t] = Push(@, Shown(call[c].group))]
    <3>1. /\ tmnt'[t] = Push(tmnt[t], Shown(call[c].group))
          /\ \A u \in Targets \ {t} : tmnt'[u] = tmnt[u]
      BY <1>1, <1>2, <2>3
    <3>2. <<Shown(call[c].group)>> \o <<>> # <<>>
      OBVIOUS
    <3>3. tmnt'[t] # <<>>
      BY <2>1, <3>1, <3>2 DEF Push
    <3> QED BY <1>1, <1>3, <2>1, <3>1, <3>3
  <2> QED BY <1>6, <2>2, <2>3 DEF PublishBind
<1>7. CASE ~PublishBind(c)
  <2>1. tmnt' = tmnt
    BY <1>7 DEF Publish, PublishOptions, PublishServer, PublishCheckGroup, PublishMountGroup,
       PublishSaveMeta, PublishCheckTarget, PublishRecheck, PublishRemount
  <2>2. CASE PublishOptions(c) \/ PublishServer(c) \/ PublishCheckGroup(c)
             \/ PublishMountGroup(c) \/ PublishSaveMeta(c)
    <3>1. kub'[t] # "up"
      BY <1>1, <1>2, <1>4, <1>5, <2>2 DEF PublishOptions, PublishServer, PublishCheckGroup,
         PublishMountGroup, PublishSaveMeta
    <3>2. call'[c].pc # "remount"
      BY <1>1, <1>2, <1>4, <1>5, <2>2 DEF PublishOptions, PublishServer, PublishCheckGroup,
         PublishMountGroup, PublishSaveMeta
    <3> QED BY <1>1, <1>3, <2>1, <3>1, <3>2
  <2>3. CASE PublishCheckTarget(c) \/ PublishRecheck(c)
    <3>1. tmnt[t] = <<>> => kub'[t] # "up" /\ call'[c].pc # "remount"
      BY <1>1, <1>4, <1>5, <2>3 DEF PublishCheckTarget, PublishRecheck
    <3> QED BY <1>1, <1>3, <2>1, <3>1
  <2>4. CASE PublishRemount(c)
    <3>1. tmnt[t] # <<>>
      BY <2>4 DEF PublishRemount, UpInv
    <3> QED BY <1>1, <1>3, <2>1, <3>1
  <2> QED BY <1>7, <2>2, <2>3, <2>4 DEF Publish
<1> QED BY <1>6, <1>7

LEMMA UnpublishShows ==
  ASSUME TypeInv, LocksHeld, NodeHeld, NEW c \in Calls, Unpublish(c), ~UnpublishPanic(c),
         NEW t, t = call[c].t
  PROVE  /\ t \in Targets /\ kub[t] = "leaving"
         /\ \A u \in Targets \ {t} : tmnt'[u] = tmnt[u] /\ kub'[u] = kub[u]
         /\ kub'[t] \in {"leaving", "gone"}
         /\ tmnt'[t] = <<>> \/ (tmnt'[t] = tmnt[t] /\ kub'[t] = "leaving")
<1> USE DEF clusterVars, nodeVars
<1>1. /\ call[c].pc \in UnpublishPC /\ Active(c) /\ t \in Targets /\ call[c].waited
      /\ kub[t] = "leaving" /\ Sees(c)
  BY UnpublishEffect DEF Moves, Ends, Active, TypeInv, CallShape, LocksHeld, KubeletKnows,
                         Exclusion, NodeHeld
<1>2. kub \in [Targets -> KubeletViews] /\ call \in [Calls -> CallRecord]
      /\ tmnt \in [Targets -> Seq(Bind)]
  BY DEF TypeInv, TypeOK
<1>3. /\ \A u \in Targets \ {t} : kub'[u] = kub[u]
      /\ kub'[t] \in {"leaving", "gone"}
  BY <1>1, <1>2, UnpublishEffect DEF Moves, Ends
<1>4. ASSUME NEW view, Return(c, view) PROVE kub'[t] = view
  BY <1>1, <1>2, <1>4 DEF Return
<1>5. ASSUME NEW pc, Goto(c, pc) PROVE kub'[t] = "leaving"
  BY <1>1, <1>2, <1>5 DEF Goto
<1>6. Pop(tmnt[t]) = <<>> /\ (tmnt[t] # <<>> => t \in tdirs)
  BY <1>1, <1>2, PopTypes DEF NodeHeld, SingleMounts
<1>7. CASE UnpublishAsLustre(c) \/ UnpublishUmount(c)
  <2>1. CASE tmnt' = tmnt /\ Return(c, "leaving")
    BY <1>1, <1>3, <1>4, <2>1
  <2>2. CASE tmnt' = [tmnt EXCEPT ![t] = Pop(@)]
    <3>1. tmnt'[t] = <<>> /\ \A u \in Targets \ {t} : tmnt'[u] = tmnt[u]
      BY <1>1, <1>2, <1>6, <2>2
    <3> QED BY <1>1, <1>3, <3>1
  <2> QED BY <1>7, <2>1, <2>2 DEF UnpublishAsLustre, UnpublishUmount
<1>8. CASE UnpublishCheck(c) \/ UnpublishLoadMeta(c)
  <2>1. tmnt' = tmnt
    BY <1>8 DEF UnpublishCheck, UnpublishLoadMeta
  <2>2. tmnt[t] # <<>> => kub'[t] = "leaving"
    BY <1>1, <1>4, <1>5, <1>6, <1>8 DEF UnpublishCheck, UnpublishLoadMeta
  <2> QED BY <1>1, <1>3, <2>1, <2>2
<1>9. CASE UnpublishRemoveLustre(c) \/ UnpublishRemoveTarget(c) \/ UnpublishRemoveMeta(c)
           \/ UnpublishCount(c) \/ UnpublishUmountGroup(c) \/ UnpublishRemoveAll(c)
  <2>1. tmnt' = tmnt
    BY <1>9 DEF UnpublishRemoveLustre, UnpublishRemoveTarget, UnpublishRemoveMeta,
       UnpublishCount, UnpublishUmountGroup, UnpublishRemoveAll
  <2>2. tmnt[t] = <<>>
    BY <1>1, <1>9 DEF UnpublishRemoveLustre, UnpublishRemoveTarget, UnpublishRemoveMeta,
       UnpublishCount, UnpublishUmountGroup, UnpublishRemoveAll, Sees
  <2> QED BY <1>1, <1>3, <2>1, <2>2
<1> QED BY <1>7, <1>8, <1>9 DEF Unpublish

\* The steps of the kubelet and of the node, told the same way.
LEMMA EnvironmentShows ==
  ASSUME ~Timeouts, TypeInv, Environment \/ (\E c \in Calls : UnpublishPanic(c))
  PROVE  \/ /\ \A c \in Calls : call'[c] = call[c] \/ call'[c].pc # "remount"
            /\ tmnt' = tmnt
            /\ \/ \E t \in Targets : kub[t] \in {"new", "uncertain"} /\ kub' = [kub EXCEPT ![t] = "mounting"]
               \/ \E t \in Targets : /\ kub[t] \in {"uncertain", "up", "leaving"}
                                     /\ kub' = [kub EXCEPT ![t] = "leaving"]
               \/ \E t \in Targets : kub[t] = "up" /\ kub' = [kub EXCEPT ![t] = "uncertain"]
               \/ kub' = [t \in Targets |-> IF kub[t] = "mounting" THEN "uncertain" ELSE kub[t]]
               \/ kub' = kub
         \/ /\ \A c \in Calls : call'[c].pc # "remount"
            /\ tmnt' = [t \in Targets |-> <<>>]
            /\ kub' = [t \in Targets |-> IF kub[t] \in {"mounting", "up"} THEN "uncertain"
                                         ELSE kub[t]]
<1> USE DEF clusterVars, nodeVars
<1>1. CASE ContainerRestart \/ \E c \in Calls : UnpublishPanic(c)
  BY <1>1 DEF ContainerRestart, UnpublishPanic, ProcessDies
<1>2. CASE NodeReboot
  BY <1>2 DEF NodeReboot, ProcessDies
<1>3. ASSUME NEW c \in Calls, NEW t \in Targets, NEW pc \in {"options", "check"}, NEW view,
             StartCall(c, t, pc, view)
      PROVE  /\ \A d \in Calls : call'[d] = call[d] \/ call'[d].pc # "remount"
             /\ tmnt' = tmnt /\ kub' = [kub EXCEPT ![t] = view]
  BY <1>3 DEF StartCall, TypeInv, TypeOK
<1>4. CASE \E c \in Calls, t \in Targets : StartPublish(c, t)
  BY <1>3, <1>4 DEF StartPublish
<1>5. CASE \E c \in Calls, t \in Targets : StartUnpublish(c, t)
  BY <1>3, <1>5 DEF StartUnpublish
<1>6. CASE \E t \in Targets : KubeletForgets(t)
  BY <1>6 DEF KubeletForgets
<1>7. CASE \/ \E t \in Targets : EditAnnotations(t)
           \/ \E p \in PVCs, v \in Volumes : RecreateClaim(p, v)
  BY <1>7 DEF EditAnnotations, RecreateClaim
<1>8. ASSUME NEW c \in Calls, GiveUp(c) PROVE FALSE
  BY <1>8 DEF GiveUp
<1> QED BY <1>1, <1>2, <1>4, <1>5, <1>6, <1>7, <1>8 DEF Environment

LEMMA UpStep ==
  ASSUME ~Timeouts, IInv, UpInv, [Next]_vars
  PROVE  UpInv'
<1>1. TypeInv /\ LocksHeld /\ NodeHeld
  BY IInvParts
<1>2. \A c \in Calls : call[c].pc = "remount" => call[c].t \in Targets
  BY <1>1 DEF TypeInv, CallShape, Active
<1>3. ASSUME NEW c \in Calls, NEW t \in Targets, t = call[c].t, t = call'[c].t \/ call'[c].pc = "idle",
             Active(c), \A d \in Calls \ {c} : call'[d] = call[d],
             \A u \in Targets \ {t} : tmnt'[u] = tmnt[u] /\ kub'[u] = kub[u],
             kub'[t] = "up" \/ call'[c].pc = "remount" => tmnt'[t] # <<>>
      PROVE  UpInv'
  <2>1. \A d \in Calls \ {c} : call[d].pc = "remount" => call[d].t # t
    <3>1. \A d \in Calls \ {c} : call[d].pc = "remount" => Active(d)
      BY DEF Active
    <3> QED BY <1>1, <1>3, <3>1, Apart DEF NodeHeld
  <2>2. \A u \in Targets : kub'[u] = "up" => tmnt'[u] # <<>>
    BY <1>3 DEF UpInv
  <2>3. \A d \in Calls : call'[d].pc = "remount" => tmnt'[call'[d].t] # <<>>
    BY <1>2, <1>3, <2>1 DEF UpInv
  <2> QED BY <2>2, <2>3 DEF UpInv
<1>4. ASSUME NEW c \in Calls, Publish(c) PROVE UpInv'
  <2>1. PICK t : t = call[c].t
    OBVIOUS
  <2>2. /\ Active(c) /\ (t = call'[c].t \/ call'[c].pc = "idle")
        /\ \A d \in Calls \ {c} : call'[d] = call[d]
    BY <1>1, <1>4, <2>1, PublishEffect DEF Moves, Ends, Active
  <2> QED BY <1>1, <1>3, <1>4, <2>1, <2>2, PublishShows
<1>5. ASSUME NEW c \in Calls, Unpublish(c), ~UnpublishPanic(c) PROVE UpInv'
  <2>1. PICK t : t = call[c].t
    OBVIOUS
  <2>2. /\ Active(c) /\ (t = call'[c].t \/ call'[c].pc = "idle")
        /\ \A d \in Calls \ {c} : call'[d] = call[d]
        /\ call'[c].pc # "remount"
    BY <1>1, <1>5, <2>1, UnpublishEffect DEF Moves, Ends, Active
  <2>3. kub'[t] # "up"
    BY <1>1, <1>5, <2>1, UnpublishShows
  <2> QED BY <1>1, <1>3, <1>5, <2>1, <2>2, <2>3, UnpublishShows
<1>6. CASE Environment \/ \E c \in Calls : UnpublishPanic(c)
  <2>1. kub \in [Targets -> KubeletViews]
    BY <1>1 DEF TypeInv, TypeOK
  <2>2. \A t \in Targets : kub'[t] = "up" => kub[t] = "up" /\ tmnt'[t] = tmnt[t]
    BY <1>1, <1>6, <2>1, EnvironmentShows
  <2>3. \A c \in Calls : call'[c].pc = "remount" => call'[c] = call[c] /\ tmnt' = tmnt
    BY <1>1, <1>6, EnvironmentShows
  <2> QED BY <2>2, <2>3 DEF UpInv
<1>7. CASE UNCHANGED vars
  BY <1>7 DEF vars, UpInv
<1> QED BY <1>4, <1>5, <1>6, <1>7 DEF Next

LEMMA UpInvariance == ASSUME ~Timeouts PROVE Spec => [](IInv /\ UpInv)
<1>1. Init => UpInv
  BY DEF Init, UpInv
<1>2. IInv /\ UpInv /\ [Next]_vars => IInv' /\ UpInv'
  BY IInvStep, UpStep
<1> QED BY InitIInv, <1>1, <1>2, PTL DEF Spec

-----------------------------------------------------------------------------
(***************************************************************************)
(* The refinement of NodeContract, for a node whose binds show the volumes *)
(* of their own targets.                                                   *)
(***************************************************************************)
ShowsOwn ==
  \A t \in Targets : tmnt[t] # <<>> => Head(tmnt[t]).src \in Servers \X {VolumeOf[t]}

Same(t) == StatusOf(t)' = StatusOf(t) /\ ShownAt(t)' = ShownAt(t)

LEMMA NothingHappens ==
  ASSUME \A t \in Targets : Same(t) PROVE UNCHANGED Contract!vars
BY DEF Contract!vars, Same

\* A step that concerns one target, told by what its pod and the kubelet see.
LEMMA OneTarget ==
  ASSUME NEW t \in Targets, \A x \in Targets \ {t} : Same(x),
         \/ Same(t)
         \/ /\ StatusOf(t) = "new" /\ ShownAt(t) = None
            /\ ShownAt(t)' \in Servers \X {VolumeOf[t]} /\ StatusOf(t)' \in {"new", "up"}
         \/ /\ StatusOf(t) = "new" /\ ShownAt(t) # None
            /\ ShownAt(t)' = ShownAt(t) /\ StatusOf(t)' = "up"
         \/ StatusOf(t) \in {"new", "up"} /\ ShownAt(t)' = ShownAt(t) /\ StatusOf(t)' = "leaving"
         \/ StatusOf(t) = "leaving" /\ ShownAt(t)' = None /\ StatusOf(t)' \in {"leaving", "gone"}
  PROVE  [Contract!Next]_(Contract!vars)
<1> DEFINE Status == [x \in Targets |-> StatusOf(x)]
           Shows  == [x \in Targets |-> ShownAt(x)]
<1>1. /\ [x \in Targets |-> StatusOf(x)'] = [Status EXCEPT ![t] = StatusOf(t)']
      /\ [x \in Targets |-> ShownAt(x)'] = [Shows EXCEPT ![t] = ShownAt(t)']
  BY DEF Same
<1>2. Status[t] = StatusOf(t) /\ Shows[t] = ShownAt(t)
  OBVIOUS
<1>3. StatusOf(t)' = StatusOf(t) => [Status EXCEPT ![t] = StatusOf(t)'] = Status
  BY <1>2
<1>4. ShownAt(t)' = ShownAt(t) => [Shows EXCEPT ![t] = ShownAt(t)'] = Shows
  BY <1>2
<1>5. CASE Same(t)
  <2>1. \A x \in Targets : Same(x)
    BY <1>5
  <2> QED BY <2>1, NothingHappens
<1>6. CASE /\ StatusOf(t) = "new" /\ ShownAt(t) = None
           /\ ShownAt(t)' \in Servers \X {VolumeOf[t]} /\ StatusOf(t)' \in {"new", "up"}
  <2>1. Contract!Show(t)
    BY <1>1, <1>2, <1>3, <1>6 DEF Contract!Show
  <2> QED BY <2>1 DEF Contract!Next, Contract!Promised
<1>7. CASE /\ StatusOf(t) = "new" /\ ShownAt(t) # None
           /\ ShownAt(t)' = ShownAt(t) /\ StatusOf(t)' = "up"
  <2>1. Contract!Announce(t)
    BY <1>1, <1>2, <1>4, <1>7 DEF Contract!Announce
  <2> QED BY <2>1 DEF Contract!Next, Contract!Promised
<1>8. CASE StatusOf(t) \in {"new", "up"} /\ ShownAt(t)' = ShownAt(t) /\ StatusOf(t)' = "leaving"
  <2>1. Contract!AskToLeave(t)
    BY <1>1, <1>2, <1>4, <1>8 DEF Contract!AskToLeave
  <2> QED BY <2>1 DEF Contract!Next, Contract!Promised
<1>9. CASE StatusOf(t) = "leaving" /\ ShownAt(t)' = None /\ StatusOf(t)' \in {"leaving", "gone"}
  <2>1. Contract!Hide(t)
    BY <1>1, <1>2, <1>3, <1>9 DEF Contract!Hide
  <2> QED BY <2>1 DEF Contract!Next, Contract!Promised
<1> QED BY <1>5, <1>6, <1>7, <1>8, <1>9

LEMMA PublishKeepsContract ==
  ASSUME IInv, UpInv, ShowsOwn, ShowsOwn', NEW c \in Calls, Publish(c)
  PROVE  [Contract!Next]_(Contract!vars)
<1>1. PICK t : t = call[c].t
  OBVIOUS
<1>2. /\ t \in Targets /\ kub[t] = "mounting"
      /\ \A u \in Targets \ {t} : tmnt'[u] = tmnt[u] /\ kub'[u] = kub[u]
      /\ kub'[t] \in {"mounting", "new", "up"}
      /\ \/ tmnt'[t] = tmnt[t] /\ (kub'[t] = "up" => tmnt[t] # <<>>)
         \/ tmnt[t] = <<>> /\ tmnt'[t] # <<>>
  BY <1>1, PublishShows, IInvParts
<1>3. \A u \in Targets \ {t} : Same(u)
  BY <1>2 DEF Same, StatusOf, ShownAt
<1>4. StatusOf(t) = "new" /\ StatusOf(t)' = IF kub'[t] = "up" THEN "up" ELSE "new"
  BY <1>2 DEF StatusOf
<1>5. None \notin Servers \X {VolumeOf[t]}
  BY <1>2, ConstantsAssumption DEF Sources
<1>6. CASE tmnt'[t] = tmnt[t] /\ (kub'[t] = "up" => tmnt[t] # <<>>)
  <2>1. ShownAt(t)' = ShownAt(t) /\ (tmnt[t] # <<>> => ShownAt(t) # None)
    BY <1>2, <1>5, <1>6 DEF ShownAt, ShowsOwn
  <2> QED BY <1>2, <1>3, <1>4, <1>6, <2>1, OneTarget DEF Same
<1>7. CASE tmnt[t] = <<>> /\ tmnt'[t] # <<>>
  <2>1. ShownAt(t) = None /\ ShownAt(t)' \in Servers \X {VolumeOf[t]}
    BY <1>2, <1>7 DEF ShownAt, ShowsOwn
  <2> QED BY <1>2, <1>3, <1>4, <2>1, OneTarget
<1> QED BY <1>2, <1>6, <1>7

LEMMA UnpublishKeepsContract ==
  ASSUME IInv, NEW c \in Calls, Unpublish(c), ~UnpublishPanic(c)
  PROVE  [Contract!Next]_(Contract!vars)
<1>1. PICK t : t = call[c].t
  OBVIOUS
<1>2. /\ t \in Targets /\ kub[t] = "leaving"
      /\ \A u \in Targets \ {t} : tmnt'[u] = tmnt[u] /\ kub'[u] = kub[u]
      /\ kub'[t] \in {"leaving", "gone"}
      /\ tmnt'[t] = <<>> \/ (tmnt'[t] = tmnt[t] /\ kub'[t] = "leaving")
  BY <1>1, UnpublishShows, IInvParts
<1>3. \A u \in Targets \ {t} : Same(u)
  BY <1>2 DEF Same, StatusOf, ShownAt
<1>4. StatusOf(t) = "leaving" /\ StatusOf(t)' = kub'[t]
  BY <1>2 DEF StatusOf
<1>5. ShownAt(t)' = None \/ Same(t)
  BY <1>2 DEF Same, StatusOf, ShownAt
<1> QED BY <1>2, <1>3, <1>4, <1>5, OneTarget

LEMMA EnvironmentKeepsContract ==
  ASSUME ~Timeouts, IInv, Environment \/ (\E c \in Calls : UnpublishPanic(c))
  PROVE  [Contract!Next]_(Contract!vars)
<1>1. kub \in [Targets -> KubeletViews]
  BY IInvParts DEF TypeInv, TypeOK
<1>2. CASE /\ tmnt' = tmnt
           /\ \E t \in Targets : /\ kub[t] \in {"uncertain", "up", "leaving"}
                                 /\ kub' = [kub EXCEPT ![t] = "leaving"]
  <2>1. PICK t \in Targets : /\ kub[t] \in {"uncertain", "up", "leaving"}
                             /\ kub' = [kub EXCEPT ![t] = "leaving"]
    BY <1>2
  <2>2. \A x \in Targets : kub'[x] = IF x = t THEN "leaving" ELSE kub[x]
    BY <1>1, <2>1
  <2>3. /\ \A x \in Targets \ {t} : Same(x)
        /\ ShownAt(t)' = ShownAt(t) /\ StatusOf(t)' = "leaving"
        /\ StatusOf(t) \in {"new", "up", "leaving"}
    BY <1>2, <2>1, <2>2 DEF Same, StatusOf, ShownAt
  <2> QED BY <2>1, <2>3, OneTarget DEF Same
<1>3. CASE /\ tmnt' = tmnt
           /\ \E t \in Targets : kub[t] = "up" /\ kub' = [kub EXCEPT ![t] = "uncertain"]
  <2>1. PICK t \in Targets : kub[t] = "up" /\ kub' = [kub EXCEPT ![t] = "uncertain"]
    BY <1>3
  <2> DEFINE Status == [x \in Targets |-> StatusOf(x)]
  <2>2. \A x \in Targets : kub'[x] = IF x = t THEN "uncertain" ELSE kub[x]
    BY <1>1, <2>1
  <2>3. \A x \in Targets : StatusOf(x)' = IF x \in {t} THEN "new" ELSE Status[x]
    BY <2>2 DEF StatusOf
  <2>4. [x \in Targets |-> StatusOf(x)'] = [x \in Targets |-> IF x \in {t} THEN "new" ELSE Status[x]]
    BY <2>3
  <2>5. {t} \in SUBSET {x \in Targets : Status[x] = "up"}
    BY <2>1 DEF StatusOf
  <2>6. [x \in Targets |-> ShownAt(x)]' = [x \in Targets |-> ShownAt(x)]
    BY <1>3 DEF ShownAt
  <2>7. Contract!Forget
    BY <2>4, <2>5, <2>6 DEF Contract!Forget
  <2> QED BY <2>7 DEF Contract!Next, Contract!Promised
<1>4. CASE /\ tmnt' = tmnt
           /\ \/ \E t \in Targets : /\ kub[t] \in {"new", "uncertain"}
                                    /\ kub' = [kub EXCEPT ![t] = "mounting"]
              \/ kub' = [t \in Targets |-> IF kub[t] = "mounting" THEN "uncertain" ELSE kub[t]]
              \/ kub' = kub
  <2>1. \A x \in Targets : StatusOf(x)' = StatusOf(x)
    BY <1>1, <1>4 DEF StatusOf
  <2> QED BY <1>4, <2>1, NothingHappens DEF Same, ShownAt
<1>5. CASE /\ tmnt' = [t \in Targets |-> <<>>]
           /\ kub' = [t \in Targets |-> IF kub[t] \in {"mounting", "up"} THEN "uncertain"
                                        ELSE kub[t]]
  <2> DEFINE Status == [t \in Targets |-> StatusOf(t)]
  <2>1. \A t \in Targets : StatusOf(t)' = IF Status[t] = "up" THEN "new" ELSE Status[t]
    BY <1>5 DEF StatusOf
  <2>2. \A t \in Targets : ShownAt(t)' = None
    BY <1>5 DEF ShownAt
  <2>3. /\ [t \in Targets |-> StatusOf(t)'] =
             [t \in Targets |-> IF Status[t] = "up" THEN "new" ELSE Status[t]]
        /\ [t \in Targets |-> ShownAt(t)'] = [t \in Targets |-> None]
    BY <2>1, <2>2
  <2>4. Contract!Reboot
    BY <2>3 DEF Contract!Reboot
  <2> QED BY <2>4 DEF Contract!Next, Contract!Promised
<1> QED BY <1>2, <1>3, <1>4, <1>5, IInvParts, EnvironmentShows

LEMMA StepKeepsContract ==
  ASSUME ~Timeouts, IInv, UpInv, ShowsOwn, ShowsOwn', [Next]_vars
  PROVE  [Contract!Next]_(Contract!vars)
<1>1. CASE UNCHANGED vars
  BY <1>1, NothingHappens DEF vars, Same, StatusOf, ShownAt
<1> QED BY <1>1, PublishKeepsContract, UnpublishKeepsContract, EnvironmentKeepsContract DEF Next

LEMMA InitKeepsContract == Init => Contract!Init
<1> SUFFICES ASSUME Init PROVE Contract!Init
  OBVIOUS
<1>1. \A t \in Targets : StatusOf(t) = "new" /\ ShownAt(t) = None
  BY DEF Init, StatusOf, ShownAt
<1> QED BY <1>1 DEF Contract!Init

\* No two volumes belong to one claim: the claim is never deleted and created
\* anew under its name.
OwnVolumes == \A v, w \in Volumes : PvcOf[v] = PvcOf[w] => v = w

LEMMA OwnVolumesShow ==
  ASSUME OwnVolumes PROVE IInv /\ ClaimInv => ShowsOwn
<1> SUFFICES ASSUME IInv, ClaimInv, NEW t \in Targets, tmnt[t] # <<>>
             PROVE  Head(tmnt[t]).src \in Servers \X {VolumeOf[t]}
  BY DEF ShowsOwn
<1>1. tmnt[t] \in Seq(BindsOf(Pvc(t)))
  BY DEF ClaimInv, BindOwn
<1>2. Head(tmnt[t]) = tmnt[t][1] /\ 1 \in DOMAIN tmnt[t] /\ Head(tmnt[t]) \in BindsOf(Pvc(t))
  BY <1>1
<1>3. Head(tmnt[t]).src # Local
  BY <1>2 DEF IInv, NodeSafe, NeverLocalDir
<1>4. Head(tmnt[t]).src \in SourcesOf(Pvc(t))
  BY <1>2, <1>3 DEF BindsOf
<1> QED BY <1>4, ConstantsAssumption DEF SourcesOf, Sources, Pvc, OwnVolumes

\* If no claim name is used again, a target the kubelet was told is published
\* shows the export of its own volume, whichever pod mounted the group and
\* whatever fails, restarts or is edited (nodeserver.go:215-224, 538-585).
THEOREM PublishedShowsVolumeHolds ==
  ASSUME ~Timeouts, OwnVolumes PROVE Spec => []PublishedShowsVolume
<1>1. ShowsOwn /\ UpInv => PublishedShowsVolume
  BY DEF ShowsOwn, UpInv, PublishedShowsVolume
<1> QED BY <1>1, OwnVolumesShow, UpInvariance, ClaimInvariance, PTL

\* And the node keeps its whole contract: what a pod is shown comes, stays and
\* goes as NodeContract says (nodeserver.go:500-704).
THEOREM NfsKeepsContract ==
  ASSUME ~Timeouts, OwnVolumes PROVE Spec => KeepsNodeContract
<1>1. IInv /\ UpInv /\ ShowsOwn /\ ShowsOwn' /\ [Next]_vars => [Contract!Next]_(Contract!vars)
  BY StepKeepsContract
<1> QED BY <1>1, OwnVolumesShow, UpInvariance, ClaimInvariance, InitKeepsContract, PTL
        DEF Spec, KeepsNodeContract, Contract!Spec

-----------------------------------------------------------------------------
(***************************************************************************)
(* The mount of a group when nothing upsets it: annotations are not edited *)
(* and no step fails that an unpublish does not repeat.  Claims may be     *)
(* deleted and created anew, and everything may restart.                   *)
(***************************************************************************)
Undisturbed ==
  /\ ~Timeouts /\ Edits = {}
  /\ Faults \subseteq {"stat", "umount", "rmMeta"}
  /\ \A o, p \in Options : MountText[o] = MountText[p] => o = p

\* The group path and the source a target has from its pod's annotations.
PathOf(t)   == <<Pvc(t), FirstAnn[t].options>>
ServerOf(t) == IF FirstAnn[t].vip = NoServer THEN VipOf[VolumeOf[t]] ELSE FirstAnn[t].vip
SourceOf(t) == <<ServerOf(t), VolumeOf[t]>>

\* Handlers, meta files and binds have the group and the source of their target.
HandlerHas(c) ==
  /\ call[c].pc \in WithGroup => call[c].group = PathOf(call[c].t)
  /\ call[c].pc \in WithSource => call[c].source = SourceOf(call[c].t)
MetaHas(t) == meta[t] # None => meta[t].group = PathOf(t) /\ meta[t].source = SourceOf(t)
BindFrom(t) == tmnt[t] # <<>> => Head(tmnt[t]).from = PathOf(t)

PathInv ==
  /\ ann = FirstAnn
  /\ \A c \in Calls : HandlerHas(c)
  /\ \A t \in Targets : MetaHas(t) /\ BindFrom(t)

LEMMA HandlerPath ==
  ASSUME IInv, PathInv, NEW c \in Calls, Publish(c) \/ Unpublish(c), ~UnpublishPanic(c)
  PROVE  PathInv'
<1>1. PICK t, g : t = call[c].t /\ g = call[c].group
  OBVIOUS
<1>2. TypeInv /\ NodeHeld
  BY IInvParts
<1>3. /\ t \in Targets
      /\ ann = FirstAnn /\ GroupPath(t) = PathOf(t) /\ <<Server(t), VolumeOf[t]>> = SourceOf(t)
      /\ call[c].pc \in WithGroup => g \in Groups /\ g = PathOf(t)
      /\ call[c].pc \in WithSource => call[c].source = SourceOf(t)
  BY <1>1, <1>2, HandlerLearns
     DEF TypeInv, CallShape, PathInv, HandlerHas, GroupPath, PathOf, Server, SourceOf, ServerOf
<1>4. ASSUME NEW d \in Calls PROVE HandlerHas(d)'
  <2>1. PICK u : u = call[d].t
    OBVIOUS
  <2>2. PathOf(u)' = PathOf(u) /\ SourceOf(u)' = SourceOf(u)
    BY DEF PathOf, SourceOf, ServerOf, Pvc
  <2>3. CASE d = c
    <3>1. "server" \in WithGroup /\ "server" \notin WithSource
      BY DEF WithGroup, WithSource
    <3>2. MetaHas(t) /\ HandlerHas(c)
      BY <1>3 DEF PathInv
    <3>3. call'[c].pc \in WithSource => call'[c].pc \in WithGroup
      BY DEF WithSource
    <3>4. /\ call'[c].pc \in WithGroup => call'[c].t = t /\ call'[c].group = PathOf(t)
          /\ call'[c].pc \in WithSource => call'[c].source = SourceOf(t)
      BY <1>1, <1>2, <1>3, <3>1, <3>2, <3>3, HandlerLearns DEF MetaHas
    <3> QED BY <1>1, <2>1, <2>2, <2>3, <3>3, <3>4 DEF HandlerHas
  <2>4. CASE d # c
    BY <1>2, <2>1, <2>2, <2>4, HandlerLearns DEF PathInv, HandlerHas
  <2> QED BY <2>3, <2>4
<1>5. ASSUME NEW u \in Targets PROVE MetaHas(u)' /\ BindFrom(u)'
  <2>1. PathOf(u)' = PathOf(u) /\ SourceOf(u)' = SourceOf(u)
    BY DEF PathOf, SourceOf, ServerOf, Pvc
  <2>2. MetaHas(u) /\ BindFrom(u) /\ tmnt[u] \in Seq(Bind) /\ Pop(tmnt[u]) = <<>>
    BY <1>2, PopTypes DEF PathInv, TypeInv, TypeOK, NodeHeld, SingleMounts
  <2>3. MetaHas(u)'
    <3>1. \/ meta'[u] = meta[u] \/ meta'[u] = None
          \/ /\ u = t /\ call[c].pc = "saveMeta"
             /\ meta'[u] = [group |-> g, source |-> call[c].source]
      BY <1>1, <1>2, HandlerChanges
    <3>2. "saveMeta" \in WithGroup /\ "saveMeta" \in WithSource
      BY DEF WithGroup, WithSource
    <3> QED BY <1>3, <2>1, <2>2, <3>1, <3>2 DEF MetaHas
  <2>4. BindFrom(u)'
    <3>1. \/ tmnt'[u] = tmnt[u] \/ tmnt'[u] = Pop(tmnt[u])
          \/ u = t /\ call[c].pc = "bind" /\ tmnt'[u] = Push(tmnt[u], Shown(g))
      BY <1>1, <1>2, HandlerChanges
    <3>2. CASE u = t /\ call[c].pc = "bind" /\ tmnt'[u] = Push(tmnt[u], Shown(g))
      <4>1. g = PathOf(u) /\ g \in Groups
        BY <1>3, <3>2 DEF WithGroup
      <4>2. Head(<<Shown(g)>> \o tmnt[u]) = Shown(g)
        BY <2>2
      <4> QED BY <2>1, <3>2, <4>1, <4>2 DEF BindFrom, Push, Shown
    <3> QED BY <2>1, <2>2, <3>1, <3>2 DEF BindFrom
  <2> QED BY <2>3, <2>4
<1>6. ann' = FirstAnn
  BY <1>2, <1>3, HandlerChanges
<1> QED BY <1>4, <1>5, <1>6 DEF PathInv

LEMMA PathStep ==
  ASSUME Edits = {}, IInv, PathInv, [Next]_vars
  PROVE  PathInv'
<1>1. \A t : PathOf(t)' = PathOf(t) /\ SourceOf(t)' = SourceOf(t)
  BY DEF PathOf, SourceOf, ServerOf, Pvc
<1>2. CASE Environment \/ \E c \in Calls : UnpublishPanic(c)
  <2>1. TypeInv
    BY IInvParts
  <2>2. ASSUME NEW c \in Calls PROVE HandlerHas(c)'
    <3>1. PICK t : t = call[c].t
      OBVIOUS
    <3> QED BY <1>1, <1>2, <2>1, <3>1, EnvironmentChanges DEF PathInv, HandlerHas, WithGroup, WithSource
  <2>3. \A t \in Targets : MetaHas(t)' /\ BindFrom(t)'
    BY <1>1, <1>2, <2>1, EnvironmentChanges DEF PathInv, MetaHas, BindFrom
  <2>4. ann' = FirstAnn
    BY <1>2, <2>1, EnvironmentChanges DEF PathInv
  <2> QED BY <2>2, <2>3, <2>4 DEF PathInv
<1>3. CASE UNCHANGED vars
  BY <1>1, <1>3 DEF vars, PathInv, HandlerHas, MetaHas, BindFrom
<1> QED BY <1>2, <1>3, HandlerPath DEF Next


\* What a handler needs for its next steps is there, so that they do not fail.
Ready(c) ==
  /\ call[c].pc \in {"mountGroup", "saveMeta", "checkTarget", "recheck", "bind"} =>
       call[c].group \in dirs
  /\ call[c].pc \in {"recheck", "bind", "rmTarget"} => call[c].t \in tdirs
  /\ call[c].pc \in {"loadMeta", "umount"} => tmnt[call[c].t] # <<>>
  /\ call[c].pc \notin {"lustre", "rmLustre"}

\* A publish that fails leaves its target unbound.
NewUnbound(t) == kub[t] = "new" => tmnt[t] = <<>>

ReadyInv == (\A c \in Calls : Ready(c)) /\ (\A t \in Targets : NewUnbound(t))

LEMMA OthersReady ==
  ASSUME IInv, ReadyInv, NEW c \in Calls, Publish(c) \/ Unpublish(c), ~UnpublishPanic(c),
         NEW d \in Calls, d # c
  PROVE  Ready(d)'
<1>1. TypeInv /\ LocksHeld /\ OwnGroups
  BY IInvParts DEF NodeHeld
<1>2. call'[d] = call[d]
  BY <1>1, HandlerLearns
<1>3. CASE Active(d)
  <2>1. PICK t, g : t = call[d].t /\ g = call[d].group
    OBVIOUS
  <2>2. Active(c)
    BY <1>1, PublishEffect, UnpublishEffect DEF Moves, Ends, Active
  <2>3. t \in Targets /\ t # call[c].t
    BY <1>1, <1>3, <2>1, <2>2, Apart DEF TypeInv, CallShape
  <2>4. tmnt'[t] = tmnt[t] /\ (t \in tdirs => t \in tdirs')
    BY <1>1, <2>3, HandlerChanges
  <2>5. call[d].pc \in {"mountGroup", "saveMeta", "checkTarget", "recheck", "bind"}
          /\ g \in dirs => g \in dirs'
    <3>1. call[c].pc = "removeAll" /\ call[d].pc \in {"mountGroup", "saveMeta", "checkTarget", "recheck", "bind"}
            => g # call[c].group
      BY <1>1, <1>3, <2>1, <2>2, Apart DEF WithGroup
    <3> QED BY <1>1, <3>1, HandlerChanges
  <2> QED BY <1>2, <2>1, <2>4, <2>5 DEF ReadyInv, Ready
<1>4. CASE ~Active(d)
  BY <1>2, <1>4 DEF Ready, Active
<1> QED BY <1>3, <1>4

\* A publish takes its steps without a failure, up to a pod without a server.
LEMMA PublishReady ==
  ASSUME Undisturbed, IInv, UpInv, PathInv, ReadyInv, NEW c \in Calls, Publish(c)
  PROVE  ReadyInv'
<1> USE DEF clusterVars, nodeVars
<1>1. PICK t, g : t = call[c].t /\ g = call[c].group
  OBVIOUS
<1>2. /\ TypeInv /\ LocksHeld /\ NodeHeld
      /\ call \in [Calls -> CallRecord] /\ kub \in [Targets -> KubeletViews]
  BY IInvParts DEF TypeInv, TypeOK
<1>3. /\ t \in Targets /\ kub[t] = "mounting" /\ call[c].waited
      /\ \A u \in Targets \ {t} : tmnt'[u] = tmnt[u] /\ kub'[u] = kub[u]
      /\ Ready(c) /\ Sees(c)
  BY <1>1, <1>2, PublishShows, PublishEffect
     DEF ReadyInv, NodeHeld, LocksHeld, Exclusion, Moves, Ends, Active
<1>4. \A op : op \in {"api", "mkdir", "mount", "chmod", "saveMeta", "recheck", "bind", "remount"}
           => ~MayFail(op)
  BY DEF Undisturbed, MayFail
<1>5. ASSUME NEW view, Return(c, view) PROVE kub'[t] = view /\ call'[c].pc = "idle"
  BY <1>1, <1>2, <1>3, <1>5 DEF Return
<1>6. ASSUME NEW pc, Goto(c, pc)
      PROVE  kub'[t] = "mounting" /\ call'[c].pc = pc /\ call'[c].t = t /\ call'[c].group = g
  BY <1>1, <1>2, <1>3, <1>6 DEF Goto
<1>7. ASSUME Ready(c)', kub'[t] = "new" => tmnt'[t] = <<>> PROVE ReadyInv'
  <2>1. \A d \in Calls : Ready(d)'
    BY <1>2, <1>7, OthersReady, PublishEffect
       DEF Moves, Ends, UnpublishPanic, Publish, PublishOptions, PublishServer, PublishCheckGroup,
           PublishMountGroup, PublishSaveMeta, PublishCheckTarget, PublishRecheck, PublishBind,
           PublishRemount
  <2>2. \A u \in Targets : NewUnbound(u)'
    BY <1>3, <1>7 DEF ReadyInv, NewUnbound
  <2> QED BY <2>1, <2>2 DEF ReadyInv
<1>8. CASE PublishOptions(c)
  <2>1. call'[c].pc = "server" /\ kub' = kub
    BY <1>2, <1>3, <1>4, <1>8 DEF PublishOptions
  <2> QED BY <1>3, <1>7, <2>1 DEF Ready
<1>9. CASE PublishServer(c)
  <2>1. call'[c].pc \in {"checkGroup", "idle"}
    BY <1>2, <1>5, <1>9 DEF PublishServer
  <2>2. kub'[t] = "new" => Server(t) = NoServer
    BY <1>1, <1>3, <1>4, <1>9 DEF PublishServer
  <2>3. Server(t) = NoServer => tmnt'[t] = <<>>
    <3>1. meta[t] # None => meta[t].source = SourceOf(t) /\ meta[t].source \in Sources
      BY <1>2, <1>3 DEF PathInv, MetaHas, TypeInv, TypeOK, Meta
    <3>2. Server(t) = ServerOf(t)
      BY DEF PathInv, Server, ServerOf
    <3>3. Server(t) = NoServer => meta[t] = None
      BY <3>1, <3>2, ConstantsAssumption DEF SourceOf, Sources
    <3>4. meta[t] = None => tmnt[t] = <<>>
      BY <1>2, <1>3 DEF NodeHeld, NodeSafe, MetaCoversBound
    <3> QED BY <1>9, <3>3, <3>4 DEF PublishServer
  <2> QED BY <1>7, <2>1, <2>2, <2>3 DEF Ready
<1>10. CASE PublishCheckGroup(c)
  <2>1. /\ \E pc \in {"mountGroup", "saveMeta"} : Goto(c, pc)
        /\ g \in dirs'
    BY <1>1, <1>4, <1>10 DEF PublishCheckGroup
  <2> QED BY <1>6, <1>7, <2>1 DEF Ready
<1>11. CASE PublishMountGroup(c)
  <2>1. ~CannotMount(c)
    BY <1>3, <1>11 DEF PublishMountGroup, Ready, Sees, CannotMount
  <2>2. Goto(c, "saveMeta") /\ g \in dirs'
    BY <1>1, <1>3, <1>4, <1>11, <2>1 DEF PublishMountGroup, Ready
  <2> QED BY <1>6, <1>7, <2>2 DEF Ready
<1>12. CASE PublishSaveMeta(c)
  <2>1. Goto(c, "checkTarget") /\ g \in dirs'
    BY <1>1, <1>3, <1>4, <1>12 DEF PublishSaveMeta, Ready
  <2> QED BY <1>6, <1>7, <2>1 DEF Ready
<1>13. CASE PublishCheckTarget(c)
  <2>1. /\ Goto(c, "recheck") \/ Return(c, "up")
        /\ g \in dirs' /\ t \in tdirs'
    BY <1>1, <1>3, <1>4, <1>13 DEF PublishCheckTarget, Ready
  <2> QED BY <1>5, <1>6, <1>7, <2>1 DEF Ready
<1>14. CASE PublishRecheck(c)
  <2>1. /\ Goto(c, "bind") \/ Goto(c, "remount") \/ Return(c, "up")
        /\ g \in dirs' /\ t \in tdirs'
    BY <1>1, <1>3, <1>4, <1>14 DEF PublishRecheck, Ready
  <2> QED BY <1>5, <1>6, <1>7, <2>1 DEF Ready
<1>15. CASE PublishBind(c)
  <2>1. Goto(c, "remount") \/ Return(c, "up")
    BY <1>1, <1>3, <1>4, <1>15 DEF PublishBind, Ready
  <2> QED BY <1>5, <1>6, <1>7, <2>1 DEF Ready
<1>16. CASE PublishRemount(c)
  <2>1. Return(c, "up")
    BY <1>4, <1>16 DEF PublishRemount
  <2> QED BY <1>5, <1>7, <2>1 DEF Ready
<1> QED BY <1>8, <1>9, <1>10, <1>11, <1>12, <1>13, <1>14, <1>15, <1>16 DEF Publish

LEMMA UnpublishReady ==
  ASSUME Undisturbed, IInv, ReadyInv, NEW c \in Calls, Unpublish(c), ~UnpublishPanic(c)
  PROVE  ReadyInv'
<1> USE DEF clusterVars, nodeVars
<1>1. PICK t : t = call[c].t
  OBVIOUS
<1>2. /\ TypeInv /\ LocksHeld /\ NodeHeld
      /\ call \in [Calls -> CallRecord] /\ kub \in [Targets -> KubeletViews]
  BY IInvParts DEF TypeInv, TypeOK
<1>3. /\ t \in Targets /\ Ready(c)
      /\ \A u \in Targets \ {t} : tmnt'[u] = tmnt[u] /\ kub'[u] = kub[u]
      /\ kub'[t] \in {"leaving", "gone"}
      /\ tmnt[t] # <<>> => t \in tdirs /\ meta[t] # None
  BY <1>1, <1>2, UnpublishShows
     DEF ReadyInv, NodeHeld, SingleMounts, NodeSafe, MetaCoversBound
<1>4. ASSUME NEW view, Return(c, view) PROVE call'[c].pc = "idle"
  BY <1>1, <1>2, <1>4 DEF Return
<1>5. ASSUME NEW pc, Goto(c, pc) PROVE call'[c].pc = pc /\ call'[c].t = t
  BY <1>1, <1>2, <1>5 DEF Goto
<1>6. ASSUME Ready(c)' PROVE ReadyInv'
  <2>1. \A d \in Calls : Ready(d)'
    BY <1>6, OthersReady
  <2>2. \A u \in Targets : NewUnbound(u)'
    BY <1>3 DEF ReadyInv, NewUnbound
  <2> QED BY <2>1, <2>2 DEF ReadyInv
<1>7. CASE UnpublishCheck(c)
  <2>1. (\E view : Return(c, view)) \/ (Goto(c, "loadMeta") /\ tmnt'[t] # <<>>)
    BY <1>1, <1>7 DEF UnpublishCheck
  <2> QED BY <1>4, <1>5, <1>6, <2>1 DEF Ready
<1>8. CASE UnpublishLoadMeta(c)
  <2>1. tmnt[t] # <<>> /\ meta[t] # None /\ ~MayFail("loadMeta")
    BY <1>1, <1>3, <1>8 DEF UnpublishLoadMeta, Ready, Undisturbed, MayFail
  <2>2. call'[c].pc = "umount" /\ call'[c].t = t /\ tmnt' = tmnt
    BY <1>1, <1>2, <1>8, <2>1 DEF UnpublishLoadMeta
  <2> QED BY <1>6, <2>1, <2>2 DEF Ready
<1>9. CASE UnpublishAsLustre(c) \/ UnpublishRemoveLustre(c)
  BY <1>3, <1>9 DEF UnpublishAsLustre, UnpublishRemoveLustre, Ready
<1>10. CASE UnpublishUmount(c)
  <2>1. Goto(c, "rmTarget") \/ Return(c, "leaving")
    BY <1>10 DEF UnpublishUmount
  <2>2. t \in tdirs'
    BY <1>1, <1>3, <1>10 DEF UnpublishUmount, Ready
  <2> QED BY <1>4, <1>5, <1>6, <2>1, <2>2 DEF Ready
<1>11. CASE UnpublishRemoveTarget(c) \/ UnpublishRemoveMeta(c) \/ UnpublishCount(c)
            \/ UnpublishUmountGroup(c) \/ UnpublishRemoveAll(c)
  <2>1. \/ \E view : Return(c, view)
        \/ \E pc \in {"rmMeta", "count", "umountGroup", "removeAll"} : Goto(c, pc)
    BY <1>11 DEF UnpublishRemoveTarget, UnpublishRemoveMeta, UnpublishCount,
       UnpublishUmountGroup, UnpublishRemoveAll
  <2> QED BY <1>4, <1>5, <1>6, <2>1 DEF Ready
<1> QED BY <1>7, <1>8, <1>9, <1>10, <1>11 DEF Unpublish

LEMMA ReadyStep ==
  ASSUME Undisturbed, IInv, UpInv, PathInv, ReadyInv, [Next]_vars
  PROVE  ReadyInv'
<1>1. CASE Environment \/ \E c \in Calls : UnpublishPanic(c)
  <2>1. TypeInv /\ kub \in [Targets -> KubeletViews] /\ ~Timeouts
    BY IInvParts DEF TypeInv, TypeOK, Undisturbed
  <2>2. \A c \in Calls : Ready(c)'
    BY <1>1, <2>1, EnvironmentChanges DEF ReadyInv, Ready
  <2>3. \A t \in Targets : kub'[t] = "new" => kub[t] = "new"
    BY <1>1, <2>1, EnvironmentShows
  <2>4. \A t \in Targets : tmnt'[t] = tmnt[t] \/ tmnt'[t] = <<>>
    BY <1>1, <2>1, EnvironmentChanges
  <2> QED BY <2>2, <2>3, <2>4 DEF ReadyInv, NewUnbound
<1>2. CASE UNCHANGED vars
  BY <1>2 DEF vars, ReadyInv, Ready, NewUnbound
<1> QED BY <1>1, <1>2, PublishReady, UnpublishReady DEF Next


\* The steps of a handler that has mounted a group or left a bind of it, up to
\* the step that settles what becomes of the group.
Holding == {"saveMeta", "checkTarget", "recheck", "bind",
            "rmTarget", "rmMeta", "count", "umountGroup"}

\* A group is mounted for a target that is bound, or for a handler.
Owned(g) ==
  grp[g] # <<>> =>
    \/ \E t \in Targets : tmnt[t] # <<>> /\ PathOf(t) = g
    \/ \E c \in Calls : call[c].pc \in Holding /\ call[c].group = g

\* Handler c leaves a group its owner.
LEMMA OwnedKept ==
  ASSUME NEW g \in Groups, Owned(g), NEW c \in Calls,
         \A d \in Calls \ {c} : call'[d] = call[d],
         \/ call'[c].pc \in Holding /\ call'[c].group = g
         \/ /\ grp'[g] # <<>> => grp[g] # <<>>
            /\ \A t \in Targets : tmnt[t] # <<>> /\ PathOf(t) = g => tmnt'[t] # <<>>
            /\ \/ ~(call[c].pc \in Holding /\ call[c].group = g)
               \/ grp'[g] = <<>>
               \/ \E t \in Targets : tmnt'[t] # <<>> /\ PathOf(t) = g
  PROVE  Owned(g)'
<1>1. \A t : PathOf(t)' = PathOf(t)
  BY DEF PathOf, Pvc
<1>2. CASE call'[c].pc \in Holding /\ call'[c].group = g
  BY <1>2 DEF Owned
<1>3. CASE /\ grp'[g] # <<>> => grp[g] # <<>>
           /\ \A t \in Targets : tmnt[t] # <<>> /\ PathOf(t) = g => tmnt'[t] # <<>>
           /\ \/ ~(call[c].pc \in Holding /\ call[c].group = g)
              \/ grp'[g] = <<>>
              \/ \E t \in Targets : tmnt'[t] # <<>> /\ PathOf(t) = g
  BY <1>1, <1>3 DEF Owned
<1> QED BY <1>2, <1>3

LEMMA PublishOwned ==
  ASSUME Undisturbed, IInv, UpInv, PathInv, ReadyInv, NEW c \in Calls, Publish(c),
         NEW h \in Groups, Owned(h)
  PROVE  Owned(h)'
<1> USE DEF clusterVars, nodeVars
<1>1. PICK t, g : t = call[c].t /\ g = call[c].group
  OBVIOUS
<1>2. /\ TypeInv /\ LocksHeld /\ NodeHeld
      /\ call \in [Calls -> CallRecord] /\ kub \in [Targets -> KubeletViews]
      /\ grp \in [Groups -> Seq(Sources)]
  BY IInvParts DEF TypeInv, TypeOK
<1>3. /\ t \in Targets /\ Ready(c) /\ Sees(c)
      /\ \A u \in Targets : tmnt[u] # <<>> => tmnt'[u] # <<>>
      /\ \A d \in Calls \ {c} : call'[d] = call[d]
      /\ call[c].pc \in WithGroup => g = PathOf(t)
  BY <1>1, <1>2, PublishShows, PublishEffect
     DEF ReadyInv, NodeHeld, Moves, Ends, PathInv, HandlerHas
<1>4. \A op : op \in {"api", "mkdir", "mount", "chmod", "saveMeta", "recheck", "bind", "remount"}
           => ~MayFail(op)
  BY DEF Undisturbed, MayFail
<1>5. ASSUME NEW pc, Goto(c, pc)
      PROVE  call'[c].pc = pc /\ call'[c].group = g
  BY <1>1, <1>2, <1>5 DEF Goto
<1>6. CASE PublishOptions(c) \/ PublishServer(c) \/ PublishCheckGroup(c) \/ PublishRemount(c)
  <2>1. grp' = grp /\ call[c].pc \notin Holding
    BY <1>6 DEF PublishOptions, PublishServer, PublishCheckGroup, PublishRemount, Holding
  <2> QED BY <1>3, <2>1, OwnedKept
<1>7. CASE PublishMountGroup(c)
  <2>1. ~CannotMount(c)
    BY <1>3, <1>7 DEF PublishMountGroup, Ready, Sees, CannotMount
  <2>2. Goto(c, "saveMeta")
    BY <1>4, <1>7, <2>1 DEF PublishMountGroup
  <2>3. h # g => grp'[h] = grp[h]
    BY <1>1, <1>2, <1>4, <1>7, <2>1 DEF PublishMountGroup
  <2>4. call[c].pc \notin Holding /\ "saveMeta" \in Holding
    BY <1>7 DEF PublishMountGroup, Holding
  <2>5. CASE h = g
    BY <1>3, <1>5, <2>2, <2>4, <2>5, OwnedKept
  <2>6. CASE h # g
    BY <1>3, <2>3, <2>4, <2>6, OwnedKept
  <2> QED BY <2>5, <2>6
<1>8. CASE PublishSaveMeta(c) \/ PublishCheckTarget(c) \/ PublishRecheck(c) \/ PublishBind(c)
  <2>1. grp' = grp
    BY <1>8 DEF PublishSaveMeta, PublishCheckTarget, PublishRecheck, PublishBind
  <2>2. g = PathOf(t)
    BY <1>3, <1>8 DEF PublishSaveMeta, PublishCheckTarget, PublishRecheck, PublishBind, WithGroup
  <2>3. \/ \E pc \in Holding : Goto(c, pc)
        \/ tmnt'[t] # <<>>
    <3>1. CASE PublishSaveMeta(c)
      BY <1>4, <3>1 DEF PublishSaveMeta, Holding
    <3>2. CASE PublishCheckTarget(c)
      BY <1>1, <1>4, <3>2 DEF PublishCheckTarget, Holding
    <3>3. CASE PublishRecheck(c)
      BY <1>1, <1>3, <1>4, <3>3 DEF PublishRecheck, Holding, Ready
    <3>4. CASE PublishBind(c)
      <4>1. tmnt' = [tmnt EXCEPT ![t] = Push(@, Shown(g))]
        BY <1>1, <1>3, <1>4, <3>4 DEF PublishBind, Ready
      <4>2. tmnt[t] = <<>> /\ tmnt \in [Targets -> Seq(Bind)]
        BY <1>1, <1>2, <1>3, <3>4 DEF PublishBind, Sees, TypeInv, TypeOK
      <4>3. tmnt'[t] = <<Shown(g)>> \o <<>>
        BY <1>3, <4>1, <4>2 DEF Push
      <4> QED BY <4>3
    <3> QED BY <1>8, <3>1, <3>2, <3>3, <3>4
  <2>4. CASE h = g
    BY <1>3, <1>5, <2>1, <2>2, <2>3, <2>4, OwnedKept
  <2>5. CASE h # g
    BY <1>1, <1>3, <2>1, <2>5, OwnedKept
  <2> QED BY <2>4, <2>5
<1> QED BY <1>6, <1>7, <1>8 DEF Publish

\* The count of an unpublish sees only mounts of its own group: the claim is in
\* the source and the options are in the options column.
LEMMA CountFindsOwner ==
  ASSUME Undisturbed, IInv, ClaimInv, PathInv, NEW c \in Calls, call[c].pc = "count",
         BindMounts(call[c].group, call[c].source) # {}
  PROVE  \E u \in Targets : tmnt[u] # <<>> /\ PathOf(u) = call[c].group
<1> DEFINE t == call[c].t
           g == call[c].group
           s == call[c].source
<1>1. TypeInv /\ NodeHeld
  BY IInvParts
<1>2. /\ t \in Targets /\ g \in Groups /\ s \in Sources
      /\ g = PathOf(t) /\ s[2] = VolumeOf[t]
  BY <1>1 DEF TypeInv, CallShape, Active, WithGroup, WithSource, ClaimInv, CallOwn, PathInv, HandlerHas
<1>3. /\ g[1] = PvcOf[s[2]] /\ s # Local /\ g \in PVCs \X Options
      /\ FirstAnn \in [Targets -> Annotations]
  BY <1>2, ConstantsAssumption DEF PathOf, Pvc, Groups
<1>4. ASSUME NEW u \in Targets, NEW i \in DOMAIN tmnt[u], tmnt[u][i].src = s,
             MountText[tmnt[u][i].from[2]] = MountText[g[2]]
      PROVE  tmnt[u] # <<>> /\ PathOf(u) = g
  <2>1. tmnt[u] \in Seq(BindsOf(Pvc(u))) /\ Len(tmnt[u]) <= 1
    BY <1>1 DEF ClaimInv, BindOwn, NodeHeld, SingleMounts
  <2>2. i = 1 /\ tmnt[u] # <<>> /\ Head(tmnt[u]) = tmnt[u][i] /\ tmnt[u][i] \in BindsOf(Pvc(u))
    BY <2>1
  <2>3. Pvc(u) = g[1]
    BY <1>3, <1>4, <2>2 DEF BindsOf, SourcesOf
  <2>4. tmnt[u][i].from = PathOf(u)
    BY <2>2 DEF PathInv, BindFrom
  <2>5. FirstAnn[u].options \in Options /\ g[2] \in Options
    BY <1>3 DEF Annotations
  <2>6. FirstAnn[u].options = g[2]
    BY <1>4, <2>4, <2>5 DEF Undisturbed, PathOf
  <2> QED BY <1>3, <2>2, <2>3, <2>6 DEF PathOf
<1>5. ASSUME NEW h \in Groups \ {g}, StagingMount(h, s), MountText[h[2]] = MountText[g[2]]
      PROVE  FALSE
  <2>1. PICK i \in DOMAIN grp[h] : grp[h][i] = s
    BY <1>5 DEF StagingMount
  <2>2. grp[h] \in Seq(SourcesOf(h[1]))
    BY DEF ClaimInv, GroupOwn
  <2>3. h[1] = g[1]
    BY <1>3, <2>1, <2>2 DEF SourcesOf
  <2>4. h[2] = g[2]
    BY <1>3, <1>5 DEF Undisturbed, Groups
  <2> QED BY <1>3, <1>5, <2>3, <2>4 DEF Groups
<1> QED BY <1>4, <1>5 DEF BindMounts

LEMMA UnpublishOwned ==
  ASSUME Undisturbed, IInv, ClaimInv, PathInv, ReadyInv, NEW c \in Calls, Unpublish(c),
         ~UnpublishPanic(c), NEW h \in Groups, Owned(h)
  PROVE  Owned(h)'
<1> USE DEF clusterVars, nodeVars
<1>1. PICK t, g : t = call[c].t /\ g = call[c].group
  OBVIOUS
<1>2. /\ TypeInv /\ LocksHeld /\ NodeHeld
      /\ call \in [Calls -> CallRecord] /\ grp \in [Groups -> Seq(Sources)]
      /\ tmnt \in [Targets -> Seq(Bind)]
  BY IInvParts DEF TypeInv, TypeOK
<1>3. /\ t \in Targets /\ Ready(c) /\ Sees(c)
      /\ \A u \in Targets \ {t} : tmnt'[u] = tmnt[u]
      /\ \A d \in Calls \ {c} : call'[d] = call[d]
      /\ call[c].pc \in WithGroup => g = PathOf(t) /\ g \in Groups
  BY <1>1, <1>2, UnpublishShows, HandlerLearns
     DEF ReadyInv, NodeHeld, PathInv, HandlerHas, TypeInv, CallShape
<1>4. ~MayFail("rmTarget") /\ ~MayFail("scan") /\ ~MayFail("umountGroup")
  BY DEF Undisturbed, MayFail
<1>5. ASSUME NEW pc, Goto(c, pc)
      PROVE  call'[c].pc = pc /\ call'[c].group = g
  BY <1>1, <1>2, <1>5 DEF Goto
<1>6. CASE UnpublishCheck(c) \/ UnpublishLoadMeta(c) \/ UnpublishRemoveAll(c)
  <2>1. grp' = grp /\ tmnt' = tmnt /\ call[c].pc \notin Holding
    BY <1>6 DEF UnpublishCheck, UnpublishLoadMeta, UnpublishRemoveAll, Holding
  <2> QED BY <1>3, <2>1, OwnedKept
<1>7. CASE UnpublishAsLustre(c) \/ UnpublishRemoveLustre(c)
  BY <1>3, <1>7 DEF UnpublishAsLustre, UnpublishRemoveLustre, Ready
<1>8. CASE UnpublishUmount(c)
  <2>1. grp' = grp /\ call[c].pc \notin Holding /\ "rmTarget" \in Holding /\ g = PathOf(t)
    BY <1>3, <1>8 DEF UnpublishUmount, Holding, WithGroup
  <2>2. Goto(c, "rmTarget") \/ tmnt' = tmnt
    BY <1>8 DEF UnpublishUmount
  <2>3. CASE h = g
    BY <1>3, <1>5, <2>1, <2>2, <2>3, OwnedKept
  <2>4. CASE h # g
    BY <1>3, <2>1, <2>4, OwnedKept
  <2> QED BY <2>3, <2>4
<1>9. CASE UnpublishRemoveTarget(c) \/ UnpublishRemoveMeta(c) \/ UnpublishCount(c)
  <2>1. grp' = grp /\ tmnt' = tmnt
    BY <1>9 DEF UnpublishRemoveTarget, UnpublishRemoveMeta, UnpublishCount
  <2>2. \/ \E pc \in Holding : Goto(c, pc)
        \/ \E u \in Targets : tmnt'[u] # <<>> /\ PathOf(u) = g
    <3>1. CASE UnpublishRemoveTarget(c)
      BY <1>3, <1>4, <3>1 DEF UnpublishRemoveTarget, Holding, Ready, Sees
    <3>2. CASE UnpublishRemoveMeta(c)
      BY <3>2 DEF UnpublishRemoveMeta, Holding
    <3>3. CASE UnpublishCount(c)
      <4>1. CASE BindMounts(g, call[c].source) = {}
        BY <1>1, <1>4, <3>3, <4>1 DEF UnpublishCount, Holding
      <4>2. CASE BindMounts(g, call[c].source) # {}
        BY <1>1, <2>1, <3>3, <4>2, CountFindsOwner DEF UnpublishCount
      <4> QED BY <4>1, <4>2
    <3> QED BY <1>9, <3>1, <3>2, <3>3
  <2>3. CASE h = g
    BY <1>3, <1>5, <2>1, <2>2, <2>3, OwnedKept
  <2>4. CASE h # g
    BY <1>1, <1>3, <2>1, <2>4, OwnedKept
  <2> QED BY <2>3, <2>4
<1>10. CASE UnpublishUmountGroup(c)
  <2>1. tmnt' = tmnt /\ g \in Groups /\ grp' = [grp EXCEPT ![g] = Pop(grp[g])]
    BY <1>1, <1>3, <1>4, <1>10 DEF UnpublishUmountGroup, WithGroup
  <2>2. Pop(grp[g]) = <<>>
    BY <1>2, <2>1, PopTypes DEF NodeHeld, SingleMounts
  <2>3. grp'[g] = <<>> /\ (h # g => grp'[h] = grp[h])
    BY <1>2, <2>1, <2>2
  <2>4. CASE h = g
    BY <1>3, <2>1, <2>3, <2>4, OwnedKept
  <2>5. CASE h # g
    BY <1>1, <1>3, <2>1, <2>3, <2>5, OwnedKept
  <2> QED BY <2>4, <2>5
<1> QED BY <1>6, <1>7, <1>8, <1>9, <1>10 DEF Unpublish

OwnedInv == \A g \in Groups : Owned(g)

LEMMA OwnedStep ==
  ASSUME Undisturbed, IInv, UpInv, ClaimInv, PathInv, ReadyInv, OwnedInv, [Next]_vars
  PROVE  OwnedInv'
<1>1. \A t : PathOf(t)' = PathOf(t)
  BY DEF PathOf, Pvc
<1>2. CASE Environment \/ \E c \in Calls : UnpublishPanic(c)
  <2>1. TypeInv
    BY IInvParts
  <2>2. ASSUME NEW g \in Groups PROVE Owned(g)'
    <3>1. Owned(g)
      BY DEF OwnedInv
    <3>2. CASE grp'[g] = <<>>
      BY <3>2 DEF Owned
    <3>3. CASE grp'[g] # <<>>
      <4>1. /\ grp' = grp /\ tmnt' = tmnt
            /\ \A c \in Calls : call[c].pc \in Holding =>
                 call'[c].pc = call[c].pc /\ call'[c].group = call[c].group
        BY <1>2, <2>1, <3>3, EnvironmentChanges DEF Holding
      <4> QED BY <1>1, <3>1, <4>1 DEF Owned
    <3> QED BY <3>2, <3>3
  <2> QED BY <2>2 DEF OwnedInv
<1>3. CASE UNCHANGED vars
  BY <1>1, <1>3 DEF vars, OwnedInv, Owned
<1> QED BY <1>2, <1>3, PublishOwned, UnpublishOwned DEF Next, OwnedInv


\* The pods of a volume that share a group name one server.
SameServer ==
  \A t, u \in Targets :
    VolumeOf[t] = VolumeOf[u] /\ FirstAnn[t].options = FirstAnn[u].options
      => ServerOf(t) = ServerOf(u)

\* A group shows the volume its claim is bound to, mounted for one of the
\* volume's own pods; and a bind the volume of its own target.
GroupShows(g) ==
  grp[g] # <<>> =>
    \E t \in Targets : /\ PathOf(t) = g /\ Head(grp[g]) = SourceOf(t)
                       /\ claim[Pvc(t)] = VolumeOf[t]
BindShows(t) ==
  tmnt[t] # <<>> =>
    /\ Head(tmnt[t]).src[2] = VolumeOf[t]
    /\ SameServer => Head(tmnt[t]).src = SourceOf(t)

ShowInv == (\A g \in Groups : GroupShows(g)) /\ (\A t \in Targets : BindShows(t))

LEMMA HandlerShows ==
  ASSUME IInv, PathInv, ShowInv, NEW c \in Calls, Publish(c) \/ Unpublish(c), ~UnpublishPanic(c)
  PROVE  ShowInv'
<1>1. PICK t, g : t = call[c].t /\ g = call[c].group
  OBVIOUS
<1>2. /\ TypeInv /\ LocksHeld /\ NodeHeld
      /\ tmnt \in [Targets -> Seq(Bind)] /\ grp \in [Groups -> Seq(Sources)]
  BY IInvParts DEF TypeInv, TypeOK
<1>3. /\ t \in Targets /\ claim' = claim
      /\ call[c].pc \in WithGroup => g \in Groups /\ g = PathOf(t)
      /\ call[c].pc \in WithSource => call[c].source = SourceOf(t)
  BY <1>1, <1>2, HandlerLearns, HandlerChanges DEF TypeInv, CallShape, PathInv, HandlerHas
<1>4. call[c].pc \in PublishPC => claim[Pvc(t)] = VolumeOf[t]
  BY <1>1, <1>2, <1>3 DEF LocksHeld, KubeletKnows, ClaimInUse
<1>5. \A u : /\ PathOf(u)' = PathOf(u) /\ SourceOf(u)' = SourceOf(u) /\ Pvc(u)' = Pvc(u)
             /\ SameServer' = SameServer
  BY DEF PathOf, SourceOf, ServerOf, Pvc, SameServer
<1>6. ASSUME NEW h \in Groups PROVE GroupShows(h)'
  <2>1. \/ grp'[h] = grp[h] \/ grp'[h] = Pop(grp[h])
        \/ h = g /\ call[c].pc = "mountGroup" /\ grp'[h] = Push(grp[h], call[c].source)
    BY <1>1, <1>2, HandlerChanges
  <2>2. Pop(grp[h]) = <<>> /\ GroupShows(h)
    BY <1>2, PopTypes DEF NodeHeld, SingleMounts, ShowInv
  <2>3. CASE h = g /\ call[c].pc = "mountGroup" /\ grp'[h] = Push(grp[h], call[c].source)
    <3>1. "mountGroup" \in WithGroup /\ "mountGroup" \in WithSource
      BY DEF WithGroup, WithSource
    <3>2. Head(<<call[c].source>> \o grp[h]) = call[c].source
      BY <1>2
    <3>3. Head(grp'[h]) = SourceOf(t) /\ PathOf(t) = h
      BY <1>3, <2>3, <3>1, <3>2 DEF Push
    <3> QED BY <1>3, <1>4, <1>5, <2>3, <3>3 DEF GroupShows
  <2> QED BY <1>3, <1>5, <2>1, <2>2, <2>3 DEF GroupShows
<1>7. ASSUME NEW u \in Targets PROVE BindShows(u)'
  <2>1. \/ tmnt'[u] = tmnt[u] \/ tmnt'[u] = Pop(tmnt[u])
        \/ u = t /\ call[c].pc = "bind" /\ tmnt'[u] = Push(tmnt[u], Shown(g))
    BY <1>1, <1>2, HandlerChanges
  <2>2. Pop(tmnt[u]) = <<>> /\ BindShows(u)
    BY <1>2, PopTypes DEF NodeHeld, SingleMounts, ShowInv
  <2>3. CASE u = t /\ call[c].pc = "bind" /\ tmnt'[u] = Push(tmnt[u], Shown(g))
    <3>1. g \in Groups /\ g = PathOf(t) /\ claim[Pvc(t)] = VolumeOf[t]
      BY <1>3, <1>4, <2>3 DEF WithGroup
    <3>2. grp[g] # <<>>
      BY <1>1, <1>2, <2>3 DEF NodeHeld, Sees
    <3>3. PICK w \in Targets : /\ PathOf(w) = g /\ Head(grp[g]) = SourceOf(w)
                               /\ claim[Pvc(w)] = VolumeOf[w]
      BY <3>1, <3>2 DEF ShowInv, GroupShows
    <3>4. VolumeOf[w] = VolumeOf[t] /\ FirstAnn[w].options = FirstAnn[t].options
      BY <3>1, <3>3 DEF PathOf
    <3>5. SameServer => ServerOf(w) = ServerOf(t)
      BY <1>3, <3>4 DEF SameServer
    <3>6. Head(<<Shown(g)>> \o tmnt[u]) = Shown(g)
      BY <1>2
    <3>7. Head(tmnt'[u]).src = SourceOf(w)
      BY <2>3, <3>2, <3>3, <3>6 DEF Push, Shown
    <3> QED BY <1>5, <2>3, <3>4, <3>5, <3>7 DEF BindShows, SourceOf
  <2> QED BY <1>5, <2>1, <2>2, <2>3 DEF BindShows
<1> QED BY <1>6, <1>7 DEF ShowInv

\* A claim is created anew only after every mount of its groups is gone.
LEMMA RecreatedIsVacant ==
  ASSUME IInv, PathInv, ReadyInv, OwnedInv, NEW p \in PVCs, NEW v \in Volumes, RecreateClaim(p, v),
         NEW g \in Groups, g[1] = p
  PROVE  grp[g] = <<>>
<1>1. ASSUME NEW u \in Targets, PathOf(u) = g, kub[u] \notin {"new", "gone"}
      PROVE  FALSE
  <2>1. Pvc(u) = p
    BY <1>1 DEF PathOf
  <2>2. claim[p] = VolumeOf[u]
    BY <1>1, <2>1 DEF IInv, ClaimInUse
  <2> QED BY <1>1, <2>2 DEF RecreateClaim
<1>2. \A u \in Targets : tmnt[u] # <<>> => kub[u] \notin {"new", "gone"}
  BY DEF IInv, NodeSafe, GoneIsUnmounted, ReadyInv, NewUnbound
<1>3. \A c \in Calls : call[c].pc \in Holding =>
        /\ call[c].t \in Targets /\ call[c].group = PathOf(call[c].t)
        /\ kub[call[c].t] \notin {"new", "gone"}
  BY DEF Holding, IInv, KubeletKnows, CallShape, Active, PathInv, HandlerHas, WithGroup
<1> QED BY <1>1, <1>2, <1>3 DEF OwnedInv, Owned

\* And never, if no two volumes belong to one claim.
LEMMA OwnIsNotRecreated ==
  ASSUME OwnVolumes, ShowInv, NEW p \in PVCs, NEW v \in Volumes, RecreateClaim(p, v),
         NEW g \in Groups, g[1] = p
  PROVE  grp[g] = <<>>
<1> SUFFICES ASSUME grp[g] # <<>> PROVE FALSE
  OBVIOUS
<1>1. PICK t \in Targets : PathOf(t) = g /\ claim[Pvc(t)] = VolumeOf[t]
  BY DEF ShowInv, GroupShows
<1>2. Pvc(t) = p /\ claim[p] = VolumeOf[t]
  BY <1>1 DEF PathOf
<1>3. VolumeOf[t] \in Volumes /\ PvcOf[VolumeOf[t]] = p
  BY <1>2, ConstantsAssumption DEF Pvc
<1> QED BY <1>2, <1>3 DEF OwnVolumes, RecreateClaim

\* One of the two reasons why the binds of a group show one volume.
OneVolume == OwnVolumes \/ (ReadyInv /\ OwnedInv)

LEMMA ShowStep ==
  ASSUME OneVolume, IInv, PathInv, ShowInv, [Next]_vars
  PROVE  ShowInv'
<1>1. \A u : /\ PathOf(u)' = PathOf(u) /\ SourceOf(u)' = SourceOf(u) /\ Pvc(u)' = Pvc(u)
             /\ SameServer' = SameServer
  BY DEF PathOf, SourceOf, ServerOf, Pvc, SameServer
<1>2. CASE Environment \/ \E c \in Calls : UnpublishPanic(c)
  <2>1. TypeInv
    BY IInvParts
  <2>2. \A t \in Targets : BindShows(t)'
    BY <1>1, <1>2, <2>1, EnvironmentChanges DEF ShowInv, BindShows
  <2>3. ASSUME NEW g \in Groups PROVE GroupShows(g)'
    <3>1. grp'[g] = grp[g] \/ grp'[g] = <<>>
      BY <1>2, <2>1, EnvironmentChanges
    <3>2. GroupShows(g)
      BY DEF ShowInv
    <3>3. CASE claim' = claim
      BY <1>1, <3>1, <3>2, <3>3 DEF GroupShows
    <3>4. ASSUME NEW p \in PVCs, NEW v \in Volumes, RecreateClaim(p, v)
          PROVE  GroupShows(g)'
      <4>1. CASE g[1] = p
        <5>1. grp'[g] = <<>>
          BY <3>1, <3>4, <4>1, RecreatedIsVacant, OwnIsNotRecreated DEF OneVolume
        <5> QED BY <5>1 DEF GroupShows
      <4>2. CASE g[1] # p
        <5>1. \A t \in Targets : PathOf(t) = g => Pvc(t) # p
          BY <4>2 DEF PathOf
        <5>2. \A q \in PVCs : q # p => claim'[q] = claim[q]
          BY <2>1, <3>4 DEF RecreateClaim, TypeInv, TypeOK
        <5>3. \A t \in Targets : Pvc(t) \in PVCs
          BY ConstantsAssumption DEF Pvc
        <5> QED BY <1>1, <3>1, <3>2, <5>1, <5>2, <5>3 DEF GroupShows
      <4> QED BY <4>1, <4>2
    <3> QED BY <1>2, <2>1, <3>3, <3>4, EnvironmentChanges
  <2> QED BY <2>2, <2>3 DEF ShowInv
<1>3. CASE UNCHANGED vars
  BY <1>1, <1>3 DEF vars, ShowInv, GroupShows, BindShows
<1> QED BY <1>2, <1>3, HandlerShows DEF Next

\* When an unpublish goes on to unmount a group, no target is bound to it.
Vacant(c) ==
  call[c].pc = "umountGroup" =>
    \A t \in Targets : tmnt[t] # <<>> => PathOf(t) # call[c].group
VacantInv == \A c \in Calls : Vacant(c)

\* A bound target of the group shows the source the handler counts.
LEMMA CountFindsBinds ==
  ASSUME SameServer, OneVolume, IInv, PathInv, ShowInv, NEW c \in Calls, call[c].pc = "count",
         BindMounts(call[c].group, call[c].source) = {},
         NEW u \in Targets, tmnt[u] # <<>>
  PROVE  PathOf(u) # call[c].group
<1> DEFINE t == call[c].t
           g == call[c].group
<1>1. TypeInv /\ NodeHeld /\ LocksHeld
  BY IInvParts
<1>2. /\ t \in Targets /\ g = PathOf(t) /\ call[c].source = SourceOf(t) /\ kub[t] = "leaving"
  BY <1>1 DEF TypeInv, CallShape, Active, WithGroup, WithSource, PathInv, HandlerHas, LocksHeld, KubeletKnows
<1>3. SUFFICES ASSUME PathOf(u) = g PROVE FALSE
  OBVIOUS
<1>4. Pvc(u) = Pvc(t) /\ FirstAnn[u].options = FirstAnn[t].options
  BY <1>2, <1>3 DEF PathOf
<1>5. VolumeOf[u] = VolumeOf[t]
  <2>1. CASE OwnVolumes
    BY <1>2, <1>4, <2>1, ConstantsAssumption DEF OwnVolumes, Pvc
  <2>2. CASE ReadyInv
    <3>1. kub[u] \notin {"new", "gone"}
      BY <1>1, <2>2 DEF NodeHeld, NodeSafe, GoneIsUnmounted, ReadyInv, NewUnbound
    <3>2. claim[Pvc(u)] = VolumeOf[u] /\ claim[Pvc(t)] = VolumeOf[t]
      BY <1>1, <1>2, <3>1 DEF LocksHeld, ClaimInUse
    <3> QED BY <1>4, <3>2
  <2> QED BY <2>1, <2>2 DEF OneVolume
<1>6. VolumeOf[u] = VolumeOf[t] /\ FirstAnn[u].options = FirstAnn[t].options
  BY <1>4, <1>5
<1>7. Head(tmnt[u]).src = call[c].source
  BY <1>2, <1>6 DEF SameServer, ShowInv, BindShows, SourceOf
<1>8. Head(tmnt[u]).from = g
  BY <1>3 DEF PathInv, BindFrom
<1>9. tmnt[u] \in Seq(Bind)
  BY <1>1 DEF TypeInv, TypeOK
<1>10. 1 \in DOMAIN tmnt[u] /\ tmnt[u][1] = Head(tmnt[u])
  BY <1>9
<1>11. u \in BindMounts(g, call[c].source)
  BY <1>7, <1>8, <1>10 DEF BindMounts
<1> QED BY <1>11

LEMMA VacantStep ==
  ASSUME SameServer, OneVolume, IInv, PathInv, ShowInv, VacantInv, [Next]_vars
  PROVE  VacantInv'
<1>1. \A t : PathOf(t)' = PathOf(t)
  BY DEF PathOf, Pvc
<1>2. TypeInv /\ LocksHeld /\ NodeHeld
  BY IInvParts
<1>3. ASSUME NEW c \in Calls, Publish(c) \/ Unpublish(c), ~UnpublishPanic(c), NEW d \in Calls, d # c
      PROVE  Vacant(d)'
  <2>1. call'[d] = call[d]
    BY <1>2, <1>3, HandlerLearns
  <2>2. ASSUME call[d].pc = "umountGroup", NEW u \in Targets, tmnt'[u] # <<>>
        PROVE  PathOf(u) # call[d].group
    <3>1. CASE tmnt[u] # <<>>
      BY <2>2, <3>1 DEF VacantInv, Vacant
    <3>2. CASE tmnt[u] = <<>>
      <4>1. u = call[c].t /\ call[c].pc = "bind"
        BY <1>2, <1>3, <2>2, <3>2, HandlerChanges DEF Pop
      <4>2. call[c].group = PathOf(u)
        BY <4>1 DEF PathInv, HandlerHas, WithGroup
      <4>3. call[c].group # call[d].group
        BY <1>2, <1>3, <2>2, <4>1, Apart DEF Active, WithGroup, NodeHeld
      <4> QED BY <4>2, <4>3
    <3> QED BY <3>1, <3>2
  <2> QED BY <1>1, <2>1, <2>2 DEF Vacant
<1>4. ASSUME NEW c \in Calls, Publish(c) PROVE Vacant(c)'
  <2>1. call'[c].pc # "umountGroup"
    BY <1>2, <1>4, PublishEffect DEF Moves, Ends
  <2> QED BY <2>1 DEF Vacant
<1>5. ASSUME NEW c \in Calls, Unpublish(c), ~UnpublishPanic(c) PROVE Vacant(c)'
  <2>1. CASE UnpublishCount(c)
    <3>1. CASE call'[c].pc = "umountGroup"
      <4>1. /\ call[c].pc = "count" /\ BindMounts(call[c].group, call[c].source) = {}
            /\ call'[c].group = call[c].group /\ tmnt' = tmnt
        BY <1>2, <2>1, <3>1 DEF UnpublishCount, Goto, Return, TypeInv, TypeOK, nodeVars
      <4> QED BY <1>1, <4>1, CountFindsBinds DEF Vacant
    <3>2. CASE call'[c].pc # "umountGroup"
      BY <3>2 DEF Vacant
    <3> QED BY <3>1, <3>2
  <2>2. CASE ~UnpublishCount(c)
    <3>1. call \in [Calls -> CallRecord]
      BY <1>2 DEF TypeInv, TypeOK
    <3>2. call'[c].pc # "umountGroup"
      BY <1>5, <2>2, <3>1 DEF Unpublish, UnpublishCheck, UnpublishLoadMeta, UnpublishAsLustre,
         UnpublishRemoveLustre, UnpublishUmount, UnpublishRemoveTarget, UnpublishRemoveMeta, UnpublishUmountGroup,
         UnpublishRemoveAll, Goto, Return
    <3> QED BY <3>2 DEF Vacant
  <2> QED BY <2>1, <2>2
<1>6. CASE Environment \/ \E c \in Calls : UnpublishPanic(c)
  BY <1>1, <1>2, <1>6, EnvironmentChanges DEF VacantInv, Vacant
<1>7. CASE UNCHANGED vars
  BY <1>1, <1>7 DEF vars, VacantInv, Vacant
<1>8. ASSUME NEW c \in Calls, Publish(c) \/ Unpublish(c), ~UnpublishPanic(c) PROVE VacantInv'
  BY <1>3, <1>4, <1>5, <1>8 DEF VacantInv
<1>9. \A c \in Calls : Publish(c) => ~UnpublishPanic(c)
  BY <1>2, PublishEffect DEF Moves, Ends, UnpublishPanic
<1> QED BY <1>6, <1>7, <1>8, <1>9 DEF Next


-----------------------------------------------------------------------------
(***************************************************************************)
(* What follows of the undisturbed node.                                   *)
(***************************************************************************)
GroupInv == /\ IInv /\ UpInv /\ ClaimInv /\ PathInv /\ ReadyInv /\ OwnedInv /\ ShowInv
            /\ SameServer => VacantInv

LEMMA InitGroup == Init => GroupInv
<1> SUFFICES ASSUME Init PROVE GroupInv
  OBVIOUS
<1>1. IInv /\ ClaimInv
  BY InitIInv, InitOwn
<1>2. UpInv /\ PathInv
  BY DEF Init, UpInv, PathInv, HandlerHas, MetaHas, BindFrom, WithGroup, WithSource
<1>3. ReadyInv /\ OwnedInv
  BY DEF Init, ReadyInv, Ready, NewUnbound, OwnedInv, Owned
<1>4. ShowInv /\ VacantInv
  BY DEF Init, ShowInv, GroupShows, BindShows, VacantInv, Vacant
<1> QED BY <1>1, <1>2, <1>3, <1>4 DEF GroupInv

LEMMA GroupStep ==
  ASSUME Undisturbed, GroupInv, [Next]_vars
  PROVE  GroupInv'
<1>1. ~Timeouts /\ Edits = {} /\ TypeInv
  BY IInvParts DEF Undisturbed, GroupInv
<1>2. SameServer' = SameServer
  BY DEF SameServer, ServerOf
<1>3. IInv' /\ UpInv' /\ ClaimInv'
  BY <1>1, IInvStep, UpStep, ClaimStep DEF GroupInv
<1>4. PathInv' /\ ReadyInv' /\ OwnedInv' /\ ShowInv'
  BY <1>1, PathStep, ReadyStep, OwnedStep, ShowStep DEF GroupInv, OneVolume
<1>5. SameServer => VacantInv'
  BY VacantStep DEF GroupInv, OneVolume
<1> QED BY <1>2, <1>3, <1>4, <1>5 DEF GroupInv

LEMMA GroupInvariance == ASSUME Undisturbed PROVE Spec => []GroupInv
<1>1. GroupInv /\ [Next]_vars => GroupInv'
  BY GroupStep
<1> QED BY <1>1, InitGroup, PTL DEF Spec

\* The counting of bind mounts releases what publish acquired: an undisturbed
\* node has no NFS mount left of a claim whose targets are all unpublished,
\* whatever unpublishes ran at once and whatever restarted
\* (nodeserver.go:678-690).
THEOREM GroupReleasedHolds == ASSUME Undisturbed PROVE Spec => []GroupReleased
<1>1. ASSUME GroupInv, NEW p \in PVCs, NEW o \in Options, \A c \in Calls : call[c] = Idle,
             \A t \in Targets : Pvc(t) = p => kub[t] \in {"new", "gone"}
      PROVE  grp[<<p, o>>] = <<>>
  <2>1. \A t \in Targets : PathOf(t) = <<p, o>> => Pvc(t) = p
    BY DEF PathOf
  <2>2. \A t \in Targets : kub[t] \in {"new", "gone"} => tmnt[t] = <<>>
    BY <1>1 DEF GroupInv, ReadyInv, NewUnbound, IInv, NodeSafe, GoneIsUnmounted
  <2>3. \A c \in Calls : call[c].pc \notin Holding
    <3>1. Idle.pc = "idle" /\ "idle" \notin Holding
      BY DEF Holding
    <3>2. \A c \in Calls : call[c].pc = Idle.pc
      BY <1>1, Zenon
    <3> QED BY <3>1, <3>2
  <2> QED BY <1>1, <2>1, <2>2, <2>3 DEF GroupInv, OwnedInv, Owned, Groups
<1>2. GroupInv => GroupReleased
  BY <1>1 DEF GroupReleased
<1> QED BY <1>2, GroupInvariance, PTL

LEMMA UndisturbedShows == GroupInv => ShowsOwn
<1> SUFFICES ASSUME GroupInv, NEW t \in Targets, tmnt[t] # <<>>
             PROVE  Head(tmnt[t]).src \in Servers \X {VolumeOf[t]}
  BY DEF ShowsOwn
<1>1. tmnt[t] \in Seq(Bind)
  BY IInvParts DEF GroupInv, TypeInv, TypeOK
<1>2. Head(tmnt[t]) = tmnt[t][1] /\ 1 \in DOMAIN tmnt[t] /\ Head(tmnt[t]) \in Bind
  BY <1>1
<1>3. Head(tmnt[t]).src \in Sources
  BY <1>2 DEF GroupInv, IInv, NodeSafe, NeverLocalDir, Bind
<1> QED BY <1>3 DEF GroupInv, ShowInv, BindShows, Sources

\* On such a node the claim may even be recreated: the pods of the new volume
\* are not shown the old one (nodeserver.go:215-224, 538-585).
THEOREM RecreatedShowsVolume == ASSUME Undisturbed PROVE Spec => []PublishedShowsVolume
<1>1. GroupInv => PublishedShowsVolume
  BY UndisturbedShows DEF GroupInv, UpInv, ShowsOwn, PublishedShowsVolume
<1> QED BY <1>1, GroupInvariance, PTL

\* And the whole contract is kept across the volumes of a claim
\* (nodeserver.go:500-704).
THEOREM RecreatedKeepsContract == ASSUME Undisturbed PROVE Spec => KeepsNodeContract
<1>1. GroupInv /\ ShowsOwn /\ ShowsOwn' /\ [Next]_vars => [Contract!Next]_(Contract!vars)
  BY StepKeepsContract DEF GroupInv, Undisturbed
<1> QED BY <1>1, UndisturbedShows, GroupInvariance, InitKeepsContract, PTL
        DEF Spec, KeepsNodeContract, Contract!Spec

-----------------------------------------------------------------------------
(***************************************************************************)
(* The group of a pod that stays.  Steps may fail if no claim name is used *)
(* again: leftover mounts and binds then show the group's one source.      *)
(***************************************************************************)
HeldInv == IInv /\ UpInv /\ PathInv /\ ShowInv /\ VacantInv

LEMMA HeldInvariance ==
  ASSUME ~Timeouts, Edits = {}, OwnVolumes, SameServer PROVE Spec => []HeldInv
<1>1. Init => HeldInv
  BY InitGroup DEF GroupInv, HeldInv
<1>2. ASSUME HeldInv, [Next]_vars PROVE HeldInv'
  <2>1. TypeInv /\ OneVolume
    BY <1>2, IInvParts DEF HeldInv, OneVolume
  <2>2. IInv' /\ UpInv'
    BY <1>2, <2>1, IInvStep, UpStep DEF HeldInv
  <2>3. PathInv' /\ ShowInv' /\ VacantInv'
    BY <1>2, <2>1, PathStep, ShowStep, VacantStep DEF HeldInv
  <2> QED BY <2>2, <2>3 DEF HeldInv
<1> QED BY <1>1, <1>2, PTL DEF Spec

LEMMA HeldStep ==
  ASSUME HeldInv, [Next]_vars, NEW t \in Targets,
         kub[t] = "up", kub'[t] = "up", grp[GroupPath(t)] # <<>>
  PROVE  grp'[GroupPath(t)] # <<>> \/ \A c \in Calls : call'[c] = Idle
<1>1. PICK g : g = GroupPath(t)
  OBVIOUS
<1>2. /\ TypeInv /\ VacantInv /\ tmnt[t] # <<>> /\ g = PathOf(t) /\ g \in Groups
      /\ grp[g] \in Seq(Sources)
  BY <1>1, IInvParts, ConstantsAssumption
     DEF HeldInv, UpInv, PathInv, GroupPath, PathOf, Pvc, Groups, Annotations, TypeInv, TypeOK
<1>3. CASE UNCHANGED vars
  BY <1>3 DEF vars
<1>4. CASE Environment \/ \E c \in Calls : UnpublishPanic(c)
  BY <1>1, <1>2, <1>4, EnvironmentChanges
<1>5. ASSUME NEW c \in Calls, Publish(c) \/ Unpublish(c), ~UnpublishPanic(c)
      PROVE  grp'[g] # <<>>
  <2>1. ~(call[c].group = g /\ call[c].pc = "umountGroup")
    BY <1>2 DEF VacantInv, Vacant
  <2>2. grp'[g] = grp[g] \/ grp'[g] = Push(grp[g], call[c].source)
    BY <1>2, <1>5, <2>1, HandlerChanges
  <2>3. <<call[c].source>> \o grp[g] # <<>>
    BY <1>2
  <2> QED BY <1>1, <2>2, <2>3 DEF Push
<1> QED BY <1>1, <1>3, <1>4, <1>5 DEF Next

\* On an undisturbed node, claims recreated included, the mount of a group
\* outlives no bind of it if the pods that share the group name one server: no
\* unpublish takes it from a pod that stays (nodeserver.go:678-690).
THEOREM GroupHeldHolds ==
  ASSUME Undisturbed, SameServer PROVE Spec => GroupHeldWhileUp
<1>1. GroupInv => HeldInv
  BY DEF GroupInv, HeldInv
<1>2. HeldInv /\ [Next]_vars =>
        [\A t \in Targets :
           kub[t] = "up" /\ kub'[t] = "up" /\ grp[GroupPath(t)] # <<>>
           => \/ grp'[GroupPath(t)] # <<>>
              \/ \A c \in Calls : call'[c] = Idle]_vars
  BY HeldStep
<1> QED BY <1>1, <1>2, GroupInvariance, PTL DEF Spec, GroupHeldWhileUp

\* The same with every failure, if no claim name is used again: no handler
\* that stopped half-way or lost its meta file makes a later count miss a pod
\* (nodeserver.go:678-690).
THEOREM GroupHeldThroughFailures ==
  ASSUME ~Timeouts, Edits = {}, OwnVolumes, SameServer PROVE Spec => GroupHeldWhileUp
<1>1. HeldInv /\ [Next]_vars =>
        [\A t \in Targets :
           kub[t] = "up" /\ kub'[t] = "up" /\ grp[GroupPath(t)] # <<>>
           => \/ grp'[GroupPath(t)] # <<>>
              \/ \A c \in Calls : call'[c] = Idle]_vars
  BY HeldStep
<1> QED BY <1>1, HeldInvariance, PTL DEF Spec, GroupHeldWhileUp

LEMMA HeldServer == SameServer /\ HeldInv => PublishedFromServiceVIP
<1> SUFFICES ASSUME SameServer, HeldInv, NEW t \in Targets, kub[t] = "up", ann[t].vip # NoServer
             PROVE  Head(tmnt[t]).src[1] = ann[t].vip
  BY DEF PublishedFromServiceVIP
<1>1. ann = FirstAnn /\ tmnt[t] # <<>>
  BY DEF HeldInv, UpInv, PathInv
<1>2. Head(tmnt[t]).src = SourceOf(t)
  BY <1>1 DEF HeldInv, ShowInv, BindShows
<1> QED BY <1>1, <1>2 DEF SourceOf, ServerOf

\* Under the first condition a published target is mounted from the server that
\* its pod's flexa.io/serviceVIP names (README.md:193).
THEOREM ServiceVIPHolds ==
  ASSUME Undisturbed, SameServer PROVE Spec => []PublishedFromServiceVIP
<1>1. GroupInv => HeldInv
  BY DEF GroupInv, HeldInv
<1> QED BY <1>1, HeldServer, GroupInvariance, PTL

\* And under the second, whatever fails.
THEOREM ServiceVIPThroughFailures ==
  ASSUME ~Timeouts, Edits = {}, OwnVolumes, SameServer
  PROVE  Spec => []PublishedFromServiceVIP
BY HeldServer, HeldInvariance, PTL

-----------------------------------------------------------------------------
(***************************************************************************)
(* When countBindMounts finds the staging mount it dereferences.  The run  *)
(* that refutes UnpublishReturns needs a restart of the container, or two  *)
(* unpublishes in flight in one group.                                     *)
(***************************************************************************)
OneHandler   == \A c, d \in Calls : c = d
AloneInGroup == \A t, u \in Targets : PathOf(t) = PathOf(u) => t = u

\* The mount of a group stands while a target is bound to it and until the
\* unpublish of that target has counted.
Stands(c) ==
  /\ call[c].pc = "loadMeta" => tmnt[call[c].t] # <<>>
  /\ call[c].pc \in {"umount", "rmTarget", "rmMeta", "count"} => grp[call[c].group] # <<>>

StandInv ==
  /\ \A t \in Targets : tmnt[t] # <<>> => grp[PathOf(t)] # <<>>
  /\ \A c \in Calls : Stands(c)

LEMMA StandsIsMounted ==
  ASSUME OwnVolumes, SameServer, HeldInv, StandInv, NEW c \in Calls, call[c].pc = "count"
  PROVE  ~Panics(c)
<1> DEFINE t == call[c].t
           g == call[c].group
<1>1. TypeInv
  BY IInvParts DEF HeldInv
<1>2. /\ t \in Targets /\ g \in Groups /\ g = PathOf(t) /\ call[c].source = SourceOf(t)
      /\ grp[g] # <<>> /\ grp[g] \in Seq(Sources)
  BY <1>1 DEF TypeInv, TypeOK, CallShape, Active, WithGroup, WithSource, HeldInv, PathInv,
     HandlerHas, StandInv, Stands
<1> HIDE DEF t, g
<1>3. PICK w \in Targets : PathOf(w) = g /\ Head(grp[g]) = SourceOf(w)
  BY <1>2 DEF HeldInv, ShowInv, GroupShows
<1>4. VolumeOf[w] = VolumeOf[t]
  BY <1>2, <1>3, ConstantsAssumption DEF PathOf, Pvc, OwnVolumes
<1>5. SourceOf(w) = SourceOf(t)
  BY <1>2, <1>3, <1>4 DEF SameServer, SourceOf, PathOf
<1>6. 1 \in DOMAIN grp[g] /\ grp[g][1] = call[c].source
  BY <1>2, <1>3, <1>5
<1> QED BY <1>6 DEF Panics, StagingMount, g

LEMMA StandStep ==
  ASSUME ~Restarts, OneHandler \/ AloneInGroup, OwnVolumes, SameServer,
         HeldInv, StandInv, [Next]_vars
  PROVE  StandInv'
<1>1. \A t : PathOf(t)' = PathOf(t)
  BY DEF PathOf, Pvc
<1>2. /\ TypeInv /\ LocksHeld /\ NodeHeld /\ PathInv /\ VacantInv
      /\ call \in [Calls -> CallRecord]
  BY IInvParts DEF HeldInv, TypeInv, TypeOK
<1>3. \A c \in Calls : ~UnpublishPanic(c)
  BY StandsIsMounted DEF UnpublishPanic
<1>4. CASE Environment
  <2>1. \/ grp' = grp /\ tmnt' = tmnt
        \/ ContainerRestart \/ NodeReboot
    BY <1>4 DEF Environment, StartPublish, StartUnpublish, StartCall, GiveUp, EditAnnotations,
       KubeletForgets, RecreateClaim, clusterVars, nodeVars
  <2>2. grp' = grp /\ tmnt' = tmnt
    BY <2>1 DEF ContainerRestart, NodeReboot
  <2>3. \A c \in Calls :
          \/ call'[c].pc \in {"idle", "options", "check"}
          \/ /\ call'[c].pc = call[c].pc /\ call'[c].t = call[c].t
             /\ call'[c].group = call[c].group
    BY <1>2, <1>4, EnvironmentChanges
  <2> QED BY <1>1, <2>2, <2>3 DEF StandInv, Stands
<1>5. ASSUME NEW c \in Calls, Publish(c) \/ Unpublish(c)
      PROVE  StandInv'
  <2> DEFINE t == call[c].t
             g == call[c].group
  <2>1. /\ ~UnpublishPanic(c) /\ t \in Targets
        /\ \A d \in Calls \ {c} : call'[d] = call[d]
    BY <1>2, <1>3, <1>5, HandlerLearns
  <2>2. /\ \A u \in Targets :
             \/ tmnt'[u] = tmnt[u] \/ tmnt'[u] = Pop(tmnt[u])
             \/ u = t /\ call[c].pc = "bind"
        /\ \A u \in Targets \ {t} : tmnt'[u] = tmnt[u]
        /\ \A h \in Groups :
             \/ grp'[h] = grp[h]
             \/ h = g /\ call[c].pc = "umountGroup"
             \/ h = g /\ call[c].pc = "mountGroup" /\ grp'[h] = Push(grp[h], call[c].source)
    BY <1>2, <1>5, <2>1, HandlerChanges
  <2>3. \A u \in Targets : Pop(tmnt[u]) = <<>> /\ PathOf(u) \in Groups
    BY <1>2, PopTypes, ConstantsAssumption
       DEF NodeHeld, SingleMounts, TypeInv, TypeOK, PathOf, Pvc, Groups, Annotations
  <2>4. call[c].pc \in WithGroup => g = PathOf(t)
    BY <1>2 DEF PathInv, HandlerHas
  <2>5. \A h \in Groups : grp[h] # <<>> =>
          grp'[h] # <<>> \/ (h = g /\ call[c].pc = "umountGroup")
    <3> SUFFICES ASSUME NEW h \in Groups, grp[h] # <<>>,
                        grp'[h] = Push(grp[h], call[c].source)
                 PROVE  grp'[h] # <<>>
      BY <2>2
    <3>1. grp[h] \in Seq(Sources)
      BY <1>2 DEF TypeInv, TypeOK
    <3>2. <<call[c].source>> \o grp[h] # <<>>
      BY <3>1
    <3> QED BY <3>2 DEF Push
  <2>6. ASSUME NEW u \in Targets, tmnt'[u] # <<>>
        PROVE  grp'[PathOf(u)] # <<>>
    <3>1. CASE u = t /\ call[c].pc = "bind"
      <4>1. g = PathOf(u) /\ grp[g] # <<>>
        BY <1>2, <2>4, <3>1 DEF WithGroup, NodeHeld, Sees
      <4> QED BY <2>3, <2>5, <3>1, <4>1
    <3>2. CASE ~(u = t /\ call[c].pc = "bind")
      <4>1. tmnt[u] # <<>>
        BY <2>2, <2>3, <2>6, <3>2
      <4>2. grp[PathOf(u)] # <<>>
        BY <4>1 DEF StandInv
      <4>3. ~(PathOf(u) = g /\ call[c].pc = "umountGroup")
        BY <1>2, <4>1 DEF VacantInv, Vacant
      <4> QED BY <2>3, <2>5, <4>2, <4>3
    <3> QED BY <3>1, <3>2
  <2>7. ASSUME NEW d \in Calls, d # c PROVE Stands(d)'
    <3>1. Stands(d) /\ call'[d] = call[d]
      BY <2>1, <2>7 DEF StandInv
    <3>2. call[d].pc = "loadMeta" => tmnt'[call[d].t] # <<>>
      <4> SUFFICES ASSUME call[d].pc = "loadMeta" PROVE tmnt'[call[d].t] # <<>>
        OBVIOUS
      <4>1. call[c].pc # "idle" /\ call[d].pc # "idle" /\ call[d].t \in Targets
        BY <1>2, <1>5, PublishEffect, UnpublishEffect, <2>1
           DEF Moves, Ends, TypeInv, CallShape, Active
      <4>2. call[d].t # t
        BY <1>2, <2>7, <4>1, Apart DEF Active, NodeHeld
      <4> QED BY <2>2, <3>1, <4>1, <4>2 DEF Stands
    <3>3. call[d].pc \in {"umount", "rmTarget", "rmMeta", "count"} => grp'[call[d].group] # <<>>
      <4> SUFFICES ASSUME call[d].pc \in {"umount", "rmTarget", "rmMeta", "count"}
                   PROVE  grp'[call[d].group] # <<>>
        OBVIOUS
      <4>1. /\ call[d].group \in Groups /\ call[d].t \in Targets
            /\ call[d].group = PathOf(call[d].t)
        BY <1>2 DEF TypeInv, CallShape, Active, WithGroup, PathInv, HandlerHas
      <4>2. ASSUME call[d].group = g, call[c].pc = "umountGroup" PROVE FALSE
        <5>1. g = PathOf(t) /\ call[d].t # t
          BY <1>2, <2>4, <2>7, <4>2, Apart DEF WithGroup, Active, NodeHeld
        <5> QED BY <2>1, <2>7, <4>1, <4>2, <5>1 DEF OneHandler, AloneInGroup
      <4> QED BY <2>5, <3>1, <4>1, <4>2 DEF Stands
    <3> QED BY <3>1, <3>2, <3>3 DEF Stands
  <2>8. Stands(c)'
    <3>1. CASE Publish(c)
      <4>1. call'[c].pc \in PublishPC \cup {"idle"}
        BY <1>2, <3>1, PublishEffect DEF Moves, Ends
      <4> QED BY <4>1 DEF Stands
    <3>2. CASE UnpublishCheck(c)
      BY <1>2, <3>2, <2>1 DEF UnpublishCheck, Goto, Return, Stands, nodeVars
    <3>3. CASE UnpublishLoadMeta(c)
      <4>1. /\ tmnt[t] # <<>> /\ MetaHas(t) /\ UNCHANGED <<grp, tmnt>>
            /\ \/ call'[c].pc = "umount" /\ call'[c].group = meta[t].group /\ meta[t] # None
               \/ call'[c].pc = "lustre"
        BY <1>2, <2>1, <3>3 DEF UnpublishLoadMeta, Goto, StandInv, Stands, PathInv, nodeVars
      <4> QED BY <2>1, <4>1 DEF Stands, StandInv, MetaHas
    <3>4. CASE UnpublishUmount(c) \/ UnpublishRemoveTarget(c) \/ UnpublishRemoveMeta(c)
      <4>1. /\ call[c].pc \in {"umount", "rmTarget", "rmMeta"} /\ grp' = grp
            /\ \/ call'[c].pc \in {"rmTarget", "rmMeta", "count"} /\ call'[c].group = g
               \/ call'[c].pc = "idle"
        BY <1>2, <3>4 DEF UnpublishUmount, UnpublishRemoveTarget, UnpublishRemoveMeta, Goto, Return
      <4> QED BY <4>1 DEF Stands, StandInv
    <3>5. CASE UnpublishAsLustre(c) \/ UnpublishRemoveLustre(c) \/ UnpublishCount(c)
               \/ UnpublishUmountGroup(c) \/ UnpublishRemoveAll(c)
      <4>1. call'[c].pc \in {"idle", "rmLustre", "umountGroup", "removeAll"}
        BY <1>2, <3>5 DEF UnpublishAsLustre, UnpublishRemoveLustre, UnpublishCount,
           UnpublishUmountGroup, UnpublishRemoveAll, Goto, Return
      <4> QED BY <4>1 DEF Stands
    <3> QED BY <1>5, <2>1, <3>1, <3>2, <3>3, <3>4, <3>5 DEF Unpublish
  <2> QED BY <1>1, <2>6, <2>7, <2>8 DEF StandInv
<1>6. CASE UNCHANGED vars
  BY <1>1, <1>6 DEF vars, StandInv, Stands
<1> QED BY <1>4, <1>5, <1>6 DEF Next

\* Without a restart, and with one handler at a time or one pod in each group,
\* the unpublish that counts finds its staging mount: no handler panics,
\* whatever fails (nodeserver.go:268-290).
THEOREM UnpublishNeverPanics ==
  ASSUME ~Timeouts, ~Restarts, Edits = {}, OwnVolumes, SameServer,
         OneHandler \/ AloneInGroup
  PROVE  Spec => []UnpublishReturns
<1>1. Init => StandInv
  BY DEF Init, StandInv, Stands
<1>2. HeldInv /\ StandInv /\ [Next]_vars => StandInv'
  BY StandStep
<1>3. HeldInv /\ StandInv => UnpublishReturns
  BY StandsIsMounted DEF UnpublishReturns
<1> QED BY <1>1, <1>2, <1>3, HeldInvariance, PTL DEF Spec
=============================================================================
