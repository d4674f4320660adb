---------------------------- MODULE NfsNodeProofs ----------------------------
(***************************************************************************)
(* Theorems about NfsNode for any pods, claims, options and handlers.      *)
(***************************************************************************)
EXTENDS NfsNode, TLAPS

USE DEF At, KubeletViews, CallRecord, PublishPC, UnpublishPC, Idle

TypeInv == TypeOK /\ CallShape

\* A stack of mounts stays one when a mount is added or taken off.
LEMMA StackTypes ==
  ASSUME NEW S, NEW stack \in Seq(S), NEW m \in S
  PROVE  /\ Push(stack, m) \in Seq(S)
         /\ Push(stack, m) # <<>>
         /\ Head(Push(stack, m)) = m
         /\ stack = <<>> => Len(Push(stack, m)) = 1
BY DEF Push

LEMMA PopTypes ==
  ASSUME NEW S, NEW stack \in Seq(S)
  PROVE  /\ Pop(stack) \in Seq(S)
         /\ Len(stack) <= 1 => Pop(stack) = <<>>
BY DEF Pop

\* A handler's record stays one when it learns its group and its source.
LEMMA RecordTypes ==
  ASSUME NEW r \in CallRecord, NEW pc \in PublishPC \cup UnpublishPC,
         NEW g \in Groups, NEW s \in Sources
  PROVE  /\ [r EXCEPT !.pc = pc, !.group = g] \in CallRecord
         /\ [r EXCEPT !.pc = pc, !.source = s] \in CallRecord
         /\ [r EXCEPT !.pc = pc, !.group = g, !.source = s] \in CallRecord
<1>1. [r EXCEPT !.pc = pc] \in CallRecord
  OBVIOUS
<1>2. [r EXCEPT !.pc = pc, !.group = g] = [[r EXCEPT !.pc = pc] EXCEPT !.group = g]
  OBVIOUS
<1>3. [r EXCEPT !.pc = pc, !.group = g] \in CallRecord
  BY <1>1, <1>2
<1>4. [r EXCEPT !.pc = pc, !.source = s] \in CallRecord
  OBVIOUS
<1>5. [r EXCEPT !.pc = pc, !.group = g, !.source = s] \in CallRecord
  OBVIOUS
<1> QED BY <1>3, <1>4, <1>5

LEMMA InitType == Init => TypeInv
BY ConstantsAssumption DEF TypeInv, Init, TypeOK, CallShape, Active, WithGroup, WithSource

\* What a handler's step leaves behind when it goes on to another step.
LEMMA GotoTyped ==
  ASSUME TypeInv, NEW c \in Calls, Active(c),
         NEW pc \in PublishPC \cup UnpublishPC, Goto(c, pc),
         pc \in WithGroup => call[c].group \in Groups,
         pc \in WithSource => call[c].source \in Sources
  PROVE  /\ call' \in [Calls -> CallRecord]
         /\ kub' \in [Targets -> KubeletViews]
         /\ CallShape'
<1>1. call' = [call EXCEPT ![c].pc = pc] /\ kub' = kub
  BY DEF Goto
<1>2. call \in [Calls -> CallRecord]
  BY DEF TypeInv, TypeOK
<1>3. call'[c] = [call[c] EXCEPT !.pc = pc] /\ \A d \in Calls \ {c} : call'[d] = call[d]
  BY <1>1, <1>2
<1>4. call' \in [Calls -> CallRecord]
  BY <1>1, <1>2
<1>5. /\ call'[c].t = call[c].t /\ call'[c].group = call[c].group
      /\ call'[c].source = call[c].source /\ call'[c].pc = pc
  BY <1>2, <1>3
<1>6. CallShape'
  BY <1>3, <1>5 DEF CallShape, TypeInv, Active
<1> QED BY <1>1, <1>4, <1>6 DEF TypeInv, TypeOK

\* What it leaves behind when the handler returns.
LEMMA ReturnTyped ==
  ASSUME TypeInv, NEW c \in Calls, Active(c),
         NEW view \in KubeletViews, Return(c, view)
  PROVE  /\ call' \in [Calls -> CallRecord]
         /\ kub' \in [Targets -> KubeletViews]
         /\ CallShape'
<1>1. call' = [call EXCEPT ![c] = Idle]
  BY DEF Return
<1>2. call \in [Calls -> CallRecord] /\ kub \in [Targets -> KubeletViews] /\ CallShape
  BY DEF TypeInv, TypeOK
<1>3. call' \in [Calls -> CallRecord]
  BY <1>1, <1>2
<1>4. CallShape'
  BY <1>1, <1>2 DEF CallShape, Active, WithGroup, WithSource
<1>5. kub' \in [Targets -> KubeletViews]
  BY <1>2 DEF Return, CallShape
<1> QED BY <1>3, <1>4, <1>5


LEMMA PublishTyped ==
  ASSUME TypeInv, NEW c \in Calls, Publish(c)
  PROVE  TypeInv'
<1> DEFINE CallTyped == /\ call' \in [Calls -> CallRecord]
                       /\ kub' \in [Targets -> KubeletViews]
                       /\ CallShape'
<1> USE DEF clusterVars, nodeVars
<1>0. /\ Active(c) => call[c].t \in Targets
      /\ call[c].pc \in WithGroup => call[c].group \in Groups
      /\ call[c].pc \in WithSource => call[c].source \in Sources
      /\ call \in [Calls -> CallRecord]
  BY DEF TypeInv, TypeOK, CallShape
<1>1. CASE PublishOptions(c)
  <2>1. Active(c)
    BY <1>1 DEF PublishOptions, Active
  <2>2. CallTyped
    <3>1. CASE Return(c, "new")
      BY <2>1, <3>1, ReturnTyped
    <3>2. CASE /\ call' = [call EXCEPT ![c].pc = "server", ![c].group = GroupPath(call[c].t)]
               /\ UNCHANGED kub
      <4>1. GroupPath(call[c].t) \in Groups
        BY <1>0, <2>1, ConstantsAssumption DEF GroupPath, Pvc, Groups, Annotations, TypeInv, TypeOK
      <4> DEFINE r == [call[c] EXCEPT !.pc = "server", !.group = GroupPath(call[c].t)]
      <4>2. call' \in [Calls -> CallRecord]
        <5>1. call' = [call EXCEPT ![c] = r]
          BY <1>0, <3>2
        <5>2. call[c] \in CallRecord /\ "server" \in PublishPC \cup UnpublishPC
          BY <1>0
        <5>3. r \in CallRecord
          BY <4>1, <5>2, RecordTypes, Zenon
        <5> QED BY <1>0, <5>1, <5>3
      <4>3. /\ call'[c].pc = "server" /\ call'[c].t = call[c].t
            /\ call'[c].group = GroupPath(call[c].t)
            /\ \A d \in Calls \ {c} : call'[d] = call[d]
        BY <1>0, <3>2
      <4>4. "server" \notin WithSource
        BY DEF WithSource
      <4>5. CallShape'
        BY <1>0, <2>1, <4>1, <4>3, <4>4 DEF CallShape, TypeInv, Active
      <4> QED BY <3>2, <4>2, <4>5 DEF TypeInv, TypeOK
    <3> QED BY <1>1, <3>1, <3>2 DEF PublishOptions
  <2> QED BY <1>1, <2>2 DEF PublishOptions, TypeInv, TypeOK
<1>2. CASE PublishServer(c)
  <2>1. Active(c) /\ call[c].pc \in WithGroup
    BY <1>2 DEF PublishServer, Active, WithGroup
  <2> DEFINE s == Server(call[c].t)
  <2>2. CallTyped
    <3>1. CASE Return(c, "new")
      BY <2>1, <3>1, ReturnTyped
    <3>2. CASE /\ s # NoServer
               /\ call' = [call EXCEPT ![c].pc = "checkGroup",
                                       ![c].source = <<s, VolumeOf[call[c].t]>>]
               /\ UNCHANGED kub
      <4>1. <<s, VolumeOf[call[c].t]>> \in Sources
        BY <1>0, <2>1, <3>2, ConstantsAssumption DEF Server, Sources, Annotations, TypeInv, TypeOK
      <4> HIDE DEF s
      <4> DEFINE r == [call[c] EXCEPT !.pc = "checkGroup",
                                      !.source = <<s, VolumeOf[call[c].t]>>]
      <4>2. call' \in [Calls -> CallRecord]
        <5>1. call' = [call EXCEPT ![c] = r]
          BY <1>0, <3>2
        <5>2. call[c] \in CallRecord /\ "checkGroup" \in PublishPC \cup UnpublishPC
          BY <1>0
        <5>3. r \in CallRecord
          BY <4>1, <5>2, RecordTypes, Zenon
        <5> QED BY <1>0, <5>1, <5>3
      <4>3. /\ call'[c].pc = "checkGroup" /\ call'[c].t = call[c].t
            /\ call'[c].group = call[c].group
            /\ call'[c].source = <<s, VolumeOf[call[c].t]>>
            /\ \A d \in Calls \ {c} : call'[d] = call[d]
        BY <1>0, <3>2
      <4>4. CallShape'
        BY <1>0, <2>1, <4>1, <4>3 DEF CallShape, TypeInv, Active
      <4> QED BY <3>2, <4>2, <4>4 DEF TypeInv, TypeOK
    <3> QED BY <1>2, <3>1, <3>2 DEF PublishServer
  <2> QED BY <1>2, <2>2 DEF PublishServer, TypeInv, TypeOK
<1>3. CASE PublishCheckGroup(c)
  <2>1. Active(c) /\ call[c].pc \in WithGroup /\ call[c].pc \in WithSource
    BY <1>3 DEF PublishCheckGroup, Active, WithGroup, WithSource
  <2>2. CallTyped
    BY <1>0, <1>3, <2>1, GotoTyped, ReturnTyped DEF PublishCheckGroup
  <2>3. dirs' \subseteq Groups
    BY <1>0, <1>3, <2>1 DEF PublishCheckGroup, TypeInv, TypeOK
  <2> QED BY <1>3, <2>2, <2>3 DEF PublishCheckGroup, TypeInv, TypeOK
<1>4. CASE PublishMountGroup(c)
  <2>1. Active(c) /\ call[c].pc \in WithGroup /\ call[c].pc \in WithSource
    BY <1>4 DEF PublishMountGroup, Active, WithGroup, WithSource
  <2>2. CallTyped
    BY <1>0, <1>4, <2>1, GotoTyped, ReturnTyped DEF PublishMountGroup
  <2>3. grp' \in [Groups -> Seq(Sources)]
    <3>1. grp[call[c].group] \in Seq(Sources)
      BY <1>0, <2>1 DEF TypeInv, TypeOK
    <3>2. Push(grp[call[c].group], call[c].source) \in Seq(Sources)
      BY <1>0, <2>1, <3>1, StackTypes
    <3> QED BY <1>4, <3>2 DEF PublishMountGroup, TypeInv, TypeOK
  <2> QED BY <1>4, <2>2, <2>3 DEF PublishMountGroup, TypeInv, TypeOK
<1>5. CASE PublishSaveMeta(c)
  <2>1. Active(c) /\ call[c].pc \in WithGroup /\ call[c].pc \in WithSource
    BY <1>5 DEF PublishSaveMeta, Active, WithGroup, WithSource
  <2>2. CallTyped
    BY <1>0, <1>5, <2>1, GotoTyped, ReturnTyped DEF PublishSaveMeta
  <2>3. meta' \in [Targets -> Meta \cup {None}]
    <3>1. [group |-> call[c].group, source |-> call[c].source] \in Meta
      BY <1>0, <2>1 DEF Meta
    <3> QED BY <1>0, <1>5, <2>1, <3>1 DEF PublishSaveMeta, TypeInv, TypeOK
  <2> QED BY <1>5, <2>2, <2>3 DEF PublishSaveMeta, TypeInv, TypeOK
<1>6. CASE PublishCheckTarget(c)
  <2>1. Active(c) /\ call[c].pc \in WithGroup /\ call[c].pc \in WithSource
    BY <1>6 DEF PublishCheckTarget, Active, WithGroup, WithSource
  <2>2. CallTyped
    BY <1>0, <1>6, <2>1, GotoTyped, ReturnTyped DEF PublishCheckTarget
  <2>3. tdirs' \subseteq Targets
    BY <1>0, <1>6, <2>1 DEF PublishCheckTarget, TypeInv, TypeOK
  <2> QED BY <1>6, <2>2, <2>3 DEF PublishCheckTarget, TypeInv, TypeOK
<1>7. CASE PublishRecheck(c)
  <2>1. Active(c) /\ call[c].pc \in WithGroup /\ call[c].pc \in WithSource
    BY <1>7 DEF PublishRecheck, Active, WithGroup, WithSource
  <2>2. CallTyped
    BY <1>0, <1>7, <2>1, GotoTyped, ReturnTyped DEF PublishRecheck
  <2> QED BY <1>7, <2>2 DEF PublishRecheck, TypeInv, TypeOK
<1>8. CASE PublishBind(c)
  <2>1. Active(c) /\ call[c].pc \in WithGroup /\ call[c].pc \in WithSource
    BY <1>8 DEF PublishBind, Active, WithGroup, WithSource
  <2>2. CallTyped
    BY <1>0, <1>8, <2>1, GotoTyped, ReturnTyped DEF PublishBind
  <2>3. tmnt' \in [Targets -> Seq(Bind)]
    <3>1. Shown(call[c].group) \in Bind
      BY <1>0, <2>1 DEF Shown, Bind, TypeInv, TypeOK
    <3>2. Push(tmnt[call[c].t], Shown(call[c].group)) \in Seq(Bind)
      BY <1>0, <2>1, <3>1, StackTypes DEF TypeInv, TypeOK
    <3> QED BY <1>8, <3>2 DEF PublishBind, TypeInv, TypeOK
  <2> QED BY <1>8, <2>2, <2>3 DEF PublishBind, TypeInv, TypeOK
<1>9. CASE PublishRemount(c)
  <2>1. Active(c)
    BY <1>9 DEF PublishRemount, Active
  <2>2. CallTyped
    BY <1>9, <2>1, ReturnTyped DEF PublishRemount
  <2> QED BY <1>9, <2>2 DEF PublishRemount, TypeInv, TypeOK
<1> QED BY <1>1, <1>2, <1>3, <1>4, <1>5, <1>6, <1>7, <1>8, <1>9 DEF Publish

\* The process dies: nothing of a handler is left.
LEMMA DeathTyped ==
  ASSUME TypeInv, ProcessDies,
         kub' \in [Targets -> KubeletViews], tmnt' \in [Targets -> Seq(Bind)]
  PROVE  TypeInv'
BY DEF ProcessDies, TypeInv, TypeOK, CallShape, Active, WithGroup, WithSource

LEMMA UnpublishTyped ==
  ASSUME TypeInv, NEW c \in Calls, Unpublish(c)
  PROVE  TypeInv'
<1> DEFINE CallTyped == /\ call' \in [Calls -> CallRecord]
                       /\ kub' \in [Targets -> KubeletViews]
                       /\ CallShape'
<1> USE DEF clusterVars, nodeVars
<1>0. /\ Active(c) => call[c].t \in Targets
      /\ call[c].pc \in WithGroup => call[c].group \in Groups
      /\ call[c].pc \in WithSource => call[c].source \in Sources
      /\ call \in [Calls -> CallRecord]
  BY DEF TypeInv, TypeOK, CallShape
<1>1. CASE UnpublishCheck(c)
  <2>1. Active(c) /\ "loadMeta" \notin WithGroup /\ "loadMeta" \notin WithSource
    BY <1>1 DEF UnpublishCheck, Active, WithGroup, WithSource
  <2>2. CallTyped
    BY <1>1, <2>1, GotoTyped, ReturnTyped DEF UnpublishCheck
  <2> QED BY <1>1, <2>2 DEF UnpublishCheck, TypeInv, TypeOK
<1>2. CASE UnpublishLoadMeta(c)
  <2>1. Active(c) /\ "lustre" \notin WithGroup /\ "lustre" \notin WithSource
    BY <1>2 DEF UnpublishLoadMeta, Active, WithGroup, WithSource
  <2> DEFINE m == meta[call[c].t]
  <2>2. CallTyped
    <3>1. CASE Goto(c, "lustre")
      BY <2>1, <3>1, GotoTyped
    <3>2. CASE /\ m # None
               /\ call' = [call EXCEPT ![c].pc = "umount", ![c].group = m.group,
                                       ![c].source = m.source]
               /\ UNCHANGED kub
      <4>1. m.group \in Groups /\ m.source \in Sources
        BY <1>0, <2>1, <3>2 DEF Meta, TypeInv, TypeOK
      <4> HIDE DEF m
      <4> DEFINE r == [call[c] EXCEPT !.pc = "umount", !.group = m.group,
                                      !.source = m.source]
      <4>2. call' \in [Calls -> CallRecord]
        <5>1. call' = [call EXCEPT ![c] = r]
          BY <1>0, <3>2
        <5>2. call[c] \in CallRecord /\ "umount" \in PublishPC \cup UnpublishPC
          BY <1>0
        <5>3. r \in CallRecord
          BY <4>1, <5>2, RecordTypes, Zenon
        <5> QED BY <1>0, <5>1, <5>3
      <4>3. /\ call'[c].pc = "umount" /\ call'[c].t = call[c].t
            /\ call'[c].group = m.group /\ call'[c].source = m.source
            /\ \A d \in Calls \ {c} : call'[d] = call[d]
        BY <1>0, <3>2
      <4>4. CallShape'
        BY <1>0, <2>1, <4>1, <4>3 DEF CallShape, TypeInv, Active
      <4> QED BY <3>2, <4>2, <4>4 DEF TypeInv, TypeOK
    <3> QED BY <1>2, <3>1, <3>2 DEF UnpublishLoadMeta
  <2> QED BY <1>2, <2>2 DEF UnpublishLoadMeta, TypeInv, TypeOK
<1>3. CASE UnpublishAsLustre(c)
  <2>1. Active(c)
    BY <1>3 DEF UnpublishAsLustre, Active
  <2>2. CallTyped
    <3>1. "rmLustre" \notin WithGroup /\ "rmLustre" \notin WithSource
      BY DEF WithGroup, WithSource
    <3> QED BY <1>3, <2>1, <3>1, GotoTyped, ReturnTyped DEF UnpublishAsLustre
  <2>3. Pop(tmnt[call[c].t]) \in Seq(Bind)
    BY <1>0, <2>1, PopTypes DEF TypeInv, TypeOK
  <2>4. tmnt' \in [Targets -> Seq(Bind)]
    BY <1>3, <2>3 DEF UnpublishAsLustre, TypeInv, TypeOK
  <2> QED BY <1>3, <2>2, <2>4 DEF UnpublishAsLustre, TypeInv, TypeOK
<1>4. CASE UnpublishUmount(c)
  <2>1. Active(c) /\ call[c].pc \in WithGroup /\ call[c].pc \in WithSource
    BY <1>4 DEF UnpublishUmount, Active, WithGroup, WithSource
  <2>2. CallTyped
    BY <1>0, <1>4, <2>1, GotoTyped, ReturnTyped DEF UnpublishUmount
  <2>3. Pop(tmnt[call[c].t]) \in Seq(Bind)
    BY <1>0, <2>1, PopTypes DEF TypeInv, TypeOK
  <2>4. tmnt' \in [Targets -> Seq(Bind)]
    BY <1>4, <2>3 DEF UnpublishUmount, TypeInv, TypeOK
  <2> QED BY <1>4, <2>2, <2>4 DEF UnpublishUmount, TypeInv, TypeOK
<1>5. CASE UnpublishRemoveTarget(c)
  <2>1. Active(c) /\ call[c].pc \in WithGroup /\ call[c].pc \in WithSource
    BY <1>5 DEF UnpublishRemoveTarget, Active, WithGroup, WithSource
  <2>2. CallTyped
    BY <1>0, <1>5, <2>1, GotoTyped, ReturnTyped DEF UnpublishRemoveTarget
  <2> QED BY <1>5, <2>2 DEF UnpublishRemoveTarget, TypeInv, TypeOK
<1>6. CASE UnpublishRemoveMeta(c)
  <2>1. Active(c) /\ call[c].pc \in WithGroup /\ call[c].pc \in WithSource
    BY <1>6 DEF UnpublishRemoveMeta, Active, WithGroup, WithSource
  <2>2. CallTyped
    BY <1>0, <1>6, <2>1, GotoTyped DEF UnpublishRemoveMeta
  <2>3. meta' \in [Targets -> Meta \cup {None}]
    BY <1>6 DEF UnpublishRemoveMeta, TypeInv, TypeOK
  <2> QED BY <1>6, <2>2, <2>3 DEF UnpublishRemoveMeta, TypeInv, TypeOK
<1>7. CASE UnpublishCount(c)
  <2>1. Active(c) /\ call[c].pc \in WithGroup /\ call[c].pc \in WithSource
    BY <1>7 DEF UnpublishCount, Active, WithGroup, WithSource
  <2>2. CallTyped
    BY <1>0, <1>7, <2>1, GotoTyped, ReturnTyped DEF UnpublishCount
  <2> QED BY <1>7, <2>2 DEF UnpublishCount, TypeInv, TypeOK
<1>8. CASE UnpublishUmountGroup(c)
  <2>1. Active(c) /\ call[c].pc \in WithGroup /\ call[c].pc \in WithSource
    BY <1>8 DEF UnpublishUmountGroup, Active, WithGroup, WithSource
  <2>2. CallTyped
    BY <1>0, <1>8, <2>1, GotoTyped DEF UnpublishUmountGroup
  <2>3. Pop(grp[call[c].group]) \in Seq(Sources)
    BY <1>0, <2>1, PopTypes DEF TypeInv, TypeOK
  <2>4. grp' \in [Groups -> Seq(Sources)]
    BY <1>8, <2>3 DEF UnpublishUmountGroup, TypeInv, TypeOK
  <2> QED BY <1>8, <2>2, <2>4 DEF UnpublishUmountGroup, TypeInv, TypeOK
<1>9. CASE UnpublishRemoveAll(c)
  <2>1. Active(c) /\ call[c].pc \in WithGroup
    BY <1>9 DEF UnpublishRemoveAll, Active, WithGroup
  <2>2. CallTyped
    BY <1>9, <2>1, ReturnTyped DEF UnpublishRemoveAll
  <2>3. dirs' \subseteq Groups /\ wiped' \subseteq Volumes
    <3>1. grp[call[c].group] # <<>> => Head(grp[call[c].group])[2] \in Volumes
      BY <1>0, <2>1 DEF Sources, TypeInv, TypeOK
    <3> QED BY <1>9, <3>1 DEF UnpublishRemoveAll, TypeInv, TypeOK
  <2> QED BY <1>9, <2>2, <2>3 DEF UnpublishRemoveAll, TypeInv, TypeOK
<1>10. CASE UnpublishPanic(c)
  BY <1>10, DeathTyped DEF UnpublishPanic, TypeInv, TypeOK
<1>11. CASE UnpublishRemoveLustre(c)
  <2>1. Active(c)
    BY <1>11 DEF UnpublishRemoveLustre, Active
  <2>2. CallTyped
    BY <1>11, <2>1, ReturnTyped DEF UnpublishRemoveLustre
  <2>3. tdirs' \subseteq Targets
    BY <1>11 DEF UnpublishRemoveLustre, TypeInv, TypeOK
  <2> QED BY <1>11, <2>2, <2>3 DEF UnpublishRemoveLustre, TypeInv, TypeOK
<1> QED BY <1>1, <1>2, <1>3, <1>4, <1>5, <1>6, <1>7, <1>8, <1>9, <1>10, <1>11 DEF Unpublish

LEMMA EnvironmentTyped ==
  ASSUME TypeInv, Environment
  PROVE  TypeInv'
<1> USE DEF clusterVars, nodeVars, TypeInv, TypeOK
<1>1. ASSUME NEW c \in Calls, NEW t \in Targets, NEW pc \in {"options", "check"},
             NEW view \in {"mounting", "leaving"}, StartCall(c, t, pc, view)
      PROVE  TypeInv'
  <2> DEFINE r == [pc |-> pc, t |-> t, group |-> None, source |-> None, waited |-> TRUE]
  <2>1. r \in CallRecord
    OBVIOUS
  <2>2. r.pc = pc /\ r.t = t /\ pc \notin WithGroup /\ pc \notin WithSource
    BY DEF WithGroup, WithSource
  <2>3. call' = [call EXCEPT ![c] = r]
    BY <1>1 DEF StartCall
  <2> HIDE DEF r
  <2>4. call' \in [Calls -> CallRecord]
    BY <2>1, <2>3
  <2>5. CallShape'
    BY <2>2, <2>3 DEF CallShape, Active
  <2>6. kub' \in [Targets -> KubeletViews]
    BY <1>1 DEF StartCall
  <2> QED BY <1>1, <2>4, <2>5, <2>6 DEF StartCall
<1>2. ASSUME NEW c \in Calls, NEW t \in Targets, StartPublish(c, t) \/ StartUnpublish(c, t)
      PROVE  TypeInv'
  BY <1>1, <1>2 DEF StartPublish, StartUnpublish
<1>3. ASSUME NEW c \in Calls, GiveUp(c)
      PROVE  TypeInv'
  <2>1. call' \in [Calls -> CallRecord]
    <3>1. [call[c] EXCEPT !.waited = FALSE] \in CallRecord
      OBVIOUS
    <3>2. call' = [call EXCEPT ![c] = [call[c] EXCEPT !.waited = FALSE]]
      BY <1>3 DEF GiveUp
    <3> QED BY <3>1, <3>2
  <2>2. CallShape'
    BY <1>3 DEF GiveUp, CallShape, Active
  <2>3. kub' \in [Targets -> KubeletViews]
    BY <1>3 DEF GiveUp
  <2> QED BY <1>3, <2>1, <2>2, <2>3 DEF GiveUp
<1>4. ASSUME NEW t \in Targets, EditAnnotations(t) \/ KubeletForgets(t)
      PROVE  TypeInv'
  <2>1. CallShape'
    BY <1>4 DEF EditAnnotations, KubeletForgets, CallShape, Active
  <2>2. CASE EditAnnotations(t)
    <3>1. ann' \in [Targets -> Annotations]
      BY <2>2, ConstantsAssumption DEF EditAnnotations
    <3> QED BY <2>1, <2>2, <3>1 DEF EditAnnotations
  <2>3. CASE KubeletForgets(t)
    BY <2>1, <2>3 DEF KubeletForgets
  <2> QED BY <1>4, <2>2, <2>3
<1>5. ASSUME NEW p \in PVCs, NEW v \in Volumes, RecreateClaim(p, v)
      PROVE  TypeInv'
  BY <1>5 DEF RecreateClaim, CallShape, Active
<1>6. CASE ContainerRestart
  BY <1>6, DeathTyped DEF ContainerRestart
<1>7. CASE NodeReboot
  BY <1>7, DeathTyped DEF NodeReboot
<1> QED BY <1>2, <1>3, <1>4, <1>5, <1>6, <1>7 DEF Environment

LEMMA TypeStep == TypeInv /\ [Next]_vars => TypeInv'
<1> SUFFICES ASSUME TypeInv, [Next]_vars PROVE TypeInv'
  OBVIOUS
<1>1. CASE UNCHANGED vars
  BY <1>1 DEF vars, TypeInv, TypeOK, CallShape, Active
<1>2. CASE Next
  BY <1>2, EnvironmentTyped, PublishTyped, UnpublishTyped DEF Next
<1> QED BY <1>1, <1>2

\* The variables keep their shape, and a handler has learnt the target, the
\* group and the source a step of it reads, whatever fails, restarts or is
\* given up on (all of nodeserver.go:500-704).
THEOREM TypeCorrect == Spec => []TypeOK
<1>1. Spec => []TypeInv
  BY InitType, TypeStep, PTL DEF Spec
<1>2. TypeInv => TypeOK
  BY DEF TypeInv
<1> QED BY <1>1, <1>2, PTL

-----------------------------------------------------------------------------
(***************************************************************************)
(* The inductive invariant.  The kubelet's locks keep handlers of one      *)
(* claim apart, so what a handler saw stays true until it acts on it.      *)
(***************************************************************************)
LocksHeld == Exclusion /\ KubeletKnows /\ ClaimInUse
NodeHeld  == /\ OwnGroups /\ SingleMounts /\ NodeSafe
             /\ \A c \in Calls : Sees(c)

LEMMA IInvParts == IInv <=> TypeInv /\ LocksHeld /\ NodeHeld
BY DEF IInv, TypeInv, LocksHeld, NodeHeld

\* Handler c goes from a step among pcs to another, for the same target.
Moves(c, pcs) ==
  /\ call[c].pc \in pcs /\ call'[c].pc \in pcs
  /\ call'[c].t = call[c].t /\ call'[c].waited = call[c].waited
  /\ \A d \in Calls \ {c} : call'[d] = call[d]
  /\ kub' = kub

\* Handler c, at a step among pcs, returns and its target gets a view.
Ends(c, pcs, views) ==
  /\ call[c].pc \in pcs /\ call'[c] = Idle
  /\ \A d \in Calls \ {c} : call'[d] = call[d]
  /\ \E view \in views : kub' = [kub EXCEPT ![call[c].t] = view]

LEMMA GotoMoves ==
  ASSUME TypeInv, NEW c \in Calls, NEW pcs, call[c].pc \in pcs,
         NEW pc \in pcs, Goto(c, pc)
  PROVE  Moves(c, pcs) /\ call'[c].pc = pc /\ call'[c].group = call[c].group
BY DEF TypeInv, TypeOK, Goto, Moves

LEMMA ReturnEnds ==
  ASSUME TypeInv, LocksHeld, NEW c \in Calls, Active(c), NEW pcs,
         call[c].pc \in pcs, NEW views, NEW view \in views, Return(c, view)
  PROVE  Ends(c, pcs, views)
<1>1. call[c].waited
  BY DEF LocksHeld, Exclusion
<1>2. call' = [call EXCEPT ![c] = Idle] /\ kub' = [kub EXCEPT ![call[c].t] = view]
  BY <1>1 DEF Return
<1> QED BY <1>2 DEF TypeInv, TypeOK, Ends

\* Handlers of one claim serve one volume, so either both unpublish, for
\* different targets, or their groups are different.
LEMMA Apart ==
  ASSUME TypeInv, LocksHeld, OwnGroups, NEW c \in Calls, NEW d \in Calls, c # d,
         Active(c), Active(d)
  PROVE  /\ call[c].t # call[d].t
         /\ (call[c].pc \in PublishPC /\ call[c].pc \in WithGroup /\ call[d].pc \in WithGroup)
              => call[c].group # call[d].group
<1>1. call[c].t \in Targets /\ call[d].t \in Targets
  BY DEF TypeInv, CallShape
<1>2. call[c].pc \in PublishPC \cup UnpublishPC /\ call[d].pc \in PublishPC \cup UnpublishPC
  BY DEF TypeInv, TypeOK, Active
<1>3. claim[Pvc(call[c].t)] = VolumeOf[call[c].t] /\ claim[Pvc(call[d].t)] = VolumeOf[call[d].t]
  BY <1>1, <1>2 DEF LocksHeld, KubeletKnows, ClaimInUse
<1>4. call[c].t # call[d].t
  BY <1>1, <1>2 DEF LocksHeld, Exclusion
<1>5. ASSUME call[c].pc \in PublishPC, call[c].pc \in WithGroup, call[d].pc \in WithGroup,
             call[c].group = call[d].group
      PROVE  FALSE
  <2>1. Pvc(call[c].t) = Pvc(call[d].t)
    BY <1>5 DEF OwnGroups
  <2>2. VolumeOf[call[c].t] = VolumeOf[call[d].t]
    BY <1>3, <2>1
  <2>3. call[c].pc \in UnpublishPC
    BY <1>1, <2>2 DEF LocksHeld, Exclusion
  <2> QED BY <1>5, <2>3
<1> QED BY <1>4, <1>5

LEMMA LocksKept ==
  ASSUME TypeInv, TypeInv', LocksHeld, OwnGroups, NEW c \in Calls, claim' = claim,
         \/ Moves(c, PublishPC) \/ Ends(c, PublishPC, {"new", "up"})
         \/ Moves(c, UnpublishPC) \/ Ends(c, UnpublishPC, {"leaving", "gone"})
  PROVE  LocksHeld'
<1>1. Active(c) /\ call[c].t \in Targets
  BY DEF Moves, Ends, Active, TypeInv, CallShape
<1>2. Exclusion'
  BY <1>1 DEF LocksHeld, Exclusion, Moves, Ends, Active
<1>3. \A d \in Calls \ {c} : Active(d) => call[d].t # call[c].t
  BY <1>1, Apart
<1>4. KubeletKnows'
  <2>1. ASSUME NEW d \in Calls, d # c, Active(d)
        PROVE  call'[d] = call[d] /\ kub'[call[d].t] = kub[call[d].t]
    <3>1. call[d].t \in Targets /\ call[d].t # call[c].t
      BY <1>3, <2>1 DEF TypeInv, CallShape
    <3> QED BY <2>1, <3>1 DEF Moves, Ends, TypeInv, TypeOK
  <2>2. \A d \in Calls \ {c} : ~Active(d) => call'[d] = call[d]
    BY DEF Moves, Ends
  <2>3. /\ call'[c].pc \in PublishPC => kub'[call'[c].t] = "mounting"
        /\ call'[c].pc \in UnpublishPC => kub'[call'[c].t] = "leaving"
    BY DEF LocksHeld, KubeletKnows, Moves, Ends
  <2> QED BY <2>1, <2>2, <2>3 DEF LocksHeld, KubeletKnows, Active
<1>5. ClaimInUse'
  BY <1>1 DEF LocksHeld, KubeletKnows, ClaimInUse, Moves, Ends, TypeInv, TypeOK
<1> QED BY <1>2, <1>4, <1>5 DEF LocksHeld

LEMMA PublishEffect ==
  ASSUME TypeInv, LocksHeld, NEW c \in Calls, Publish(c)
  PROVE  /\ Moves(c, PublishPC) \/ Ends(c, PublishPC, {"new", "up"})
         /\ claim' = claim
<1> USE DEF clusterVars, nodeVars
<1>1. call[c].pc \in PublishPC /\ Active(c) /\ claim' = claim
  BY DEF Publish, PublishOptions, PublishServer, PublishCheckGroup, PublishMountGroup,
         PublishSaveMeta, PublishCheckTarget, PublishRecheck, PublishBind, PublishRemount, Active
<1>2. ASSUME NEW view \in {"new", "up"}, Return(c, view)
      PROVE  Ends(c, PublishPC, {"new", "up"})
  BY <1>1, <1>2, ReturnEnds
<1>3. ASSUME NEW pc \in PublishPC, Goto(c, pc)
      PROVE  Moves(c, PublishPC)
  BY <1>1, <1>3, GotoMoves
<1>4. CASE PublishOptions(c)
  BY <1>1, <1>2, <1>4 DEF PublishOptions, Moves, TypeInv, TypeOK
<1>5. CASE PublishServer(c)
  BY <1>1, <1>2, <1>5 DEF PublishServer, Moves, TypeInv, TypeOK
<1>6. CASE \/ PublishCheckGroup(c) \/ PublishMountGroup(c) \/ PublishSaveMeta(c)
           \/ PublishCheckTarget(c) \/ PublishRecheck(c) \/ PublishBind(c)
           \/ PublishRemount(c)
  BY <1>1, <1>2, <1>3, <1>6
     DEF PublishCheckGroup, PublishMountGroup, PublishSaveMeta, PublishCheckTarget,
         PublishRecheck, PublishBind, PublishRemount
<1> QED BY <1>1, <1>4, <1>5, <1>6 DEF Publish

LEMMA UnpublishEffect ==
  ASSUME TypeInv, LocksHeld, NEW c \in Calls, Unpublish(c), ~UnpublishPanic(c)
  PROVE  /\ Moves(c, UnpublishPC) \/ Ends(c, UnpublishPC, {"leaving", "gone"})
         /\ claim' = claim
<1> USE DEF clusterVars, nodeVars
<1>1. call[c].pc \in UnpublishPC /\ Active(c) /\ claim' = claim
  BY DEF Unpublish, UnpublishCheck, UnpublishLoadMeta, UnpublishAsLustre,
         UnpublishRemoveLustre, UnpublishUmount, UnpublishRemoveTarget, UnpublishRemoveMeta,
         UnpublishCount, UnpublishUmountGroup, UnpublishRemoveAll, Active
<1>2. ASSUME NEW view \in {"leaving", "gone"}, Return(c, view)
      PROVE  Ends(c, UnpublishPC, {"leaving", "gone"})
  BY <1>1, <1>2, ReturnEnds
<1>3. ASSUME NEW pc \in UnpublishPC, Goto(c, pc)
      PROVE  Moves(c, UnpublishPC)
  BY <1>1, <1>3, GotoMoves
<1>4. CASE UnpublishLoadMeta(c)
  BY <1>1, <1>3, <1>4 DEF UnpublishLoadMeta, Moves, TypeInv, TypeOK
<1>5. CASE \/ UnpublishCheck(c) \/ UnpublishAsLustre(c) \/ UnpublishRemoveLustre(c)
           \/ UnpublishUmount(c)
           \/ UnpublishRemoveTarget(c) \/ UnpublishRemoveMeta(c) \/ UnpublishCount(c)
           \/ UnpublishUmountGroup(c) \/ UnpublishRemoveAll(c)
  BY <1>1, <1>2, <1>3, <1>5
     DEF UnpublishCheck, UnpublishAsLustre, UnpublishRemoveLustre, UnpublishUmount,
         UnpublishRemoveTarget, UnpublishRemoveMeta, UnpublishCount, UnpublishUmountGroup,
         UnpublishRemoveAll
<1> QED BY <1>1, <1>4, <1>5 DEF Unpublish

\* What another handler saw is not disturbed by a step that leaves its meta
\* file, its target and its group alone, or unmounts what it found unmounted.
LEMMA OthersSee ==
  ASSUME TypeInv, NEW d \in Calls, Sees(d), call'[d] = call[d],
         Active(d) => /\ meta'[call[d].t] = meta[call[d].t]
                      /\ tmnt'[call[d].t] = tmnt[call[d].t],
         call[d].pc \in WithGroup =>
           \/ grp'[call[d].group] = grp[call[d].group]
           \/ call[d].pc \in UnpublishPC /\ grp'[call[d].group] = Pop(grp[call[d].group])
  PROVE  Sees(d)'
BY DEF Sees, Active, WithGroup, Pop

\* A step of handler c that changes no mount and no meta file.
LEMMA QuietStep ==
  ASSUME TypeInv, TypeInv', NodeHeld, NEW c \in Calls,
         \A d \in Calls \ {c} : call'[d] = call[d],
         UNCHANGED <<grp, tmnt, meta, wiped>>,
         \A t \in Targets : kub'[t] = "gone" => kub[t] = "gone" \/ tmnt[t] = <<>>,
         \A t \in Targets : tmnt[t] # <<>> /\ t \in tdirs => t \in tdirs',
         call'[c].pc \in WithGroup => call'[c].group[1] = Pvc(call'[c].t),
         Sees(c)'
  PROVE  NodeHeld'
<1>1. OwnGroups'
  BY DEF NodeHeld, OwnGroups, Pvc
<1>2. SingleMounts'
  BY DEF NodeHeld, SingleMounts
<1>3. NodeSafe'
  BY DEF NodeHeld, NodeSafe, MetaCoversBound, NeverLocalDir, GoneIsUnmounted, ShareNotWiped
<1>4. ASSUME NEW d \in Calls PROVE Sees(d)'
  BY OthersSee DEF NodeHeld
<1> QED BY <1>1, <1>2, <1>3, <1>4 DEF NodeHeld

LEMMA PublishKeeps ==
  ASSUME TypeInv, TypeInv', LocksHeld, NodeHeld, NEW c \in Calls, Publish(c)
  PROVE  NodeHeld'
<1> USE DEF clusterVars, nodeVars
<1> DEFINE t == call[c].t
           g == call[c].group
<1>1. /\ call[c].pc \in PublishPC /\ Active(c) /\ t \in Targets
      /\ call \in [Calls -> CallRecord]
      /\ call[c].pc \in WithGroup => g \in Groups /\ g[1] = Pvc(t)
      /\ Sees(c)
  BY PublishEffect DEF Moves, Ends, Active, TypeInv, TypeOK, CallShape, NodeHeld, OwnGroups
<1>2. \A d \in Calls \ {c} : call'[d] = call[d]
  BY PublishEffect DEF Moves, Ends
<1>3. \A u \in Targets : kub'[u] = "gone" => kub[u] = "gone" /\ u # t
  <2>1. kub[t] = "mounting" /\ kub \in [Targets -> KubeletViews]
    BY <1>1 DEF LocksHeld, KubeletKnows, TypeInv, TypeOK
  <2>2. CASE kub' = kub
    BY <2>1, <2>2
  <2>3. CASE \E view \in {"new", "up"} : kub' = [kub EXCEPT ![t] = view]
    BY <1>1, <2>1, <2>3
  <2> QED BY <2>2, <2>3, PublishEffect DEF Moves, Ends
<1>4. \A d \in Calls \ {c} :
        /\ Active(d) => call[d].t # t
        /\ call[c].pc \in WithGroup /\ call[d].pc \in WithGroup => call[d].group # g
  BY <1>1, Apart DEF NodeHeld, Active, WithGroup
<1>5. ASSUME NEW view, Return(c, view)
      PROVE  Sees(c)' /\ call'[c].pc \notin WithGroup
  BY <1>1, <1>5 DEF Return, Sees, WithGroup
<1>6. ASSUME NEW pc \in PublishPC, Goto(c, pc)
      PROVE  call'[c] = [call[c] EXCEPT !.pc = pc]
  BY <1>1, <1>6 DEF Goto
<1>7. CASE PublishOptions(c)
  <2>1. Sees(c)' /\ (call'[c].pc \in WithGroup => call'[c].group[1] = Pvc(call'[c].t))
    BY <1>1, <1>5, <1>7 DEF PublishOptions, GroupPath, Sees
  <2> QED BY <1>2, <1>3, <1>7, <2>1, QuietStep DEF PublishOptions
<1>8. CASE PublishServer(c)
  <2>1. Sees(c)' /\ (call'[c].pc \in WithGroup => call'[c].group[1] = Pvc(call'[c].t))
    BY <1>1, <1>5, <1>8 DEF PublishServer, Sees, WithGroup
  <2> QED BY <1>2, <1>3, <1>8, <2>1, QuietStep DEF PublishServer
<1>9. CASE PublishCheckGroup(c)
  <2>1. Sees(c)' /\ (call'[c].pc \in WithGroup => call'[c].group[1] = Pvc(call'[c].t))
    BY <1>1, <1>5, <1>6, <1>9 DEF PublishCheckGroup, Sees, WithGroup
  <2> QED BY <1>2, <1>3, <1>9, <2>1, QuietStep DEF PublishCheckGroup
<1>10. CASE PublishMountGroup(c)
  <2>1. call[c].pc \in WithGroup /\ call[c].source \in Sources /\ grp[g] = <<>>
    BY <1>1, <1>10 DEF PublishMountGroup, WithGroup, WithSource, Sees, TypeInv, CallShape
  <2>2. grp[g] \in Seq(Sources) /\ grp \in [Groups -> Seq(Sources)]
    BY <1>1, <2>1 DEF TypeInv, TypeOK
  <2> DEFINE stack == Push(grp[g], call[c].source)
  <2>3. stack # <<>> /\ Len(stack) = 1
    <3>1. stack = <<call[c].source>>
      BY <2>1 DEF Push
    <3> QED BY <3>1
  <2> HIDE DEF stack
  <2>4. CASE Return(c, "new") /\ UNCHANGED grp
    <3>1. Sees(c)' /\ call'[c].pc \notin WithGroup
      BY <1>5, <2>4
    <3> QED BY <1>2, <1>3, <1>10, <2>4, <3>1, QuietStep DEF PublishMountGroup
  <2>5. CASE grp' = [grp EXCEPT ![g] = stack]
    <3>1. grp'[g] = stack /\ \A h \in Groups \ {g} : grp'[h] = grp[h]
      BY <1>1, <2>1, <2>2, <2>5
    <3>2. Sees(c)' /\ (call'[c].pc \in WithGroup => call'[c].group[1] = Pvc(call'[c].t))
      BY <1>1, <1>5, <1>6, <1>10, <2>1, <2>3, <3>1 DEF PublishMountGroup, Sees
    <3>3. ASSUME NEW d \in Calls, d # c
          PROVE  Sees(d)'
      <4>1. call[d].pc \in WithGroup => grp'[call[d].group] = grp[call[d].group]
        BY <1>4, <2>1, <3>1, <3>3 DEF TypeInv, CallShape
      <4> QED BY <1>2, <1>10, <3>3, <4>1, OthersSee DEF NodeHeld, PublishMountGroup
    <3>4. OwnGroups'
      BY <1>2, <1>10, <3>2 DEF NodeHeld, OwnGroups, PublishMountGroup, Pvc
    <3>5. SingleMounts'
      <4>1. \A h \in Groups : Len(grp'[h]) <= 1
        <5>1. TAKE h \in Groups
        <5>2. CASE h = g
          <6>1. Len(stack) <= 1
            BY <2>3
          <6>2. grp'[h] = stack
            BY <3>1, <5>2
          <6> QED BY <6>1, <6>2
        <5>3. CASE h # g
          BY <3>1, <5>3 DEF NodeHeld, SingleMounts
        <5> QED BY <5>2, <5>3
      <4> QED BY <1>10, <4>1 DEF NodeHeld, SingleMounts, PublishMountGroup
    <3>6. NodeSafe'
      BY <1>3, <1>10 DEF NodeHeld, NodeSafe, MetaCoversBound, NeverLocalDir, GoneIsUnmounted,
                         ShareNotWiped, PublishMountGroup
    <3> QED BY <3>2, <3>3, <3>4, <3>5, <3>6 DEF NodeHeld
  <2> QED BY <1>10, <2>4, <2>5 DEF PublishMountGroup, stack
<1>11. CASE PublishSaveMeta(c)
  <2>1. call[c].pc \in WithGroup /\ g \in Groups /\ g[1] = Pvc(t) /\ grp[g] # <<>>
    BY <1>1, <1>11 DEF PublishSaveMeta, WithGroup, Sees
  <2>2. CASE Return(c, "new") /\ UNCHANGED meta
    <3>1. Sees(c)' /\ call'[c].pc \notin WithGroup
      BY <1>5, <2>2
    <3> QED BY <1>2, <1>3, <1>11, <2>2, <3>1, QuietStep DEF PublishSaveMeta
  <2> DEFINE m == [group |-> g, source |-> call[c].source]
  <2>3. CASE meta' = [meta EXCEPT ![t] = m] /\ Goto(c, "checkTarget")
    <3>1. m # None /\ m.group[1] = Pvc(t)
      <4>1. m \in Meta
        BY <1>1, <1>11, <2>1 DEF Meta, PublishSaveMeta, WithSource, WithGroup, TypeInv, CallShape
      <4> QED BY <2>1, <4>1, ConstantsAssumption
    <3> HIDE DEF m
    <3>2. meta'[t] = m /\ \A u \in Targets \ {t} : meta'[u] = meta[u]
      BY <1>1, <2>3 DEF TypeInv, TypeOK
    <3>3. call'[c].pc = "checkTarget" /\ call'[c].t = t /\ call'[c].group = g
      BY <1>1, <1>6, <2>3
    <3>4. Sees(c)'
      BY <1>11, <2>1, <3>1, <3>2, <3>3 DEF PublishSaveMeta, Sees
    <3>5. ASSUME NEW d \in Calls, d # c
          PROVE  Sees(d)'
      <4>1. Active(d) => meta'[call[d].t] = meta[call[d].t]
        BY <1>4, <3>2, <3>5 DEF TypeInv, CallShape
      <4> QED BY <1>2, <1>11, <3>5, <4>1, OthersSee DEF NodeHeld, PublishSaveMeta
    <3>6. OwnGroups'
      BY <1>2, <1>11, <2>1, <3>1, <3>2, <3>3 DEF NodeHeld, OwnGroups, PublishSaveMeta, Pvc
    <3>7. SingleMounts'
      BY <1>11 DEF NodeHeld, SingleMounts, PublishSaveMeta
    <3>8. NodeSafe'
      BY <1>3, <1>11, <3>1, <3>2
         DEF NodeHeld, NodeSafe, MetaCoversBound, NeverLocalDir, GoneIsUnmounted,
             ShareNotWiped, PublishSaveMeta
    <3> QED BY <3>4, <3>5, <3>6, <3>7, <3>8 DEF NodeHeld
  <2> QED BY <1>11, <2>2, <2>3 DEF PublishSaveMeta
<1>12. CASE PublishCheckTarget(c)
  <2>1. Sees(c)' /\ (call'[c].pc \in WithGroup => call'[c].group[1] = Pvc(call'[c].t))
    BY <1>1, <1>5, <1>6, <1>12 DEF PublishCheckTarget, Sees, WithGroup
  <2> QED BY <1>2, <1>3, <1>12, <2>1, QuietStep DEF PublishCheckTarget
<1>13. CASE PublishRecheck(c)
  <2>1. Sees(c)' /\ (call'[c].pc \in WithGroup => call'[c].group[1] = Pvc(call'[c].t))
    BY <1>1, <1>5, <1>6, <1>13 DEF PublishRecheck, Sees, WithGroup
  <2> QED BY <1>2, <1>3, <1>13, <2>1, QuietStep DEF PublishRecheck
<1>14. CASE PublishBind(c)
  <2>1. /\ call[c].pc \in WithGroup /\ g \in Groups
        /\ grp[g] # <<>> /\ meta[t] # None /\ tmnt[t] = <<>>
    BY <1>1, <1>14 DEF PublishBind, WithGroup, Sees
  <2>2. CASE Return(c, "new") /\ UNCHANGED tmnt
    <3>1. Sees(c)' /\ call'[c].pc \notin WithGroup
      BY <1>5, <2>2
    <3> QED BY <1>2, <1>3, <1>14, <2>2, <3>1, QuietStep DEF PublishBind
  <2> DEFINE m == Shown(g)
             stack == Push(tmnt[t], m)
  <2>3. CASE /\ t \in tdirs /\ tmnt' = [tmnt EXCEPT ![t] = stack]
             /\ Goto(c, "remount") \/ Return(c, "up") \/ Return(c, "new")
    <3>1. m \in Bind /\ m.src # Local
      BY <2>1, ConstantsAssumption DEF Shown, Bind, TypeInv, TypeOK
    <3> HIDE DEF m
    <3>2. stack = <<m>>
      BY <2>1 DEF Push
    <3> HIDE DEF stack
    <3>3. tmnt'[t] = <<m>> /\ \A u \in Targets \ {t} : tmnt'[u] = tmnt[u]
      BY <1>1, <2>3, <3>2 DEF TypeInv, TypeOK
    <3>4. Sees(c)' /\ (call'[c].pc \in WithGroup => call'[c].group[1] = Pvc(call'[c].t))
      BY <1>1, <1>5, <1>6, <1>14, <2>1, <2>3 DEF PublishBind, Sees
    <3>5. ASSUME NEW d \in Calls, d # c
          PROVE  Sees(d)'
      <4>1. Active(d) => tmnt'[call[d].t] = tmnt[call[d].t]
        BY <1>4, <3>3, <3>5 DEF TypeInv, CallShape
      <4> QED BY <1>2, <1>14, <3>5, <4>1, OthersSee DEF NodeHeld, PublishBind
    <3>6. OwnGroups'
      BY <1>2, <1>14, <3>4 DEF NodeHeld, OwnGroups, PublishBind, Pvc
    <3>7. SingleMounts'
      <4>1. Len(<<m>>) <= 1
        OBVIOUS
      <4>2. \A u \in Targets : Len(tmnt'[u]) <= 1
        <5>1. TAKE u \in Targets
        <5>2. CASE u = t
          <6>1. tmnt'[u] = <<m>>
            BY <3>3, <5>2
          <6> QED BY <4>1, <6>1
        <5>3. CASE u # t
          BY <3>3, <5>3 DEF NodeHeld, SingleMounts
        <5> QED BY <5>2, <5>3
      <4>3. \A u \in Targets : tmnt'[u] # <<>> => u \in tdirs
        BY <2>3, <3>3 DEF NodeHeld, SingleMounts
      <4> QED BY <1>14, <4>2, <4>3 DEF NodeHeld, SingleMounts, PublishBind
    <3>8. NodeSafe'
      BY <1>3, <1>14, <2>1, <3>1, <3>3
         DEF NodeHeld, NodeSafe, MetaCoversBound, NeverLocalDir, GoneIsUnmounted,
             ShareNotWiped, PublishBind
    <3> QED BY <3>4, <3>5, <3>6, <3>7, <3>8 DEF NodeHeld
  <2> QED BY <1>14, <2>2, <2>3 DEF PublishBind
<1>15. CASE PublishRemount(c)
  <2>1. Sees(c)' /\ call'[c].pc \notin WithGroup
    BY <1>5, <1>15 DEF PublishRemount
  <2> QED BY <1>2, <1>3, <1>15, <2>1, QuietStep DEF PublishRemount
<1> QED BY <1>7, <1>8, <1>9, <1>10, <1>11, <1>12, <1>13, <1>14, <1>15 DEF Publish

\* The process dies: no group is mounted and no handler is left to rely on it.
LEMMA DeathKeeps ==
  ASSUME TypeInv, LocksHeld, NodeHeld, ProcessDies,
         \A t \in Targets : tmnt'[t] = tmnt[t] \/ tmnt'[t] = <<>>,
         \A t \in Targets :
           /\ kub'[t] \in {"new", "gone"} => kub'[t] = kub[t]
           /\ kub[t] \in {"new", "gone"} => kub'[t] = kub[t]
  PROVE  LocksHeld' /\ NodeHeld'
<1>1. /\ \A c \in Calls : call'[c] = Idle
      /\ \A g \in Groups : grp'[g] = <<>>
      /\ UNCHANGED <<ann, claim, dirs, tdirs, meta, wiped>>
  BY DEF ProcessDies
<1>2. LocksHeld'
  BY <1>1 DEF LocksHeld, Exclusion, KubeletKnows, ClaimInUse, Active, Pvc
<1>3. OwnGroups'
  BY <1>1 DEF NodeHeld, OwnGroups, WithGroup, Pvc
<1>4. SingleMounts'
  <2>1. Len(<<>>) <= 1
    OBVIOUS
  <2>2. \A g \in Groups : Len(grp'[g]) <= 1
    BY <1>1, <2>1
  <2>3. \A t \in Targets : Len(tmnt'[t]) <= 1 /\ (tmnt'[t] # <<>> => t \in tdirs)
    BY <2>1 DEF NodeHeld, SingleMounts
  <2> QED BY <1>1, <2>2, <2>3 DEF SingleMounts
<1>5. NodeSafe'
  BY <1>1 DEF NodeHeld, NodeSafe, MetaCoversBound, NeverLocalDir, GoneIsUnmounted, ShareNotWiped
<1>6. \A c \in Calls : Sees(c)'
  BY <1>1 DEF Sees
<1> QED BY <1>2, <1>3, <1>4, <1>5, <1>6 DEF NodeHeld

LEMMA UnpublishKeeps ==
  ASSUME TypeInv, TypeInv', LocksHeld, NodeHeld, NEW c \in Calls, Unpublish(c), ~UnpublishPanic(c)
  PROVE  NodeHeld'
<1> USE DEF clusterVars, nodeVars
<1> DEFINE t == call[c].t
           g == call[c].group
<1>1. /\ call[c].pc \in UnpublishPC /\ Active(c) /\ t \in Targets
      /\ call \in [Calls -> CallRecord]
      /\ call[c].pc \in WithGroup => g \in Groups /\ g[1] = Pvc(t)
      /\ Sees(c)
  BY UnpublishEffect DEF Moves, Ends, Active, TypeInv, TypeOK, CallShape, NodeHeld, OwnGroups
<1>2. \A d \in Calls \ {c} : call'[d] = call[d]
  BY UnpublishEffect DEF Moves, Ends
<1>3. \A d \in Calls \ {c} :
        /\ Active(d) => call[d].t # t
        /\ call[c].pc \in WithGroup /\ call[d].pc \in WithGroup /\ call[d].pc \in PublishPC
             => call[d].group # g
  BY <1>1, Apart DEF NodeHeld, Active, WithGroup
<1>4. \A u \in Targets \ {t} : kub'[u] = kub[u]
  BY <1>1, UnpublishEffect DEF Moves, Ends, TypeInv, TypeOK
<1>5. ASSUME NEW view, Return(c, view)
      PROVE  Sees(c)' /\ call'[c].pc \notin WithGroup /\ kub'[t] = view
  BY <1>1, <1>5 DEF Return, Sees, WithGroup, LocksHeld, Exclusion, TypeInv, TypeOK
<1>6. ASSUME NEW pc \in UnpublishPC, Goto(c, pc)
      PROVE  call'[c] = [call[c] EXCEPT !.pc = pc] /\ kub'[t] # "gone"
  BY <1>1, <1>6 DEF Goto, LocksHeld, KubeletKnows
<1>7. CASE UnpublishCheck(c)
  <2>1. Sees(c)' /\ call'[c].pc \notin WithGroup
    BY <1>1, <1>5, <1>6, <1>7 DEF UnpublishCheck, Sees, WithGroup
  <2>2. kub'[t] = "gone" => tmnt[t] = <<>>
    BY <1>1, <1>5, <1>6, <1>7 DEF UnpublishCheck, NodeHeld, SingleMounts
  <2> QED BY <1>2, <1>4, <1>7, <2>1, <2>2, QuietStep DEF UnpublishCheck
<1>8. CASE UnpublishLoadMeta(c)
  <2>1. Sees(c)' /\ (call'[c].pc \in WithGroup => call'[c].group[1] = Pvc(call'[c].t))
    BY <1>1, <1>6, <1>8 DEF UnpublishLoadMeta, Sees, WithGroup, NodeHeld, OwnGroups
  <2>2. kub'[t] # "gone"
    BY <1>1, <1>6, <1>8 DEF UnpublishLoadMeta, LocksHeld, KubeletKnows
  <2> QED BY <1>2, <1>4, <1>8, <2>1, <2>2, QuietStep DEF UnpublishLoadMeta
<1>9. Len(tmnt[t]) <= 1 /\ Pop(tmnt[t]) = <<>> /\ tmnt \in [Targets -> Seq(Bind)]
  <2>1. tmnt[t] \in Seq(Bind) /\ tmnt \in [Targets -> Seq(Bind)]
    BY <1>1 DEF TypeInv, TypeOK
  <2>2. Len(tmnt[t]) <= 1
    BY <1>1 DEF NodeHeld, SingleMounts
  <2> QED BY <2>1, <2>2, PopTypes
\* Both unmounts of a target leave nothing mounted there.
<1>10. ASSUME tmnt' = [tmnt EXCEPT ![t] = Pop(@)], UNCHANGED <<grp, meta, wiped>>,
              Sees(c)',
              \A u \in Targets \ {t} : u \in tdirs => u \in tdirs',
              call'[c].pc \in WithGroup => call'[c].group[1] = Pvc(call'[c].t)
       PROVE  NodeHeld'
  <2>1. tmnt'[t] = <<>> /\ \A u \in Targets \ {t} : tmnt'[u] = tmnt[u]
    BY <1>1, <1>9, <1>10
  <2>2. ASSUME NEW d \in Calls, d # c
        PROVE  Sees(d)'
    <3>1. Active(d) => tmnt'[call[d].t] = tmnt[call[d].t]
      BY <1>3, <2>1, <2>2 DEF TypeInv, CallShape
    <3> QED BY <1>2, <1>10, <2>2, <3>1, OthersSee DEF NodeHeld
  <2>3. OwnGroups'
    BY <1>2, <1>10 DEF NodeHeld, OwnGroups, Pvc
  <2>4. SingleMounts'
    <3>1. Len(<<>>) <= 1
      OBVIOUS
    <3>2. \A u \in Targets : Len(tmnt'[u]) <= 1
      BY <2>1, <3>1 DEF NodeHeld, SingleMounts
    <3> QED BY <1>10, <2>1, <3>2 DEF NodeHeld, SingleMounts
  <2>5. NodeSafe'
    BY <1>4, <1>10, <2>1
       DEF NodeHeld, NodeSafe, MetaCoversBound, NeverLocalDir, GoneIsUnmounted, ShareNotWiped
  <2> QED BY <1>10, <2>2, <2>3, <2>4, <2>5 DEF NodeHeld
<1>11. CASE UnpublishAsLustre(c)
  <2>1. CASE Goto(c, "rmLustre") /\ tmnt' = [tmnt EXCEPT ![t] = Pop(@)]
    <3>1. call'[c].pc = "rmLustre" /\ call'[c].t = t /\ "rmLustre" \notin WithGroup
      BY <1>1, <1>6, <2>1 DEF WithGroup
    <3>2. tmnt'[t] = <<>>
      BY <1>1, <1>9, <2>1
    <3>3. Sees(c)'
      BY <3>1, <3>2 DEF Sees
    <3> QED BY <1>10, <1>11, <2>1, <3>1, <3>3 DEF UnpublishAsLustre
  <2>2. CASE Return(c, "leaving") /\ UNCHANGED tmnt
    <3>1. Sees(c)' /\ call'[c].pc \notin WithGroup /\ kub'[t] # "gone"
      BY <1>5, <2>2
    <3> QED BY <1>2, <1>4, <1>11, <2>2, <3>1, QuietStep DEF UnpublishAsLustre
  <2> QED BY <1>11, <2>1, <2>2 DEF UnpublishAsLustre
<1>12. CASE UnpublishUmount(c)
  <2>0. call[c].pc \in WithGroup
    BY <1>12 DEF UnpublishUmount, WithGroup
  <2>1. CASE Goto(c, "rmTarget") /\ tmnt' = [tmnt EXCEPT ![t] = Pop(@)]
    <3>1. call'[c].pc = "rmTarget" /\ call'[c].t = t /\ call'[c].group = g
      BY <1>1, <1>6, <2>1
    <3>2. tmnt'[t] = <<>>
      BY <1>1, <1>9, <2>1
    <3>3. Sees(c)'
      BY <3>1, <3>2 DEF Sees
    <3> QED BY <1>1, <1>10, <1>12, <2>0, <2>1, <3>1, <3>3 DEF UnpublishUmount, Pvc
  <2>2. CASE Return(c, "leaving") /\ UNCHANGED tmnt
    <3>1. Sees(c)' /\ call'[c].pc \notin WithGroup /\ kub'[t] # "gone"
      BY <1>5, <2>2
    <3> QED BY <1>2, <1>4, <1>12, <2>2, <3>1, QuietStep DEF UnpublishUmount
  <2> QED BY <1>12, <2>1, <2>2 DEF UnpublishUmount
<1>13. CASE UnpublishRemoveTarget(c)
  <2>0. call[c].pc \in WithGroup
    BY <1>13 DEF UnpublishRemoveTarget, WithGroup
  <2>1. Sees(c)' /\ (call'[c].pc \in WithGroup => call'[c].group[1] = Pvc(call'[c].t))
    BY <1>1, <1>5, <1>6, <1>13, <2>0 DEF UnpublishRemoveTarget, Sees, Pvc
  <2>2. kub'[t] # "gone"
    BY <1>5, <1>6, <1>13 DEF UnpublishRemoveTarget
  <2>3. tmnt[t] = <<>>
    BY <1>1, <1>13 DEF UnpublishRemoveTarget, Sees
  <2>4. \A u \in Targets : tmnt[u] # <<>> /\ u \in tdirs => u \in tdirs'
    BY <1>13, <2>3 DEF UnpublishRemoveTarget, Return, Goto
  <2> QED BY <1>2, <1>4, <1>13, <2>1, <2>2, <2>4, QuietStep DEF UnpublishRemoveTarget
<1>14. CASE UnpublishRemoveMeta(c)
  <2>1. /\ call[c].pc \in WithGroup /\ g \in Groups /\ g[1] = Pvc(t) /\ tmnt[t] = <<>>
        /\ call'[c] = [call[c] EXCEPT !.pc = "count"] /\ kub'[t] # "gone"
    BY <1>1, <1>6, <1>14 DEF UnpublishRemoveMeta, WithGroup, Sees
  <2>2. meta'[t] \in {meta[t], None} /\ \A u \in Targets \ {t} : meta'[u] = meta[u]
    BY <1>1, <1>14 DEF UnpublishRemoveMeta, TypeInv, TypeOK
  <2>3. Sees(c)'
    BY <1>1, <1>14, <2>1 DEF UnpublishRemoveMeta, Sees
  <2>4. ASSUME NEW d \in Calls, d # c
        PROVE  Sees(d)'
    <3>1. Active(d) => meta'[call[d].t] = meta[call[d].t]
      BY <1>3, <2>2, <2>4 DEF TypeInv, CallShape
    <3> QED BY <1>2, <1>14, <2>4, <3>1, OthersSee DEF NodeHeld, UnpublishRemoveMeta
  <2>5. OwnGroups'
    <3>1. call'[c].group = g /\ call'[c].t = t
      BY <1>1, <2>1
    <3>2. call'[c].group[1] = Pvc(call'[c].t)
      BY <2>1, <3>1
    <3> QED BY <1>2, <2>2, <3>2 DEF NodeHeld, OwnGroups, Pvc
  <2>6. SingleMounts'
    BY <1>14 DEF NodeHeld, SingleMounts, UnpublishRemoveMeta
  <2>7. NodeSafe'
    BY <1>4, <1>14, <2>1, <2>2
       DEF NodeHeld, NodeSafe, MetaCoversBound, NeverLocalDir, GoneIsUnmounted,
           ShareNotWiped, UnpublishRemoveMeta
  <2> QED BY <2>3, <2>4, <2>5, <2>6, <2>7 DEF NodeHeld
<1>15. CASE UnpublishCount(c)
  <2>1. call[c].pc \in WithGroup /\ tmnt[t] = <<>>
    BY <1>1, <1>15 DEF UnpublishCount, WithGroup, Sees
  <2>2. /\ Goto(c, "umountGroup") \/ Return(c, "gone")
        /\ UNCHANGED nodeVars
    BY <1>15 DEF UnpublishCount
  <2>3. Sees(c)' /\ (call'[c].pc \in WithGroup => call'[c].group[1] = Pvc(call'[c].t))
    BY <1>1, <1>5, <1>6, <2>1, <2>2 DEF Sees, Pvc
  <2> QED BY <1>2, <1>4, <2>1, <2>2, <2>3, QuietStep
<1>16. CASE UnpublishUmountGroup(c)
  <2>1. /\ call[c].pc \in WithGroup /\ g \in Groups /\ g[1] = Pvc(t) /\ tmnt[t] = <<>>
        /\ call'[c] = [call[c] EXCEPT !.pc = "removeAll"] /\ kub'[t] # "gone"
    BY <1>1, <1>6, <1>16 DEF UnpublishUmountGroup, WithGroup, Sees
  <2>2. Len(grp[g]) <= 1 /\ Pop(grp[g]) = <<>>
    <3>1. grp[g] \in Seq(Sources)
      BY <2>1 DEF TypeInv, TypeOK
    <3>2. Len(grp[g]) <= 1
      BY <2>1 DEF NodeHeld, SingleMounts
    <3> QED BY <3>1, <3>2, PopTypes
  <2>3. /\ grp'[g] = Pop(grp[g]) \/ (grp'[g] = grp[g] /\ "umountGroup" \in Faults)
        /\ \A h \in Groups \ {g} : grp'[h] = grp[h]
    BY <1>16, <2>1 DEF UnpublishUmountGroup, MayFail, TypeInv, TypeOK
  <2>4. Sees(c)'
    BY <1>1, <1>16, <2>1, <2>2, <2>3 DEF UnpublishUmountGroup, Sees
  <2>5. ASSUME NEW d \in Calls, d # c
        PROVE  Sees(d)'
    <3>1. call[d].pc \in WithGroup => \/ grp'[call[d].group] = grp[call[d].group]
                                     \/ /\ call[d].pc \in UnpublishPC
                                        /\ grp'[call[d].group] = Pop(grp[call[d].group])
      <4>1. CASE call[d].pc \in WithGroup /\ call[d].group = g
        <5>1. call[d].pc \in UnpublishPC
          BY <1>3, <2>1, <2>5, <4>1 DEF WithGroup
        <5> QED BY <2>3, <4>1, <5>1
      <4>2. CASE call[d].pc \in WithGroup /\ call[d].group # g
        BY <2>3, <2>5, <4>2 DEF TypeInv, CallShape
      <4> QED BY <4>1, <4>2
    <3> QED BY <1>2, <1>16, <2>5, <3>1, OthersSee DEF NodeHeld, UnpublishUmountGroup
  <2>6. OwnGroups'
    <3>1. call'[c].group = g /\ call'[c].t = t
      BY <1>1, <2>1
    <3>2. call'[c].group[1] = Pvc(call'[c].t)
      BY <2>1, <3>1
    <3> QED BY <1>2, <1>16, <3>2 DEF NodeHeld, OwnGroups, Pvc, UnpublishUmountGroup
  <2>7. SingleMounts'
    <3>1. Len(<<>>) <= 1
      OBVIOUS
    <3>2. Len(grp'[g]) <= 1
      BY <2>2, <2>3, <3>1
    <3>3. \A h \in Groups : Len(grp'[h]) <= 1
      <4>1. TAKE h \in Groups
      <4>2. CASE h = g
        BY <3>2, <4>2, Zenon
      <4>3. CASE h # g
        BY <2>3, <4>3 DEF NodeHeld, SingleMounts
      <4> QED BY <4>2, <4>3
    <3> QED BY <1>16, <3>3 DEF NodeHeld, SingleMounts, UnpublishUmountGroup
  <2>8. NodeSafe'
    BY <1>4, <1>16, <2>1
       DEF NodeHeld, NodeSafe, MetaCoversBound, NeverLocalDir, GoneIsUnmounted,
           ShareNotWiped, UnpublishUmountGroup
  <2> QED BY <2>4, <2>5, <2>6, <2>7, <2>8 DEF NodeHeld
<1>17. CASE UnpublishRemoveAll(c)
  <2>1. /\ "umountGroup" \notin Faults => grp[g] = <<>>
        /\ tmnt[t] = <<>> /\ Return(c, "gone")
        /\ UNCHANGED <<clusterVars, grp, tmnt, tdirs, meta>>
    BY <1>1, <1>17 DEF UnpublishRemoveAll, Sees
  <2>2. "umountGroup" \notin Faults => UNCHANGED wiped
    BY <1>17, <2>1 DEF UnpublishRemoveAll
  <2>3. Sees(c)' /\ call'[c].pc \notin WithGroup
    BY <1>5, <2>1
  <2>4. ASSUME NEW d \in Calls, d # c
        PROVE  Sees(d)'
    BY <1>2, <2>1, <2>4, OthersSee DEF NodeHeld
  <2>5. OwnGroups'
    BY <1>2, <2>1, <2>3 DEF NodeHeld, OwnGroups, Pvc
  <2>6. SingleMounts'
    BY <2>1 DEF NodeHeld, SingleMounts
  <2>7. NodeSafe'
    BY <1>4, <2>1, <2>2
       DEF NodeHeld, NodeSafe, MetaCoversBound, NeverLocalDir, GoneIsUnmounted, ShareNotWiped
  <2> QED BY <2>3, <2>4, <2>5, <2>6, <2>7 DEF NodeHeld
<1>18. CASE UnpublishRemoveLustre(c)
  <2>1. Sees(c)' /\ call'[c].pc \notin WithGroup
    BY <1>5, <1>18 DEF UnpublishRemoveLustre
  <2>2. tmnt[t] = <<>>
    BY <1>1, <1>18 DEF UnpublishRemoveLustre, Sees
  <2>3. \A u \in Targets : tmnt[u] # <<>> /\ u \in tdirs => u \in tdirs'
    BY <1>18, <2>2 DEF UnpublishRemoveLustre
  <2> QED BY <1>2, <1>4, <1>18, <2>1, <2>2, <2>3, QuietStep DEF UnpublishRemoveLustre
<1> QED BY <1>7, <1>8, <1>11, <1>12, <1>13, <1>14, <1>15, <1>16, <1>17, <1>18 DEF Unpublish

LEMMA InitIInv == Init => IInv
<1> SUFFICES ASSUME Init PROVE IInv
  OBVIOUS
<1>1. TypeInv
  BY InitType
<1>2. LocksHeld
  BY DEF Init, LocksHeld, Exclusion, KubeletKnows, ClaimInUse, Active
<1>3. NodeHeld
  <2>1. Len(<<>>) <= 1
    OBVIOUS
  <2>2. SingleMounts
    BY <2>1 DEF Init, SingleMounts
  <2>3. OwnGroups /\ NodeSafe /\ \A c \in Calls : Sees(c)
    BY DEF Init, OwnGroups, NodeSafe, MetaCoversBound, NeverLocalDir, GoneIsUnmounted,
           ShareNotWiped, Sees, WithGroup
  <2> QED BY <2>2, <2>3 DEF NodeHeld
<1> QED BY <1>1, <1>2, <1>3, IInvParts

\* The environment touches no mount but by ending the process.
LEMMA NodeUntouched ==
  ASSUME TypeInv, NodeHeld, UNCHANGED nodeVars,
         \A c \in Calls : \/ call'[c] = call[c]
                          \/ call'[c].pc \in {"idle", "options", "check"},
         \A t \in Targets : kub'[t] = "gone" => kub[t] = "gone"
  PROVE  NodeHeld'
<1> USE DEF nodeVars
<1>1. OwnGroups'
  BY DEF NodeHeld, OwnGroups, WithGroup, Pvc
<1>2. SingleMounts'
  BY DEF NodeHeld, SingleMounts
<1>3. NodeSafe'
  BY DEF NodeHeld, NodeSafe, MetaCoversBound, NeverLocalDir, GoneIsUnmounted, ShareNotWiped
<1>4. ASSUME NEW c \in Calls PROVE Sees(c)'
  BY DEF NodeHeld, Sees
<1> QED BY <1>1, <1>2, <1>3, <1>4 DEF NodeHeld

LEMMA EnvironmentKeeps ==
  ASSUME ~Timeouts, TypeInv, LocksHeld, NodeHeld, Environment
  PROVE  LocksHeld' /\ NodeHeld'
<1> USE DEF clusterVars
<1>1. ASSUME NEW c \in Calls, NEW t \in Targets, StartPublish(c, t)
      PROVE  LocksHeld' /\ NodeHeld'
  <2>1. /\ call[c] = Idle /\ UNCHANGED <<claim, nodeVars>>
        /\ call'[c] = [pc |-> "options", t |-> t, group |-> None, source |-> None, waited |-> TRUE]
        /\ \A d \in Calls \ {c} : call'[d] = call[d]
        /\ kub'[t] = "mounting" /\ \A u \in Targets \ {t} : kub'[u] = kub[u]
    BY <1>1 DEF StartPublish, StartCall, TypeInv, TypeOK
  <2>2. \A d \in Calls : Active(d) => VolumeOf[call[d].t] # VolumeOf[t]
    BY <1>1 DEF StartPublish, Waiting, LocksHeld, Exclusion, Active, TypeInv, TypeOK
  <2>3. Exclusion'
    BY <2>1, <2>2 DEF LocksHeld, Exclusion, Active
  <2>4. KubeletKnows'
    <3>1. ASSUME NEW d \in Calls, d # c, Active(d)
          PROVE  call'[d] = call[d] /\ kub'[call[d].t] = kub[call[d].t]
      BY <2>1, <2>2, <3>1 DEF TypeInv, CallShape
    <3> QED BY <2>1, <3>1 DEF LocksHeld, KubeletKnows, Active
  <2>5. ClaimInUse'
    BY <1>1, <2>1 DEF StartPublish, LocksHeld, ClaimInUse, Pvc
  <2>6. NodeHeld'
    BY <2>1, NodeUntouched
  <2> QED BY <2>3, <2>4, <2>5, <2>6 DEF LocksHeld
<1>2. ASSUME NEW c \in Calls, NEW t \in Targets, StartUnpublish(c, t)
      PROVE  LocksHeld' /\ NodeHeld'
  <2>1. /\ call[c] = Idle /\ UNCHANGED <<claim, nodeVars>>
        /\ call'[c] = [pc |-> "check", t |-> t, group |-> None, source |-> None, waited |-> TRUE]
        /\ \A d \in Calls \ {c} : call'[d] = call[d]
        /\ kub'[t] = "leaving" /\ \A u \in Targets \ {t} : kub'[u] = kub[u]
    BY <1>2 DEF StartUnpublish, StartCall, TypeInv, TypeOK
  <2>2. \A d \in Calls : Active(d) =>
          /\ call[d].t # t
          /\ VolumeOf[call[d].t] = VolumeOf[t] => call[d].pc \in UnpublishPC
    BY <1>2 DEF StartUnpublish, Waiting, LocksHeld, Exclusion, Active, TypeInv, TypeOK
  <2>3. Exclusion'
    BY <2>1, <2>2 DEF LocksHeld, Exclusion, Active
  <2>4. KubeletKnows'
    <3>1. ASSUME NEW d \in Calls, d # c, Active(d)
          PROVE  call'[d] = call[d] /\ kub'[call[d].t] = kub[call[d].t]
      BY <2>1, <2>2, <3>1 DEF TypeInv, CallShape
    <3> QED BY <2>1, <3>1 DEF LocksHeld, KubeletKnows, Active
  <2>5. ClaimInUse'
    BY <1>2, <2>1 DEF StartUnpublish, LocksHeld, ClaimInUse, Pvc
  <2>6. NodeHeld'
    BY <2>1, NodeUntouched
  <2> QED BY <2>3, <2>4, <2>5, <2>6 DEF LocksHeld
<1>3. ASSUME NEW c \in Calls, GiveUp(c)
      PROVE  FALSE
  BY <1>3 DEF GiveUp
<1>4. ASSUME NEW t \in Targets, EditAnnotations(t) \/ KubeletForgets(t)
      PROVE  LocksHeld' /\ NodeHeld'
  <2>1. /\ UNCHANGED <<claim, nodeVars, call>>
        /\ kub' = kub \/ (kub[t] = "up" /\ kub' = [kub EXCEPT ![t] = "uncertain"])
    BY <1>4 DEF EditAnnotations, KubeletForgets
  <2>2. NodeHeld'
    BY <2>1, NodeUntouched DEF TypeInv, TypeOK
  <2>3. Exclusion'
    BY <2>1 DEF LocksHeld, Exclusion, Active
  <2>4. KubeletKnows' /\ ClaimInUse'
    <3>1. \A u \in Targets : \/ kub'[u] = kub[u]
                             \/ kub[u] = "up" /\ kub'[u] = "uncertain"
      BY <2>1 DEF TypeInv, TypeOK
    <3>2. \A d \in Calls : Active(d) => call[d].t \in Targets
      BY DEF TypeInv, CallShape
    <3> QED BY <2>1, <3>1, <3>2 DEF LocksHeld, KubeletKnows, ClaimInUse, Active, Pvc
  <2> QED BY <2>2, <2>3, <2>4 DEF LocksHeld
<1>5. ASSUME NEW p \in PVCs, NEW v \in Volumes, RecreateClaim(p, v)
      PROVE  LocksHeld' /\ NodeHeld'
  <2>1. /\ UNCHANGED <<kub, nodeVars, call>>
        /\ claim' = [claim EXCEPT ![p] = v]
        /\ \A t \in Targets : VolumeOf[t] = claim[p] => kub[t] \in {"new", "gone"}
    BY <1>5 DEF RecreateClaim
  <2>2. NodeHeld'
    BY <2>1, NodeUntouched
  <2>3. ClaimInUse'
    BY <2>1 DEF LocksHeld, ClaimInUse, Pvc, TypeInv, TypeOK
  <2>4. Exclusion' /\ KubeletKnows'
    BY <2>1 DEF LocksHeld, Exclusion, KubeletKnows, Active
  <2> QED BY <2>2, <2>3, <2>4 DEF LocksHeld
<1>6. CASE ContainerRestart
  BY <1>6, DeathKeeps DEF ContainerRestart
<1>7. CASE NodeReboot
  BY <1>7, DeathKeeps DEF NodeReboot
<1> QED BY <1>1, <1>2, <1>3, <1>4, <1>5, <1>6, <1>7 DEF Environment

LEMMA IInvStep ==
  ASSUME ~Timeouts, IInv, [Next]_vars
  PROVE  IInv'
<1>1. TypeInv /\ LocksHeld /\ NodeHeld /\ TypeInv'
  BY IInvParts, TypeStep
<1>2. LocksHeld' /\ NodeHeld' => IInv'
  BY <1>1 DEF IInv, TypeInv, LocksHeld, NodeHeld
<1>3. CASE UNCHANGED vars
  BY <1>3 DEF vars, IInv, TypeOK, CallShape, Active, Exclusion, KubeletKnows, ClaimInUse,
              OwnGroups, SingleMounts, Sees, NodeSafe, MetaCoversBound, NeverLocalDir,
              GoneIsUnmounted, ShareNotWiped
<1>4. CASE Environment
  BY <1>1, <1>2, <1>4, EnvironmentKeeps
<1>5. ASSUME NEW c \in Calls, Publish(c)
      PROVE  IInv'
  <2>1. LocksHeld'
    BY <1>1, <1>5, PublishEffect, LocksKept DEF NodeHeld
  <2> QED BY <1>1, <1>2, <1>5, <2>1, PublishKeeps
<1>6. ASSUME NEW c \in Calls, Unpublish(c), ~UnpublishPanic(c)
      PROVE  IInv'
  <2>1. LocksHeld'
    BY <1>1, <1>6, UnpublishEffect, LocksKept DEF NodeHeld
  <2> QED BY <1>1, <1>2, <1>6, <2>1, UnpublishKeeps
<1>7. ASSUME NEW c \in Calls, UnpublishPanic(c)
      PROVE  IInv'
  BY <1>1, <1>2, <1>7, DeathKeeps DEF UnpublishPanic
<1> QED BY <1>3, <1>4, <1>5, <1>6, <1>7 DEF Next

LEMMA Invariance == ASSUME ~Timeouts PROVE Spec => []IInv
<1>1. IInv /\ [Next]_vars => IInv'
  BY IInvStep
<1> QED BY InitIInv, <1>1, PTL DEF Spec

\* However handlers of one node interleave, and whatever fails, restarts or
\* is edited, a bound target keeps its meta file (nodeserver.go:554, 642),
\* provided that the kubelet waits for its calls.
THEOREM MetaCoversBoundHolds == ASSUME ~Timeouts PROVE Spec => []MetaCoversBound
<1>1. IInv => MetaCoversBound
  BY DEF IInv, NodeSafe
<1> QED BY <1>1, Invariance, PTL

\* Under the same assumption no pod is given a directory of the node in place
\* of its share (nodeserver.go:549, 583).
THEOREM NeverLocalDirHolds == ASSUME ~Timeouts PROVE Spec => []NeverLocalDir
<1>1. IInv => NeverLocalDir
  BY DEF IInv, NodeSafe
<1> QED BY <1>1, Invariance, PTL

\* And a target reported unpublished has no mount left (nodeserver.go:632-664).
THEOREM GoneIsUnmountedHolds == ASSUME ~Timeouts PROVE Spec => []GoneIsUnmounted
<1>1. IInv => GoneIsUnmounted
  BY DEF IInv, NodeSafe
<1> QED BY <1>1, Invariance, PTL

\* If, besides, unmounting a group never fails, os.RemoveAll deletes no file
\* of the share (nodeserver.go:688-700).
THEOREM ShareNotWipedHolds ==
  ASSUME ~Timeouts, "umountGroup" \notin Faults PROVE Spec => []ShareNotWiped
<1>1. IInv => ShareNotWiped
  BY DEF IInv, NodeSafe
<1> QED BY <1>1, Invariance, PTL
=============================================================================
