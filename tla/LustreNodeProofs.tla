--------------------------- MODULE LustreNodeProofs --------------------------
(***************************************************************************)
(* Theorems about LustreNode for any targets, mounts, faults and handlers. *)
(***************************************************************************)
EXTENDS LustreNode, TLAPS

USE DEF At, StageOps, PublishOps, UnpublishOps, Anything, node, history, MayFail, Fine

Views      == {"new", "mounting", "uncertain", "up", "leaving", "gone"}
CallRecord == [pc : {"idle"} \cup Anything, t : Targets \cup {None}, waited : BOOLEAN]
Active(c)  == call[c].pc # "idle"

UnstageOps == {"unstageCheck", "unstageUmount", "unstageRemove"}

-----------------------------------------------------------------------------
(***************************************************************************)
(* The inductive invariant.                                                *)
(***************************************************************************)
\* A call on a target has one.
CallShape == \A c \in Calls : call[c].pc \in PublishOps \cup UnpublishOps => call[c].t \in Targets

TypeInv == TypeOK /\ CallShape

\* The part of it that answers change, and the part that they do not.
CallsTyped ==
  /\ call \in [Calls -> CallRecord] /\ CallShape
  /\ kub \in [Targets -> Views] /\ dev \in {"no", "uncertain", "yes"}

NodeTyped ==
  /\ staged \in Mounts \cup {None} /\ sdir \in BOOLEAN /\ wiped \in BOOLEAN
  /\ tmnt \in [Targets -> Seq(Mounts \cup {Local})]
  /\ tdirs \subseteq Targets /\ roFs \subseteq Mounts

HistoryTyped == faults \in 0..MaxFaults /\ cut \subseteq Targets /\ late \in BOOLEAN

\* The kubelet waits for whatever runs, and two calls that run at a time are
\* unpublishes of two targets.
Alone ==
  /\ \A c \in Calls : Active(c) => call[c].waited
  /\ \A c, d \in Calls : c # d /\ Active(c) /\ Active(d) =>
       /\ call[c].pc \in UnpublishOps /\ call[d].pc \in UnpublishOps
       /\ call[c].t # call[d].t

\* What the kubelet takes a call's target and its staging path for, and what
\* the handler has found out so far.
Found(c) ==
  /\ call[c].pc \in PublishOps => kub[call[c].t] = "mounting" /\ dev # "no" /\ staged # None
  /\ call[c].pc \in UnpublishOps => kub[call[c].t] = "leaving"
  /\ call[c].pc \in StageOps => dev = "uncertain"
  /\ call[c].pc \in UnstageOps => \A t \in Targets : kub[t] \in {"new", "gone"}
  /\ call[c].pc = "unstageRemove" => staged = None
  /\ call[c].pc \in {"pubBind", "unpubRemove"} => tmnt[call[c].t] = <<>>

\* What the kubelet takes the staging path for when nobody changes it.
Staged ==
  /\ dev = "no" => staged = None /\ \A t \in Targets : kub[t] \in {"new", "gone"}
  /\ dev = "yes" => staged # None

\* One bind at most is on a target, of the volume, where the kubelet's view
\* says so, and read-only if it is to be.
Bound(t) ==
  /\ Len(tmnt[t]) <= 1
  /\ tmnt[t] # <<>> => t \in tdirs /\ Head(tmnt[t]) \in Mounts
  /\ kub[t] = "gone" => tmnt[t] = <<>>
  /\ kub[t] = "up" => tmnt[t] # <<>>
  /\ t \in ReadOnly /\ tmnt[t] # <<>> =>
       \/ t \in cut \/ Head(tmnt[t]) \in roFs
       \/ \E c \in Calls : call[c].pc = "pubRemount" /\ call[c].t = t

Orderly == Alone /\ (\A c \in Calls : Found(c)) /\ Staged /\ (\A t \in Targets : Bound(t)) /\ ~wiped

NodeInv == TypeInv /\ (~late => Orderly)

-----------------------------------------------------------------------------
(***************************************************************************)
(* Types.                                                                  *)
(***************************************************************************)
LEMMA TypeParts == TypeInv <=> CallsTyped /\ NodeTyped /\ HistoryTyped
BY DEF TypeInv, TypeOK, CallsTyped, NodeTyped, HistoryTyped, CallRecord, Views

LEMMA TypePartsNext == TypeInv' <=> CallsTyped' /\ NodeTyped' /\ HistoryTyped'
BY DEF TypeInv, TypeOK, CallsTyped, NodeTyped, HistoryTyped, CallRecord, Views, CallShape

\* What a handler's step does to the calls and the views.
LEMMA GotoStep ==
  ASSUME CallsTyped, NEW c \in Calls, NEW pc \in Anything, Goto(c, pc),
         pc \in PublishOps \cup UnpublishOps => call[c].t \in Targets
  PROVE  /\ CallsTyped'
         /\ kub' = kub /\ dev' = dev
         /\ call'[c].pc = pc /\ call'[c].t = call[c].t /\ call'[c].waited = call[c].waited
         /\ \A d \in Calls \ {c} : call'[d] = call[d]
<1>1. call \in [Calls -> CallRecord]
  BY DEF CallsTyped
<1>2. call' = [call EXCEPT ![c].pc = pc] /\ kub' = kub /\ dev' = dev
  BY DEF Goto
<1>3. call' \in [Calls -> CallRecord]
  BY <1>1, <1>2 DEF CallRecord
<1>4. /\ call'[c].pc = pc /\ call'[c].t = call[c].t /\ call'[c].waited = call[c].waited
      /\ \A d \in Calls \ {c} : call'[d] = call[d]
  BY <1>1, <1>2 DEF CallRecord
<1>5. CallShape'
  BY <1>4 DEF CallShape, CallsTyped
<1> QED BY <1>2, <1>3, <1>4, <1>5 DEF CallsTyped

LEMMA StopStep ==
  ASSUME CallsTyped, NEW c \in Calls, Stop(c)
  PROVE  /\ call' \in [Calls -> CallRecord] /\ CallShape'
         /\ call'[c] = Idle /\ call'[c].pc = "idle"
         /\ \A d \in Calls \ {c} : call'[d] = call[d]
<1>1. call \in [Calls -> CallRecord]
  BY DEF CallsTyped
<1>2. call' = [call EXCEPT ![c] = Idle] /\ Idle \in CallRecord /\ Idle.pc = "idle"
  BY DEF Stop, Idle, CallRecord
<1> QED BY <1>1, <1>2 DEF CallShape, CallsTyped, Idle

LEMMA ReturnStep ==
  ASSUME CallsTyped, NEW c \in Calls, NEW view \in Views, Return(c, view), call[c].t \in Targets
  PROVE  /\ CallsTyped'
         /\ call'[c] = Idle /\ call'[c].pc = "idle"
         /\ \A d \in Calls \ {c} : call'[d] = call[d]
         /\ dev' = dev
         /\ ~call[c].waited => kub' = kub
         /\ call[c].waited =>
              /\ kub'[call[c].t] = view
              /\ \A t \in Targets \ {call[c].t} : kub'[t] = kub[t]
<1>1. kub' \in [Targets -> Views]
  BY DEF Return, CallsTyped
<1> QED BY <1>1, StopStep DEF Return, CallsTyped

LEMMA ReturnDevStep ==
  ASSUME CallsTyped, NEW c \in Calls, NEW view \in {"no", "uncertain", "yes"}, ReturnDev(c, view)
  PROVE  /\ CallsTyped'
         /\ call'[c] = Idle /\ call'[c].pc = "idle"
         /\ \A d \in Calls \ {c} : call'[d] = call[d]
         /\ kub' = kub /\ dev' \in {dev, view}
         /\ call[c].waited => dev' = view
BY StopStep DEF ReturnDev, CallsTyped

LEMMA InitType == Init => TypeInv
<1> SUFFICES ASSUME Init PROVE CallsTyped /\ NodeTyped /\ HistoryTyped
  BY TypeParts
<1>1. CallsTyped
  BY DEF Init, Idle, CallShape, CallRecord, CallsTyped, Views
<1>2. NodeTyped
  <2>1. sdir \in BOOLEAN /\ wiped \in BOOLEAN
    BY DEF Init
  <2>2. tmnt \in [Targets -> Seq(Mounts \cup {Local})]
    BY DEF Init
  <2> QED BY <2>1, <2>2 DEF Init, NodeTyped
<1>3. HistoryTyped
  <2>1. late \in BOOLEAN
    BY DEF Init
  <2>2. faults \in 0..MaxFaults /\ cut \subseteq Targets
    BY ConstantsAssumption DEF Init
  <2> QED BY <2>1, <2>2 DEF HistoryTyped
<1> QED BY <1>1, <1>2, <1>3

LEMMA StageType ==
  ASSUME CallsTyped, NodeTyped, NEW c \in Calls, Stage(c) \/ Unstage(c)
  PROVE  CallsTyped' /\ NodeTyped'
<1>1. CallsTyped'
  BY GotoStep, ReturnDevStep
  DEF Stage, Unstage, StageCheck, StageNid, StageMount, UnstageCheck, UnstageUmount, UnstageRemove
<1>2. ASSUME Stage(c) PROVE NodeTyped'
  BY <1>2 DEF Stage, StageCheck, StageNid, StageMount, NodeTyped
<1>3. ASSUME Unstage(c) PROVE NodeTyped'
  BY <1>3 DEF Unstage, UnstageCheck, UnstageUmount, UnstageRemove, NodeTyped
<1> QED BY <1>1, <1>2, <1>3

LEMMA PublishType ==
  ASSUME CallsTyped, NodeTyped, NEW c \in Calls, Publish(c) \/ Unpublish(c)
  PROVE  CallsTyped' /\ NodeTyped' /\ call[c].t \in Targets
<1>1. call[c].t \in Targets
  BY DEF CallsTyped, CallShape, Publish, Unpublish, PublishCheck, PublishBind, PublishRemount,
         UnpublishCheck, UnpublishUmount, UnpublishRemove
<1>2. CallsTyped'
  BY <1>1, GotoStep, ReturnStep
  DEF Publish, Unpublish, PublishCheck, PublishBind, PublishRemount,
      UnpublishCheck, UnpublishUmount, UnpublishRemove, Views
<1>3. ASSUME PublishCheck(c) \/ UnpublishCheck(c) \/ UnpublishRemove(c) PROVE NodeTyped'
  BY <1>1, <1>3 DEF PublishCheck, UnpublishCheck, UnpublishRemove, NodeTyped
<1>4. ASSUME PublishBind(c) PROVE NodeTyped'
  <2> DEFINE m == IF staged = None THEN Local ELSE staged
  <2>1. tmnt[call[c].t] \in Seq(Mounts \cup {Local}) /\ m \in Mounts \cup {Local}
    BY <1>1 DEF NodeTyped
  <2>2. <<m>> \o tmnt[call[c].t] \in Seq(Mounts \cup {Local})
    BY <2>1
  <2>3. tmnt' = tmnt \/ tmnt' = [tmnt EXCEPT ![call[c].t] = <<m>> \o tmnt[call[c].t]]
    BY <1>4 DEF PublishBind
  <2>4. tmnt' \in [Targets -> Seq(Mounts \cup {Local})]
    BY <2>2, <2>3 DEF NodeTyped
  <2> QED BY <1>4, <2>4 DEF PublishBind, NodeTyped
<1>5. ASSUME PublishRemount(c) PROVE NodeTyped'
  <2>1. tmnt[call[c].t] # <<>> => Head(tmnt[call[c].t]) \in Mounts \cup {Local}
    BY <1>1 DEF NodeTyped
  <2> QED BY <1>5, <2>1 DEF PublishRemount, NodeTyped
<1>6. ASSUME UnpublishUmount(c) PROVE NodeTyped'
  <2>1. tmnt[call[c].t] # <<>> => Tail(tmnt[call[c].t]) \in Seq(Mounts \cup {Local})
    BY <1>1 DEF NodeTyped
  <2>2. tmnt' \in [Targets -> Seq(Mounts \cup {Local})]
    BY <1>1, <1>6, <2>1 DEF UnpublishUmount, NodeTyped
  <2> QED BY <1>6, <2>2 DEF UnpublishUmount, NodeTyped
<1> QED BY <1>1, <1>2, <1>3, <1>4, <1>5, <1>6 DEF Publish, Unpublish

\* What the start of a call does to the calls.
LEMMA StartStep ==
  ASSUME CallsTyped, NEW c \in Calls, NEW pc \in Anything, NEW t \in Targets \cup {None},
         StartCall(c, pc, t), pc \in PublishOps \cup UnpublishOps => t \in Targets
  PROVE  /\ call' \in [Calls -> CallRecord] /\ CallShape'
         /\ call[c] = Idle /\ call'[c].pc = pc /\ call'[c].t = t /\ call'[c].waited
         /\ \A d \in Calls \ {c} : call'[d] = call[d]
         /\ UNCHANGED <<node, history>>
<1>1. call \in [Calls -> CallRecord]
  BY DEF CallsTyped
<1>2. call' = [call EXCEPT ![c] = [pc |-> pc, t |-> t, waited |-> TRUE]]
  BY DEF StartCall
<1>3. call' \in [Calls -> CallRecord]
  BY <1>1, <1>2 DEF CallRecord
<1>4. call'[c] = [pc |-> pc, t |-> t, waited |-> TRUE] /\ \A d \in Calls \ {c} : call'[d] = call[d]
  BY <1>1, <1>2
<1>5. call'[c].pc = pc /\ call'[c].t = t /\ call'[c].waited
  BY <1>4
<1>6. CallShape'
  BY <1>4, <1>5 DEF CallShape, CallsTyped
<1> QED BY <1>3, <1>4, <1>5, <1>6 DEF StartCall

LEMMA EnvironmentType ==
  ASSUME CallsTyped, NodeTyped, Environment
  PROVE  CallsTyped' /\ NodeTyped'
<1>1. ASSUME NEW c \in Calls, StartStage(c) \/ StartUnstage(c)
      PROVE  CallsTyped' /\ NodeTyped'
  BY <1>1, StartStep DEF StartStage, StartUnstage, CallsTyped, NodeTyped
<1>2. ASSUME NEW c \in Calls, NEW t \in Targets, StartPublish(c, t) \/ StartUnpublish(c, t)
      PROVE  CallsTyped' /\ NodeTyped'
  <2>1. kub' \in [Targets -> Views] /\ dev' = dev
    BY <1>2 DEF StartPublish, StartUnpublish, CallsTyped, Views
  <2> QED BY <1>2, <2>1, StartStep DEF StartPublish, StartUnpublish, CallsTyped, NodeTyped
<1>3. ASSUME NEW c \in Calls, GiveUp(c) PROVE CallsTyped' /\ NodeTyped'
  <2>1. call' \in [Calls -> CallRecord] /\ CallShape'
    BY <1>3 DEF GiveUp, CallRecord, CallShape, CallsTyped
  <2>2. kub' \in [Targets -> Views]
    BY <1>3 DEF GiveUp, CallsTyped, Views
  <2> QED BY <1>3, <2>1, <2>2 DEF GiveUp, CallsTyped, NodeTyped
<1>4. ASSUME KubeletRestart PROVE CallsTyped' /\ NodeTyped'
  <2>1. kub' \in [Targets -> Views] /\ dev' \in {"no", "uncertain", "yes"}
    BY <1>4 DEF KubeletRestart, Uncertain, CallsTyped, Views
  <2>2. call' \in [Calls -> CallRecord] /\ CallShape'
    BY <1>4 DEF KubeletRestart, CallsTyped, CallShape
  <2> QED BY <1>4, <2>1, <2>2 DEF KubeletRestart, CallsTyped, NodeTyped
<1>5. ASSUME ContainerRestart \/ NodeReboot PROVE CallsTyped' /\ NodeTyped'
  <2>1. call' \in [Calls -> CallRecord] /\ CallShape'
    <3>1. call' = [c \in Calls |-> Idle]
      BY <1>5 DEF ContainerRestart, NodeReboot, ProcessDies
    <3>2. Idle \in CallRecord /\ Idle.pc = "idle"
      BY DEF Idle, CallRecord
    <3> QED BY <3>1, <3>2 DEF CallShape
  <2>2. kub' \in [Targets -> Views] /\ dev' \in {"no", "uncertain", "yes"}
    BY <1>5 DEF ContainerRestart, NodeReboot, Uncertain, CallsTyped, Views
  <2>3. NodeTyped'
    <3>1. tmnt' \in [Targets -> Seq(Mounts \cup {Local})]
      <4>1. tmnt' = tmnt \/ tmnt' = [t \in Targets |-> <<>>]
        BY <1>5 DEF ContainerRestart, NodeReboot
      <4>2. [t \in Targets |-> <<>>] \in [Targets -> Seq(Mounts \cup {Local})]
        OBVIOUS
      <4>3. tmnt \in [Targets -> Seq(Mounts \cup {Local})]
        BY DEF NodeTyped
      <4> QED BY <4>1, <4>2, <4>3, Zenon
    <3>2. sdir' = sdir /\ wiped' = wiped /\ tdirs' = tdirs
      BY <1>5 DEF ContainerRestart, NodeReboot, ProcessDies
    <3>3. staged' \in Mounts \cup {None} /\ roFs' \subseteq Mounts
      BY <1>5 DEF ContainerRestart, NodeReboot, NodeTyped
    <3> QED BY <3>1, <3>2, <3>3 DEF NodeTyped
  <2> QED BY <2>1, <2>2, <2>3 DEF CallsTyped
<1> QED BY <1>1, <1>2, <1>3, <1>4, <1>5 DEF Environment

LEMMA HistoryType ==
  ASSUME CallsTyped, HistoryTyped, Next
  PROVE  HistoryTyped' /\ (late => late')
<1>1. ASSUME Environment PROVE HistoryTyped' /\ (late => late')
  <2>1. cut' \subseteq Targets
    BY <1>1 DEF Environment, StartStage, StartUnstage, StartPublish, StartUnpublish, StartCall,
                GiveUp, KubeletRestart, ContainerRestart, NodeReboot, HistoryTyped, CallsTyped,
                CallShape
  <2>2. faults' \in 0..MaxFaults
    BY <1>1, ConstantsAssumption
    DEF Environment, StartStage, StartUnstage, StartPublish, StartUnpublish, StartCall,
        GiveUp, KubeletRestart, ContainerRestart, NodeReboot, HistoryTyped
  <2>3. late' \in BOOLEAN /\ (late => late')
    BY <1>1
    DEF Environment, StartStage, StartUnstage, StartPublish, StartUnpublish, StartCall,
        GiveUp, KubeletRestart, ContainerRestart, NodeReboot, ProcessDies, HistoryTyped
  <2> QED BY <2>1, <2>2, <2>3 DEF HistoryTyped
<1>2. ASSUME NEW c \in Calls, Handler(c) PROVE HistoryTyped' /\ (late => late')
  <2> USE DEF Handler, Stage, Unstage, Publish, Unpublish, StageCheck, StageNid, StageMount,
          UnstageCheck, UnstageUmount, UnstageRemove, PublishCheck, PublishBind, PublishRemount,
          UnpublishCheck, UnpublishUmount, UnpublishRemove
  <2>1. cut' \subseteq Targets
    BY <1>2 DEF HistoryTyped, CallsTyped, CallShape
  <2>2. faults' \in 0..MaxFaults
    BY <1>2, ConstantsAssumption DEF HistoryTyped
  <2>3. late' = late
    BY <1>2
  <2> QED BY <2>1, <2>2, <2>3 DEF HistoryTyped
<1> QED BY <1>1, <1>2 DEF Next

LEMMA NextType == TypeInv /\ [Next]_vars => TypeInv'
<1>1. ASSUME TypeInv, Next PROVE TypeInv'
  BY <1>1, TypeParts, TypePartsNext, EnvironmentType, StageType, PublishType, HistoryType
  DEF Next, Handler
<1>2. ASSUME TypeInv, UNCHANGED vars PROVE TypeInv'
  BY <1>2 DEF vars, TypeInv, TypeOK, CallShape
<1> QED BY <1>1, <1>2

\* Every variable of the node keeps its shape.
THEOREM LustreTypes == Spec => []TypeOK
<1>1. TypeInv => TypeOK
  BY DEF TypeInv
<1> QED BY <1>1, InitType, NextType, PTL DEF Spec

-----------------------------------------------------------------------------
(***************************************************************************)
(* The order the kubelet keeps, step by step, while it waits.              *)
(***************************************************************************)
\* Whatever is not an unpublish runs alone; an unpublish runs with its kind.
LEMMA RunsAlone ==
  ASSUME Alone, NEW c \in Calls, Active(c)
  PROVE  /\ call[c].waited
         /\ call[c].pc \notin UnpublishOps => \A d \in Calls \ {c} : call[d].pc = "idle"
         /\ \A d \in Calls \ {c} :
              call[d].pc = "idle" \/ (call[d].pc \in UnpublishOps /\ call[d].t # call[c].t)
BY DEF Alone, Active

\* A call that goes on or ends leaves the others to themselves.
LEMMA StaysAlone ==
  ASSUME Alone, NEW c \in Calls, Active(c),
         \A d \in Calls \ {c} : call'[d] = call[d],
         \/ call'[c] = Idle
         \/ /\ call'[c].waited = call[c].waited /\ call'[c].t = call[c].t
            /\ call[c].pc \in UnpublishOps => call'[c].pc \in UnpublishOps
  PROVE  Alone'
<1>1. ASSUME NEW d \in Calls, call'[d].pc # "idle"
      PROVE  call[d].pc # "idle" /\ call'[d].waited /\ call'[d].t = call[d].t
             /\ (call[d].pc \in UnpublishOps => call'[d].pc \in UnpublishOps)
  BY <1>1 DEF Alone, Active, Idle
<1> QED BY <1>1 DEF Alone, Active

LEMMA StageOrderly ==
  ASSUME NodeInv, ~late, NEW c \in Calls, Stage(c)
  PROVE  Orderly'
<1> USE DEF NodeInv, Orderly
<1>1. /\ CallsTyped /\ NodeTyped /\ Active(c) /\ call[c].pc \in StageOps
      /\ call[c].pc \notin UnpublishOps
  BY TypeParts DEF Stage, StageCheck, StageNid, StageMount, Active
<1>2. call[c].waited /\ \A d \in Calls \ {c} : call[d].pc = "idle"
  BY <1>1, RunsAlone
<1>3. /\ kub' = kub /\ \A d \in Calls \ {c} : call'[d] = call[d]
      /\ \/ call'[c] = Idle /\ call'[c].pc = "idle"
         \/ /\ call'[c].pc \in {"stageNid", "stageMount"} /\ dev' = dev
            /\ call'[c].t = call[c].t /\ call'[c].waited = call[c].waited
  BY <1>1, GotoStep, ReturnDevStep DEF Stage, StageCheck, StageNid, StageMount
<1>4. /\ dev' \in {"uncertain", "yes"} /\ (dev' = "yes" => staged' # None)
      /\ dev = "uncertain"
  <2>1. dev = "uncertain"
    BY <1>1 DEF Found
  <2>2. None \notin Mounts
    BY ConstantsAssumption
  <2>3. ASSUME StageCheck(c) PROVE dev' \in {"uncertain", "yes"} /\ (dev' = "yes" => staged' # None)
    BY <1>1, <1>2, <2>1, <2>3, GotoStep, ReturnDevStep DEF StageCheck
  <2>4. ASSUME StageNid(c) PROVE dev' \in {"uncertain", "yes"} /\ (dev' = "yes" => staged' # None)
    BY <1>1, <1>2, <2>1, <2>4, GotoStep, ReturnDevStep DEF StageNid
  <2>5. ASSUME StageMount(c) PROVE dev' \in {"uncertain", "yes"} /\ (dev' = "yes" => staged' # None)
    <3>1. ReturnDev(c, "yes") => staged' \in Mounts
      BY <1>2, <2>5 DEF StageMount, ReturnDev
    <3> QED BY <1>1, <1>2, <2>2, <2>5, <3>1, ReturnDevStep DEF StageMount
  <2> QED BY <2>1, <2>3, <2>4, <2>5 DEF Stage
<1>5. Alone'
  BY <1>1, <1>3, StaysAlone
<1>6. ASSUME NEW d \in Calls PROVE Found(d)'
  <2>1. call'[d].pc = "idle" \/ (call'[d].pc \in {"stageNid", "stageMount"} /\ dev' = "uncertain")
    <3>1. CASE d = c
      BY <1>3, <1>4, <3>1
    <3>2. CASE d # c
      BY <1>2, <1>3, <3>2
    <3> QED BY <3>1, <3>2
  <2> QED BY <2>1 DEF Found, UnstageOps
<1>7. Staged'
  BY <1>4 DEF Staged
<1>8. ASSUME NEW t \in Targets PROVE Bound(t)'
  <2>1. tmnt' = tmnt /\ tdirs' = tdirs /\ cut' = cut
    BY DEF Stage, StageCheck, StageNid, StageMount
  <2>2. tmnt[t] # <<>> /\ Head(tmnt[t]) \in roFs => Head(tmnt[t]) \in roFs'
    <3>1. ASSUME StageMount(c), tmnt[t] # <<>> PROVE roFs' = roFs \/ Head(tmnt[t]) # staged'
      <4>1. tmnt[t] \in Seq(Mounts \cup {Local})
        BY <1>1 DEF NodeTyped
      <4>2. Visible(tmnt[t][1])
        BY <3>1, <4>1 DEF Visible
      <4>3. roFs' = roFs \/ ~Visible(staged')
        BY <3>1 DEF StageMount
      <4>4. Head(tmnt[t]) = tmnt[t][1]
        BY <3>1, <4>1
      <4> QED BY <4>2, <4>3, <4>4
    <3>2. roFs' = roFs \/ (StageMount(c) /\ roFs' = roFs \ {staged'})
      BY DEF Stage, StageCheck, StageNid, StageMount
    <3> QED BY <3>1, <3>2
  <2>3. \A d \in Calls : call[d].pc # "pubRemount"
    BY <1>1, <1>2
  <2> QED BY <1>3, <2>1, <2>2, <2>3 DEF Bound
<1>9. ~wiped'
  BY DEF Stage, StageCheck, StageNid, StageMount
<1> QED BY <1>5, <1>6, <1>7, <1>8, <1>9

LEMMA UnstageOrderly ==
  ASSUME NodeInv, ~late, NEW c \in Calls, Unstage(c)
  PROVE  Orderly'
<1> USE DEF NodeInv, Orderly
<1>1. /\ CallsTyped /\ NodeTyped /\ Active(c) /\ call[c].pc \in UnstageOps
      /\ call[c].pc \notin UnpublishOps
  BY TypeParts DEF Unstage, UnstageCheck, UnstageUmount, UnstageRemove, Active, UnstageOps
<1>2. call[c].waited /\ \A d \in Calls \ {c} : call[d].pc = "idle"
  BY <1>1, RunsAlone
<1>3. /\ kub' = kub /\ \A d \in Calls \ {c} : call'[d] = call[d]
      /\ \/ call'[c] = Idle /\ call'[c].pc = "idle"
         \/ /\ call'[c].pc \in {"unstageUmount", "unstageRemove"} /\ dev' = dev
            /\ call'[c].t = call[c].t /\ call'[c].waited = call[c].waited
            /\ call'[c].pc = "unstageRemove" => staged' = None
  BY <1>1, GotoStep, ReturnDevStep DEF Unstage, UnstageCheck, UnstageUmount, UnstageRemove
<1>4. /\ dev = "uncertain" /\ \A t \in Targets : kub[t] \in {"new", "gone"}
      /\ call[c].pc = "unstageRemove" => staged = None
  BY <1>1 DEF Found, UnstageOps
<1>5. dev' \in {"uncertain", "no"} /\ (dev' = "no" => staged' = None)
  BY <1>1, <1>2, <1>4, GotoStep, ReturnDevStep DEF Unstage, UnstageCheck, UnstageUmount, UnstageRemove
<1>6. Alone'
  BY <1>1, <1>3, StaysAlone
<1>7. ASSUME NEW d \in Calls PROVE Found(d)'
  <2>1. \/ call'[d].pc = "idle"
        \/ /\ call'[d].pc \in {"unstageUmount", "unstageRemove"} /\ dev' = "uncertain"
           /\ call'[d].pc = "unstageRemove" => staged' = None
    <3>1. CASE d = c
      BY <1>3, <1>4, <3>1
    <3>2. CASE d # c
      BY <1>2, <1>3, <3>2
    <3> QED BY <3>1, <3>2
  <2> QED BY <1>3, <1>4, <2>1 DEF Found, UnstageOps
<1>8. Staged'
  BY <1>3, <1>4, <1>5 DEF Staged
<1>9. ASSUME NEW t \in Targets PROVE Bound(t)'
  <2>1. tmnt' = tmnt /\ tdirs' = tdirs /\ cut' = cut /\ roFs' = roFs
    BY DEF Unstage, UnstageCheck, UnstageUmount, UnstageRemove
  <2>2. \A d \in Calls : call[d].pc # "pubRemount"
    BY <1>1, <1>2 DEF UnstageOps
  <2> QED BY <1>3, <2>1, <2>2 DEF Bound
<1>10. ~wiped'
  BY <1>1, <1>4 DEF Unstage, UnstageCheck, UnstageUmount, UnstageRemove
<1> QED BY <1>6, <1>7, <1>8, <1>9, <1>10

LEMMA PublishOrderly ==
  ASSUME NodeInv, ~late, NEW c \in Calls, Publish(c)
  PROVE  Orderly'
<1> USE DEF NodeInv, Orderly
<1> DEFINE t == call[c].t
<1>1. /\ CallsTyped /\ NodeTyped /\ Active(c) /\ call[c].pc \in PublishOps
      /\ call[c].pc \notin UnpublishOps /\ t \in Targets
  BY TypeParts, PublishType DEF Publish, PublishCheck, PublishBind, PublishRemount, Active
<1>2. call[c].waited /\ \A d \in Calls \ {c} : call[d].pc = "idle"
  BY <1>1, RunsAlone
<1>3. /\ dev' = dev /\ staged' = staged /\ wiped' = wiped
      /\ \A d \in Calls \ {c} : call'[d] = call[d]
      /\ \A x \in Targets \ {t} : kub'[x] = kub[x] /\ tmnt'[x] = tmnt[x]
      /\ \/ call'[c] = Idle /\ call'[c].pc = "idle" /\ kub'[t] \in {"new", "up"}
         \/ /\ call'[c].pc \in {"pubBind", "pubRemount"} /\ kub' = kub
            /\ call'[c].t = t /\ call'[c].waited = call[c].waited
  <2>1. \A x \in Targets \ {t} : tmnt'[x] = tmnt[x]
    BY <1>1 DEF Publish, PublishCheck, PublishBind, PublishRemount, NodeTyped
  <2>2. staged' = staged /\ wiped' = wiped
    BY DEF Publish, PublishCheck, PublishBind, PublishRemount
  <2>3. \/ Goto(c, "pubBind") \/ Goto(c, "pubRemount")
        \/ Return(c, "new") \/ Return(c, "up")
    BY DEF Publish, PublishCheck, PublishBind, PublishRemount
  <2>4. CASE Goto(c, "pubBind") \/ Goto(c, "pubRemount")
    BY <1>1, <2>1, <2>2, <2>4, GotoStep
  <2>5. CASE Return(c, "new") \/ Return(c, "up")
    BY <1>1, <1>2, <2>1, <2>2, <2>5, ReturnStep DEF Views
  <2> QED BY <2>3, <2>4, <2>5
<1>4. kub[t] = "mounting" /\ dev # "no" /\ staged # None
  BY <1>1 DEF Found
<1>5. \* What is at the target when the step is done.
      /\ call'[c].pc = "pubBind" => tmnt'[t] = <<>>
      /\ kub'[t] = "up" => tmnt'[t] # <<>>
      /\ Len(tmnt'[t]) <= 1
      /\ tmnt'[t] # <<>> => t \in tdirs' /\ Head(tmnt'[t]) \in Mounts
      /\ t \in ReadOnly /\ tmnt'[t] # <<>> =>
           \/ t \in cut' \/ Head(tmnt'[t]) \in roFs' \/ call'[c].pc = "pubRemount"
  <2>1. Bound(t)
    BY <1>1
  <2>2. CASE PublishCheck(c)
    <3>1. \A d \in Calls : call[d].pc # "pubRemount"
      BY <1>1, <1>2, <2>2 DEF PublishCheck
    <3> QED BY <1>1, <1>2, <2>1, <2>2, <3>1, GotoStep, ReturnStep DEF PublishCheck, Bound, Views
  <2>3. CASE PublishBind(c)
    <3>1. tmnt[t] = <<>> /\ staged \in Mounts
      BY <1>1, <1>4, <2>3 DEF PublishBind, Found, NodeTyped
    <3>2. \/ tmnt'[t] = <<>> /\ Return(c, "new")
          \/ /\ tmnt'[t] = <<staged>> /\ t \in tdirs
             /\ \/ IF t \in ReadOnly THEN Goto(c, "pubRemount") ELSE Return(c, "up")
                \/ Return(c, "new") /\ t \in cut'
      BY <1>1, <1>4, <2>3, <3>1 DEF PublishBind, NodeTyped
    <3>3. tdirs' = tdirs
      BY <2>3 DEF PublishBind
    <3>4. <<staged>> # <<>> /\ Len(<<staged>>) = 1 /\ Head(<<staged>>) = staged
      OBVIOUS
    <3>5. CASE tmnt'[t] = <<>> /\ Return(c, "new")
      BY <1>1, <1>2, <3>5, ReturnStep DEF Views
    <3>6. CASE tmnt'[t] = <<staged>> /\ t \in tdirs /\ Goto(c, "pubRemount")
      <4>1. call'[c].pc = "pubRemount" /\ kub' = kub
        BY <1>1, <3>6, GotoStep
      <4> QED BY <1>4, <3>1, <3>3, <3>4, <3>6, <4>1
    <3>7. CASE tmnt'[t] = <<staged>> /\ t \in tdirs /\ Return(c, "up") /\ t \notin ReadOnly
      <4>1. call'[c].pc = "idle"
        BY <1>1, <3>7, ReturnStep DEF Views
      <4> QED BY <3>1, <3>3, <3>4, <3>7, <4>1
    <3>8. CASE tmnt'[t] = <<staged>> /\ t \in tdirs /\ Return(c, "new") /\ t \in cut'
      <4>1. call'[c].pc = "idle"
        BY <1>1, <3>8, ReturnStep DEF Views
      <4> QED BY <3>1, <3>3, <3>4, <3>8, <4>1
    <3> QED BY <3>2, <3>5, <3>6, <3>7, <3>8
  <2>4. CASE PublishRemount(c)
    <3>1. tmnt'[t] = tmnt[t] /\ tdirs' = tdirs /\ call'[c].pc = "idle"
      BY <1>1, <2>4, ReturnStep DEF PublishRemount, Views
    <3>2. Return(c, "up") => tmnt[t] # <<>> /\ Head(tmnt[t]) \in roFs'
      BY <1>1, <1>2, <2>4 DEF PublishRemount, Return, Views, CallsTyped
    <3>3. kub'[t] = "up" => Return(c, "up")
      BY <1>1, <1>2, <2>4, ReturnStep DEF PublishRemount, Views
    <3>4. Return(c, "up") \/ t \in cut'
      BY <2>4 DEF PublishRemount
    <3> QED BY <2>1, <3>1, <3>2, <3>3, <3>4, Zenon DEF Bound
  <2> QED BY <2>2, <2>3, <2>4 DEF Publish
<1>6. Alone'
  BY <1>1, <1>3, StaysAlone
<1>7. ASSUME NEW d \in Calls PROVE Found(d)'
  <2>1. \/ call'[d].pc = "idle"
        \/ /\ call'[d].pc \in {"pubBind", "pubRemount"} /\ call'[d].t = t /\ kub'[t] = "mounting"
           /\ dev' # "no" /\ staged' # None
           /\ call'[d].pc = "pubBind" => tmnt'[t] = <<>>
    <3>1. CASE d = c
      BY <1>3, <1>4, <1>5, <3>1
    <3>2. CASE d # c
      BY <1>2, <1>3, <3>2
    <3> QED BY <3>1, <3>2
  <2> QED BY <2>1 DEF Found, UnstageOps
<1>8. Staged'
  BY <1>3, <1>4 DEF Staged
<1>9. ASSUME NEW x \in Targets PROVE Bound(x)'
  <2>1. CASE x = t
    <3>1. kub'[t] # "gone"
      BY <1>3, <1>4
    <3>2. call'[c].pc = "pubRemount" => call'[c].t = t
      BY <1>3
    <3> QED BY <1>5, <2>1, <3>1, <3>2 DEF Bound
  <2>2. CASE x # t
    <3>1. tdirs \ {t} = tdirs' \ {t} /\ roFs \subseteq roFs' /\ cut \subseteq cut'
      BY DEF Publish, PublishCheck, PublishBind, PublishRemount
    <3>2. \A d \in Calls : call[d].pc = "pubRemount" => call[d].t # x
      BY <1>2, <2>2
    <3>3. kub'[x] = kub[x] /\ tmnt'[x] = tmnt[x] /\ Bound(x)
      BY <1>3, <2>2
    <3> QED BY <2>2, <3>1, <3>2, <3>3 DEF Bound
  <2> QED BY <2>1, <2>2
<1>10. ~wiped'
  BY <1>3
<1> QED BY <1>6, <1>7, <1>8, <1>9, <1>10

LEMMA UnpublishOrderly ==
  ASSUME NodeInv, ~late, NEW c \in Calls, Unpublish(c)
  PROVE  Orderly'
<1> USE DEF NodeInv, Orderly
<1> DEFINE t == call[c].t
<1>1. /\ CallsTyped /\ NodeTyped /\ Active(c) /\ call[c].pc \in UnpublishOps /\ t \in Targets
  BY TypeParts, PublishType DEF Unpublish, UnpublishCheck, UnpublishUmount, UnpublishRemove, Active
<1>2. /\ call[c].waited
      /\ \A d \in Calls \ {c} :
           call[d].pc = "idle" \/ (call[d].pc \in UnpublishOps /\ call[d].t # t)
  BY <1>1, RunsAlone
<1>3. /\ dev' = dev /\ staged' = staged /\ wiped' = wiped /\ roFs' = roFs
      /\ \A d \in Calls \ {c} : call'[d] = call[d]
      /\ \A x \in Targets \ {t} : kub'[x] = kub[x] /\ tmnt'[x] = tmnt[x]
      /\ tdirs \ {t} = tdirs' \ {t} /\ cut \ {t} = cut' \ {t}
      /\ \/ call'[c] = Idle /\ call'[c].pc = "idle" /\ kub'[t] \in {"leaving", "gone"}
         \/ /\ call'[c].pc \in {"unpubUmount", "unpubRemove"} /\ kub' = kub
            /\ call'[c].t = t /\ call'[c].waited = call[c].waited
  <2>1. \A x \in Targets \ {t} : tmnt'[x] = tmnt[x]
    BY <1>1 DEF Unpublish, UnpublishCheck, UnpublishUmount, UnpublishRemove, NodeTyped
  <2>2. tdirs \ {t} = tdirs' \ {t} /\ cut \ {t} = cut' \ {t} /\ roFs' = roFs
    BY DEF Unpublish, UnpublishCheck, UnpublishUmount, UnpublishRemove
  <2>3. staged' = staged /\ wiped' = wiped
    BY DEF Unpublish, UnpublishCheck, UnpublishUmount, UnpublishRemove
  <2>4. \/ Goto(c, "unpubUmount") \/ Goto(c, "unpubRemove")
        \/ Return(c, "leaving") \/ Return(c, "gone")
    BY DEF Unpublish, UnpublishCheck, UnpublishUmount, UnpublishRemove
  <2>5. CASE Goto(c, "unpubUmount") \/ Goto(c, "unpubRemove")
    BY <1>1, <2>1, <2>2, <2>3, <2>5, GotoStep
  <2>6. CASE Return(c, "leaving") \/ Return(c, "gone")
    BY <1>1, <1>2, <2>1, <2>2, <2>3, <2>6, ReturnStep DEF Views
  <2> QED BY <2>4, <2>5, <2>6
<1>4. kub[t] = "leaving"
  BY <1>1 DEF Found
<1>5. \* What is at the target when the step is done.
      /\ call'[c].pc = "unpubRemove" \/ kub'[t] = "gone" => tmnt'[t] = <<>>
      /\ \/ tmnt'[t] = <<>>
         \/ tmnt'[t] = tmnt[t] /\ (t \in tdirs => t \in tdirs') /\ (t \in cut => t \in cut')
  <2>1. Bound(t) /\ Found(c) /\ tmnt[t] \in Seq(Mounts \cup {Local})
    BY <1>1 DEF NodeTyped
  <2>2. CASE UnpublishCheck(c)
    <3>1. Goto(c, "unpubUmount") \/ Return(c, "leaving") \/ (Return(c, "gone") /\ tmnt[t] = <<>>)
      BY <2>1, <2>2 DEF UnpublishCheck, Bound
    <3>2. tmnt' = tmnt /\ tdirs' = tdirs /\ cut' = cut
      BY <2>2 DEF UnpublishCheck
    <3> QED BY <1>1, <1>2, <1>4, <3>1, <3>2, GotoStep, ReturnStep DEF Views
  <2>3. CASE UnpublishUmount(c)
    <3>1. tmnt[t] # <<>> => Tail(tmnt[t]) = <<>>
      BY <2>1 DEF Bound
    <3>2. \/ Goto(c, "unpubRemove") /\ tmnt'[t] = <<>>
          \/ Return(c, "leaving") /\ tmnt' = tmnt /\ cut' = cut
      BY <1>1, <2>3, <3>1 DEF UnpublishUmount, NodeTyped
    <3>3. tdirs' = tdirs
      BY <2>3 DEF UnpublishUmount
    <3> QED BY <1>1, <1>2, <1>4, <3>2, <3>3, GotoStep, ReturnStep DEF Views
  <2>4. CASE UnpublishRemove(c)
    <3>1. tmnt[t] = <<>> /\ tmnt' = tmnt
      BY <2>1, <2>4 DEF UnpublishRemove, Found
    <3> QED BY <3>1
  <2> QED BY <2>2, <2>3, <2>4 DEF Unpublish
<1>6. Alone'
  BY <1>1, <1>3, StaysAlone
<1>7. ASSUME NEW d \in Calls PROVE Found(d)'
  <2>1. CASE d = c
    <3>1. \/ call'[c].pc = "idle"
          \/ /\ call'[c].pc \in {"unpubUmount", "unpubRemove"} /\ call'[c].t = t
             /\ kub'[t] = "leaving" /\ (call'[c].pc = "unpubRemove" => tmnt'[t] = <<>>)
      BY <1>3, <1>4, <1>5
    <3> QED BY <2>1, <3>1 DEF Found, UnstageOps
  <2>2. CASE d # c
    <3>1. call'[d] = call[d] /\ Found(d)
      BY <1>3, <2>2
    <3>2. CASE call[d].pc = "idle"
      BY <3>1, <3>2 DEF Found, UnstageOps
    <3>3. CASE call[d].pc \in UnpublishOps /\ call[d].t # t
      <4>1. call[d].t \in Targets
        BY <3>3 DEF TypeInv, CallShape
      <4>2. kub'[call[d].t] = kub[call[d].t] /\ tmnt'[call[d].t] = tmnt[call[d].t]
        BY <1>3, <3>3, <4>1
      <4> QED BY <3>1, <3>3, <4>2 DEF Found, UnstageOps
    <3> QED BY <1>2, <2>2, <3>2, <3>3
  <2> QED BY <2>1, <2>2
<1>8. Staged'
  BY <1>1, <1>3, <1>4 DEF Staged
<1>9. ASSUME NEW x \in Targets PROVE Bound(x)'
  <2>1. \A d \in Calls : call[d].pc # "pubRemount"
    BY <1>1, <1>2
  <2>2. Bound(x)
    OBVIOUS
  <2>3. CASE x = t
    <3>1. kub'[t] # "up"
      BY <1>3, <1>4
    <3>2. tmnt'[t] = <<>> => Len(tmnt'[t]) = 0
      OBVIOUS
    <3> QED BY <1>3, <1>5, <2>1, <2>2, <2>3, <3>1, <3>2 DEF Bound
  <2>4. CASE x # t
    <3>1. kub'[x] = kub[x] /\ tmnt'[x] = tmnt[x] /\ (x \in tdirs => x \in tdirs') /\ (x \in cut => x \in cut')
      BY <1>3, <2>4
    <3> QED BY <1>3, <2>1, <2>2, <3>1 DEF Bound
  <2> QED BY <2>3, <2>4
<1>10. ~wiped'
  BY <1>3
<1> QED BY <1>6, <1>7, <1>8, <1>9, <1>10

LEMMA EnvironmentOrderly ==
  ASSUME NodeInv, Environment, ~late, ~late'
  PROVE  Orderly'
<1> USE DEF NodeInv, Orderly
<1>0. CallsTyped /\ NodeTyped /\ \A c \in Calls : call[c].pc # "idle" => call[c].waited
  BY TypeParts DEF Alone, Active
\* A call that excludes every other one, on the staging path or on a target.
<1>1. ASSUME NEW c \in Calls, NEW pc \in StageOps \cup PublishOps,
             NEW t \in Targets \cup {None}, ~Waiting(Anything), StartCall(c, pc, t),
             pc \in PublishOps => t \in Targets
      PROVE  /\ \A d \in Calls : call[d].pc = "idle"
             /\ \A d \in Calls \ {c} : call'[d].pc = "idle"
             /\ call'[c].pc = pc /\ call'[c].t = t /\ Alone'
             /\ UNCHANGED <<node, history>>
  <2>1. \A d \in Calls : call[d].pc = "idle"
    BY <1>0, <1>1 DEF Waiting, CallsTyped, CallRecord
  <2>2. \A d \in Calls \ {c} : call'[d].pc = "idle"
    BY <1>0, <1>1, <2>1, StartStep
  <2>3. call'[c].pc = pc /\ call'[c].t = t /\ call'[c].waited /\ UNCHANGED <<node, history>>
    BY <1>0, <1>1, StartStep
  <2>4. Alone'
    BY <2>2, <2>3 DEF Alone, Active
  <2> QED BY <2>1, <2>2, <2>3, <2>4
<1>2. ASSUME NEW c \in Calls, StartStage(c) PROVE Orderly'
  <2>1. /\ ~Waiting(Anything) /\ StartCall(c, "stageCheck", None) /\ dev' = "uncertain" /\ kub' = kub
    BY <1>2 DEF StartStage
  <2>2. /\ \A d \in Calls \ {c} : call'[d].pc = "idle"
        /\ \A d \in Calls : call[d].pc = "idle"
        /\ call'[c].pc = "stageCheck" /\ Alone' /\ UNCHANGED <<node, history>>
    BY <1>1, <2>1
  <2>3. \A d \in Calls : Found(d)'
    BY <2>1, <2>2 DEF Found, UnstageOps
  <2>4. Staged'
    BY <2>1, <2>2 DEF Staged
  <2>5. ASSUME NEW x \in Targets PROVE Bound(x)'
    BY <2>1, <2>2 DEF Bound
  <2> QED BY <2>2, <2>3, <2>4, <2>5
<1>3. ASSUME NEW c \in Calls, StartUnstage(c) PROVE Orderly'
  <2>1. /\ ~Waiting(Anything) /\ StartCall(c, "unstageCheck", None) /\ dev' = "uncertain" /\ kub' = kub
        /\ \A t \in Targets : kub[t] \in {"new", "gone"}
    BY <1>3 DEF StartUnstage
  <2>2. /\ \A d \in Calls \ {c} : call'[d].pc = "idle"
        /\ \A d \in Calls : call[d].pc = "idle"
        /\ call'[c].pc = "unstageCheck" /\ Alone' /\ UNCHANGED <<node, history>>
    BY <1>1, <2>1
  <2>3. \A d \in Calls : Found(d)'
    BY <2>1, <2>2 DEF Found, UnstageOps
  <2>4. Staged'
    BY <2>1, <2>2 DEF Staged
  <2>5. ASSUME NEW x \in Targets PROVE Bound(x)'
    BY <2>1, <2>2 DEF Bound
  <2> QED BY <2>2, <2>3, <2>4, <2>5
<1>4. ASSUME NEW c \in Calls, NEW t \in Targets, StartPublish(c, t) PROVE Orderly'
  <2>1. /\ ~Waiting(Anything) /\ StartCall(c, "pubCheck", t) /\ dev = "yes" /\ dev' = dev
        /\ kub' = [kub EXCEPT ![t] = "mounting"] /\ kub[t] \in {"new", "uncertain"}
    BY <1>4 DEF StartPublish
  <2>2. /\ \A d \in Calls \ {c} : call'[d].pc = "idle"
        /\ \A d \in Calls : call[d].pc = "idle"
        /\ call'[c].pc = "pubCheck" /\ call'[c].t = t /\ Alone' /\ UNCHANGED <<node, history>>
    BY <1>1, <2>1
  <2>3. kub'[t] = "mounting" /\ \A x \in Targets \ {t} : kub'[x] = kub[x]
    BY <1>0, <2>1 DEF CallsTyped
  <2>4. staged # None
    BY <2>1 DEF Staged
  <2>5. \A d \in Calls : Found(d)'
    BY <2>1, <2>2, <2>3, <2>4 DEF Found, UnstageOps
  <2>6. Staged'
    BY <2>1, <2>2, <2>4 DEF Staged
  <2>7. ASSUME NEW x \in Targets PROVE Bound(x)'
    BY <2>1, <2>2, <2>3 DEF Bound
  <2> QED BY <2>2, <2>5, <2>6, <2>7
<1>5. ASSUME NEW c \in Calls, NEW t \in Targets, StartUnpublish(c, t) PROVE Orderly'
  <2>1. /\ ~Waiting(StageOps \cup PublishOps) /\ StartCall(c, "unpubCheck", t) /\ dev' = dev
        /\ kub' = [kub EXCEPT ![t] = "leaving"] /\ kub[t] \in {"uncertain", "up", "leaving"}
        /\ \A d \in Calls : call[d].waited => call[d].t # t
    BY <1>5 DEF StartUnpublish
  <2>2. \A d \in Calls : call[d].pc = "idle" \/ (call[d].pc \in UnpublishOps /\ call[d].t # t)
    BY <1>0, <2>1 DEF Waiting, CallsTyped, CallRecord
  <2>3. /\ \A d \in Calls \ {c} : call'[d] = call[d]
        /\ call[c] = Idle /\ call'[c].pc = "unpubCheck" /\ call'[c].t = t /\ call'[c].waited
        /\ UNCHANGED <<node, history>>
    BY <1>0, <2>1, StartStep
  <2>4. kub'[t] = "leaving" /\ \A x \in Targets \ {t} : kub'[x] = kub[x]
    BY <1>0, <2>1 DEF CallsTyped
  <2>5. Alone'
    <3>1. \A d \in Calls \ {c} : call'[d].pc = "idle" \/ (call'[d].pc \in UnpublishOps /\ call'[d].t # t)
      BY <2>2, <2>3
    <3> QED BY <2>3, <3>1 DEF Alone, Active
  <2>6. ASSUME NEW d \in Calls PROVE Found(d)'
    <3>1. CASE d = c
      BY <2>3, <2>4, <3>1 DEF Found, UnstageOps
    <3>2. CASE d # c /\ call[d].pc = "idle"
      BY <2>3, <3>2 DEF Found, UnstageOps
    <3>3. CASE d # c /\ call[d].pc \in UnpublishOps /\ call[d].t # t
      <4>1. call[d].t \in Targets \ {t} /\ Found(d) /\ call'[d] = call[d]
        BY <1>0, <2>3, <3>3 DEF CallsTyped, CallShape
      <4> QED BY <2>3, <2>4, <3>3, <4>1 DEF Found, UnstageOps
    <3> QED BY <2>2, <3>1, <3>2, <3>3
  <2>7. Staged'
    BY <2>1, <2>3 DEF Staged
  <2>8. ASSUME NEW x \in Targets PROVE Bound(x)'
    <3>1. \A d \in Calls : call[d].pc # "pubRemount"
      BY <2>2
    <3>2. kub'[x] \in {"leaving", kub[x]}
      BY <2>4
    <3> QED BY <2>3, <3>1, <3>2 DEF Bound
  <2> QED BY <2>3, <2>5, <2>6, <2>7, <2>8
<1>6. ASSUME NEW c \in Calls, GiveUp(c) PROVE Orderly'
  BY <1>6 DEF GiveUp
<1>7. ASSUME KubeletRestart PROVE Orderly'
  <2>1. /\ UNCHANGED <<node, call, cut>>
        /\ \A x \in Targets : kub'[x] = IF kub[x] = "up" THEN "uncertain" ELSE kub[x]
        /\ dev' = IF dev = "yes" THEN "uncertain" ELSE dev
    BY <1>7 DEF KubeletRestart, Uncertain
  <2>2. Alone'
    BY <2>1 DEF Alone, Active
  <2>3. ASSUME NEW d \in Calls PROVE Found(d)'
    <3>1. call[d].pc \in PublishOps \cup UnpublishOps => call[d].t \in Targets
      BY <1>0 DEF CallsTyped, CallShape
    <3> QED BY <2>1, <3>1 DEF Found, UnstageOps
  <2>4. Staged'
    BY <2>1 DEF Staged
  <2>5. ASSUME NEW x \in Targets PROVE Bound(x)'
    BY <2>1 DEF Bound
  <2> QED BY <2>1, <2>2, <2>3, <2>4, <2>5
<1>8. ASSUME ContainerRestart \/ NodeReboot PROVE Orderly'
  <2>1. /\ \A d \in Calls : call'[d].pc = "idle"
        /\ wiped' = wiped /\ tdirs' = tdirs
    BY <1>8 DEF ContainerRestart, NodeReboot, ProcessDies, Idle
  <2>2. Alone' /\ \A d \in Calls : Found(d)'
    BY <2>1 DEF Alone, Active, Found, UnstageOps
  <2>3. CASE ContainerRestart
    <3>1. /\ UNCHANGED <<dev, staged, tmnt, roFs>>
          /\ \A x \in Targets : kub'[x] = IF kub[x] = "mounting" THEN "uncertain" ELSE kub[x]
          /\ cut' = cut \cup {call[c].t : c \in {d \in Calls : call[d].pc = "pubRemount"}}
      BY <2>3 DEF ContainerRestart, Uncertain
    <3>2. Staged'
      BY <3>1 DEF Staged
    <3>3. ASSUME NEW x \in Targets PROVE Bound(x)'
      BY <2>1, <3>1 DEF Bound
    <3> QED BY <2>1, <2>2, <3>2, <3>3
  <2>4. CASE NodeReboot
    <3>1. /\ dev' = IF dev = "yes" THEN "uncertain" ELSE dev
          /\ \A x \in Targets : kub'[x] = IF kub[x] \in {"mounting", "up"} THEN "uncertain" ELSE kub[x]
          /\ staged' = None /\ \A x \in Targets : tmnt'[x] = <<>>
      BY <2>4 DEF NodeReboot, Uncertain
    <3>2. Staged'
      BY <3>1 DEF Staged
    <3>3. ASSUME NEW x \in Targets PROVE Bound(x)'
      <4>1. Len(tmnt'[x]) = 0 /\ kub'[x] # "up"
        BY <3>1
      <4> QED BY <3>1, <4>1 DEF Bound
    <3> QED BY <2>1, <2>2, <3>2, <3>3
  <2> QED BY <1>8, <2>3, <2>4
<1> QED BY <1>2, <1>3, <1>4, <1>5, <1>6, <1>7, <1>8 DEF Environment

LEMMA InitOrderly == Init => NodeInv
<1> SUFFICES ASSUME Init PROVE Orderly
  BY InitType DEF NodeInv
<1>1. \A c \in Calls : call[c].pc = "idle"
  BY DEF Init, Idle
<1>2. Alone /\ (\A c \in Calls : Found(c))
  BY <1>1 DEF Alone, Active, Found, UnstageOps
<1>3. Staged
  BY DEF Init, Staged
<1>4. ASSUME NEW t \in Targets PROVE Bound(t)
  <2>1. tmnt[t] = <<>> /\ kub[t] = "new" /\ Len(tmnt[t]) = 0
    BY DEF Init
  <2> QED BY <2>1 DEF Bound
<1> QED BY <1>2, <1>3, <1>4 DEF Init, Orderly

LEMMA NextOrderly == NodeInv /\ [Next]_vars => NodeInv'
<1>1. NodeInv /\ [Next]_vars => TypeInv'
  BY NextType DEF NodeInv
<1>2. ASSUME NodeInv, Next, ~late' PROVE Orderly'
  <2>1. ~late
    BY <1>2, TypeParts, HistoryType DEF NodeInv
  <2> QED BY <1>2, <2>1, EnvironmentOrderly, StageOrderly, UnstageOrderly, PublishOrderly, UnpublishOrderly
          DEF Next, Handler
<1>3. ASSUME NodeInv, UNCHANGED vars PROVE NodeInv'
  BY <1>3 DEF vars, NodeInv, TypeInv, TypeOK, CallShape, Orderly, Alone, Active, Found, Staged, Bound
<1> QED BY <1>1, <1>2, <1>3 DEF NodeInv

LEMMA LustreInvariant == Spec => []NodeInv
BY InitOrderly, NextOrderly, PTL DEF Spec

\* While the kubelet waits for its calls, RemoveAll never reaches the files of
\* the volume (nodeserver.go:449-456).
THEOREM FilesAreKept == Spec => []DataKept
<1>1. NodeInv => DataKept
  BY DEF NodeInv, Orderly, DataKept
<1> QED BY <1>1, LustreInvariant, PTL

\* A target published read-only is on a read-only file system, unless its
\* publish was cut off between the bind and the remount.
THEOREM ReadOnlyIsRemounted == Spec => []ReadOnlyUnlessCut
<1>1. NodeInv => ReadOnlyUnlessCut
  <2> SUFFICES ASSUME NodeInv, NEW t \in ReadOnly, ~late, kub[t] = "up"
               PROVE  t \in cut \/ Head(tmnt[t]) \in roFs
    BY DEF ReadOnlyUnlessCut
  <2>1. t \in Targets
    BY ConstantsAssumption
  <2>2. Bound(t) /\ \A c \in Calls : Found(c)
    BY <2>1 DEF NodeInv, Orderly
  <2> QED BY <2>2 DEF Bound, Found
<1> QED BY <1>1, LustreInvariant, PTL

\* Once the volume is unstaged, nothing of it is left mounted on the node but
\* the bind of a publish that failed and was given up.
THEOREM UnstagedLeavesNothing == Spec => []UnstagedIsClean
<1>1. NodeInv => UnstagedIsClean
  BY DEF NodeInv, Orderly, Staged, Bound, UnstagedIsClean
<1> QED BY <1>1, LustreInvariant, PTL

-----------------------------------------------------------------------------
(***************************************************************************)
(* The refinement of NodeContract.                                         *)
(***************************************************************************)
\* What a pod is shown at its target.
Shown(t) == IF tmnt[t] = <<>> THEN None ELSE Head(tmnt[t])

Same(t) == StatusOf(t)' = StatusOf(t) /\ Shown(t)' = Shown(t)

LEMMA NothingHappens ==
  ASSUME \A t \in Targets : Same(t), late' = late
  PROVE  UNCHANGED Contract!vars
BY DEF Contract!vars, Same, Shown

\* A step that concerns one target, told by what its pod and the kubelet see.
LEMMA OneTarget ==
  ASSUME NEW t \in Targets, \A x \in Targets \ {t} : Same(x), late' = late,
         \/ Same(t)
         \/ /\ StatusOf(t) = "new" /\ Shown(t) = None /\ Shown(t)' \in Mounts
            /\ StatusOf(t)' \in {"new", "up"}
         \/ StatusOf(t) = "new" /\ Shown(t) # None /\ Shown(t)' = Shown(t) /\ StatusOf(t)' = "up"
         \/ StatusOf(t) \in {"new", "up"} /\ Shown(t)' = Shown(t) /\ StatusOf(t)' = "leaving"
         \/ StatusOf(t) = "leaving" /\ Shown(t)' = None /\ StatusOf(t)' \in {"leaving", "gone"}
  PROVE  [Contract!Next]_(Contract!vars)
<1> DEFINE Status == [x \in Targets |-> StatusOf(x)]
           Shows  == [x \in Targets |-> Shown(x)]
<1>1. /\ [x \in Targets |-> StatusOf(x)'] = [Status EXCEPT ![t] = StatusOf(t)']
      /\ [x \in Targets |-> Shown(x)'] = [Shows EXCEPT ![t] = Shown(t)']
  BY DEF Same
<1>2. Status[t] = StatusOf(t) /\ Shows[t] = Shown(t)
  OBVIOUS
<1>3. StatusOf(t)' = StatusOf(t) => [Status EXCEPT ![t] = StatusOf(t)'] = Status
  BY <1>2
<1>4. Shown(t)' = Shown(t) => [Shows EXCEPT ![t] = Shown(t)'] = Shows
  BY <1>2
<1>5. CASE Same(t)
  <2>1. \A x \in Targets : Same(x)
    BY <1>5
  <2> QED BY <2>1, NothingHappens
<1>6. CASE /\ StatusOf(t) = "new" /\ Shown(t) = None /\ Shown(t)' \in Mounts
           /\ StatusOf(t)' \in {"new", "up"}
  <2>1. Contract!Show(t)
    BY <1>1, <1>2, <1>3, <1>6 DEF Contract!Show, Shown
  <2> QED BY <2>1 DEF Contract!Next, Contract!Promised
<1>7. CASE StatusOf(t) = "new" /\ Shown(t) # None /\ Shown(t)' = Shown(t) /\ StatusOf(t)' = "up"
  <2>1. Contract!Announce(t)
    BY <1>1, <1>2, <1>4, <1>7 DEF Contract!Announce, Shown
  <2> QED BY <2>1 DEF Contract!Next, Contract!Promised
<1>8. CASE StatusOf(t) \in {"new", "up"} /\ Shown(t)' = Shown(t) /\ StatusOf(t)' = "leaving"
  <2>1. Contract!AskToLeave(t)
    BY <1>1, <1>2, <1>4, <1>8 DEF Contract!AskToLeave, Shown
  <2> QED BY <2>1 DEF Contract!Next, Contract!Promised
<1>9. CASE StatusOf(t) = "leaving" /\ Shown(t)' = None /\ StatusOf(t)' \in {"leaving", "gone"}
  <2>1. Contract!Hide(t)
    BY <1>1, <1>2, <1>3, <1>9 DEF Contract!Hide, Shown
  <2> QED BY <2>1 DEF Contract!Next, Contract!Promised
<1> QED BY <1>5, <1>6, <1>7, <1>8, <1>9

LEMMA StagingIsInvisible ==
  ASSUME NodeInv, ~late, NEW c \in Calls, Stage(c) \/ Unstage(c)
  PROVE  UNCHANGED Contract!vars
<1>1. kub' = kub
  BY DEF Stage, StageCheck, StageNid, StageMount, Unstage, UnstageCheck, UnstageUmount,
         UnstageRemove, ReturnDev, Goto
<1>2. tmnt' = tmnt /\ late' = late
  BY DEF Stage, StageCheck, StageNid, StageMount, Unstage, UnstageCheck, UnstageUmount, UnstageRemove
<1> QED BY <1>1, <1>2, NothingHappens DEF Same, Shown, StatusOf

LEMMA PublishKeepsContract ==
  ASSUME NodeInv, ~late, NEW c \in Calls, Publish(c)
  PROVE  [Contract!Next]_(Contract!vars)
<1> DEFINE t == call[c].t
<1>1. /\ CallsTyped /\ NodeTyped /\ Orderly /\ t \in Targets /\ call[c].pc \in PublishOps
  BY TypeParts, PublishType DEF NodeInv, Publish, PublishCheck, PublishBind, PublishRemount
<1>2. call[c].waited /\ kub[t] = "mounting" /\ staged \in Mounts /\ None \notin Mounts
  BY <1>1, RunsAlone, ConstantsAssumption DEF Orderly, Active, Found, NodeTyped
<1>3. Bound(t)
  BY <1>1 DEF Orderly
<1>4. late' = late /\ \A x \in Targets \ {t} : Same(x)
  <2>1. \A x \in Targets \ {t} : tmnt'[x] = tmnt[x]
    BY <1>1 DEF Publish, PublishCheck, PublishBind, PublishRemount, NodeTyped
  <2>2. \A x \in Targets \ {t} : kub'[x] = kub[x]
    BY <1>1 DEF Publish, PublishCheck, PublishBind, PublishRemount, Return, Goto, CallsTyped
  <2>3. late' = late
    BY DEF Publish, PublishCheck, PublishBind, PublishRemount
  <2> QED BY <2>1, <2>2, <2>3 DEF Same, Shown, StatusOf
<1>5. PICK x \in Targets : x = t
  BY <1>1
<1>6. kub'[x] \in {"mounting", "new", "up"}
  BY <1>1, <1>2, <1>5 DEF Publish, PublishCheck, PublishBind, PublishRemount, Return, Goto, CallsTyped
<1>7. \* The bind comes up, or what was there stays.
      \/ tmnt'[x] = tmnt[x] /\ (kub'[x] = "up" => tmnt[x] # <<>>)
      \/ tmnt[x] = <<>> /\ tmnt'[x] = <<staged>>
  <2>1. CASE PublishCheck(c)
    BY <1>1, <1>2, <1>5, <2>1 DEF PublishCheck, Return, Goto, CallsTyped
  <2>2. CASE PublishBind(c)
    <3>1. tmnt[x] = <<>>
      BY <1>1, <1>5, <2>2 DEF PublishBind, Orderly, Found
    <3>2. CASE Return(c, "new") /\ tmnt' = tmnt
      BY <1>1, <1>2, <1>5, <3>2 DEF Return, CallsTyped
    <3>3. CASE tmnt' = [tmnt EXCEPT ![x] = <<staged>> \o @]
      BY <3>1, <3>3 , <1>1 DEF NodeTyped
    <3> QED BY <1>2, <1>5, <2>2, <3>2, <3>3, ConstantsAssumption DEF PublishBind
  <2>3. CASE PublishRemount(c)
    <3>1. tmnt' = tmnt
      BY <2>3 DEF PublishRemount
    <3>2. (Return(c, "up") /\ tmnt[x] # <<>>) \/ Return(c, "new")
      BY <1>5, <2>3 DEF PublishRemount
    <3> QED BY <1>1, <1>2, <1>5, <3>1, <3>2 DEF Return, CallsTyped
  <2> QED BY <2>1, <2>2, <2>3 DEF Publish
<1>8. tmnt[x] # <<>> => Shown(x) # None
  BY <1>2, <1>3, <1>5 DEF Bound, Shown
<1>9. StatusOf(x) = "new" /\ StatusOf(x)' = IF kub'[x] = "up" THEN "up" ELSE "new"
  BY <1>2, <1>5, <1>6 DEF StatusOf
<1>10. CASE tmnt'[x] = tmnt[x] /\ (kub'[x] = "up" => tmnt[x] # <<>>)
  <2>1. Shown(x)' = Shown(x)
    BY <1>10 DEF Shown
  <2> QED BY <1>4, <1>5, <1>8, <1>9, <1>10, <2>1, OneTarget DEF Same
<1>11. CASE tmnt[x] = <<>> /\ tmnt'[x] = <<staged>>
  <2>1. <<staged>> # <<>> /\ Head(<<staged>>) = staged
    OBVIOUS
  <2>2. Shown(x) = None /\ Shown(x)' \in Mounts
    BY <1>2, <1>11, <2>1 DEF Shown
  <2> QED BY <1>4, <1>5, <1>9, <2>2, OneTarget
<1> QED BY <1>7, <1>10, <1>11

LEMMA UnpublishKeepsContract ==
  ASSUME NodeInv, ~late, NEW c \in Calls, Unpublish(c)
  PROVE  [Contract!Next]_(Contract!vars)
<1> DEFINE t == call[c].t
<1>1. /\ CallsTyped /\ NodeTyped /\ Orderly /\ t \in Targets /\ call[c].pc \in UnpublishOps
  BY TypeParts, PublishType DEF NodeInv, Unpublish, UnpublishCheck, UnpublishUmount, UnpublishRemove
<1>2. call[c].waited /\ kub[t] = "leaving"
  BY <1>1, RunsAlone DEF Orderly, Active, Found
<1>3. Bound(t)
  BY <1>1 DEF Orderly
<1>4. late' = late /\ \A x \in Targets \ {t} : Same(x)
  <2>1. \A x \in Targets \ {t} : tmnt'[x] = tmnt[x]
    BY <1>1 DEF Unpublish, UnpublishCheck, UnpublishUmount, UnpublishRemove, NodeTyped
  <2>2. \A x \in Targets \ {t} : kub'[x] = kub[x]
    BY <1>1 DEF Unpublish, UnpublishCheck, UnpublishUmount, UnpublishRemove, Return, Goto, CallsTyped
  <2>3. late' = late
    BY DEF Unpublish, UnpublishCheck, UnpublishUmount, UnpublishRemove
  <2> QED BY <2>1, <2>2, <2>3 DEF Same, Shown, StatusOf
<1>5. PICK x \in Targets : x = t
  BY <1>1
<1>6. kub'[x] \in {"leaving", "gone"}
  BY <1>1, <1>2, <1>5 DEF Unpublish, UnpublishCheck, UnpublishUmount, UnpublishRemove, Return, Goto, CallsTyped
<1>7. tmnt'[x] = <<>> \/ (tmnt'[x] = tmnt[x] /\ kub'[x] = "leaving")
  <2>1. Bound(x) /\ Found(c) /\ tmnt[x] \in Seq(Mounts \cup {Local})
    BY <1>1, <1>3, <1>5 DEF NodeTyped, Orderly
  <2>2. CASE UnpublishCheck(c)
    BY <1>1, <1>2, <1>5, <2>1, <2>2 DEF UnpublishCheck, Return, Goto, CallsTyped, Bound
  <2>3. CASE UnpublishUmount(c)
    <3>1. tmnt[x] # <<>> => Tail(tmnt[x]) = <<>>
      BY <2>1 DEF Bound
    <3>2. \/ tmnt'[x] = <<>>
          \/ Return(c, "leaving") /\ tmnt' = tmnt
      BY <1>1, <1>5, <2>3, <3>1 DEF UnpublishUmount, NodeTyped
    <3> QED BY <1>1, <1>2, <1>5, <3>2 DEF Return, CallsTyped
  <2>4. CASE UnpublishRemove(c)
    BY <1>5, <2>1, <2>4 DEF UnpublishRemove, Found
  <2> QED BY <2>2, <2>3, <2>4 DEF Unpublish
<1>8. StatusOf(x) = "leaving" /\ StatusOf(x)' = kub'[x]
  BY <1>2, <1>5, <1>6 DEF StatusOf
<1>9. CASE tmnt'[x] = <<>>
  <2>1. Shown(x)' = None
    BY <1>9 DEF Shown
  <2> QED BY <1>4, <1>5, <1>6, <1>8, <2>1, OneTarget
<1>10. CASE tmnt'[x] = tmnt[x] /\ kub'[x] = "leaving"
  <2>1. Same(x)
    BY <1>8, <1>10 DEF Same, Shown
  <2> QED BY <1>4, <1>5, <2>1, OneTarget
<1> QED BY <1>7, <1>9, <1>10

LEMMA EnvironmentKeepsContract ==
  ASSUME NodeInv, Environment, ~late'
  PROVE  [Contract!Next]_(Contract!vars)
<1> USE DEF Shown
<1>0. CallsTyped /\ NodeTyped
  BY TypeParts DEF NodeInv
<1>1. ASSUME NEW c \in Calls, StartStage(c) \/ StartUnstage(c)
      PROVE  [Contract!Next]_(Contract!vars)
  <2>1. kub' = kub /\ tmnt' = tmnt /\ late' = late
    BY <1>1 DEF StartStage, StartUnstage, StartCall
  <2> QED BY <2>1, NothingHappens DEF Same, StatusOf
<1>2. ASSUME NEW c \in Calls, NEW t \in Targets, StartPublish(c, t)
      PROVE  [Contract!Next]_(Contract!vars)
  <2>1. /\ kub' = [kub EXCEPT ![t] = "mounting"] /\ kub[t] \in {"new", "uncertain"}
        /\ tmnt' = tmnt /\ late' = late
    BY <1>2 DEF StartPublish, StartCall
  <2>2. \A x \in Targets : kub'[x] = IF x = t THEN "mounting" ELSE kub[x]
    BY <1>0, <2>1 DEF CallsTyped
  <2> QED BY <2>1, <2>2, NothingHappens DEF Same, StatusOf
<1>3. ASSUME NEW c \in Calls, NEW t \in Targets, StartUnpublish(c, t)
      PROVE  [Contract!Next]_(Contract!vars)
  <2>1. /\ kub' = [kub EXCEPT ![t] = "leaving"] /\ kub[t] \in {"uncertain", "up", "leaving"}
        /\ tmnt' = tmnt /\ late' = late
    BY <1>3 DEF StartUnpublish, StartCall
  <2>2. \A x \in Targets : kub'[x] = IF x = t THEN "leaving" ELSE kub[x]
    BY <1>0, <2>1 DEF CallsTyped
  <2>3. /\ \A x \in Targets \ {t} : Same(x)
        /\ Shown(t)' = Shown(t) /\ StatusOf(t)' = "leaving"
        /\ StatusOf(t) \in {"new", "up", "leaving"}
    BY <2>1, <2>2 DEF Same, StatusOf
  <2> QED BY <2>1, <2>3, OneTarget DEF Same
<1>4. ASSUME NEW c \in Calls, GiveUp(c)
      PROVE  [Contract!Next]_(Contract!vars)
  BY <1>4 DEF GiveUp
<1>5. ASSUME KubeletRestart PROVE [Contract!Next]_(Contract!vars)
  <2> DEFINE Status == [t \in Targets |-> StatusOf(t)]
             S == {t \in Targets : Status[t] = "up"}
  <2>1. /\ \A t \in Targets : kub'[t] = IF kub[t] = "up" THEN "uncertain" ELSE kub[t]
        /\ tmnt' = tmnt /\ late' = late
    BY <1>5 DEF KubeletRestart, Uncertain
  <2>2. \A t \in Targets : StatusOf(t)' = IF t \in S THEN "new" ELSE Status[t]
    BY <2>1 DEF StatusOf
  <2>3. [t \in Targets |-> StatusOf(t)'] = [t \in Targets |-> IF t \in S THEN "new" ELSE Status[t]]
    BY <2>2
  <2>4. S \in SUBSET {t \in Targets : Status[t] = "up"}
    OBVIOUS
  <2>5. [t \in Targets |-> IF tmnt[t] = <<>> THEN None ELSE Head(tmnt[t])]'
          = [t \in Targets |-> IF tmnt[t] = <<>> THEN None ELSE Head(tmnt[t])]
    BY <2>1
  <2>6. Contract!Forget
    BY <2>3, <2>4, <2>5 DEF Contract!Forget
  <2> QED BY <2>1, <2>6 DEF Contract!Next, Contract!Promised
<1>6. ASSUME ContainerRestart PROVE [Contract!Next]_(Contract!vars)
  <2>1. /\ \A t \in Targets : kub'[t] = IF kub[t] = "mounting" THEN "uncertain" ELSE kub[t]
        /\ tmnt' = tmnt /\ late' = late
    BY <1>6 DEF ContainerRestart, ProcessDies, Uncertain
  <2> QED BY <2>1, NothingHappens DEF Same, StatusOf
<1>7. ASSUME NodeReboot PROVE [Contract!Next]_(Contract!vars)
  <2> DEFINE Status == [t \in Targets |-> StatusOf(t)]
  <2>1. /\ \A t \in Targets : kub'[t] = IF kub[t] \in {"mounting", "up"} THEN "uncertain" ELSE kub[t]
        /\ \A t \in Targets : tmnt'[t] = <<>>
        /\ late' = late
    BY <1>7 DEF NodeReboot, ProcessDies, Uncertain
  <2>2. \A t \in Targets : StatusOf(t)' = IF Status[t] = "up" THEN "new" ELSE Status[t]
    BY <2>1 DEF StatusOf
  <2>3. /\ [t \in Targets |-> StatusOf(t)'] =
             [t \in Targets |-> IF Status[t] = "up" THEN "new" ELSE Status[t]]
        /\ [t \in Targets |-> IF tmnt[t] = <<>> THEN None ELSE Head(tmnt[t])]' = [t \in Targets |-> None]
    BY <2>1, <2>2
  <2>4. Contract!Reboot
    BY <2>3 DEF Contract!Reboot
  <2> QED BY <2>1, <2>4 DEF Contract!Next, Contract!Promised
<1> QED BY <1>1, <1>2, <1>3, <1>4, <1>5, <1>6, <1>7 DEF Environment

LEMMA InitKeepsContract == Init => Contract!Init
<1> SUFFICES ASSUME Init PROVE Contract!Init
  OBVIOUS
<1>1. \A t \in Targets : StatusOf(t) = "new" /\ tmnt[t] = <<>>
  BY DEF Init, StatusOf
<1> QED BY <1>1 DEF Contract!Init, Init

\* A pod is shown the Lustre volume from the publish to the unpublish and never
\* anything else, as long as the kubelet waits for its calls.
THEOREM LustreKeepsContract == Spec => KeepsNodeContract
<1>1. NodeInv /\ [Next]_vars => [Contract!Next]_(Contract!vars)
  <2> SUFFICES ASSUME NodeInv, [Next]_vars PROVE [Contract!Next]_(Contract!vars)
    OBVIOUS
  <2>1. CASE late'
    BY <2>1 DEF Contract!Next
  <2>2. CASE Next /\ ~late'
    <3>1. ~late
      BY <2>2, TypeParts, HistoryType DEF NodeInv
    <3> QED BY <2>2, <3>1, EnvironmentKeepsContract, StagingIsInvisible, PublishKeepsContract,
               UnpublishKeepsContract DEF Next, Handler
  <2>3. CASE UNCHANGED vars
    BY <2>3, NothingHappens DEF vars, Same, Shown, StatusOf
  <2> QED BY <2>1, <2>2, <2>3
<1> QED BY <1>1, InitKeepsContract, LustreInvariant, PTL DEF Spec, KeepsNodeContract, Contract!Spec
=============================================================================
