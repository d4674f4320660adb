------------------------- MODULE VolumeContractProofs ------------------------
(***************************************************************************)
(* Theorems about Controller when the sidecars wait for their calls        *)
(* (PatientSpec): what is on the storage is what the claims were told, and *)
(* Controller implements VolumeContract when, besides, lookups at the      *)
(* storage and of PVs are answered truly and there is one proxy.  Each of  *)
(* the three is needed: ctl_shrink.cfg shows what a failed lookup does.    *)
(* At the end: when no answer of CreateVolume lacks its volume handle.     *)
(***************************************************************************)
EXTENDS ControllerProofs

AllWait == \A c \in Calls : call[c].pc # "idle" => call[c].waited

\* While one handler deletes a volume, no other can have reported it deleted.
DeletingOnly == \A c \in Calls : call[c].pc \in DeletePC => phase[call[c].v] = "deleting"

\* A volume that was just made has the size that was asked for.
CreatedInFull ==
  \A c \in Calls : call[c].pc \in {"createShare", "vip"} =>
    vol[Backing(c)] = BytesToMB(call[c].size)

\* An expansion is for more than the PV has, at the proxy of the PV.
ExpandFits ==
  \A c \in Calls : call[c].pc \in ExpandPC /\ phase[call[c].v] = "bound" =>
    /\ pv[call[c].v].capacity < call[c].size
    /\ call[c].pc # "pvOfExpand" => call[c].proxy = pv[call[c].v].proxy
    /\ call[c].current <= call[c].size
    /\ call[c].pc = "updated" => vol[Backing(c)] = BytesToMB(call[c].size)

WaitInv    == SafeInv /\ AllWait /\ DeletingOnly
PatientInv == WaitInv /\ CreatedInFull /\ ExpandFits /\ CapacityWithinMB

Handler(c) == Create(c) \/ Delete(c) \/ Expand(c)

-----------------------------------------------------------------------------
(***************************************************************************)
(* Handlers that are waited for do not meet at a volume.                   *)
(***************************************************************************)
\* A handler's step touches no other volume and no other claim.
LEMMA Elsewhere ==
  ASSUME TypeInv, NEW c \in Calls, Handler(c), NEW w \in Volumes, w # call[c].v
  PROVE  /\ phase'[w] = phase[w] /\ pv'[w] = pv[w]
         /\ \A p \in Proxies : /\ vol'[<<p, w>>] = vol[<<p, w>>]
                               /\ <<p, w>> \in share' <=> <<p, w>> \in share
<1>0. /\ phase \in [Volumes -> Phases]
      /\ pv \in [Volumes -> [proxy : Proxies, capacity : Nat] \cup {None}]
      /\ vol \in [Proxies \X Volumes -> Nat]
  BY DEF TypeInv, TypeOK
<1>1. phase'[w] = phase[w] /\ pv'[w] = pv[w]
  <2>1. CASE UNCHANGED cluster
    BY <2>1 DEF cluster
  <2>2. ASSUME NEW id, NEW n, AnswerCreate(c, id, n)
        PROVE  phase'[w] = phase[w] /\ pv'[w] = pv[w]
    BY <1>0, <2>2 DEF AnswerCreate
  <2>3. CASE AnswerDelete(c)
    BY <1>0, <2>3 DEF AnswerDelete
  <2>4. ASSUME NEW n, AnswerExpand(c, n)
        PROVE  phase'[w] = phase[w] /\ pv'[w] = pv[w]
    BY <1>0, <2>4 DEF AnswerExpand
  <2> QED BY <2>1, <2>2, <2>3, <2>4, CreateSteps, DeleteSteps, ExpandSteps DEF Handler, Error
<1>2. ASSUME NEW p \in Proxies
      PROVE  /\ vol'[<<p, w>>] = vol[<<p, w>>]
             /\ <<p, w>> \in share' <=> <<p, w>> \in share
  <2>1. <<p, w>> \in Proxies \X Volumes /\ <<p, w>> # Backing(c)
    BY DEF Backing
  <2>2. CASE Create(c)
    BY <1>0, <2>1, <2>2
       DEF Create, CreateReadPVC, CreateGetVolume, ZfsCreateVolume, LustreCreateVolume,
           MakeVolume, CreateShare, CreateResolveVip, backend
  <2>3. CASE Delete(c)
    BY <1>0, <2>1, <2>3
       DEF Delete, DeleteReadPV, DeleteShare, ZfsDeleteVolume, LustreDeleteVolume,
           DestroyVolume, backend
  <2>4. CASE Expand(c)
    BY <1>0, <2>1, <2>4
       DEF Expand, ExpandReadPV, ExpandReadCurrent, ZfsExpandVolume, LustreExpandVolume,
           GrowVolume, ExpandReadUpdated, backend
  <2> QED BY <2>2, <2>3, <2>4 DEF Handler
<1> QED BY <1>1, <1>2

LEMMA HandlerKind ==
  ASSUME TypeInv, NEW c \in Calls, Handler(c)
  PROVE  /\ call[c].pc \in Working /\ call[c].pc # "idle" /\ call[c].v \in Volumes
         /\ Create(c) <=> call[c].pc \in CreatePC
         /\ Delete(c) <=> call[c].pc \in DeletePC
         /\ Expand(c) <=> call[c].pc \in ExpandPC
BY CreateSteps, DeleteSteps, ExpandSteps, KindsApart DEF Handler, Working, TypeInv, CallsFit

LEMMA KindStays ==
  ASSUME TypeInv, NEW c \in Calls, Handler(c), NEW K \in Kinds, call'[c].pc \in K
  PROVE  call[c].pc \in K
<1>1. call'[c].pc # "idle"
  BY IdleIsNoKind
<1>2. ~Stop(c)
  BY <1>1, StopTyped DEF Idle
<1>3. PICK L \in Kinds : call'[c].pc \in L /\ call[c].pc \in L
  BY <1>2, CreateSteps, DeleteSteps, ExpandSteps
     DEF Handler, Error, AnswerCreate, AnswerDelete, AnswerExpand, Continues, Kinds
<1> QED BY <1>3, KindsApart DEF Kinds

\* A create is alone with its volume.
LEMMA CreateAlone ==
  ASSUME WaitInv, NEW c \in Calls, NEW d \in Calls, c # d,
         call[c].pc \in CreatePC, call[d].pc # "idle"
  PROVE  call[d].v # call[c].v
<1>1. call[d].pc \in Working /\ call[c].waited /\ call[d].waited
  BY KindsApart DEF WaitInv, SafeInv, TypeInv, TypeOK, AllWait, Working
<1>2. phase[call[c].v] \in {"wanted", "refused", "abandoned"}
  BY <1>1 DEF WaitInv, SafeInv, ClaimInv, ClaimsFit
<1> QED BY <1>1, <1>2 DEF WaitInv, SafeInv, ClaimInv, ClaimsFit, OneCallEach, Kinds, Working

\* An expansion is alone with its volume while the claim is bound.
LEMMA ExpandAlone ==
  ASSUME WaitInv, NEW c \in Calls, NEW d \in Calls, c # d,
         call[c].pc \in ExpandPC, phase[call[c].v] = "bound", call[d].pc # "idle"
  PROVE  call[d].v # call[c].v
<1>1. call[d].pc \in Working /\ call[c].waited /\ call[d].waited
  BY KindsApart DEF WaitInv, SafeInv, TypeInv, TypeOK, AllWait, Working
<1> QED BY <1>1 DEF WaitInv, SafeInv, ClaimInv, ClaimsFit, OneCallEach, Kinds, Working

LEMMA WaitInit == Init => WaitInv
<1> SUFFICES ASSUME Init PROVE AllWait /\ DeletingOnly
  BY InitSafe DEF WaitInv
<1> QED BY DEF Init, AllWait, DeletingOnly, Idle, DeletePC

LEMMA WaitNext == WaitInv /\ [PatientNext]_vars => WaitInv'
<1> SUFFICES ASSUME WaitInv, [PatientNext]_vars
             PROVE  AllWait' /\ DeletingOnly'
  BY NextSafe DEF WaitInv, Next
<1>0. TypeInv /\ phase \in [Volumes -> Phases] /\ call \in [Calls -> CallRecord]
  BY DEF WaitInv, SafeInv, TypeInv, TypeOK, CallRecord
<1>1. CASE UNCHANGED vars
  BY <1>1 DEF vars, WaitInv, AllWait, DeletingOnly
<1>2. ASSUME NEW c \in Calls, Handler(c)
      PROVE  AllWait' /\ DeletingOnly'
  <2>1. AllWait'
    BY <1>0, <1>2, OthersStay, HandlerKind DEF WaitInv, AllWait, Handler
  <2>2. ASSUME NEW d \in Calls, call'[d].pc \in DeletePC
        PROVE  phase'[call'[d].v] = "deleting"
    <3>1. CASE d = c
      <4>1. call[c].pc \in DeletePC /\ call'[c].pc # "idle"
        BY <1>0, <1>2, <2>2, <3>1, KindStays, KindsApart DEF Kinds
      <4> QED BY <1>0, <1>2, <3>1, <4>1, OthersStay DEF WaitInv, DeletingOnly, Handler, cluster
    <3>2. CASE d # c
      <4>1. /\ call'[d] = call[d] /\ call[d].v \in Volumes
            /\ phase[call[d].v] = "deleting" /\ call[d].waited
        BY <1>0, <1>2, <2>2, <3>2, OthersStay, KindsApart
           DEF WaitInv, DeletingOnly, AllWait, Handler, TypeInv, CallsFit
      <4>2. CASE call[d].v # call[c].v
        BY <1>0, <1>2, <4>1, <4>2, Elsewhere
      <4>3. CASE call[d].v = call[c].v
        <5>1. Expand(c)
          <6>1. call[c].pc \notin DeletePC
            BY <1>0, <1>2, <2>2, <3>2, <4>1, <4>3, HandlerKind
               DEF WaitInv, SafeInv, ClaimInv, OneCallEach, Kinds, AllWait
          <6>2. call[c].pc \notin CreatePC
            BY <1>0, <1>2, <4>1, <4>3, HandlerKind
               DEF WaitInv, SafeInv, ClaimInv, ClaimsFit, AllWait
          <6> QED BY <1>0, <1>2, <6>1, <6>2, HandlerKind DEF Handler
        <5> QED BY <1>0, <4>1, <5>1, ExpandSteps DEF Error, AnswerExpand, cluster
      <4> QED BY <4>2, <4>3
    <3> QED BY <3>1, <3>2
  <2> QED BY <2>1, <2>2 DEF DeletingOnly
<1>3. CASE Environment
  <2>1. ASSUME NEW c \in Calls, NEW v \in Volumes, NEW pc \in {"pvc", "pvOfDelete", "pvOfExpand"},
               StartCall(c, pc, v), pc = "pvOfDelete" => phase[v] = "deleting"
        PROVE  AllWait' /\ DeletingOnly'
    <3>1. /\ UNCHANGED phase /\ \A d \in Calls \ {c} : call'[d] = call[d]
          /\ call'[c].waited /\ call'[c].v = v /\ call'[c].pc = pc
      BY <1>0, <2>1 DEF StartCall, cluster, CallRecord
    <3> QED BY <2>1, <3>1 DEF WaitInv, AllWait, DeletingOnly, DeletePC
  <2>2. ASSUME NEW v \in Volumes, DeleteClaim(v)
        PROVE  AllWait' /\ DeletingOnly'
    <3>1. \/ phase[v] = "bound" /\ phase' = [phase EXCEPT ![v] = "deleting"]
          \/ phase[v] \in {"wanted", "refused"} /\ phase' = [phase EXCEPT ![v] = "abandoned"]
      BY <2>2 DEF DeleteClaim
    <3>2. \A w \in Volumes : phase[w] = "deleting" => phase'[w] = "deleting"
      BY <1>0, <3>1
    <3>3. \A c \in Calls : call[c].pc \in DeletePC => call[c].v \in Volumes
      BY <1>0, KindsApart DEF TypeInv, CallsFit
    <3> QED BY <2>2, <3>2, <3>3 DEF DeleteClaim, WaitInv, AllWait, DeletingOnly
  <2>3. CASE (\E v \in Volumes, s \in Sizes : RequestSize(v, s)) \/ \E p \in Updates : UpdateClientInfo(p)
    BY <2>3 DEF RequestSize, UpdateClientInfo, cluster, WaitInv, AllWait, DeletingOnly
  <2>4. CASE Crash
    BY <2>4 DEF Crash, Idle, AllWait, DeletingOnly, DeletePC
  <2> QED BY <1>3, <2>1, <2>2, <2>3, <2>4 DEF Environment, StartCreate, StartDelete, StartExpand
<1> QED BY <1>1, <1>2, <1>3 DEF PatientNext, Handler

-----------------------------------------------------------------------------
(***************************************************************************)
(* Sizes.                                                                  *)
(***************************************************************************)
LEMMA HandlerCreatesInFull ==
  ASSUME WaitInv, CreatedInFull, NEW c \in Calls, Handler(c)
  PROVE  CreatedInFull'
<1> SUFFICES ASSUME NEW d \in Calls, call'[d].pc \in {"createShare", "vip"}
             PROVE  vol'[<<call'[d].proxy, call'[d].v>>] = BytesToMB(call'[d].size)
  BY DEF CreatedInFull, Backing, BytesToMB
<1>0. /\ TypeInv /\ call \in [Calls -> CallRecord] /\ vol \in [Proxies \X Volumes -> Nat]
      /\ {"createShare", "vip"} \subseteq CreatePC /\ CreatePC \in Kinds
  BY DEF WaitInv, SafeInv, TypeInv, TypeOK, CallRecord, CreatePC, Kinds
<1>1. CASE d # c
  <2>1. call'[d] = call[d]
    BY <1>0, <1>1, OthersStay DEF Handler
  <2>2. /\ call[d].proxy \in Proxies /\ call[d].v \in Volumes
        /\ vol[<<call[d].proxy, call[d].v>>] = BytesToMB(call[d].size)
    BY <1>0, <2>1, BackingTyped DEF CreatedInFull, Backing
  <2>3. call[c].v # call[d].v
    BY <1>0, <1>1, <2>1, HandlerKind, CreateAlone
  <2> QED BY <1>0, <2>1, <2>2, <2>3, Elsewhere
<1>2. CASE d = c
  <2>1. Create(c)
    BY <1>0, <1>2, KindStays, HandlerKind
  <2>2. ~Stop(c)
    BY <1>0, <1>2, StopTyped DEF Idle
  <2>3. ASSUME NEW next, At(c, "createVolume"), MakeVolume(c, next)
        PROVE  vol'[<<call'[d].proxy, call'[d].v>>] = BytesToMB(call'[d].size)
    <3>1. /\ vol' = [vol EXCEPT ![Backing(c)] = BytesToMB(call[c].size)]
          /\ Goto(c, next)
      BY <2>2, <2>3 DEF MakeVolume, Answered, Refused, Error
    <3>2. Backing(c) \in Proxies \X Volumes
      BY <1>0, <2>3, BackingTyped DEF At
    <3>3. /\ call'[c].proxy = call[c].proxy /\ call'[c].v = call[c].v
          /\ call'[c].size = call[c].size
      BY <1>0, <3>1, GotoContinues DEF Continues
    <3> QED BY <1>0, <1>2, <3>1, <3>2, <3>3 DEF Backing
  <2>4. CASE CreateShare(c)
    <3>1. vol' = vol /\ Goto(c, "vip") /\ call[c].pc = "createShare"
      BY <2>2, <2>4 DEF CreateShare, Answered, Refused, Error, At
    <3>2. /\ call'[c].proxy = call[c].proxy /\ call'[c].v = call[c].v
          /\ call'[c].size = call[c].size
      BY <1>0, <3>1, GotoContinues DEF Continues
    <3> QED BY <1>2, <3>1, <3>2 DEF CreatedInFull, Backing
  <2>5. CASE CreateReadPVC(c)
    BY <1>0, <1>2, <2>2, <2>5 DEF CreateReadPVC, Error, CallRecord
  <2>6. CASE CreateGetVolume(c)
    BY <1>0, <1>2, <2>2, <2>6 DEF CreateGetVolume, AnswerCreate, Goto, CallRecord
  <2>7. CASE CreateResolveVip(c)
    BY <2>2, <2>7 DEF CreateResolveVip, AnswerCreate, Error
  <2> QED BY <2>1, <2>3, <2>4, <2>5, <2>6, <2>7 DEF Create, ZfsCreateVolume, LustreCreateVolume
<1> QED BY <1>1, <1>2

\* What a handler of an expansion leaves when it goes on.
LEMMA ExpandGoesOn ==
  ASSUME WaitInv, ExpandFits, NEW c \in Calls, Expand(c), call'[c].pc # "idle",
         phase[call[c].v] = "bound"
  PROVE  /\ call'[c].pc # "pvOfExpand" => call'[c].proxy = pv[call[c].v].proxy
         /\ call'[c].size = call[c].size
         /\ call'[c].current <= call[c].size
         /\ call'[c].pc = "updated" => vol'[<<call'[c].proxy, call[c].v>>] = BytesToMB(call[c].size)
<1>0. /\ TypeInv /\ call \in [Calls -> CallRecord] /\ vol \in [Proxies \X Volumes -> Nat]
      /\ call[c].pc \in ExpandPC /\ call[c].current <= call[c].size
      /\ call[c].pc # "pvOfExpand" => call[c].proxy = pv[call[c].v].proxy
  BY ExpandSteps DEF WaitInv, SafeInv, TypeInv, TypeOK, CallRecord, ExpandFits
<1>1. ~Stop(c)
  BY <1>0, StopTyped DEF Idle
<1>2. CASE ExpandReadPV(c)
  BY <1>0, <1>1, <1>2 DEF ExpandReadPV, Error, CallRecord
<1>3. CASE ExpandReadCurrent(c)
  <2>1. CASE Goto(c, "expand")
    BY <1>0, <1>3, <2>1, GotoContinues DEF ExpandReadCurrent, Continues, At
  <2>2. CASE /\ call' = [call EXCEPT ![c].pc = "expand", ![c].current = vol[Backing(c)] * MB]
             /\ ~(call[c].size <= vol[Backing(c)] * MB)
    <3>1. vol[Backing(c)] * MB \in Nat /\ call[c].size \in Nat
      BY <1>0, <1>3, BackingTyped DEF ExpandReadCurrent, At, TypeInv, TypeOK
    <3>2. vol[Backing(c)] * MB <= call[c].size
      BY <2>2, <3>1
    <3> QED BY <1>0, <1>3, <2>2, <3>2 DEF ExpandReadCurrent, At, CallRecord
  <2> QED BY <1>1, <1>3, <2>1, <2>2 DEF ExpandReadCurrent, AnswerExpand
<1>4. CASE At(c, "expand") /\ GrowVolume(c)
  <2>1. /\ vol' = [vol EXCEPT ![Backing(c)] = BytesToMB(call[c].size)]
        /\ Goto(c, "updated")
    BY <1>1, <1>4 DEF GrowVolume, Answered, Refused, Error
  <2>2. Backing(c) \in Proxies \X Volumes
    BY <1>0, <1>4, BackingTyped DEF At
  <2> QED BY <1>0, <1>4, <2>1, <2>2, GotoContinues DEF Continues, Backing, At
<1>5. CASE ExpandReadUpdated(c)
  BY <1>1, <1>5 DEF ExpandReadUpdated, AnswerExpand
<1> QED BY <1>2, <1>3, <1>4, <1>5 DEF Expand, ZfsExpandVolume, LustreExpandVolume

LEMMA HandlerExpandFits ==
  ASSUME WaitInv, ExpandFits, NEW c \in Calls, Handler(c)
  PROVE  ExpandFits'
<1> SUFFICES ASSUME NEW d \in Calls, call'[d].pc \in ExpandPC, phase'[call'[d].v] = "bound"
             PROVE  /\ pv'[call'[d].v].capacity < call'[d].size
                    /\ call'[d].pc # "pvOfExpand" => call'[d].proxy = pv'[call'[d].v].proxy
                    /\ call'[d].current <= call'[d].size
                    /\ call'[d].pc = "updated"
                       => vol'[<<call'[d].proxy, call'[d].v>>] = BytesToMB(call'[d].size)
  BY DEF ExpandFits, Backing, BytesToMB
<1>0. TypeInv /\ ExpandPC \in Kinds
  BY DEF WaitInv, SafeInv, Kinds
<1>1. CASE d # c
  <2>1. call'[d] = call[d] /\ call[d].v \in Volumes /\ call[d].waited
    BY <1>0, <1>1, OthersStay, KindsApart DEF Handler, TypeInv, CallsFit, WaitInv, AllWait
  <2>2. phase[call[d].v] = "bound"
    <3>1. CASE call[c].v # call[d].v
      BY <1>0, <2>1, <3>1, Elsewhere
    <3>2. CASE call[c].v = call[d].v
      <4>1. ~Create(c)
        BY <1>0, <1>1, <2>1, <3>2, HandlerKind, KindsApart, CreateAlone
      <4>2. ~AnswerDelete(c)
        <5>1. call[c].v \in Volumes /\ phase \in [Volumes -> Phases] /\ call[c].waited
          BY <1>0, HandlerKind DEF WaitInv, AllWait, TypeInv, TypeOK
        <5> QED BY <2>1, <3>2, <5>1 DEF AnswerDelete
      <4> QED BY <1>0, <2>1, <3>2, <4>1, <4>2, DeleteSteps, ExpandSteps
              DEF Handler, Error, AnswerExpand, cluster
    <3> QED BY <3>1, <3>2
  <2>3. call[c].v # call[d].v
    BY <1>0, <1>1, <2>1, <2>2, HandlerKind, ExpandAlone
  <2>4. pv'[call[d].v] = pv[call[d].v]
    BY <1>0, <2>1, <2>3, Elsewhere
  <2>5. call[d].pc = "updated" => vol'[<<call[d].proxy, call[d].v>>] = vol[<<call[d].proxy, call[d].v>>]
    BY <1>0, <2>1, <2>3, Elsewhere, BackingTyped
  <2> QED BY <2>1, <2>2, <2>4, <2>5 DEF ExpandFits, Backing
<1>2. CASE d = c
  <2>1. Expand(c) /\ call'[c].pc # "idle"
    BY <1>0, <1>2, KindStays, HandlerKind, KindsApart
  <2>2. UNCHANGED cluster /\ call'[c].v = call[c].v
    BY <1>0, <2>1, OthersStay
  <2>3. pv[call[c].v].capacity < call[c].size
    BY <1>2, <2>1, <2>2, ExpandSteps, <1>0 DEF ExpandFits, cluster
  <2> QED BY <1>0, <1>2, <2>1, <2>2, <2>3, ExpandGoesOn DEF cluster
<1> QED BY <1>1, <1>2

\* What a create answers with is on the storage, up to the rounding.
LEMMA CreateCapacity ==
  ASSUME WaitInv, CreatedInFull, NEW c \in Calls, Create(c), phase'[call[c].v] = "bound"
  PROVE  pv'[call[c].v].capacity < (vol'[<<pv'[call[c].v].proxy, call[c].v>>] + 1) * MB
<1> DEFINE v == call[c].v
<1>0. /\ TypeInv /\ phase \in [Volumes -> Phases] /\ v \in Volumes
      /\ pv \in [Volumes -> [proxy : Proxies, capacity : Nat] \cup {None}]
      /\ phase[v] # "bound" /\ MB \in Nat \ {0}
  BY CreateSteps, KindsApart, SizesAssumption
     DEF WaitInv, SafeInv, TypeInv, TypeOK, CallsFit, ClaimInv, ClaimsFit, AllWait
<1>1. ASSUME NEW id, NEW n \in Nat, AnswerCreate(c, id, n), n < (vol[Backing(c)] + 1) * MB,
             UNCHANGED vol
      PROVE  pv'[v].capacity < (vol'[<<pv'[v].proxy, v>>] + 1) * MB
  <2>1. pv'[v] = [proxy |-> call[c].proxy, capacity |-> n]
    BY <1>0, <1>1 DEF AnswerCreate
  <2> QED BY <1>1, <2>1 DEF Backing
<1>2. ~Error(c)
  BY <1>0 DEF Error, cluster
<1>3. CASE CreateGetVolume(c)
  <2>1. AnswerCreate(c, VolumeIdOfExisting(v), vol[Backing(c)] * MB) /\ UNCHANGED vol
    BY <1>0, <1>3 DEF CreateGetVolume, Goto, cluster, backend
  <2>2. vol[Backing(c)] * MB < (vol[Backing(c)] + 1) * MB /\ vol[Backing(c)] * MB \in Nat
    BY <1>0, <1>3, BackingTyped DEF CreateGetVolume, At
  <2> QED BY <1>1, <2>1, <2>2
<1>4. CASE CreateResolveVip(c)
  <2>1. AnswerCreate(c, v, call[c].size) /\ UNCHANGED vol
    BY <1>2, <1>4 DEF CreateResolveVip, backend
  <2>2. vol[Backing(c)] = BytesToMB(call[c].size) /\ call[c].size \in Nat
    BY <1>0, <1>4, StoredSize DEF CreateResolveVip, At, CreatedInFull, CreatePC
  <2>3. call[c].size < (vol[Backing(c)] + 1) * MB
    BY <2>2, RoundDown
  <2> QED BY <1>1, <2>1, <2>2, <2>3
<1>5. CASE CreateReadPVC(c) \/ ZfsCreateVolume(c) \/ LustreCreateVolume(c) \/ CreateShare(c)
  BY <1>0, <1>2, <1>5
     DEF CreateReadPVC, ZfsCreateVolume, LustreCreateVolume, MakeVolume, CreateShare,
         Answered, Refused, Goto, cluster
<1> QED BY <1>3, <1>4, <1>5 DEF Create

\* So is what an expansion answers with, and what an expansion that is under
\* way or fails leaves of the capacity known before.
LEMMA ExpandCapacity ==
  ASSUME WaitInv, ExpandFits, CapacityWithinMB, NEW c \in Calls, Expand(c),
         phase[call[c].v] = "bound"
  PROVE  pv'[call[c].v].capacity < (vol'[<<pv'[call[c].v].proxy, call[c].v>>] + 1) * MB
<1> DEFINE v == call[c].v
           B == <<pv[v].proxy, v>>
<1>0. /\ TypeInv /\ v \in Volumes /\ B \in Proxies \X Volumes /\ MB \in Nat \ {0}
      /\ pv \in [Volumes -> [proxy : Proxies, capacity : Nat] \cup {None}]
      /\ vol \in [Proxies \X Volumes -> Nat]
      /\ pv[v].capacity \in Nat /\ call[c].size \in Nat /\ call[c].current \in Nat
      /\ call[c].pc \in ExpandPC
  BY ExpandSteps, KindsApart, PvTyped, SizesAssumption
     DEF WaitInv, SafeInv, TypeInv, TypeOK, CallsFit
<1>1. /\ pv[v].capacity < call[c].size
      /\ call[c].pc # "pvOfExpand" => Backing(c) = B
      /\ call[c].current <= call[c].size
      /\ call[c].pc = "updated" => vol[B] = BytesToMB(call[c].size)
      /\ pv[v].capacity < (vol[B] + 1) * MB
  BY <1>0 DEF ExpandFits, CapacityWithinMB, Backing
<1>2. ASSUME NEW n \in Nat, AnswerExpand(c, n), n < (vol[B] + 1) * MB, UNCHANGED vol
      PROVE  pv'[v].capacity < (vol'[<<pv'[v].proxy, v>>] + 1) * MB
  <2>1. pv[v] \in [proxy : Proxies, capacity : Nat]
    BY <1>0, PvTyped DEF WaitInv, SafeInv
  <2>2. pv'[v] = pv[v] \/ (pv'[v].proxy = pv[v].proxy /\ pv'[v].capacity = n)
    BY <1>0, <1>2, <2>1 DEF AnswerExpand
  <2> QED BY <1>1, <1>2, <2>2
<1>3. ASSUME UNCHANGED <<cluster, vol>>
      PROVE  pv'[v].capacity < (vol'[<<pv'[v].proxy, v>>] + 1) * MB
  BY <1>1, <1>3 DEF cluster
<1>4. vol[B] * MB < (vol[B] + 1) * MB /\ vol[B] * MB \in Nat /\ vol[B] \in Nat
  BY <1>0
<1>5. CASE ExpandReadPV(c)
  BY <1>3, <1>5 DEF ExpandReadPV, Error, backend, cluster
<1>6. CASE ExpandReadCurrent(c)
  <2>1. CASE AnswerExpand(c, vol[Backing(c)] * MB)
    BY <1>1, <1>2, <1>4, <1>6, <2>1 DEF ExpandReadCurrent, At, backend
  <2>2. CASE UNCHANGED cluster
    BY <1>3, <1>6, <2>2 DEF ExpandReadCurrent, backend, cluster
  <2> QED BY <1>6, <2>1, <2>2 DEF ExpandReadCurrent, Goto
<1>7. CASE At(c, "expand") /\ GrowVolume(c)
  <2>1. CASE UNCHANGED vol
    BY <1>3, <1>7, <2>1 DEF GrowVolume, Answered, Refused, Goto, Error, cluster
  <2>2. CASE vol' = [vol EXCEPT ![Backing(c)] = BytesToMB(call[c].size)]
    <3>1. UNCHANGED cluster
      BY <1>7 DEF GrowVolume, Answered, Refused, Goto, Error
    <3>2. vol'[B] = BytesToMB(call[c].size)
      BY <1>0, <1>1, <1>7, <2>2 DEF At
    <3>3. /\ call[c].size < (BytesToMB(call[c].size) + 1) * MB
          /\ BytesToMB(call[c].size) \in Nat
      BY <1>0, RoundDown
    <3>4. pv[v].capacity < (BytesToMB(call[c].size) + 1) * MB
      BY <1>0, <1>1, <3>3
    <3> QED BY <3>1, <3>2, <3>4 DEF cluster
  <2> QED BY <1>7, <2>1, <2>2 DEF GrowVolume
<1>8. CASE ExpandReadUpdated(c)
  <2>1. vol[B] = BytesToMB(call[c].size) /\ Backing(c) = B
    BY <1>1, <1>8 DEF ExpandReadUpdated, At
  <2>2. call[c].size < (vol[B] + 1) * MB
    BY <1>0, <2>1, RoundDown
  <2>3. \A n \in {AtLeast(vol[Backing(c)] * MB, call[c].current), AtLeast(call[c].size, call[c].current)} :
          n \in Nat /\ n < (vol[B] + 1) * MB
    BY <1>0, <1>1, <1>4, <2>1, <2>2 DEF AtLeast
  <2> QED BY <1>2, <1>8, <2>3 DEF ExpandReadUpdated, backend
<1> QED BY <1>5, <1>6, <1>7, <1>8 DEF Expand, ZfsExpandVolume, LustreExpandVolume

LEMMA HandlerCapacity ==
  ASSUME PatientInv, NEW c \in Calls, Handler(c)
  PROVE  CapacityWithinMB'
<1> SUFFICES ASSUME NEW v \in Volumes, phase'[v] = "bound"
             PROVE  pv'[v].capacity < (vol'[<<pv'[v].proxy, v>>] + 1) * MB
  BY DEF CapacityWithinMB
<1>0. /\ TypeInv /\ ClaimInv /\ WaitInv /\ phase \in [Volumes -> Phases]
  BY DEF PatientInv, WaitInv, SafeInv, TypeInv, TypeOK
<1>1. CASE v # call[c].v
  BY <1>0, <1>1, Elsewhere, PvTyped DEF PatientInv, CapacityWithinMB
<1>2. CASE v = call[c].v
  <2>1. CASE Create(c)
    BY <1>2, <2>1, CreateCapacity DEF PatientInv
  <2>2. CASE Expand(c)
    <3>1. phase[v] = "bound"
      BY <1>0, <2>2, ExpandSteps DEF Error, AnswerExpand, cluster
    <3> QED BY <1>2, <2>2, <3>1, ExpandCapacity DEF PatientInv
  <2>3. CASE Delete(c)
    <3>1. phase[v] # "bound" /\ call[c].waited
      BY <1>0, <1>2, <2>3, HandlerKind DEF WaitInv, DeletingOnly, AllWait
    <3> QED BY <1>0, <1>2, <2>3, <3>1, DeleteSteps DEF Error, AnswerDelete, cluster
  <2> QED BY <2>1, <2>2, <2>3 DEF Handler
<1> QED BY <1>1, <1>2

LEMMA EnvironmentSizes ==
  ASSUME PatientInv, Environment
  PROVE  CreatedInFull' /\ ExpandFits' /\ CapacityWithinMB'
<1>0. /\ TypeInv /\ ClaimInv /\ call \in [Calls -> CallRecord]
      /\ pv \in [Volumes -> [proxy : Proxies, capacity : Nat] \cup {None}]
  BY DEF PatientInv, WaitInv, SafeInv, TypeInv, TypeOK, CallRecord
<1>1. UNCHANGED vol
  BY <1>0, EnvironmentSteps DEF backend
<1>2. CreatedInFull'
  BY <1>0, <1>1, EnvironmentSteps DEF PatientInv, CreatedInFull, Backing, BytesToMB
<1>3. CapacityWithinMB'
  BY <1>0, <1>1, EnvironmentSteps DEF PatientInv, CapacityWithinMB
<1>4. ExpandFits'
  <2> SUFFICES ASSUME NEW d \in Calls, call'[d].pc \in ExpandPC, phase'[call'[d].v] = "bound"
               PROVE  /\ pv'[call'[d].v].capacity < call'[d].size
                      /\ call'[d].pc # "pvOfExpand" => call'[d].proxy = pv'[call'[d].v].proxy
                      /\ call'[d].current <= call'[d].size
                      /\ call'[d].pc = "updated"
                         => vol'[<<call'[d].proxy, call'[d].v>>] = BytesToMB(call'[d].size)
    BY DEF ExpandFits, Backing, BytesToMB
  <2>1. CASE call'[d] = call[d]
    <3>1. call[d].v \in Volumes
      BY <1>0, <2>1, KindsApart DEF TypeInv, CallsFit
    <3> QED BY <1>0, <1>1, <2>1, <3>1, EnvironmentSteps DEF PatientInv, ExpandFits, Backing
  <2>2. ASSUME NEW c \in Calls, NEW v \in Volumes, StartCreate(c, v) \/ StartDelete(c, v) \/ StartExpand(c, v)
        PROVE  call'[d] = call[d] \/ (c = d /\ StartExpand(c, v))
    <3>1. "pvc" \notin ExpandPC /\ "pvOfDelete" \notin ExpandPC
      BY DEF ExpandPC
    <3> QED BY <1>0, <2>2, <3>1 DEF StartCreate, StartDelete, StartCall, CallRecord, StartExpand
  <2>3. ASSUME NEW v \in Volumes, StartExpand(d, v)
        PROVE  /\ pv'[call'[d].v].capacity < call'[d].size
               /\ call'[d].pc = "pvOfExpand" /\ call'[d].current <= call'[d].size
    <3>1. /\ pv[v].capacity < want[v] /\ UNCHANGED pv /\ call[d] = Idle
          /\ call'[d] = [call[d] EXCEPT !.pc = "pvOfExpand", !.v = v, !.size = want[v], !.waited = TRUE]
          /\ want[v] \in Nat
      BY <1>0, <2>3, SizesAssumption DEF StartExpand, StartCall, cluster, TypeInv, TypeOK
    <3>2. call'[d].v = v /\ call'[d].size = want[v] /\ call'[d].pc = "pvOfExpand" /\ call'[d].current = 0
      BY <1>0, <3>1 DEF Idle, CallRecord
    <3> QED BY <3>1, <3>2
  <2>4. CASE UNCHANGED call
    BY <2>1, <2>4
  <2>5. CASE Crash
    BY <2>5, KindsApart DEF Crash, Idle
  <2>6. UNCHANGED call \/ Crash
        \/ \E c \in Calls, v \in Volumes : StartCreate(c, v) \/ StartDelete(c, v) \/ StartExpand(c, v)
    BY DEF Environment, DeleteClaim, RequestSize, UpdateClientInfo
  <2> QED BY <2>1, <2>2, <2>3, <2>4, <2>5, <2>6
<1> QED BY <1>2, <1>3, <1>4

LEMMA PatientInit == Init => PatientInv
<1> SUFFICES ASSUME Init PROVE CreatedInFull /\ ExpandFits /\ CapacityWithinMB
  BY WaitInit DEF PatientInv
<1> QED BY DEF Init, CreatedInFull, ExpandFits, CapacityWithinMB, Idle, ExpandPC

LEMMA PatientStep == PatientInv /\ [PatientNext]_vars => PatientInv'
<1> SUFFICES ASSUME PatientInv, [PatientNext]_vars
             PROVE  CreatedInFull' /\ ExpandFits' /\ CapacityWithinMB'
  BY WaitNext DEF PatientInv
<1>1. CASE UNCHANGED vars
  BY <1>1 DEF vars, PatientInv, CreatedInFull, ExpandFits, CapacityWithinMB, Backing, BytesToMB
<1>2. CASE Environment
  BY <1>2, EnvironmentSizes
<1>3. ASSUME NEW c \in Calls, Handler(c)
      PROVE  CreatedInFull' /\ ExpandFits' /\ CapacityWithinMB'
  BY <1>3, HandlerCreatesInFull, HandlerExpandFits, HandlerCapacity DEF PatientInv
<1> QED BY <1>1, <1>2, <1>3 DEF PatientNext, Handler

\* Whatever step fails, answer is lost or lookup lies, the capacity a PV
\* promises is on the storage up to the rounding down to whole MB (zfs.go:127,
\* 236; controllerserver.go:520-539), as long as the sidecars wait for their
\* calls.
THEOREM CapacityIsStored == PatientSpec => []CapacityWithinMB
<1>1. PatientInv => CapacityWithinMB
  BY DEF PatientInv
<1> QED BY <1>1, PatientInit, PatientStep, PTL DEF PatientSpec

-----------------------------------------------------------------------------
(***************************************************************************)
(* Towards the contract.                                                   *)
(***************************************************************************)
TrueLookups == "getVolume" \notin Faults
TrueLists   == "pvList" \notin Faults
OneProxy    == \A p, q \in Proxies : p = q

\* An expansion that is about to ask for storage asks for more than there is.
GrowsOnly ==
  \A c \in Calls : call[c].pc = "expand" => vol[Backing(c)] * MB <= call[c].size

\* There is a share of ZFS volumes only.
ShareZfs ==
  /\ \A p \in Proxies, v \in Volumes : <<p, v>> \in share => Fs[v] = "zfs"
  /\ \A c \in Calls : call[c].pc = "createShare" => Zfs(c)

SizesMB  == {BytesToMB(s) : s \in Sizes}
VolSizes == \A x \in Proxies \X Volumes : vol[x] \in {0} \cup SizesMB

-----------------------------------------------------------------------------
(***************************************************************************)
(* No request shrinks a volume.                                            *)
(***************************************************************************)
LEMMA HandlerGrowsOnly ==
  ASSUME TrueLookups, WaitInv, GrowsOnly, NEW c \in Calls, Handler(c)
  PROVE  GrowsOnly'
<1> SUFFICES ASSUME NEW d \in Calls, call'[d].pc = "expand"
             PROVE  vol'[<<call'[d].proxy, call'[d].v>>] * MB <= call'[d].size
  BY DEF GrowsOnly, Backing
<1>0. /\ TypeInv /\ call \in [Calls -> CallRecord] /\ vol \in [Proxies \X Volumes -> Nat]
      /\ "expand" \in ExpandPC /\ ExpandPC \in Kinds /\ MB \in Nat
  BY SizesAssumption DEF WaitInv, SafeInv, TypeInv, TypeOK, CallRecord, ExpandPC, Kinds
<1>1. CASE d # c
  <2>1. call'[d] = call[d]
    BY <1>0, <1>1, OthersStay DEF Handler
  <2>2. /\ call[d].proxy \in Proxies /\ call[d].v \in Volumes /\ call[d].size \in Nat
        /\ vol[<<call[d].proxy, call[d].v>>] * MB <= call[d].size
        /\ call[d].waited /\ call[d].pc # "idle"
    BY <1>0, <2>1, BackingTyped
       DEF GrowsOnly, Backing, WaitInv, AllWait, TypeInv, TypeOK
  <2> DEFINE B == <<call[d].proxy, call[d].v>>
  <2>3. CASE call[c].v # call[d].v
    BY <1>0, <2>1, <2>2, <2>3, Elsewhere
  <2>4. CASE call[c].v = call[d].v
    <3>1. ~Create(c)
      BY <1>0, <1>1, <2>1, <2>2, <2>4, HandlerKind, CreateAlone
    <3>2. ~Expand(c)
      BY <1>0, <1>1, <2>1, <2>2, <2>4, HandlerKind
         DEF WaitInv, SafeInv, ClaimInv, OneCallEach, AllWait
    <3>3. vol' = vol \/ vol' = [vol EXCEPT ![Backing(c)] = 0]
      BY <3>1, <3>2
         DEF Handler, Delete, DeleteReadPV, DeleteShare, ZfsDeleteVolume, LustreDeleteVolume,
             DestroyVolume, backend
    <3>4. vol'[B] = vol[B] \/ vol'[B] = 0
      BY <1>0, <2>2, <3>3
    <3> QED BY <1>0, <2>1, <2>2, <3>4
  <2> QED BY <2>3, <2>4
<1>2. CASE d = c
  <2>1. Expand(c) /\ ~Stop(c)
    BY <1>0, <1>2, KindStays, HandlerKind, StopTyped DEF Idle
  <2>2. CASE ExpandReadCurrent(c)
    <3>1. /\ vol' = vol /\ call'[c].proxy = call[c].proxy /\ call'[c].v = call[c].v
          /\ call'[c].size = call[c].size
      BY <1>0, <2>1, <2>2
         DEF ExpandReadCurrent, AnswerExpand, Goto, backend, CallRecord
    <3>2. /\ vol[Backing(c)] \in Nat /\ call[c].size \in Nat /\ vol[Backing(c)] * MB \in Nat
      BY <1>0, <2>2, BackingTyped DEF ExpandReadCurrent, At, TypeInv, TypeOK
    <3>3. vol[Backing(c)] * MB <= call[c].size
      <4>1. CASE ~Exists(c)
        BY <1>0, <3>2, <4>1 DEF Exists
      <4>2. CASE Exists(c)
        BY <2>1, <2>2, <3>2, <4>2 DEF ExpandReadCurrent, MayFail, TrueLookups, AnswerExpand
      <4> QED BY <4>1, <4>2
    <3> QED BY <1>2, <3>1, <3>3 DEF Backing
  <2>3. CASE ExpandReadPV(c)
    BY <1>0, <1>2, <2>1, <2>3 DEF ExpandReadPV, Error, CallRecord
  <2>4. CASE GrowVolume(c)
    BY <1>0, <1>2, <2>1, <2>4 DEF GrowVolume, Answered, Refused, Error, Goto, CallRecord
  <2>5. CASE ExpandReadUpdated(c)
    BY <2>1, <2>5 DEF ExpandReadUpdated, AnswerExpand
  <2> QED BY <2>1, <2>2, <2>3, <2>4, <2>5 DEF Expand, ZfsExpandVolume, LustreExpandVolume
<1> QED BY <1>1, <1>2

LEMMA GrowsOnlyNext ==
  ASSUME TrueLookups, WaitInv, GrowsOnly, [PatientNext]_vars
  PROVE  GrowsOnly'
<1>1. CASE UNCHANGED vars
  BY <1>1 DEF vars, GrowsOnly, Backing
<1>2. CASE Environment
  BY <1>2, EnvironmentSteps DEF backend, WaitInv, SafeInv, GrowsOnly, Backing
<1>3. ASSUME NEW c \in Calls, Handler(c)
      PROVE  GrowsOnly'
  BY <1>3, HandlerGrowsOnly
<1> QED BY <1>1, <1>2, <1>3 DEF PatientNext, Handler

LEMMA GrowsOnlyInit == Init => GrowsOnly
BY DEF Init, GrowsOnly, Idle

LEMMA GrowingIsNoShrinking ==
  ASSUME TypeInv, GrowsOnly
  PROVE  NeverAsksToShrink
<1> SUFFICES ASSUME NEW c \in Calls, call[c].pc = "expand"
             PROVE  BytesToMB(call[c].size) >= vol[Backing(c)]
  BY DEF NeverAsksToShrink, At
<1>1. vol[Backing(c)] \in Nat /\ call[c].size \in Nat /\ vol[Backing(c)] * MB <= call[c].size
  BY BackingTyped DEF GrowsOnly, TypeInv, TypeOK
<1>2. vol[Backing(c)] <= BytesToMB(call[c].size) /\ BytesToMB(call[c].size) \in Nat
  BY <1>1, RoundMonotone, RoundDown
<1> QED BY <1>1, <1>2

\* "Shrink (reducing requested size) is not supported" (README.md:160): when
\* GetVolume tells the truth and the sidecars wait, no handler asks a proxy for
\* less than a volume has, whatever else fails.
THEOREM NothingShrinks ==
  ASSUME TrueLookups
  PROVE  PatientSpec => []NeverAsksToShrink
<1>1. Init => WaitInv /\ GrowsOnly
  BY WaitInit, GrowsOnlyInit
<1>2. WaitInv /\ GrowsOnly /\ [PatientNext]_vars => WaitInv' /\ GrowsOnly'
  BY WaitNext, GrowsOnlyNext
<1>3. WaitInv /\ GrowsOnly => NeverAsksToShrink
  BY GrowingIsNoShrinking DEF WaitInv, SafeInv
<1> QED BY <1>1, <1>2, <1>3, PTL DEF PatientSpec

-----------------------------------------------------------------------------
(***************************************************************************)
(* A volume that is reported deleted is gone.                              *)
(***************************************************************************)
LEMMA ShareZfsInit == Init => ShareZfs
BY DEF Init, ShareZfs, Idle

LEMMA ShareZfsNext ==
  ASSUME TypeInv, ShareZfs, [PatientNext]_vars
  PROVE  ShareZfs'
<1>0. call \in [Calls -> CallRecord]
  BY DEF TypeInv, TypeOK, CallRecord
<1>1. CASE UNCHANGED vars
  BY <1>1 DEF vars, ShareZfs, Zfs
<1>2. CASE Environment
  BY <1>2, EnvironmentSteps DEF backend, ShareZfs, Zfs
<1>3. ASSUME NEW c \in Calls, Handler(c)
      PROVE  ShareZfs'
  <2>1. ASSUME NEW d \in Calls, call'[d].pc = "createShare"
        PROVE  Fs[call'[d].v] = "zfs"
    <3>1. CASE d # c
      BY <1>3, <2>1, <3>1, OthersStay DEF ShareZfs, Zfs, Handler
    <3>2. CASE d = c
      <4>1. Create(c) /\ ~Stop(c) /\ call'[c].v = call[c].v
        BY <1>3, <2>1, <3>2, KindStays, HandlerKind, StopTyped, OthersStay
           DEF Idle, CreatePC, Kinds, Handler
      <4>2. CASE CreateReadPVC(c)
        BY <1>0, <2>1, <3>2, <4>1, <4>2 DEF CreateReadPVC, Error, CallRecord
      <4>3. CASE CreateGetVolume(c)
        BY <1>0, <2>1, <3>2, <4>1, <4>3 DEF CreateGetVolume, AnswerCreate, Goto, CallRecord
      <4>4. CASE ZfsCreateVolume(c)
        BY <3>2, <4>1, <4>4 DEF ZfsCreateVolume, Zfs
      <4>5. CASE LustreCreateVolume(c)
        BY <1>0, <2>1, <3>2, <4>1, <4>5
           DEF LustreCreateVolume, MakeVolume, Answered, Refused, Error, Goto, CallRecord
      <4>6. CASE CreateShare(c)
        BY <1>0, <2>1, <3>2, <4>1, <4>6
           DEF CreateShare, Answered, Refused, Error, Goto, CallRecord
      <4>7. CASE CreateResolveVip(c)
        BY <4>1, <4>7 DEF CreateResolveVip, AnswerCreate, Error
      <4> QED BY <4>1, <4>2, <4>3, <4>4, <4>5, <4>6, <4>7 DEF Create
    <3> QED BY <3>1, <3>2
  <2>2. share' \subseteq share \/ (CreateShare(c) /\ share' = share \cup {Backing(c)})
    BY <1>3
       DEF Handler, Create, CreateReadPVC, CreateGetVolume, ZfsCreateVolume, LustreCreateVolume,
           MakeVolume, CreateShare, CreateResolveVip, Delete, DeleteReadPV, DeleteShare,
           ZfsDeleteVolume, LustreDeleteVolume, DestroyVolume, Expand, ExpandReadPV,
           ExpandReadCurrent, ZfsExpandVolume, LustreExpandVolume, GrowVolume,
           ExpandReadUpdated, backend
  <2>3. ASSUME NEW p \in Proxies, NEW v \in Volumes, <<p, v>> \in share'
        PROVE  Fs[v] = "zfs"
    <3>1. CASE <<p, v>> \in share
      BY <3>1 DEF ShareZfs
    <3>2. CASE CreateShare(c) /\ <<p, v>> = Backing(c)
      BY <3>2 DEF ShareZfs, CreateShare, At, Zfs, Backing
    <3> QED BY <2>2, <2>3, <3>1, <3>2
  <2> QED BY <2>1, <2>3 DEF ShareZfs, Zfs
<1> QED BY <1>1, <1>2, <1>3 DEF PatientNext, Handler

\* The last step of a delete, with its volume and its share gone.
LEMMA DeleteLeavesNothing ==
  ASSUME TrueLists, OneProxy, WaitInv, ShareZfs, NEW c \in Calls, Delete(c), AnswerDelete(c)
  PROVE  \A p \in Proxies : vol'[<<p, call[c].v>>] = 0 /\ <<p, call[c].v>> \notin share'
<1> DEFINE v == call[c].v
<1>0. /\ TypeInv /\ call \in [Calls -> CallRecord] /\ vol \in [Proxies \X Volumes -> Nat]
      /\ v \in Volumes /\ call[c].waited /\ phase[v] = "deleting"
      /\ phase'[v] = "deleted" /\ call'[c].pc = "idle"
  <2>1. /\ TypeInv /\ v \in Volumes /\ call[c].waited /\ phase[v] = "deleting"
        /\ call'[c].pc = "idle"
    BY DeleteSteps, KindsApart, StopTyped
       DEF WaitInv, SafeInv, TypeInv, CallsFit, AllWait, DeletingOnly, AnswerDelete, Idle
  <2> QED BY <2>1 DEF TypeInv, TypeOK, CallRecord, AnswerDelete
<1>1. ~DeleteReadPV(c)
  <2>1. pv[v] # None
    BY <1>0 DEF WaitInv, SafeInv, ClaimInv, HasPv
  <2>2. SUFFICES ASSUME DeleteReadPV(c) PROVE FALSE
    OBVIOUS
  <2>3. UNCHANGED cluster
    BY <1>0, <2>1, <2>2 DEF DeleteReadPV, MayFail, TrueLists
  <2> QED BY <1>0, <2>3 DEF cluster
<1>2. ~DeleteShare(c)
  BY <1>0 DEF DeleteShare, Answered, Refused, Error, Goto, cluster
<1>3. PICK allowed \in {Backing(c) \notin share, TRUE} :
        /\ At(c, "deleteVolume") /\ DestroyVolume(c, allowed)
        /\ Zfs(c) => allowed = (Backing(c) \notin share)
  BY <1>1, <1>2 DEF Delete, ZfsDeleteVolume, LustreDeleteVolume
<1>4. ~Error(c)
  BY <1>0 DEF Error, cluster
<1>5. /\ vol' = [vol EXCEPT ![Backing(c)] = 0] /\ share' = share
      /\ allowed
  BY <1>3, <1>4 DEF DestroyVolume, Refused
<1>6. /\ Backing(c) \in Proxies \X Volumes /\ call[c].proxy \in Proxies
      /\ Backing(c) = <<call[c].proxy, v>>
  BY <1>0, <1>3, BackingTyped DEF At, Backing
<1>7. Backing(c) \notin share
  BY <1>0, <1>3, <1>5, <1>6 DEF ShareZfs, Zfs
<1> QED BY <1>0, <1>5, <1>6, <1>7 DEF OneProxy

LEMMA DeletedInit == Init => DeletedIsGone
BY DEF Init, DeletedIsGone

LEMMA DeletedNext ==
  ASSUME TrueLists, OneProxy, WaitInv, ShareZfs, DeletedIsGone, [PatientNext]_vars
  PROVE  DeletedIsGone'
<1> SUFFICES ASSUME NEW v \in Volumes, phase'[v] = "deleted", NEW p \in Proxies
             PROVE  vol'[<<p, v>>] = 0 /\ <<p, v>> \notin share'
  BY DEF DeletedIsGone, NothingLeft
<1>0. /\ TypeInv /\ vol \in [Proxies \X Volumes -> Nat]
      /\ <<p, v>> \in Proxies \X Volumes
  BY DEF WaitInv, SafeInv, TypeInv, TypeOK
<1>1. CASE UNCHANGED vars
  BY <1>1 DEF vars, DeletedIsGone, NothingLeft
<1>2. CASE Environment
  BY <1>0, <1>2, EnvironmentSteps DEF backend, DeletedIsGone, NothingLeft
<1>3. ASSUME NEW c \in Calls, Handler(c)
      PROVE  vol'[<<p, v>>] = 0 /\ <<p, v>> \notin share'
  <2>1. CASE v # call[c].v
    BY <1>0, <1>3, <2>1, Elsewhere DEF DeletedIsGone, NothingLeft
  <2>2. CASE v = call[c].v /\ phase[v] = "deleted"
    <3>1. vol[<<p, v>>] = 0 /\ <<p, v>> \notin share
      BY <2>2 DEF DeletedIsGone, NothingLeft
    <3>2. Expand(c)
      BY <1>0, <1>3, <2>2, HandlerKind
         DEF WaitInv, SafeInv, ClaimInv, ClaimsFit, AllWait, DeletingOnly, Handler
    <3>3. CASE At(c, "expand") /\ GrowVolume(c)
      BY <1>0, <2>2, <3>1, <3>3 DEF GrowVolume, Exists, Backing, At
    <3>4. CASE UNCHANGED backend
      BY <3>1, <3>4 DEF backend
    <3> QED BY <3>2, <3>3, <3>4
            DEF Expand, ExpandReadPV, ExpandReadCurrent, ZfsExpandVolume, LustreExpandVolume,
                ExpandReadUpdated
  <2>3. CASE v = call[c].v /\ phase[v] # "deleted"
    <3>1. phase \in [Volumes -> Phases] /\ ~(UNCHANGED phase)
      BY <1>0, <2>3 DEF TypeInv, TypeOK
    <3>2. ASSUME NEW id, NEW n, AnswerCreate(c, id, n)
          PROVE  FALSE
      BY <2>3, <3>1, <3>2 DEF AnswerCreate
    <3>3. Delete(c) /\ AnswerDelete(c)
      BY <1>0, <1>3, <3>1, <3>2, CreateSteps, DeleteSteps, ExpandSteps
         DEF Handler, Error, AnswerExpand, cluster
    <3> QED BY <2>3, <3>3, DeleteLeavesNothing
  <2> QED BY <2>1, <2>2, <2>3
<1> QED BY <1>1, <1>2, <1>3 DEF PatientNext, Handler

\* A volume is reported deleted only when no storage and no export of it is
\* left (controllerserver.go:299-351), when PVs are listed without error, the
\* sidecars wait for their calls and the volumes are on one proxy.
THEOREM DeletedVolumesAreGone ==
  ASSUME TrueLists, OneProxy
  PROVE  PatientSpec => []DeletedIsGone
<1>1. Init => WaitInv /\ ShareZfs /\ DeletedIsGone
  BY WaitInit, ShareZfsInit, DeletedInit
<1>2. WaitInv /\ ShareZfs /\ DeletedIsGone /\ [PatientNext]_vars
      => WaitInv' /\ ShareZfs' /\ DeletedIsGone'
  BY WaitNext, ShareZfsNext, DeletedNext DEF WaitInv, SafeInv
<1> QED BY <1>1, <1>2, PTL DEF PatientSpec

-----------------------------------------------------------------------------
(***************************************************************************)
(* The controller implements the contract.                                 *)
(***************************************************************************)
LEMMA VolSizesInit == Init => VolSizes
BY DEF Init, VolSizes

LEMMA VolSizesNext ==
  ASSUME TypeInv, VolSizes, [PatientNext]_vars
  PROVE  VolSizes'
<1>0. vol \in [Proxies \X Volumes -> Nat]
  BY DEF TypeInv, TypeOK
<1>1. ASSUME UNCHANGED vol
      PROVE  VolSizes'
  BY <1>1 DEF VolSizes, SizesMB, BytesToMB
<1>2. ASSUME NEW c \in Calls, NEW n \in {0} \cup SizesMB, vol' = [vol EXCEPT ![Backing(c)] = n]
      PROVE  VolSizes'
  BY <1>0, <1>2 DEF VolSizes, SizesMB, BytesToMB
<1>3. CASE UNCHANGED vars
  BY <1>1, <1>3 DEF vars
<1>4. CASE Environment
  BY <1>1, <1>4, EnvironmentSteps DEF backend
<1>5. ASSUME NEW c \in Calls, Create(c)
      PROVE  VolSizes'
  <2>1. CASE At(c, "createVolume")
    <3>1. BytesToMB(call[c].size) \in SizesMB
      BY <2>1, StoredSize DEF At, CreatePC, SizesMB
    <3> QED BY <1>1, <1>2, <1>5, <2>1, <3>1
            DEF Create, CreateReadPVC, CreateGetVolume, ZfsCreateVolume, LustreCreateVolume,
                MakeVolume, CreateShare, CreateResolveVip, backend, At
  <2>2. CASE ~At(c, "createVolume")
    BY <1>1, <1>5, <2>2
       DEF Create, CreateReadPVC, CreateGetVolume, ZfsCreateVolume, LustreCreateVolume,
           CreateShare, CreateResolveVip, backend
  <2> QED BY <2>1, <2>2
<1>6. ASSUME NEW c \in Calls, Delete(c)
      PROVE  VolSizes'
  BY <1>1, <1>2, <1>6
     DEF Delete, DeleteReadPV, DeleteShare, ZfsDeleteVolume, LustreDeleteVolume,
         DestroyVolume, backend
<1>7. ASSUME NEW c \in Calls, Expand(c)
      PROVE  VolSizes'
  <2>1. CASE At(c, "expand")
    <3>1. BytesToMB(call[c].size) \in SizesMB
      BY <2>1, StoredSize DEF At, ExpandPC, SizesMB
    <3> QED BY <1>1, <1>2, <1>7, <2>1, <3>1
            DEF Expand, ExpandReadPV, ExpandReadCurrent, ZfsExpandVolume, LustreExpandVolume,
                GrowVolume, ExpandReadUpdated, backend, At
  <2>2. CASE ~At(c, "expand")
    BY <1>1, <1>7, <2>2
       DEF Expand, ExpandReadPV, ExpandReadCurrent, ZfsExpandVolume, LustreExpandVolume,
           ExpandReadUpdated, backend
  <2> QED BY <2>1, <2>2
<1> QED BY <1>3, <1>4, <1>5, <1>6, <1>7 DEF PatientNext

ContractInv == PatientInv /\ GrowsOnly /\ ShareZfs /\ DeletedIsGone /\ VolSizes

\* Under the invariant a claim's use of its volume is its phase.
UseIn(ph) ==
  IF ph = "bound" THEN "usable"
  ELSE IF ph \in {"wanted", "refused"} THEN "none"
  ELSE IF ph = "deleted" THEN "reclaimed" ELSE "released"

LEMMA UseIsPhase ==
  ASSUME TypeOK, PvBacked, DeletedIsGone, NEW v \in Volumes
  PROVE  /\ UseOf(v) = UseIn(phase[v])
         /\ SizeOf(v) = IF phase[v] = "bound" THEN vol[<<pv[v].proxy, v>>] ELSE 0
<1>1. phase[v] \in Phases
  BY DEF TypeOK
<1>2. UseOf(v) = UseIn(phase[v])
  BY <1>1 DEF UseOf, UseIn, PvBacked, DeletedIsGone, Phases
<1> QED BY <1>1, <1>2 DEF SizeOf, UseIn, Phases

LEMMA UseIsPhaseNext ==
  ASSUME TypeOK', PvBacked', DeletedIsGone', NEW v \in Volumes
  PROVE  /\ UseOf(v)' = UseIn(phase'[v])
         /\ SizeOf(v)' = IF phase'[v] = "bound" THEN vol'[<<pv'[v].proxy, v>>] ELSE 0
<1>1. phase'[v] \in Phases
  BY DEF TypeOK
<1>2. UseOf(v)' = UseIn(phase'[v])
  BY <1>1 DEF UseOf, UseIn, PvBacked, DeletedIsGone, Phases
<1> QED BY <1>1, <1>2 DEF SizeOf, UseIn, Phases

\* A step that changes the view of one volume in a way the contract has for
\* it, and no other view, is a step of the contract.
LEMMA ViewStep ==
  ASSUME NEW v \in Volumes,
         \A w \in Volumes \ {v} : UseOf(w)' = UseOf(w) /\ SizeOf(w)' = SizeOf(w),
         \/ UseOf(v)' = UseOf(v) /\ SizeOf(v)' = SizeOf(v)
         \/ /\ UseOf(v) = "none" /\ UseOf(v)' = "usable"
            /\ SizeOf(v)' \in SizesMB /\ SizeOf(v)' > 0
         \/ /\ UseOf(v) = "usable" /\ UseOf(v)' = "usable"
            /\ SizeOf(v)' \in SizesMB /\ SizeOf(v)' > SizeOf(v)
         \/ /\ UseOf(v) \in {"none", "usable"} /\ UseOf(v)' = "released"
            /\ SizeOf(v)' = 0
         \/ /\ UseOf(v) = "released" /\ UseOf(v)' = "reclaimed"
            /\ SizeOf(v)' = SizeOf(v)
  PROVE  [Contract!Next]_(Contract!vars)
<1> DEFINE use  == [w \in Volumes |-> UseOf(w)]
           size == [w \in Volumes |-> SizeOf(w)]
<1>1. /\ use' = [use EXCEPT ![v] = UseOf(v)'] /\ size' = [size EXCEPT ![v] = SizeOf(v)']
      /\ use[v] = UseOf(v) /\ size[v] = SizeOf(v)
  OBVIOUS
<1>2. CASE UseOf(v)' = UseOf(v) /\ SizeOf(v)' = SizeOf(v)
  <2>1. use' = use /\ size' = size
    BY <1>2
  <2> QED BY <2>1 DEF Contract!vars
<1>3. CASE UseOf(v) = "none" /\ UseOf(v)' = "usable" /\ SizeOf(v)' \in SizesMB /\ SizeOf(v)' > 0
  <2>1. Contract!Provision(v, SizeOf(v)')
    BY <1>1, <1>3 DEF Contract!Provision
  <2> QED BY <1>3, <2>1 DEF Contract!Next, SizesMB
<1>4. CASE /\ UseOf(v) = "usable" /\ UseOf(v)' = "usable"
           /\ SizeOf(v)' \in SizesMB /\ SizeOf(v)' > SizeOf(v)
  <2>1. use' = use
    BY <1>4
  <2>2. Contract!Grow(v, SizeOf(v)')
    BY <1>1, <1>4, <2>1 DEF Contract!Grow
  <2> QED BY <1>4, <2>2 DEF Contract!Next, SizesMB
<1>5. CASE UseOf(v) \in {"none", "usable"} /\ UseOf(v)' = "released" /\ SizeOf(v)' = 0
  <2>1. Contract!Release(v)
    BY <1>1, <1>5 DEF Contract!Release
  <2> QED BY <2>1 DEF Contract!Next
<1>6. CASE UseOf(v) = "released" /\ UseOf(v)' = "reclaimed" /\ SizeOf(v)' = SizeOf(v)
  <2>1. size' = size
    BY <1>6
  <2>2. Contract!Reclaim(v)
    BY <1>1, <1>6, <2>1 DEF Contract!Reclaim
  <2> QED BY <2>2 DEF Contract!Next
<1> QED BY <1>2, <1>3, <1>4, <1>5, <1>6

LEMMA HandlerKeepsContract ==
  ASSUME TrueLookups, ContractInv, ContractInv', NEW c \in Calls, Handler(c)
  PROVE  [Contract!Next]_(Contract!vars)
<1> DEFINE Same(w) == UseOf(w)' = UseOf(w) /\ SizeOf(w)' = SizeOf(w)
<1>0. /\ TypeInv /\ TypeOK /\ ClaimInv /\ WaitInv /\ PvBacked /\ DeletedIsGone /\ ExpandFits
      /\ TypeInv' /\ TypeOK' /\ ClaimInv' /\ PvBacked' /\ DeletedIsGone' /\ VolSizes'
      /\ phase \in [Volumes -> Phases] /\ call[c].v \in Volumes /\ call[c].waited
      /\ vol \in [Proxies \X Volumes -> Nat] /\ vol' \in [Proxies \X Volumes -> Nat]
  BY HandlerKind DEF ContractInv, PatientInv, WaitInv, SafeInv, BackedInv, TypeInv, TypeOK, AllWait
<1>v. PICK v \in Volumes : v = call[c].v
  BY <1>0
<1>1. ASSUME NEW w \in Volumes, phase'[w] = phase[w],
             phase[w] = "bound" => /\ pv'[w].proxy = pv[w].proxy
                                   /\ vol'[<<pv[w].proxy, w>>] = vol[<<pv[w].proxy, w>>]
      PROVE  Same(w)
  BY <1>0, <1>v, <1>1, UseIsPhase, UseIsPhaseNext
<1>2. ASSUME NEW w \in Volumes \ {v}
      PROVE  Same(w)
  BY <1>0, <1>v, <1>1, Elsewhere, PvTyped
<1> HIDE DEF Same
<1>3. CASE Create(c)
  <2>1. phase[v] \in {"wanted", "refused", "abandoned"}
    BY <1>0, <1>v, <1>3, HandlerKind DEF ClaimInv, ClaimsFit
  <2>2. CASE phase'[v] = "bound"
    <3>1. phase[v] \in {"wanted", "refused"}
      BY <1>0, <1>v, <1>3, <2>1, <2>2, CreateSteps DEF Error, AnswerCreate, cluster
    <3>2. pv'[v].proxy \in Proxies
      BY <1>0, <1>v, <2>2 DEF TypeInv, TypeOK, ClaimInv, HasPv
    <3> DEFINE mb == vol'[<<pv'[v].proxy, v>>]
    <3>3. mb # 0
      BY <1>0, <1>v, <2>2 DEF PvBacked, Complete
    <3>4. mb \in Nat /\ mb \in SizesMB
      BY <1>0, <1>v, <3>2, <3>3 DEF VolSizes, SizesMB, BytesToMB
    <3>5. UseOf(v) = "none" /\ UseOf(v)' = "usable" /\ SizeOf(v)' = mb
      BY <1>0, <1>v, <2>2, <3>1, UseIsPhase, UseIsPhaseNext DEF UseIn
    <3> QED BY <1>0, <1>v, <1>2, <3>3, <3>4, <3>5, ViewStep DEF Same
  <2>3. CASE phase'[v] # "bound"
    <3>1. /\ phase[v] \in {"wanted", "refused"} => phase'[v] \in {"wanted", "refused"}
          /\ phase[v] = "abandoned" => phase'[v] \in {"abandoned", "deleting"}
      <4>1. CASE UNCHANGED cluster
        BY <2>1, <4>1 DEF cluster
      <4>2. ASSUME NEW id, NEW n, AnswerCreate(c, id, n)
            PROVE  <3>1!1 /\ <3>1!2
        BY <1>0, <1>v, <2>1, <2>3, <4>2 DEF AnswerCreate
      <4> QED BY <1>0, <1>v, <1>3, <4>1, <4>2, CreateSteps DEF Error
    <3>2. Same(v)
      BY <1>0, <1>v, <2>1, <2>3, <3>1, UseIsPhase, UseIsPhaseNext DEF UseIn, Same
    <3> QED BY <1>0, <1>v, <1>2, <3>2, ViewStep DEF Same
  <2> QED BY <2>2, <2>3
<1>4. CASE Delete(c)
  <2>1. phase[v] = "deleting"
    BY <1>0, <1>v, <1>4, HandlerKind DEF WaitInv, DeletingOnly
  <2>2. phase'[v] \in {"deleting", "deleted"}
    BY <1>0, <1>v, <1>4, <2>1, DeleteSteps DEF Error, AnswerDelete, cluster
  <2>3. UseOf(v) = "released" /\ UseOf(v)' \in {"released", "reclaimed"} /\ SizeOf(v)' = SizeOf(v)
    BY <1>0, <1>v, <2>1, <2>2, UseIsPhase, UseIsPhaseNext DEF UseIn
  <2> QED BY <1>0, <1>v, <1>2, <2>3, ViewStep DEF Same
<1>5. CASE Expand(c)
  <2>1. phase' = phase
    BY <1>0, <1>v, <1>5, ExpandSteps DEF Error, AnswerExpand, cluster
  <2>2. CASE phase[v] # "bound"
    BY <1>0, <1>v, <1>1, <1>2, <2>1, <2>2, ViewStep DEF Same
  <2>3. CASE phase[v] = "bound"
    <3> DEFINE B == <<pv[v].proxy, v>>
    <3>1. pv'[v].proxy = pv[v].proxy /\ B \in Proxies \X Volumes
      <4>1. /\ pv \in [Volumes -> [proxy : Proxies, capacity : Nat] \cup {None}]
            /\ pv[v] \in [proxy : Proxies, capacity : Nat]
        BY <1>0, <1>v, <2>3, PvTyped DEF TypeInv, TypeOK
      <4>2. ASSUME NEW n, AnswerExpand(c, n)
            PROVE  pv'[v].proxy = pv[v].proxy
        BY <4>1, <4>2 DEF AnswerExpand
      <4> QED BY <1>0, <1>v, <1>5, <4>1, <4>2, ExpandSteps DEF Error, cluster
    <3>2. vol'[B] = vol[B] \/ (vol'[B] \in SizesMB /\ vol'[B] >= vol[B])
      <4>1. CASE UNCHANGED vol
        BY <4>1
      <4>2. CASE At(c, "expand") /\ vol' = [vol EXCEPT ![Backing(c)] = BytesToMB(call[c].size)]
        <5>1. Backing(c) = B
          BY <1>0, <1>v, <2>3, <4>2 DEF ExpandFits, Backing, At, ExpandPC
        <5>2. BytesToMB(call[c].size) >= vol[B]
          BY <1>0, <1>v, <4>2, <5>1, GrowingIsNoShrinking DEF ContractInv, NeverAsksToShrink
        <5>3. BytesToMB(call[c].size) \in SizesMB
          BY <1>0, <1>v, <4>2, StoredSize DEF At, ExpandPC, SizesMB
        <5> QED BY <1>0, <1>v, <3>1, <4>2, <5>1, <5>2, <5>3
      <4> QED BY <1>5, <4>1, <4>2
              DEF Expand, ExpandReadPV, ExpandReadCurrent, ZfsExpandVolume, LustreExpandVolume,
                  GrowVolume, ExpandReadUpdated, backend
    <3>3. /\ UseOf(v) = "usable" /\ UseOf(v)' = "usable"
          /\ SizeOf(v) = vol[B] /\ SizeOf(v)' = vol'[B]
      BY <1>0, <1>v, <2>1, <2>3, <3>1, UseIsPhase, UseIsPhaseNext DEF UseIn
    <3>4. vol[B] \in Nat /\ vol'[B] \in Nat
      BY <1>0, <1>v, <3>1
    <3> QED BY <1>0, <1>v, <1>2, <3>2, <3>3, <3>4, ViewStep DEF Same
  <2> QED BY <2>2, <2>3
<1> QED BY <1>3, <1>4, <1>5 DEF Handler

LEMMA EnvironmentKeepsContract ==
  ASSUME ContractInv, ContractInv', Environment
  PROVE  [Contract!Next]_(Contract!vars)
<1> DEFINE Same(w) == UseOf(w)' = UseOf(w) /\ SizeOf(w)' = SizeOf(w)
<1>0. /\ TypeInv /\ TypeOK /\ PvBacked /\ DeletedIsGone
      /\ TypeOK' /\ PvBacked' /\ DeletedIsGone' /\ phase \in [Volumes -> Phases]
      /\ UNCHANGED vol
  BY EnvironmentSteps
     DEF ContractInv, PatientInv, WaitInv, SafeInv, BackedInv, TypeInv, TypeOK, backend
<1>1. ASSUME NEW w \in Volumes, phase'[w] = phase[w], pv'[w] = pv[w]
      PROVE  Same(w)
  BY <1>0, <1>1, UseIsPhase, UseIsPhaseNext
<1> HIDE DEF Same
<1>2. ASSUME NEW v \in Volumes, DeleteClaim(v)
      PROVE  [Contract!Next]_(Contract!vars)
  <2>1. \/ phase[v] = "bound" /\ phase' = [phase EXCEPT ![v] = "deleting"]
        \/ phase[v] \in {"wanted", "refused"} /\ phase' = [phase EXCEPT ![v] = "abandoned"]
    BY <1>2 DEF DeleteClaim
  <2>2. \A w \in Volumes \ {v} : Same(w)
    BY <1>0, <1>1, <1>2, <2>1 DEF DeleteClaim
  <2>3. /\ phase[v] \in {"bound", "wanted", "refused"}
        /\ phase'[v] \in {"deleting", "abandoned"}
    BY <1>0, <2>1
  <2>4. UseOf(v) \in {"none", "usable"} /\ UseOf(v)' = "released" /\ SizeOf(v)' = 0
    BY <1>0, <2>3, UseIsPhase, UseIsPhaseNext DEF UseIn
  <2> QED BY <2>2, <2>4, ViewStep DEF Same
<1>3. ASSUME UNCHANGED <<phase, pv>>
      PROVE  [Contract!Next]_(Contract!vars)
  <2>1. \A w \in Volumes : Same(w)
    BY <1>1, <1>3
  <2>2. /\ [w \in Volumes |-> UseOf(w)]' = [w \in Volumes |-> UseOf(w)]
        /\ [w \in Volumes |-> SizeOf(w)]' = [w \in Volumes |-> SizeOf(w)]
    BY <2>1 DEF Same
  <2> QED BY <2>2 DEF Contract!vars
<1>4. ASSUME NEW c \in Calls, NEW v \in Volumes,
             StartCreate(c, v) \/ StartDelete(c, v) \/ StartExpand(c, v)
      PROVE  UNCHANGED <<phase, pv>>
  BY <1>4 DEF StartCreate, StartDelete, StartExpand, StartCall, cluster
<1>5. ASSUME NEW v \in Volumes, NEW s \in Sizes, RequestSize(v, s)
      PROVE  UNCHANGED <<phase, pv>>
  BY <1>5 DEF RequestSize
<1>6. CASE (\E p \in Updates : UpdateClientInfo(p)) \/ Crash
  BY <1>3, <1>6 DEF UpdateClientInfo, Crash, cluster
<1> QED BY <1>2, <1>3, <1>4, <1>5, <1>6 DEF Environment

LEMMA InitIsContract == Init => Contract!Init
<1> SUFFICES ASSUME Init PROVE Contract!Init
  OBVIOUS
<1>1. \A v \in Volumes : phase[v] = "wanted"
  BY DEF Init
<1>2. \A v \in Volumes : UseOf(v) = "none" /\ SizeOf(v) = 0
  BY <1>1 DEF UseOf, SizeOf
<1> QED BY <1>2 DEF Contract!Init

\* The controller implements VolumeContract: a claim's volume becomes usable as
\* a whole, never gets smaller until it is released, and is reclaimed with
\* nothing left, whatever step fails, answer is lost or restart comes between.
THEOREM ControllerKeepsContract ==
  ASSUME TrueLookups, TrueLists, OneProxy
  PROVE  PatientSpec => KeepsContract
<1>1. Init => ContractInv
  BY PatientInit, GrowsOnlyInit, ShareZfsInit, DeletedInit, VolSizesInit DEF ContractInv
<1>2. ContractInv /\ [PatientNext]_vars => ContractInv'
  BY PatientStep, GrowsOnlyNext, ShareZfsNext, DeletedNext, VolSizesNext
     DEF ContractInv, PatientInv, WaitInv, SafeInv
<1>3. ContractInv /\ ContractInv' /\ [PatientNext]_vars => [Contract!Next]_(Contract!vars)
  <2> SUFFICES ASSUME ContractInv, ContractInv', [PatientNext]_vars
               PROVE  [Contract!Next]_(Contract!vars)
    OBVIOUS
  <2>1. CASE UNCHANGED vars
    <3>1. /\ [w \in Volumes |-> UseOf(w)]' = [w \in Volumes |-> UseOf(w)]
          /\ [w \in Volumes |-> SizeOf(w)]' = [w \in Volumes |-> SizeOf(w)]
      BY <2>1 DEF vars, UseOf, SizeOf, Complete, NothingLeft
    <3> QED BY <3>1 DEF Contract!vars
  <2>2. CASE Environment
    BY <2>2, EnvironmentKeepsContract
  <2>3. ASSUME NEW c \in Calls, Handler(c)
        PROVE  [Contract!Next]_(Contract!vars)
    BY <2>3, HandlerKeepsContract
  <2> QED BY <2>1, <2>2, <2>3 DEF PatientNext, Handler
<1>4. PatientSpec => Contract!Spec
  BY <1>1, <1>2, <1>3, InitIsContract, PTL DEF PatientSpec, Contract!Spec
<1> QED BY <1>4 DEF KeepsContract
-----------------------------------------------------------------------------
(***************************************************************************)
(* When every answer names its volume.  The run that refutes               *)
(* AnswersNameVolume has a create that stops half-way, because its answer  *)
(* is lost: the retry finds the volume.                                    *)
(***************************************************************************)
NothingStops == \A op \in {"answer", "request", "crash"} : op \notin Faults

HalfMade(v) == \E c \in Calls : call[c].pc \in {"createShare", "vip"} /\ call[c].v = v

\* Of a volume that no claim has yet there is nothing, but what a handler is
\* about to complete.
UnmadeInv ==
  /\ AnswersNameVolume
  /\ \A v \in Volumes : phase[v] \in {"wanted", "abandoned"} /\ ~HalfMade(v) => NothingLeft(v)
  /\ \A c \in Calls : call[c].pc = "createShare" => Backing(c) \notin share

\* A handler's step matters to its own volume only.
LEMMA UnmadeElsewhere ==
  ASSUME WaitInv, UnmadeInv, NEW c \in Calls, Handler(c), NEW v \in Volumes, v = call[c].v,
         phase'[v] # "refused",
         phase'[v] \in {"wanted", "abandoned"} /\ ~HalfMade(v)' => NothingLeft(v)',
         call'[c].pc = "createShare" => Backing(c)' \notin share'
  PROVE  UnmadeInv'
<1>0. TypeInv /\ \A d \in Calls \ {c} : call'[d] = call[d]
  BY OthersStay DEF WaitInv, SafeInv, Handler
<1>1. AnswersNameVolume'
  BY <1>0, Elsewhere DEF UnmadeInv, AnswersNameVolume
<1>2. ASSUME NEW w \in Volumes, phase'[w] \in {"wanted", "abandoned"}, ~HalfMade(w)'
      PROVE  NothingLeft(w)'
  <2>1. CASE w # v
    <3>1. HalfMade(w) => HalfMade(w)'
      BY <1>0, <2>1 DEF HalfMade
    <3>2. phase'[w] = phase[w] /\ NothingLeft(w)
      BY <1>0, <1>2, <2>1, <3>1, Elsewhere DEF UnmadeInv
    <3> QED BY <1>0, <2>1, <3>2, Elsewhere DEF NothingLeft
  <2> QED BY <1>2, <2>1
<1>3. ASSUME NEW d \in Calls, call'[d].pc = "createShare"
      PROVE  <<call'[d].proxy, call'[d].v>> \notin share'
  <2>1. CASE d # c
    <3>1. call'[d] = call[d] /\ call[d].proxy \in Proxies /\ call[d].v \in Volumes
      BY <1>0, <1>3, <2>1, BackingTyped
    <3>2. call[d].v # call[c].v
      BY <1>0, <1>3, <2>1, <3>1, HandlerKind, CreateAlone DEF CreatePC
    <3> QED BY <1>0, <1>3, <3>1, <3>2, Elsewhere DEF UnmadeInv, Backing
  <2> QED BY <1>3, <2>1 DEF Backing
<1> QED BY <1>1, <1>2, <1>3 DEF UnmadeInv, Backing

\* A create that starts from nothing goes through to its answer.
LEMMA CreateGoesThrough ==
  ASSUME NothingStops, PatientInv, UnmadeInv, NEW c \in Calls, Create(c)
  PROVE  UnmadeInv'
<1>0. /\ WaitInv /\ TypeInv /\ CreatedInFull /\ Handler(c) /\ call[c].pc \in CreatePC
      /\ call[c].waited /\ call \in [Calls -> CallRecord] /\ phase \in [Volumes -> Phases]
  BY CreateSteps, KindsApart
     DEF PatientInv, WaitInv, SafeInv, TypeInv, TypeOK, CallRecord, AllWait, Handler
<1>v. PICK v \in Volumes : v = call[c].v
  BY <1>0, HandlerKind
<1>1. phase[v] \in {"wanted", "abandoned"}
  BY <1>0, <1>v DEF WaitInv, SafeInv, ClaimInv, ClaimsFit, UnmadeInv, AnswersNameVolume
<1>2. ~MayFail("answer") /\ ~MayFail("request")
  BY DEF NothingStops, MayFail
<1>3. ASSUME call[c].pc \in {"pvc", "get", "createVolume"}
      PROVE  NothingLeft(v)
  <2>1. ~HalfMade(v)
    BY <1>0, <1>3, <1>v, CreateAlone DEF HalfMade
  <2> QED BY <1>1, <2>1 DEF UnmadeInv
<1>4. ASSUME call[c].pc \in {"pvc", "get", "createVolume"},
             call[c].pc # "pvc"
      PROVE  ~Exists(c) /\ Backing(c) \notin share
  <2>1. call[c].proxy \in Proxies
    BY <1>0, <1>4, BackingTyped
  <2> QED BY <1>3, <1>4, <1>v, <2>1 DEF NothingLeft, Exists, Backing
\* A step before anything is made.
<1>5. ASSUME UNCHANGED <<cluster, backend>>, call[c].pc \in {"pvc", "get"},
             call'[c].pc # "createShare"
      PROVE  UnmadeInv'
  <2>1. phase' = phase /\ NothingLeft(v)'
    BY <1>3, <1>5 DEF cluster, backend, NothingLeft
  <2> QED BY <1>0, <1>1, <1>v, <1>5, <2>1, UnmadeElsewhere
\* A step that leaves the volume half-made.
<1>6. ASSUME NEW pc \in {"createShare", "vip"}, Goto(c, pc),
             pc = "createShare" => Backing(c) \notin share'
      PROVE  UnmadeInv'
  <2>1. /\ call'[c].pc = pc /\ call'[c].v = v /\ call'[c].proxy = call[c].proxy
        /\ phase' = phase
    BY <1>0, <1>v, <1>6, GotoContinues DEF Continues, Goto, cluster
  <2>2. HalfMade(v)'
    BY <2>1 DEF HalfMade
  <2>3. pc = "createShare" => Backing(c)' \notin share'
    BY <1>6, <1>v, <2>1 DEF Backing
  <2> QED BY <1>0, <1>1, <1>v, <2>1, <2>2, <2>3, UnmadeElsewhere
<1>7. CASE CreateReadPVC(c)
  <2>1. call[c].pc = "pvc" /\ call'[c].pc # "createShare"
    BY <1>0, <1>7, StopTyped DEF CreateReadPVC, At, Error, Idle, CallRecord
  <2> QED BY <1>5, <1>7, <2>1 DEF CreateReadPVC, Error
<1>8. CASE CreateGetVolume(c)
  <2>1. call[c].pc = "get" /\ Goto(c, "createVolume")
    BY <1>4, <1>8 DEF CreateGetVolume, At
  <2>2. call'[c].pc # "createShare"
    BY <1>0, <2>1, GotoContinues DEF Continues
  <2> QED BY <1>5, <1>8, <2>1, <2>2 DEF CreateGetVolume, Goto
<1>9. ASSUME NEW pc \in {"createShare", "vip"}, At(c, "createVolume"), MakeVolume(c, pc)
      PROVE  UnmadeInv'
  <2>1. Goto(c, pc) /\ share' = share /\ Backing(c) \notin share
    BY <1>2, <1>4, <1>9 DEF MakeVolume, Answered, Refused, At
  <2> QED BY <1>6, <2>1
<1>10. CASE CreateShare(c)
  <2>1. call[c].pc = "createShare" /\ Backing(c) \notin share
    BY <1>10 DEF CreateShare, At, UnmadeInv
  <2>2. Exists(c)
    BY <1>0, <2>1, StoredSize DEF CreatedInFull, Exists
  <2>3. Goto(c, "vip")
    BY <1>2, <1>10, <2>1, <2>2 DEF CreateShare, Answered, Refused
  <2> QED BY <1>6, <2>3
<1>11. CASE CreateResolveVip(c)
  <2>1. AnswerCreate(c, v, call[c].size)
    BY <1>2, <1>11, <1>v DEF CreateResolveVip
  <2>2. v # None
    BY ConstantsAssumption
  <2>3. phase'[v] \in {"bound", "deleting"} /\ call'[c].pc = "idle"
    BY <1>0, <1>1, <1>v, <2>1, <2>2, StopTyped DEF AnswerCreate, Idle
  <2> QED BY <1>0, <1>v, <2>3, UnmadeElsewhere
<1> QED BY <1>7, <1>8, <1>9, <1>10, <1>11 DEF Create, ZfsCreateVolume, LustreCreateVolume

\* A delete or an expansion is of a volume that a claim has or had.
LEMMA OthersGoThrough ==
  ASSUME PatientInv, UnmadeInv, NEW c \in Calls, Delete(c) \/ Expand(c)
  PROVE  UnmadeInv'
<1>0. WaitInv /\ TypeInv /\ Handler(c) /\ phase \in [Volumes -> Phases]
  BY DEF PatientInv, WaitInv, SafeInv, TypeInv, TypeOK, Handler
<1>v. PICK v \in Volumes : v = call[c].v
  BY <1>0, HandlerKind
<1>1. call[c].pc \in DeletePC \cup ExpandPC /\ call'[c].pc # "createShare"
  <2>1. ASSUME call'[c].pc = "createShare"
        PROVE  FALSE
    BY <1>0, <2>1, KindStays, DeleteSteps, ExpandSteps, KindsApart DEF Kinds, CreatePC
  <2> QED BY <1>0, <2>1, DeleteSteps, ExpandSteps
<1>2. phase[v] \in {"bound", "deleting", "deleted"}
  BY <1>0, <1>1, <1>v DEF WaitInv, SafeInv, ClaimInv, ClaimsFit
<1>3. phase'[v] = phase[v] \/ phase'[v] = "deleted"
  BY <1>0, <1>v, DeleteSteps, ExpandSteps DEF Error, AnswerDelete, AnswerExpand, cluster
<1> QED BY <1>0, <1>1, <1>2, <1>3, <1>v, UnmadeElsewhere

LEMMA EnvironmentLeavesUnmade ==
  ASSUME NothingStops, TypeInv, UnmadeInv, Environment
  PROVE  UnmadeInv'
<1>0. call \in [Calls -> CallRecord] /\ phase \in [Volumes -> Phases]
  BY DEF TypeInv, TypeOK, CallRecord
<1>1. UNCHANGED backend
  BY EnvironmentSteps
<1>2. \A v \in Volumes : \/ phase'[v] = phase[v]
                         \/ phase'[v] = "deleting"
                         \/ phase[v] \in {"wanted", "refused"} /\ phase'[v] = "abandoned"
  <2>1. ASSUME NEW v \in Volumes, DeleteClaim(v)
        PROVE  <1>2!:
    BY <1>0, <2>1 DEF DeleteClaim
  <2> QED BY <2>1 DEF Environment, StartCreate, StartDelete, StartExpand, StartCall, RequestSize,
                      UpdateClientInfo, Crash, cluster
<1>3. \A c \in Calls : \/ call'[c] = call[c]
                       \/ call[c].pc = "idle" /\ call'[c].pc \in {"pvc", "pvOfDelete", "pvOfExpand"}
  <2>1. ASSUME NEW c \in Calls, NEW pc \in {"pvc", "pvOfDelete", "pvOfExpand"}, NEW v,
               StartCall(c, pc, v)
        PROVE  <1>3!:
    BY <1>0, <2>1 DEF StartCall, CallRecord, Idle
  <2>2. ~Crash
    BY DEF Crash, MayFail, NothingStops
  <2> QED BY <2>1, <2>2 DEF Environment, StartCreate, StartDelete, StartExpand, DeleteClaim,
                            RequestSize, UpdateClientInfo
<1>4. \A v \in Volumes : HalfMade(v)' <=> HalfMade(v)
  BY <1>3 DEF HalfMade
<1>5. AnswersNameVolume'
  BY <1>2 DEF UnmadeInv, AnswersNameVolume
<1>6. \A v \in Volumes : NothingLeft(v)' <=> NothingLeft(v)
  BY <1>1 DEF backend, NothingLeft
<1>7. ASSUME NEW c \in Calls, call'[c].pc = "createShare"
      PROVE  <<call'[c].proxy, call'[c].v>> \notin share'
  BY <1>1, <1>3, <1>7 DEF backend, UnmadeInv, Backing
<1> QED BY <1>2, <1>4, <1>5, <1>6, <1>7 DEF UnmadeInv, AnswersNameVolume, Backing

\* As long as no create stops half-way (no answer is lost, no request fails, the
\* plugin does not die), every answer names its volume, whatever lookup lies and
\* whatever becomes of the claim meanwhile (controllerserver.go:219): that a
\* retry is answered without a handle takes such a stop.
THEOREM AnswersNameVolumeHolds ==
  ASSUME NothingStops PROVE PatientSpec => []AnswersNameVolume
<1>1. Init => UnmadeInv
  BY DEF Init, UnmadeInv, AnswersNameVolume, NothingLeft, Idle
<1>2. PatientInv /\ UnmadeInv /\ [PatientNext]_vars => UnmadeInv'
  <2> SUFFICES ASSUME PatientInv, UnmadeInv, [PatientNext]_vars
               PROVE  UnmadeInv'
    OBVIOUS
  <2>1. CASE UNCHANGED vars
    BY <2>1 DEF vars, UnmadeInv, AnswersNameVolume, HalfMade, NothingLeft, Backing
  <2>2. CASE Environment
    BY <2>2, EnvironmentLeavesUnmade DEF PatientInv, WaitInv, SafeInv
  <2> QED BY <2>1, <2>2, CreateGoesThrough, OthersGoThrough DEF PatientNext
<1>3. UnmadeInv => AnswersNameVolume
  BY DEF UnmadeInv
<1> QED BY <1>1, <1>2, <1>3, PatientInit, PatientStep, PTL DEF PatientSpec
=============================================================================
