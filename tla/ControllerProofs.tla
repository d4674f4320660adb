--------------------------- MODULE ControllerProofs --------------------------
(***************************************************************************)
(* Theorems about Controller for any volumes, proxies, sizes and handlers. *)
(***************************************************************************)
EXTENDS Controller, TLAPS

CallRecord == [pc : {"idle"} \cup CreatePC \cup DeletePC \cup ExpandPC,
               v : Volumes \cup {None}, proxy : Proxies \cup {None},
               size : Nat, current : Nat, waited : BOOLEAN]

Working == CreatePC \cup DeletePC \cup ExpandPC

\* A handler in flight has a volume and the size that was asked for when it
\* was called; one that makes or grows storage was not asked for too little.
CallsFit ==
  \A c \in Calls :
    /\ call[c].pc # "idle" => call[c].v \in Volumes /\ call[c].size \in Sizes
    /\ call[c].pc \in CreatePC \cup ExpandPC => call[c].size >= GB

TypeInv == TypeOK /\ CallsFit

\* The parts of it that the steps disturb one by one.
CallsTyped ==
  /\ call \in [Calls -> CallRecord]
  /\ \A c \in Calls : call[c].pc \notin {"idle", "pvc", "pvOfDelete", "pvOfExpand"}
                      => call[c].proxy \in Proxies
  /\ CallsFit

ClusterTyped ==
  /\ phase \in [Volumes -> Phases]
  /\ want \in [Volumes -> Sizes]
  /\ pv \in [Volumes -> [proxy : Proxies, capacity : Nat] \cup {None}]

BackendTyped ==
  /\ vol \in [Proxies \X Volumes -> Nat]
  /\ share \subseteq Proxies \X Volumes

LEMMA TypeParts ==
  ASSUME TypeInv
  PROVE  /\ CallsTyped /\ ClusterTyped /\ BackendTyped
         /\ clientInfo \in Proxies \cup {None} /\ faults \in 0..MaxFaults
BY DEF TypeInv, TypeOK, CallsTyped, CallRecord, ClusterTyped, BackendTyped

LEMMA TypeNext ==
  ASSUME CallsTyped', ClusterTyped', BackendTyped',
         clientInfo' \in Proxies \cup {None}, faults' \in 0..MaxFaults
  PROVE  TypeInv'
BY DEF TypeInv, TypeOK, CallsTyped, CallRecord, ClusterTyped, BackendTyped

-----------------------------------------------------------------------------
(***************************************************************************)
(* Rounding to whole MB.                                                   *)
(***************************************************************************)
LEMMA RoundDown ==
  ASSUME NEW s \in Nat
  PROVE  /\ BytesToMB(s) \in Nat
         /\ BytesToMB(s) * MB <= s
         /\ s < (BytesToMB(s) + 1) * MB
<1>1. MB \in Nat \ {0}
  BY SizesAssumption
<1> QED BY <1>1 DEF BytesToMB

LEMMA RoundMonotone ==
  ASSUME NEW s \in Nat, NEW n \in Nat, n * MB <= s
  PROVE  n <= BytesToMB(s)
<1>1. MB \in Nat \ {0}
  BY SizesAssumption
<1>2. s < (BytesToMB(s) + 1) * MB /\ BytesToMB(s) \in Nat
  BY RoundDown
<1>3. n * MB < (BytesToMB(s) + 1) * MB
  BY <1>1, <1>2
<1> QED BY <1>1, <1>2, <1>3

\* A size that is accepted is not rounded down to nothing.
LEMMA AcceptedIsStored ==
  ASSUME NEW s \in Nat, s >= GB
  PROVE  BytesToMB(s) \in Nat \ {0}
<1>1. MB \in Nat \ {0} /\ GB \in Nat /\ GB >= MB
  BY SizesAssumption
<1>2. 1 * MB <= s
  BY <1>1
<1>3. 1 <= BytesToMB(s)
  BY <1>2, RoundMonotone
<1> QED BY <1>3, RoundDown

-----------------------------------------------------------------------------
(***************************************************************************)
(* The handlers in flight.                                                 *)
(***************************************************************************)
\* Handler c goes on: it stays the same kind of call for the same claim.
Continues(c, pc) ==
  /\ \A d \in Calls \ {c} : call'[d] = call[d]
  /\ call'[c].pc = pc
  /\ call'[c].v = call[c].v /\ call'[c].size = call[c].size
  /\ call'[c].waited = call[c].waited

LEMMA GotoContinues ==
  ASSUME TypeInv, NEW c \in Calls, NEW pc, Goto(c, pc)
  PROVE  /\ Continues(c, pc)
         /\ call'[c].proxy = call[c].proxy /\ call'[c].current = call[c].current
BY DEF Goto, Continues, TypeInv, TypeOK

LEMMA ContinueTyped ==
  ASSUME TypeInv, NEW c \in Calls, call[c].pc # "idle",
         NEW pc \in Working, Continues(c, pc),
         call' = [call EXCEPT ![c] = call'[c]], call'[c] \in CallRecord,
         pc \notin {"pvc", "pvOfDelete", "pvOfExpand"} => call'[c].proxy \in Proxies,
         pc \in CreatePC \cup ExpandPC => call[c].pc \in CreatePC \cup ExpandPC
  PROVE  CallsTyped'
<1>1. call \in [Calls -> CallRecord]
  BY DEF TypeInv, TypeOK, CallRecord
<1> QED BY <1>1 DEF TypeInv, TypeOK, CallsTyped, CallsFit, Continues, CreatePC, DeletePC, ExpandPC, Working

LEMMA GotoTyped ==
  ASSUME TypeInv, NEW c \in Calls, call[c].pc # "idle", NEW pc \in Working, Goto(c, pc),
         pc \notin {"pvc", "pvOfDelete", "pvOfExpand"},
         call[c].pc \notin {"pvc", "pvOfDelete", "pvOfExpand"},
         pc \in CreatePC \cup ExpandPC => call[c].pc \in CreatePC \cup ExpandPC
  PROVE  CallsTyped' /\ ClusterTyped'
<1>1. call \in [Calls -> CallRecord]
  BY DEF TypeInv, TypeOK, CallRecord
<1>2. call'[c] = [call[c] EXCEPT !.pc = pc] /\ call' = [call EXCEPT ![c] = call'[c]]
  BY <1>1 DEF Goto
<1>3. call'[c] \in CallRecord
  BY <1>1, <1>2 DEF CallRecord, Working
<1>4. Continues(c, pc) /\ call'[c].proxy = call[c].proxy
  BY GotoContinues
<1>5. call'[c].proxy \in Proxies
  BY <1>4 DEF TypeInv, TypeOK
<1> QED BY <1>2, <1>3, <1>4, <1>5, ContinueTyped, TypeParts DEF Goto, cluster, ClusterTyped

LEMMA StopTyped ==
  ASSUME TypeInv, NEW c \in Calls, Stop(c)
  PROVE  /\ CallsTyped'
         /\ call'[c] = Idle /\ \A d \in Calls \ {c} : call'[d] = call[d]
<1>1. call \in [Calls -> CallRecord]
  BY DEF TypeInv, TypeOK, CallRecord
<1>2. call'[c] = Idle /\ \A d \in Calls \ {c} : call'[d] = call[d]
  BY <1>1 DEF Stop
<1>3. Idle \in CallRecord
  BY DEF Idle, CallRecord
<1>4. call' \in [Calls -> CallRecord]
  BY <1>1, <1>3 DEF Stop
<1>5. \A d \in Calls : call'[d].pc = "idle" \/ call'[d] = call[d]
  BY <1>2 DEF Idle
<1>6. "idle" \notin CreatePC \cup ExpandPC
  BY DEF CreatePC, ExpandPC
<1> QED BY <1>2, <1>4, <1>5, <1>6 DEF TypeInv, TypeOK, CallsTyped, CallsFit

-----------------------------------------------------------------------------
(***************************************************************************)
(* Types.                                                                  *)
(***************************************************************************)
LEMMA FaultsTyped ==
  ASSUME TypeInv, NEW op, MayFail(op) \/ Fine
  PROVE  faults' \in 0..MaxFaults
BY SizesAssumption DEF TypeInv, TypeOK, MayFail, Fine

LEMMA ErrorTyped ==
  ASSUME TypeInv, NEW c \in Calls, Error(c)
  PROVE  CallsTyped' /\ ClusterTyped'
BY StopTyped, TypeParts DEF Error, cluster, ClusterTyped

LEMMA AnswerCreateTyped ==
  ASSUME TypeInv, NEW c \in Calls, call[c].pc # "idle", call[c].proxy \in Proxies,
         NEW id, NEW n \in Nat, AnswerCreate(c, id, n)
  PROVE  CallsTyped' /\ ClusterTyped'
<1> DEFINE v == call[c].v
<1>1. v \in Volumes /\ ClusterTyped /\ Stop(c)
  BY TypeParts DEF TypeInv, CallsFit, AnswerCreate
<1>2. phase' \in [Volumes -> Phases]
  BY <1>1 DEF AnswerCreate, ClusterTyped, Phases
<1>3. [proxy |-> call[c].proxy, capacity |-> n] \in [proxy : Proxies, capacity : Nat]
  OBVIOUS
<1>4. pv' \in [Volumes -> [proxy : Proxies, capacity : Nat] \cup {None}]
  BY <1>1, <1>3 DEF AnswerCreate, ClusterTyped
<1> QED BY <1>1, <1>2, <1>4, StopTyped DEF AnswerCreate, ClusterTyped

LEMMA AnswerDeleteTyped ==
  ASSUME TypeInv, NEW c \in Calls, call[c].pc # "idle", AnswerDelete(c)
  PROVE  CallsTyped' /\ ClusterTyped'
<1>1. call[c].v \in Volumes /\ ClusterTyped /\ Stop(c)
  BY TypeParts DEF TypeInv, CallsFit, AnswerDelete
<1> QED BY <1>1, StopTyped DEF AnswerDelete, ClusterTyped, Phases

LEMMA AnswerExpandTyped ==
  ASSUME TypeInv, NEW c \in Calls, call[c].pc # "idle", NEW n \in Nat, AnswerExpand(c, n)
  PROVE  CallsTyped' /\ ClusterTyped'
<1>1. call[c].v \in Volumes /\ ClusterTyped /\ Stop(c)
  BY TypeParts DEF TypeInv, CallsFit, AnswerExpand
<1> QED BY <1>1, StopTyped DEF AnswerExpand, ClusterTyped

\* The volume and the share a handler works on are the storage's.
LEMMA BackingTyped ==
  ASSUME TypeInv, NEW c \in Calls,
         call[c].pc \notin {"idle", "pvc", "pvOfDelete", "pvOfExpand"}
  PROVE  /\ call[c].v \in Volumes /\ call[c].proxy \in Proxies
         /\ Backing(c) \in Proxies \X Volumes
         /\ vol[Backing(c)] \in Nat
         /\ vol[Backing(c)] * MB \in Nat
BY SizesAssumption DEF TypeInv, TypeOK, CallsFit, Backing

\* The size that is put on the storage.
LEMMA StoredSize ==
  ASSUME TypeInv, NEW c \in Calls, call[c].pc \in CreatePC \cup ExpandPC
  PROVE  /\ call[c].size \in Sizes /\ call[c].size \in Nat
         /\ BytesToMB(call[c].size) \in Nat \ {0}
<1>1. call[c].size \in Sizes /\ call[c].size >= GB /\ call[c].size \in Nat
  BY SizesAssumption DEF TypeInv, CallsFit, CreatePC, ExpandPC
<1> QED BY <1>1, AcceptedIsStored DEF TypeInv

LEMMA StartTyped ==
  ASSUME TypeInv, NEW c \in Calls, NEW v \in Volumes,
         StartCreate(c, v) \/ StartDelete(c, v) \/ StartExpand(c, v)
  PROVE  TypeInv'
<1>1. PICK pc \in {"pvc", "pvOfDelete", "pvOfExpand"} :
        /\ StartCall(c, pc, v)
        /\ pc # "pvOfDelete" => want[v] >= GB
  BY DEF StartCreate, StartDelete, StartExpand, SizeAccepted
<1> DEFINE r == [pc |-> pc, v |-> v, proxy |-> None, size |-> want[v],
                 current |-> 0, waited |-> TRUE]
<1>2. /\ call \in [Calls -> CallRecord] /\ want[v] \in Sizes /\ want[v] \in Nat
  BY SizesAssumption DEF TypeInv, TypeOK, CallRecord
<1>3. call'[c] = r /\ \A d \in Calls \ {c} : call'[d] = call[d]
  BY <1>1, <1>2 DEF StartCall, Idle
<1>4. call' = [call EXCEPT ![c] = r]
  BY <1>1, <1>2, <1>3 DEF StartCall
<1>5. r \in CallRecord
  BY <1>2 DEF CallRecord, CreatePC, DeletePC, ExpandPC
<1>6. call' \in [Calls -> CallRecord]
  BY <1>2, <1>4, <1>5
<1>7. CallsFit'
  <2>1. \A d \in Calls : call'[d] = call[d] \/ call'[d] = r
    BY <1>3
  <2>2. /\ r.pc = pc /\ r.v = v /\ r.size = want[v]
        /\ pc \in CreatePC \cup ExpandPC => want[v] >= GB
    BY <1>1 DEF CreatePC, ExpandPC
  <2> HIDE DEF r
  <2> QED BY <1>2, <2>1, <2>2 DEF TypeInv, CallsFit
<1>8. CallsTyped'
  BY <1>3, <1>6, <1>7 DEF TypeInv, TypeOK, CallsTyped
<1> QED BY <1>1, <1>8, TypeParts, TypeNext DEF StartCall, cluster, backend, ClusterTyped, BackendTyped

\* A handler has learnt which proxy to talk to.
LEMMA RouteTyped ==
  ASSUME TypeInv, NEW c \in Calls, NEW pc \in Working, NEW p \in Proxies,
         call' = [call EXCEPT ![c].pc = pc, ![c].proxy = p],
         call[c].pc # "idle",
         pc \in CreatePC \cup ExpandPC => call[c].pc \in CreatePC \cup ExpandPC
  PROVE  CallsTyped' /\ Continues(c, pc) /\ call'[c].proxy = p
<1>1. call \in [Calls -> CallRecord]
  BY DEF TypeInv, TypeOK, CallRecord
<1> DEFINE r == [call[c] EXCEPT !.pc = pc, !.proxy = p]
<1>2. call' = [call EXCEPT ![c] = r]
  BY <1>1
<1>3. call'[c] = r
  BY <1>1, <1>2
<1>4. r \in CallRecord
  BY <1>1 DEF CallRecord, Working
<1>5. Continues(c, pc) /\ call'[c].proxy = p
  BY <1>1, <1>2, <1>3 DEF Continues, CallRecord
<1> HIDE DEF r
<1>6. call' = [call EXCEPT ![c] = call'[c]] /\ call'[c] \in CallRecord
  BY <1>2, <1>3, <1>4
<1>7. CallsTyped'
  BY <1>5, <1>6, ContinueTyped
<1> QED BY <1>5, <1>7

LEMMA CreateTyped ==
  ASSUME TypeInv, NEW c \in Calls, Create(c)
  PROVE  TypeInv'
<1> USE DEF cluster, backend
<1> DEFINE B == Backing(c)
<1>0. CallsTyped /\ ClusterTyped /\ BackendTyped /\ clientInfo \in Proxies \cup {None}
  BY TypeParts
<1>a. \A pc \in CreatePC : pc \in Working
  BY DEF Working
<1>1. CASE CreateReadPVC(c)
  <2>1. CASE Error(c)
    BY <1>0, <1>1, <2>1, ErrorTyped, FaultsTyped, TypeNext DEF CreateReadPVC, BackendTyped
  <2>2. CASE /\ clientInfo # None /\ Fine /\ UNCHANGED cluster
             /\ call' = [call EXCEPT ![c].pc = "get", ![c].proxy = clientInfo]
    <3>1. CallsTyped'
      BY <1>0, <1>1, <1>a, <2>2, RouteTyped DEF CreateReadPVC, At, CreatePC
    <3> QED BY <1>0, <1>1, <2>2, <3>1, FaultsTyped, TypeNext
            DEF CreateReadPVC, BackendTyped, ClusterTyped
  <2> QED BY <1>1, <2>1, <2>2 DEF CreateReadPVC
<1>2. CASE CreateGetVolume(c)
  <2>1. CallsTyped' /\ ClusterTyped'
    <3>1. CASE AnswerCreate(c, VolumeIdOfExisting(call[c].v), vol[B] * MB)
      BY <1>2, <3>1, BackingTyped, AnswerCreateTyped DEF CreateGetVolume, At
    <3>2. CASE Goto(c, "createVolume")
      BY <1>2, <1>a, <3>2, GotoTyped DEF CreateGetVolume, At, CreatePC
    <3> QED BY <1>2, <3>1, <3>2 DEF CreateGetVolume
  <2>2. faults' \in 0..MaxFaults
    BY <1>2, FaultsTyped DEF CreateGetVolume
  <2> QED BY <1>0, <1>2, <2>1, <2>2, TypeNext DEF CreateGetVolume, BackendTyped
<1>3. ASSUME NEW next \in {"createShare", "vip"}, At(c, "createVolume"), MakeVolume(c, next)
      PROVE  TypeInv'
  <2>1. CallsTyped' /\ ClusterTyped' /\ faults' \in 0..MaxFaults
    <3>1. CASE Error(c)
      BY <1>3, <3>1, ErrorTyped, FaultsTyped DEF MakeVolume, Answered, Refused
    <3>2. CASE Fine /\ Goto(c, next)
      BY <1>3, <1>a, <3>2, GotoTyped, FaultsTyped DEF At, CreatePC
    <3> QED BY <1>3, <3>1, <3>2 DEF MakeVolume, Answered, Refused
  <2>2. vol' \in [Proxies \X Volumes -> Nat]
    BY <1>0, <1>3, StoredSize DEF MakeVolume, BackendTyped, At, CreatePC
  <2> QED BY <1>0, <1>3, <2>1, <2>2, TypeNext DEF MakeVolume, BackendTyped
<1>4. CASE CreateShare(c)
  <2>1. CallsTyped' /\ ClusterTyped' /\ faults' \in 0..MaxFaults
    <3>1. CASE Error(c)
      BY <1>4, <3>1, ErrorTyped, FaultsTyped DEF CreateShare, Answered, Refused
    <3>2. CASE Fine /\ Goto(c, "vip")
      BY <1>4, <1>a, <3>2, GotoTyped, FaultsTyped DEF CreateShare, At, CreatePC
    <3> QED BY <1>4, <3>1, <3>2 DEF CreateShare, Answered, Refused
  <2>2. share' \subseteq Proxies \X Volumes
    BY <1>0, <1>4, BackingTyped DEF CreateShare, BackendTyped, At
  <2> QED BY <1>0, <1>4, <2>1, <2>2, TypeNext DEF CreateShare, BackendTyped
<1>5. CASE CreateResolveVip(c)
  <2>1. CallsTyped' /\ ClusterTyped' /\ faults' \in 0..MaxFaults
    <3>1. CASE Error(c)
      BY <1>5, <3>1, ErrorTyped, FaultsTyped DEF CreateResolveVip
    <3>2. CASE AnswerCreate(c, call[c].v, call[c].size)
      BY <1>5, <3>2, BackingTyped, StoredSize, AnswerCreateTyped, FaultsTyped
         DEF CreateResolveVip, At, CreatePC
    <3> QED BY <1>5, <3>1, <3>2 DEF CreateResolveVip
  <2> QED BY <1>0, <1>5, <2>1, TypeNext DEF CreateResolveVip, BackendTyped
<1> QED BY <1>1, <1>2, <1>3, <1>4, <1>5 DEF Create, ZfsCreateVolume, LustreCreateVolume

LEMMA DeleteTyped ==
  ASSUME TypeInv, NEW c \in Calls, Delete(c)
  PROVE  TypeInv'
<1> USE DEF cluster, backend
<1>0. CallsTyped /\ ClusterTyped /\ BackendTyped /\ clientInfo \in Proxies \cup {None}
  BY TypeParts
<1>1. CASE DeleteReadPV(c)
  <2>1. CallsTyped' /\ ClusterTyped' /\ faults' \in 0..MaxFaults
    <3>1. CASE AnswerDelete(c)
      BY <1>1, <3>1, AnswerDeleteTyped, FaultsTyped DEF DeleteReadPV, At
    <3> DEFINE v == call[c].v
               pc == IF Zfs(c) THEN "deleteShare" ELSE "deleteVolume"
    <3>2. CASE /\ pv[v] # None /\ Fine /\ UNCHANGED cluster
               /\ call' = [call EXCEPT ![c].pc = pc, ![c].proxy = pv[v].proxy]
      <4>1. pv[v].proxy \in Proxies
        BY <1>0, <1>1, <3>2 DEF ClusterTyped, TypeInv, CallsFit, DeleteReadPV, At
      <4>2. pc \in Working /\ pc \notin CreatePC \cup ExpandPC /\ call[c].pc # "idle"
        BY <1>1 DEF Working, CreatePC, DeletePC, ExpandPC, DeleteReadPV, At
      <4>3. CallsTyped'
        <5> HIDE DEF pc
        <5> QED BY <3>2, <4>1, <4>2, RouteTyped
      <4> QED BY <1>0, <3>2, <4>3, FaultsTyped DEF ClusterTyped
    <3> QED BY <1>1, <3>1, <3>2 DEF DeleteReadPV
  <2> QED BY <1>0, <1>1, <2>1, TypeNext DEF DeleteReadPV, BackendTyped
<1>2. CASE DeleteShare(c)
  <2>1. CallsTyped' /\ ClusterTyped' /\ faults' \in 0..MaxFaults
    <3>1. CASE Error(c)
      BY <1>2, <3>1, ErrorTyped, FaultsTyped DEF DeleteShare, Answered, Refused
    <3>2. CASE Fine /\ Goto(c, "deleteVolume")
      BY <1>2, <3>2, GotoTyped, FaultsTyped
         DEF DeleteShare, At, Working, CreatePC, DeletePC, ExpandPC
    <3> QED BY <1>2, <3>1, <3>2 DEF DeleteShare, Answered, Refused
  <2> QED BY <1>0, <1>2, <2>1, TypeNext DEF DeleteShare, BackendTyped
<1>3. ASSUME NEW allowed \in BOOLEAN, At(c, "deleteVolume"), DestroyVolume(c, allowed)
      PROVE  TypeInv'
  <2>1. CallsTyped' /\ ClusterTyped' /\ faults' \in 0..MaxFaults
    <3>1. CASE Error(c)
      BY <1>3, <3>1, ErrorTyped, FaultsTyped DEF DestroyVolume, Answered, Refused
    <3>2. CASE Fine /\ AnswerDelete(c)
      BY <1>3, <3>2, AnswerDeleteTyped, FaultsTyped DEF At
    <3> QED BY <1>3, <3>1, <3>2 DEF DestroyVolume, Answered, Refused
  <2> QED BY <1>0, <1>3, <2>1, TypeNext DEF DestroyVolume, BackendTyped
<1> QED BY <1>1, <1>2, <1>3 DEF Delete, ZfsDeleteVolume, LustreDeleteVolume

LEMMA ExpandTyped ==
  ASSUME TypeInv, NEW c \in Calls, Expand(c)
  PROVE  TypeInv'
<1> USE DEF cluster, backend
<1>0. CallsTyped /\ ClusterTyped /\ BackendTyped /\ clientInfo \in Proxies \cup {None}
  BY TypeParts
<1>a. \A pc \in ExpandPC : pc \in Working
  BY DEF Working
<1>1. CASE ExpandReadPV(c)
  <2>1. CallsTyped' /\ ClusterTyped' /\ faults' \in 0..MaxFaults
    <3>1. CASE Error(c)
      BY <1>1, <3>1, ErrorTyped, FaultsTyped DEF ExpandReadPV, At
    <3>2. CASE /\ pv[call[c].v] # None /\ Fine /\ UNCHANGED cluster
               /\ call' = [call EXCEPT ![c].pc = "current", ![c].proxy = pv[call[c].v].proxy]
      <4>1. pv[call[c].v].proxy \in Proxies /\ call[c].pc \in ExpandPC /\ call[c].pc # "idle"
        BY <1>0, <1>1, <3>2 DEF ClusterTyped, TypeInv, CallsFit, ExpandReadPV, At, ExpandPC
      <4>2. CallsTyped'
        BY <1>a, <3>2, <4>1, RouteTyped DEF ExpandPC
      <4> QED BY <1>0, <3>2, <4>2, FaultsTyped DEF ClusterTyped
    <3> QED BY <1>1, <3>1, <3>2 DEF ExpandReadPV
  <2> QED BY <1>0, <1>1, <2>1, TypeNext DEF ExpandReadPV, BackendTyped
<1>2. CASE ExpandReadCurrent(c)
  <2> DEFINE bytes == vol[Backing(c)] * MB
  <2>1. bytes \in Nat
    BY <1>2, BackingTyped DEF ExpandReadCurrent, At
  <2>2. CallsTyped' /\ ClusterTyped'
    <3>1. CASE AnswerExpand(c, bytes)
      BY <1>2, <2>1, <3>1, AnswerExpandTyped DEF ExpandReadCurrent, At
    <3>2. CASE Goto(c, "expand")
      BY <1>2, <1>a, <3>2, GotoTyped DEF ExpandReadCurrent, At, ExpandPC
    <3>3. CASE /\ UNCHANGED cluster
               /\ call' = [call EXCEPT ![c].pc = "expand", ![c].current = bytes]
      <4> DEFINE r == [call[c] EXCEPT !.pc = "expand", !.current = bytes]
      <4> HIDE DEF bytes
      <4>1. call \in [Calls -> CallRecord]
        BY <1>0 DEF CallsTyped
      <4>2. call' = [call EXCEPT ![c] = r] /\ call'[c] = r
        BY <3>3, <4>1
      <4>3. r \in CallRecord
        BY <2>1, <4>1 DEF CallRecord, ExpandPC
      <4>4. Continues(c, "expand") /\ call'[c].proxy = call[c].proxy
        BY <4>1, <4>2 DEF Continues, CallRecord
      <4>5. call' = [call EXCEPT ![c] = call'[c]] /\ call'[c] \in CallRecord
        BY <4>2, <4>3
      <4>6. call[c].pc = "current" /\ call[c].proxy \in Proxies
        BY <1>2, BackingTyped DEF ExpandReadCurrent, At
      <4>7. CallsTyped'
        BY <1>a, <4>4, <4>5, <4>6, ContinueTyped DEF ExpandPC
      <4> QED BY <1>0, <3>3, <4>7 DEF ClusterTyped
    <3> QED BY <1>2, <3>1, <3>2, <3>3 DEF ExpandReadCurrent
  <2>3. faults' \in 0..MaxFaults
    BY <1>2, FaultsTyped DEF ExpandReadCurrent
  <2> QED BY <1>0, <1>2, <2>2, <2>3, TypeNext DEF ExpandReadCurrent, BackendTyped
<1>3. ASSUME At(c, "expand"), GrowVolume(c)
      PROVE  TypeInv'
  <2>1. CallsTyped' /\ ClusterTyped' /\ faults' \in 0..MaxFaults
    <3>1. CASE Error(c)
      BY <1>3, <3>1, ErrorTyped, FaultsTyped DEF GrowVolume, Answered, Refused
    <3>2. CASE Fine /\ Goto(c, "updated")
      BY <1>3, <1>a, <3>2, GotoTyped, FaultsTyped DEF At, ExpandPC
    <3> QED BY <1>3, <3>1, <3>2 DEF GrowVolume, Answered, Refused
  <2>2. vol' \in [Proxies \X Volumes -> Nat]
    BY <1>0, <1>3, StoredSize DEF GrowVolume, BackendTyped, At, ExpandPC
  <2> QED BY <1>0, <1>3, <2>1, <2>2, TypeNext DEF GrowVolume, BackendTyped
<1>4. CASE ExpandReadUpdated(c)
  <2>1. /\ vol[Backing(c)] * MB \in Nat /\ call[c].current \in Nat /\ call[c].size \in Nat
        /\ call[c].pc # "idle"
    BY <1>4, BackingTyped DEF ExpandReadUpdated, At, TypeInv, TypeOK
  <2>2. /\ AtLeast(vol[Backing(c)] * MB, call[c].current) \in Nat
        /\ AtLeast(call[c].size, call[c].current) \in Nat
    BY <2>1 DEF AtLeast
  <2>3. PICK n \in Nat : AnswerExpand(c, n)
    BY <1>4, <2>2 DEF ExpandReadUpdated
  <2>4. CallsTyped' /\ ClusterTyped' /\ faults' \in 0..MaxFaults
    BY <1>4, <2>1, <2>3, AnswerExpandTyped, FaultsTyped DEF ExpandReadUpdated
  <2> QED BY <1>0, <1>4, <2>4, TypeNext DEF ExpandReadUpdated, BackendTyped
<1> QED BY <1>1, <1>2, <1>3, <1>4 DEF Expand, ZfsExpandVolume, LustreExpandVolume

LEMMA EnvironmentTyped ==
  ASSUME TypeInv, Environment \/ \E c \in Calls : GiveUp(c)
  PROVE  TypeInv'
<1> USE DEF cluster, backend
<1>0. CallsTyped /\ ClusterTyped /\ BackendTyped /\ clientInfo \in Proxies \cup {None}
      /\ faults \in 0..MaxFaults
  BY TypeParts
<1>1. ASSUME NEW v \in Volumes, DeleteClaim(v) \/ \E s \in Sizes : RequestSize(v, s)
      PROVE  TypeInv'
  <2>1. ClusterTyped'
    BY <1>0, <1>1 DEF DeleteClaim, RequestSize, ClusterTyped, Phases
  <2>2. CallsTyped' /\ BackendTyped' /\ UNCHANGED <<clientInfo, faults>>
    BY <1>0, <1>1 DEF DeleteClaim, RequestSize, CallsTyped, CallsFit, BackendTyped
  <2> QED BY <1>0, <2>1, <2>2, TypeNext
<1>2. ASSUME NEW p \in Updates, UpdateClientInfo(p)
      PROVE  TypeInv'
  BY <1>0, <1>2, ConstantsAssumption, TypeNext
     DEF UpdateClientInfo, CallsTyped, CallsFit, ClusterTyped, BackendTyped
<1>3. ASSUME Crash
      PROVE  TypeInv'
  <2>1. CallsTyped'
    BY <1>0, <1>3 DEF Crash, CallsTyped, CallsFit, CallRecord, Idle, CreatePC, ExpandPC
  <2> QED BY <1>0, <1>3, <2>1, FaultsTyped, TypeNext DEF Crash, ClusterTyped, BackendTyped
<1>4. ASSUME NEW c \in Calls, GiveUp(c)
      PROVE  TypeInv'
  <2>1. CallsTyped'
    <3>1. call' = [call EXCEPT ![c] = call'[c]] /\ call'[c] = [call[c] EXCEPT !.waited = FALSE]
      BY <1>0, <1>4 DEF GiveUp, CallsTyped
    <3>2. call'[c] \in CallRecord
      <4>1. call[c] \in CallRecord
        BY <1>0 DEF CallsTyped
      <4> QED BY <3>1, <4>1 DEF CallRecord
    <3>3. \A d \in Calls : /\ call'[d].pc = call[d].pc /\ call'[d].v = call[d].v
                           /\ call'[d].proxy = call[d].proxy /\ call'[d].size = call[d].size
      BY <1>0, <3>1 DEF CallsTyped, CallRecord
    <3> QED BY <1>0, <3>1, <3>2, <3>3 DEF CallsTyped, CallsFit
  <2> QED BY <1>0, <1>4, <2>1, TypeNext DEF GiveUp, ClusterTyped, BackendTyped
<1> QED BY <1>1, <1>2, <1>3, <1>4, StartTyped DEF Environment

LEMMA InitTyped == Init => TypeInv
BY SizesAssumption DEF Init, TypeInv, TypeOK, CallsFit, Idle, Phases, CreatePC, ExpandPC

LEMMA NextTyped == TypeInv /\ [Next]_vars => TypeInv'
<1> SUFFICES ASSUME TypeInv, [Next]_vars
             PROVE  TypeInv'
  OBVIOUS
<1>1. CASE UNCHANGED vars
  BY <1>1 DEF vars, TypeInv, TypeOK, CallsFit
<1>2. CASE Next
  BY <1>2, CreateTyped, DeleteTyped, ExpandTyped, EnvironmentTyped DEF Next, PatientNext
<1> QED BY <1>1, <1>2

\* Whatever the sidecars, the users, client-info and the storage do, every
\* handler past its first step knows a proxy to talk to: SelectProxy never
\* answers without one (client_info.go), and a PV always names one.
THEOREM ControllerTypes == Spec => []TypeOK
<1>1. TypeInv => TypeOK
  BY DEF TypeInv
<1> QED BY <1>1, InitTyped, NextTyped, PTL DEF Spec

-----------------------------------------------------------------------------
(***************************************************************************)
(* Which calls there can be for a claim.                                   *)
(***************************************************************************)
\* A delete is called for a released volume only and an expansion for a bound
\* one, and a create that is waited for keeps its claim from being bound.
ClaimsFit ==
  \A c \in Calls :
    /\ call[c].waited /\ call[c].pc \in CreatePC
       => phase[call[c].v] \in {"wanted", "refused", "abandoned"}
    /\ call[c].pc \in DeletePC => phase[call[c].v] \in {"deleting", "deleted"}
    /\ call[c].pc \in ExpandPC => phase[call[c].v] \in {"bound", "deleting", "deleted"}

Kinds == {CreatePC, DeletePC, ExpandPC}

\* Of each kind one call at most is waited for, for each volume.
OneCallEach ==
  \A c, d \in Calls : \A K \in Kinds :
    c # d /\ call[c].waited /\ call[d].waited /\ call[c].v = call[d].v
    => ~(call[c].pc \in K /\ call[d].pc \in K)

HasPv == \A v \in Volumes : phase[v] \in {"bound", "deleting"} => pv[v] # None

ClaimInv == ClaimsFit /\ OneCallEach /\ HasPv

\* What a handler's step is for the claims: it goes on, it fails, or it is
\* answered.
LEMMA CreateSteps ==
  ASSUME TypeInv, NEW c \in Calls, Create(c)
  PROVE  /\ call[c].pc \in CreatePC
         /\ \/ \E pc \in CreatePC : Continues(c, pc) /\ UNCHANGED cluster
            \/ Error(c)
            \/ /\ call[c].proxy \in Proxies
               /\ \E id \in Volumes \cup {None}, n \in Nat :
                   /\ AnswerCreate(c, id, n)
                   /\ id # None => Complete(call[c].proxy, call[c].v) \/ call[c].pc = "vip"
<1> USE DEF At, CreatePC
<1>1. CASE CreateReadPVC(c)
  BY <1>1 DEF CreateReadPVC, Continues, TypeInv, TypeOK
<1>2. CASE CreateGetVolume(c)
  <2> DEFINE v == call[c].v
  <2>1. call[c].pc = "get" /\ v \in Volumes /\ vol[Backing(c)] * MB \in Nat /\ call[c].proxy \in Proxies
    BY <1>2, BackingTyped DEF CreateGetVolume
  <2>2. CASE Goto(c, "createVolume")
    BY <2>1, <2>2, GotoContinues DEF Goto
  <2>3. CASE Exists(c) /\ AnswerCreate(c, VolumeIdOfExisting(v), vol[Backing(c)] * MB)
    <3>1. /\ VolumeIdOfExisting(v) \in Volumes \cup {None}
          /\ VolumeIdOfExisting(v) # None => Complete(call[c].proxy, v)
      BY <2>1, <2>3 DEF VolumeIdOfExisting, Complete, Exists, Backing
    <3> QED BY <2>1, <2>3, <3>1
  <2> QED BY <1>2, <2>2, <2>3 DEF CreateGetVolume
<1>3. ASSUME NEW next \in {"createShare", "vip"}, At(c, "createVolume"), MakeVolume(c, next)
      PROVE  \/ \E pc \in CreatePC : Continues(c, pc) /\ UNCHANGED cluster
             \/ Error(c)
  BY <1>3, GotoContinues DEF MakeVolume, Answered, Refused, Goto
<1>4. CASE CreateShare(c)
  BY <1>4, GotoContinues DEF CreateShare, Answered, Refused, Goto
<1>5. CASE CreateResolveVip(c)
  <2>1. /\ call[c].pc = "vip" /\ call[c].v \in Volumes /\ call[c].proxy \in Proxies
        /\ call[c].size \in Nat
    BY <1>5, BackingTyped DEF CreateResolveVip, TypeInv, TypeOK
  <2> QED BY <1>5, <2>1 DEF CreateResolveVip
<1> QED BY <1>1, <1>2, <1>3, <1>4, <1>5 DEF Create, ZfsCreateVolume, LustreCreateVolume

LEMMA DeleteSteps ==
  ASSUME TypeInv, NEW c \in Calls, Delete(c)
  PROVE  /\ call[c].pc \in DeletePC
         /\ \/ \E pc \in DeletePC : Continues(c, pc) /\ UNCHANGED cluster
            \/ Error(c)
            \/ AnswerDelete(c)
<1> USE DEF At, DeletePC
<1>1. CASE DeleteReadPV(c)
  BY <1>1 DEF DeleteReadPV, Continues, TypeInv, TypeOK
<1>2. CASE DeleteShare(c)
  BY <1>2, GotoContinues DEF DeleteShare, Answered, Refused, Goto
<1>3. CASE ZfsDeleteVolume(c) \/ LustreDeleteVolume(c)
  BY <1>3 DEF ZfsDeleteVolume, LustreDeleteVolume, DestroyVolume, Answered, Refused
<1> QED BY <1>1, <1>2, <1>3 DEF Delete

LEMMA ExpandSteps ==
  ASSUME TypeInv, NEW c \in Calls, Expand(c)
  PROVE  /\ call[c].pc \in ExpandPC
         /\ \/ \E pc \in ExpandPC : Continues(c, pc) /\ UNCHANGED cluster
            \/ Error(c)
            \/ \E n \in Nat : AnswerExpand(c, n)
<1> USE DEF At, ExpandPC
<1>1. CASE ExpandReadPV(c)
  BY <1>1 DEF ExpandReadPV, Continues, TypeInv, TypeOK
<1>2. CASE ExpandReadCurrent(c)
  BY <1>2, GotoContinues, BackingTyped DEF ExpandReadCurrent, Goto, Continues, TypeInv, TypeOK
<1>3. CASE ZfsExpandVolume(c) \/ LustreExpandVolume(c)
  BY <1>3, GotoContinues DEF ZfsExpandVolume, LustreExpandVolume, GrowVolume, Answered, Refused, Goto
<1>4. CASE ExpandReadUpdated(c)
  <2>1. /\ vol[Backing(c)] * MB \in Nat /\ call[c].current \in Nat /\ call[c].size \in Nat
    BY <1>4, BackingTyped DEF ExpandReadUpdated, TypeInv, TypeOK
  <2>2. /\ AtLeast(vol[Backing(c)] * MB, call[c].current) \in Nat
        /\ AtLeast(call[c].size, call[c].current) \in Nat
    BY <2>1 DEF AtLeast
  <2> QED BY <1>4, <2>2 DEF ExpandReadUpdated
<1> QED BY <1>1, <1>2, <1>3, <1>4 DEF Expand

LEMMA IdleIsNoKind == \A K \in Kinds : "idle" \notin K
BY DEF Kinds, CreatePC, DeletePC, ExpandPC

LEMMA KindsApart ==
  /\ \A pc \in CreatePC : pc \notin DeletePC /\ pc \notin ExpandPC /\ pc # "idle"
  /\ \A pc \in DeletePC : pc \notin CreatePC /\ pc \notin ExpandPC /\ pc # "idle"
  /\ \A pc \in ExpandPC : pc \notin CreatePC /\ pc \notin DeletePC /\ pc # "idle"
BY DEF CreatePC, DeletePC, ExpandPC

\* A step that only goes on or fails leaves the claims as they are.
LEMMA ClaimsContinue ==
  ASSUME ClaimInv, NEW c \in Calls, NEW K \in Kinds, call[c].pc \in K,
         NEW pc \in K, Continues(c, pc), UNCHANGED cluster
  PROVE  ClaimInv'
<1>1. /\ \A d \in Calls : call'[d].v = call[d].v /\ call'[d].waited = call[d].waited
      /\ \A d \in Calls : \A L \in Kinds : call'[d].pc \in L => call[d].pc \in L
  BY KindsApart DEF Continues, Kinds
<1>2. ClaimsFit'
  BY <1>1 DEF ClaimInv, ClaimsFit, cluster, Kinds
<1>3. OneCallEach'
  BY <1>1 DEF ClaimInv, OneCallEach
<1> QED BY <1>2, <1>3 DEF ClaimInv, HasPv, cluster

LEMMA ClaimsEnd ==
  ASSUME TypeInv, ClaimInv, NEW c \in Calls, Stop(c)
  PROVE  OneCallEach' /\ (UNCHANGED cluster => ClaimInv')
<1>1. \A d \in Calls : call'[d] = call[d] \/ call'[d].pc = "idle"
  BY StopTyped DEF Idle
<1>2. \A d \in Calls : \A L \in Kinds : call'[d].pc \in L => call'[d] = call[d]
  BY <1>1, IdleIsNoKind
<1>3. OneCallEach'
  BY <1>2 DEF ClaimInv, OneCallEach
<1>4. ASSUME UNCHANGED cluster
      PROVE  ClaimsFit' /\ HasPv'
  BY <1>2, <1>4 DEF ClaimInv, ClaimsFit, HasPv, cluster, Kinds
<1> QED BY <1>3, <1>4 DEF ClaimInv

LEMMA CreateClaims ==
  ASSUME TypeInv, ClaimInv, NEW c \in Calls, Create(c)
  PROVE  ClaimInv'
<1>1. call[c].pc \in CreatePC /\ CreatePC \in Kinds
  BY CreateSteps DEF Kinds
<1>2. CASE \E pc \in CreatePC : Continues(c, pc) /\ UNCHANGED cluster
  BY <1>1, <1>2, ClaimsContinue
<1>3. CASE Error(c)
  BY <1>3, ClaimsEnd DEF Error
<1>4. ASSUME NEW id, NEW n \in Nat, AnswerCreate(c, id, n), call[c].proxy \in Proxies
      PROVE  ClaimInv'
  <2> DEFINE v == call[c].v
  <2>1. Stop(c) /\ OneCallEach'
    BY <1>4, ClaimsEnd DEF AnswerCreate
  <2>2. CASE ~call[c].waited
    BY <1>4, <2>1, <2>2, ClaimsEnd DEF AnswerCreate, cluster
  <2>3. CASE call[c].waited
    <3>1. /\ \A d \in Calls : call'[d].pc # "idle" => call'[d] = call[d] /\ d # c
          /\ v \in Volumes
          /\ phase \in [Volumes -> Phases]
          /\ pv \in [Volumes -> [proxy : Proxies, capacity : Nat] \cup {None}]
      BY <1>1, <2>1, StopTyped, KindsApart DEF Idle, TypeInv, CallsFit, TypeOK
    <3>2. phase[v] \in {"wanted", "refused", "abandoned"}
      BY <1>1, <2>3 DEF ClaimInv, ClaimsFit
    <3>3. \A d \in Calls : call'[d].pc # "idle" /\ call[d].v = v
                           => /\ call[d].waited => call[d].pc \notin CreatePC
                              /\ call[d].pc \notin DeletePC /\ call[d].pc \notin ExpandPC
      <4>1. ASSUME NEW d \in Calls, call'[d].pc # "idle", call[d].v = v
            PROVE  /\ call[d].waited => call[d].pc \notin CreatePC
                   /\ call[d].pc \notin DeletePC /\ call[d].pc \notin ExpandPC
        BY <1>1, <2>3, <3>1, <3>2, <4>1 DEF ClaimInv, ClaimsFit, OneCallEach
      <4> QED BY <4>1
    <3>4. \A w \in Volumes : w # v => phase'[w] = phase[w] /\ pv'[w] = pv[w]
      BY <1>4, <2>3, <3>1 DEF AnswerCreate
    <3>5. ClaimsFit'
      <4>1. \A d \in Calls : call'[d].pc # "idle" => call[d].v \in Volumes
        BY <3>1 DEF TypeInv, CallsFit
      <4> QED BY <3>1, <3>3, <3>4, <4>1, KindsApart DEF ClaimInv, ClaimsFit
    <3>6. HasPv'
      <4>1. phase'[v] \in {"bound", "deleting"} => pv'[v] # None
        <5>1. [proxy |-> call[c].proxy, capacity |-> n] # None
          BY <1>4, ConstantsAssumption
        <5> QED BY <1>4, <2>3, <3>1, <3>2, <5>1 DEF AnswerCreate
      <4> QED BY <3>4, <4>1 DEF ClaimInv, HasPv
    <3> QED BY <2>1, <3>5, <3>6 DEF ClaimInv
  <2> QED BY <2>2, <2>3 DEF TypeInv, TypeOK
<1> QED BY <1>2, <1>3, <1>4, CreateSteps

LEMMA DeleteClaims ==
  ASSUME TypeInv, ClaimInv, NEW c \in Calls, Delete(c)
  PROVE  ClaimInv'
<1>1. call[c].pc \in DeletePC /\ DeletePC \in Kinds
  BY DeleteSteps DEF Kinds
<1>2. CASE \E pc \in DeletePC : Continues(c, pc) /\ UNCHANGED cluster
  BY <1>1, <1>2, ClaimsContinue
<1>3. CASE Error(c)
  BY <1>3, ClaimsEnd DEF Error
<1>4. CASE AnswerDelete(c)
  <2> DEFINE v == call[c].v
  <2>1. Stop(c) /\ OneCallEach'
    BY <1>4, ClaimsEnd DEF AnswerDelete
  <2>2. CASE ~call[c].waited
    BY <1>4, <2>1, <2>2, ClaimsEnd DEF AnswerDelete, cluster
  <2>3. CASE call[c].waited
    <3>1. /\ \A d \in Calls : call'[d].pc # "idle" => call'[d] = call[d]
          /\ \A d \in Calls : call'[d].pc # "idle" => call[d].v \in Volumes
          /\ v \in Volumes
          /\ phase \in [Volumes -> Phases]
          /\ pv \in [Volumes -> [proxy : Proxies, capacity : Nat] \cup {None}]
      BY <1>1, <2>1, StopTyped, KindsApart DEF Idle, TypeInv, CallsFit, TypeOK
    <3>2. phase[v] \in {"deleting", "deleted"}
      BY <1>1 DEF ClaimInv, ClaimsFit
    <3>3. /\ phase'[v] = "deleted"
          /\ \A w \in Volumes : w # v => phase'[w] = phase[w] /\ pv'[w] = pv[w]
      BY <1>4, <2>3, <3>1 DEF AnswerDelete
    <3>4. ClaimsFit'
      BY <3>1, <3>2, <3>3, KindsApart DEF ClaimInv, ClaimsFit
    <3>5. HasPv'
      BY <3>3 DEF ClaimInv, HasPv
    <3> QED BY <2>1, <3>4, <3>5 DEF ClaimInv
  <2> QED BY <2>2, <2>3
<1> QED BY <1>2, <1>3, <1>4, DeleteSteps

LEMMA ExpandClaims ==
  ASSUME TypeInv, ClaimInv, NEW c \in Calls, Expand(c)
  PROVE  ClaimInv'
<1>1. call[c].pc \in ExpandPC /\ ExpandPC \in Kinds
  BY ExpandSteps DEF Kinds
<1>2. CASE \E pc \in ExpandPC : Continues(c, pc) /\ UNCHANGED cluster
  BY <1>1, <1>2, ClaimsContinue
<1>3. CASE Error(c)
  BY <1>3, ClaimsEnd DEF Error
<1>4. ASSUME NEW n \in Nat, AnswerExpand(c, n)
      PROVE  ClaimInv'
  <2> DEFINE v == call[c].v
  <2>1. Stop(c) /\ OneCallEach' /\ UNCHANGED phase
    BY <1>4, ClaimsEnd DEF AnswerExpand
  <2>2. \A d \in Calls : call'[d].pc # "idle" => call'[d] = call[d]
    BY <2>1, StopTyped DEF Idle
  <2>3. ClaimsFit'
    BY <2>1, <2>2, KindsApart DEF ClaimInv, ClaimsFit
  <2>4. HasPv'
    <3>1. ASSUME NEW w \in Volumes, pv[w] # None
          PROVE  pv'[w] # None
      <4>1. pv[w] \in [proxy : Proxies, capacity : Nat]
        BY <3>1 DEF TypeInv, TypeOK
      <4>2. [pv[w] EXCEPT !.capacity = n] \in [proxy : Proxies, capacity : Nat]
        BY <4>1
      <4> QED BY <1>4, <3>1, <4>2, ConstantsAssumption DEF AnswerExpand, TypeInv, TypeOK
    <3> QED BY <2>1, <3>1 DEF ClaimInv, HasPv
  <2> QED BY <2>1, <2>3, <2>4 DEF ClaimInv
<1> QED BY <1>2, <1>3, <1>4, ExpandSteps

LEMMA StartClaims ==
  ASSUME TypeInv, ClaimInv, NEW c \in Calls, NEW v \in Volumes,
         StartCreate(c, v) \/ StartDelete(c, v) \/ StartExpand(c, v)
  PROVE  ClaimInv'
<1>1. PICK K \in Kinds, pc \in Working :
        /\ pc \in K /\ StartCall(c, pc, v) /\ ~Waiting(K, v)
        /\ K = CreatePC => phase[v] \in {"wanted", "refused"}
        /\ K = DeletePC => phase[v] = "deleting"
        /\ K = ExpandPC => phase[v] = "bound"
  <2>1. /\ CreatePC \in Kinds /\ "pvc" \in CreatePC /\ "pvc" \notin DeletePC \cup ExpandPC
        /\ DeletePC \in Kinds /\ "pvOfDelete" \in DeletePC /\ "pvOfDelete" \notin CreatePC \cup ExpandPC
        /\ ExpandPC \in Kinds /\ "pvOfExpand" \in ExpandPC /\ "pvOfExpand" \notin CreatePC \cup DeletePC
          /\ {"pvc", "pvOfDelete", "pvOfExpand"} \subseteq Working
    BY DEF Kinds, CreatePC, DeletePC, ExpandPC, Working
  <2>2. CASE StartCreate(c, v)
    BY <2>1, <2>2 DEF StartCreate
  <2>3. CASE StartDelete(c, v)
    BY <2>1, <2>3 DEF StartDelete
  <2>4. CASE StartExpand(c, v)
    BY <2>1, <2>4 DEF StartExpand
  <2> QED BY <2>2, <2>3, <2>4
<1>2. /\ call'[c].pc = pc /\ call'[c].v = v /\ call'[c].waited
      /\ \A d \in Calls \ {c} : call'[d] = call[d]
      /\ UNCHANGED cluster
  BY <1>1 DEF StartCall, TypeInv, TypeOK
<1>3. \A L \in Kinds : pc \in L => L = K
  BY <1>1, KindsApart DEF Kinds
<1>4. ClaimsFit'
  BY <1>1, <1>2, <1>3 DEF ClaimInv, ClaimsFit, cluster, Kinds
<1>5. OneCallEach'
  <2>1. \A d \in Calls \ {c} : call[d].waited /\ call[d].v = v => call[d].pc \notin K
    BY <1>1 DEF Waiting
  <2> QED BY <1>2, <1>3, <2>1 DEF ClaimInv, OneCallEach
<1> QED BY <1>2, <1>4, <1>5 DEF ClaimInv, HasPv, cluster

LEMMA EnvironmentClaims ==
  ASSUME TypeInv, ClaimInv, Environment \/ \E c \in Calls : GiveUp(c)
  PROVE  ClaimInv'
<1>1. ASSUME NEW v \in Volumes, DeleteClaim(v)
      PROVE  ClaimInv'
  <2>1. /\ UNCHANGED <<pv, call>>
        /\ \A w \in Volumes :
             \/ phase'[w] = phase[w]
             \/ phase[w] = "bound" /\ phase'[w] = "deleting"
             \/ phase[w] \in {"wanted", "refused"} /\ phase'[w] = "abandoned"
    <3>1. phase \in [Volumes -> Phases]
      BY DEF TypeInv, TypeOK
    <3>2. CASE phase[v] = "bound" /\ phase' = [phase EXCEPT ![v] = "deleting"]
      BY <1>1, <3>1, <3>2 DEF DeleteClaim
    <3>3. CASE phase[v] \in {"wanted", "refused"} /\ phase' = [phase EXCEPT ![v] = "abandoned"]
      BY <1>1, <3>1, <3>3 DEF DeleteClaim
    <3> QED BY <1>1, <3>2, <3>3 DEF DeleteClaim
  <2>2. \A c \in Calls : call[c].pc # "idle" => call[c].v \in Volumes
    BY DEF TypeInv, CallsFit
  <2>3. ClaimsFit'
    BY <2>1, <2>2, KindsApart DEF ClaimInv, ClaimsFit
  <2> QED BY <2>1, <2>3 DEF ClaimInv, OneCallEach, HasPv
<1>2. CASE (\E v \in Volumes, s \in Sizes : RequestSize(v, s)) \/ \E p \in Updates : UpdateClientInfo(p)
  BY <1>2 DEF RequestSize, UpdateClientInfo, cluster, ClaimInv, ClaimsFit, OneCallEach, HasPv
<1>3. CASE Crash
  <2>1. \A c \in Calls : call'[c].pc = "idle"
    BY <1>3 DEF Crash, Idle
  <2> QED BY <1>3, <2>1, IdleIsNoKind DEF Crash, cluster, ClaimInv, ClaimsFit, OneCallEach, HasPv, Kinds
<1>4. ASSUME NEW c \in Calls, GiveUp(c)
      PROVE  ClaimInv'
  <2>1. /\ UNCHANGED cluster
        /\ \A d \in Calls : /\ call'[d].pc = call[d].pc /\ call'[d].v = call[d].v
                            /\ call'[d].waited => call[d].waited
    BY <1>4 DEF GiveUp, TypeInv, TypeOK
  <2> QED BY <2>1 DEF cluster, ClaimInv, ClaimsFit, OneCallEach, HasPv
<1> QED BY <1>1, <1>2, <1>3, <1>4, StartClaims DEF Environment

LEMMA InitClaims == Init => ClaimInv
BY IdleIsNoKind DEF Init, ClaimInv, ClaimsFit, OneCallEach, HasPv, Idle, Kinds

LEMMA NextClaims == TypeInv /\ ClaimInv /\ [Next]_vars => ClaimInv'
<1> SUFFICES ASSUME TypeInv, ClaimInv, [Next]_vars
             PROVE  ClaimInv'
  OBVIOUS
<1>1. CASE UNCHANGED vars
  BY <1>1 DEF vars, ClaimInv, ClaimsFit, OneCallEach, HasPv
<1>2. CASE Next
  BY <1>2, CreateClaims, DeleteClaims, ExpandClaims, EnvironmentClaims DEF Next, PatientNext
<1> QED BY <1>1, <1>2

-----------------------------------------------------------------------------
(***************************************************************************)
(* The storage of a bound claim.                                           *)
(***************************************************************************)
\* Before the last step of a create that is waited for, everything is there.
VipComplete ==
  \A c \in Calls : call[c].waited /\ call[c].pc = "vip"
                  => Complete(call[c].proxy, call[c].v)

BackedInv == VipComplete /\ PvBacked

\* Creates and expansions take nothing away from any volume.
LEMMA CreateKeeps ==
  ASSUME TypeInv, NEW c \in Calls, Create(c), NEW p \in Proxies, NEW v \in Volumes,
         Complete(p, v)
  PROVE  Complete(p, v)'
<1>1. <<p, v>> \in Proxies \X Volumes /\ vol \in [Proxies \X Volumes -> Nat]
  BY DEF TypeInv, TypeOK
<1>2. CASE CreateReadPVC(c) \/ CreateGetVolume(c) \/ CreateResolveVip(c)
  BY <1>2 DEF CreateReadPVC, CreateGetVolume, CreateResolveVip, backend, Complete
<1>3. ASSUME NEW next, At(c, "createVolume"), MakeVolume(c, next)
      PROVE  Complete(p, v)'
  <2>1. CASE UNCHANGED vol
    BY <1>3, <2>1 DEF MakeVolume, Complete
  <2>2. CASE vol' = [vol EXCEPT ![Backing(c)] = BytesToMB(call[c].size)]
    BY <1>1, <1>3, <2>2, StoredSize DEF MakeVolume, Complete, At, CreatePC
  <2> QED BY <1>3, <2>1, <2>2 DEF MakeVolume
<1>4. CASE CreateShare(c)
  BY <1>4 DEF CreateShare, Complete
<1> QED BY <1>2, <1>3, <1>4 DEF Create, ZfsCreateVolume, LustreCreateVolume

LEMMA ExpandKeeps ==
  ASSUME TypeInv, NEW c \in Calls, Expand(c), NEW p \in Proxies, NEW v \in Volumes,
         Complete(p, v)
  PROVE  Complete(p, v)'
<1>1. <<p, v>> \in Proxies \X Volumes /\ vol \in [Proxies \X Volumes -> Nat]
  BY DEF TypeInv, TypeOK
<1>2. CASE ExpandReadPV(c) \/ ExpandReadCurrent(c) \/ ExpandReadUpdated(c)
  BY <1>2 DEF ExpandReadPV, ExpandReadCurrent, ExpandReadUpdated, backend, Complete
<1>3. CASE At(c, "expand") /\ GrowVolume(c)
  <2>1. CASE UNCHANGED vol
    BY <1>3, <2>1 DEF GrowVolume, Complete
  <2>2. CASE vol' = [vol EXCEPT ![Backing(c)] = BytesToMB(call[c].size)]
    BY <1>1, <1>3, <2>2, StoredSize DEF GrowVolume, Complete, At, ExpandPC
  <2> QED BY <1>3, <2>1, <2>2 DEF GrowVolume
<1> QED BY <1>2, <1>3 DEF Expand, ZfsExpandVolume, LustreExpandVolume

\* A delete takes from the volume it was called for and from no other.
LEMMA DeleteKeeps ==
  ASSUME TypeInv, NEW c \in Calls, Delete(c), NEW p \in Proxies, NEW v \in Volumes,
         v # call[c].v, Complete(p, v)
  PROVE  Complete(p, v)'
<1>1. /\ <<p, v>> \in Proxies \X Volumes /\ vol \in [Proxies \X Volumes -> Nat]
      /\ <<p, v>> # Backing(c)
  BY DEF TypeInv, TypeOK, Backing
<1>2. CASE DeleteReadPV(c)
  BY <1>2 DEF DeleteReadPV, backend, Complete
<1>3. CASE DeleteShare(c)
  BY <1>1, <1>3 DEF DeleteShare, Complete
<1>4. ASSUME NEW allowed, DestroyVolume(c, allowed)
      PROVE  Complete(p, v)'
  <2>1. vol'[<<p, v>>] = vol[<<p, v>>] /\ share' = share
    BY <1>1, <1>4 DEF DestroyVolume
  <2> QED BY <2>1 DEF Complete
<1> QED BY <1>2, <1>3, <1>4 DEF Delete, ZfsDeleteVolume, LustreDeleteVolume

\* A create that is waited for comes to its last step with its volume made
\* and, if it is ZFS, with its share.
LEMMA ArrivesComplete ==
  ASSUME TypeInv, NEW c \in Calls, Create(c), call'[c].pc = "vip"
  PROVE  Complete(call[c].proxy, call[c].v)'
<1>0. /\ call \in [Calls -> CallRecord] /\ vol \in [Proxies \X Volumes -> Nat]
      /\ Idle.pc # "vip"
  BY DEF TypeInv, TypeOK, CallRecord, Idle
<1>1. Stop(c) => call'[c].pc # "vip"
  BY <1>0 DEF Stop
<1>2. CASE CreateReadPVC(c)
  BY <1>0, <1>1, <1>2 DEF CreateReadPVC, Error, CallRecord
<1>3. CASE CreateGetVolume(c)
  BY <1>0, <1>1, <1>3 DEF CreateGetVolume, AnswerCreate, Goto, CallRecord
<1>4. CASE ZfsCreateVolume(c)
  BY <1>0, <1>1, <1>4 DEF ZfsCreateVolume, MakeVolume, Answered, Refused, Error, Goto, CallRecord
<1>5. CASE LustreCreateVolume(c)
  <2>1. /\ vol' = [vol EXCEPT ![Backing(c)] = BytesToMB(call[c].size)]
        /\ Goto(c, "vip")
    BY <1>1, <1>5 DEF LustreCreateVolume, MakeVolume, Answered, Refused, Error
  <2>2. /\ Backing(c) \in Proxies \X Volumes /\ Backing(c) = <<call[c].proxy, call[c].v>>
        /\ BytesToMB(call[c].size) # 0
    BY <1>5, BackingTyped, StoredSize DEF LustreCreateVolume, At, CreatePC, Backing
  <2>3. call'[c].proxy = call[c].proxy /\ call'[c].v = call[c].v
    BY <2>1, GotoContinues DEF Continues
  <2> QED BY <1>0, <1>5, <2>1, <2>2, <2>3 DEF Complete, LustreCreateVolume, Zfs
<1>6. CASE CreateShare(c)
  <2>1. /\ vol[Backing(c)] # 0 /\ vol' = vol /\ Backing(c) \in share'
        /\ Goto(c, "vip")
    BY <1>1, <1>6 DEF CreateShare, Answered, Refused, Error, Exists
  <2>2. call'[c].proxy = call[c].proxy /\ call'[c].v = call[c].v
    BY <2>1, GotoContinues DEF Continues
  <2> QED BY <2>1, <2>2 DEF Complete, Backing
<1>7. CASE CreateResolveVip(c)
  BY <1>1, <1>7 DEF CreateResolveVip, AnswerCreate, Error
<1> QED BY <1>2, <1>3, <1>4, <1>5, <1>6, <1>7 DEF Create

LEMMA PvTyped ==
  ASSUME TypeInv, ClaimInv, NEW v \in Volumes, phase[v] \in {"bound", "deleting"}
  PROVE  /\ pv[v] \in [proxy : Proxies, capacity : Nat]
         /\ pv[v].proxy \in Proxies /\ pv[v].capacity \in Nat
BY DEF TypeInv, TypeOK, ClaimInv, HasPv

LEMMA OthersStay ==
  ASSUME TypeInv, NEW c \in Calls, Create(c) \/ Delete(c) \/ Expand(c)
  PROVE  /\ \A d \in Calls \ {c} : call'[d] = call[d]
         /\ call'[c].pc # "idle" => /\ UNCHANGED cluster
                                   /\ call'[c].v = call[c].v
                                   /\ call'[c].waited = call[c].waited
<1>1. /\ call[c].pc # "idle"
      /\ ((\E pc \in Working : Continues(c, pc)) /\ UNCHANGED cluster) \/ Stop(c)
  BY CreateSteps, DeleteSteps, ExpandSteps, KindsApart
     DEF Working, Error, AnswerCreate, AnswerDelete, AnswerExpand
<1> QED BY <1>1, StopTyped DEF Continues, Idle

LEMMA CreateBacked ==
  ASSUME TypeInv, ClaimInv, BackedInv, NEW c \in Calls, Create(c)
  PROVE  BackedInv'
<1>1. VipComplete'
  <2> SUFFICES ASSUME NEW d \in Calls, call'[d].waited, call'[d].pc = "vip"
               PROVE  Complete(call[d].proxy, call[d].v)'
    BY DEF VipComplete
  <2>1. CASE d = c
    BY <2>1, ArrivesComplete
  <2>2. CASE d # c
    <3>1. call'[d] = call[d]
      BY <2>2, OthersStay
    <3>2. /\ call[d].proxy \in Proxies /\ call[d].v \in Volumes
          /\ Complete(call[d].proxy, call[d].v)
      BY <3>1, BackingTyped DEF BackedInv, VipComplete
    <3>3. ASSUME NEW p \in Proxies, NEW v \in Volumes, Complete(p, v)
          PROVE  Complete(p, v)'
      BY <3>3, CreateKeeps
    <3> QED BY <3>1, <3>2, <3>3
  <2> QED BY <2>1, <2>2
<1>2. PvBacked'
  <2> SUFFICES ASSUME NEW v \in Volumes, phase'[v] = "bound"
               PROVE  Complete(pv[v].proxy, v)'
    BY DEF PvBacked
  <2>1. PICK p \in Proxies : p = pv'[v].proxy /\ Complete(p, v)
    <3>1. CASE phase[v] = "bound" /\ pv'[v] = pv[v]
      BY <3>1, PvTyped DEF BackedInv, PvBacked
    <3>2. CASE UNCHANGED cluster
      BY <3>1, <3>2 DEF cluster
    <3>3. ASSUME NEW id, NEW n \in Nat, AnswerCreate(c, id, n), call[c].proxy \in Proxies,
                 id # None => Complete(call[c].proxy, call[c].v) \/ call[c].pc = "vip"
          PROVE  \E p \in Proxies : p = pv'[v].proxy /\ Complete(p, v)
      <4>1. /\ phase \in [Volumes -> Phases] /\ call[c].v \in Volumes
            /\ pv \in [Volumes -> [proxy : Proxies, capacity : Nat] \cup {None}]
        BY CreateSteps, KindsApart DEF TypeInv, TypeOK, CallsFit
      <4>2. CASE ~call[c].waited \/ v # call[c].v
        BY <3>1, <3>3, <4>1, <4>2 DEF AnswerCreate
      <4>3. CASE call[c].waited /\ v = call[c].v
        <5>1. phase[v] # "bound"
          BY <4>3, CreateSteps DEF ClaimInv, ClaimsFit
        <5>2. id # None /\ pv'[v].proxy = call[c].proxy
          BY <3>3, <4>1, <4>3, <5>1 DEF AnswerCreate
        <5> QED BY <3>3, <4>3, <5>2 DEF BackedInv, VipComplete
      <4> QED BY <4>2, <4>3
    <3> QED BY <3>2, <3>3, CreateSteps DEF Error
  <2> QED BY <2>1, CreateKeeps
<1> QED BY <1>1, <1>2 DEF BackedInv

LEMMA DeleteBacked ==
  ASSUME TypeInv, ClaimInv, BackedInv, NEW c \in Calls, Delete(c)
  PROVE  BackedInv'
<1>1. /\ call[c].pc \in DeletePC /\ call[c].v \in Volumes
      /\ phase[call[c].v] \in {"deleting", "deleted"}
  BY DeleteSteps, KindsApart DEF ClaimInv, ClaimsFit, TypeInv, CallsFit
<1>2. VipComplete'
  <2> SUFFICES ASSUME NEW d \in Calls, call'[d].waited, call'[d].pc = "vip"
               PROVE  Complete(call[d].proxy, call[d].v)'
    BY DEF VipComplete
  <2>1. call'[d] = call[d] /\ "vip" \in CreatePC /\ "vip" \notin DeletePC
    BY DeleteSteps, OthersStay, StopTyped
       DEF CreatePC, DeletePC, Continues, Error, AnswerDelete, Idle
  <2>2. /\ call[d].proxy \in Proxies /\ call[d].v \in Volumes
        /\ Complete(call[d].proxy, call[d].v)
    BY <2>1, BackingTyped DEF BackedInv, VipComplete
  <2>3. call[d].v # call[c].v
    BY <1>1, <2>1 DEF ClaimInv, ClaimsFit
  <2>4. ASSUME NEW p \in Proxies, NEW v \in Volumes, v # call[c].v, Complete(p, v)
        PROVE  Complete(p, v)'
    BY <2>4, DeleteKeeps
  <2> QED BY <2>1, <2>2, <2>3, <2>4
<1>3. PvBacked'
  <2> SUFFICES ASSUME NEW v \in Volumes, phase'[v] = "bound"
               PROVE  Complete(pv[v].proxy, v)'
    BY DEF PvBacked
  <2>1. v # call[c].v /\ phase[v] = "bound" /\ pv'[v] = pv[v]
    BY <1>1, DeleteSteps DEF Error, AnswerDelete, cluster, TypeInv, TypeOK
  <2>2. PICK p \in Proxies : p = pv'[v].proxy /\ Complete(p, v)
    BY <2>1, PvTyped DEF BackedInv, PvBacked
  <2> QED BY <2>1, <2>2, DeleteKeeps
<1> QED BY <1>2, <1>3 DEF BackedInv

LEMMA ExpandBacked ==
  ASSUME TypeInv, ClaimInv, BackedInv, NEW c \in Calls, Expand(c)
  PROVE  BackedInv'
<1>1. VipComplete'
  <2> SUFFICES ASSUME NEW d \in Calls, call'[d].waited, call'[d].pc = "vip"
               PROVE  Complete(call[d].proxy, call[d].v)'
    BY DEF VipComplete
  <2>1. call'[d] = call[d]
    <3>1. "vip" \notin ExpandPC
      BY DEF ExpandPC
    <3>2. (\E pc \in ExpandPC : Continues(c, pc)) \/ Stop(c)
      BY ExpandSteps DEF Error, AnswerExpand
    <3>3. call'[c].pc # "vip"
      BY <3>1, <3>2, StopTyped DEF Continues, Idle
    <3> QED BY <3>3, OthersStay
  <2>2. /\ call[d].proxy \in Proxies /\ call[d].v \in Volumes
        /\ Complete(call[d].proxy, call[d].v)
    BY <2>1, BackingTyped DEF BackedInv, VipComplete
  <2>3. ASSUME NEW p \in Proxies, NEW v \in Volumes, Complete(p, v)
        PROVE  Complete(p, v)'
    BY <2>3, ExpandKeeps
  <2> QED BY <2>1, <2>2, <2>3
<1>2. PvBacked'
  <2> SUFFICES ASSUME NEW v \in Volumes, phase'[v] = "bound"
               PROVE  Complete(pv[v].proxy, v)'
    BY DEF PvBacked
  <2>1. phase[v] = "bound"
    BY ExpandSteps DEF Error, AnswerExpand, cluster
  <2>2. pv'[v].proxy = pv[v].proxy
    <3>1. /\ pv \in [Volumes -> [proxy : Proxies, capacity : Nat] \cup {None}]
          /\ pv[v] \in [proxy : Proxies, capacity : Nat]
      BY <2>1, PvTyped DEF TypeInv, TypeOK
    <3>2. ASSUME NEW n, AnswerExpand(c, n)
          PROVE  pv'[v].proxy = pv[v].proxy
      BY <3>1, <3>2 DEF AnswerExpand
    <3> QED BY <3>2, ExpandSteps DEF Error, cluster
  <2>3. PICK p \in Proxies : p = pv'[v].proxy /\ Complete(p, v)
    BY <2>1, <2>2, PvTyped DEF BackedInv, PvBacked
  <2> QED BY <2>3, ExpandKeeps
<1> QED BY <1>1, <1>2 DEF BackedInv

\* What the sidecars, the users and client-info change.
LEMMA EnvironmentSteps ==
  ASSUME TypeInv, Environment \/ \E c \in Calls : GiveUp(c)
  PROVE  /\ UNCHANGED backend
         /\ \A v \in Volumes :
              /\ phase'[v] = "bound" => phase[v] = "bound" /\ pv'[v] = pv[v]
              /\ phase'[v] = "deleted" => phase[v] = "deleted"
         /\ \A c \in Calls :
              \/ call'[c].pc \in {"idle", "pvc", "pvOfDelete", "pvOfExpand"}
              \/ /\ call'[c].pc = call[c].pc /\ call'[c].v = call[c].v
                 /\ call'[c].proxy = call[c].proxy /\ call'[c].size = call[c].size
                 /\ call'[c].current = call[c].current
                 /\ call'[c].waited => call[c].waited
<1>0. /\ phase \in [Volumes -> Phases]
      /\ call \in [Calls -> CallRecord]
  BY TypeParts DEF ClusterTyped, CallsTyped
<1> USE DEF cluster, backend
<1>1. ASSUME NEW c \in Calls, NEW pc \in {"pvc", "pvOfDelete", "pvOfExpand"}, NEW v,
             StartCall(c, pc, v)
      PROVE  /\ UNCHANGED <<phase, pv, backend>>
             /\ \A d \in Calls : call'[d] = call[d] \/ call'[d].pc = pc
  BY <1>0, <1>1 DEF StartCall, CallRecord
<1>2. ASSUME NEW v \in Volumes, DeleteClaim(v)
      PROVE  /\ UNCHANGED <<pv, backend, call>>
             /\ \A w \in Volumes : phase'[w] = phase[w] \/ phase'[w] \in {"deleting", "abandoned"}
  <2>1. \/ phase' = [phase EXCEPT ![v] = "deleting"]
        \/ phase' = [phase EXCEPT ![v] = "abandoned"]
    BY <1>2 DEF DeleteClaim
  <2> QED BY <1>0, <1>2, <2>1 DEF DeleteClaim
<1>3. ASSUME NEW v \in Volumes, NEW s \in Sizes, RequestSize(v, s)
      PROVE  UNCHANGED <<phase, pv, backend, call>>
  BY <1>3 DEF RequestSize
<1>4. ASSUME NEW p \in Updates, UpdateClientInfo(p)
      PROVE  UNCHANGED <<phase, pv, backend, call>>
  BY <1>4 DEF UpdateClientInfo
<1>5. ASSUME Crash
      PROVE  UNCHANGED <<phase, pv, backend>> /\ \A d \in Calls : call'[d].pc = "idle"
  BY <1>5 DEF Crash, Idle
<1>6. ASSUME NEW c \in Calls, GiveUp(c)
      PROVE  /\ UNCHANGED <<phase, pv, backend>>
             /\ \A d \in Calls :
                  /\ call'[d].pc = call[d].pc /\ call'[d].v = call[d].v
                  /\ call'[d].proxy = call[d].proxy /\ call'[d].size = call[d].size
                  /\ call'[d].current = call[d].current
                  /\ call'[d].waited => call[d].waited
  BY <1>0, <1>6 DEF GiveUp, CallRecord
<1> QED BY <1>1, <1>2, <1>3, <1>4, <1>5, <1>6
        DEF Environment, StartCreate, StartDelete, StartExpand

LEMMA EnvironmentBacked ==
  ASSUME TypeInv, ClaimInv, BackedInv, Environment \/ \E c \in Calls : GiveUp(c)
  PROVE  BackedInv'
<1>1. \A p, v : Complete(p, v)' <=> Complete(p, v)
  BY EnvironmentSteps DEF Complete, backend
<1> QED BY <1>1, EnvironmentSteps DEF BackedInv, VipComplete, PvBacked

SafeInv == TypeInv /\ ClaimInv /\ BackedInv

LEMMA InitSafe == Init => SafeInv
<1> SUFFICES ASSUME Init PROVE BackedInv
  BY InitTyped, InitClaims DEF SafeInv
<1> QED BY DEF Init, BackedInv, VipComplete, PvBacked, Idle

LEMMA NextSafe == SafeInv /\ [Next]_vars => SafeInv'
<1> SUFFICES ASSUME SafeInv, [Next]_vars
             PROVE  SafeInv'
  OBVIOUS
<1> USE DEF SafeInv
<1>1. CASE UNCHANGED vars
  BY <1>1, NextTyped, NextClaims DEF vars, BackedInv, VipComplete, PvBacked, Complete
<1>2. CASE Next
  BY <1>2, NextTyped, NextClaims, CreateBacked, DeleteBacked, ExpandBacked, EnvironmentBacked
     DEF Next, PatientNext
<1> QED BY <1>1, <1>2

\* However often CreateVolume fails half-way, is retried, overtaken or given
\* up, wherever client-info points meanwhile and whatever lookup fails, a claim
\* is bound only to a volume that is there as a whole, with its share, at the
\* very proxy its PV names (controllerserver.go:253-289, fep.go:106-120).
THEOREM BoundClaimsAreBacked == Spec => []PvBacked
<1>1. SafeInv => PvBacked
  BY DEF SafeInv, BackedInv
<1> QED BY <1>1, InitSafe, NextSafe, PTL DEF Spec
=============================================================================
