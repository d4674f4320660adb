------------------------------ MODULE Controller -----------------------------
(***************************************************************************)
(* The controller plugin: CreateVolume, DeleteVolume and                   *)
(* ControllerExpandVolume (pkg/driver/controllerserver.go), the FlexA      *)
(* service below them (pkg/flexa/service/fep.go) and its requests to the   *)
(* proxies (pkg/flexa/webapi).  The driver keeps nothing of its own: what  *)
(* exists is asked of the proxy by volume name, where to ask comes from    *)
(* client-info for a new volume and from the PV's attributes afterwards.   *)
(* One action is one request, because a handler takes no lock and another  *)
(* handler, a crash or a change of client-info may come between two.       *)
(***************************************************************************)
EXTENDS Naturals

CONSTANTS
  Calls,      \* gRPC handler goroutines that may be in flight at once
  Volumes,    \* provisioner volume names, one per claim, never used again
  Proxies,    \* FlexA proxies a StorageClass's profile may name
  Fs,         \* "zfs" or "lustre" for each volume
  Sizes,      \* sizes in bytes a claim may request
  MB, GB,     \* utils.UNIT_MB and UNIT_GB
  Updates,    \* what client-info may be changed to
  Faults,     \* the operations that may fail
  MaxFaults,  \* bound on failures and restarts in one behaviour
  Strict,     \* TRUE: a proxy refuses to delete what does not exist
  None        \* no value

FaultKinds == {"pvcGet", "pvList", "getVolume", "request", "answer", "crash"}

ASSUME SizesAssumption ==
  /\ MB \in Nat \ {0} /\ GB \in Nat /\ GB >= MB
  /\ Sizes \subseteq Nat \ {0}
  /\ MaxFaults \in Nat

ASSUME ConstantsAssumption ==
  /\ Fs \in [Volumes -> {"zfs", "lustre"}]
  /\ Updates \subseteq Proxies \cup {None}
  /\ Faults \subseteq FaultKinds
  /\ Strict \in BOOLEAN
  /\ None \notin Volumes \cup Proxies
  /\ None \notin [proxy : Proxies, capacity : Nat]

VARIABLES
  \* The API server
  phase,      \* where the claim of each volume is in its life
  want,       \* the size its claim requests, in bytes
  pv,         \* its PersistentVolume: proxy attributes and capacity
  \* The proxies
  vol,        \* size in MB of each volume at each proxy, 0: there is none
  share,      \* the ZFS volumes that have their NFS share
  \* The plugin
  clientInfo, \* the proxy of the StorageClass's profile, as last loaded
  call,       \* the handlers in flight
  faults      \* failures and restarts so far (bounded)

cluster == <<phase, want, pv>>
backend == <<vol, share>>
vars    == <<phase, want, pv, vol, share, clientInfo, call, faults>>

\* "refused": the API server took no PV made from the answer.
Phases   == {"wanted", "refused", "bound", "deleting", "deleted", "abandoned"}
CreatePC == {"pvc", "get", "createVolume", "createShare", "vip"}
DeletePC == {"pvOfDelete", "deleteShare", "deleteVolume"}
ExpandPC == {"pvOfExpand", "current", "expand", "updated"}
Idle     == [pc |-> "idle", v |-> None, proxy |-> None, size |-> 0,
             current |-> 0, waited |-> FALSE]

Init ==
  /\ phase = [v \in Volumes |-> "wanted"]
  /\ want \in [Volumes -> Sizes]
  /\ pv = [v \in Volumes |-> None]
  /\ vol = [b \in Proxies \X Volumes |-> 0]
  /\ share = {}
  /\ clientInfo \in Proxies
  /\ call = [c \in Calls |-> Idle]
  /\ faults = 0

-----------------------------------------------------------------------------
(***************************************************************************)
(* The users and the sidecars.  The provisioner has one call in flight for *)
(* a volume, and so has the resizer; both retry until they get an answer.  *)
(***************************************************************************)
Waiting(pcs, v) == \E c \in Calls : call[c].waited /\ call[c].pc \in pcs /\ call[c].v = v

StartCall(c, pc, v) ==
  /\ call[c] = Idle
  /\ call' = [call EXCEPT ![c].pc = pc, ![c].v = v, ![c].size = want[v],
                          ![c].waited = TRUE]
  /\ UNCHANGED <<cluster, backend, clientInfo, faults>>

\* getSizeByCapacityRange refuses less than UNIT_GB before anything is done.
SizeAccepted(s) == s >= GB

StartCreate(c, v) ==
  /\ phase[v] \in {"wanted", "refused"} /\ SizeAccepted(want[v])
  /\ ~Waiting(CreatePC, v)
  /\ StartCall(c, "pvc", v)

StartDelete(c, v) ==
  /\ phase[v] = "deleting"
  /\ ~Waiting(DeletePC, v)
  /\ StartCall(c, "pvOfDelete", v)

StartExpand(c, v) ==
  /\ phase[v] = "bound" /\ pv[v].capacity < want[v] /\ SizeAccepted(want[v])
  /\ ~Waiting(ExpandPC, v)
  /\ StartCall(c, "pvOfExpand", v)

\* The API server lets a claim ask for no less than the volume is said to
\* have; a request whose expansion failed may be lowered again.
RequestSize(v, s) ==
  /\ phase[v] = "bound" /\ s # want[v] /\ s >= pv[v].capacity
  /\ want' = [want EXCEPT ![v] = s]
  /\ UNCHANGED <<phase, pv, backend, clientInfo, call, faults>>

\* Of a claim that is abandoned before it has a PV nothing is deleted, unless
\* the call in flight succeeds: its PV is made and released at once.
DeleteClaim(v) ==
  /\ \/ phase[v] = "bound" /\ phase' = [phase EXCEPT ![v] = "deleting"]
     \/ /\ phase[v] \in {"wanted", "refused"}
        /\ phase' = [phase EXCEPT ![v] = "abandoned"]
  /\ UNCHANGED <<want, pv, backend, clientInfo, call, faults>>

GiveUp(c) ==
  /\ call[c].waited
  /\ call' = [call EXCEPT ![c].waited = FALSE]
  /\ UNCHANGED <<cluster, backend, clientInfo, faults>>

-----------------------------------------------------------------------------
MayFail(op) == op \in Faults /\ faults < MaxFaults /\ faults' = faults + 1
Fine        == UNCHANGED faults

\* The plugin dies with its handlers; client-info is read again at start.
Crash ==
  /\ MayFail("crash")
  /\ call' = [c \in Calls |-> Idle]
  /\ UNCHANGED <<cluster, backend, clientInfo>>

\* The watch of client-info-secret stores a new configuration (apply,
\* SetClientInfoConfig).
UpdateClientInfo(p) ==
  /\ p \in Updates /\ p # clientInfo
  /\ clientInfo' = p
  /\ UNCHANGED <<cluster, backend, call, faults>>

At(c, pc)    == call[c].pc = pc
Goto(c, pc)  == call' = [call EXCEPT ![c].pc = pc] /\ UNCHANGED cluster
Stop(c)      == call' = [call EXCEPT ![c] = Idle]
Error(c)     == Stop(c) /\ UNCHANGED cluster
Backing(c)   == <<call[c].proxy, call[c].v>>
Exists(c)    == vol[Backing(c)] # 0
Zfs(c)       == Fs[call[c].v] = "zfs"
BytesToMB(s) == s \div MB

\* A request that changes something was carried out, and either its answer
\* arrives and the handler goes on, or it is lost and the handler fails.
Answered(c, next) == (Fine /\ next) \/ (MayFail("answer") /\ Error(c))

\* A request the proxy refuses or never gets.
Refused(c, legal) == (IF legal THEN MayFail("request") ELSE Fine) /\ Error(c)

-----------------------------------------------------------------------------
(***************************************************************************)
(* CreateVolume                                                            *)
(***************************************************************************)
\* Mutant: GetVolume names every volume it finds.
VolumeIdAlways(v) == v

\* The record GetVolume returns has the VolumeId of a Lustre volume; for ZFS
\* the field is left empty.
VolumeIdOfExisting(v) == IF Fs[v] = "zfs" THEN None ELSE v

\* The provisioner makes a PV of the answer, which the API server refuses
\* when it names no volume.
AnswerCreate(c, volumeId, capacity) ==
  LET v == call[c].v IN
    /\ Stop(c) /\ UNCHANGED want
    /\ IF ~call[c].waited THEN UNCHANGED <<phase, pv>>
       ELSE IF volumeId = None
            THEN /\ phase' = [phase EXCEPT ![v] = IF @ = "abandoned" THEN @ ELSE "refused"]
                 /\ UNCHANGED pv
            ELSE /\ phase' = [phase EXCEPT ![v] = IF @ = "abandoned" THEN "deleting" ELSE "bound"]
                 /\ pv' = [pv EXCEPT ![v] = [proxy |-> call[c].proxy,
                                             capacity |-> capacity]]

\* Mutant: a profile that client-info does not have is no error.
CreateReadPVCAnyProxy(c) ==
  /\ At(c, "pvc") /\ call[c].waited /\ Fine
  /\ call' = [call EXCEPT ![c].pc = "get", ![c].proxy = clientInfo]
  /\ UNCHANGED <<cluster, backend, clientInfo>>

\* The claim's annotations are read, with the call's context, and SelectProxy
\* looks the profile up.
CreateReadPVC(c) ==
  /\ At(c, "pvc")
  /\ LET legal == call[c].waited /\ phase[call[c].v] # "abandoned" /\ clientInfo # None IN
       \/ /\ legal /\ Fine /\ UNCHANGED cluster
          /\ call' = [call EXCEPT ![c].pc = "get", ![c].proxy = clientInfo]
       \/ (IF legal THEN MayFail("pvcGet") ELSE Fine) /\ Error(c)
  /\ UNCHANGED <<backend, clientInfo>>

\* GetVolume answers nil for a volume that does not exist and for any error
\* of its requests, the resolution of the VIP included.
CreateGetVolume(c) ==
  /\ At(c, "get")
  /\ \/ /\ Exists(c) /\ Fine
        /\ AnswerCreate(c, VolumeIdOfExisting(call[c].v), vol[Backing(c)] * MB)
     \/ /\ IF Exists(c) THEN MayFail("getVolume") ELSE Fine
        /\ Goto(c, "createVolume")
  /\ UNCHANGED <<backend, clientInfo>>

MakeVolume(c, next) ==
  /\ \/ /\ ~Exists(c)
        /\ vol' = [vol EXCEPT ![Backing(c)] = BytesToMB(call[c].size)]
        /\ Answered(c, Goto(c, next))
     \/ Refused(c, ~Exists(c)) /\ UNCHANGED vol
  /\ UNCHANGED <<share, clientInfo>>

ZfsCreateVolume(c)    == At(c, "createVolume") /\ Zfs(c) /\ MakeVolume(c, "createShare")
LustreCreateVolume(c) == At(c, "createVolume") /\ ~Zfs(c) /\ MakeVolume(c, "vip")

\* Mutant: an error of the share's creation is logged and no more.
CreateShareLenient(c) ==
  /\ At(c, "createShare")
  /\ \/ Exists(c) /\ share' = share \cup {Backing(c)} /\ Fine
     \/ MayFail("request") /\ UNCHANGED share
  /\ Goto(c, "vip")
  /\ UNCHANGED <<vol, clientInfo>>

CreateShare(c) ==
  /\ At(c, "createShare")
  /\ LET legal == Exists(c) /\ Backing(c) \notin share IN
       \/ /\ legal /\ share' = share \cup {Backing(c)}
          /\ Answered(c, Goto(c, "vip"))
       \/ Refused(c, legal) /\ UNCHANGED share
  /\ UNCHANGED <<vol, clientInfo>>

CreateResolveVip(c) ==
  /\ At(c, "vip")
  /\ \/ Fine /\ AnswerCreate(c, call[c].v, call[c].size)
     \/ MayFail("request") /\ Error(c)
  /\ UNCHANGED <<backend, clientInfo>>

-----------------------------------------------------------------------------
(***************************************************************************)
(* DeleteVolume                                                            *)
(***************************************************************************)
AnswerDelete(c) ==
  /\ Stop(c) /\ UNCHANGED want
  /\ IF call[c].waited
     THEN /\ phase' = [phase EXCEPT ![call[c].v] = "deleted"]
          /\ pv' = [pv EXCEPT ![call[c].v] = None]
     ELSE UNCHANGED <<phase, pv>>

\* A PV that is not found, or cannot be listed, is taken for a volume that is
\* deleted already.
DeleteReadPV(c) ==
  /\ At(c, "pvOfDelete")
  /\ LET listed == call[c].waited /\ pv[call[c].v] # None IN
       \/ /\ listed /\ Fine /\ UNCHANGED cluster
          /\ call' = [call EXCEPT ![c].pc = IF Zfs(c) THEN "deleteShare" ELSE "deleteVolume",
                                  ![c].proxy = pv[call[c].v].proxy]
       \/ (IF listed THEN MayFail("pvList") ELSE Fine) /\ AnswerDelete(c)
  /\ UNCHANGED <<backend, clientInfo>>

\* Mutant: an error of the share's deletion ends the delete with success.
DeleteShareLenient(c) ==
  /\ At(c, "deleteShare")
  /\ \/ Fine /\ share' = share \ {Backing(c)} /\ Goto(c, "deleteVolume")
     \/ MayFail("request") /\ AnswerDelete(c) /\ UNCHANGED share
  /\ UNCHANGED <<vol, clientInfo>>

\* Mutant: a share that is gone already is an error.
DeleteShareStrict(c) ==
  /\ At(c, "deleteShare")
  /\ LET legal == Backing(c) \in share IN
       \/ /\ legal /\ share' = share \ {Backing(c)}
          /\ Answered(c, Goto(c, "deleteVolume"))
       \/ Refused(c, legal) /\ UNCHANGED share
  /\ UNCHANGED <<vol, clientInfo>>

DeleteShare(c) ==
  /\ At(c, "deleteShare")
  /\ LET legal == Backing(c) \in share \/ ~Strict IN
       \/ /\ legal /\ share' = share \ {Backing(c)}
          /\ Answered(c, Goto(c, "deleteVolume"))
       \/ Refused(c, legal) /\ UNCHANGED share
  /\ UNCHANGED <<vol, clientInfo>>

DestroyVolume(c, allowed) ==
  /\ LET legal == allowed /\ (Exists(c) \/ ~Strict) IN
       \/ /\ legal /\ vol' = [vol EXCEPT ![Backing(c)] = 0]
          /\ Answered(c, AnswerDelete(c))
       \/ Refused(c, legal) /\ UNCHANGED vol
  /\ UNCHANGED <<share, clientInfo>>

ZfsDeleteVolume(c)    == At(c, "deleteVolume") /\ Zfs(c) /\ DestroyVolume(c, Backing(c) \notin share)
LustreDeleteVolume(c) == At(c, "deleteVolume") /\ ~Zfs(c) /\ DestroyVolume(c, TRUE)

-----------------------------------------------------------------------------
(***************************************************************************)
(* ControllerExpandVolume                                                  *)
(***************************************************************************)
AnswerExpand(c, capacity) ==
  LET v == call[c].v IN
    /\ Stop(c) /\ UNCHANGED <<phase, want>>
    /\ pv' = IF call[c].waited /\ pv[v] # None
             THEN [pv EXCEPT ![v].capacity = capacity] ELSE pv

ExpandReadPV(c) ==
  /\ At(c, "pvOfExpand")
  /\ LET listed == call[c].waited /\ pv[call[c].v] # None IN
       \/ /\ listed /\ Fine /\ UNCHANGED cluster
          /\ call' = [call EXCEPT ![c].pc = "current", ![c].proxy = pv[call[c].v].proxy]
       \/ (IF listed THEN MayFail("pvList") ELSE Fine) /\ Error(c)
  /\ UNCHANGED <<backend, clientInfo>>

\* Mutant: the comparison with the current size is the wrong way round.
ExpandReadCurrentSwapped(c) ==
  /\ At(c, "current") /\ Exists(c) /\ Fine
  /\ IF call[c].size >= vol[Backing(c)] * MB THEN AnswerExpand(c, call[c].size)
     ELSE Goto(c, "expand")
  /\ UNCHANGED <<backend, clientInfo>>

\* Mutant: the current size is not compared at all.
ExpandReadCurrentUnguarded(c) ==
  /\ At(c, "current") /\ Fine
  /\ Goto(c, "expand")
  /\ UNCHANGED <<backend, clientInfo>>

\* With no answer of GetVolume the current size is 0 and nothing is checked.
ExpandReadCurrent(c) ==
  /\ At(c, "current")
  /\ \/ /\ Exists(c) /\ Fine
        /\ LET bytes == vol[Backing(c)] * MB IN
             IF call[c].size <= bytes THEN AnswerExpand(c, bytes)
             ELSE /\ call' = [call EXCEPT ![c].pc = "expand", ![c].current = bytes]
                  /\ UNCHANGED cluster
     \/ /\ IF Exists(c) THEN MayFail("getVolume") ELSE Fine
        /\ Goto(c, "expand")
  /\ UNCHANGED <<backend, clientInfo>>

GrowVolume(c) ==
  /\ \/ /\ Exists(c)
        /\ vol' = [vol EXCEPT ![Backing(c)] = BytesToMB(call[c].size)]
        /\ Answered(c, Goto(c, "updated"))
     \/ Refused(c, Exists(c)) /\ UNCHANGED vol
  /\ UNCHANGED <<share, clientInfo>>

ZfsExpandVolume(c)    == At(c, "expand") /\ Zfs(c) /\ GrowVolume(c)
LustreExpandVolume(c) == At(c, "expand") /\ ~Zfs(c) /\ GrowVolume(c)

AtLeast(a, b) == IF a < b THEN b ELSE a

ExpandReadUpdated(c) ==
  /\ At(c, "updated")
  /\ \/ /\ Exists(c) /\ Fine
        /\ AnswerExpand(c, AtLeast(vol[Backing(c)] * MB, call[c].current))
     \/ /\ IF Exists(c) THEN MayFail("getVolume") ELSE Fine
        /\ AnswerExpand(c, AtLeast(call[c].size, call[c].current))
  /\ UNCHANGED <<backend, clientInfo>>

-----------------------------------------------------------------------------
Create(c) ==
  \/ CreateReadPVC(c) \/ CreateGetVolume(c) \/ ZfsCreateVolume(c)
  \/ LustreCreateVolume(c) \/ CreateShare(c) \/ CreateResolveVip(c)
Delete(c) ==
  \/ DeleteReadPV(c) \/ DeleteShare(c) \/ ZfsDeleteVolume(c)
  \/ LustreDeleteVolume(c)
Expand(c) ==
  \/ ExpandReadPV(c) \/ ExpandReadCurrent(c) \/ ZfsExpandVolume(c)
  \/ LustreExpandVolume(c) \/ ExpandReadUpdated(c)

Environment ==
  \/ \E c \in Calls, v \in Volumes :
       StartCreate(c, v) \/ StartDelete(c, v) \/ StartExpand(c, v)
  \/ \E v \in Volumes : DeleteClaim(v) \/ \E s \in Sizes : RequestSize(v, s)
  \/ \E p \in Updates : UpdateClientInfo(p)
  \/ Crash

\* Sidecars that wait for their calls, and sidecars that may give up on any.
PatientNext == Environment \/ \E c \in Calls : Create(c) \/ Delete(c) \/ Expand(c)
Next        == PatientNext \/ \E c \in Calls : GiveUp(c)

PatientSpec == Init /\ [][PatientNext]_vars
Spec        == Init /\ [][Next]_vars

-----------------------------------------------------------------------------
(***************************************************************************)
(* Properties.                                                             *)
(***************************************************************************)
\* Every variable keeps its shape, and a handler past its first step knows
\* the proxy it talks to (SelectProxy never answers without one).
TypeOK ==
  /\ phase \in [Volumes -> Phases]
  /\ want \in [Volumes -> Sizes]
  /\ pv \in [Volumes -> [proxy : Proxies, capacity : Nat] \cup {None}]
  /\ vol \in [Proxies \X Volumes -> Nat]
  /\ share \subseteq Proxies \X Volumes
  /\ clientInfo \in Proxies \cup {None}
  /\ faults \in 0..MaxFaults
  /\ call \in [Calls -> [pc : {"idle"} \cup CreatePC \cup DeletePC \cup ExpandPC,
                          v : Volumes \cup {None}, proxy : Proxies \cup {None},
                          size : Nat, current : Nat, waited : BOOLEAN]]
  /\ \A c \in Calls : call[c].pc \notin {"idle", "pvc", "pvOfDelete", "pvOfExpand"}
                      => call[c].proxy \in Proxies

\* The storage of volume v is complete at the proxy p.
Complete(p, v) == vol[<<p, v>>] # 0 /\ (Fs[v] = "zfs" => <<p, v>> \in share)

\* Nothing of volume v is left at any proxy.
NothingLeft(v) == \A p \in Proxies : vol[<<p, v>>] = 0 /\ <<p, v>> \notin share

\* A claim is bound to a volume that is there as a whole, at the very proxy
\* its PV names, however often CreateVolume failed half-way, was retried or
\* overtaken, and wherever client-info pointed meanwhile
\* (controllerserver.go:253-289, fep.go:106-120).
PvBacked == \A v \in Volumes : phase[v] = "bound" => Complete(pv[v].proxy, v)

\* The capacity a PV promises is on the storage up to the rounding down to
\* whole MB (zfs.go:127, 236; controllerserver.go:520-539).
CapacityWithinMB ==
  \A v \in Volumes : phase[v] = "bound" =>
    pv[v].capacity < (vol[<<pv[v].proxy, v>>] + 1) * MB

\* The provisioner is told a volume is deleted only when no storage and no
\* export of it is left (controllerserver.go:299-351; reclaimPolicy: Delete
\* of the StorageClasses, README.md:129).
DeletedIsGone == \A v \in Volumes : phase[v] = "deleted" => NothingLeft(v)

\* "Shrink (reducing requested size) is not supported" (README.md:160): no
\* handler is about to ask a proxy for less than the volume has.
NeverAsksToShrink ==
  \A c \in Calls : At(c, "expand") => BytesToMB(call[c].size) >= vol[Backing(c)]

\* "CSI VolumeHandle and backend volume name: same as provisioner volume
\* name" (controllerserver.go:219): no answer makes a PV without a handle.
AnswersNameVolume == \A v \in Volumes : phase[v] # "refused"

\* A released volume is deleted at last, whichever step failed before.
DeleteEnds == \A v \in Volumes : phase[v] = "deleting" ~> phase[v] = "deleted"

\* What a claim sees of its volume.
UseOf(v) ==
  CASE phase[v] = "bound" /\ Complete(pv[v].proxy, v) -> "usable"
    [] phase[v] \in {"wanted", "refused"} -> "none"
    [] phase[v] \in {"deleting", "abandoned"} -> "released"
    [] phase[v] = "deleted" /\ NothingLeft(v) -> "reclaimed"
    [] OTHER -> "broken"

SizeOf(v) == IF UseOf(v) = "usable" THEN vol[<<pv[v].proxy, v>>] ELSE 0

Contract == INSTANCE VolumeContract
  WITH use     <- [v \in Volumes |-> UseOf(v)],
       size    <- [v \in Volumes |-> SizeOf(v)],
       SizesMB <- {BytesToMB(s) : s \in Sizes}

\* The controller keeps the contract: provisioned as a whole, usable and
\* never smaller until released, reclaimed with nothing left.
KeepsContract == Contract!Spec
=============================================================================
