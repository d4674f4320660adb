------------------------ MODULE ReconfigurationProofs ------------------------
(***************************************************************************)
(* Theorems about Reconfiguration: the process of handlers and watch is the*)
(* watch of ClientInfoWatch and the controller of Controller at once, so   *)
(* that what is proved of either holds of the two together.                *)
(***************************************************************************)
EXTENDS Reconfiguration, ControllerProofs

Proved == INSTANCE ClientInfoWatchProofs

\* No handler replaces the configuration.
LEMMA HandlersReadOnly ==
  ASSUME NEW c \in Calls, Create(c) \/ Delete(c) \/ Expand(c)
  PROVE  clientInfo' = clientInfo
<1>1. Create(c) => clientInfo' = clientInfo
  BY DEF Create, CreateReadPVC, CreateGetVolume, ZfsCreateVolume, LustreCreateVolume, MakeVolume,
         CreateShare, CreateResolveVip
<1>2. Delete(c) => clientInfo' = clientInfo
  BY DEF Delete, DeleteReadPV, DeleteShare, ZfsDeleteVolume, LustreDeleteVolume, DestroyVolume
<1>3. Expand(c) => clientInfo' = clientInfo
  BY DEF Expand, ExpandReadPV, ExpandReadCurrent, ZfsExpandVolume, LustreExpandVolume, GrowVolume,
         ExpandReadUpdated
<1> QED BY <1>1, <1>2, <1>3

\* Handlers and requests are no business of the watch; its own steps are its
\* own, and it dies with the process.
THEOREM ImplementsWatch == ReconfSpec => Watch!Spec
<1>1. ReconfInit => Watch!Init
  BY DEF ReconfInit
<1>2. [ReconfNext]_allVars => [Watch!Next]_(Watch!vars)
  <2> SUFFICES ASSUME [ReconfNext]_allVars PROVE [Watch!Next]_(Watch!vars)
    OBVIOUS
  <2>1. CASE Requests
    BY <2>1 DEF Requests, config, Watch!vars, StartCreate, StartDelete, StartExpand, StartCall
  <2>2. CASE Users
    BY <2>2 DEF Users, config, Watch!vars, DeleteClaim, RequestSize, GiveUp
  <2>3. CASE Configure
    BY <2>3 DEF Configure, Watch!Next
  <2>4. CASE PluginDies
    BY <2>4 DEF PluginDies, Watch!Next
  <2>5. CASE \E c \in Calls : Handler(c)
    BY <2>5, HandlersReadOnly DEF Handler, config, Watch!vars
  <2>6. CASE UNCHANGED allVars
    BY <2>6 DEF allVars, Watch!vars
  <2> QED BY <2>1, <2>2, <2>3, <2>4, <2>5, <2>6 DEF ReconfNext
<1> QED BY <1>1, <1>2, PTL DEF ReconfSpec, Watch!Spec

\* The module of the proofs and the one of the composition mean the same watch.
LEMMA OneWatch == Watch!Spec => Proved!Spec
<1>1. Watch!Init => Proved!Init
  BY DEF Watch!Init, Proved!Init, Watch!NotStarted, Proved!NotStarted
<1>2. [Watch!Next]_(Watch!vars) => [Proved!Next]_(Proved!vars)
  <2> USE DEF Watch!Newest, Proved!Newest, Watch!NotStarted, Proved!NotStarted
  <2> SUFFICES ASSUME [Watch!Next]_(Watch!vars) PROVE [Proved!Next]_(Proved!vars)
    OBVIOUS
  <2>1. ASSUME NEW c \in Contents, Watch!EditSecret(c) PROVE Proved!EditSecret(c)
    BY <2>1 DEF Watch!EditSecret, Proved!EditSecret
  <2>2. Watch!SyncFile => Proved!SyncFile
    BY DEF Watch!SyncFile, Proved!SyncFile
  <2>3. Watch!Exit => Proved!Exit
    BY DEF Watch!Exit, Proved!Exit
  <2>4. Watch!Start => Proved!Start
    BY DEF Watch!Start, Proved!Start, Watch!FileLoads, Proved!FileLoads, Watch!Parse, Proved!Parse
  <2>5. \A version : Watch!Notify(version) => Proved!Notify(version)
    BY DEF Watch!Notify, Proved!Notify
  <2>6. \A version : Watch!Apply(version) => Proved!Apply(version)
    BY DEF Watch!Apply, Proved!Apply, Watch!SecretApplies, Proved!SecretApplies, Watch!Parse, Proved!Parse
  <2>7. Watch!Informer => Proved!Informer
    BY <2>5, <2>6 DEF Watch!Informer, Watch!List, Watch!WatchEvent, Watch!Resync, Watch!ApplyNext,
       Watch!GetSecret, Watch!ApplyGot, Proved!Informer, Proved!List, Proved!WatchEvent,
       Proved!Resync, Proved!ApplyNext, Proved!GetSecret, Proved!ApplyGot
  <2> QED BY <2>1, <2>2, <2>3, <2>4, <2>7 DEF Watch!Next, Proved!Next, Watch!vars, Proved!vars
<1> QED BY <1>1, <1>2, PTL DEF Watch!Spec, Proved!Spec

\* While handlers run and the plugin is restarted, what is in force is a
\* configuration that some version of the secret really had.
THEOREM ComposedConfigsAreLoaded == ReconfSpec => []OnlyLoadedConfigs
<1>1. Proved!WatchConstants
  BY ReconfigurationAssumption DEF Watch!WatchConstants, Proved!WatchConstants
<1>2. Proved!Spec => []Proved!OnlyLoadedConfigs
  BY <1>1, Proved!ConfigsAreLoaded
<1>3. Proved!OnlyLoadedConfigs => OnlyLoadedConfigs
  BY DEF Proved!OnlyLoadedConfigs, OnlyLoadedConfigs, Watch!OnlyLoadedConfigs,
         Proved!FileLoads, Watch!FileLoads, Proved!Parse, Watch!Parse
<1> QED BY <1>2, <1>3, ImplementsWatch, OneWatch, PTL

-----------------------------------------------------------------------------
\* The watch puts nothing in force but a proxy or none.
LEMMA WatchGives ==
  ASSUME Configure
  PROVE  clientInfo' \in Proxies \cup {None, clientInfo}
<1>1. \A version : Watch!Apply(version) => clientInfo' \in Proxies \cup {None, clientInfo}
  BY DEF Watch!Apply, Watch!Parse
<1>2. Watch!Informer => clientInfo' \in Proxies \cup {None, clientInfo}
  BY <1>1 DEF Watch!Informer, Watch!List, Watch!WatchEvent, Watch!Resync, Watch!Notify,
     Watch!ApplyNext, Watch!GetSecret, Watch!ApplyGot
<1>3. Watch!SyncFile \/ Watch!Start => clientInfo' \in Proxies \cup {None, clientInfo}
  BY DEF Watch!SyncFile, Watch!Start, Watch!Parse
<1> QED BY <1>2, <1>3 DEF Configure, Watch!EditSecret

\* Controller lets client-info be changed to every proxy and to none.
AnyUpdate == Updates = Proxies \cup {None}

\* The process of handlers and watch is a Controller, whose client-info may
\* change to any proxy or none at any time.
THEOREM ComposedController ==
  ASSUME AnyUpdate
  PROVE  ReconfSpec => ImplementsController
<1>1. ReconfInit => Init
  BY DEF ReconfInit
<1>2. [ReconfNext]_allVars => [Next]_vars
  <2> SUFFICES ASSUME [ReconfNext]_allVars PROVE [Next]_vars
    OBVIOUS
  <2>1. CASE Requests
    BY <2>1 DEF Requests, Next, PatientNext, Environment
  <2>2. CASE Users
    BY <2>2, ReconfigurationAssumption DEF Users, Next, PatientNext, Environment
  <2>3. CASE Configure
    <3>1. UNCHANGED <<cluster, backend, call, faults>>
      BY <2>3 DEF Configure
    <3>2. CASE clientInfo' = clientInfo
      BY <3>1, <3>2 DEF vars, cluster, backend
    <3>3. CASE clientInfo' # clientInfo
      <4>1. PICK p \in Updates : p = clientInfo'
        BY <2>3, <3>3, WatchGives DEF AnyUpdate
      <4>2. UpdateClientInfo(p)
        BY <3>1, <3>3, <4>1 DEF UpdateClientInfo
      <4> QED BY <4>2 DEF Next, PatientNext, Environment
    <3> QED BY <3>2, <3>3
  <2>4. CASE PluginDies
    BY <2>4 DEF PluginDies, Next, PatientNext, Environment
  <2>5. CASE \E c \in Calls : Handler(c)
    BY <2>5 DEF Handler, Next, PatientNext
  <2>6. CASE UNCHANGED allVars
    BY <2>6 DEF allVars, vars
  <2> QED BY <2>1, <2>2, <2>3, <2>4, <2>5, <2>6 DEF ReconfNext
<1> QED BY <1>1, <1>2, PTL DEF ReconfSpec, ImplementsController, Spec

\* So a bound claim keeps its storage whatever the secret says meanwhile.
THEOREM ComposedClaimsAreBacked ==
  ASSUME AnyUpdate
  PROVE  ReconfSpec => []PvBacked
<1>1. ReconfSpec => Spec
  BY ComposedController DEF ImplementsController
<1> QED BY <1>1, BoundClaimsAreBacked, PTL
=============================================================================
