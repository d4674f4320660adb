--------------------------- MODULE Reconfiguration ---------------------------
(***************************************************************************)
(* The controller plugin as one process: the handlers of Controller and the*)
(* watch of ClientInfoWatch, which share the atomic clientInfo and die     *)
(* together.  Controller's own steps on clientInfo are here those of the   *)
(* watch; that Controller allows no less is ImplementsController.          *)
(***************************************************************************)
EXTENDS Controller, Sequences

CONSTANTS
  Impatient,  \* the calls a sidecar may give up on (bound)
  NoProfile, Empty, Garbled, Missing, Contents, Installed, Roles,
  MaxEdits, MaxPending

VARIABLES log, file, up, seen, pending, get

Watch == INSTANCE ClientInfoWatch

ASSUME ReconfigurationAssumption == Watch!WatchConstants /\ Impatient \subseteq Calls

config  == <<log, file, up, seen, pending, get>>
allVars == <<phase, want, pv, vol, share, clientInfo, call, faults,
             log, file, up, seen, pending, get>>

ReconfInit == Init /\ Watch!Init

\* A process that is down is called by nobody; it has no handlers either.
Requests ==
  /\ up
  /\ \E c \in Calls, v \in Volumes :
       StartCreate(c, v) \/ StartDelete(c, v) \/ StartExpand(c, v)
  /\ UNCHANGED config

Users ==
  /\ \/ \E v \in Volumes : DeleteClaim(v) \/ \E s \in Sizes : RequestSize(v, s)
     \/ \E c \in Impatient : GiveUp(c)
  /\ UNCHANGED config

Handler(c) == (Create(c) \/ Delete(c) \/ Expand(c)) /\ UNCHANGED config

Configure ==
  /\ \/ \E c \in Contents : Watch!EditSecret(c)
     \/ Watch!SyncFile \/ Watch!Start \/ Watch!Informer
  /\ UNCHANGED <<cluster, backend, call, faults>>

PluginDies == Crash /\ Watch!Exit

ReconfNext ==
  \/ Requests \/ Users \/ Configure \/ PluginDies
  \/ \E c \in Calls : Handler(c)

ReconfSpec == ReconfInit /\ [][ReconfNext]_allVars

ReconfFairness ==
  /\ \A c \in Calls : WF_allVars(Handler(c))
  /\ \A v \in Volumes :
       SF_allVars(up /\ (\E c \in Calls : StartDelete(c, v)) /\ UNCHANGED config)
  /\ Watch!Fairness

FairReconfSpec == ReconfSpec /\ ReconfFairness

-----------------------------------------------------------------------------
(***************************************************************************)
(* Properties.                                                             *)
(***************************************************************************)
\* The newest configuration gets in force while handlers run and the plugin
\* is restarted (clientinfo_watch.go:60-104, main.go:89-104).
NewestInForce == Watch!NewestInForce

\* No broken secret and no restart brings a configuration up that no version
\* of the secret had (clientinfo_watch.go:65-73).
OnlyLoadedConfigs == Watch!OnlyLoadedConfigs

\* A released volume is deleted at last, whatever the secret says by then and
\* whichever step failed, once the provisioner waits for its calls and the
\* plugin stays up (controllerserver.go:299-351).
Patient == up /\ \A c \in Calls : call[c] # Idle => call[c].waited
DeleteEndsOncePatient == <>[]Patient => DeleteEnds

\* The process of handlers and watch is a Controller whose clientInfo changes
\* to what Updates allows, at any time, and never otherwise.
ImplementsController == Spec
=============================================================================
