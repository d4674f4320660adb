--------------------------- MODULE ClientInfoWatch ---------------------------
(***************************************************************************)
(* How a plugin process comes by its client-info configuration: it is read *)
(* from a file at start (main.go, common/config.go) and replaced at run    *)
(* time by what the informer on client-info-secret delivers and by one Get *)
(* after the informer's first sync (driver/clientinfo_watch.go).  The file *)
(* is the kubelet's copy of the same secret and lags behind it.  Of a      *)
(* configuration the model keeps the proxy it gives for one profile.       *)
(***************************************************************************)
EXTENDS Naturals, Sequences

CONSTANTS
  Proxies,    \* proxies the profile may name
  NoProfile,  \* a well-formed configuration without the profile
  Empty,      \* the key is there and its value has no bytes
  Garbled,    \* no YAML, or a profile without proxyIP and proxyPort
  Missing,    \* the key client-info.yml is gone
  Contents,   \* the contents the secret may be given
  Installed,  \* the proxies the first version may name
  Roles,      \* the verbs on secrets the plugin's service account has
  MaxEdits,   \* bound on edits of the secret
  MaxPending, \* bound on notifications the listener has not handled
  None        \* no proxy

\* What the constants are to be.
WatchConstants ==
  /\ Contents \subseteq Proxies \cup {NoProfile, Empty, Garbled, Missing}
  /\ Installed \subseteq Proxies /\ Roles \subseteq {"get", "list", "watch"}
  /\ MaxEdits \in Nat /\ MaxPending \in Nat \ {0}
  /\ None \notin Proxies

VARIABLES
  log,       \* the secret's contents, version by version
  file,      \* the version the mounted file has
  up,        \* the process runs and serves
  seen,      \* the version in the informer's store, 0 before its first list
  pending,   \* versions notified to the listener, oldest first
  get,       \* the goroutine of the one Get, and the version it has read
  clientInfo \* the proxy that SelectProxy finds for the profile, or None

vars == <<log, file, up, seen, pending, get, clientInfo>>

Newest     == Len(log)
NotStarted == [pc |-> "wait", version |-> 0]

\* Mutant: for a profile that is not there the configuration is taken as is.
ParseAnything(c) == c

\* The proxy a well-formed configuration gives for the profile (SelectProxy).
Parse(c) == IF c \in Proxies THEN c ELSE None

\* LoadClientInfoConfig: no bytes are a configuration without profiles.
FileLoads(c) == c \in Proxies \cup {NoProfile, Empty}

\* apply passes only bytes on, and only what the parser accepts.
SecretApplies(c) == c \in Proxies \cup {NoProfile}

\* A plugin that has just started, from a file that names a proxy.
Init ==
  /\ \E p \in Installed : log = <<p>> /\ clientInfo = p
  /\ file = 1 /\ up = TRUE
  /\ seen = 0 /\ pending = <<>> /\ get = NotStarted

-----------------------------------------------------------------------------
(***************************************************************************)
(* The cluster.                                                            *)
(***************************************************************************)
EditSecret(c) ==
  /\ Newest <= MaxEdits /\ c # log[Newest]
  /\ log' = Append(log, c)
  /\ UNCHANGED <<file, up, seen, pending, get, clientInfo>>

\* The kubelet copies the secret to the volume of the pod.
SyncFile ==
  /\ file # Newest
  /\ file' = Newest
  /\ UNCHANGED <<log, up, seen, pending, get, clientInfo>>

\* The process ends with its informer and its goroutines.
Exit ==
  /\ up
  /\ up' = FALSE
  /\ seen' = 0 /\ pending' = <<>> /\ get' = NotStarted
  /\ UNCHANGED <<log, file, clientInfo>>

\* driverStart fails on a file that does not load, and the container is
\* restarted until it does.
Start ==
  /\ ~up /\ FileLoads(log[file])
  /\ up' = TRUE /\ clientInfo' = Parse(log[file])
  /\ UNCHANGED <<log, file, seen, pending, get>>

-----------------------------------------------------------------------------
(***************************************************************************)
(* The informer.  Handlers run on a goroutine of their own, so a version is*)
(* in the store before it is applied.                                      *)
(***************************************************************************)
Notify(version) ==
  /\ Len(pending) < MaxPending
  /\ seen' = version /\ pending' = Append(pending, version)
  /\ UNCHANGED <<log, file, up, get, clientInfo>>

\* The first list, and every list after a watch that broke.
List ==
  /\ up /\ "list" \in Roles /\ seen # Newest
  /\ Notify(Newest)

WatchEvent ==
  /\ up /\ "watch" \in Roles /\ seen # 0 /\ seen # Newest
  /\ Notify(seen + 1)

\* Mutant: the informer is made without a resync period.
NoResync == FALSE

\* Every 60 minutes, when the listener is long idle, the stored secret is
\* delivered again.
Resync ==
  /\ up /\ seen # 0 /\ pending = <<>>
  /\ Notify(seen)

\* Mutant: what cannot be parsed replaces the configuration by an empty one.
ApplyLenient(version) == clientInfo' = Parse(log[version])

\* A secret without the key, without bytes or that does not parse leaves the
\* configuration as it is.
Apply(version) ==
  clientInfo' = IF SecretApplies(log[version]) THEN Parse(log[version])
                ELSE clientInfo

ApplyNext ==
  /\ pending # <<>>
  /\ Apply(Head(pending)) /\ pending' = Tail(pending)
  /\ UNCHANGED <<log, file, up, seen, get>>

\* After the first sync (which does not wait for the listener) the secret is
\* read once; an error is dropped.
GetSecret ==
  /\ up /\ get.pc = "wait" /\ seen # 0
  /\ \/ "get" \in Roles /\ get' = [pc |-> "got", version |-> Newest]
     \/ get' = [pc |-> "done", version |-> 0]
  /\ UNCHANGED <<log, file, up, seen, pending, clientInfo>>

ApplyGot ==
  /\ get.pc = "got"
  /\ Apply(get.version) /\ get' = [pc |-> "done", version |-> 0]
  /\ UNCHANGED <<log, file, up, seen, pending>>

-----------------------------------------------------------------------------
Informer == List \/ WatchEvent \/ Resync \/ ApplyNext \/ GetSecret \/ ApplyGot

Next ==
  \/ \E c \in Contents : EditSecret(c)
  \/ SyncFile \/ Exit \/ Start \/ Informer

Spec == Init /\ [][Next]_vars

\* The kubelet copies and restarts, the informer lists or watches, its
\* listener runs and the resync timer fires.  (SF, as the bound MaxPending
\* may block the informer, which the program's buffer does not.)  Of the first
\* Get nothing is demanded.
Fairness ==
  /\ WF_vars(SyncFile \/ Start)
  /\ SF_vars(List \/ WatchEvent)
  /\ WF_vars(ApplyNext \/ Resync)

\* The process does not exit for ever.
FairSpec == Spec /\ Fairness /\ <>[][~Exit]_vars

-----------------------------------------------------------------------------
(***************************************************************************)
(* Properties.                                                             *)
(***************************************************************************)
\* "applies updates at runtime" (README.md:106): once the secret is not edited
\* any more (MaxEdits) and its newest version is valid, the plugin runs with
\* that version, although the first Get may have applied an older one after
\* the update (clientinfo_watch.go:93-104) and a restart may have read an
\* older file.
NewestInForce ==
  <>[](SecretApplies(log[Newest]) => up /\ clientInfo = Parse(log[Newest]))

\* "keep previous" (clientinfo_watch.go:72): what is in force is a
\* configuration some version of the secret really had and that could be
\* loaded; a broken secret takes none away.
OnlyLoadedConfigs ==
  \E k \in DOMAIN log : FileLoads(log[k]) /\ clientInfo = Parse(log[k])
=============================================================================
