------------------------ MODULE ClientInfoWatchProofs ------------------------
(***************************************************************************)
(* A theorem about ClientInfoWatch for any secret, roles and bounds.       *)
(***************************************************************************)
EXTENDS ClientInfoWatch, TLAPS

Known == 1..Newest

\* Every version that is on its way to the configuration is one the secret had.
VersionsKnown ==
  /\ log # <<>>
  /\ file \in Known
  /\ seen \in Known \cup {0}
  /\ pending \in Seq(Known)
  /\ get \in [pc : {"wait", "got", "done"}, version : Nat]
  /\ get.pc = "got" => get.version \in Known

\* The secret's contents and the process keep their shape.
LogTyped == log \in Seq(Proxies \cup {NoProfile, Empty, Garbled, Missing})

WatchInv == LogTyped /\ VersionsKnown /\ OnlyLoadedConfigs

\* A version that loads, and the secret's bytes that apply, are loaded.
LEMMA Applied ==
  ASSUME WatchInv, NEW v \in Known,
         FileLoads(log[v]) \/ SecretApplies(log[v]), clientInfo' = Parse(log[v]), log' = log
  PROVE  OnlyLoadedConfigs'
<1>1. v \in DOMAIN log
  BY DEF Known, Newest, WatchInv, LogTyped
<1>2. FileLoads(log[v])
  BY DEF FileLoads, SecretApplies
<1> QED BY <1>1, <1>2 DEF OnlyLoadedConfigs, FileLoads, Parse

LEMMA InitWatch == WatchConstants /\ Init => WatchInv
<1> SUFFICES ASSUME WatchConstants, Init PROVE WatchInv
  OBVIOUS
<1>1. PICK p \in Installed : log = <<p>> /\ clientInfo = p
  BY DEF Init
<1>2. p \in Proxies
  BY DEF WatchConstants
<1>3. LogTyped /\ Newest = 1 /\ DOMAIN log = {1} /\ log[1] = p
  BY <1>1, <1>2 DEF LogTyped, Newest
<1>4. VersionsKnown
  BY <1>1, <1>3 DEF Init, VersionsKnown, Known, NotStarted
<1>5. OnlyLoadedConfigs
  BY <1>1, <1>2, <1>3 DEF OnlyLoadedConfigs, FileLoads, Parse
<1> QED BY <1>3, <1>4, <1>5 DEF WatchInv

LEMMA EditKeeps ==
  ASSUME WatchConstants, WatchInv, NEW c \in Contents, EditSecret(c)
  PROVE  WatchInv'
<1>1. /\ log \in Seq(Proxies \cup {NoProfile, Empty, Garbled, Missing})
      /\ c \in Proxies \cup {NoProfile, Empty, Garbled, Missing} /\ log' = Append(log, c)
      /\ UNCHANGED <<file, seen, pending, get, clientInfo>>
  BY DEF WatchConstants, WatchInv, LogTyped, EditSecret
<1>2. /\ LogTyped' /\ Len(log') = Len(log) + 1 /\ log' # <<>>
      /\ \A k \in 1..Len(log) : log'[k] = log[k]
      /\ DOMAIN log = 1..Len(log) /\ DOMAIN log' = 1..Len(log') /\ Len(log) \in Nat
  BY <1>1 DEF LogTyped
<1>3. Known \subseteq Known'
  BY <1>2 DEF Known, Newest
<1>4. pending' \in Seq(Known')
  <2>1. pending \in Seq(Known)
    BY DEF WatchInv, VersionsKnown
  <2> QED BY <1>1, <1>3, <2>1
<1>5. VersionsKnown'
  BY <1>1, <1>2, <1>3, <1>4 DEF VersionsKnown, WatchInv
<1>6. OnlyLoadedConfigs'
  BY <1>1, <1>2 DEF OnlyLoadedConfigs, WatchInv, FileLoads, Parse
<1> QED BY <1>2, <1>5, <1>6 DEF WatchInv

LEMMA ClusterKeeps ==
  ASSUME WatchConstants, WatchInv, SyncFile \/ Exit \/ Start
  PROVE  WatchInv'
<1>1. log' = log /\ Known' = Known /\ LogTyped' /\ Newest \in Known
  BY DEF SyncFile, Exit, Start, WatchInv, LogTyped, VersionsKnown, Known, Newest
<1>2. CASE SyncFile
  BY <1>1, <1>2 DEF SyncFile, WatchInv, VersionsKnown, OnlyLoadedConfigs
<1>3. CASE Exit
  BY <1>1, <1>3 DEF Exit, NotStarted, WatchInv, VersionsKnown, OnlyLoadedConfigs
<1>4. CASE Start
  <2>1. OnlyLoadedConfigs'
    BY <1>1, <1>4, Applied DEF Start, WatchInv, VersionsKnown
  <2> QED BY <1>1, <1>4, <2>1 DEF Start, WatchInv, VersionsKnown
<1> QED BY <1>2, <1>3, <1>4

LEMMA InformerKeeps ==
  ASSUME WatchConstants, WatchInv, Informer
  PROVE  WatchInv'
<1>1. log' = log /\ Known' = Known /\ LogTyped' /\ Newest \in Known
  BY DEF Informer, List, WatchEvent, Resync, Notify, ApplyNext, GetSecret, ApplyGot,
         WatchInv, LogTyped, VersionsKnown, Known, Newest
<1>2. ASSUME NEW v \in Known, Notify(v) PROVE WatchInv'
  <2>1. pending' \in Seq(Known)
    BY <1>2 DEF Notify, WatchInv, VersionsKnown
  <2> QED BY <1>1, <1>2, <2>1 DEF Notify, WatchInv, VersionsKnown, OnlyLoadedConfigs
<1>3. CASE List
  BY <1>1, <1>2, <1>3 DEF List
<1>4. CASE WatchEvent
  <2>1. seen + 1 \in Known
    BY <1>1, <1>4 DEF WatchEvent, WatchInv, LogTyped, VersionsKnown, Known, Newest
  <2> QED BY <1>2, <1>4, <2>1 DEF WatchEvent
<1>5. CASE Resync
  BY <1>2, <1>5 DEF Resync, WatchInv, VersionsKnown
<1>6. ASSUME NEW v \in Known, Apply(v) PROVE OnlyLoadedConfigs'
  BY <1>1, <1>6, Applied DEF Apply, WatchInv, OnlyLoadedConfigs
<1>7. CASE ApplyNext
  <2>1. Head(pending) \in Known /\ Tail(pending) \in Seq(Known)
    BY <1>7 DEF ApplyNext, WatchInv, VersionsKnown
  <2>2. OnlyLoadedConfigs'
    BY <1>6, <1>7, <2>1 DEF ApplyNext
  <2> QED BY <1>1, <1>7, <2>1, <2>2 DEF ApplyNext, WatchInv, VersionsKnown
<1>8. CASE GetSecret
  <2>1. Newest \in Nat
    BY DEF Newest, WatchInv, LogTyped
  <2>2. get' \in [pc : {"got"}, version : Known] \/ get' = [pc |-> "done", version |-> 0]
    BY <1>1, <1>8 DEF GetSecret
  <2>3. /\ get' \in [pc : {"wait", "got", "done"}, version : Nat]
        /\ get'.pc = "got" => get'.version \in Known
    BY <2>1, <2>2 DEF Known
  <2> QED BY <1>1, <1>8, <2>3 DEF GetSecret, WatchInv, VersionsKnown, OnlyLoadedConfigs
<1>9. CASE ApplyGot
  <2>1. OnlyLoadedConfigs'
    BY <1>6, <1>9 DEF ApplyGot, WatchInv, VersionsKnown
  <2> QED BY <1>1, <1>9, <2>1 DEF ApplyGot, WatchInv, VersionsKnown
<1> QED BY <1>3, <1>4, <1>5, <1>7, <1>8, <1>9 DEF Informer

LEMMA WatchKeeps ==
  ASSUME WatchConstants, WatchInv, [Next]_vars
  PROVE  WatchInv'
<1>1. CASE UNCHANGED vars
  BY <1>1 DEF vars, WatchInv, LogTyped, VersionsKnown, OnlyLoadedConfigs, Known, Newest
<1> QED BY <1>1, EditKeeps, ClusterKeeps, InformerKeeps DEF Next

\* What is in force is a configuration that some version of the secret really
\* had and that could be loaded (clientinfo_watch.go:65-73).
THEOREM ConfigsAreLoaded ==
  ASSUME WatchConstants
  PROVE  Spec => []OnlyLoadedConfigs
<1>1. Init => WatchInv
  BY InitWatch
<1>2. WatchInv /\ [Next]_vars => WatchInv'
  BY WatchKeeps
<1>3. WatchInv => OnlyLoadedConfigs
  BY DEF WatchInv
<1> QED BY <1>1, <1>2, <1>3, PTL DEF Spec
=============================================================================
