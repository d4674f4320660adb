# TLA+ verification of flexa-csi

flexa-csi is a CSI driver: it lets Kubernetes provision volumes on Gluesys
FlexA storage (ZFS exported over NFS, or Lustre) and mount them for pods. This
directory holds TLA+ models of the driver, the TLC configurations that check
them and machine-checked proofs about them. Paths and line numbers are those of
the repository.

    tlasany NfsNode.tla                              parse
    tlc -config nfs_lifecycle.cfg MCNfsNode.tla      model-check one run
    tlapm NfsNodeProofs.tla                          check the proofs of one module

## 1. Inventory

| Component | State it keeps | Operations | Hard behaviour | What makes it correct |
|---|---|---|---|---|
| NFS node path (`pkg/driver/nodeserver.go`) | none in memory; mounts of the container (`/mnt/flexa/global/...`), bind mounts under `/var/lib/kubelet`, meta files under `/var/lib/flexa/meta` | NodePublishVolume, NodeUnpublishVolume | handlers of several pods interleave at every system call without a lock; each call may fail half-way; the container or node restarts; the kubelet gives up and retries | a pod sees its own export and nothing else; the shared mount lives exactly as long as its last bind; nothing exported is erased; every unpublish ends |
| Lustre node path (same file) | the Lustre mount at the staging path (host namespace), bind mounts | NodeStageVolume, NodeUnstageVolume, nodePublishLustre, the branch of unpublish without a meta file | stage / publish / unpublish / unstage order, half-done read-only remount, RemoveAll of the staging path | a read-only publish is read-only; the files survive every unstage; the volume leaves the node with its last pod |
| Controller service (`controllerserver.go`) | none but `Driver.PoolName`; everything is looked up by volume name | CreateVolume, DeleteVolume, ControllerExpandVolume; ListVolumes and GetCapacity answer constants | several requests per call, each may fail or lose its answer; retries; PV and client-info change in between | idempotent create; delete leaves nothing; never shrink; the PV names the proxy that has the volume |
| FlexA service and web API (`pkg/flexa/service`, `pkg/flexa/webapi`) | none | requests to a proxy; MB/bytes conversion | requests are not bound to the caller's context; lookups swallow errors | sizes agree up to the rounding |
| client-info (`clientinfo_watch.go`, `common/config.go`, `driver.go`) | the current configuration, an `atomic.Value` | load at start, informer events, one Get after the first sync, SelectProxy | the Get races the informer; an unparsable secret keeps the previous one; the manifests' roles grant no `watch` on secrets | the newest valid secret is in force at last |
| Mutating webhook (`pkg/webhook`) | none | HandleMutate, createPatches | pods whose containers have no `env` list; other webhooks; resubmission | each container gets the variable once, nothing is lost, no pod is refused |
| gRPC server, identity, start-up (`main.go`, `grpc.go`) | none | driverStart, Activate, wiring | one goroutine per request; a start from a file that lags or does not load | handlers and watch live and die together |
| Node statistics, node info, NodeExpandVolume | none | read only | - | - |
| Logging, utilities, data types | none | - | rounding | - |

How they interact: the external-provisioner and external-resizer call the
controller plugin, which asks a proxy over HTTP. CreateVolume puts the proxy, the
pool, the export path and the VIP into the PV (`VolumeContext`); DeleteVolume and
ControllerExpandVolume read them back from the PV, the node plugin gets them from
the kubelet with every publish. The node plugin reads the pod's annotations
(`flexa.io/mountOptions`, `flexa.io/serviceVIP`) from the API server. The two
plugins share no memory; each has a `Driver.PoolName`, which is a default for PVs
without a pool name (section 10). The hazards found on the way are listed with their
lines in `PROJECT.json`, those that no property catches with the reason.

## 2. Plan

| Step | Module | State |
|---|---|---|
| 1 | `NfsNode`, `MCNfsNode`: the shared mount with its binds, the most intricate protocol of the driver | done |
| 2 | `NfsNodeProofs`: type correctness and the safety of the node for every instance | done |
| 3 | `Controller`, `VolumeContract`, `MCController`: life of a volume, and the contract it implements | done |
| 4 | `LustreNode`, `MCLustreNode`: stage, publish (with the read-only remount), unpublish, unstage | done |
| 5 | `NodeContract`: what a pod is promised; both node paths implement it | done |
| 6 | `ClientInfoWatch`: file, secret, informer, first Get, SelectProxy | done |
| 7 | `Reconfiguration`: `Controller` and `ClientInfoWatch` as one process that dies and starts again | done |
| 8 | `WebhookPatch`: the webhook's patch among other webhooks and resubmissions | done |
| 9 | Proofs about the new modules: `LustreNodeProofs`, `ClientInfoWatchProofs`, `ReconfigurationProofs` | done |
| 10 | Proofs of the rest of `NfsNode` (`NfsGroupProofs`) and of the controller (`ControllerProofs`, `VolumeContractProofs`), the refinements included | done |
| 11 | `WebhookPatchProofs`: the webhook's properties for pods of any size, the loop of createPatches included; what the group's mount owes its pods when steps fail | done |

The modules that are proved about have no RECURSIVE operator, take every
parameter as a CONSTANT with a named assumption, and state their invariants as
conjunctions of named parts.

## 3. The NFS node (`NfsNode`)

### State

| Variable | In the code |
|---|---|
| `grp[g]` | the NFS mounts at the group path `g` = (claim, mount options), newest first; getNfsGroupPath, 215-224 |
| `dirs` | the group paths that exist |
| `tmnt[t]`, `tdirs` | the bind mounts at a target path, and whether it exists; a bind remembers the group it came from (its options) and what it shows, `Local` being the directory of the node itself |
| `meta[t]` | the meta file of a target: its group and source; 117-189 |
| `wiped` | a history: volumes whose files RemoveAll deleted |
| `ann`, `claim` | the pods' annotations and what each claim name is bound to |
| `kub[t]` | what the kubelet believes: `new`, `mounting`, `uncertain` (a publish it knows no result of), `up`, `leaving`, `gone` |
| `call[c]` | a handler's local variables and its next step; `waited` says that the kubelet still waits |

### Actions

NodePublishVolume is `PublishOptions`, `PublishServer`, `PublishCheckGroup`,
`PublishMountGroup`, `PublishSaveMeta`, `PublishCheckTarget`, `PublishRecheck`,
`PublishBind`, `PublishRemount`; NodeUnpublishVolume is `UnpublishCheck`,
`UnpublishLoadMeta`, `UnpublishAsLustre`, `UnpublishRemoveLustre`, `UnpublishUmount`,
`UnpublishRemoveTarget`, `UnpublishRemoveMeta`, `UnpublishCount`,
`UnpublishPanic`, `UnpublishUmountGroup`, `UnpublishRemoveAll`. Each is one system
call or a run of calls on state nobody else touches; each has the failure the
code handles as an alternative, enabled by its name in `Faults`. The mounter makes a
bind with two calls, so a bind that fails may leave its mount (`PublishBind`).

The environment: the kubelet (`StartPublish`, `StartUnpublish`), which lets a
publish of a volume exclude all other operations on that volume and runs the
unpublishes of its pods in parallel; `GiveUp`, its deadline, after which the
handler goes on, as only the reads of the API server take the call's context;
`EditAnnotations`, `RecreateClaim`; `KubeletForgets`, `ContainerRestart` and
`NodeReboot`. From `deploy/kubernetes/node.yml`: `/mnt/flexa` (121-122) is mounted
without propagation, so group mounts die with the container; `/var/lib/kubelet`
(108-109) is Bidirectional, so bind mounts stay; the meta files are on the host.

`FairSpec`: a handler that runs goes on (WF; a goroutine is scheduled), and the
kubelet's reconciler, which handles unmounts before mounts in every pass, retries
an unpublish (SF, because other handlers may occupy the slots of the model).

### What a pod is promised (`NodeContract`)

A target shows nothing or the volume of its pod, is reported as published only
while it shows that, loses it only when its pod leaves or the node reboots, and is
reported as gone only when nothing is mounted there. `KeepsNodeContract` is the
refinement: `status` is the kubelet's view (a publish in progress or of unknown
result counts as `new`), `shows` the topmost mount, `Own[t]` the mounts of the
pod's volume from any server. With failures of every kind, the group's unmount
included, `NfsNode` implements it while the kubelet waits for its calls.

### Runs

| Run | Instance | Shows |
|---|---|---|
| `nfs_lifecycle` | 4 targets, 2 volumes of one claim, 2 option values, restarts, no failures; 209 000 states | all invariants, `GroupHeldWhileUp`, `KeepsNodeContract` |
| `nfs_faults` | 2 targets, every failure, annotation edits, restarts; 203 000 states | what holds under failures, `KeepsNodeContract` included |
| `nfs_timeouts` | 2 claims with a pod each, give-ups, fair; 305 000 states | `ClaimsIsolated`, `UnpublishEndsOncePatient` |
| `nfs_service_vip`, `nfs_unpublish_panic` | 2 targets | the disagreements of section 8 |

`UnpublishEndsOncePatient` says that every unpublish ends once the kubelet gives up
on no more calls, whatever calls it gave up on before. It gives up on calls without
bound in the model, and a kubelet that always gives up never learns of an end.
Bounds. Two handlers in flight are the least number with which any two steps
interleave, and the hazards of interleaving are between two handlers. Three pods on one
volume let a group of two and a group of one exist side by side; the fourth, on
the successor volume, lets a claim be used twice. Two option values, one of them
`ro`, give both branches of every test on options. Handlers are interchangeable,
so the safety runs use them as a symmetry set (not the run with liveness). CHECK_DEADLOCK is FALSE because a
node whose pods are all gone really has nothing left to do.

## 4. The Lustre node (`LustreNode`)

One volume on one node, as volumes share no path. `staged` is the Lustre mount at
the staging path, made and undone by `nsenter` in the host's mount namespace, so
that it survives the container; `tmnt[t]` the binds at a target; `roFs` the Lustre
mounts whose file system has been remounted read-only; `sdir`, `tdirs` the
directories; `kub` and `dev` what the kubelet believes of the targets and of the
staging path. `wiped`, `cut` and `late` are histories: RemoveAll has reached the
volume, a publish ended with a bind but before its remount, the kubelet gave up on a call.

NodeStageVolume is `StageCheck`, `StageNid`, `StageMount`; NodeUnstageVolume
`UnstageCheck`, `UnstageUmount`, `UnstageRemove`; nodePublishLustre `PublishCheck`,
`PublishBind`, `PublishRemount`; NodeUnpublishVolume, which finds no meta file,
`UnpublishCheck`, `UnpublishUmount`, `UnpublishRemove`. The kubelet stages before it
publishes, lets stage, publish and unstage exclude each other, runs unpublishes in
parallel and unstages when no target is left.

`mount(2)` with `remount,ro` and without `bind` (nodeserver.go:490) changes the file
system and not the one bind, which the model follows: `roFs` is a set of mounts.

`lustre_lifecycle` (2 targets, one of them read-only, 2 handlers, 2 failures of any
kind, restarts and give-ups; 69 000 states) shows:

- `DataKept`: the RemoveAll of an unstage never meets the volume.
- `ReadOnlyUnlessCut`: a target published read-only is read-only unless its
  publish was cut between bind and remount.
- `UnstagedIsClean`: an unstaged volume leaves no mount but the bind of a publish
  that failed and was given up.
- `VolumeLeaves`: unpublishes end and the volume leaves the node when its pods are
  gone (liveness).
- `KeepsNodeContract`: `NodeContract` again, with `Own[t]` any mount of the volume.

Two targets, one of each kind, are the least with which one pod's remount or
unpublish can disturb another's; two failures are one, and the failure,
restart or give-up that meets its retry. Three mounts are more than can be alive at once there: the
staged one, and those that leftover binds keep.

TLC refutes, which the properties' conditions therefore say: `DataKept`, `UnstagedIsClean`
and the contract once the kubelet has given up on a call that goes on (a stage between
the unmount and the removal of a late unstage has its files removed);
`ReadOnlyUnlessCut` without its exception (the retry at nodeserver.go:478 answers
success for a writable bind); and that a pod that writes is never on a read-only
file system, for the remount of a read-only pod's bind makes it so for all.

## 5. The controller (`Controller`, `VolumeContract`)

`vol` and `share` are the volumes (in MB) and NFS shares at each proxy, keyed by
proxy and volume name as the code's request paths are; `pv`, `want` and `phase` are
what the API server has of a claim; `clientInfo` is the proxy that client-info
gives for the StorageClass's profile; `faults` bounds failures and restarts. A
handler's steps are the requests it makes: CreateVolume reads the claim, looks the
volume up (`GetVolume`), creates volume and share, resolves the VIP; DeleteVolume
finds the PV, deletes share and volume; ControllerExpandVolume finds the PV, reads
the current size, expands and reads the size again. Each request that changes
something may be refused, or carried out with its answer lost. The lookups of
GetVolume (list, info, VIP) change nothing and are one step: reading them at one
moment or at several makes no other result possible, since any change in between
ends in an error, which is a result of the step too.

The proxy is external. The model assumes of it only what the code relies upon:
what is created exists under its name; a creation of what exists is refused (the
code looks first); a share can be made on a volume only, and a volume deleted
without its share only; an expansion sets the size it is asked for. Whether it
refuses to delete what is gone is the constant `Strict`, TRUE in some runs and
FALSE in others. The provisioner keeps one call per volume in flight and retries
until it has an answer; a PV without a volume handle is refused by the API server
(`phase` "refused"). A claim may be deleted at any time.

`VolumeContract` is what a claim is promised: its volume becomes usable as a whole,
stays usable, never shrinks, and is reclaimed with nothing left. `KeepsContract`
checks that `Controller` implements it under the mapping `UseOf`, `SizeOf`.

| Run | Instance | Shows |
|---|---|---|
| `ctl_lifecycle` | a ZFS and a Lustre volume, sizes 4, 5, 6 (MB = 2, GB = 4, so 5 is rounded), 2 failures, client-info lost and found; 591 000 states | `CapacityWithinMB`, `DeletedIsGone`, `NeverAsksToShrink`, `KeepsContract` |
| `ctl_reconfigured` | the composition of section 6 | `TypeOK`, `PvBacked`, `DeleteEndsOncePatient` and the configuration's |
| `ctl_retry_handle`, `ctl_shrink` | one volume | the disagreements of section 8 |

`PatientSpec` has sidecars that wait for their calls, `Spec` adds `GiveUp`. The
contract and the guard against shrinking are checked of the first: once a call is given
up on, two expansions of one volume may overlap and the smaller come last.

`DeleteEndsOncePatient` needs that the failures end (`MaxFaults`), that the
provisioner retries and at last gives up on no call, and that the proxy accepts
deleting a share that is gone: with `Strict` a delete that fails between share and
volume is never finished.

`PvBacked` deserves a remark. A CreateVolume that fails between volume and share
leaves a ZFS volume without a share, and the retry answers with that volume. No
claim is ever bound to it only because the same answer has no volume handle (a
finding below): the mutant that fills the handle in breaks `PvBacked`, so the two
must be repaired together.

## 6. The configuration (`ClientInfoWatch`, `Reconfiguration`)

`log` is the history of client-info-secret, version by version; `file` the version
the kubelet's copy in the pod has; `seen` the one in the informer's store; `pending` what the
informer has notified its listener of; `get` the goroutine that reads the secret once
after the first sync; `clientInfo` the proxy that SelectProxy finds for one
profile. `Start` is driverStart, which fails on a file that does not load; `List`,
`WatchEvent` and `Resync` are the informer's sources; `ApplyNext` and `ApplyGot` run
`apply`, the first on the listener's goroutine and the second on its own, which is
how an older secret may overwrite a newer one. A content is a proxy, a
configuration without the profile, no bytes, something that does not load, or a secret
without the key: the file and the secret judge them differently (`FileLoads`,
`SecretApplies`).

`Reconfiguration` makes one process of the handlers of `Controller` and of the watch:
`clientInfo` is the variable both share, `PluginDies` ends both, and nobody calls a
process that is down. `ImplementsController` shows that `Controller`, whose environment
changes `clientInfo` at will, covers all of it, so what is checked of `Controller`
holds of the composition. `NewestInForce` (the newest version, if valid, gets in
force at last), `OnlyLoadedConfigs` (what is in force was really in the secret and
loaded: "keep previous"), `PvBacked` and `DeleteEndsOncePatient` are checked of the
composition itself.

`ctl_reconfigured` has one ZFS volume, two proxies, two handlers, of which one may
be given up on (`Impatient`), two failures or deaths, one edit of the secret to another proxy, to no
profile or to nothing that loads, and one pending notification; 228 000 states. With
the composition left out, the watch alone has been checked with two edits of every
kind of content and with the verbs get and list, and with get, list and watch
(10 200 states): both properties hold. Two edits are enough for the Get to lie one
version behind the listener and the file one behind both. `watch_roles` runs the same
instance with the verbs of the controller's role.

Fairness: the kubelet copies the secret and restarts the container (WF), the
reflector lists and watches (SF, as the bound `MaxPending` may block it, which the
program's unbounded buffer does not), the listener and the resync timer run (WF). The
timer's period is an hour, so in the model it fires only when the listener is idle.
The process eventually stays up. Of the Get nothing is demanded.

TLC refutes that the configuration never goes back to an older version (the Get), and
that it settles on the newest *valid* version when a broken one follows it (the Get
brings back an older one, and the resync delivers the broken one, which is skipped).

## 7. The webhook (`WebhookPatch`)

A pod is its job id and, for each of its two lists, the environments of its
containers. `HandleMutate` makes the operations of createPatches from the pod as it
was sent; the API server applies them one by one (`ApplyOp`) by the rules of RFC 6902,
under which an `add` at `env/-` needs an `env` that is there and an `add` at `env`
replaces one. Other webhooks add sidecars and variables before and after; a call may
fail, which the chart's failurePolicy Ignore lets pass; a pod may be submitted again.
The answer with `allowed` false (webhook.go:125-140) takes a pod that does not unmarshal,
which the API server, having decoded and validated it, does not send.

`webhook_admission` (pods of one or two containers and up to one init container, with
five environments each, 2 changes by others, 2 submissions; 159 000 states) shows that
no pod is refused (`PatchApplies`), no variable is lost (`EnvOnlyGrows`), every container
ends as a reference definition wants it (`EveryContainerNamed`) and a second pass asks
for nothing (`Idempotent`). Two containers distinguish the index of a container from its
place in the patch; the environments have the variable first, last, twice and not at all.
All five properties are proved for pods of any size (section 9).

## 8. Where the code disagrees with itself or its documents

Each has a run that ends in a counterexample and an entry in `PROJECT.json`.

1. `nfs_service_vip`: the group path ignores the server, so a pod with its own
   `flexa.io/serviceVIP` may be mounted from another pod's server (README.md:193).
2. `nfs_unpublish_panic`: countBindMounts dereferences nil (nodeserver.go:275) when
   the last two pods of a group leave at once, or after a container restart. The
   process dies; the kubelet's retry then finds the target unmounted and answers success
   (nodeserver.go:634-640). The two pods of `nfs_timeouts` are in different groups; with
   both in one (`VolumeOf <- SuccessorVolumeOf`, `PvcOf <- OnePvcOf`, one volume and one
   claim; 254 000 states, panics included) `UnpublishEndsOncePatient` has been checked too.
3. `ctl_retry_handle`: a retried ZFS CreateVolume answers with an empty VolumeId
   (fep.go:304-314, controllerserver.go:292).
4. `ctl_shrink`: a failed lookup disables the guard against shrinking
   (controllerserver.go:521).
5. `watch_roles`: the controller's role grants get on secrets alone, so its informer
   never syncs and updates are not applied at run time (README.md:106,
   deploy/kubernetes/controller.yml:49-51). The node's role has get and list, with
   which the reflector's lists and relists suffice.

What holds only under an assumption, because TLC refutes it without:

- Once the kubelet gives up on a call that keeps running (`Timeouts`), unpublish
  and publish overlap: `GoneIsUnmounted`, `NeverLocalDir` and `MetaCoversBound` fail, that is, a pod may
  be bound to the node's own directory, or to a target without a meta file, which is
  later taken for Lustre and whose group is never counted down. `ClaimsIsolated`
  and `UnpublishEndsOncePatient` remain.
- When the unmount of a group fails (`umountGroup`), which is logged and no more,
  os.RemoveAll goes into the share that is still mounted (nodeserver.go:688-700):
  `ShareNotWiped` is checked and proved without that failure.
- A failed list of PVs (`pvList`) makes DeleteVolume succeed without deleting
  (controllerserver.go:115-119, 305-308), so `DeletedIsGone` is checked without it.

Known leaks that no document excludes, seen in the models and listed as hazards:
groups whose options read the same in `/proc/mounts` count each other; a target
that cannot be removed after its unmount leaves meta file and group; an edited
annotation abandons the first group; a claim deleted, or client-info changed,
between two attempts of CreateVolume leaves a volume at the first proxy.

## 9. Proofs

Every theorem holds for any sets of handlers, targets, volumes, proxies, sizes,
contents and so on, and any choice of failures, restarts and time-outs the
hypotheses leave. The modules' own assumptions on their constants are not repeated
here; TLC evaluates them on every run. A hypothesis is a question about the code, so
each was tried: without it TLC refutes a property that its theorems state, on an
instance as small as those of the runs. The exceptions are `WatchConstants` and
`AnyUpdate`, which only say what constants mean. All inductive invariants were
checked by TLC before they were proved.

### The NFS node (`NfsNodeProofs`, `NfsGroupProofs`)

| Theorem | Says | Assumes |
|---|---|---|
| `TypeCorrect` | `[]TypeOK` | - |
| `ClaimsIsolatedHolds` | `[]ClaimsIsolated` | - |
| `MetaCoversBoundHolds`, `NeverLocalDirHolds`, `GoneIsUnmountedHolds` | `[]` of the property each is named for | `~Timeouts` |
| `ShareNotWipedHolds` | `[]ShareNotWiped` | `~Timeouts`, the group's unmount does not fail |
| `PublishedShowsVolumeHolds`, `NfsKeepsContract` | `[]PublishedShowsVolume`, `KeepsNodeContract` | `~Timeouts`, `OwnVolumes` |
| `RecreatedShowsVolume`, `RecreatedKeepsContract` | the same | `Undisturbed` |
| `GroupReleasedHolds` | `[]GroupReleased` | `Undisturbed` |
| `GroupHeldHolds`, `ServiceVIPHolds` | `GroupHeldWhileUp`, `[]PublishedFromServiceVIP` | `Undisturbed`, `SameServer` |
| `GroupHeldThroughFailures`, `ServiceVIPThroughFailures` | the same | `~Timeouts`, no edits, `OwnVolumes`, `SameServer` |
| `UnpublishNeverPanics` | `[]UnpublishReturns` | those, no restart, `OneHandler` or `AloneInGroup` |

`OwnVolumes`: no two volumes are of one claim, so no claim name is used again. With
it every step may fail and annotations may be edited. Without it, and with failures,
a leftover mount of the old volume is shown to a pod of the new one. `Undisturbed`:
the kubelet waits, annotations are not edited, `/proc/mounts` tells the option
values apart, and only steps fail that an unpublish repeats (stat, unmount of the
target, removal of the meta file). TLC refutes `GroupReleased` with each of the
other failures alone, with edits and with options that read the same; these are the
leaks of section 8. Claims may be recreated and everything may restart. `SameServer`:
pods of a volume that share a group name one server. `ServiceVIPHolds` tells when the
claim of README.md:193 is true: the run that refutes it has two servers in one group.

The two properties about a pod that stays do not need steps to succeed: a failure only
leaves mounts, binds and meta files behind, and while no claim name is used again these
show what the group's other pods show. So with `OwnVolumes` they hold through every
failure. TLC refutes them with failures and a recreated claim together, and
`GroupHeldWhileUp` with give-ups, with edits and with two servers in a group.

The argument for the first theorems. None of the properties is inductive: that a
bind finds the group mounted depends on what other handlers may have done since it
was checked. `IInv` adds what makes it so. `Exclusion`: while the kubelet waits, a
publish is alone on its volume and unpublishes of one volume are for different
targets. `ClaimInUse` and `OwnGroups`: a handler, and a meta file, name a group of
the handler's own claim, and targets in use of one claim are of one volume, so
handlers of different volumes in flight touch different groups (lemma `Apart`).
`Sees`: what a handler has checked or done is still so at its later steps.
`SingleMounts`: no mount is ever stacked. `PublishKeeps`, `UnpublishKeeps`,
`DeathKeeps` and `EnvironmentKeeps` show that every step preserves `IInv`.

What the pods are shown. `ClaimInv` says that handlers, meta files, mounts and binds
name only groups and volumes of their own claim; it needs nothing of the kubelet,
and with `OwnVolumes` "of its claim" is "its volume". `UpInv`: what is reported
published is bound. The refinement then goes target by target (`OneTarget`): a
handler's step changes one target's status or mounts, and that as `NodeContract`
allows.

The life of a group. `PathInv`: with annotations at rest, a target has one group and
one source, and whoever works for it has the same. `ReadyInv`: the steps of a
publish do not fail, so it never stops half-way. `OwnedInv`: a mounted group has a
bound target or a handler that is about to bind one or to count. The count takes the
group down exactly if no bind is left: `CountFindsOwner` (if it finds one, the group
still has an owner, since option values read differently) and `CountFindsBinds` (if
it finds none, there is none, since the binds of a group show one source: here
`SameServer` is needed). `RecreatedIsVacant`: when a claim gets a new volume, no
group of it is mounted any more. `GroupInv` collects these. `HeldInv` is the part that
also holds through failures: `OwnIsNotRecreated` takes the place of `RecreatedIsVacant`,
and `Vacant` says that no target is bound to a group about to be unmounted.

When an unpublish returns. Section 8 shows countBindMounts to panic. `StandInv` tells
what that takes: a group's mount stands while a target is bound to it, and until the
unpublish of that target has counted. A restart breaks it (the mount may be gone when
the retry counts), and so does a second unpublish of the group (it may unmount
first). Without either, whatever fails, the count finds what it dereferences.

### The Lustre node (`LustreNodeProofs`)

| Theorem | Says |
|---|---|
| `LustreTypes` | `[]TypeOK` |
| `FilesAreKept` | `[]DataKept` |
| `ReadOnlyIsRemounted` | `[]ReadOnlyUnlessCut` |
| `UnstagedLeavesNothing` | `[]UnstagedIsClean` |
| `LustreKeepsContract` | `KeepsNodeContract` |

None has a hypothesis; the properties themselves end where the kubelet gives up on a
call (`late`). `NodeInv` says that until then the node is `Orderly`: calls are
waited for and two at a time are unpublishes of different targets (`Alone`), a
handler's finding still holds at its next step (`Found`: nothing is mounted at the
path that "unstageRemove" is about to remove), the kubelet's view of the staging
path is right (`Staged`), and a target has one bind at most, read-only if it must be
and its publish was not cut (`Bound`).

### The controller (`ControllerProofs`, `VolumeContractProofs`)

| Theorem | Says | Assumes |
|---|---|---|
| `ControllerTypes`, `BoundClaimsAreBacked` | `Spec => []TypeOK`, `Spec => []PvBacked` | - |
| `CapacityIsStored` | `PatientSpec => []CapacityWithinMB` | - |
| `NothingShrinks` | `PatientSpec => []NeverAsksToShrink` | `TrueLookups` |
| `DeletedVolumesAreGone` | `PatientSpec => []DeletedIsGone` | `TrueLists`, `OneProxy` |
| `ControllerKeepsContract` | `PatientSpec => KeepsContract` | all three |
| `AnswersNameVolumeHolds` | `PatientSpec => []AnswersNameVolume` | `NothingStops` |

`PatientSpec` has sidecars that wait; TLC refutes all five properties of `Spec`.
`TrueLookups`: a lookup of a volume at its proxy does not fail unnoticed (finding
4). `TrueLists`: nor does the list of PVs (section 8). `OneProxy`: with a second
one, client-info may change between two attempts of CreateVolume and leave a volume
at the first. Requests fail, answers are lost and the plugin crashes freely, but for
`NothingStops`, which excludes these three and allows the other failures.

`PvBacked` is proved with give-ups. `ClaimInv`: what the claim's phase is while a
handler works for it, and that handlers the sidecars wait for are one of a kind per
volume. `VipComplete`: a create that is waited for and has come to the VIP has its
volume and share complete. Deletes take away only from claims that are no longer
bound, also the delete that was given up on and goes on.

With waiting sidecars, `Elsewhere`, `CreateAlone` and `ExpandAlone` say that
handlers do not meet at a volume, but for an expansion and a deletion.
`CreatedInFull` and `ExpandFits` follow the size through a handler, with the
rounding of `RoundDown`, `RoundMonotone` and `AcceptedIsStored`: the PV's capacity
is at most one MB more than what is stored. `GrowsOnly`: an expansion about to ask
still asks for more than there is. `ShareZfs`: no Lustre volume has a share, for its
deletion removes none. The refinement (`ViewStep`, `HandlerKeepsContract`) maps
every step to one of `VolumeContract` or to a stutter.

`AnswersNameVolumeHolds` tells what finding 3 takes. `UnmadeInv`: of a volume that no
claim has yet there is nothing at any proxy, but what a handler past createVolume is
about to complete, and one about to make a share finds none. So a create that is not
stopped is never refused and no retry finds its volume. TLC refutes the property with each of
the three failures alone, and with a give-up alone.

### The configuration (`ClientInfoWatchProofs`, `ReconfigurationProofs`)

| Theorem | Says | Assumes |
|---|---|---|
| `ConfigsAreLoaded` | `[]OnlyLoadedConfigs` for the watch alone | `WatchConstants` |
| `ImplementsWatch` | `ReconfSpec => Watch!Spec` | - |
| `ComposedConfigsAreLoaded` | `ReconfSpec => []OnlyLoadedConfigs` | - |
| `ComposedController` | `ReconfSpec => ImplementsController` | `AnyUpdate` |
| `ComposedClaimsAreBacked` | `ReconfSpec => []PvBacked` | `AnyUpdate` |

`WatchConstants` is what the constants are declared to be. `WatchInv`: whatever is
on its way to the configuration (file, store, notifications, Get) is a version the
secret had. The composition is proved through its parts: it implements both, so what
was proved of each holds of the two together. `AnyUpdate` (`Updates` is every proxy
and none) lets the abstract controller's client-info change to whatever the secret
may say.

### The webhook (`WebhookPatchProofs`)

| Theorem | Says |
|---|---|
| `TypesHold` | `Spec => []TypeOK` |
| `PatchesApply` | `Spec => []PatchApplies` |
| `ContainersNamed` | `Spec => []EveryContainerNamed` |
| `AnswerIsIdempotent` | `Spec => []Idempotent` |
| `NothingIsLost` | `Spec => EnvOnlyGrows` |

None has a hypothesis: pods have any number of containers with environments of any
length, and others change them and submit them again without a bound that matters. The
constants' assumption says that `LUSTRE_JOBID` is the name of a variable, job ids are
values, and other webhooks do not set that variable themselves.

What the loop of createPatches returns needs induction over its turns. The library's
induction theorems take an operator, which the provers cannot instantiate, so
`LeastNumber` gets a least element from the well-founded order of the numbers, and
`Induction` is the principle for a set. With it `LoopIsDefined` shows that the recursive
function of `OpsUpTo` satisfies its equation, and `OpsForMakes` that after n turns there
is one operation for every container among the first n that lacks the variable and no
other (`MadeOf`). `PatchOf` is the same of both lists.

`PatchApplies` is not inductive: whether an operation can be applied depends on those
before it. `InProgress` adds that operations are for different containers, that a
container with an operation to come is as it was sent, and that one without is as it is
wanted; so an `add` at `env` replaces nothing and one at `env/-` finds a list
(`ApplyMakesWanted`). Afterwards `Answered` holds: what was wanted is in front, and what
others put behind it has another name (`Continues`).

### Model-checked only

Liveness (`UnpublishEndsOncePatient`, `VolumeLeaves`, `DeleteEndsOncePatient`,
`NewestInForce`) is out of the prover's reach. Every other property of the passing runs
is the subject of a theorem.

## 10. Not modelled

Left out for good: NodeGetVolumeStats, NodeGetInfo, NodeExpandVolume, capability and
identity calls, ListVolumes and GetCapacity (they change nothing; the last two answer
constants, although README.md:16 lists them as services), checks of empty request
fields, the volume options and security annotations that are passed through to the
proxy, the JSON envelopes, flags, sockets and TLS, logging, and the manifests but for
what the models take from them. The permission bits set by chmod matter only in that
chmod may fail. NFS and Lustre are mounts that show an export or a volume.

`Driver.PoolName` is written by every CreateVolume and NodePublishVolume without a
lock. DeleteVolume, ValidateVolumeCapabilities and NodeGetVolumeStats (controllerserver.go:311,
379, nodeserver.go:727) use it when the PV names no pool, and the last also when it does
not find the PV. The driver makes no ZFS volume without a pool in its PV, and the last
two change nothing. The legacy default of client-info (host and port without a profile) is one
more value SelectProxy may find, and the models name a profile. Of client-info-secret
only edits are modelled: for a deletion the informer has no handler and the kubelet
keeps the file.
