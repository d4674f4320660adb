----------------------------- MODULE WebhookPatch ----------------------------
(***************************************************************************)
(* The mutating webhook (pkg/webhook/webhook.go): a pod with the annotation*)
(* flexa.io/lustre-qos gets the variable LUSTRE_JOBID in every container.  *)
(* HandleMutate answers the API server with JSON patch operations that     *)
(* createPatches makes of the pod it was sent; the API server applies them *)
(* one after the other to that pod.  Other webhooks come before and after, *)
(* and a pod that was admitted may be submitted again from its own YAML.   *)
(***************************************************************************)
EXTENDS Naturals, SequencesExt

CONSTANTS
  Submitted,  \* the pods a user may submit
  JobIds,     \* values of the annotation
  NoJobId,    \* the annotation is absent or empty
  JobVar,     \* the name LUSTRE_JOBID
  Names,      \* names of variables
  Values,     \* values of variables
  Foreign,    \* what other webhooks add to a container's environment
  MaxForeign, \* bound on what other webhooks and users change
  MaxSubmits, \* bound on submissions of one pod
  None        \* no value

Lists   == {"containers", "initContainers"}
EnvVars == [name : Names, value : Values]
Pods    == [jobid : JobIds \cup {NoJobId},
            containers : Seq(Seq(EnvVars)), initContainers : Seq(Seq(EnvVars))]

ASSUME ConstantsAssumption ==
  /\ JobVar \in Names /\ JobIds \subseteq Values /\ NoJobId \notin JobIds
  /\ Submitted \subseteq Pods
  /\ \A e \in Foreign : e \in EnvVars /\ e.name # JobVar
  /\ MaxForeign \in Nat /\ MaxSubmits \in Nat

VARIABLES
  pod,      \* the pod as the API server has it: job id and, for each list of
            \* containers, the environment of each (<<>>: no env member)
  sent,     \* the pod as the webhook was sent it, or None
  patch,    \* the operations of its answer that are still to be applied
  stage,    \* "before", "patching", "after" the webhook, or "refused"
  changes,  \* changes by others so far
  submits   \* submissions so far

vars == <<pod, sent, patch, stage, changes, submits>>

Init ==
  /\ pod \in Submitted
  /\ sent = None /\ patch = <<>> /\ stage = "before"
  /\ changes = 0 /\ submits = 1

-----------------------------------------------------------------------------
(***************************************************************************)
(* createPatches                                                           *)
(***************************************************************************)
\* Mutant: only the first variable is looked at.
HasEnvFirst(envs, name) == envs # <<>> /\ Head(envs).name = name

HasEnv(envs, name) == \E k \in DOMAIN envs : envs[k].name = name

JobEnv(p) == [name |-> JobVar, value |-> p.jobid]

\* Mutant: a container without env is appended to as well.
AddOpAppend(p, list, i) ==
  [list |-> list, i |-> i, at |-> "end", value |-> JobEnv(p)]

\* Mutant: the env of every container is set as a whole.
AddOpWhole(p, list, i) ==
  [list |-> list, i |-> i, at |-> "env", value |-> <<JobEnv(p)>>]

\* Mutant: a list is appended where one variable is due.
AddOpNested(p, list, i) ==
  IF p[list][i] = <<>>
  THEN [list |-> list, i |-> i, at |-> "env", value |-> <<JobEnv(p)>>]
  ELSE [list |-> list, i |-> i, at |-> "end", value |-> <<JobEnv(p)>>]

\* "add" at /spec/<list>/<i>/env with a list of one, or at .../env/- .
AddOp(p, list, i) ==
  IF p[list][i] = <<>>
  THEN [list |-> list, i |-> i, at |-> "env", value |-> <<JobEnv(p)>>]
  ELSE [list |-> list, i |-> i, at |-> "end", value |-> JobEnv(p)]

\* The operations that the loop over a list has made after n containers.
OpsUpTo(p, list) ==
  LET ops[n \in 0..Len(p[list])] ==
        IF n = 0 THEN <<>>
        ELSE IF HasEnv(p[list][n], JobVar) THEN ops[n - 1]
        ELSE Append(ops[n - 1], AddOp(p, list, n))
  IN  ops

OpsFor(p, list) == OpsUpTo(p, list)[Len(p[list])]

CreatePatches(p) ==
  IF p.jobid = NoJobId THEN <<>>
  ELSE OpsFor(p, "containers") \o OpsFor(p, "initContainers")

-----------------------------------------------------------------------------
(***************************************************************************)
(* The API server                                                          *)
(***************************************************************************)
\* It refuses only a pod that does not unmarshal, and the API server sends none.
HandleMutate ==
  /\ stage = "before"
  /\ sent' = pod /\ patch' = CreatePatches(pod) /\ stage' = "patching"
  /\ UNCHANGED <<pod, changes, submits>>

\* The webhook cannot be reached, cannot read the body or is too slow:
\* failurePolicy Ignore lets the pod pass as it is.
CallFails ==
  /\ stage = "before"
  /\ stage' = "after"
  /\ UNCHANGED <<pod, sent, patch, changes, submits>>

\* RFC 6902: "add" needs the containing object; an existing member is
\* replaced, and "-" is the place behind the last element.
Applicable(op) ==
  /\ op.i \in DOMAIN pod[op.list]
  /\ op.at = "end" => pod[op.list][op.i] # <<>>

ApplyOp ==
  /\ stage = "patching" /\ patch # <<>>
  /\ LET op == Head(patch) IN
       IF Applicable(op)
       THEN /\ pod' = [pod EXCEPT ![op.list][op.i] =
                         IF op.at = "env" THEN op.value ELSE Append(@, op.value)]
            /\ patch' = Tail(patch) /\ UNCHANGED stage
       ELSE stage' = "refused" /\ UNCHANGED <<pod, patch>>
  /\ UNCHANGED <<sent, changes, submits>>

Patched ==
  /\ stage = "patching" /\ patch = <<>>
  /\ stage' = "after"
  /\ UNCHANGED <<pod, sent, patch, changes, submits>>

\* Another webhook adds a sidecar, or a variable to a container.
OtherWebhook ==
  /\ stage \in {"before", "after"} /\ changes < MaxForeign
  /\ \E list \in Lists, e \in Foreign :
       \/ pod' = [pod EXCEPT ![list] = Append(@, <<e>>)]
       \/ \E i \in DOMAIN pod[list] : pod' = [pod EXCEPT ![list][i] = Append(@, e)]
  /\ changes' = changes + 1
  /\ UNCHANGED <<sent, patch, stage, submits>>

\* The pod is saved and created again, perhaps with another job id.
Resubmit(id) ==
  /\ stage = "after" /\ submits < MaxSubmits
  /\ id = pod.jobid \/ changes < MaxForeign
  /\ changes' = IF id = pod.jobid THEN changes ELSE changes + 1
  /\ pod' = [pod EXCEPT !.jobid = id]
  /\ sent' = None /\ stage' = "before" /\ submits' = submits + 1
  /\ UNCHANGED patch

Next ==
  \/ HandleMutate \/ CallFails \/ ApplyOp \/ Patched \/ OtherWebhook
  \/ \E id \in JobIds \cup {NoJobId} : Resubmit(id)

Spec == Init /\ [][Next]_vars

-----------------------------------------------------------------------------
(***************************************************************************)
(* Properties.                                                             *)
(***************************************************************************)
\* A pod stays a pod: every entry of every environment is a name and a value.
TypeOK ==
  /\ stage \in {"before", "patching", "after", "refused"}
  /\ \A list \in Lists : \A i \in DOMAIN pod[list] : \A k \in DOMAIN pod[list][i] :
       DOMAIN pod[list][i][k] = {"name", "value"}
  /\ pod \in Pods /\ sent \in Pods \cup {None}
  /\ changes \in Nat /\ submits \in Nat

\* The API server can apply every operation of the answer, whatever the
\* operations before it did: no pod is refused on account of the webhook, also
\* if its containers have no env member (webhook.go:63-96).
PatchApplies == stage # "refused"

\* What a user or another webhook put into a container stays, in its order
\* and in front: no step of the API server's patching loses a variable
\* (webhook.go:64-74).
EnvOnlyGrows ==
  [][\A list \in Lists : \A i \in DOMAIN pod[list] :
       IsPrefix(pod[list][i], pod'[list][i])]_vars

\* The environment a container is to have, by definition: as it was sent,
\* with the job id behind it when it had none of its own.
Wanted(p, list, i) ==
  IF p.jobid = NoJobId \/ \E e \in Range(p[list][i]) : e.name = JobVar
  THEN p[list][i] ELSE p[list][i] \o <<JobEnv(p)>>

\* The entries of an environment that set the variable, each at its place.
JobEntries(envs) == [k \in {k \in DOMAIN envs : envs[k].name = JobVar} |-> envs[k]]

\* When the answer has been applied every container and init container of the
\* pod that was sent has the job id, and has it once unless the user set it
\* twice, however often the pod was submitted (webhook.go:52-100).
EveryContainerNamed ==
  stage = "after" /\ sent # None =>
    \A list \in Lists : \A i \in DOMAIN sent[list] :
      /\ IsPrefix(Wanted(sent, list, i), pod[list][i])
      /\ JobEntries(pod[list][i]) = JobEntries(Wanted(sent, list, i))

\* The webhook's work is done after one answer: sent the pod again, as a
\* reinvocation or a second submission would, it asks for nothing for the
\* containers it has seen (webhook.go:65-67, 83-85).
Idempotent ==
  stage = "after" /\ sent # None /\ sent.jobid # NoJobId =>
    \A k \in DOMAIN CreatePatches(pod) :
      LET op == CreatePatches(pod)[k] IN op.i \notin DOMAIN sent[op.list]
=============================================================================
