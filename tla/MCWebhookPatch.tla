---------------------------- MODULE MCWebhookPatch ---------------------------
(***************************************************************************)
(* Small instances of WebhookPatch: pods of one or two containers and at   *)
(* most one init container, whose environment is empty or names the job    *)
(* first, last, twice or not at all.                                       *)
(***************************************************************************)
EXTENDS WebhookPatch

CONSTANTS job, otherJob, mine, some, path

Own   == [name |-> JobVar, value |-> mine]
Plain == [name |-> path, value |-> some]

Environments == {<<>>, <<Plain>>, <<Plain, Own>>, <<Own, Plain>>, <<Own, Own>>}
SmallPods ==
  [jobid : {job, NoJobId},
   containers : {<<a>> : a \in Environments} \cup (Environments \X Environments),
   initContainers : {<<>>} \cup {<<a>> : a \in Environments}]

ForeignEnv == {Plain}
=============================================================================
