-------------------------- MODULE MCClientInfoWatch --------------------------
(***************************************************************************)
(* The watch with the verbs on secrets that the manifests give.            *)
(***************************************************************************)
EXTENDS ClientInfoWatch

CONSTANTS p1, p2

\* deploy/kubernetes/controller.yml:49-51.
ControllerRole == {"get"}
=============================================================================
