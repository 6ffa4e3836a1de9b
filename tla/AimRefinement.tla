---------------------------- MODULE AimRefinement ----------------------------
(***************************************************************************)
(* The controller implements two abstract specifications: LogClaims for    *)
(* the storage and ConfigRollout for the configuration.  The abstract      *)
(* state is read off the live objects: caches, queue and the locals of     *)
(* Reconcile are invisible from outside.                                   *)
(***************************************************************************)
EXTENDS AimReconciler

Storage == INSTANCE LogClaims WITH claims <- Live(claims), Legacy <- LegacyClaim

Published == IF Live(cm) = None THEN None ELSE Live(cm).data

Rolled == IF Live(sts) = None THEN None ELSE Live(sts).spec.template.checksum.sha256

Rollout == INSTANCE ConfigRollout WITH published <- Published, rolled <- Rolled

\* The controller, with stale lists of claims, recreations of the StatefulSet,
\* lost replies and restarts, implements LogClaims: each of its steps leaves the
\* live claims alone, provisions one or grows one.
ImplementsLogClaims == Storage!Spec

\* Reconcile publishes before it rolls, on caches of any age and with writes that
\* fail or lose their reply: every change of the checksum annotation is to the
\* configuration the live ConfigMap holds, and no step changes both at once.
ImplementsConfigRollout == Rollout!Spec
===============================================================================
