------------------------------ MODULE AimObjects ------------------------------
(***************************************************************************)
(* The objects the operator builds from a CiscoAciAim resource: the        *)
(* rendered configuration files, their checksum, and the StatefulSet; and  *)
(* the comparison that decides whether a StatefulSet must be replaced.     *)
(*                                                                         *)
(* A CiscoAciAim spec is abstracted to four fields.  conf stands for every *)
(* field a template renders, pod for those that reach only the pod         *)
(* template (image, probe, secret references), replicas and log are        *)
(* themselves.                                                             *)
(***************************************************************************)
EXTENDS LogStorage

CONSTANTS Confs,          \* values of the rendered fields
          BadHostLinks,   \* those whose ACIHostLinks do not unmarshal
          Pods            \* values of the fields of the pod template only

ASSUME ConfAssumption == BadHostLinks \subseteq Confs

SpecType == [conf : Confs, pod : Pods, replicas : Nat \cup {None}, log : LogSpecs]

\* Whether generateConfigFiles returns an error.
generateConfigFilesFails(spec) == spec.conf \in BadHostLinks

\* The rendered files: every file is a function of these five inputs.
generateConfigFiles(spec, dbConn, busConn, rabbit) ==
    [conf |-> spec.conf, db |-> dbConn, bus |-> busConn, rabbit |-> rabbit,
     logToDisk |-> spec.log # None]

\* SHA-256 over the sorted files, taken to be injective.
GenerateConfigMapChecksum(files) == [sha256 |-> files]

\* Mutant: the error of ParseQuantity is ignored.
StatefulSetFails_Ignored(spec) == FALSE

\* Whether the StatefulSet builder returns an error: the size does not parse.
StatefulSetFails(spec) == spec.log # None /\ spec.log.size = Unparsable

\* The claim templates of the StatefulSet: none without log persistence.
VolumeClaimTemplates(spec) ==
    IF spec.log = None THEN <<>> ELSE <<LogVolumeClaimTemplate(spec.log)>>

\* The aim-logs mount comes with the claim template; the other mounts and
\* volumes follow conf, pod and the names of the ConfigMap and the CA secret.
GetVolumeMounts(spec) == {"config_volume", "config_kolla", "rabbitmq_ca", "init_script_volume"}
                            \cup (IF spec.log = None THEN {} ELSE {"aim_logs"})

\* Mutant: the claims go with the StatefulSet.
StatefulSet_DeletesClaims(spec, configMapChecksum) ==
    [replicas            |-> IF spec.replicas = None THEN 2 ELSE spec.replicas,
     podManagementPolicy |-> "OrderedReady",
     template            |-> [pod |-> spec.pod, checksum |-> configMapChecksum,
                              mounts |-> GetVolumeMounts(spec)],
     vct                 |-> VolumeClaimTemplates(spec),
     strategy            |-> None,
     retention           |-> IF spec.log = None THEN None ELSE "Delete"]

\* The StatefulSet the operator wants.  A field it leaves nil is None.
StatefulSet(spec, configMapChecksum) ==
    [replicas            |-> IF spec.replicas = None THEN 2 ELSE spec.replicas,
     podManagementPolicy |-> "OrderedReady",
     template            |-> [pod |-> spec.pod, checksum |-> configMapChecksum,
                              mounts |-> GetVolumeMounts(spec)],
     vct                 |-> VolumeClaimTemplates(spec),
     strategy            |-> None,
     retention           |-> IF spec.log = None THEN None ELSE "Retain"]

\* External: the API server fills in the fields a client left nil.
Defaulted(s) ==
    [replicas            |-> s.replicas,
     podManagementPolicy |-> s.podManagementPolicy,
     template            |-> s.template,
     vct                 |-> s.vct,
     strategy            |-> IF s.strategy = None THEN "RollingUpdate" ELSE s.strategy,
     retention           |-> IF s.retention = None THEN "Retain" ELSE s.retention]

\* Mutant: the claim templates are not compared.
statefulSetRequiresRecreation_PolicyOnly(current, desired) ==
    current.podManagementPolicy # desired.podManagementPolicy

\* A change of an immutable field.  The service name and the selector are both
\* the name of the resource and never differ between versions of one object.
statefulSetRequiresRecreation(current, desired) ==
    \/ current.podManagementPolicy # desired.podManagementPolicy
    \/ ~volumeClaimTemplatesEqual(current.vct, desired.vct)

\* Mutant: the number of replicas is not copied.
UpdatedStatefulSet_OldReplicas(found, desired) ==
    [found EXCEPT !.template = desired.template, !.strategy = desired.strategy,
                  !.retention = desired.retention]

\* The version of the found StatefulSet that ensureStatefulSet sends to Update:
\* the mutable fields are the desired ones, the immutable ones are kept.
UpdatedStatefulSet(found, desired) ==
    [replicas            |-> desired.replicas,
     podManagementPolicy |-> found.podManagementPolicy,
     template            |-> desired.template,
     vct                 |-> found.vct,
     strategy            |-> desired.strategy,
     retention           |-> desired.retention]
===============================================================================
