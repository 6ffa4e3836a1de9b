---------------------------- MODULE AimReconciler ----------------------------
(***************************************************************************)
(* The CiscoAciAim controller against the Kubernetes API.                  *)
(*                                                                         *)
(* Each kind of object the operator writes is a watch stream: a non-empty  *)
(* sequence of versions whose last element is the live object in the API   *)
(* server and whose first element is what the informer cache of the        *)
(* manager holds.  A write appends a version, the delivery of a watch      *)
(* event (a Sync action) drops the first one.  The manager's client reads  *)
(* the first element and writes against the last one, so every read of the *)
(* controller may be stale.                                                *)
(*                                                                         *)
(* Reconcile runs on one worker and is cut at its API calls: pc names the  *)
(* function that runs next and r holds the local variables that survive    *)
(* from one step to the next.  Between two steps anything else may happen. *)
(***************************************************************************)
EXTENDS AimObjects, FiniteSets

CONSTANTS
    NoKey,            \* a secret that exists without the key the code reads
    Vals,             \* values of secret keys and of the Neutron objects
    Specs,            \* the specs a user writes
    InitSpecs,        \* the spec the resource has at the start, None: no resource
    InitSts,          \* the StatefulSet spec found at the start, None: none
    InitSecrets,      \* the secrets at the start
    InitNeutron,      \* the Neutron objects at the start, None: not all there
    InputWrites,      \* the writes other operators make to the inputs
    Ordinals,         \* the pod ordinals whose claims are followed
    ClusterDefault,   \* the class a claim without a class gets
    Namespace,        \* the namespace of the resource
    DatabaseAccount,  \* NeutronAPI.Spec.DatabaseAccount
    Deletes,          \* whether a user deletes the resource or the StatefulSet
    MaxOrphans,       \* bound on versions collected while the cached resource is stale
    MaxEdits,         \* bound on the writes of users and other operators
    MaxFaults         \* bound on failed calls, lost replies and restarts

VARIABLES
    cr,        \* stream of the CiscoAciAim resource
    sts,       \* stream of the StatefulSet
    cm,        \* stream of the ConfigMap <name>-config
    claims,    \* stream of the persistent volume claims with label app=<name>
    secrets,   \* stream of the secrets of the namespace
    neutron,   \* NeutronAPI, MariaDBDatabase, MariaDBAccount and TransportURL
    rev,       \* last resource version handed out, per kind
    queued,    \* the workqueue holds a request for the resource
    pc,        \* the next step of the running Reconcile, "idle" if none runs
    r,         \* its local variables
    edits,     \* writes of users and other operators so far
    faults     \* faults so far

vars == <<cr, sts, cm, claims, secrets, neutron, rev, queued, pc, r, edits, faults>>

-------------------------------------------------------------------------------
(* Types *)

Conditions == {"DBReady", "RabbitMQReady", "AimReady"}

\* The retained claim <name>-log-pvc of releases before per-pod claims has the
\* label of the others, and not their name prefix.
LegacyClaim == -1
ClaimKeys == Ordinals \cup {LegacyClaim}

SecretKeys == {"db", "bus", "dhcp", "rootca"}
Inputs == SecretKeys \cup {"neutron"}
SecretValues == Vals \cup {None, NoKey}

DbConns == [host : Vals, password : Vals]
Files == [conf : Confs, db : DbConns, bus : Vals \cup {""},
          rabbit : Vals \cup {"false"}, logToDisk : BOOLEAN]
Mounts == SUBSET {"config_volume", "config_kolla", "rabbitmq_ca", "init_script_volume", "aim_logs"}
StsSpecs == [replicas : Nat, podManagementPolicy : {"OrderedReady", "Parallel"},
             template : [pod : Pods, checksum : [sha256 : Files], mounts : Mounts],
             vct : Seq(Templates),
             strategy : {"RollingUpdate"}, retention : {"Retain"}]

CRs == [uid : Nat, rv : Nat, spec : SpecType, conds : SUBSET Conditions]
StatefulSets == [uid : Nat, rv : Nat, owner : Nat, spec : StsSpecs, term : BOOLEAN]
ConfigMaps == [rv : Nat, owner : Nat, data : Files]
CaSecrets == [rv : Nat, data : Vals]
Secrets == [db : SecretValues, bus : SecretValues, dhcp : SecretValues,
            rootca : SecretValues, ca : CaSecrets \cup {None}]
ClaimSets == [ClaimKeys -> Claims \cup {None}]

Calls == {"ensureDB", "ensureMessageBus", "generateConfigFiles", "ensureConfigMap",
          "ensureRabbitMQCaSecret", "ensureStatefulSet", "ensureLogPVCStorage",
          "applyStatefulSet", "updateStatus"}

ASSUME ReconcilerAssumption ==
    /\ Specs \subseteq SpecType
    /\ InitSpecs \subseteq SpecType \cup {None}
    /\ InitSts \subseteq StsSpecs \cup {None}
    /\ InitSecrets \in [db : SecretValues, bus : SecretValues, dhcp : SecretValues,
                        rootca : SecretValues, ca : {None}]
    /\ InitNeutron \in Vals \cup {None}
    /\ InputWrites \subseteq [input : Inputs, value : SecretValues]
    /\ \A w \in InputWrites : w.input = "neutron" => w.value # NoKey
    /\ Ordinals \subseteq Nat
    /\ ClusterDefault \in Classes
    /\ None \notin Vals \cup {NoKey}
    /\ None \notin CRs /\ None \notin StatefulSets
    /\ None \notin ConfigMaps /\ None \notin CaSecrets /\ None \notin Files
    /\ NoKey \notin Vals
    /\ Deletes \in BOOLEAN
    /\ MaxOrphans \in Nat
    /\ MaxEdits \in Nat
    /\ MaxFaults \in Nat

-------------------------------------------------------------------------------
(* The API server and the informer caches (external) *)

Live(stream) == stream[Len(stream)]
Cached(stream) == Head(stream)

\* A version number never used before for this kind; it also serves as uid.
NextRev(kind) == rev[kind] + 1
Bump(kind) == rev' = [rev EXCEPT ![kind] = NextRev(kind)]

\* The StatefulSet object goes; its claims stay unless the policy says Delete.
RemoveSts ==
    /\ sts' = Append(sts, None)
    /\ claims' = IF Live(sts).spec.retention = "Retain" THEN claims
                 ELSE Append(claims, [k \in ClaimKeys |->
                                        IF k = LegacyClaim THEN Live(claims)[k] ELSE None])

-------------------------------------------------------------------------------
(* The frame of Reconcile *)

\* The uid an object's controller reference names; NoOwner: it has none.
NoOwner == 0

\* Mutant: the owner reference is not set.
SetControllerReference_Missing(instance) == NoOwner

SetControllerReference(instance) == instance.uid

NoLocals == [inst |-> None, db |-> None, bus |-> None, files |-> None,
             found |-> None, listed |-> None, todo |-> {}]

Proceed(next, locals) == pc' = next /\ r' = locals /\ UNCHANGED queued

\* Reconcile returns an error or a RequeueAfter: the request comes back to the
\* queue after a delay, which is not modelled.
Requeue == pc' = "idle" /\ r' = NoLocals /\ queued' = TRUE

\* A call that was applied: its reply arrives, or it is lost and the code sees
\* an error.
Reply(next, locals) ==
    \/ Proceed(next, locals) /\ UNCHANGED faults
    \/ faults < MaxFaults /\ faults' = faults + 1 /\ Requeue

-------------------------------------------------------------------------------
(* The steps of Reconcile *)

\* Take the request and fetch the instance; a missing one is ignored.
FetchInstance ==
    /\ pc = "idle" /\ queued
    /\ queued' = FALSE
    /\ \/ Cached(cr) = None /\ UNCHANGED <<pc, r>>
       \/ Cached(cr) # None /\ pc' = "ensureDB" /\ r' = [NoLocals EXCEPT !.inst = Cached(cr)]
    /\ UNCHANGED <<cr, sts, cm, claims, secrets, neutron, rev, edits, faults>>

\* instance with a condition set to True; nothing ever sets one to False.
setCondition(instance, condType) == [instance EXCEPT !.conds = @ \cup {condType}]

\* Build the connection string from the Neutron objects and the account secret.
\* A missing object is an error, a missing password key asks for a retry in 10s.
ensureDB ==
    /\ pc = "ensureDB"
    /\ LET password == Cached(secrets).db
       IN  \/ (neutron = None \/ password \in {None, NoKey}) /\ Requeue
           \/ /\ neutron # None /\ password \notin {None, NoKey}
              /\ Proceed("ensureMessageBus",
                         [r EXCEPT !.inst = setCondition(@, "DBReady"),
                                   !.db = [host |-> neutron, password |-> password]])
    /\ UNCHANGED <<cr, sts, cm, claims, secrets, neutron, rev, edits, faults>>

\* Read the transport URL.  A missing key yields the empty string, no error and
\* no condition, and Reconcile goes on.
ensureMessageBus ==
    /\ pc = "ensureMessageBus"
    /\ LET url == Cached(secrets).bus
       IN  \/ (neutron = None \/ url = None) /\ Requeue
           \/ /\ neutron # None /\ url = NoKey
              /\ Proceed("generateConfigFiles", [r EXCEPT !.bus = ""])
           \/ /\ neutron # None /\ url \notin {None, NoKey}
              /\ Proceed("generateConfigFiles",
                         [r EXCEPT !.inst = setCondition(@, "RabbitMQReady"), !.bus = url])
    /\ UNCHANGED <<cr, sts, cm, claims, secrets, neutron, rev, edits, faults>>

\* The queue settings of the DHCP agent's configuration, or the defaults.
getNeutronRabbitConfig(secret) == IF secret \in {None, NoKey} THEN "false" ELSE secret

\* Mutant: the DHCP agent's settings come and go with the replies of the API.
RenderConfigFiles_Flaky ==
    /\ pc = "generateConfigFiles" /\ ~generateConfigFilesFails(r.inst.spec)
    /\ \E rabbit \in {getNeutronRabbitConfig(Cached(secrets).dhcp), "false"} :
          Proceed("ensureConfigMap",
                  [r EXCEPT !.files = generateConfigFiles(r.inst.spec, r.db, r.bus, rabbit),
                            !.db = None, !.bus = None])
    /\ UNCHANGED <<cr, sts, cm, claims, secrets, neutron, rev, edits, faults>>

RenderConfigFiles ==
    /\ pc = "generateConfigFiles"
    /\ \/ generateConfigFilesFails(r.inst.spec) /\ Requeue
       \/ /\ ~generateConfigFilesFails(r.inst.spec)
          /\ Proceed("ensureConfigMap",
                     [r EXCEPT !.files = generateConfigFiles(r.inst.spec, r.db, r.bus,
                                              getNeutronRabbitConfig(Cached(secrets).dhcp)),
                               !.db = None, !.bus = None])
    /\ UNCHANGED <<cr, sts, cm, claims, secrets, neutron, rev, edits, faults>>

\* Mutant: a ConfigMap that is found is never updated.
ensureConfigMap_CreateOnly ==
    /\ pc = "ensureConfigMap"
    /\ IF Cached(cm) = None /\ Live(cm) = None
       THEN cm' = Append(cm, [rv |-> NextRev("cm"), owner |-> r.inst.uid, data |-> r.files])
            /\ Bump("cm")
       ELSE UNCHANGED <<cm, rev>>
    /\ Proceed("ensureRabbitMQCaSecret", r)
    /\ UNCHANGED <<cr, sts, claims, secrets, neutron, edits, faults>>

\* Create the ConfigMap, or update it when the cached data differ.  The call
\* succeeds only against the version in the cache: Create finds nothing, Update
\* finds the resource version it read.  The owner of a found ConfigMap stays.
ensureConfigMap ==
    /\ pc = "ensureConfigMap"
    /\ LET found == Cached(cm)
           same == found # None /\ found.data = r.files
           owner == IF found = None THEN SetControllerReference(r.inst) ELSE found.owner
       IN  \/ /\ same
              /\ Proceed("ensureRabbitMQCaSecret", r)
              /\ UNCHANGED <<cm, rev, faults>>
           \/ /\ ~same /\ found = Live(cm)
              /\ cm' = Append(cm, [rv |-> NextRev("cm"), owner |-> owner, data |-> r.files])
              /\ Bump("cm")
              /\ Reply("ensureRabbitMQCaSecret", r)
           \/ /\ ~same /\ found # Live(cm)
              /\ Requeue
              /\ UNCHANGED <<cm, rev, faults>>
    /\ UNCHANGED <<cr, sts, claims, secrets, neutron, edits>>

\* Mutant: the step is skipped.
ensureRabbitMQCaSecret_Skipped ==
    /\ pc = "ensureRabbitMQCaSecret" /\ Proceed("ensureStatefulSet", r)
    /\ UNCHANGED <<cr, sts, cm, claims, secrets, neutron, rev, edits, faults>>

\* Copy ca.crt of rootca-internal into rabbitmq-ca-secret.
ensureRabbitMQCaSecret ==
    /\ pc = "ensureRabbitMQCaSecret"
    /\ LET caCrt == Cached(secrets).rootca
           existing == Cached(secrets).ca
           same == existing # None /\ existing.data = caCrt
       IN  \/ /\ caCrt \in {None, NoKey}
              /\ Requeue
              /\ UNCHANGED <<secrets, rev, faults>>
           \/ /\ caCrt \notin {None, NoKey} /\ same
              /\ Proceed("ensureStatefulSet", r)
              /\ UNCHANGED <<secrets, rev, faults>>
           \/ /\ caCrt \notin {None, NoKey} /\ ~same
              /\ existing = Live(secrets).ca
              /\ secrets' = Append(secrets, [Live(secrets) EXCEPT
                                               !.ca = [rv |-> NextRev("ca"), data |-> caCrt]])
              /\ Bump("ca")
              /\ Reply("ensureStatefulSet", r)
           \/ /\ caCrt \notin {None, NoKey} /\ ~same
              /\ existing # Live(secrets).ca
              /\ Requeue
              /\ UNCHANGED <<secrets, rev, faults>>
    /\ UNCHANGED <<cr, sts, cm, claims, neutron, edits>>

Desired == StatefulSet(r.inst.spec, GenerateConfigMapChecksum(r.files))

\* The first half of ensureStatefulSet: build the object; create it when the
\* cache holds none; otherwise refuse a change of storage class and list the
\* claims with the prefix aim-logs-<name>-.
ensureStatefulSet ==
    /\ pc = "ensureStatefulSet"
    /\ LET found == Cached(sts)
           spec == r.inst.spec
           valid == validateVolumeClaimTemplateStorageClassChange(found.spec.vct, Desired.vct)
           listed == IF spec.log = None THEN {}
                     ELSE {k \in Ordinals : Cached(claims)[k] # None}
       IN  \/ /\ StatefulSetFails(spec)
              /\ Requeue
              /\ UNCHANGED <<sts, rev, faults>>
           \/ /\ ~StatefulSetFails(spec) /\ found = None /\ Live(sts) = None
              /\ sts' = Append(sts, [uid |-> NextRev("sts"), rv |-> NextRev("sts"),
                                     owner |-> SetControllerReference(r.inst),
                                     spec |-> Defaulted(Desired),
                                     term |-> FALSE])
              /\ Bump("sts")
              /\ Reply("updateStatus", [NoLocals EXCEPT !.inst = r.inst])
           \/ /\ ~StatefulSetFails(spec)
              /\ IF found = None THEN Live(sts) # None ELSE ~valid
              /\ Requeue
              /\ UNCHANGED <<sts, rev, faults>>
           \/ /\ ~StatefulSetFails(spec) /\ found # None /\ valid
              /\ Proceed(IF listed = {} THEN "applyStatefulSet" ELSE "ensureLogPVCStorage",
                         [r EXCEPT !.found = found, !.todo = listed,
                                   !.listed = IF listed = {} THEN None ELSE Cached(claims)])
              /\ UNCHANGED <<sts, rev, faults>>
    /\ UNCHANGED <<cr, cm, claims, secrets, neutron, edits>>

\* One turn of the loop over the listed claims, whose order is arbitrary.
ensureLogPVCStorage ==
    /\ pc = "ensureLogPVCStorage"
    /\ \E k \in r.todo :
         LET claim == r.listed[k]
             log == r.inst.spec.log
             verdict == prepareLogPVCResize(claim, log.size, log.class)
             rest == r.todo \ {k}
             next == IF rest = {} THEN "applyStatefulSet" ELSE "ensureLogPVCStorage"
             locals == [r EXCEPT !.todo = rest,
                                 !.listed = IF rest = {} THEN None ELSE @]
         IN  \/ /\ verdict = "unchanged"
                /\ Proceed(next, locals)
                /\ UNCHANGED <<claims, faults>>
             \/ /\ verdict = "changed" /\ Live(claims)[k] = claim
                /\ claims' = Append(claims, [Live(claims) EXCEPT ![k].size = log.size])
                /\ Reply(next, locals)
             \/ /\ verdict = "error" \/ (verdict = "changed" /\ Live(claims)[k] # claim)
                /\ Requeue
                /\ UNCHANGED <<claims, faults>>
    /\ UNCHANGED <<cr, sts, cm, secrets, neutron, rev, edits>>

\* Mutant: the replacement is created right after the deletion.
DeleteFound_ThenCreate(found) ==
    /\ Live(sts) # None
    /\ sts' = sts \o <<None, [found EXCEPT !.uid = NextRev("sts"), !.rv = NextRev("sts"),
                                          !.spec = Defaulted(Desired)]>>
    /\ Bump("sts") /\ UNCHANGED claims

\* Delete by name: whatever version is live goes, nothing to delete is no error,
\* and an object that is already being deleted is left to finish.
DeleteFound(found) ==
    /\ IF ~found.term /\ Live(sts) # None /\ ~Live(sts).term
       THEN RemoveSts ELSE UNCHANGED <<sts, claims>>
    /\ UNCHANGED rev

\* The second half of ensureStatefulSet: delete the object when an immutable
\* field changes and come back a second later; otherwise update it.  The update
\* is refused unless the live object is the version that was found.
applyStatefulSet ==
    /\ pc = "applyStatefulSet"
    /\ LET found == r.found
           recreate == statefulSetRequiresRecreation(found.spec, Desired)
           updated == Defaulted(UpdatedStatefulSet(found.spec, Desired))
       IN  \/ /\ recreate
              /\ DeleteFound(found)
              /\ Requeue
              /\ UNCHANGED faults
           \/ /\ ~recreate /\ Live(sts) = found
              /\ IF updated = found.spec THEN UNCHANGED <<sts, rev>>
                 ELSE sts' = Append(sts, [found EXCEPT !.rv = NextRev("sts"), !.spec = updated])
                      /\ Bump("sts")
              /\ Reply("updateStatus", [NoLocals EXCEPT !.inst = r.inst])
              /\ UNCHANGED claims
           \/ /\ ~recreate /\ Live(sts) # found
              /\ Requeue
              /\ UNCHANGED <<sts, claims, rev, faults>>
    /\ UNCHANGED <<cr, cm, secrets, neutron, edits>>

\* Mutant: conditions get a new transition time on every Reconcile.
StatusChanged_Always(live, instance) == TRUE

\* SetStatusCondition leaves a condition alone that is already True.
StatusChanged(live, instance) == live.conds # instance.conds

\* Mutant: the status is written without its resource version.
SameVersion_Unchecked(live, instance) == live # None

\* The update is refused unless the resource is the version that was fetched.
SameVersion(live, instance) == live # None /\ live.rv = instance.rv

\* Set AimReady and write the conditions to the status subresource; an update
\* that changes nothing leaves the resource version alone.
updateStatus ==
    /\ pc = "updateStatus"
    /\ LET instance == setCondition(r.inst, "AimReady")
           live == Live(cr)
       IN  \/ /\ SameVersion(live, instance)
              /\ IF StatusChanged(live, instance)
                 THEN cr' = Append(cr, [live EXCEPT !.rv = NextRev("cr"),
                                                    !.conds = instance.conds])
                      /\ Bump("cr")
                 ELSE UNCHANGED <<cr, rev>>
              /\ Reply("idle", NoLocals)
           \/ /\ ~SameVersion(live, instance)
              /\ Requeue
              /\ UNCHANGED <<cr, rev, faults>>
    /\ UNCHANGED <<sts, cm, claims, secrets, neutron, edits>>

Reconcile ==
    \/ FetchInstance \/ ensureDB \/ ensureMessageBus \/ RenderConfigFiles
    \/ ensureConfigMap \/ ensureRabbitMQCaSecret \/ ensureStatefulSet
    \/ ensureLogPVCStorage \/ applyStatefulSet \/ updateStatus

-------------------------------------------------------------------------------
(* Watch events: what SetupWithManager subscribes to *)

mapMariaDBSecretToCiscoAciAim(old, new) ==
    Namespace = "openstack" /\ DatabaseAccount = "neutron" /\ old.db # new.db

mapRabbitMQSecretToCiscoAciAim(old, new) == Namespace = "openstack" /\ old.bus # new.bus

\* Mutant: the map function waits for a secret of another name.
mapNeutronConfigSecretToCiscoAciAim_OtherName(old, new) == FALSE

mapNeutronConfigSecretToCiscoAciAim(old, new) == Namespace = "openstack" /\ old.dhcp # new.dhcp

\* A secret event enqueues the resource if a map function knows the secret and
\* the cache already lists the resource.
SecretEvent(old, new) ==
    /\ Cached(cr) # None
    /\ \/ mapMariaDBSecretToCiscoAciAim(old, new)
       \/ mapRabbitMQSecretToCiscoAciAim(old, new)
       \/ mapNeutronConfigSecretToCiscoAciAim(old, new)

\* For(CiscoAciAim): every event of the resource, its own status included.
SyncCr ==
    /\ Len(cr) > 1 /\ cr' = Tail(cr) /\ queued' = TRUE
    /\ UNCHANGED <<sts, cm, claims, secrets, neutron, rev, pc, r, edits, faults>>

\* Owns(StatefulSet): the owner reference leads back to the resource.
SyncSts ==
    /\ Len(sts) > 1 /\ sts' = Tail(sts) /\ queued' = TRUE
    /\ UNCHANGED <<cr, cm, claims, secrets, neutron, rev, pc, r, edits, faults>>

SyncSecrets ==
    /\ Len(secrets) > 1 /\ secrets' = Tail(secrets)
    /\ queued' = (queued \/ SecretEvent(secrets[1], secrets[2]))
    /\ UNCHANGED <<cr, sts, cm, claims, neutron, rev, pc, r, edits, faults>>

\* Neither ConfigMaps nor claims are watched: their caches fill silently.
SyncCm ==
    /\ Len(cm) > 1 /\ cm' = Tail(cm)
    /\ UNCHANGED <<cr, sts, claims, secrets, neutron, rev, queued, pc, r, edits, faults>>

SyncClaims ==
    /\ Len(claims) > 1 /\ claims' = Tail(claims)
    /\ UNCHANGED <<cr, sts, cm, secrets, neutron, rev, queued, pc, r, edits, faults>>

\* The informers' periodic resync (10 hours by default) replays the cache.
Resync ==
    /\ Cached(cr) # None /\ ~queued /\ queued' = TRUE
    /\ UNCHANGED <<cr, sts, cm, claims, secrets, neutron, rev, pc, r, edits, faults>>

-------------------------------------------------------------------------------
(* Faults *)

\* A call of the running Reconcile fails and is not applied.
CallFails ==
    /\ faults < MaxFaults /\ faults' = faults + 1
    /\ pc \in Calls \ {"generateConfigFiles"}
    /\ Requeue
    /\ UNCHANGED <<cr, sts, cm, claims, secrets, neutron, rev, edits>>

\* The manager restarts: Reconcile is cut short, the caches are read anew, and
\* the initial list of resources and StatefulSets enqueues the request.
Restart ==
    /\ faults < MaxFaults /\ faults' = faults + 1
    /\ cr' = <<Live(cr)>> /\ sts' = <<Live(sts)>> /\ cm' = <<Live(cm)>>
    /\ claims' = <<Live(claims)>> /\ secrets' = <<Live(secrets)>>
    /\ pc' = "idle" /\ r' = NoLocals
    /\ queued' = (Live(cr) # None \/ Live(sts) # None)
    /\ UNCHANGED <<neutron, rev, edits>>

-------------------------------------------------------------------------------
(* Users, other operators and the other controllers (external) *)

Edit == edits < MaxEdits /\ edits' = edits + 1

UserCreatesCr ==
    /\ Edit /\ Live(cr) = None
    /\ \E spec \in Specs :
          cr' = Append(cr, [uid |-> NextRev("cr"), rv |-> NextRev("cr"), spec |-> spec,
                            conds |-> {}])
    /\ Bump("cr")
    /\ UNCHANGED <<sts, cm, claims, secrets, neutron, queued, pc, r, faults>>

UserEditsCr ==
    /\ Edit /\ Live(cr) # None
    /\ \E spec \in Specs \ {Live(cr).spec} :
          cr' = Append(cr, [Live(cr) EXCEPT !.rv = NextRev("cr"), !.spec = spec])
    /\ Bump("cr")
    /\ UNCHANGED <<sts, cm, claims, secrets, neutron, queued, pc, r, faults>>

UserDeletesCr ==
    /\ Deletes /\ Edit /\ Live(cr) # None
    /\ cr' = Append(cr, None)
    /\ UNCHANGED <<sts, cm, claims, secrets, neutron, rev, queued, pc, r, faults>>

\* Deletion in the foreground: the object stays until its pods are gone.
UserDeletesSts ==
    /\ Deletes /\ Edit /\ Live(sts) # None /\ ~Live(sts).term
    /\ sts' = Append(sts, [Live(sts) EXCEPT !.rv = NextRev("sts"), !.term = TRUE])
    /\ Bump("sts")
    /\ UNCHANGED <<cr, cm, claims, secrets, neutron, queued, pc, r, faults>>

\* Another operator creates, rotates, empties or removes an input.
InputChanges ==
    /\ Edit
    /\ \E w \in InputWrites :
          \/ /\ w.input = "neutron" /\ w.value # neutron
             /\ neutron' = w.value /\ UNCHANGED secrets
          \/ /\ w.input # "neutron" /\ w.value # Live(secrets)[w.input]
             /\ secrets' = Append(secrets, [Live(secrets) EXCEPT ![w.input] = w.value])
             /\ UNCHANGED neutron
    /\ UNCHANGED <<cr, sts, cm, claims, rev, queued, pc, r, faults>>

\* As long as the cache still shows a deleted resource, the operator creates its
\* objects anew after each collection.  That loop ends with the watch event, and
\* the bound only keeps it from running on before.
MayCollect(kind) == Len(cr) = 1 \/ rev[kind] <= MaxOrphans

Orphan(object) ==
    /\ object # None /\ object.owner # NoOwner
    /\ Live(cr) # None => object.owner # Live(cr).uid

\* The garbage collector removes what a deleted resource owned.
GarbageCollectSts ==
    /\ Orphan(Live(sts)) /\ MayCollect("sts") /\ RemoveSts
    /\ UNCHANGED <<cr, cm, secrets, neutron, rev, queued, pc, r, edits, faults>>

GarbageCollectCm ==
    /\ Orphan(Live(cm)) /\ MayCollect("cm") /\ cm' = Append(cm, None)
    /\ UNCHANGED <<cr, sts, claims, secrets, neutron, rev, queued, pc, r, edits, faults>>

StsFinalized ==
    /\ Live(sts) # None /\ Live(sts).term /\ RemoveSts
    /\ UNCHANGED <<cr, cm, secrets, neutron, rev, queued, pc, r, edits, faults>>

\* The StatefulSet controller provisions the claim of a pod that has none.
StsCreatesClaim ==
    /\ Live(sts) # None /\ ~Live(sts).term /\ Live(sts).spec.vct # <<>>
    /\ \E k \in Ordinals :
          LET t == Live(sts).spec.vct[1]
          IN  /\ k < Live(sts).spec.replicas /\ Live(claims)[k] = None
              /\ claims' = Append(claims, [Live(claims) EXCEPT ![k] =
                             [size |-> t.size,
                              class |-> IF t.class = None THEN ClusterDefault ELSE t.class]])
    /\ UNCHANGED <<cr, sts, cm, secrets, neutron, rev, queued, pc, r, edits, faults>>

-------------------------------------------------------------------------------
(* The specification *)

Init ==
    /\ edits = 0 /\ faults = 0
    /\ pc = "idle" /\ r = NoLocals
    /\ rev = [kind \in {"cr", "sts", "cm", "ca"} |-> 1]
    /\ secrets = <<InitSecrets>>
    /\ neutron = InitNeutron
    /\ \E spec \in InitSpecs :
          /\ cr = <<IF spec = None THEN None
                    ELSE [uid |-> 1, rv |-> 1, spec |-> spec, conds |-> {}]>>
          /\ \E s \in IF spec = None THEN {None} ELSE InitSts :
                /\ sts = <<IF s = None THEN None
                           ELSE [uid |-> 1, rv |-> 1, owner |-> 1, spec |-> s, term |-> FALSE]>>
                /\ cm = <<IF s = None THEN None
                          ELSE [rv |-> 1, owner |-> 1, data |-> s.template.checksum.sha256]>>
          /\ queued = (spec # None)
    /\ claims = <<[k \in ClaimKeys |-> IF k = LegacyClaim
                                       THEN [size |-> 1, class |-> ClusterDefault] ELSE None]>>

Environment ==
    \/ UserCreatesCr \/ UserEditsCr \/ UserDeletesCr \/ UserDeletesSts \/ InputChanges
    \/ CallFails \/ Restart

Cluster == GarbageCollectSts \/ GarbageCollectCm \/ StsFinalized \/ StsCreatesClaim

Next ==
    \/ Reconcile
    \/ SyncCr \/ SyncSts \/ SyncCm \/ SyncClaims \/ SyncSecrets \/ Resync
    \/ Cluster \/ Environment

Spec == Init /\ [][Next]_vars

\* The worker takes its next step, events are delivered, the cluster's own
\* controllers act.  Users, other operators and faults are never obliged to.
Fairness ==
    /\ WF_vars(Reconcile)
    /\ WF_vars(SyncCr) /\ WF_vars(SyncSts) /\ WF_vars(SyncCm)
    /\ WF_vars(SyncClaims) /\ WF_vars(SyncSecrets)
    /\ WF_vars(GarbageCollectSts) /\ WF_vars(GarbageCollectCm)
    /\ WF_vars(StsFinalized) /\ WF_vars(StsCreatesClaim)

\* Only watch events drive the operator: what happens within the 10 hours.
WatchSpec == Spec /\ Fairness

\* The resync fires again and again.
FairSpec == Spec /\ Fairness /\ WF_vars(Resync)

-------------------------------------------------------------------------------
(* Properties *)

Locals == [inst : CRs \cup {None}, db : DbConns \cup {None}, bus : Vals \cup {"", None},
           files : Files \cup {None}, found : StatefulSets \cup {None},
           listed : ClaimSets \cup {None}, todo : SUBSET Ordinals]

\* Type correctness of the streams, the queue and the locals of Reconcile.
TypeOK ==
    /\ cr \in Seq(CRs \cup {None}) /\ cr # <<>>
    /\ sts \in Seq(StatefulSets \cup {None}) /\ sts # <<>>
    /\ cm \in Seq(ConfigMaps \cup {None}) /\ cm # <<>>
    /\ claims \in Seq(ClaimSets) /\ claims # <<>>
    /\ secrets \in Seq(Secrets) /\ secrets # <<>>
    /\ neutron \in Vals \cup {None}
    /\ rev \in [{"cr", "sts", "cm", "ca"} -> Nat]
    /\ queued \in BOOLEAN
    /\ pc \in Calls \cup {"idle"}
    /\ r \in Locals
    /\ edits \in 0..MaxEdits
    /\ faults \in 0..MaxFaults

GrowingClaims ==
    \A k \in ClaimKeys : Live(claims)[k] # None =>
       LET old == Live(claims)[k]
           new == Live(claims')[k]
       IN  /\ new # None
           /\ new.class = old.class
           /\ new.size >= old.size
           /\ k = LegacyClaim => new = old

\* No log claim is ever lost, shrunk or moved to another class by the operator,
\* whatever the recreations of the StatefulSet, the stale lists of claims and
\* the failed calls; the claim of earlier releases is not touched at all.
\* (ensureLogPVCStorage, the retention policy of the builder)
ClaimsOnlyGrow == [][GrowingClaims]_vars

DeletedWasExamined ==
    (/\ pc = "applyStatefulSet" /\ pc' # pc /\ Live(sts) # None
     /\ Live(sts') = None \/ Live(sts').uid # Live(sts).uid)
       => Live(sts).uid = r.found.uid

\* Delete names no version, and still the StatefulSet it removes is the very
\* object that ensureStatefulSet fetched and compared, unless someone else
\* deletes objects as well.
DeletesOnlyExamined == [][DeletedWasExamined]_vars

\* A StatefulSet created by this operator never exists without the ConfigMap and
\* the CA secret its pods mount.  (order of steps 4, 5 and 6 of Reconcile)
MountsExist ==
    Live(sts) # None /\ Live(sts).uid > 1
        => Live(cm) # None /\ Live(secrets).ca # None

\* A ConfigMap that ensureConfigMap leaves alone because the cached data match is
\* live with the same data, however far the cache is behind, as long as no input
\* returns to a value it had before.
FreshMatch ==
    pc = "ensureConfigMap" /\ Cached(cm) # None /\ Cached(cm).data = r.files
       => Live(cm) # None /\ Live(cm).data = r.files

\* have is what the builder makes of spec, up to the requested sizes in the claim
\* templates and the checksum.
BuiltFrom(have, spec) ==
    LET want == Defaulted(StatefulSet(spec, have.template.checksum))
    IN  /\ have.replicas = want.replicas
        /\ have.podManagementPolicy = want.podManagementPolicy
        /\ have.template = want.template
        /\ volumeClaimTemplatesEqual(have.vct, want.vct)

\* A status is written only next to a spec that the StatefulSet has, although the
\* user may edit the resource at any moment of the Reconcile that writes it.
StatusFollowsStatefulSet ==
    [][LET old == Live(cr)
           new == Live(cr')
       IN  old # None /\ new # None /\ new.conds # old.conds
             => Live(sts) # None /\ BuiltFrom(Live(sts).spec, new.spec)]_vars

\* AimReady appears in the status only when the spec it stands next to has been
\* applied to the StatefulSet and the ConfigMap.
ReadyMeansApplied ==
    [][LET old == Live(cr)
           new == Live(cr')
       IN  old # None /\ new # None /\ "AimReady" \in new.conds \ old.conds
             => /\ Live(sts) # None /\ BuiltFrom(Live(sts).spec, new.spec)
                /\ Live(cm) # None /\ Live(cm).data.conf = new.spec.conf]_vars

\* The status update wakes the operator up again, and that Reconcile does not
\* write once more: at most two status writes per resource follow its creation,
\* one for each set of conditions.
StatusWritesBounded == rev["cr"] <= 1 + edits + 2 * (1 + edits)

\* The files that the live spec and the live inputs call for.
WantedFiles ==
    LET in == Live(secrets)
    IN  generateConfigFiles(Live(cr).spec, [host |-> neutron, password |-> in.db],
                            IF in.bus = NoKey THEN "" ELSE in.bus,
                            getNeutronRabbitConfig(in.dhcp))

\* The resource exists, its inputs are there, and nothing in it is refused.
Acceptable ==
    LET spec == Live(cr).spec
        in == Live(secrets)
    IN  /\ Live(cr) # None /\ neutron # None
        /\ in.db \in Vals /\ in.bus # None /\ in.rootca \in Vals
        /\ ~generateConfigFilesFails(spec) /\ ~StatefulSetFails(spec)
        /\ spec.log # None => \A k \in Ordinals : Live(claims)[k] # None =>
              prepareLogPVCResize(Live(claims)[k], spec.log.size, spec.log.class) # "error"
        /\ Live(sts) # None => validateVolumeClaimTemplateStorageClassChange(
                                  Live(sts).spec.vct, VolumeClaimTemplates(spec))

ConfigMapCurrent == Live(cm) # None /\ Live(cm).data = WantedFiles

StatefulSetCurrent ==
    LET spec == Live(cr).spec
        want == Defaulted(StatefulSet(spec, GenerateConfigMapChecksum(WantedFiles)))
    IN  /\ Live(sts) # None /\ ~Live(sts).term /\ Live(sts).owner = Live(cr).uid
        /\ [Live(sts).spec EXCEPT !.vct = <<>>] = [want EXCEPT !.vct = <<>>]
        /\ volumeClaimTemplatesEqual(Live(sts).spec.vct, want.vct)
        /\ spec.log # None => \A k \in Ordinals : k < want.replicas =>
              Live(claims)[k] # None /\ Live(claims)[k].size = spec.log.size

Realised ==
    /\ ConfigMapCurrent
    /\ Live(secrets).ca # None /\ Live(secrets).ca.data = Live(secrets).rootca
    /\ StatefulSetCurrent
    /\ "AimReady" \in Live(cr).conds

\* Once users, other operators and faults are quiet, an acceptable resource is
\* realised in full and stays so: files, CA, StatefulSet, sizes of the claims of
\* all pods (those created later from an outdated template too), status.
Convergence == <>[](Acceptable => Realised)

\* A rotated database, RabbitMQ or Neutron secret reaches the ConfigMap and the
\* pod template through watch events alone.
SecretsReachPods == <>[](Acceptable => ConfigMapCurrent /\ StatefulSetCurrent)

\* The ConfigMap is brought up to date by watch events alone.
ConfigMapUpToDate == <>[](Acceptable => ConfigMapCurrent)

\* AimReady ("Aim deployment is ready") is not reported for good next to a spec that
\* is not deployed.
ReadyMeansDeployed ==
    []<>(Live(cr) # None /\ "AimReady" \in Live(cr).conds => StatefulSetCurrent)

\* Nothing the resource owned outlives it, even when it is deleted in the middle
\* of a Reconcile that goes on creating objects for it.
Cleanup == <>[](Live(cr) = None => Live(sts) = None /\ Live(cm) = None)
===============================================================================
