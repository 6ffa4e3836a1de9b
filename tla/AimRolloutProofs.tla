--------------------------- MODULE AimRolloutProofs ---------------------------
(***************************************************************************)
(* The order of the steps of Reconcile, as it shows in the live objects:   *)
(* ConfigMap and CA secret before the StatefulSet, the StatefulSet before  *)
(* the status, the configuration published before the pods are rolled to   *)
(* it.  Nobody but the operator deletes its objects here.  The last part   *)
(* shows when a ConfigMap that a stale cache takes for current is current. *)
(***************************************************************************)
EXTENDS AimHistoryProofs

-------------------------------------------------------------------------------
(* The invariants *)

\* The live resource owns every version of the ConfigMap.
CmOwned ==
    \A i \in 1..Len(cm) : cm[i] # None => Live(cr) # None /\ cm[i].owner = Live(cr).uid

\* The ConfigMap and the CA secret, once created, stay.
CmStays == \A i, j \in 1..Len(cm) : i <= j /\ cm[i] # None => cm[j] # None
CaStays == \A i, j \in 1..Len(secrets) : i <= j /\ secrets[i].ca # None => secrets[j].ca # None

AfterCa == {"ensureStatefulSet", "ensureLogPVCStorage", "applyStatefulSet", "updateStatus"}
AfterCm == {"ensureRabbitMQCaSecret"} \cup AfterCa

\* A Reconcile that has passed the ConfigMap and the CA secret leaves them behind.
Prepared ==
    /\ pc \in AfterCm => Live(cm) # None
    /\ pc \in AfterCa => Live(secrets).ca # None

\* A Reconcile that is about to report has brought the StatefulSet to its spec.
Applied == pc = "updateStatus" => Live(sts) # None /\ BuiltFrom(Live(sts).spec, r.inst.spec)

OrderInv == CmOwned /\ CmStays /\ CaStays /\ Prepared /\ MountsExist /\ Applied

\* What Reconcile rendered is what is published until it reports.
Current ==
    /\ pc \in {"ensureConfigMap"} \cup AfterCm => pc = "updateStatus" \/ r.files.conf = r.inst.spec.conf
    /\ pc \in AfterCm \ {"updateStatus"} => Live(cm).data = r.files
    /\ pc = "updateStatus" => Live(cm).data.conf = r.inst.spec.conf

-------------------------------------------------------------------------------
(* What the builders build *)

\* A StatefulSet that is created is built from the spec and carries the files.
LEMMA CreatedBuilt ==
    ASSUME NEW spec \in SpecType, NEW f \in Files
    PROVE  LET s == Defaulted(StatefulSet(spec, GenerateConfigMapChecksum(f)))
           IN  BuiltFrom(s, spec) /\ s.template.checksum.sha256 = f
  <1> DEFINE s == Defaulted(StatefulSet(spec, GenerateConfigMapChecksum(f)))
             v == VolumeClaimTemplates(spec)
  <1>1. volumeClaimTemplatesEqual(v, v)
    BY DEF volumeClaimTemplatesEqual
  <1>2. /\ s.vct = v /\ s.template.checksum = GenerateConfigMapChecksum(f)
        /\ s.template.checksum.sha256 = f
    BY DEF Defaulted, StatefulSet, GenerateConfigMapChecksum
  <1> QED
    BY <1>1, <1>2 DEF BuiltFrom, Defaulted, StatefulSet

\* So is one that is updated without being replaced.
LEMMA UpdatedBuilt ==
    ASSUME NEW old \in StsSpecs, NEW spec \in SpecType, NEW f \in Files,
           ~statefulSetRequiresRecreation(old, StatefulSet(spec, GenerateConfigMapChecksum(f)))
    PROVE  LET s == Defaulted(UpdatedStatefulSet(old,
                                StatefulSet(spec, GenerateConfigMapChecksum(f))))
           IN  BuiltFrom(s, spec) /\ s.template.checksum.sha256 = f
  <1> DEFINE d == StatefulSet(spec, GenerateConfigMapChecksum(f))
             s == Defaulted(UpdatedStatefulSet(old, d))
  <1>1. /\ old.podManagementPolicy = d.podManagementPolicy
        /\ volumeClaimTemplatesEqual(old.vct, d.vct)
    BY DEF statefulSetRequiresRecreation
  <1>2. /\ d.template = [pod |-> spec.pod, checksum |-> GenerateConfigMapChecksum(f),
                         mounts |-> GetVolumeMounts(spec)]
        /\ GenerateConfigMapChecksum(f).sha256 = f
    BY DEF StatefulSet, GenerateConfigMapChecksum
  <1>3. /\ s.replicas = d.replicas /\ s.podManagementPolicy = old.podManagementPolicy
        /\ s.template = d.template /\ s.vct = old.vct
    BY DEF Defaulted, UpdatedStatefulSet
  <1>4. LET want == Defaulted(StatefulSet(spec, s.template.checksum))
        IN  /\ want.replicas = d.replicas /\ want.podManagementPolicy = d.podManagementPolicy
            /\ want.template = d.template /\ want.vct = d.vct
    BY <1>2, <1>3 DEF Defaulted, StatefulSet
  <1> QED
    BY <1>1, <1>2, <1>3, <1>4 DEF BuiltFrom

-------------------------------------------------------------------------------
(* What a step does to the live objects *)

\* The StatefulSet stays, goes, or is written with the files and the spec that
\* Reconcile works on.
SetStep ==
    \/ Live(sts') = Live(sts)
    \/ Live(sts') = None /\ pc' = "idle" /\ UNCHANGED <<cr, cm, secrets>>
    \/ /\ pc \in {"ensureStatefulSet", "applyStatefulSet"} /\ UNCHANGED <<cr, cm, secrets>>
       /\ Live(sts') # None
       /\ Live(sts').spec.template.checksum.sha256 = r.files

\* Reconcile goes on to the status with a StatefulSet built from its instance.
Reports ==
    pc # "updateStatus" /\ pc' = "updateStatus"
       => /\ Live(sts') # None /\ BuiltFrom(Live(sts').spec, r.inst.spec)
          /\ pc \in {"ensureStatefulSet", "applyStatefulSet"}
          /\ UNCHANGED <<cr, cm, secrets>>

\* ensureStatefulSet writes what it built.
LEMMA CreateStep ==
    ASSUME TypeInv, ensureStatefulSet
    PROVE  SetStep /\ Reports
  <1> USE DEF TypeInv
  <1>1. /\ r.inst \in CRs /\ r.files \in Files /\ pc = "ensureStatefulSet"
        /\ UNCHANGED <<cr, cm, secrets>> /\ sts \in Seq(StatefulSets \cup {None}) /\ sts # <<>>
    BY DEF ensureStatefulSet, LocalsOK, TypeOK
  <1> DEFINE new == [uid |-> NextRev("sts"), rv |-> NextRev("sts"),
                     owner |-> SetControllerReference(r.inst),
                     spec |-> Defaulted(Desired), term |-> FALSE]
  <1>2. CASE UNCHANGED sts /\ pc' # "updateStatus"
    BY <1>2 DEF SetStep, Reports
  <1>3. CASE ~StatefulSetFails(r.inst.spec) /\ sts' = Append(sts, new)
    <2>1. r.inst.spec \in SpecType
      BY <1>1 DEF CRs
    <2>2. Defaulted(Desired) \in StsSpecs
      BY <1>1, <1>3, <2>1, BuiltType DEF Desired
    <2>3. /\ BuiltFrom(Defaulted(Desired), r.inst.spec)
          /\ Defaulted(Desired).template.checksum.sha256 = r.files
      BY <1>1, <2>1, CreatedBuilt DEF Desired
    <2>4. SetControllerReference(r.inst) \in Nat /\ NextRev("sts") \in Nat
      BY <1>1 DEF SetControllerReference, CRs, NextRev, TypeOK
    <2>5. new \in StatefulSets /\ new.spec = Defaulted(Desired)
      BY <2>2, <2>4 DEF StatefulSets
    <2> HIDE DEF new
    <2>6. Live(sts') = new /\ new # None
      BY <1>1, <1>3, <2>5, StreamAppend, ReconcilerAssumption
    <2> QED
      BY <1>1, <2>3, <2>5, <2>6 DEF SetStep, Reports
  <1>4. CASE Requeue /\ UNCHANGED sts
    BY <1>2, <1>4 DEF Requeue
  <1>5. CASE UNCHANGED sts /\ pc' \in {"ensureLogPVCStorage", "applyStatefulSet"}
    BY <1>2, <1>5
  <1> QED
    BY <1>3, <1>4, <1>5 DEF ensureStatefulSet, Proceed

\* applyStatefulSet deletes, or leaves an object built from the instance.
LEMMA UpdateStep ==
    ASSUME TypeInv, applyStatefulSet
    PROVE  SetStep /\ Reports
  <1> USE DEF TypeInv
  <1>1. /\ r.inst \in CRs /\ r.files \in Files /\ r.found \in StatefulSets
        /\ ~StatefulSetFails(r.inst.spec) /\ pc = "applyStatefulSet"
        /\ UNCHANGED <<cr, cm, secrets>> /\ sts \in Seq(StatefulSets \cup {None}) /\ sts # <<>>
    BY DEF applyStatefulSet, LocalsOK, TypeOK
  <1>2. CASE UNCHANGED sts /\ pc' # "updateStatus"
    BY <1>2 DEF SetStep, Reports
  <1>3. CASE DeleteFound(r.found) /\ Requeue
    <2>1. CASE RemoveSts
      <3>1. Live(sts') = None /\ pc' = "idle"
        BY <1>1, <1>3, <2>1, StreamAppend DEF RemoveSts, Requeue
      <3> QED
        BY <1>1, <3>1 DEF SetStep, Reports
    <2> QED
      BY <1>2, <1>3, <2>1 DEF DeleteFound, Requeue
  <1> DEFINE updated == Defaulted(UpdatedStatefulSet(r.found.spec, Desired))
             new == [r.found EXCEPT !.rv = NextRev("sts"), !.spec = updated]
  <1>4. CASE /\ ~statefulSetRequiresRecreation(r.found.spec, Desired) /\ Live(sts) = r.found
             /\ IF updated = r.found.spec THEN UNCHANGED sts ELSE sts' = Append(sts, new)
    <2>1. r.inst.spec \in SpecType /\ r.found.spec \in StsSpecs
      BY <1>1 DEF CRs, StatefulSets
    <2>2. updated \in StsSpecs
      BY <1>1, <2>1, UpdatedType DEF Desired
    <2>3. BuiltFrom(updated, r.inst.spec) /\ updated.template.checksum.sha256 = r.files
      BY <1>1, <1>4, <2>1, UpdatedBuilt DEF Desired
    <2> HIDE DEF updated
    <2>4. CASE updated = r.found.spec /\ UNCHANGED sts
      <3>1. Live(sts') # None /\ Live(sts').spec = updated
        BY <1>1, <1>4, <2>4, ReconcilerAssumption
      <3> QED
        BY <1>1, <2>3, <2>4, <3>1 DEF SetStep, Reports
    <2>5. CASE sts' = Append(sts, new)
      <3>0. NextRev("sts") \in Nat
        BY DEF NextRev, TypeOK
      <3>1. new \in StatefulSets /\ new.spec = updated
        BY <1>1, <2>2, <3>0 DEF StatefulSets
      <3> HIDE DEF new
      <3>2. Live(sts') = new /\ new # None
        BY <1>1, <2>5, <3>1, StreamAppend, ReconcilerAssumption
      <3> QED
        BY <1>1, <2>3, <3>1, <3>2 DEF SetStep, Reports
    <2> QED
      BY <1>4, <2>4, <2>5
  <1>5. CASE Requeue /\ UNCHANGED sts
    BY <1>2, <1>5 DEF Requeue
  <1> QED
    BY <1>3, <1>4, <1>5 DEF applyStatefulSet

\* The ConfigMap stays, with events delivered, or the first step of Reconcile
\* that writes replaces it, reading it from a cache that is up to date.
CmStep ==
    \/ UNCHANGED cm
    \/ Len(cm) > 1 /\ cm' = Tail(cm) /\ UNCHANGED <<pc, r>>
    \/ cm' = <<Live(cm)>> /\ pc' = "idle"
    \/ /\ pc = "ensureConfigMap" /\ pc' \in {"idle", "ensureRabbitMQCaSecret"}
       /\ UNCHANGED <<cr, sts, secrets>>
       /\ Cached(cm) = Live(cm)
       /\ \E x \in ConfigMaps :
             /\ cm' = Append(cm, x) /\ x.data = r.files
             /\ x.owner = IF Live(cm) = None THEN r.inst.uid ELSE Live(cm).owner
             /\ Live(cm) # None => Live(cm).data # r.files

\* Reconcile passes the ConfigMap when it has written it or found it as it should be.
CmPassed ==
    pc = "ensureConfigMap" /\ pc' = "ensureRabbitMQCaSecret" =>
       \/ Cached(cm) # None /\ Cached(cm).data = r.files /\ UNCHANGED <<cm, secrets>>
       \/ /\ Live(cm') # None /\ Live(cm').data = r.files /\ UNCHANGED secrets

\* The CA secret stays, with events delivered, while others write the other secrets.
CaStep ==
    \/ UNCHANGED secrets
    \/ Len(secrets) > 1 /\ secrets' = Tail(secrets) /\ UNCHANGED <<pc, r>>
    \/ secrets' = <<Live(secrets)>> /\ pc' = "idle"
    \/ \E x \in Secrets :
          /\ secrets' = Append(secrets, x)
          /\ Live(secrets).ca # None => x.ca # None

\* Reconcile passes the CA secret when it has written it or found it.
CaPassed ==
    pc = "ensureRabbitMQCaSecret" /\ pc' = "ensureStatefulSet" =>
       /\ UNCHANGED cm
       /\ \/ Cached(secrets).ca # None /\ UNCHANGED secrets
          \/ Live(secrets').ca # None

LiveStep == SetStep /\ Reports /\ CmStep /\ CmPassed /\ CaStep /\ CaPassed

\* ensureConfigMap.
LEMMA PublishStep ==
    ASSUME TypeInv, ensureConfigMap
    PROVE  LiveStep
  <1> USE DEF TypeInv
  <1>1. /\ r.inst \in CRs /\ r.files \in Files /\ pc = "ensureConfigMap"
        /\ UNCHANGED <<cr, sts, secrets>> /\ cm \in Seq(ConfigMaps \cup {None}) /\ cm # <<>>
        /\ pc' \in {"idle", "ensureRabbitMQCaSecret"}
    BY DEF ensureConfigMap, LocalsOK, TypeOK, Reply, Proceed, Requeue
  <1>2. SetStep /\ Reports /\ CaStep /\ CaPassed
    BY <1>1 DEF SetStep, Reports, CaStep, CaPassed
  <1> DEFINE found == Cached(cm)
             owner == IF found = None THEN SetControllerReference(r.inst) ELSE found.owner
             new == [rv |-> NextRev("cm"), owner |-> owner, data |-> r.files]
  <1>3. CASE UNCHANGED cm /\ (Requeue \/ (found # None /\ found.data = r.files))
    BY <1>1, <1>2, <1>3 DEF LiveStep, CmStep, CmPassed, Requeue
  <1>4. CASE /\ ~(found # None /\ found.data = r.files) /\ found = Live(cm)
             /\ cm' = Append(cm, new)
    <2>1. owner \in Nat /\ owner = IF Live(cm) = None THEN r.inst.uid ELSE Live(cm).owner
      BY <1>1, <1>4, StreamsTyped DEF SetControllerReference, CRs, ConfigMaps
    <2>2. NextRev("cm") \in Nat
      BY DEF NextRev, TypeOK
    <2> HIDE DEF owner
    <2>3. new \in ConfigMaps /\ new.data = r.files /\ new.owner = owner
      BY <1>1, <2>1, <2>2 DEF ConfigMaps
    <2> HIDE DEF new
    <2>4. Live(cm') = new /\ new # None
      BY <1>1, <1>4, <2>3, StreamAppend, ReconcilerAssumption
    <2>5. CmStep
      BY <1>1, <1>4, <2>1, <2>3 DEF CmStep
    <2>6. CmPassed
      BY <1>1, <2>3, <2>4 DEF CmPassed
    <2> QED
      BY <1>2, <2>5, <2>6 DEF LiveStep
  <1> QED
    BY <1>3, <1>4 DEF ensureConfigMap

\* ensureRabbitMQCaSecret.
LEMMA CaSecretLive ==
    ASSUME TypeInv, ensureRabbitMQCaSecret
    PROVE  LiveStep
  <1> USE DEF TypeInv
  <1>1. /\ pc = "ensureRabbitMQCaSecret" /\ UNCHANGED <<cr, sts, cm>>
        /\ secrets \in Seq(Secrets) /\ secrets # <<>>
        /\ pc' \in {"idle", "ensureStatefulSet"}
    BY DEF ensureRabbitMQCaSecret, TypeOK, Reply, Proceed, Requeue
  <1>2. SetStep /\ Reports /\ CmStep /\ CmPassed
    BY <1>1 DEF SetStep, Reports, CmStep, CmPassed
  <1> DEFINE ca == [rv |-> NextRev("ca"), data |-> Cached(secrets).rootca]
             new == [Live(secrets) EXCEPT !.ca = ca]
  <1>3. CASE UNCHANGED secrets /\ (Requeue \/ Cached(secrets).ca # None)
    BY <1>1, <1>2, <1>3 DEF LiveStep, CaStep, CaPassed, Requeue
  <1>4. CASE Cached(secrets).rootca \notin {None, NoKey} /\ secrets' = Append(secrets, new)
    <2>1. Cached(secrets).rootca \in Vals
      BY <1>4, StreamsTyped DEF Secrets, SecretValues
    <2>2. NextRev("ca") \in Nat
      BY DEF NextRev, TypeOK
    <2>3. ca \in CaSecrets
      BY <2>1, <2>2 DEF CaSecrets
    <2> HIDE DEF ca
    <2>4. new \in Secrets /\ new.ca = ca /\ ca # None
      BY <2>3, StreamsTyped, ReconcilerAssumption DEF Secrets
    <2> HIDE DEF new
    <2>5. Live(secrets') = new
      BY <1>1, <1>4, <2>4, StreamAppend
    <2>6. CaStep /\ CaPassed
      BY <1>1, <1>4, <2>4, <2>5 DEF CaStep, CaPassed
    <2> QED
      BY <1>2, <2>6 DEF LiveStep
  <1> QED
    BY <1>3, <1>4 DEF ensureRabbitMQCaSecret

\* All other steps: nobody deletes, and the garbage collector finds no orphan.
LEMMA NextLive ==
    ASSUME Deletes = FALSE, TypeInv, DeleteInv, CmOwned, [Next]_vars
    PROVE  LiveStep
  <1> USE DEF TypeInv
  <1>0. /\ cr \in Seq(CRs \cup {None}) /\ cr # <<>>
        /\ sts \in Seq(StatefulSets \cup {None}) /\ sts # <<>>
        /\ cm \in Seq(ConfigMaps \cup {None}) /\ cm # <<>>
        /\ secrets \in Seq(Secrets) /\ secrets # <<>>
    BY DEF TypeOK
  <1>1. CASE UNCHANGED <<sts, cm, secrets, pc>>
    BY <1>1 DEF LiveStep, SetStep, Reports, CmStep, CmPassed, CaStep, CaPassed
  <1>2. CASE UNCHANGED vars
    BY <1>1, <1>2 DEF vars
  <1>3. CASE FetchInstance \/ ensureDB \/ ensureMessageBus \/ RenderConfigFiles
             \/ ensureLogPVCStorage \/ updateStatus \/ CallFails
    <2>1. UNCHANGED <<sts, cm, secrets>>
      BY <1>3 DEF FetchInstance, ensureDB, ensureMessageBus, RenderConfigFiles,
         ensureLogPVCStorage, updateStatus, CallFails
    <2>2. pc' # "updateStatus"
      BY <1>3 DEF FetchInstance, ensureDB, ensureMessageBus, RenderConfigFiles,
         ensureLogPVCStorage, updateStatus, CallFails, Reply, Proceed, Requeue
    <2>3. /\ pc = "ensureConfigMap" => pc' # "ensureRabbitMQCaSecret"
          /\ pc = "ensureRabbitMQCaSecret" => pc' # "ensureStatefulSet"
      BY <1>3 DEF FetchInstance, ensureDB, ensureMessageBus, RenderConfigFiles,
         ensureLogPVCStorage, updateStatus, CallFails, Requeue
    <2> QED
      BY <2>1, <2>2, <2>3 DEF LiveStep, SetStep, Reports, CmStep, CmPassed, CaStep, CaPassed
  <1>4. CASE ensureConfigMap \/ ensureRabbitMQCaSecret
    BY <1>4, PublishStep, CaSecretLive
  <1>5. CASE ensureStatefulSet \/ applyStatefulSet
    <2>1. SetStep /\ Reports
      BY <1>5, CreateStep, UpdateStep
    <2>2. UNCHANGED <<cm, secrets>> /\ pc \in {"ensureStatefulSet", "applyStatefulSet"}
      BY <1>5 DEF ensureStatefulSet, applyStatefulSet
    <2> QED
      BY <2>1, <2>2 DEF LiveStep, CmStep, CmPassed, CaStep, CaPassed
  <1>6. CASE SyncCr \/ SyncSts \/ SyncCm \/ SyncClaims \/ SyncSecrets \/ Resync
    <2>1. UNCHANGED <<pc, r>> /\ CmStep /\ CaStep
      BY <1>6 DEF SyncCr, SyncSts, SyncCm, SyncClaims, SyncSecrets, Resync, CmStep, CaStep
    <2>2. UNCHANGED sts \/ (Len(sts) > 1 /\ sts' = Tail(sts))
      BY <1>6 DEF SyncCr, SyncSts, SyncCm, SyncClaims, SyncSecrets, Resync
    <2>3. Live(sts') = Live(sts)
      BY <1>0, <2>2, StreamTail
    <2> QED
      BY <2>1, <2>3 DEF LiveStep, SetStep, Reports, CmPassed, CaPassed
  <1>7. CASE Restart
    <2>1. Live(sts') = Live(sts) /\ pc' = "idle"
      BY <1>0, <1>7, StreamRelist DEF Restart
    <2> QED
      BY <1>7, <2>1 DEF Restart, LiveStep, SetStep, Reports, CmStep, CmPassed, CaStep, CaPassed
  <1>8. CASE Cluster
    <2>1. /\ Live(sts) # None =>
               Live(cr) # None /\ Live(sts).owner = Live(cr).uid /\ ~Live(sts).term
          /\ Live(cm) # None => Live(cr) # None /\ Live(cm).owner = Live(cr).uid
      BY <1>0, RelistElements DEF DeleteInv, Owned, CmOwned
    <2>2. StsCreatesClaim
      BY <1>8, <2>1 DEF Cluster, GarbageCollectSts, GarbageCollectCm, Orphan, StsFinalized
    <2> QED
      BY <1>1, <2>2 DEF StsCreatesClaim
  <1>9. CASE UserCreatesCr \/ UserEditsCr
    BY <1>1, <1>9 DEF UserCreatesCr, UserEditsCr
  <1>10. CASE InputChanges
    <2>1. UNCHANGED <<sts, cm, pc, r>>
      BY <1>10 DEF InputChanges
    <2>2. CASE UNCHANGED secrets
      BY <1>1, <2>1, <2>2
    <2>3. ASSUME NEW w \in InputWrites, w.input # "neutron",
                 secrets' = Append(secrets, [Live(secrets) EXCEPT ![w.input] = w.value])
          PROVE  LiveStep
      <3> DEFINE new == [Live(secrets) EXCEPT ![w.input] = w.value]
      <3>1. w.input \in SecretKeys /\ w.value \in SecretValues
        BY <2>3, ReconcilerAssumption DEF Inputs
      <3>2. new \in Secrets /\ new.ca = Live(secrets).ca
        BY <3>1, StreamsTyped DEF Secrets, SecretKeys
      <3>3. secrets' = Append(secrets, new)
        BY <2>3
      <3> HIDE DEF new
      <3>4. CaStep
        BY <3>2, <3>3 DEF CaStep
      <3> QED
        BY <2>1, <3>4 DEF LiveStep, SetStep, Reports, CmStep, CmPassed, CaPassed
    <2> QED
      BY <1>10, <2>2, <2>3 DEF InputChanges
  <1> QED
    BY <1>2, <1>3, <1>4, <1>5, <1>6, <1>7, <1>8, <1>9, <1>10
    DEF Next, Reconcile, Environment, UserDeletesCr, UserDeletesSts

-------------------------------------------------------------------------------
(* The order is kept *)

\* The ConfigMap is owned and stays.
LEMMA CmKeeps ==
    ASSUME TypeInv, OneResource, CrMove, RunMove, CmOwned, CmStays, CmStep
    PROVE  CmOwned' /\ CmStays' /\ (Live(cm) # None => Live(cm') # None)
  <1>0. /\ cm \in Seq(ConfigMaps \cup {None}) /\ cm # <<>> /\ Len(cm) \in Nat \ {0}
        /\ Live(cr) # None => Live(cr') # None /\ Live(cr').uid = Live(cr).uid
    BY CrMoveKeeps, StreamType DEF TypeInv, TypeOK
  <1>1. CASE UNCHANGED cm
    BY <1>0, <1>1 DEF CmOwned, CmStays
  <1>2. CASE Len(cm) > 1 /\ cm' = Tail(cm)
    <2>1. Live(cm') = Live(cm)
      BY <1>0, <1>2, StreamTail
    <2>2. \A k \in 1..Len(cm') : cm'[k] = cm[k + 1] /\ k + 1 \in 1..Len(cm)
      BY <1>0, <1>2, TailElements
    <2>3. CmOwned'
      BY <1>0, <2>2 DEF CmOwned
    <2>4. CmStays'
      BY <2>2 DEF CmStays
    <2> QED
      BY <2>1, <2>3, <2>4
  <1>3. CASE cm' = <<Live(cm)>>
    <2>1. /\ Live(cm') = Live(cm) /\ Len(cm') = 1 /\ cm'[1] = Live(cm)
          /\ Len(cm) \in 1..Len(cm) /\ Live(cm) = cm[Len(cm)]
      BY <1>0, <1>3, StreamRelist, RelistElements
    <2> QED
      BY <1>0, <2>1 DEF CmOwned, CmStays
  <1>4. ASSUME pc # "idle", NEW x \in ConfigMaps, cm' = Append(cm, x),
               x.owner = IF Live(cm) = None THEN r.inst.uid ELSE Live(cm).owner
        PROVE  CmOwned' /\ CmStays' /\ Live(cm') # None
    <2>1. Live(cm') = x /\ x # None
      BY <1>0, <1>4, StreamAppend, ReconcilerAssumption
    <2>2. /\ Len(cm') = Len(cm) + 1
          /\ \A k \in 1..Len(cm) : cm'[k] = cm[k]
          /\ cm'[Len(cm) + 1] = x
      BY <1>0, <1>4, AppendElements
    <2>3. \A k \in 1..Len(cm') : k \in 1..Len(cm) \/ k = Len(cm) + 1
      BY <1>0, <2>2
    <2>4. Live(cr) # None /\ x.owner = Live(cr).uid
      <3>1. Len(cm) \in 1..Len(cm) /\ Live(cm) = cm[Len(cm)]
        BY <1>0, RelistElements
      <3> QED
        BY <1>4, <3>1 DEF OneResource, CmOwned
    <2>5. CmOwned'
      BY <1>0, <2>2, <2>3, <2>4 DEF CmOwned
    <2>6. CmStays'
      <3>1. ASSUME NEW i \in 1..Len(cm'), NEW j \in 1..Len(cm'), i <= j, cm'[i] # None
            PROVE  cm'[j] # None
        <4>1. CASE j = Len(cm) + 1
          BY <2>1, <2>2, <4>1
        <4>2. CASE j \in 1..Len(cm)
          <5>1. i \in 1..Len(cm)
            BY <1>0, <3>1, <4>2
          <5> QED
            BY <2>2, <3>1, <4>2, <5>1 DEF CmStays
        <4> QED
          BY <2>3, <4>1, <4>2
      <3> QED
        BY <3>1 DEF CmStays
    <2> QED
      BY <2>1, <2>5, <2>6
  <1> QED
    BY <1>1, <1>2, <1>3, <1>4 DEF CmStep

\* The CA secret stays.
LEMMA CaKeeps ==
    ASSUME TypeInv, CaStays, CaStep
    PROVE  CaStays' /\ (Live(secrets).ca # None => Live(secrets').ca # None)
  <1>0. /\ secrets \in Seq(Secrets) /\ secrets # <<>> /\ Len(secrets) \in Nat \ {0}
        /\ Len(secrets) \in 1..Len(secrets) /\ Live(secrets) = secrets[Len(secrets)]
    BY StreamType, RelistElements DEF TypeInv, TypeOK
  <1>1. CASE UNCHANGED secrets
    BY <1>1 DEF CaStays
  <1>2. CASE Len(secrets) > 1 /\ secrets' = Tail(secrets)
    <2>1. Live(secrets') = Live(secrets)
      BY <1>0, <1>2, StreamTail
    <2>2. \A k \in 1..Len(secrets') : secrets'[k] = secrets[k + 1] /\ k + 1 \in 1..Len(secrets)
      BY <1>0, <1>2, TailElements
    <2>3. ASSUME NEW i \in 1..Len(secrets'), NEW j \in 1..Len(secrets'), i <= j,
                 secrets'[i].ca # None
          PROVE  secrets'[j].ca # None
      <3>1. /\ i + 1 \in 1..Len(secrets) /\ j + 1 \in 1..Len(secrets) /\ i + 1 <= j + 1
            /\ secrets[i + 1].ca # None
        BY <2>2, <2>3
      <3> QED
        BY <2>2, <3>1 DEF CaStays
    <2> QED
      BY <2>1, <2>3 DEF CaStays
  <1>3. CASE secrets' = <<Live(secrets)>>
    <2>1. Live(secrets') = Live(secrets) /\ Len(secrets') = 1
      BY <1>0, <1>3, StreamRelist, RelistElements
    <2> QED
      BY <2>1 DEF CaStays
  <1>4. ASSUME NEW x \in Secrets, secrets' = Append(secrets, x),
               Live(secrets).ca # None => x.ca # None
        PROVE  CaStays' /\ (Live(secrets).ca # None => Live(secrets').ca # None)
    <2>1. Live(secrets') = x
      BY <1>0, <1>4, StreamAppend
    <2>2. /\ Len(secrets') = Len(secrets) + 1
          /\ \A k \in 1..Len(secrets) : secrets'[k] = secrets[k]
          /\ secrets'[Len(secrets) + 1] = x
      BY <1>0, <1>4, AppendElements
    <2>3. ASSUME NEW i \in 1..Len(secrets'), NEW j \in 1..Len(secrets'), i <= j,
                 secrets'[i].ca # None
          PROVE  secrets'[j].ca # None
      <3>1. CASE j \in 1..Len(secrets)
        <4>1. i \in 1..Len(secrets)
          BY <1>0, <2>3, <3>1
        <4> QED
          BY <2>2, <2>3, <3>1, <4>1 DEF CaStays
      <3>2. CASE j = Len(secrets) + 1
        <4>1. CASE i \in 1..Len(secrets)
          <5>1. i <= Len(secrets) /\ secrets[i].ca # None
            BY <1>0, <2>2, <2>3, <4>1
          <5>2. Live(secrets).ca # None
            BY <1>0, <4>1, <5>1 DEF CaStays
          <5> QED
            BY <1>4, <2>2, <3>2, <5>2
        <4>2. CASE i = Len(secrets) + 1
          BY <2>3, <3>2, <4>2
        <4> QED
          BY <1>0, <2>2, <4>1, <4>2
      <3> QED
        BY <1>0, <2>2, <3>1, <3>2
    <2> QED
      BY <1>4, <2>1, <2>3 DEF CaStays
  <1> QED
    BY <1>1, <1>2, <1>3, <1>4 DEF CaStep

\* What Reconcile finds in a cache is there live too.
LEMMA CachedIsLive ==
    ASSUME TypeInv, CmStays, CaStays
    PROVE  /\ Cached(cm) # None => Live(cm) # None
           /\ Cached(secrets).ca # None => Live(secrets).ca # None
  <1>1. /\ Cached(cm) = cm[1] /\ Live(cm) = cm[Len(cm)] /\ 1 <= Len(cm)
        /\ 1 \in 1..Len(cm) /\ Len(cm) \in 1..Len(cm)
    BY DEF TypeInv, TypeOK, Cached, Live
  <1>2. /\ Cached(secrets) = secrets[1] /\ Live(secrets) = secrets[Len(secrets)]
        /\ 1 <= Len(secrets) /\ 1 \in 1..Len(secrets) /\ Len(secrets) \in 1..Len(secrets)
    BY DEF TypeInv, TypeOK, Cached, Live
  <1> QED
    BY <1>1, <1>2 DEF CmStays, CaStays

\* The steps of Reconcile leave behind what the later ones rely on.
LEMMA OrderKeeps ==
    ASSUME TypeInv, OneResource, OrderInv, CrMove, RunMove, Walk, LiveStep
    PROVE  OrderInv'
  <1>1. CmOwned' /\ CmStays' /\ CaStays'
    BY CmKeeps, CaKeeps DEF OrderInv, LiveStep
  <1>2. /\ Live(cm) # None => Live(cm') # None
        /\ Live(secrets).ca # None => Live(secrets').ca # None
    BY CmKeeps, CaKeeps DEF OrderInv, LiveStep
  <1>3. /\ Cached(cm) # None => Live(cm) # None
        /\ Cached(secrets).ca # None => Live(secrets).ca # None
    BY CachedIsLive DEF OrderInv
  <1>4. Prepared'
    <2>1. ASSUME pc' \in AfterCm
          PROVE  pc \in AfterCm \/ (pc = "ensureConfigMap" /\ pc' = "ensureRabbitMQCaSecret")
      BY <2>1 DEF Walk, AfterCm, AfterCa
    <2>2. ASSUME pc' \in AfterCa
          PROVE  pc \in AfterCa \/ (pc = "ensureRabbitMQCaSecret" /\ pc' = "ensureStatefulSet")
      BY <2>2 DEF Walk, AfterCa
    <2>3. pc' \in AfterCm => Live(cm') # None
      BY <1>2, <1>3, <2>1 DEF OrderInv, Prepared, LiveStep, CmPassed
    <2>4. pc' \in AfterCa => Live(secrets').ca # None
      BY <1>2, <1>3, <2>2 DEF OrderInv, Prepared, LiveStep, CaPassed
    <2> QED
      BY <2>3, <2>4 DEF Prepared
  <1>5. MountsExist'
    <2>1. CASE Live(sts') = Live(sts)
      BY <1>2, <2>1 DEF OrderInv, MountsExist
    <2>2. CASE Live(sts') = None
      BY <2>2 DEF MountsExist
    <2>3. CASE pc \in {"ensureStatefulSet", "applyStatefulSet"}
      BY <1>2, <2>3 DEF OrderInv, Prepared, AfterCa, AfterCm, MountsExist
    <2> QED
      BY <2>1, <2>2, <2>3 DEF LiveStep, SetStep
  <1>6. Applied'
    <2> SUFFICES ASSUME pc' = "updateStatus"
                 PROVE  Live(sts') # None /\ BuiltFrom(Live(sts').spec, r'.inst.spec)
      BY DEF Applied, BuiltFrom
    <2>1. CASE pc = "updateStatus"
      <3>1. UNCHANGED <<pc, r>>
        BY <2>1 DEF Walk
      <3>2. Live(sts') = Live(sts)
        BY <2>1, <3>1 DEF LiveStep, SetStep
      <3> QED
        BY <2>1, <3>1, <3>2 DEF OrderInv, Applied
    <2>2. CASE pc # "updateStatus"
      <3>1. r'.inst = r.inst
        BY <2>2 DEF Walk, Kept
      <3> QED
        BY <2>2, <3>1 DEF LiveStep, Reports
    <2> QED
      BY <2>1, <2>2
  <1> QED
    BY <1>1, <1>4, <1>5, <1>6 DEF OrderInv

\* The initial state: a ConfigMap is there if a StatefulSet of an earlier release is.
LEMMA InitOrder == Init => OrderInv
  <1> SUFFICES ASSUME Init PROVE OrderInv
    OBVIOUS
  <1>1. PICK spec \in InitSpecs :
          /\ cr = <<IF spec = None THEN None
                    ELSE [uid |-> 1, rv |-> 1, spec |-> spec, conds |-> {}]>>
          /\ \E s \in IF spec = None THEN {None} ELSE InitSts :
                /\ sts = <<IF s = None THEN None
                           ELSE [uid |-> 1, rv |-> 1, owner |-> 1, spec |-> s, term |-> FALSE]>>
                /\ cm = <<IF s = None THEN None
                          ELSE [rv |-> 1, owner |-> 1, data |-> s.template.checksum.sha256]>>
    BY DEF Init
  <1>2. /\ Live(cr) = cr[1] /\ Len(cr) = 1 /\ Live(sts) = sts[1]
        /\ Live(cm) = cm[1] /\ Len(cm) = 1
    BY <1>1 DEF Live
  <1>3. pc = "idle" /\ Len(secrets) = 1
    BY DEF Init
  <1>4. spec # None => cr[1] # None /\ cr[1].uid = 1
    <2>1. spec # None => [uid |-> 1, rv |-> 1, spec |-> spec, conds |-> {}] \in CRs
      BY ReconcilerAssumption DEF CRs
    <2> QED
      BY <1>1, <2>1, ReconcilerAssumption
  <1>5. /\ cm[1] # None => spec # None /\ cm[1].owner = 1
        /\ sts[1] # None => sts[1].uid = 1
    BY <1>1
  <1>6. CmOwned /\ CmStays /\ MountsExist
    BY <1>2, <1>4, <1>5 DEF CmOwned, CmStays, MountsExist
  <1>7. CaStays /\ Prepared /\ Applied
    BY <1>3 DEF CaStays, Prepared, Applied, AfterCm, AfterCa
  <1> QED
    BY <1>6, <1>7 DEF OrderInv

\* All invariants of the operator when nobody else deletes.
ControllerInv == TypeInv /\ StatusInv /\ DeleteInv /\ OrderInv

LEMMA InitController == Init => ControllerInv
  BY InitType, InitStatus, InitDelete, InitOrder DEF ControllerInv

LEMMA NextController ==
    ASSUME Deletes = FALSE, ControllerInv, [Next]_vars
    PROVE  ControllerInv'
  <1>1. TypeInv' /\ StatusInv' /\ DeleteInv'
    BY NextType, NextStatus, NextDelete DEF ControllerInv
  <1>2. OrderInv'
    <2>1. CrMove /\ RunMove /\ Walk
      BY NextMoves, NextWalks DEF ControllerInv, Moves
    <2>2. LiveStep
      BY NextLive DEF ControllerInv, OrderInv
    <2> QED
      BY <2>1, <2>2, OrderKeeps DEF ControllerInv, DeleteInv
  <1> QED
    BY <1>1, <1>2 DEF ControllerInv

\* A StatefulSet that the operator created never stands without the ConfigMap and
\* the CA secret that its pods mount, on caches of any age and with calls that
\* fail or lose their reply, as long as nobody deletes the resource.
THEOREM MountsAlwaysExist ==
    ASSUME Deletes = FALSE
    PROVE  Spec => []MountsExist
  <1>1. ControllerInv /\ [Next]_vars => ControllerInv'
    BY NextController
  <1>2. ControllerInv => MountsExist
    BY DEF ControllerInv, OrderInv
  <1> QED
    BY <1>1, <1>2, InitController, PTL DEF Spec

-------------------------------------------------------------------------------
(* The status follows the StatefulSet *)

\* The conditions change only when updateStatus writes to the version it fetched.
LEMMA StatusIsWritten ==
    ASSUME TypeInv, StatusInv, [Next]_vars,
           Live(cr) # None, Live(cr') # None, Live(cr').conds # Live(cr).conds
    PROVE  pc = "updateStatus" /\ Live(cr').spec = r.inst.spec
  <1> USE DEF TypeInv
  <1>0. cr \in Seq(CRs \cup {None}) /\ cr # <<>> /\ Live(cr) \in CRs /\ NextRev("cr") \in Nat
    BY StreamsTyped DEF TypeOK, NextRev
  <1>1. CASE updateStatus
    <2>1. r.inst \in CRs /\ pc = "updateStatus"
      BY <1>1 DEF updateStatus, LocalsOK
    <2> DEFINE instance == setCondition(r.inst, "AimReady")
               new == [Live(cr) EXCEPT !.rv = NextRev("cr"), !.conds = instance.conds]
    <2>2. SameVersion(Live(cr), instance) /\ cr' = Append(cr, new)
      BY <1>1 DEF updateStatus
    <2>3. instance \in CRs /\ instance.rv = r.inst.rv
      BY <2>1, ConditionType DEF Conditions
    <2>4. Live(cr).rv = r.inst.rv
      BY <2>2, <2>3 DEF SameVersion
    <2> HIDE DEF instance
    <2>5. new \in CRs /\ new.spec = Live(cr).spec
      BY <1>0, <2>3 DEF CRs
    <2> HIDE DEF new
    <2>6. Live(cr') = new
      BY <1>0, <2>2, <2>5, StreamAppend
    <2>7. r.inst.spec = Live(cr).spec
      BY <2>1, <2>4 DEF StatusInv, Fetched
    <2> QED
      BY <2>1, <2>5, <2>6, <2>7
  <1>2. CASE UserEditsCr
    <2>1. PICK spec \in Specs :
             cr' = Append(cr, [Live(cr) EXCEPT !.rv = NextRev("cr"), !.spec = spec])
      BY <1>2 DEF UserEditsCr
    <2> DEFINE new == [Live(cr) EXCEPT !.rv = NextRev("cr"), !.spec = spec]
    <2>2. spec \in SpecType
      BY ReconcilerAssumption
    <2>3. new \in CRs /\ new.conds = Live(cr).conds
      BY <1>0, <2>2 DEF CRs
    <2>4. Live(cr') = new
      BY <1>0, <2>1, <2>3, StreamAppend
    <2> QED
      BY <2>3, <2>4
  <1>3. CASE UserDeletesCr
    <2>1. Live(cr') = None
      BY <1>0, <1>3, StreamAppend DEF UserDeletesCr
    <2> QED
      BY <2>1
  <1>4. CASE SyncCr \/ Restart
    <2>1. Live(cr') = Live(cr)
      BY <1>0, <1>4, StreamTail, StreamRelist DEF SyncCr, Restart
    <2> QED
      BY <2>1
  <1>5. CASE \/ FetchInstance \/ ensureDB \/ ensureMessageBus \/ RenderConfigFiles
             \/ ensureConfigMap \/ ensureRabbitMQCaSecret \/ ensureStatefulSet
             \/ ensureLogPVCStorage \/ applyStatefulSet
    BY <1>5 DEF FetchInstance, ensureDB, ensureMessageBus, RenderConfigFiles, ensureConfigMap,
       ensureRabbitMQCaSecret, ensureStatefulSet, ensureLogPVCStorage, applyStatefulSet
  <1>6. CASE UNCHANGED vars \/ SyncSts \/ SyncCm \/ SyncClaims \/ SyncSecrets \/ Resync
             \/ Cluster \/ UserCreatesCr \/ UserDeletesSts \/ InputChanges \/ CallFails
    BY <1>6 DEF vars, SyncSts, SyncCm, SyncClaims, SyncSecrets, Resync, Cluster,
       GarbageCollectSts, GarbageCollectCm, StsFinalized, StsCreatesClaim, UserCreatesCr,
       UserDeletesSts, InputChanges, CallFails
  <1> QED
    BY <1>1, <1>2, <1>3, <1>4, <1>5, <1>6 DEF Next, Reconcile, Environment

\* Every status the operator writes stands next to a spec that the live StatefulSet
\* is built from, whatever the user edits meanwhile.
THEOREM StatusFollows ==
    ASSUME Deletes = FALSE
    PROVE  Spec => StatusFollowsStatefulSet
  <1> DEFINE Follows == LET old == Live(cr)
                            new == Live(cr')
                        IN  old # None /\ new # None /\ new.conds # old.conds
                              => Live(sts) # None /\ BuiltFrom(Live(sts).spec, new.spec)
  <1>1. ControllerInv /\ [Next]_vars => ControllerInv'
    BY NextController
  <1>2. ControllerInv /\ [Next]_vars => Follows
    <2> SUFFICES ASSUME ControllerInv, [Next]_vars,
                        Live(cr) # None, Live(cr') # None, Live(cr').conds # Live(cr).conds
                 PROVE  Live(sts) # None /\ BuiltFrom(Live(sts).spec, Live(cr').spec)
      OBVIOUS
    <2>1. pc = "updateStatus" /\ Live(cr').spec = r.inst.spec
      BY StatusIsWritten DEF ControllerInv
    <2> QED
      BY <2>1 DEF ControllerInv, OrderInv, Applied
  <1> QED
    BY <1>1, <1>2, InitController, PTL DEF Spec, StatusFollowsStatefulSet

-------------------------------------------------------------------------------
(* What is rendered, published, rolled and reported *)

\* Live data of the ConfigMap change only when ensureConfigMap writes it.
LEMMA DataKept ==
    ASSUME TypeInv, CmStep, pc # "ensureConfigMap"
    PROVE  Live(cm') = Live(cm)
  <1>1. cm \in Seq(ConfigMaps \cup {None}) /\ cm # <<>>
    BY DEF TypeInv, TypeOK
  <1> QED
    BY <1>1, StreamTail, StreamRelist DEF CmStep

\* From ensureConfigMap on, the live ConfigMap holds the files of this Reconcile.
LEMMA CurrentKeeps ==
    ASSUME TypeInv, Walk, LiveStep, FreshMatch, Current
    PROVE  Current'
  <1>1. CASE pc' = "idle"
    BY <1>1 DEF Current, AfterCm, AfterCa
  <1>2. CASE UNCHANGED <<pc, r>>
    <2>1. pc \in AfterCm => Live(cm') = Live(cm)
      BY DataKept DEF LiveStep, AfterCm, AfterCa
    <2> QED
      BY <1>2, <2>1 DEF Current, AfterCm, AfterCa
  <1>3. CASE pc \in {"idle", "ensureDB", "ensureMessageBus"} /\ pc' # "idle" /\ pc' # pc
    BY <1>3 DEF Walk, Current, AfterCm, AfterCa
  <1>4. CASE pc = "generateConfigFiles" /\ pc' = "ensureConfigMap"
    <2>1. r'.inst = r.inst /\ r'.files.conf = r.inst.spec.conf
      BY <1>4 DEF Walk, Kept
    <2> QED
      BY <1>4, <2>1 DEF Current, AfterCm, AfterCa
  <1>5. CASE pc = "ensureConfigMap" /\ pc' = "ensureRabbitMQCaSecret"
    <2>1. r' = r
      BY <1>5 DEF Walk
    <2>2. Live(cm').data = r.files
      BY <1>5 DEF LiveStep, CmPassed, FreshMatch
    <2> QED
      BY <1>5, <2>1, <2>2 DEF Current, AfterCm, AfterCa
  <1>6. CASE /\ pc \in AfterCm \ {"updateStatus"}
             /\ r'.inst = r.inst
             /\ pc' = "updateStatus" \/ (pc' \in AfterCa /\ r'.files = r.files)
    <2>1. Live(cm') = Live(cm)
      BY <1>6, DataKept DEF LiveStep, AfterCm, AfterCa
    <2>2. Live(cm').data = r.files /\ r.files.conf = r.inst.spec.conf
      BY <1>6, <2>1 DEF Current, AfterCm, AfterCa
    <2> QED
      BY <1>6, <2>2 DEF Current, AfterCm, AfterCa
  <1> QED
    BY <1>1, <1>2, <1>3, <1>4, <1>5, <1>6 DEF Walk, Kept, AfterCm, AfterCa

LEMMA InitCurrent == Init => Current
  BY DEF Init, Current, AfterCm, AfterCa

RolloutInv == ControllerInv /\ Current

\* As long as no stale match occurs, every step keeps them all.
LEMMA NextRollout ==
    ASSUME Deletes = FALSE, RolloutInv, FreshMatch, [Next]_vars
    PROVE  RolloutInv' /\ LiveStep
  <1>1. ControllerInv'
    BY NextController DEF RolloutInv
  <1>2. Walk /\ LiveStep
    BY NextWalks, NextLive DEF RolloutInv, ControllerInv, OrderInv
  <1> QED
    BY <1>1, <1>2, CurrentKeeps DEF RolloutInv, ControllerInv

\* AimReady appears only next to a spec that both the StatefulSet and the ConfigMap
\* have, unless ensureConfigMap took a stale ConfigMap for a current one.
THEOREM ReadyIsApplied ==
    ASSUME Deletes = FALSE
    PROVE  Spec /\ []FreshMatch => ReadyMeansApplied
  <1> DEFINE Honest == LET old == Live(cr)
                           new == Live(cr')
                       IN  old # None /\ new # None /\ "AimReady" \in new.conds \ old.conds
                             => /\ Live(sts) # None /\ BuiltFrom(Live(sts).spec, new.spec)
                                /\ Live(cm) # None /\ Live(cm).data.conf = new.spec.conf
  <1>1. Init => RolloutInv
    BY InitController, InitCurrent DEF RolloutInv
  <1>2. RolloutInv /\ FreshMatch /\ [Next]_vars => RolloutInv'
    BY NextRollout
  <1>3. RolloutInv /\ [Next]_vars => Honest
    <2> SUFFICES ASSUME RolloutInv, [Next]_vars, Live(cr) # None, Live(cr') # None,
                        "AimReady" \in Live(cr').conds \ Live(cr).conds
                 PROVE  /\ Live(sts) # None /\ BuiltFrom(Live(sts).spec, Live(cr').spec)
                        /\ Live(cm) # None /\ Live(cm).data.conf = Live(cr').spec.conf
      OBVIOUS
    <2>1. pc = "updateStatus" /\ Live(cr').spec = r.inst.spec
      BY StatusIsWritten DEF RolloutInv, ControllerInv
    <2>2. Live(sts) # None /\ BuiltFrom(Live(sts).spec, r.inst.spec)
      BY <2>1 DEF RolloutInv, ControllerInv, OrderInv, Applied
    <2>3. Live(cm) # None /\ Live(cm).data.conf = r.inst.spec.conf
      BY <2>1 DEF RolloutInv, ControllerInv, OrderInv, Prepared, Current, AfterCm, AfterCa
    <2> QED
      BY <2>1, <2>2, <2>3
  <1> QED
    BY <1>1, <1>2, <1>3, PTL DEF Spec, ReadyMeansApplied

-------------------------------------------------------------------------------
(* Refinement of ConfigRollout *)

LEMMA InitRollout == Init => Rollout!Init
  <1> SUFFICES ASSUME Init PROVE Rollout!Init
    OBVIOUS
  <1>1. PICK spec \in InitSpecs, s \in InitSts \cup {None} :
          /\ sts = <<IF s = None THEN None
                     ELSE [uid |-> 1, rv |-> 1, owner |-> 1, spec |-> s, term |-> FALSE]>>
          /\ cm = <<IF s = None THEN None
                    ELSE [rv |-> 1, owner |-> 1, data |-> s.template.checksum.sha256]>>
    BY DEF Init
  <1>2. Live(sts) = sts[1] /\ Live(cm) = cm[1]
    BY <1>1 DEF Live
  <1>3. CASE s = None
    BY <1>1, <1>2, <1>3 DEF Rollout!Init, Rolled
  <1>4. CASE s # None
    <2>1. s \in StsSpecs
      BY <1>1, <1>4, ReconcilerAssumption
    <2>2. s.template.checksum.sha256 \in Files
      BY <2>1 DEF StsSpecs
    <2>3. [rv |-> 1, owner |-> 1, data |-> s.template.checksum.sha256] \in ConfigMaps
      BY <2>2 DEF ConfigMaps
    <2>4. [uid |-> 1, rv |-> 1, owner |-> 1, spec |-> s, term |-> FALSE] \in StatefulSets
      BY <2>1 DEF StatefulSets
    <2>5. /\ Live(cm) # None /\ Live(cm).data = s.template.checksum.sha256
          /\ Live(sts) # None /\ Live(sts).spec = s
      BY <1>1, <1>2, <1>4, <2>3, <2>4, ReconcilerAssumption
    <2> QED
      BY <2>5 DEF Rollout!Init, Rolled, Published
  <1> QED
    BY <1>3, <1>4

\* Each step publishes, rolls to what is published, takes down, or does neither.
LEMMA StepRolls ==
    ASSUME RolloutInv, LiveStep
    PROVE  Rollout!Next \/ UNCHANGED <<Published, Rolled>>
  <1>0. /\ TypeInv /\ cm \in Seq(ConfigMaps \cup {None}) /\ cm # <<>>
        /\ Live(cm) \in ConfigMaps \cup {None}
    BY StreamType DEF RolloutInv, ControllerInv, TypeInv, TypeOK
  <1>1. Published' = (IF Live(cm') = None THEN None ELSE Live(cm').data)
    BY DEF Published, Live
  <1>2. Rolled' = (IF Live(sts') = None THEN None
                   ELSE Live(sts').spec.template.checksum.sha256)
    BY DEF Rolled, Live
  <1>3. Live(sts') = Live(sts) => Rolled' = Rolled
    BY <1>2 DEF Rolled
  <1>4. Live(cm') = Live(cm) => Published' = Published
    BY <1>1 DEF Published
  <1>5. CASE Live(sts') = Live(sts)
    <2>1. CASE Live(cm') = Live(cm)
      BY <1>3, <1>4, <1>5, <2>1
    <2>2. CASE UNCHANGED cm \/ (Len(cm) > 1 /\ cm' = Tail(cm)) \/ cm' = <<Live(cm)>>
      BY <1>0, <2>1, <2>2, StreamTail, StreamRelist
    <2>3. CASE \E x \in ConfigMaps :
                  /\ cm' = Append(cm, x) /\ x.data = r.files
                  /\ Live(cm) # None => Live(cm).data # r.files
      <3>1. PICK x \in ConfigMaps :
                  /\ cm' = Append(cm, x) /\ x.data = r.files
                  /\ Live(cm) # None => Live(cm).data # r.files
        BY <2>3
      <3>2. Live(cm') = x /\ x # None
        BY <1>0, <3>1, StreamAppend, ReconcilerAssumption
      <3>3. x.data \in Files /\ x.data # None
        BY ReconcilerAssumption DEF ConfigMaps
      <3>4. Published' = x.data
        BY <1>1, <3>2
      <3>5. Published # x.data
        BY <3>1, <3>3 DEF Published
      <3> QED
        BY <1>3, <1>5, <3>3, <3>4, <3>5 DEF Rollout!Next, Rollout!Publish
    <2> QED
      BY <2>2, <2>3 DEF LiveStep, CmStep
  <1>6. CASE Live(sts') = None /\ UNCHANGED <<cr, cm, secrets>>
    BY <1>2, <1>4, <1>6 DEF Rollout!Next, Rollout!TakeDown
  <1>7. CASE /\ pc \in {"ensureStatefulSet", "applyStatefulSet"} /\ UNCHANGED <<cr, cm, secrets>>
             /\ Live(sts') # None /\ Live(sts').spec.template.checksum.sha256 = r.files
    <2>1. Live(cm) # None /\ Live(cm).data = r.files
      BY <1>7 DEF RolloutInv, ControllerInv, OrderInv, Prepared, Current, AfterCm, AfterCa
    <2>2. Published = r.files /\ Published # None
      BY <1>0, <2>1, ReconcilerAssumption DEF Published, ConfigMaps
    <2> QED
      BY <1>2, <1>4, <1>7, <2>2 DEF Rollout!Next, Rollout!Roll
  <1> QED
    BY <1>5, <1>6, <1>7 DEF LiveStep, SetStep

\* The controller implements ConfigRollout: the pods are rolled only to the
\* configuration that is published at that moment, unless ensureConfigMap took a
\* stale ConfigMap for a current one.
THEOREM ControllerImplementsConfigRollout ==
    ASSUME Deletes = FALSE
    PROVE  Spec /\ []FreshMatch => ImplementsConfigRollout
  <1>1. Init => RolloutInv /\ Rollout!Init
    BY InitController, InitCurrent, InitRollout DEF RolloutInv
  <1>2. RolloutInv /\ FreshMatch /\ [Next]_vars => RolloutInv'
    BY NextRollout
  <1>3. RolloutInv /\ FreshMatch /\ [Next]_vars => [Rollout!Next]_<<Published, Rolled>>
    BY NextRollout, StepRolls
  <1> QED
    BY <1>1, <1>2, <1>3, PTL DEF Spec, ImplementsConfigRollout, Rollout!Spec

-------------------------------------------------------------------------------
(* Matches are fresh: the invariant *)

\* What the files are rendered from: the resource, the Neutron objects and three
\* secrets.
Parts == {"spec", "neutron", "db", "bus", "dhcp"}

OfResource(x) == IF x = None THEN None ELSE <<x.spec.conf, x.spec.log # None>>

OfSecrets(s) == [db |-> s.db, bus |-> IF s.bus = NoKey THEN "" ELSE s.bus,
                 dhcp |-> getNeutronRabbitConfig(s.dhcp)]

Offered(x, s, n) ==
    [spec |-> OfResource(x), neutron |-> n, db |-> OfSecrets(s).db, bus |-> OfSecrets(s).bus,
     dhcp |-> OfSecrets(s).dhcp]

LiveInputs == Offered(Live(cr), Live(secrets), neutron)
CachedInputs == Offered(Cached(cr), Cached(secrets), neutron)

\* What files were rendered from.
Rendered(files) ==
    [spec |-> <<files.conf, files.logToDisk>>, neutron |-> files.db.host,
     db |-> files.db.password, bus |-> files.bus, dhcp |-> files.rabbit]

\* The order e[p] in which the values of each part p appear: v was there before w if
\* e[p] holds <<v, w>>.
Strict(e) ==
    \A p \in Parts :
       /\ \A v : <<v, v>> \notin e[p]
       /\ \A u, v, w : <<u, v>> \in e[p] /\ <<v, w>> \in e[p] => <<u, w>> \in e[p]

Upto(e, p, v, w) == v = w \/ <<v, w>> \in e[p]

\* No part of v is earlier than the same part of u.
NoLater(e, u, v) ==
    /\ Upto(e, "spec", u.spec, v.spec) /\ Upto(e, "neutron", u.neutron, v.neutron)
    /\ Upto(e, "db", u.db, v.db) /\ Upto(e, "bus", u.bus, v.bus)
    /\ Upto(e, "dhcp", u.dhcp, v.dhcp)

\* No input returns to a value it had before, those included that the ConfigMap of
\* an earlier release was rendered from.
Forward(e) == NoLater(e, LiveInputs, LiveInputs')
Since(e) == Live(cm) # None => NoLater(e, Rendered(Live(cm).data), LiveInputs)
NeverReturns(e) == Since(e) /\ [][Forward(e)]_vars

\* A version of an object that another one may follow.
CrUpto(e) ==
    {v \in (CRs \cup {None}) \X (CRs \cup {None}) :
       Upto(e, "spec", OfResource(v[1]), OfResource(v[2]))}
SecretsUpto(e) ==
    {v \in Secrets \X Secrets :
       \A p \in {"db", "bus", "dhcp"} : Upto(e, p, OfSecrets(v[1])[p], OfSecrets(v[2])[p])}
CmUpto(e) ==
    {v \in (ConfigMaps \cup {None}) \X (ConfigMaps \cup {None}) :
       v[1] # None => v[2] # None /\ NoLater(e, Rendered(v[1].data), Rendered(v[2].data))}

Ascends(s, R) == \A i, j \in 1..Len(s) : i <= j => <<s[i], s[j]>> \in R

\* What the running Reconcile renders, or would render, from what it has read so far
\* and from the caches as they are.
Held ==
    IF pc = "ensureConfigMap" THEN Rendered(r.files)
    ELSE [spec |-> IF pc \in {"ensureDB", "ensureMessageBus", "generateConfigFiles"}
                   THEN OfResource(r.inst) ELSE CachedInputs.spec,
          neutron |-> IF pc \in {"ensureMessageBus", "generateConfigFiles"}
                      THEN r.db.host ELSE neutron,
          db |-> IF pc \in {"ensureMessageBus", "generateConfigFiles"}
                 THEN r.db.password ELSE CachedInputs.db,
          bus |-> IF pc = "generateConfigFiles" THEN r.bus ELSE CachedInputs.bus,
          dhcp |-> CachedInputs.dhcp]

\* The versions of every object ascend, and so do what is published, what Reconcile
\* holds and what the caches offer.
FreshInv(e) ==
    /\ Ascends(cr, CrUpto(e)) /\ Ascends(secrets, SecretsUpto(e)) /\ Ascends(cm, CmUpto(e))
    /\ Live(cm) # None => NoLater(e, Rendered(Live(cm).data), Held)
    /\ NoLater(e, Held, CachedInputs)

-------------------------------------------------------------------------------
(* Matches are fresh: what ascends *)

LEMMA UptoTrans ==
    ASSUME NEW e, Strict(e), NEW p \in Parts, NEW u, NEW v, NEW w,
           Upto(e, p, u, v), Upto(e, p, v, w)
    PROVE  Upto(e, p, u, w)
  <1>1. <<u, v>> \in e[p] /\ <<v, w>> \in e[p] => <<u, w>> \in e[p]
    BY DEF Strict
  <1> QED
    BY <1>1 DEF Upto

LEMMA UptoBoth ==
    ASSUME NEW e, Strict(e), NEW p \in Parts, NEW u, NEW v, Upto(e, p, u, v), Upto(e, p, v, u)
    PROVE  u = v
  <1>1. /\ <<u, v>> \in e[p] /\ <<v, u>> \in e[p] => <<u, u>> \in e[p]
        /\ <<u, u>> \notin e[p]
    BY DEF Strict
  <1> QED
    BY <1>1 DEF Upto

LEMMA NoLaterTrans ==
    ASSUME NEW e, Strict(e), NEW u, NEW v, NEW w, NoLater(e, u, v), NoLater(e, v, w)
    PROVE  NoLater(e, u, w)
  BY UptoTrans DEF NoLater, Parts

\* A relation by which a stream is sorted.
Preorder(R, S) ==
    /\ \A x \in S : <<x, x>> \in R
    /\ \A x, y, z \in S : <<x, y>> \in R /\ <<y, z>> \in R => <<x, z>> \in R

LEMMA Preorders ==
    ASSUME NEW e, Strict(e)
    PROVE  /\ Preorder(CrUpto(e), CRs \cup {None})
           /\ Preorder(SecretsUpto(e), Secrets)
           /\ Preorder(CmUpto(e), ConfigMaps \cup {None})
  <1>1. Preorder(CrUpto(e), CRs \cup {None})
    <2> DEFINE S == CRs \cup {None}
    <2>1. ASSUME NEW x \in S, NEW y \in S
          PROVE  <<x, y>> \in CrUpto(e) <=> Upto(e, "spec", OfResource(x), OfResource(y))
      BY DEF CrUpto
    <2> HIDE DEF S
    <2>2. \A x \in S : <<x, x>> \in CrUpto(e)
      BY <2>1 DEF Upto
    <2>3. ASSUME NEW x \in S, NEW y \in S, NEW z \in S,
                 <<x, y>> \in CrUpto(e), <<y, z>> \in CrUpto(e)
          PROVE  <<x, z>> \in CrUpto(e)
      <3>1. "spec" \in Parts
        BY DEF Parts
      <3> QED
        BY <2>1, <2>3, <3>1, UptoTrans
    <2> QED
      BY <2>2, <2>3 DEF Preorder, S
  <1>2. Preorder(SecretsUpto(e), Secrets)
    <2> DEFINE Q == {"db", "bus", "dhcp"}
    <2>1. ASSUME NEW x \in Secrets, NEW y \in Secrets
          PROVE  <<x, y>> \in SecretsUpto(e)
                   <=> \A p \in Q : Upto(e, p, OfSecrets(x)[p], OfSecrets(y)[p])
      BY DEF SecretsUpto
    <2>2. \A p \in Q : p \in Parts
      BY DEF Parts
    <2> HIDE DEF Q
    <2>3. \A x \in Secrets : <<x, x>> \in SecretsUpto(e)
      BY <2>1 DEF Upto
    <2>4. ASSUME NEW x \in Secrets, NEW y \in Secrets, NEW z \in Secrets,
                 <<x, y>> \in SecretsUpto(e), <<y, z>> \in SecretsUpto(e)
          PROVE  <<x, z>> \in SecretsUpto(e)
      BY <2>1, <2>2, <2>4, UptoTrans
    <2> QED
      BY <2>3, <2>4 DEF Preorder
  <1>3. Preorder(CmUpto(e), ConfigMaps \cup {None})
    <2> DEFINE S == ConfigMaps \cup {None}
    <2>1. ASSUME NEW x \in S, NEW y \in S
          PROVE  <<x, y>> \in CmUpto(e) <=>
                   (x # None => y # None /\ NoLater(e, Rendered(x.data), Rendered(y.data)))
      BY DEF CmUpto
    <2> HIDE DEF S
    <2>2. \A x \in S : <<x, x>> \in CmUpto(e)
      BY <2>1 DEF NoLater, Upto
    <2>3. ASSUME NEW x \in S, NEW y \in S, NEW z \in S,
                 <<x, y>> \in CmUpto(e), <<y, z>> \in CmUpto(e)
          PROVE  <<x, z>> \in CmUpto(e)
      BY <2>1, <2>3, NoLaterTrans
    <2> QED
      BY <2>2, <2>3 DEF Preorder, S
  <1> QED
    BY <1>1, <1>2, <1>3

\* What a step may do to a stream.
StreamMove(s, t, S) ==
    \/ t = s
    \/ Len(s) > 1 /\ t = Tail(s)
    \/ t = <<Live(s)>>
    \/ \E x \in S : t = Append(s, x)

\* A stream stays sorted if its live version does not go back; the cache does not
\* go back either.
LEMMA AscendsOn ==
    ASSUME NEW S, NEW R, Preorder(R, S), NEW s \in Seq(S), s # <<>>, Ascends(s, R),
           NEW t, StreamMove(s, t, S), <<Live(s), Live(t)>> \in R
    PROVE  Ascends(t, R) /\ <<Cached(s), Cached(t)>> \in R
  <1>0. /\ Len(s) \in Nat \ {0} /\ 1 \in 1..Len(s) /\ Cached(s) = s[1]
        /\ Len(s) \in 1..Len(s) /\ Live(s) = s[Len(s)]
        /\ \A i \in 1..Len(s) : s[i] \in S
    BY StreamType DEF Live, Cached
  <1>1. CASE t = s
    BY <1>0, <1>1 DEF Preorder
  <1>2. CASE Len(s) > 1 /\ t = Tail(s)
    <2>1. \A i \in 1..Len(t) : t[i] = s[i + 1] /\ i + 1 \in 1..Len(s)
      BY <1>2, TailElements
    <2>2. Cached(t) = s[2] /\ 2 \in 1..Len(s)
      BY <1>0, <1>2, StreamTail
    <2>3. ASSUME NEW i \in 1..Len(t), NEW j \in 1..Len(t), i <= j
          PROVE  <<t[i], t[j]>> \in R
      <3>1. i + 1 \in 1..Len(s) /\ j + 1 \in 1..Len(s) /\ i + 1 <= j + 1
        BY <2>1, <2>3
      <3> QED
        BY <2>1, <3>1 DEF Ascends
    <2>4. <<s[1], s[2]>> \in R
      BY <1>0, <2>2 DEF Ascends
    <2> QED
      BY <1>0, <2>2, <2>3, <2>4 DEF Ascends
  <1>3. CASE t = <<Live(s)>>
    <2>1. Len(t) = 1 /\ t[1] = Live(s) /\ Cached(t) = Live(s)
      BY <1>3, StreamRelist, RelistElements
    <2>2. <<Live(s), Live(s)>> \in R
      BY <1>0 DEF Preorder
    <2>3. <<s[1], s[Len(s)]>> \in R
      BY <1>0 DEF Ascends
    <2>4. Ascends(t, R)
      BY <2>1, <2>2 DEF Ascends
    <2> QED
      BY <1>0, <2>1, <2>3, <2>4
  <1>4. ASSUME NEW x \in S, t = Append(s, x)
        PROVE  Ascends(t, R) /\ <<Cached(s), Cached(t)>> \in R
    <2>1. /\ Len(t) = Len(s) + 1
          /\ \A i \in 1..Len(s) : t[i] = s[i]
          /\ t[Len(s) + 1] = x
      BY <1>4, AppendElements
    <2>2. Live(t) = x /\ Cached(t) = Cached(s)
      BY <1>4, StreamAppend
    <2>3. <<x, x>> \in R /\ <<s[1], s[1]>> \in R
      BY <1>0 DEF Preorder
    <2>4. ASSUME NEW i \in 1..Len(s) PROVE <<s[i], x>> \in R
      <3>1. <<s[i], s[Len(s)]>> \in R /\ <<s[Len(s)], x>> \in R
        BY <1>0, <2>2 DEF Ascends
      <3> QED
        BY <1>0, <3>1 DEF Preorder
    <2>5. ASSUME NEW i \in 1..Len(t), NEW j \in 1..Len(t), i <= j
          PROVE  <<t[i], t[j]>> \in R
      <3>1. CASE j \in 1..Len(s)
        <4>1. i \in 1..Len(s)
          BY <1>0, <2>5, <3>1
        <4> QED
          BY <2>1, <2>5, <3>1, <4>1 DEF Ascends
      <3>2. CASE j = Len(s) + 1 /\ i \in 1..Len(s)
        BY <2>1, <2>4, <3>2
      <3>3. CASE j = Len(s) + 1 /\ i = Len(s) + 1
        BY <2>1, <2>3, <3>3
      <3> QED
        BY <1>0, <2>1, <3>1, <3>2, <3>3
    <2> QED
      BY <1>0, <2>2, <2>3, <2>5 DEF Ascends
  <1> QED
    BY <1>1, <1>2, <1>3, <1>4 DEF StreamMove

-------------------------------------------------------------------------------
(* Matches are fresh: every step goes forward *)

Reading == {"ensureDB", "ensureMessageBus", "generateConfigFiles", "ensureConfigMap"}

\* Every part of h is that of u or that of v.
Mixes(h, u, v) ==
    /\ h.spec \in {u.spec, v.spec} /\ h.neutron \in {u.neutron, v.neutron}
    /\ h.db \in {u.db, v.db} /\ h.bus \in {u.bus, v.bus} /\ h.dhcp \in {u.dhcp, v.dhcp}

\* Reconcile reads a part from a cache, and keeps or drops the others.
LEMMA HeldMoves ==
    ASSUME TypeInv, [Next]_vars
    PROVE  Mixes(Held', Held, CachedInputs')
  <1> USE DEF TypeInv
  <1>0. /\ r \in Locals /\ (pc # "idle" => r.inst \in CRs)
        /\ pc = "generateConfigFiles" => r.db \in DbConns
    BY DEF TypeOK, LocalsOK
  <1>1. CASE pc' \notin Reading
    BY <1>1 DEF Held, Mixes, Reading, CachedInputs, Offered
  <1>2. CASE UNCHANGED <<pc, r>>
    BY <1>2 DEF Held, Mixes, CachedInputs, Offered, Rendered
  <1>3. CASE FetchInstance
    <2>1. CASE pc' = "ensureDB" /\ r' = [NoLocals EXCEPT !.inst = Cached(cr)]
      <3>1. r'.inst = Cached(cr) /\ Cached(cr') = Cached(cr)
        BY <1>3, <2>1 DEF NoLocals, FetchInstance
      <3>2. OfResource(r'.inst) = CachedInputs'.spec
        BY <3>1 DEF CachedInputs, Offered, Cached, OfResource
      <3> QED
        BY <2>1, <3>2 DEF Held, Mixes, CachedInputs, Offered
    <2> QED
      BY <1>2, <1>3, <2>1 DEF FetchInstance
  <1>4. CASE ensureDB
    <2> DEFINE db == [host |-> neutron, password |-> Cached(secrets).db]
    <2>1. CASE Proceed("ensureMessageBus",
                       [r EXCEPT !.inst = setCondition(@, "DBReady"), !.db = db])
      <3>1. pc = "ensureDB" /\ pc' = "ensureMessageBus" /\ UNCHANGED <<cr, secrets, neutron>>
        BY <1>4, <2>1 DEF ensureDB, Proceed
      <3>2. r'.inst = setCondition(r.inst, "DBReady") /\ r'.db = db
        BY <1>0, <2>1 DEF Proceed, Locals
      <3>3. OfResource(r'.inst) = OfResource(r.inst)
        BY <1>0, <3>1, <3>2, ConditionType, ReconcilerAssumption DEF OfResource, Conditions
      <3>4. r'.db.host = CachedInputs'.neutron /\ r'.db.password = CachedInputs'.db
        BY <3>1, <3>2 DEF CachedInputs, Offered, OfSecrets, Cached
      <3> QED
        BY <3>1, <3>3, <3>4 DEF Held, Mixes, CachedInputs, Offered
    <2> QED
      BY <1>1, <1>4, <2>1 DEF ensureDB, Requeue, Reading
  <1>5. CASE ensureMessageBus
    <2>1. ASSUME NEW inst \in {r.inst, setCondition(r.inst, "RabbitMQReady")}, NEW bus,
                 bus = OfSecrets(Cached(secrets)).bus,
                 Proceed("generateConfigFiles", [r EXCEPT !.inst = inst, !.bus = bus])
          PROVE  Mixes(Held', Held, CachedInputs')
      <3>1. /\ pc = "ensureMessageBus" /\ pc' = "generateConfigFiles"
            /\ UNCHANGED <<cr, secrets, neutron>>
        BY <1>5, <2>1 DEF ensureMessageBus, Proceed
      <3>2. r'.inst = inst /\ r'.bus = bus /\ r'.db = r.db
        BY <1>0, <2>1 DEF Proceed, Locals
      <3>3. OfResource(r'.inst) = OfResource(r.inst)
        BY <1>0, <3>1, <3>2, ConditionType, ReconcilerAssumption DEF OfResource, Conditions
      <3>4. r'.bus = CachedInputs'.bus
        BY <2>1, <3>1, <3>2 DEF CachedInputs, Offered, Cached, OfSecrets
      <3> QED
        BY <3>1, <3>2, <3>3, <3>4 DEF Held, Mixes, CachedInputs, Offered
    <2>2. CASE Cached(secrets).bus = NoKey /\ Proceed("generateConfigFiles", [r EXCEPT !.bus = ""])
      <3>1. OfSecrets(Cached(secrets)).bus = ""
        BY <2>2 DEF OfSecrets
      <3>2. [r EXCEPT !.bus = ""] = [r EXCEPT !.inst = r.inst, !.bus = ""]
        BY <1>0 DEF Locals
      <3> QED
        BY <2>1, <2>2, <3>1, <3>2
    <2>3. CASE /\ Cached(secrets).bus # NoKey
               /\ Proceed("generateConfigFiles",
                          [r EXCEPT !.inst = setCondition(@, "RabbitMQReady"),
                                    !.bus = Cached(secrets).bus])
      <3>1. OfSecrets(Cached(secrets)).bus = Cached(secrets).bus
        BY <2>3 DEF OfSecrets
      <3> QED
        BY <2>1, <2>3, <3>1
    <2> QED
      BY <1>1, <1>5, <2>2, <2>3 DEF ensureMessageBus, Requeue, Reading
  <1>6. CASE RenderConfigFiles
    <2> DEFINE rabbit == getNeutronRabbitConfig(Cached(secrets).dhcp)
               files == generateConfigFiles(r.inst.spec, r.db, r.bus, rabbit)
    <2>1. CASE Proceed("ensureConfigMap", [r EXCEPT !.files = files, !.db = None, !.bus = None])
      <3>1. /\ pc = "generateConfigFiles" /\ pc' = "ensureConfigMap"
            /\ UNCHANGED <<cr, secrets, neutron>>
        BY <1>6, <2>1 DEF RenderConfigFiles, Proceed
      <3>2. /\ Rendered(files).spec = <<r.inst.spec.conf, r.inst.spec.log # None>>
            /\ Rendered(files).neutron = r.db.host /\ Rendered(files).db = r.db.password
            /\ Rendered(files).bus = r.bus /\ Rendered(files).dhcp = rabbit
        BY DEF Rendered, generateConfigFiles
      <3> HIDE DEF files
      <3>3. r'.files = files
        BY <1>0, <2>1 DEF Proceed, Locals
      <3>4. Held' = Rendered(files)
        BY <3>1, <3>3 DEF Held, Rendered
      <3>5. rabbit = CachedInputs'.dhcp
        BY <3>1 DEF CachedInputs, Offered, OfSecrets, Cached
      <3>6. OfResource(r.inst) = <<r.inst.spec.conf, r.inst.spec.log # None>>
        BY <1>0, <3>1, ReconcilerAssumption DEF OfResource
      <3> QED
        BY <3>1, <3>2, <3>4, <3>5, <3>6 DEF Held, Mixes
    <2> QED
      BY <1>1, <1>6, <2>1 DEF RenderConfigFiles, Requeue, Reading
  <1>7. CASE pc \notin {"idle", "ensureDB", "ensureMessageBus", "generateConfigFiles"}
    BY <1>1, <1>2, <1>7, NextWalks DEF Walk, Reading
  <1>8. CASE \/ UNCHANGED vars \/ SyncCr \/ SyncSts \/ SyncCm \/ SyncClaims \/ SyncSecrets
             \/ Resync \/ Cluster \/ Environment
    BY <1>1, <1>2, <1>8 DEF vars, SyncCr, SyncSts, SyncCm, SyncClaims, SyncSecrets, Resync,
       Cluster, GarbageCollectSts, GarbageCollectCm, StsFinalized, StsCreatesClaim, Environment,
       UserCreatesCr, UserEditsCr, UserDeletesCr, UserDeletesSts, InputChanges, CallFails,
       Restart, Requeue, Reading
  <1>9. CASE \/ ensureConfigMap \/ ensureRabbitMQCaSecret \/ ensureStatefulSet
             \/ ensureLogPVCStorage \/ applyStatefulSet \/ updateStatus
    BY <1>7, <1>9 DEF ensureConfigMap, ensureRabbitMQCaSecret, ensureStatefulSet,
       ensureLogPVCStorage, applyStatefulSet, updateStatus
  <1> QED
    BY <1>3, <1>4, <1>5, <1>6, <1>8, <1>9 DEF Next, Reconcile

\* The caches do not go back.
LEMMA CachesAscend ==
    ASSUME NEW e, Strict(e), TypeInv, TypeInv', CrMove, LiveStep, Forward(e), FreshInv(e)
    PROVE  /\ Ascends(cr', CrUpto(e)) /\ Ascends(secrets', SecretsUpto(e))
           /\ NoLater(e, CachedInputs, CachedInputs')
  <1>0. /\ cr \in Seq(CRs \cup {None}) /\ cr # <<>>
        /\ secrets \in Seq(Secrets) /\ secrets # <<>>
        /\ Live(cr) \in CRs \cup {None} /\ Live(secrets) \in Secrets
    BY StreamsTyped DEF TypeInv, TypeOK
  <1>1. Live(cr') \in CRs \cup {None} /\ Live(secrets') \in Secrets
    <2>1. /\ cr' \in Seq(CRs \cup {None}) /\ cr' # <<>>
          /\ secrets' \in Seq(Secrets) /\ secrets' # <<>>
      BY DEF TypeInv, TypeOK
    <2> QED
      BY <2>1, StreamType
  <1>2. LiveInputs' = Offered(Live(cr'), Live(secrets'), neutron')
    BY DEF LiveInputs, Live, Offered, OfResource, OfSecrets
  <1>3. CachedInputs' = Offered(Cached(cr'), Cached(secrets'), neutron')
    BY DEF CachedInputs, Cached, Offered, OfResource, OfSecrets
  <1>4. /\ Upto(e, "spec", OfResource(Live(cr)), OfResource(Live(cr')))
        /\ Upto(e, "neutron", neutron, neutron')
        /\ Upto(e, "db", OfSecrets(Live(secrets)).db, OfSecrets(Live(secrets')).db)
        /\ Upto(e, "bus", OfSecrets(Live(secrets)).bus, OfSecrets(Live(secrets')).bus)
        /\ Upto(e, "dhcp", OfSecrets(Live(secrets)).dhcp, OfSecrets(Live(secrets')).dhcp)
    BY <1>2 DEF Forward, NoLater, LiveInputs, Offered
  <1>5. <<Live(cr), Live(cr')>> \in CrUpto(e)
    BY <1>0, <1>1, <1>4 DEF CrUpto
  <1>6. <<Live(secrets), Live(secrets')>> \in SecretsUpto(e)
    BY <1>0, <1>1, <1>4 DEF SecretsUpto
  <1>7. StreamMove(cr, cr', CRs \cup {None})
    BY DEF CrMove, StreamMove
  <1>8. StreamMove(secrets, secrets', Secrets)
    BY DEF LiveStep, CaStep, StreamMove
  <1>9. Ascends(cr', CrUpto(e)) /\ <<Cached(cr), Cached(cr')>> \in CrUpto(e)
    BY <1>0, <1>5, <1>7, Preorders, AscendsOn DEF FreshInv
  <1>10. Ascends(secrets', SecretsUpto(e)) /\ <<Cached(secrets), Cached(secrets')>> \in SecretsUpto(e)
    BY <1>0, <1>6, <1>8, Preorders, AscendsOn DEF FreshInv
  <1>11. Upto(e, "spec", OfResource(Cached(cr)), OfResource(Cached(cr')))
    BY <1>9 DEF CrUpto
  <1>12. /\ Upto(e, "db", OfSecrets(Cached(secrets)).db, OfSecrets(Cached(secrets')).db)
         /\ Upto(e, "bus", OfSecrets(Cached(secrets)).bus, OfSecrets(Cached(secrets')).bus)
         /\ Upto(e, "dhcp", OfSecrets(Cached(secrets)).dhcp, OfSecrets(Cached(secrets')).dhcp)
    BY <1>10 DEF SecretsUpto
  <1>13. NoLater(e, CachedInputs, CachedInputs')
    BY <1>3, <1>4, <1>11, <1>12 DEF NoLater, CachedInputs, Offered
  <1> QED
    BY <1>9, <1>10, <1>13

\* What is in between of two, each no later than the next, mixes without going back.
LEMMA MixedAscends ==
    ASSUME NEW e, Strict(e), NEW h, NEW u, NEW v, Mixes(h, u, v), NoLater(e, u, v)
    PROVE  NoLater(e, u, h) /\ NoLater(e, h, v)
  BY DEF Mixes, NoLater, Upto

\* What is published does not go back: ensureConfigMap writes what Reconcile holds.
LEMMA PublishedAscends ==
    ASSUME NEW e, Strict(e), TypeInv, CmStep, FreshInv(e)
    PROVE  /\ Ascends(cm', CmUpto(e))
           /\ Live(cm') # None => NoLater(e, Rendered(Live(cm').data), Held)
  <1>0. /\ cm \in Seq(ConfigMaps \cup {None}) /\ cm # <<>>
        /\ Live(cm) \in ConfigMaps \cup {None}
    BY StreamsTyped DEF TypeInv, TypeOK
  <1>1. StreamMove(cm, cm', ConfigMaps \cup {None})
    BY DEF CmStep, StreamMove
  <1>2. <<Live(cm), Live(cm)>> \in CmUpto(e)
    BY <1>0, Preorders DEF Preorder
  <1>3. CASE Live(cm') = Live(cm)
    <2>1. Ascends(cm', CmUpto(e))
      BY <1>0, <1>1, <1>2, <1>3, Preorders, AscendsOn DEF FreshInv
    <2> QED
      BY <1>3, <2>1 DEF FreshInv
  <1>4. ASSUME pc = "ensureConfigMap", NEW x \in ConfigMaps, cm' = Append(cm, x), x.data = r.files
        PROVE  /\ Ascends(cm', CmUpto(e))
               /\ Live(cm') # None => NoLater(e, Rendered(Live(cm').data), Held)
    <2>1. Live(cm') = x /\ x # None
      BY <1>0, <1>4, StreamAppend, ReconcilerAssumption
    <2>2. Held = Rendered(x.data)
      BY <1>4 DEF Held
    <2>3. <<Live(cm), x>> \in CmUpto(e)
      BY <1>0, <2>1, <2>2 DEF CmUpto, FreshInv
    <2>4. Ascends(cm', CmUpto(e))
      BY <1>0, <1>1, <2>1, <2>3, Preorders, AscendsOn DEF FreshInv
    <2>5. NoLater(e, Rendered(x.data), Held)
      BY <2>2 DEF NoLater, Upto
    <2> QED
      BY <2>1, <2>4, <2>5
  <1> QED
    BY <1>0, <1>3, <1>4, StreamTail, StreamRelist DEF CmStep

\* Every step keeps the order of what is published, held and offered.
LEMMA NextFresh ==
    ASSUME NEW e, Strict(e), Deletes = FALSE, ControllerInv, FreshInv(e),
           [Next]_vars, [Forward(e)]_vars
    PROVE  FreshInv(e)'
  <1>1. TypeInv /\ TypeInv' /\ CrMove /\ LiveStep
    BY NextType, NextMoves, NextLive DEF ControllerInv, OrderInv, Moves
  <1>2. Forward(e)
    <2>1. CASE UNCHANGED vars
      <3>1. LiveInputs' = LiveInputs
        BY <2>1 DEF vars, LiveInputs, Live, Offered, OfResource, OfSecrets
      <3> QED
        BY <3>1 DEF Forward, NoLater, Upto
    <2> QED
      BY <2>1
  <1>3. /\ Ascends(cr', CrUpto(e)) /\ Ascends(secrets', SecretsUpto(e))
        /\ NoLater(e, CachedInputs, CachedInputs')
    BY <1>1, <1>2, CachesAscend
  <1>4. /\ Ascends(cm', CmUpto(e))
        /\ Live(cm') # None => NoLater(e, Rendered(Live(cm').data), Held)
    BY <1>1, PublishedAscends DEF LiveStep
  <1>5. NoLater(e, Held, CachedInputs')
    BY <1>3, NoLaterTrans DEF FreshInv
  <1>6. NoLater(e, Held, Held') /\ NoLater(e, Held', CachedInputs')
    BY <1>1, <1>5, HeldMoves, MixedAscends
  <1>7. Live(cm') # None => NoLater(e, Rendered(Live(cm').data), Held')
    BY <1>4, <1>6, NoLaterTrans
  <1> QED
    BY <1>3, <1>4, <1>6, <1>7 DEF FreshInv

LEMMA InitFresh ==
    ASSUME NEW e, Strict(e), Init, Since(e)
    PROVE  FreshInv(e)
  <1>1. TypeInv /\ pc = "idle"
    BY InitType DEF Init
  <1>2. /\ cr \in Seq(CRs \cup {None}) /\ Len(cr) = 1
        /\ secrets \in Seq(Secrets) /\ Len(secrets) = 1
        /\ cm \in Seq(ConfigMaps \cup {None}) /\ Len(cm) = 1
    BY <1>1 DEF Init, TypeInv, TypeOK
  <1>3. ASSUME NEW S, NEW R, Preorder(R, S), NEW s \in Seq(S), Len(s) = 1
        PROVE  Ascends(s, R) /\ Cached(s) = Live(s)
    <2>1. s[1] \in S /\ Cached(s) = s[1] /\ Live(s) = s[1]
      BY <1>3 DEF Cached, Live
    <2>2. <<s[1], s[1]>> \in R
      BY <1>3, <2>1 DEF Preorder
    <2> QED
      BY <1>3, <2>1, <2>2 DEF Ascends
  <1>4. /\ Ascends(cr, CrUpto(e)) /\ Cached(cr) = Live(cr)
        /\ Ascends(secrets, SecretsUpto(e)) /\ Cached(secrets) = Live(secrets)
        /\ Ascends(cm, CmUpto(e))
    BY <1>2, <1>3, Preorders
  <1>5. CachedInputs = LiveInputs
    BY <1>4 DEF CachedInputs, LiveInputs
  <1>6. Held = CachedInputs
    BY <1>1 DEF Held, CachedInputs, Offered
  <1>7. NoLater(e, CachedInputs, CachedInputs)
    BY DEF NoLater, Upto
  <1> QED
    BY <1>4, <1>5, <1>6, <1>7 DEF FreshInv, Since

\* The files between two equal ones are equal to them.
LEMMA MatchIsFresh ==
    ASSUME NEW e, Strict(e), TypeInv, FreshInv(e)
    PROVE  FreshMatch
  <1> SUFFICES ASSUME pc = "ensureConfigMap", Cached(cm) # None, Cached(cm).data = r.files
               PROVE  Live(cm) # None /\ Live(cm).data = r.files
    BY DEF FreshMatch
  <1>1. /\ cm \in Seq(ConfigMaps \cup {None}) /\ cm # <<>> /\ r.files \in Files
        /\ Cached(cm) \in ConfigMaps \cup {None} /\ Live(cm) \in ConfigMaps \cup {None}
    BY StreamsTyped DEF TypeInv, TypeOK, LocalsOK
  <1>2. <<Cached(cm), Live(cm)>> \in CmUpto(e)
    <2>1. /\ 1 \in 1..Len(cm) /\ Len(cm) \in 1..Len(cm) /\ 1 <= Len(cm)
          /\ Cached(cm) = cm[1] /\ Live(cm) = cm[Len(cm)]
      BY <1>1, StreamType DEF Cached, Live
    <2> QED
      BY <2>1 DEF FreshInv, Ascends
  <1>3. Live(cm) # None /\ NoLater(e, Rendered(Cached(cm).data), Rendered(Live(cm).data))
    BY <1>2 DEF CmUpto
  <1>4. Held = Rendered(r.files)
    BY DEF Held
  <1>5. NoLater(e, Rendered(Live(cm).data), Rendered(r.files))
    BY <1>3, <1>4 DEF FreshInv
  <1> DEFINE f == Live(cm).data
             g == r.files
  <1>6. NoLater(e, Rendered(g), Rendered(f)) /\ NoLater(e, Rendered(f), Rendered(g))
    BY <1>3, <1>5
  <1>7. f \in Files /\ g \in Files
    BY <1>1, <1>3 DEF ConfigMaps
  <1> HIDE DEF f, g
  <1>8. /\ Rendered(f).spec = Rendered(g).spec /\ Rendered(f).neutron = Rendered(g).neutron
        /\ Rendered(f).db = Rendered(g).db /\ Rendered(f).bus = Rendered(g).bus
        /\ Rendered(f).dhcp = Rendered(g).dhcp
    BY <1>6, UptoBoth DEF NoLater, Parts
  <1>9. /\ f.conf = g.conf /\ f.logToDisk = g.logToDisk
        /\ f.db.host = g.db.host /\ f.db.password = g.db.password
        /\ f.bus = g.bus /\ f.rabbit = g.rabbit
    BY <1>8 DEF Rendered
  <1>10. f.db \in DbConns /\ g.db \in DbConns
    BY <1>7 DEF Files
  <1>11. f.db = g.db
    BY <1>9, <1>10 DEF DbConns
  <1>12. f = g
    <2>1. /\ f = [conf |-> f.conf, db |-> f.db, bus |-> f.bus, rabbit |-> f.rabbit,
                  logToDisk |-> f.logToDisk]
          /\ g = [conf |-> g.conf, db |-> g.db, bus |-> g.bus, rabbit |-> g.rabbit,
                  logToDisk |-> g.logToDisk]
      BY <1>7 DEF Files
    <2> QED
      BY <1>9, <1>11, <2>1
  <1> QED
    BY <1>3, <1>12 DEF f, g

\* A ConfigMap that ensureConfigMap leaves alone because the cached data match is live
\* with the same data, on caches of any age, with lost replies and restarts, as long as
\* no input returns to a value it had before and nobody deletes the resource.  The
\* order e is that in which the values of the inputs appear: a behaviour has one in
\* which Forward holds exactly if nothing returns.
THEOREM MatchesAreFresh ==
    ASSUME Deletes = FALSE, NEW e, Strict(e)
    PROVE  Spec /\ NeverReturns(e) => []FreshMatch
  <1> DEFINE Inv == ControllerInv /\ FreshInv(e)
  <1>1. Init /\ Since(e) => Inv
    BY InitController, InitFresh
  <1>2. Inv /\ [Next]_vars /\ [Forward(e)]_vars => Inv'
    BY NextController, NextFresh
  <1>3. Inv => FreshMatch
    BY MatchIsFresh DEF ControllerInv
  <1> QED
    BY <1>1, <1>2, <1>3, PTL DEF Spec, NeverReturns

\* As long as no input returns to a value it had before, AimReady appears only next to
\* a spec that both the StatefulSet and the ConfigMap have, and the pods are rolled
\* only to the configuration that is published at that moment.
THEOREM RolloutIsHonest ==
    ASSUME Deletes = FALSE, NEW e, Strict(e)
    PROVE  Spec /\ NeverReturns(e) => ReadyMeansApplied /\ ImplementsConfigRollout
  <1>1. Spec /\ NeverReturns(e) => []FreshMatch
    BY MatchesAreFresh
  <1>2. Spec /\ []FreshMatch => ReadyMeansApplied
    BY ReadyIsApplied
  <1>3. Spec /\ []FreshMatch => ImplementsConfigRollout
    BY ControllerImplementsConfigRollout
  <1> QED
    BY <1>1, <1>2, <1>3
===============================================================================
