------------------------- MODULE AimReconcilerProofs -------------------------
(***************************************************************************)
(* Theorems about AimReconciler for every set of specs, inputs and         *)
(* ordinals and every bound on edits and faults.                           *)
(***************************************************************************)
EXTENDS AimRefinement, TLAPS

-------------------------------------------------------------------------------
(* Watch streams *)

\* A stream always has a cached and a live version of its type.
LEMMA StreamType ==
    ASSUME NEW S, NEW s \in Seq(S), s # <<>>
    PROVE  /\ Len(s) \in Nat \ {0}
           /\ Live(s) \in S
           /\ Cached(s) \in S
           /\ \A i \in 1..Len(s) : s[i] \in S
  BY DEF Live, Cached

\* A write is typed and becomes the live version.
LEMMA StreamAppend ==
    ASSUME NEW S, NEW s \in Seq(S), s # <<>>, NEW x \in S
    PROVE  /\ Append(s, x) \in Seq(S)
           /\ Append(s, x) # <<>>
           /\ Live(Append(s, x)) = x
           /\ Cached(Append(s, x)) = Cached(s)
  BY DEF Live, Cached

\* The delivery of an event keeps the live version.
LEMMA StreamTail ==
    ASSUME NEW S, NEW s \in Seq(S), Len(s) > 1
    PROVE  /\ Tail(s) \in Seq(S)
           /\ Tail(s) # <<>>
           /\ Live(Tail(s)) = Live(s)
           /\ Cached(Tail(s)) = s[2]
  BY DEF Live, Cached

\* A relist after a restart keeps the live version.
LEMMA StreamRelist ==
    ASSUME NEW S, NEW s \in Seq(S), s # <<>>
    PROVE  /\ <<Live(s)>> \in Seq(S)
           /\ <<Live(s)>> # <<>>
           /\ Live(<<Live(s)>>) = Live(s)
           /\ Cached(<<Live(s)>>) = Live(s)
  BY DEF Live, Cached

\* Elements of the stream after a write, an event and a relist.
LEMMA AppendElements ==
    ASSUME NEW S, NEW s \in Seq(S), s # <<>>, NEW x \in S
    PROVE  /\ Len(Append(s, x)) = Len(s) + 1 /\ Len(s) \in Nat \ {0}
           /\ \A i \in 1..Len(s) : Append(s, x)[i] = s[i]
           /\ Append(s, x)[Len(s) + 1] = x
  OBVIOUS

LEMMA TailElements ==
    ASSUME NEW S, NEW s \in Seq(S), Len(s) > 1
    PROVE  /\ Len(Tail(s)) = Len(s) - 1 /\ Len(s) \in Nat
           /\ \A i \in 1..Len(Tail(s)) : Tail(s)[i] = s[i + 1] /\ i + 1 \in 1..Len(s)
  OBVIOUS

LEMMA RelistElements ==
    ASSUME NEW S, NEW s \in Seq(S), s # <<>>
    PROVE  /\ Len(<<Live(s)>>) = 1 /\ <<Live(s)>>[1] = Live(s)
           /\ Len(s) \in 1..Len(s) /\ Live(s) = s[Len(s)]
  BY DEF Live

-------------------------------------------------------------------------------
(* What the builders return *)

\* The StatefulSet built from a spec that parses is well formed once stored.
LEMMA BuiltType ==
    ASSUME NEW spec \in SpecType, ~StatefulSetFails(spec), NEW f \in Files
    PROVE  Defaulted(StatefulSet(spec, GenerateConfigMapChecksum(f))) \in StsSpecs
  <1>1. VolumeClaimTemplates(spec) \in Seq(Templates)
    <2>1. CASE spec.log = None
      BY <2>1 DEF VolumeClaimTemplates
    <2>2. CASE spec.log # None
      <3>1. spec.log.size \in Nat /\ spec.log.class \in Classes \cup {None}
        BY <2>2 DEF SpecType, LogSpecs, StatefulSetFails, Sizes, Unparsable
      <3>2. LogVolumeClaimTemplate(spec.log) \in Templates
        BY <3>1 DEF LogVolumeClaimTemplate, Templates
      <3> QED
        BY <2>2, <3>2 DEF VolumeClaimTemplates
    <2> QED
      BY <2>1, <2>2
  <1>2. GetVolumeMounts(spec) \in Mounts
    BY DEF GetVolumeMounts, Mounts
  <1>3. spec.pod \in Pods /\ spec.replicas \in Nat \cup {None}
    BY DEF SpecType
  <1> QED
    BY <1>1, <1>2, <1>3 DEF Defaulted, StatefulSet, StsSpecs, GenerateConfigMapChecksum

\* So is the found StatefulSet with the mutable fields of the built one.
LEMMA UpdatedType ==
    ASSUME NEW s \in StsSpecs,
           NEW spec \in SpecType, ~StatefulSetFails(spec), NEW f \in Files
    PROVE  Defaulted(UpdatedStatefulSet(s, StatefulSet(spec, GenerateConfigMapChecksum(f))))
              \in StsSpecs
  <1>2. GetVolumeMounts(spec) \in Mounts
    BY DEF GetVolumeMounts, Mounts
  <1>3. spec.pod \in Pods /\ spec.replicas \in Nat \cup {None}
    BY DEF SpecType
  <1> DEFINE d == StatefulSet(spec, GenerateConfigMapChecksum(f))
  <1>4. /\ d.replicas \in Nat
        /\ d.template \in [pod : Pods, checksum : [sha256 : Files], mounts : Mounts]
        /\ d.strategy = None
        /\ d.retention \in {None, "Retain"}
    BY <1>2, <1>3 DEF StatefulSet, GenerateConfigMapChecksum
  <1>5. s.podManagementPolicy \in {"OrderedReady", "Parallel"} /\ s.vct \in Seq(Templates)
    BY DEF StsSpecs
  <1> HIDE DEF d
  <1>6. Defaulted(UpdatedStatefulSet(s, d)) =
           [replicas |-> d.replicas, podManagementPolicy |-> s.podManagementPolicy,
            template |-> d.template, vct |-> s.vct, strategy |-> "RollingUpdate",
            retention |-> "Retain"]
    BY <1>4 DEF Defaulted, UpdatedStatefulSet
  <1> QED
    BY <1>4, <1>5, <1>6 DEF StsSpecs, d

-------------------------------------------------------------------------------
(* Type correctness *)

\* What the locals hold at each step of Reconcile: TypeOK alone allows None.
LocalsOK ==
    /\ pc # "idle" => r.inst \in CRs
    /\ pc \in {"ensureMessageBus", "generateConfigFiles"} => r.db \in DbConns
    /\ pc = "generateConfigFiles" => r.bus \in Vals \cup {""}
    /\ pc \in {"ensureConfigMap", "ensureRabbitMQCaSecret", "ensureStatefulSet",
               "ensureLogPVCStorage", "applyStatefulSet"} => r.files \in Files
    /\ pc \in {"ensureLogPVCStorage", "applyStatefulSet"} =>
          r.found \in StatefulSets /\ ~StatefulSetFails(r.inst.spec)
    /\ pc = "ensureLogPVCStorage" =>
          /\ r.inst.spec.log # None
          /\ r.listed \in ClaimSets
          /\ \A k \in r.todo : r.listed[k] # None

TypeInv == TypeOK /\ LocalsOK

\* The two ways in which Reconcile ends.
LEMMA IdleType ==
    ASSUME pc' = "idle", r' = NoLocals
    PROVE  pc' \in Calls \cup {"idle"} /\ r' \in Locals /\ LocalsOK'
  <1>1. NoLocals \in Locals
    BY DEF NoLocals, Locals
  <1> QED
    BY <1>1 DEF LocalsOK

\* The live and the cached version of every stream are typed.
LEMMA StreamsTyped ==
    ASSUME TypeOK
    PROVE  /\ Live(cr) \in CRs \cup {None} /\ Cached(cr) \in CRs \cup {None}
           /\ Live(sts) \in StatefulSets \cup {None} /\ Cached(sts) \in StatefulSets \cup {None}
           /\ Live(cm) \in ConfigMaps \cup {None} /\ Cached(cm) \in ConfigMaps \cup {None}
           /\ Live(claims) \in ClaimSets /\ Cached(claims) \in ClaimSets
           /\ Live(secrets) \in Secrets /\ Cached(secrets) \in Secrets
  BY StreamType DEF TypeOK

\* A condition that is set leaves the rest of the instance alone.
LEMMA ConditionType ==
    ASSUME NEW i \in CRs, NEW c \in Conditions
    PROVE  /\ setCondition(i, c) \in CRs
           /\ setCondition(i, c).spec = i.spec
           /\ setCondition(i, c).uid = i.uid
           /\ setCondition(i, c).rv = i.rv
  BY DEF setCondition, CRs

\* The steps that read the inputs and render the files.
LEMMA ReadingSteps ==
    ASSUME TypeInv, FetchInstance \/ ensureDB \/ ensureMessageBus \/ RenderConfigFiles
    PROVE  TypeInv'
  <1> USE DEF TypeInv
  <1>1. UNCHANGED <<cr, sts, cm, claims, secrets, neutron, rev, edits, faults>>
    BY DEF FetchInstance, ensureDB, ensureMessageBus, RenderConfigFiles
  <1>2. SUFFICES queued' \in BOOLEAN /\ pc' \in Calls \cup {"idle"} /\ r' \in Locals /\ LocalsOK'
    BY <1>1 DEF TypeOK
  <1>3. CASE FetchInstance
    <2>1. CASE Cached(cr) = None /\ UNCHANGED <<pc, r>>
      BY <1>3, <2>1 DEF FetchInstance, LocalsOK, TypeOK
    <2>2. CASE /\ Cached(cr) # None
               /\ pc' = "ensureDB"
               /\ r' = [NoLocals EXCEPT !.inst = Cached(cr)]
      <3>1. Cached(cr) \in CRs
        BY <2>2, StreamsTyped
      <3>2. r' \in Locals /\ r'.inst = Cached(cr)
        BY <2>2, <3>1 DEF NoLocals, Locals
      <3> QED
        BY <1>3, <2>2, <3>1, <3>2 DEF FetchInstance, LocalsOK, Calls
    <2> QED
      BY <1>3, <2>1, <2>2 DEF FetchInstance
  <1>4. CASE ensureDB
    <2>1. CASE Requeue
      BY <2>1, IdleType DEF Requeue
    <2>2. CASE /\ neutron # None /\ Cached(secrets).db \notin {None, NoKey}
               /\ Proceed("ensureMessageBus",
                          [r EXCEPT !.inst = setCondition(@, "DBReady"),
                                    !.db = [host |-> neutron, password |-> Cached(secrets).db]])
      <3>1. r.inst \in CRs /\ r \in Locals
        BY <1>4 DEF ensureDB, LocalsOK, TypeOK
      <3>2. setCondition(r.inst, "DBReady") \in CRs
        BY <3>1, ConditionType DEF Conditions
      <3>3. [host |-> neutron, password |-> Cached(secrets).db] \in DbConns
        BY <2>2, StreamsTyped DEF TypeOK, Secrets, SecretValues, DbConns
      <3>4. /\ r' \in Locals
            /\ r'.inst = setCondition(r.inst, "DBReady")
            /\ r'.db = [host |-> neutron, password |-> Cached(secrets).db]
        BY <2>2, <3>1, <3>2, <3>3 DEF Proceed, Locals
      <3> QED
        BY <2>2, <3>2, <3>3, <3>4 DEF Proceed, LocalsOK, TypeOK, Calls
    <2> QED
      BY <1>4, <2>1, <2>2 DEF ensureDB
  <1>5. CASE ensureMessageBus
    <2>0. r.inst \in CRs /\ r.db \in DbConns /\ r \in Locals
      BY <1>5 DEF ensureMessageBus, LocalsOK, TypeOK
    <2>1. CASE Requeue
      BY <2>1, IdleType DEF Requeue
    <2>2. CASE Proceed("generateConfigFiles", [r EXCEPT !.bus = ""])
      <3>1. r' \in Locals /\ r'.bus = "" /\ r'.inst = r.inst /\ r'.db = r.db
        BY <2>0, <2>2 DEF Proceed, Locals
      <3> QED
        BY <2>0, <2>2, <3>1 DEF Proceed, LocalsOK, TypeOK, Calls
    <2>3. CASE /\ Cached(secrets).bus \notin {None, NoKey}
               /\ Proceed("generateConfigFiles",
                          [r EXCEPT !.inst = setCondition(@, "RabbitMQReady"),
                                    !.bus = Cached(secrets).bus])
      <3>1. setCondition(r.inst, "RabbitMQReady") \in CRs
        BY <2>0, ConditionType DEF Conditions
      <3>2. Cached(secrets).bus \in Vals
        BY <2>3, StreamsTyped DEF Secrets, SecretValues
      <3>3. /\ r' \in Locals
            /\ r'.inst = setCondition(r.inst, "RabbitMQReady")
            /\ r'.bus = Cached(secrets).bus /\ r'.db = r.db
        BY <2>0, <2>3, <3>1, <3>2 DEF Proceed, Locals
      <3> QED
        BY <2>0, <2>3, <3>1, <3>2, <3>3 DEF Proceed, LocalsOK, TypeOK, Calls
    <2> QED
      BY <1>5, <2>1, <2>2, <2>3 DEF ensureMessageBus
  <1>6. CASE RenderConfigFiles
    <2>0. r.inst \in CRs /\ r.db \in DbConns /\ r.bus \in Vals \cup {""} /\ r \in Locals
      BY <1>6 DEF RenderConfigFiles, LocalsOK, TypeOK
    <2>1. CASE Requeue
      BY <2>1, IdleType DEF Requeue
    <2> DEFINE rabbit == getNeutronRabbitConfig(Cached(secrets).dhcp)
               files == generateConfigFiles(r.inst.spec, r.db, r.bus, rabbit)
    <2>2. CASE Proceed("ensureConfigMap", [r EXCEPT !.files = files, !.db = None, !.bus = None])
      <3>1. rabbit \in Vals \cup {"false"}
        BY StreamsTyped DEF getNeutronRabbitConfig, Secrets, SecretValues
      <3>2. files \in Files
        BY <2>0, <3>1 DEF generateConfigFiles, Files, CRs, SpecType
      <3> HIDE DEF files, rabbit
      <3>3. r' \in Locals /\ r'.inst = r.inst /\ r'.files = files
        BY <2>0, <2>2, <3>2 DEF Proceed, Locals
      <3> QED
        BY <2>0, <2>2, <3>2, <3>3 DEF Proceed, LocalsOK, TypeOK, Calls
    <2> QED
      BY <1>6, <2>1, <2>2 DEF RenderConfigFiles
  <1> QED
    BY <1>3, <1>4, <1>5, <1>6

\* ensureConfigMap writes a typed ConfigMap or none.
LEMMA ConfigMapStep ==
    ASSUME TypeInv, ensureConfigMap
    PROVE  TypeInv'
  <1> USE DEF TypeInv
  <1>1. r.inst \in CRs /\ r.files \in Files /\ r \in Locals
    BY DEF ensureConfigMap, LocalsOK, TypeOK
  <1>2. UNCHANGED <<cr, sts, claims, secrets, neutron, edits>>
    BY DEF ensureConfigMap
  <1>3. ASSUME Proceed("ensureRabbitMQCaSecret", r)
        PROVE  /\ queued' \in BOOLEAN /\ pc' \in Calls \cup {"idle"}
               /\ r' \in Locals /\ LocalsOK'
    BY <1>1, <1>3 DEF Proceed, TypeOK, LocalsOK, Calls
  <1>4. ASSUME Requeue
        PROVE  /\ queued' \in BOOLEAN /\ pc' \in Calls \cup {"idle"}
               /\ r' \in Locals /\ LocalsOK'
    BY <1>4, IdleType DEF Requeue
  <1> DEFINE owner == IF Cached(cm) = None THEN SetControllerReference(r.inst)
                      ELSE Cached(cm).owner
             new == [rv |-> NextRev("cm"), owner |-> owner, data |-> r.files]
  <1>5. CASE UNCHANGED <<cm, rev, faults>> /\ (Requeue \/ Proceed("ensureRabbitMQCaSecret", r))
    BY <1>2, <1>3, <1>4, <1>5 DEF TypeOK
  <1>6. CASE /\ cm' = Append(cm, new) /\ Bump("cm")
             /\ Reply("ensureRabbitMQCaSecret", r)
    <2>1. owner \in Nat
      BY <1>1, StreamsTyped DEF SetControllerReference, CRs, ConfigMaps
    <2> HIDE DEF owner
    <2>2. new \in ConfigMaps
      BY <1>1, <2>1 DEF ConfigMaps, NextRev, TypeOK
    <2> HIDE DEF new
    <2>3. cm' \in Seq(ConfigMaps \cup {None}) /\ cm' # <<>>
      <3>1. cm \in Seq(ConfigMaps \cup {None}) /\ cm # <<>> /\ new \in ConfigMaps \cup {None}
        BY <2>2 DEF TypeOK
      <3> QED
        BY <1>6, <3>1, StreamAppend
    <2>4. rev' \in [{"cr", "sts", "cm", "ca"} -> Nat]
      BY <1>6 DEF Bump, NextRev, TypeOK
    <2>5. CASE Proceed("ensureRabbitMQCaSecret", r) /\ UNCHANGED faults
      BY <1>2, <1>3, <2>3, <2>4, <2>5 DEF TypeOK
    <2>6. CASE faults < MaxFaults /\ faults' = faults + 1 /\ Requeue
      <3>1. faults' \in 0..MaxFaults
        BY <2>6, ReconcilerAssumption DEF TypeOK
      <3> QED
        BY <1>2, <1>4, <2>3, <2>4, <2>6, <3>1 DEF TypeOK
    <2> QED
      BY <1>6, <2>5, <2>6 DEF Reply
  <1> QED
    BY <1>5, <1>6 DEF ensureConfigMap

\* ensureRabbitMQCaSecret writes a typed secret or none.
LEMMA CaSecretStep ==
    ASSUME TypeInv, ensureRabbitMQCaSecret
    PROVE  TypeInv'
  <1> USE DEF TypeInv
  <1>1. r.inst \in CRs /\ r.files \in Files /\ r \in Locals
    BY DEF ensureRabbitMQCaSecret, LocalsOK, TypeOK
  <1>2. UNCHANGED <<cr, sts, cm, claims, neutron, edits>>
    BY DEF ensureRabbitMQCaSecret
  <1>3. ASSUME Proceed("ensureStatefulSet", r)
        PROVE  /\ queued' \in BOOLEAN /\ pc' \in Calls \cup {"idle"}
               /\ r' \in Locals /\ LocalsOK'
    BY <1>1, <1>3 DEF Proceed, TypeOK, LocalsOK, Calls
  <1>4. ASSUME Requeue
        PROVE  /\ queued' \in BOOLEAN /\ pc' \in Calls \cup {"idle"}
               /\ r' \in Locals /\ LocalsOK'
    BY <1>4, IdleType DEF Requeue
  <1> DEFINE caCrt == Cached(secrets).rootca
             new == [Live(secrets) EXCEPT !.ca = [rv |-> NextRev("ca"), data |-> caCrt]]
  <1>5. CASE UNCHANGED <<secrets, rev, faults>> /\ (Requeue \/ Proceed("ensureStatefulSet", r))
    BY <1>2, <1>3, <1>4, <1>5 DEF TypeOK
  <1>6. CASE /\ caCrt \notin {None, NoKey}
             /\ secrets' = Append(secrets, new) /\ Bump("ca")
             /\ Reply("ensureStatefulSet", r)
    <2>1. [rv |-> NextRev("ca"), data |-> caCrt] \in CaSecrets
      <3>1. caCrt \in SecretValues
        BY StreamsTyped DEF Secrets
      <3>2. caCrt \in Vals
        BY <1>6, <3>1 DEF SecretValues
      <3>3. NextRev("ca") \in Nat
        BY DEF NextRev, TypeOK
      <3> QED
        BY <3>2, <3>3 DEF CaSecrets
    <2>2. new \in Secrets
      BY <2>1, StreamsTyped DEF Secrets
    <2> HIDE DEF new, caCrt
    <2>3. secrets' \in Seq(Secrets) /\ secrets' # <<>>
      BY <1>6, <2>2, StreamAppend DEF TypeOK
    <2>4. rev' \in [{"cr", "sts", "cm", "ca"} -> Nat]
      BY <1>6 DEF Bump, NextRev, TypeOK
    <2>5. CASE Proceed("ensureStatefulSet", r) /\ UNCHANGED faults
      BY <1>2, <1>3, <2>3, <2>4, <2>5 DEF TypeOK
    <2>6. CASE faults < MaxFaults /\ faults' = faults + 1 /\ Requeue
      <3>1. faults' \in 0..MaxFaults
        BY <2>6, ReconcilerAssumption DEF TypeOK
      <3> QED
        BY <1>2, <1>4, <2>3, <2>4, <2>6, <3>1 DEF TypeOK
    <2> QED
      BY <1>6, <2>5, <2>6 DEF Reply
  <1> QED
    BY <1>5, <1>6 DEF ensureRabbitMQCaSecret

\* A status step is reached with nothing but the instance.
LEMMA StatusLocals ==
    ASSUME TypeInv, pc # "idle"
    PROVE  /\ [NoLocals EXCEPT !.inst = r.inst] \in Locals
           /\ [NoLocals EXCEPT !.inst = r.inst].inst = r.inst
           /\ r.inst \in CRs
  BY DEF TypeInv, LocalsOK, NoLocals, Locals

\* A reply that leads to the status update keeps the locals and faults typed.
LEMMA ReplyStatus ==
    ASSUME TypeInv, pc # "idle", Reply("updateStatus", [NoLocals EXCEPT !.inst = r.inst])
    PROVE  /\ queued' \in BOOLEAN /\ pc' \in Calls \cup {"idle"}
           /\ r' \in Locals /\ LocalsOK' /\ faults' \in 0..MaxFaults
  <1>1. CASE Proceed("updateStatus", [NoLocals EXCEPT !.inst = r.inst]) /\ UNCHANGED faults
    BY <1>1, StatusLocals DEF Proceed, TypeInv, TypeOK, LocalsOK, Calls
  <1>2. CASE faults < MaxFaults /\ faults' = faults + 1 /\ Requeue
    <2>1. faults' \in 0..MaxFaults
      BY <1>2, ReconcilerAssumption DEF TypeInv, TypeOK
    <2> QED
      BY <1>2, <2>1, IdleType DEF Requeue
  <1> QED
    BY <1>1, <1>2 DEF Reply

\* ensureStatefulSet creates a typed StatefulSet or hands a typed one on.
LEMMA StatefulSetStep ==
    ASSUME TypeInv, ensureStatefulSet
    PROVE  TypeInv'
  <1> USE DEF TypeInv
  <1>1. r.inst \in CRs /\ r.files \in Files /\ r \in Locals /\ pc # "idle"
    BY DEF ensureStatefulSet, LocalsOK, TypeOK
  <1>2. UNCHANGED <<cr, cm, claims, secrets, neutron, edits>>
    BY DEF ensureStatefulSet
  <1>3. CASE Requeue /\ UNCHANGED <<sts, rev, faults>>
    <2>1. /\ queued' \in BOOLEAN /\ pc' \in Calls \cup {"idle"}
          /\ r' \in Locals /\ LocalsOK'
      BY <1>3, IdleType DEF Requeue
    <2> QED
      BY <1>2, <1>3, <2>1 DEF TypeOK
  <1> DEFINE new == [uid |-> NextRev("sts"), rv |-> NextRev("sts"),
                     owner |-> SetControllerReference(r.inst),
                     spec |-> Defaulted(Desired), term |-> FALSE]
  <1>4. CASE /\ ~StatefulSetFails(r.inst.spec)
             /\ sts' = Append(sts, new) /\ Bump("sts")
             /\ Reply("updateStatus", [NoLocals EXCEPT !.inst = r.inst])
    <2>1. Defaulted(Desired) \in StsSpecs
      <3>1. r.inst.spec \in SpecType
        BY <1>1 DEF CRs
      <3> QED
        BY <1>1, <1>4, <3>1, BuiltType DEF Desired
    <2>2. SetControllerReference(r.inst) \in Nat /\ NextRev("sts") \in Nat
      BY <1>1 DEF SetControllerReference, CRs, NextRev, TypeOK
    <2>3. new \in StatefulSets
      BY <2>1, <2>2 DEF StatefulSets
    <2> HIDE DEF new
    <2>4. sts' \in Seq(StatefulSets \cup {None}) /\ sts' # <<>>
      BY <1>4, <2>3, StreamAppend DEF TypeOK
    <2>5. rev' \in [{"cr", "sts", "cm", "ca"} -> Nat]
      BY <1>4 DEF Bump, NextRev, TypeOK
    <2>6. /\ queued' \in BOOLEAN /\ pc' \in Calls \cup {"idle"}
          /\ r' \in Locals /\ LocalsOK' /\ faults' \in 0..MaxFaults
      BY <1>1, <1>4, ReplyStatus
    <2> QED
      BY <1>2, <2>4, <2>5, <2>6 DEF TypeOK
  <1> DEFINE listed == IF r.inst.spec.log = None THEN {}
                       ELSE {k \in Ordinals : Cached(claims)[k] # None}
             next == IF listed = {} THEN "applyStatefulSet" ELSE "ensureLogPVCStorage"
             locals == [r EXCEPT !.found = Cached(sts), !.todo = listed,
                                 !.listed = IF listed = {} THEN None ELSE Cached(claims)]
  <1>5. CASE /\ ~StatefulSetFails(r.inst.spec) /\ Cached(sts) # None
             /\ Proceed(next, locals)
             /\ UNCHANGED <<sts, rev, faults>>
    <2>1. Cached(sts) \in StatefulSets /\ Cached(claims) \in ClaimSets
      BY <1>5, StreamsTyped
    <2>2. /\ listed \in SUBSET Ordinals
          /\ listed # {} => r.inst.spec.log # None /\ \A k \in listed : Cached(claims)[k] # None
      OBVIOUS
    <2>3. next \in Calls /\ next \in {"applyStatefulSet", "ensureLogPVCStorage"}
      BY DEF Calls
    <2>4. (next = "ensureLogPVCStorage") = (listed # {})
      OBVIOUS
    <2> HIDE DEF listed, next
    <2>5. /\ r' \in Locals /\ r'.inst = r.inst /\ r'.files = r.files
          /\ r'.found = Cached(sts) /\ r'.todo = listed
          /\ listed # {} => r'.listed = Cached(claims)
      BY <1>1, <1>5, <2>1, <2>2 DEF Proceed, Locals
    <2> HIDE DEF locals
    <2>6. LocalsOK'
      BY <1>1, <1>5, <2>1, <2>2, <2>3, <2>4, <2>5 DEF Proceed, LocalsOK
    <2> QED
      BY <1>2, <1>5, <2>3, <2>5, <2>6 DEF Proceed, TypeOK
  <1> QED
    BY <1>3, <1>4, <1>5 DEF ensureStatefulSet

\* A turn of the loop over the claims writes a typed claim or none.
LEMMA ResizeStep ==
    ASSUME TypeInv, ensureLogPVCStorage
    PROVE  TypeInv'
  <1> USE DEF TypeInv
  <1>1. /\ r.inst \in CRs /\ r.files \in Files /\ r \in Locals /\ r.found \in StatefulSets
        /\ r.listed \in ClaimSets /\ ~StatefulSetFails(r.inst.spec)
        /\ r.inst.spec.log # None /\ \A k \in r.todo : r.listed[k] # None
        /\ r.todo \in SUBSET Ordinals
    BY DEF ensureLogPVCStorage, LocalsOK, TypeOK, Locals
  <1>2. UNCHANGED <<cr, sts, cm, secrets, neutron, rev, edits>>
    BY DEF ensureLogPVCStorage
  <1>3. r.inst.spec.log.size \in Nat
    BY <1>1 DEF CRs, SpecType, LogSpecs, StatefulSetFails, Sizes, Unparsable
  <1>4. ASSUME Requeue
        PROVE  /\ queued' \in BOOLEAN /\ pc' \in Calls \cup {"idle"}
               /\ r' \in Locals /\ LocalsOK'
    BY <1>4, IdleType DEF Requeue
  <1>5. PICK k \in r.todo :
         LET claim == r.listed[k]
             log == r.inst.spec.log
             verdict == prepareLogPVCResize(claim, log.size, log.class)
             rest == r.todo \ {k}
             next == IF rest = {} THEN "applyStatefulSet" ELSE "ensureLogPVCStorage"
             locals == [r EXCEPT !.todo = rest,
                                 !.listed = IF rest = {} THEN None ELSE @]
         IN  \/ /\ verdict = "unchanged"
                /\ Proceed(next, locals)
                /\ UNCHANGED <<claims, faults>>
             \/ /\ verdict = "changed" /\ Live(claims)[k] = claim
                /\ claims' = Append(claims, [Live(claims) EXCEPT ![k].size = log.size])
                /\ Reply(next, locals)
             \/ /\ verdict = "error" \/ (verdict = "changed" /\ Live(claims)[k] # claim)
                /\ Requeue
                /\ UNCHANGED <<claims, faults>>
    BY DEF ensureLogPVCStorage
  <1> DEFINE rest == r.todo \ {k}
             next == IF rest = {} THEN "applyStatefulSet" ELSE "ensureLogPVCStorage"
             locals == [r EXCEPT !.todo = rest, !.listed = IF rest = {} THEN None ELSE @]
             new == [Live(claims) EXCEPT ![k].size = r.inst.spec.log.size]
  <1>6. ASSUME Proceed(next, locals)
        PROVE  /\ queued' \in BOOLEAN /\ pc' \in Calls \cup {"idle"}
               /\ r' \in Locals /\ LocalsOK'
    <2>1. /\ next \in Calls /\ next \in {"applyStatefulSet", "ensureLogPVCStorage"}
          /\ (next = "ensureLogPVCStorage") = (rest # {})
      BY DEF Calls
    <2>2. rest \in SUBSET Ordinals /\ rest \subseteq r.todo
      BY <1>1
    <2> HIDE DEF rest, next
    <2>3. /\ locals \in Locals /\ locals.inst = r.inst /\ locals.files = r.files
          /\ locals.found = r.found /\ locals.todo = rest
          /\ rest # {} => locals.listed = r.listed
      BY <1>1, <2>2 DEF Locals
    <2> HIDE DEF locals
    <2> QED
      BY <1>1, <1>6, <2>1, <2>2, <2>3 DEF Proceed, LocalsOK, TypeOK
  <1>7. CASE UNCHANGED <<claims, faults>> /\ (Requeue \/ Proceed(next, locals))
    BY <1>2, <1>4, <1>6, <1>7 DEF TypeOK
  <1>8. CASE /\ Live(claims)[k] = r.listed[k]
             /\ claims' = Append(claims, new)
             /\ Reply(next, locals)
    <2>1. Live(claims) \in ClaimSets /\ k \in ClaimKeys /\ Live(claims)[k] \in Claims
      BY <1>1, <1>8, StreamsTyped DEF ClaimSets, ClaimKeys
    <2>2. [Live(claims)[k] EXCEPT !.size = r.inst.spec.log.size] \in Claims
      BY <1>3, <2>1 DEF Claims
    <2>3. new \in ClaimSets
      BY <2>1, <2>2 DEF ClaimSets
    <2> HIDE DEF new, locals, next
    <2>4. claims' \in Seq(ClaimSets) /\ claims' # <<>>
      BY <1>8, <2>3, StreamAppend DEF TypeOK
    <2>5. CASE Proceed(next, locals) /\ UNCHANGED faults
      BY <1>2, <1>6, <2>4, <2>5 DEF TypeOK
    <2>6. CASE faults < MaxFaults /\ faults' = faults + 1 /\ Requeue
      <3>1. faults' \in 0..MaxFaults
        BY <2>6, ReconcilerAssumption DEF TypeOK
      <3> QED
        BY <1>2, <1>4, <2>4, <2>6, <3>1 DEF TypeOK
    <2> QED
      BY <1>8, <2>5, <2>6 DEF Reply
  <1> QED
    BY <1>5, <1>7, <1>8

\* Removing a StatefulSet keeps both streams typed.
LEMMA RemoveStsType ==
    ASSUME TypeOK, RemoveSts
    PROVE  /\ sts' \in Seq(StatefulSets \cup {None}) /\ sts' # <<>>
           /\ claims' \in Seq(ClaimSets) /\ claims' # <<>>
  <1> DEFINE none == [k \in ClaimKeys |-> IF k = LegacyClaim THEN Live(claims)[k] ELSE None]
  <1>1. none \in ClaimSets
    BY StreamsTyped DEF ClaimSets
  <1>2. /\ sts \in Seq(StatefulSets \cup {None}) /\ sts # <<>>
        /\ claims \in Seq(ClaimSets) /\ claims # <<>>
    BY DEF TypeOK
  <1>3. sts' = Append(sts, None) /\ (claims' = claims \/ claims' = Append(claims, none))
    BY DEF RemoveSts
  <1> HIDE DEF none
  <1>4. sts' \in Seq(StatefulSets \cup {None}) /\ sts' # <<>>
    <2>1. None \in StatefulSets \cup {None}
      OBVIOUS
    <2> QED
      BY <1>2, <1>3, <2>1, StreamAppend
  <1>5. claims' \in Seq(ClaimSets) /\ claims' # <<>>
    BY <1>1, <1>2, <1>3, StreamAppend
  <1> QED
    BY <1>4, <1>5

\* applyStatefulSet deletes or updates the StatefulSet.
LEMMA ApplyStep ==
    ASSUME TypeInv, applyStatefulSet
    PROVE  TypeInv'
  <1> USE DEF TypeInv
  <1>1. /\ r.inst \in CRs /\ r.files \in Files /\ r \in Locals /\ pc # "idle"
        /\ r.found \in StatefulSets /\ ~StatefulSetFails(r.inst.spec)
    BY DEF applyStatefulSet, LocalsOK, TypeOK
  <1>2. UNCHANGED <<cr, cm, secrets, neutron, edits>>
    BY DEF applyStatefulSet
  <1>3. ASSUME Requeue
        PROVE  /\ queued' \in BOOLEAN /\ pc' \in Calls \cup {"idle"}
               /\ r' \in Locals /\ LocalsOK'
    BY <1>3, IdleType DEF Requeue
  <1>4. CASE DeleteFound(r.found) /\ Requeue /\ UNCHANGED faults
    <2>1. CASE RemoveSts /\ UNCHANGED rev
      BY <1>2, <1>3, <1>4, <2>1, RemoveStsType DEF TypeOK
    <2>2. CASE UNCHANGED <<sts, claims, rev>>
      BY <1>2, <1>3, <1>4, <2>2 DEF TypeOK
    <2> QED
      BY <1>4, <2>1, <2>2 DEF DeleteFound
  <1> DEFINE updated == Defaulted(UpdatedStatefulSet(r.found.spec, Desired))
             new == [r.found EXCEPT !.rv = NextRev("sts"), !.spec = updated]
  <1>5. CASE /\ \/ UNCHANGED <<sts, rev>>
                \/ sts' = Append(sts, new) /\ Bump("sts")
             /\ Reply("updateStatus", [NoLocals EXCEPT !.inst = r.inst])
             /\ UNCHANGED claims
    <2>1. updated \in StsSpecs
      <3>1. r.inst.spec \in SpecType /\ r.found.spec \in StsSpecs
        BY <1>1 DEF CRs, StatefulSets
      <3> QED
        BY <1>1, <3>1, UpdatedType DEF Desired
    <2> HIDE DEF updated
    <2>2. NextRev("sts") \in Nat
      BY DEF NextRev, TypeOK
    <2>3. new \in StatefulSets
      BY <1>1, <2>1, <2>2 DEF StatefulSets
    <2> HIDE DEF new
    <2>4. sts' \in Seq(StatefulSets \cup {None}) /\ sts' # <<>>
      <3>1. sts \in Seq(StatefulSets \cup {None}) /\ sts # <<>> /\ new \in StatefulSets \cup {None}
        BY <2>3 DEF TypeOK
      <3> QED
        BY <1>5, <3>1, StreamAppend
    <2>5. rev' \in [{"cr", "sts", "cm", "ca"} -> Nat]
      BY <1>5 DEF Bump, NextRev, TypeOK
    <2>6. /\ queued' \in BOOLEAN /\ pc' \in Calls \cup {"idle"}
          /\ r' \in Locals /\ LocalsOK' /\ faults' \in 0..MaxFaults
      BY <1>1, <1>5, ReplyStatus
    <2> QED
      BY <1>2, <1>5, <2>4, <2>5, <2>6 DEF TypeOK
  <1>6. CASE Requeue /\ UNCHANGED <<sts, claims, rev, faults>>
    BY <1>2, <1>3, <1>6 DEF TypeOK
  <1> QED
    BY <1>4, <1>5, <1>6 DEF applyStatefulSet

\* updateStatus writes the conditions of the fetched instance.
LEMMA StatusStep ==
    ASSUME TypeInv, updateStatus
    PROVE  TypeInv'
  <1> USE DEF TypeInv
  <1>1. r.inst \in CRs
    BY DEF updateStatus, LocalsOK
  <1>2. UNCHANGED <<sts, cm, claims, secrets, neutron, edits>>
    BY DEF updateStatus
  <1> DEFINE instance == setCondition(r.inst, "AimReady")
             new == [Live(cr) EXCEPT !.rv = NextRev("cr"), !.conds = instance.conds]
  <1>3. CASE Requeue /\ UNCHANGED <<cr, rev, faults>>
    BY <1>2, <1>3, IdleType DEF Requeue, TypeOK
  <1>4. CASE /\ SameVersion(Live(cr), instance)
             /\ \/ UNCHANGED <<cr, rev>>
                \/ cr' = Append(cr, new) /\ Bump("cr")
             /\ Reply("idle", NoLocals)
    <2>1. instance \in CRs
      BY <1>1, ConditionType DEF Conditions
    <2>2. Live(cr) \in CRs /\ NextRev("cr") \in Nat
      BY <1>4, StreamsTyped DEF SameVersion, NextRev, TypeOK
    <2> HIDE DEF instance
    <2>3. new \in CRs
      BY <2>1, <2>2 DEF CRs
    <2> HIDE DEF new
    <2>4. cr' \in Seq(CRs \cup {None}) /\ cr' # <<>>
      <3>1. cr \in Seq(CRs \cup {None}) /\ cr # <<>> /\ new \in CRs \cup {None}
        BY <2>3 DEF TypeOK
      <3> QED
        BY <1>4, <3>1, StreamAppend
    <2>5. rev' \in [{"cr", "sts", "cm", "ca"} -> Nat]
      BY <1>4 DEF Bump, NextRev, TypeOK
    <2>6. pc' = "idle" /\ r' = NoLocals /\ queued' \in BOOLEAN
      BY <1>4 DEF Reply, Proceed, Requeue, TypeOK
    <2>7. faults' \in 0..MaxFaults
      BY <1>4, ReconcilerAssumption DEF Reply, TypeOK
    <2> QED
      BY <1>2, <2>4, <2>5, <2>6, <2>7, IdleType DEF TypeOK
  <1> QED
    BY <1>3, <1>4 DEF updateStatus

\* Watch events, faults and restarts.
LEMMA EventStep ==
    ASSUME TypeInv,
           \/ SyncCr \/ SyncSts \/ SyncCm \/ SyncClaims \/ SyncSecrets \/ Resync
           \/ CallFails \/ Restart
    PROVE  TypeInv'
  <1> USE DEF TypeInv
  <1>0. UNCHANGED <<neutron, rev, edits>>
    BY DEF SyncCr, SyncSts, SyncCm, SyncClaims, SyncSecrets, Resync, CallFails, Restart
  <1>1. CASE SyncCr
    <2>1. cr' \in Seq(CRs \cup {None}) /\ cr' # <<>>
      <3>1. cr \in Seq(CRs \cup {None}) /\ Len(cr) > 1 /\ cr' = Tail(cr)
        BY <1>1 DEF SyncCr, TypeOK
      <3> QED
        BY <3>1, StreamTail
    <2> QED
      BY <1>1, <2>1 DEF SyncCr, TypeOK, LocalsOK
  <1>2. CASE SyncSts
    <2>1. sts' \in Seq(StatefulSets \cup {None}) /\ sts' # <<>>
      <3>1. sts \in Seq(StatefulSets \cup {None}) /\ Len(sts) > 1 /\ sts' = Tail(sts)
        BY <1>2 DEF SyncSts, TypeOK
      <3> QED
        BY <3>1, StreamTail
    <2> QED
      BY <1>2, <2>1 DEF SyncSts, TypeOK, LocalsOK
  <1>3. CASE SyncCm
    <2>1. cm' \in Seq(ConfigMaps \cup {None}) /\ cm' # <<>>
      <3>1. cm \in Seq(ConfigMaps \cup {None}) /\ Len(cm) > 1 /\ cm' = Tail(cm)
        BY <1>3 DEF SyncCm, TypeOK
      <3> QED
        BY <3>1, StreamTail
    <2> QED
      BY <1>3, <2>1 DEF SyncCm, TypeOK, LocalsOK
  <1>4. CASE SyncClaims
    <2>1. claims' \in Seq(ClaimSets) /\ claims' # <<>>
      <3>1. claims \in Seq(ClaimSets) /\ Len(claims) > 1 /\ claims' = Tail(claims)
        BY <1>4 DEF SyncClaims, TypeOK
      <3> QED
        BY <3>1, StreamTail
    <2> QED
      BY <1>4, <2>1 DEF SyncClaims, TypeOK, LocalsOK
  <1>5. CASE SyncSecrets
    <2>1. secrets' \in Seq(Secrets) /\ secrets' # <<>>
      <3>1. secrets \in Seq(Secrets) /\ Len(secrets) > 1 /\ secrets' = Tail(secrets)
        BY <1>5 DEF SyncSecrets, TypeOK
      <3> QED
        BY <3>1, StreamTail
    <2> QED
      BY <1>5, <2>1 DEF SyncSecrets, TypeOK, LocalsOK
  <1>6. CASE Resync
    BY <1>6 DEF Resync, TypeOK, LocalsOK
  <1>7. CASE CallFails
    <2>1. faults' \in 0..MaxFaults
      BY <1>7, ReconcilerAssumption DEF CallFails, TypeOK
    <2> QED
      BY <1>0, <1>7, <2>1, IdleType DEF CallFails, Requeue, TypeOK
  <1>8. CASE Restart
    <2>1. faults' \in 0..MaxFaults
      BY <1>8, ReconcilerAssumption DEF Restart, TypeOK
    <2>2. queued' \in BOOLEAN
      BY <1>8 DEF Restart
    <2>3. /\ cr' \in Seq(CRs \cup {None}) /\ cr' # <<>>
          /\ sts' \in Seq(StatefulSets \cup {None}) /\ sts' # <<>>
          /\ cm' \in Seq(ConfigMaps \cup {None}) /\ cm' # <<>>
          /\ claims' \in Seq(ClaimSets) /\ claims' # <<>>
          /\ secrets' \in Seq(Secrets) /\ secrets' # <<>>
      BY <1>8, StreamRelist DEF Restart, TypeOK
    <2> QED
      BY <1>0, <1>8, <2>1, <2>2, <2>3, IdleType DEF Restart, TypeOK
  <1> QED
    BY <1>1, <1>2, <1>3, <1>4, <1>5, <1>6, <1>7, <1>8

\* Writes of users and of other operators.
LEMMA UserStep ==
    ASSUME TypeInv,
           UserCreatesCr \/ UserEditsCr \/ UserDeletesCr \/ UserDeletesSts \/ InputChanges
    PROVE  TypeInv'
  <1> USE DEF TypeInv
  <1>1. UNCHANGED <<cm, claims, queued, pc, r, faults>>
    BY DEF UserCreatesCr, UserEditsCr, UserDeletesCr, UserDeletesSts, InputChanges
  <1>2. LocalsOK'
    BY <1>1 DEF LocalsOK
  <1>3. edits' \in 0..MaxEdits
    <2>1. Edit
      BY DEF UserCreatesCr, UserEditsCr, UserDeletesCr, UserDeletesSts, InputChanges
    <2> QED
      BY <2>1, ReconcilerAssumption DEF Edit, TypeOK
  <1>4. rev' \in [{"cr", "sts", "cm", "ca"} -> Nat]
    <2>1. UNCHANGED rev \/ Bump("cr") \/ Bump("sts")
      BY DEF UserCreatesCr, UserEditsCr, UserDeletesCr, UserDeletesSts, InputChanges
    <2> QED
      BY <2>1 DEF Bump, NextRev, TypeOK
  <1>5. ASSUME NEW x \in CRs \cup {None}, cr' = Append(cr, x)
        PROVE  cr' \in Seq(CRs \cup {None}) /\ cr' # <<>>
    <2>1. cr \in Seq(CRs \cup {None}) /\ cr # <<>>
      BY DEF TypeOK
    <2> QED
      BY <1>5, <2>1, StreamAppend
  <1>6. CASE UserCreatesCr
    <2>1. PICK spec \in Specs :
             cr' = Append(cr, [uid |-> NextRev("cr"), rv |-> NextRev("cr"), spec |-> spec,
                               conds |-> {}])
      BY <1>6 DEF UserCreatesCr
    <2>2. [uid |-> NextRev("cr"), rv |-> NextRev("cr"), spec |-> spec, conds |-> {}] \in CRs
      BY ReconcilerAssumption DEF CRs, NextRev, TypeOK
    <2>3. cr' \in Seq(CRs \cup {None}) /\ cr' # <<>>
      BY <1>5, <2>1, <2>2
    <2> QED
      BY <1>1, <1>2, <1>3, <1>4, <1>6, <2>3 DEF UserCreatesCr, TypeOK
  <1>7. CASE UserEditsCr
    <2>1. PICK spec \in Specs :
             cr' = Append(cr, [Live(cr) EXCEPT !.rv = NextRev("cr"), !.spec = spec])
      BY <1>7 DEF UserEditsCr
    <2>2. Live(cr) \in CRs /\ NextRev("cr") \in Nat /\ spec \in SpecType
      <3>1. Live(cr) \in CRs
        BY <1>7, StreamsTyped DEF UserEditsCr
      <3>2. NextRev("cr") \in Nat
        BY DEF NextRev, TypeOK
      <3> QED
        BY <3>1, <3>2, ReconcilerAssumption
    <2>3. [Live(cr) EXCEPT !.rv = NextRev("cr"), !.spec = spec] \in CRs
      BY <2>2 DEF CRs
    <2>4. cr' \in Seq(CRs \cup {None}) /\ cr' # <<>>
      BY <1>5, <2>1, <2>3
    <2> QED
      BY <1>1, <1>2, <1>3, <1>4, <1>7, <2>4 DEF UserEditsCr, TypeOK
  <1>8. CASE UserDeletesCr
    <2>1. cr' \in Seq(CRs \cup {None}) /\ cr' # <<>>
      BY <1>5, <1>8 DEF UserDeletesCr
    <2> QED
      BY <1>1, <1>2, <1>3, <1>4, <1>8, <2>1 DEF UserDeletesCr, TypeOK
  <1>9. CASE UserDeletesSts
    <2> DEFINE new == [Live(sts) EXCEPT !.rv = NextRev("sts"), !.term = TRUE]
    <2>1. Live(sts) \in StatefulSets /\ NextRev("sts") \in Nat
      BY <1>9, StreamsTyped DEF UserDeletesSts, NextRev, TypeOK
    <2>2. new \in StatefulSets \cup {None} /\ sts \in Seq(StatefulSets \cup {None}) /\ sts # <<>>
      BY <2>1 DEF StatefulSets, TypeOK
    <2> HIDE DEF new
    <2>3. sts' = Append(sts, new)
      BY <1>9 DEF UserDeletesSts, new
    <2>4. sts' \in Seq(StatefulSets \cup {None}) /\ sts' # <<>>
      BY <2>2, <2>3, StreamAppend
    <2> QED
      BY <1>1, <1>2, <1>3, <1>4, <1>9, <2>4 DEF UserDeletesSts, TypeOK
  <1>10. CASE InputChanges
    <2>1. PICK w \in InputWrites :
            \/ /\ w.input = "neutron" /\ neutron' = w.value /\ UNCHANGED secrets
            \/ /\ w.input # "neutron"
               /\ secrets' = Append(secrets, [Live(secrets) EXCEPT ![w.input] = w.value])
               /\ UNCHANGED neutron
      BY <1>10 DEF InputChanges
    <2>2. /\ w.input \in Inputs /\ w.value \in SecretValues
          /\ w.input = "neutron" => w.value \in Vals \cup {None}
      BY ReconcilerAssumption DEF SecretValues
    <2>3. neutron' \in Vals \cup {None}
      BY <2>1, <2>2 DEF TypeOK
    <2>4. secrets' \in Seq(Secrets) /\ secrets' # <<>>
      <3>1. CASE UNCHANGED secrets
        BY <3>1 DEF TypeOK
      <3>2. CASE /\ w.input # "neutron"
                 /\ secrets' = Append(secrets, [Live(secrets) EXCEPT ![w.input] = w.value])
        <4>1. w.input \in {"db", "bus", "dhcp", "rootca"}
          BY <2>2, <3>2 DEF Inputs, SecretKeys
        <4>2. [Live(secrets) EXCEPT ![w.input] = w.value] \in Secrets
          BY <2>2, <4>1, StreamsTyped DEF Secrets
        <4>3. secrets \in Seq(Secrets) /\ secrets # <<>>
          BY DEF TypeOK
        <4> QED
          BY <3>2, <4>2, <4>3, StreamAppend
      <3> QED
        BY <2>1, <3>1, <3>2
    <2> QED
      BY <1>1, <1>2, <1>3, <1>4, <1>10, <2>3, <2>4 DEF InputChanges, TypeOK
  <1> QED
    BY <1>6, <1>7, <1>8, <1>9, <1>10

\* The garbage collector and the StatefulSet controller.
LEMMA ClusterStep ==
    ASSUME TypeInv, Cluster
    PROVE  TypeInv'
  <1> USE DEF TypeInv
  <1>1. UNCHANGED <<cr, secrets, neutron, rev, queued, pc, r, edits, faults>>
    BY DEF Cluster, GarbageCollectSts, GarbageCollectCm, StsFinalized, StsCreatesClaim
  <1>2. LocalsOK'
    BY <1>1 DEF LocalsOK
  <1>3. CASE GarbageCollectSts \/ StsFinalized
    <2>1. RemoveSts /\ UNCHANGED cm
      BY <1>3 DEF GarbageCollectSts, StsFinalized
    <2> QED
      BY <1>1, <1>2, <2>1, RemoveStsType DEF TypeOK
  <1>4. CASE GarbageCollectCm
    <2>1. /\ cm \in Seq(ConfigMaps \cup {None}) /\ cm # <<>> /\ None \in ConfigMaps \cup {None}
          /\ cm' = Append(cm, None)
      BY <1>4 DEF TypeOK, GarbageCollectCm
    <2>2. cm' \in Seq(ConfigMaps \cup {None}) /\ cm' # <<>>
      BY <2>1, StreamAppend
    <2> QED
      BY <1>1, <1>2, <1>4, <2>2 DEF GarbageCollectCm, TypeOK
  <1>5. CASE StsCreatesClaim
    <2>1. Live(sts) \in StatefulSets /\ Live(sts).spec.vct \in Seq(Templates)
          /\ Live(sts).spec.vct # <<>>
      BY <1>5, StreamsTyped DEF StsCreatesClaim, StatefulSets, StsSpecs
    <2> DEFINE t == Live(sts).spec.vct[1]
               claim == [size |-> t.size,
                         class |-> IF t.class = None THEN ClusterDefault ELSE t.class]
    <2>2. t \in Templates
      BY <2>1
    <2>3. claim \in Claims
      BY <2>2, ReconcilerAssumption DEF Templates, Claims
    <2> HIDE DEF t, claim
    <2>4. PICK k \in Ordinals : claims' = Append(claims, [Live(claims) EXCEPT ![k] = claim])
      BY <1>5 DEF StsCreatesClaim, t, claim
    <2>5. [Live(claims) EXCEPT ![k] = claim] \in ClaimSets
      BY <2>3, StreamsTyped DEF ClaimSets
    <2>6. claims \in Seq(ClaimSets) /\ claims # <<>>
      BY DEF TypeOK
    <2>7. claims' \in Seq(ClaimSets) /\ claims' # <<>>
      BY <2>4, <2>5, <2>6, StreamAppend
    <2> QED
      BY <1>1, <1>2, <1>5, <2>7 DEF StsCreatesClaim, TypeOK
  <1> QED
    BY <1>3, <1>4, <1>5 DEF Cluster

\* The initial state is typed.
LEMMA InitType == Init => TypeInv
  <1> SUFFICES ASSUME Init PROVE TypeInv
    OBVIOUS
  <1>1. r \in Locals /\ LocalsOK
    BY DEF Init, NoLocals, Locals, LocalsOK
  <1>2. secrets \in Seq(Secrets) /\ secrets # <<>>
    <2>1. InitSecrets \in Secrets
      BY ReconcilerAssumption DEF Secrets
    <2> QED
      BY <2>1 DEF Init
  <1>3. claims \in Seq(ClaimSets) /\ claims # <<>>
    <2> DEFINE c == [k \in ClaimKeys |-> IF k = LegacyClaim
                                         THEN [size |-> 1, class |-> ClusterDefault] ELSE None]
    <2>1. c \in ClaimSets
      BY ReconcilerAssumption DEF ClaimSets, Claims
    <2> HIDE DEF c
    <2>2. claims = <<c>>
      BY DEF Init, c
    <2> QED
      BY <2>1, <2>2
  <1>4. PICK spec \in InitSpecs :
          /\ cr = <<IF spec = None THEN None
                    ELSE [uid |-> 1, rv |-> 1, spec |-> spec, conds |-> {}]>>
          /\ \E s \in IF spec = None THEN {None} ELSE InitSts :
                /\ sts = <<IF s = None THEN None
                           ELSE [uid |-> 1, rv |-> 1, owner |-> 1, spec |-> s, term |-> FALSE]>>
                /\ cm = <<IF s = None THEN None
                          ELSE [rv |-> 1, owner |-> 1, data |-> s.template.checksum.sha256]>>
          /\ queued = (spec # None)
    BY DEF Init
  <1>5. cr \in Seq(CRs \cup {None}) /\ cr # <<>>
    <2>1. spec # None => [uid |-> 1, rv |-> 1, spec |-> spec, conds |-> {}] \in CRs
      BY ReconcilerAssumption DEF CRs
    <2> QED
      BY <1>4, <2>1
  <1>6. PICK s \in InitSts \cup {None} :
          /\ sts = <<IF s = None THEN None
                     ELSE [uid |-> 1, rv |-> 1, owner |-> 1, spec |-> s, term |-> FALSE]>>
          /\ cm = <<IF s = None THEN None
                    ELSE [rv |-> 1, owner |-> 1, data |-> s.template.checksum.sha256]>>
    BY <1>4
  <1>7. s # None => s \in StsSpecs /\ s.template.checksum.sha256 \in Files
    BY ReconcilerAssumption DEF StsSpecs
  <1>8. sts \in Seq(StatefulSets \cup {None}) /\ sts # <<>>
    <2>1. s # None => [uid |-> 1, rv |-> 1, owner |-> 1, spec |-> s, term |-> FALSE]
                         \in StatefulSets
      BY <1>7 DEF StatefulSets
    <2> QED
      BY <1>6, <2>1
  <1>9. cm \in Seq(ConfigMaps \cup {None}) /\ cm # <<>>
    <2>1. s # None => [rv |-> 1, owner |-> 1, data |-> s.template.checksum.sha256] \in ConfigMaps
      BY <1>7 DEF ConfigMaps
    <2> QED
      BY <1>6, <2>1
  <1> QED
    BY <1>1, <1>2, <1>3, <1>4, <1>5, <1>8, <1>9, ReconcilerAssumption
    DEF Init, TypeInv, TypeOK, Calls

\* Every step keeps the types.
LEMMA NextType ==
    ASSUME TypeInv, [Next]_vars
    PROVE  TypeInv'
  <1>1. CASE UNCHANGED vars
    BY <1>1 DEF vars, TypeInv, TypeOK, LocalsOK
  <1>2. CASE Reconcile
    BY <1>2, ReadingSteps, ConfigMapStep, CaSecretStep, StatefulSetStep, ResizeStep, ApplyStep,
       StatusStep DEF Reconcile
  <1>3. CASE SyncCr \/ SyncSts \/ SyncCm \/ SyncClaims \/ SyncSecrets \/ Resync
    BY <1>3, EventStep
  <1>4. CASE Cluster
    BY <1>4, ClusterStep
  <1>5. CASE Environment
    BY <1>5, UserStep, EventStep DEF Environment
  <1> QED
    BY <1>1, <1>2, <1>3, <1>4, <1>5 DEF Next

\* The streams, the queue and the locals of Reconcile keep their types: in
\* particular no step of Reconcile dereferences a nil instance, StatefulSet or
\* claim, and no claim gets a size that does not parse.
THEOREM TypeCorrect == Spec => []TypeOK
  <1>1. TypeInv => TypeOK
    BY DEF TypeInv
  <1> QED
    BY InitType, NextType, <1>1, PTL DEF Spec

-------------------------------------------------------------------------------
(* The log claims.  The abstract state of LogClaims is the live version of the claims:  *)
(* every step leaves it alone, grows one claim or provisions one.  That claims only     *)
(* grow follows step by step.                                                           *)

\* What the abstract specification may do to the live claims in one step.
StorageStep == Storage!Next \/ Live(claims') = Live(claims)

\* The initial claims are those of an abstract initial state.
LEMMA InitImplements == Init => Storage!Init
  <1> SUFFICES ASSUME Init PROVE Storage!Init
    OBVIOUS
  <1> DEFINE c == [k \in ClaimKeys |-> IF k = LegacyClaim
                                       THEN [size |-> 1, class |-> ClusterDefault] ELSE None]
  <1>1. claims = <<c>>
    BY DEF Init
  <1> HIDE DEF c
  <1>2. Live(claims) = c
    BY <1>1 DEF Live
  <1>3. c \in [ClaimKeys -> [size : Nat, class : Classes] \cup {None}]
    BY ReconcilerAssumption DEF c
  <1>4. \A k \in Ordinals : c[k] = None
    BY ReconcilerAssumption DEF c, ClaimKeys, LegacyClaim
  <1> QED
    BY <1>2, <1>3, <1>4 DEF Storage!Init, Storage!Keys, ClaimKeys

\* The loop over the claims leaves them, or grows one that is still as listed.
LEMMA ResizeImplements ==
    ASSUME TypeInv, ensureLogPVCStorage
    PROVE  StorageStep
  <1>1. /\ r.inst \in CRs /\ ~StatefulSetFails(r.inst.spec) /\ r.inst.spec.log # None
        /\ \A k \in r.todo : r.listed[k] # None
        /\ r.todo \in SUBSET Ordinals
    BY DEF ensureLogPVCStorage, TypeInv, LocalsOK, TypeOK, Locals
  <1>2. r.inst.spec.log.size \in Nat
    BY <1>1 DEF CRs, SpecType, LogSpecs, StatefulSetFails, Sizes, Unparsable
  <1> DEFINE log == r.inst.spec.log
  <1>3. \/ UNCHANGED claims
        \/ \E k \in r.todo :
             /\ prepareLogPVCResize(r.listed[k], log.size, log.class) = "changed"
             /\ Live(claims)[k] = r.listed[k]
             /\ claims' = Append(claims, [Live(claims) EXCEPT ![k].size = log.size])
    BY DEF ensureLogPVCStorage
  <1>4. CASE UNCHANGED claims
    BY <1>4 DEF StorageStep
  <1>5. ASSUME NEW k \in r.todo,
               prepareLogPVCResize(r.listed[k], log.size, log.class) = "changed",
               Live(claims)[k] = r.listed[k],
               claims' = Append(claims, [Live(claims) EXCEPT ![k].size = log.size])
        PROVE  StorageStep
    <2> DEFINE c == [Live(claims)[k] EXCEPT !.size = log.size]
               new == [Live(claims) EXCEPT ![k] = c]
    <2>1. k \in Ordinals /\ Live(claims) \in ClaimSets /\ Live(claims)[k] \in Claims
      BY <1>1, <1>5, StreamsTyped DEF ClaimSets, ClaimKeys, TypeInv
    <2>2. log.size > Live(claims)[k].size
      BY <1>2, <1>5, <2>1 DEF prepareLogPVCResize, Claims
    <2>3. c \in Claims /\ c.size = log.size /\ c.class = Live(claims)[k].class
      BY <1>2, <2>1 DEF Claims
    <2>4. claims' = Append(claims, new)
      BY <1>5
    <2> HIDE DEF c
    <2>5. new \in ClaimSets
      BY <2>1, <2>3 DEF ClaimSets
    <2>6. /\ new[k] = c /\ DOMAIN new = ClaimKeys
          /\ \A j \in ClaimKeys \ {k} : new[j] = Live(claims)[j]
      BY <2>1 DEF ClaimSets, ClaimKeys
    <2> HIDE DEF new
    <2>7. Live(claims') = new
      <3>1. claims \in Seq(ClaimSets) /\ claims # <<>>
        BY DEF TypeInv, TypeOK
      <3> QED
        BY <2>4, <2>5, <3>1, StreamAppend
    <2>8. c # None /\ Live(claims)[k] # None
      BY <2>1, <2>3, NoneAssumption
    <2>9. Storage!Grow(k)
      BY <2>2, <2>3, <2>6, <2>7, <2>8
      DEF Storage!Grow, Storage!Others, Storage!Keys, ClaimKeys
    <2> QED
      BY <2>1, <2>9 DEF StorageStep, Storage!Next
  <1> QED
    BY <1>3, <1>4, <1>5

\* The StatefulSet controller provisions a claim where there was none.
LEMMA ProvisioningImplements ==
    ASSUME TypeOK, StsCreatesClaim
    PROVE  StorageStep
  <1> DEFINE t == Live(sts).spec.vct[1]
             claim == [size |-> t.size,
                       class |-> IF t.class = None THEN ClusterDefault ELSE t.class]
  <1>1. t \in Templates
    <2>1. Live(sts) \in StatefulSets /\ Live(sts).spec.vct # <<>>
      BY StreamsTyped DEF StsCreatesClaim
    <2>2. Live(sts).spec.vct \in Seq(Templates)
      BY <2>1 DEF StatefulSets, StsSpecs
    <2> QED
      BY <2>1, <2>2
  <1>2. claim \in [size : Nat, class : Classes] /\ claim \in Claims
    BY <1>1, ReconcilerAssumption DEF Templates, Claims
  <1> HIDE DEF t
  <1>3. PICK k \in Ordinals : /\ Live(claims)[k] = None
                              /\ claims' = Append(claims, [Live(claims) EXCEPT ![k] = claim])
    BY DEF StsCreatesClaim, t
  <1> HIDE DEF claim
  <1> DEFINE new == [Live(claims) EXCEPT ![k] = claim]
  <1>4. Live(claims) \in ClaimSets /\ claims \in Seq(ClaimSets) /\ claims # <<>>
    BY StreamsTyped DEF TypeOK
  <1>5. new \in ClaimSets
    BY <1>2, <1>4 DEF ClaimSets
  <1>6. /\ new[k] = claim /\ DOMAIN new = ClaimKeys
        /\ \A j \in ClaimKeys \ {k} : new[j] = Live(claims)[j]
    BY <1>3, <1>4 DEF ClaimSets, ClaimKeys
  <1>7. claims' = Append(claims, new)
    BY <1>3
  <1> HIDE DEF new
  <1>8. Live(claims') = new
    BY <1>4, <1>5, <1>7, StreamAppend
  <1>9. Storage!Provision(k)
    BY <1>2, <1>3, <1>6, <1>8
    DEF Storage!Provision, Storage!Others, Storage!Keys, ClaimKeys
  <1> QED
    BY <1>9 DEF StorageStep, Storage!Next

\* Every step of the controller, its users and the cluster is an abstract step.
LEMMA StepImplements ==
    ASSUME TypeInv, [Next]_vars
    PROVE  StorageStep
  <1> USE DEF TypeInv
  <1>1. CASE UNCHANGED claims
    BY <1>1 DEF StorageStep
  <1>2. CASE ensureLogPVCStorage
    BY <1>2, ResizeImplements
  <1>3. ASSUME RemoveSts, Live(sts) # None PROVE UNCHANGED claims
    <2>1. Live(sts).spec.retention = "Retain"
      BY <1>3, StreamsTyped DEF StatefulSets, StsSpecs
    <2> QED
      BY <1>3, <2>1 DEF RemoveSts
  <1>4. CASE applyStatefulSet
    BY <1>1, <1>3, <1>4 DEF applyStatefulSet, DeleteFound
  <1>5. CASE GarbageCollectSts \/ StsFinalized
    BY <1>1, <1>3, <1>5 DEF GarbageCollectSts, StsFinalized, Orphan
  <1>6. CASE StsCreatesClaim
    BY <1>6, ProvisioningImplements
  <1>7. CASE SyncClaims
    <2>1. claims \in Seq(ClaimSets) /\ Len(claims) > 1 /\ claims' = Tail(claims)
      BY <1>7 DEF SyncClaims, TypeOK
    <2> QED
      BY <2>1, StreamTail DEF StorageStep
  <1>8. CASE Restart
    <2>1. claims \in Seq(ClaimSets) /\ claims # <<>> /\ claims' = <<Live(claims)>>
      BY <1>8 DEF Restart, TypeOK
    <2> QED
      BY <2>1, StreamRelist DEF StorageStep
  <1>9. CASE UNCHANGED vars
    BY <1>1, <1>9 DEF vars
  <1>10. CASE \/ FetchInstance \/ ensureDB \/ ensureMessageBus \/ RenderConfigFiles
              \/ ensureConfigMap \/ ensureRabbitMQCaSecret \/ ensureStatefulSet \/ updateStatus
    BY <1>1, <1>10 DEF FetchInstance, ensureDB, ensureMessageBus, RenderConfigFiles,
       ensureConfigMap, ensureRabbitMQCaSecret, ensureStatefulSet, updateStatus
  <1>11. CASE \/ SyncCr \/ SyncSts \/ SyncCm \/ SyncSecrets \/ Resync \/ GarbageCollectCm
              \/ UserCreatesCr \/ UserEditsCr \/ UserDeletesCr \/ UserDeletesSts
              \/ InputChanges \/ CallFails
    BY <1>1, <1>11 DEF SyncCr, SyncSts, SyncCm, SyncSecrets, Resync, GarbageCollectCm,
       UserCreatesCr, UserEditsCr, UserDeletesCr, UserDeletesSts, InputChanges, CallFails
  <1> QED
    BY <1>2, <1>4, <1>5, <1>6, <1>7, <1>8, <1>9, <1>10, <1>11
    DEF Next, Reconcile, Cluster, Environment

\* The controller implements LogClaims, for any specs, number of pods, staleness of
\* its lists, faults, edits and deletions: a claim is provisioned once and from
\* then on only grows, one claim at a time.
THEOREM ControllerImplementsLogClaims == Spec => ImplementsLogClaims
  <1>1. TypeInv /\ [Next]_vars => [Storage!Next]_(Live(claims))
    <2>1. Live(claims)' = Live(claims')
      BY DEF Live
    <2> QED
      BY <2>1, StepImplements DEF StorageStep
  <1> QED
    BY <1>1, InitType, NextType, InitImplements, PTL
    DEF Spec, ImplementsLogClaims, Storage!Spec

\* No abstract step loses, shrinks or moves a claim.
LEMMA StorageStepGrows ==
    ASSUME TypeInv, TypeInv', StorageStep
    PROVE  GrowingClaims
  <1>1. /\ \A j \in ClaimKeys : Live(claims)[j] # None => Live(claims)[j].size \in Nat
        /\ \A j \in ClaimKeys : Live(claims')[j] # None => Live(claims')[j].size \in Nat
    <2>1. claims' \in Seq(ClaimSets) /\ claims' # <<>>
      BY DEF TypeInv, TypeOK
    <2>2. Live(claims) \in ClaimSets /\ Live(claims') \in ClaimSets
      BY <2>1, StreamsTyped, StreamType DEF TypeInv
    <2> QED
      BY <2>2 DEF ClaimSets, Claims
  <1>2. Live(claims)' = Live(claims')
    BY DEF Live
  <1>3. CASE Live(claims') = Live(claims)
    BY <1>1, <1>3 DEF GrowingClaims
  <1>4. ASSUME NEW k \in Ordinals, Storage!Provision(k)
        PROVE  GrowingClaims
    <2>1. /\ Live(claims)[k] = None
          /\ \A j \in ClaimKeys \ {k} : Live(claims')[j] = Live(claims)[j]
      BY <1>2, <1>4 DEF Storage!Provision, Storage!Others, Storage!Keys, ClaimKeys
    <2> QED
      BY <1>1, <2>1 DEF GrowingClaims
  <1>5. ASSUME NEW k \in Ordinals, Storage!Grow(k)
        PROVE  GrowingClaims
    <2>1. /\ Live(claims)[k] # None /\ Live(claims')[k] # None
          /\ Live(claims')[k].class = Live(claims)[k].class
          /\ Live(claims')[k].size > Live(claims)[k].size
          /\ \A j \in ClaimKeys \ {k} : Live(claims')[j] = Live(claims)[j]
      BY <1>2, <1>5 DEF Storage!Grow, Storage!Others, Storage!Keys, ClaimKeys
    <2>2. Live(claims')[k].size >= Live(claims)[k].size
      <3>1. Live(claims)[k].size \in Nat /\ Live(claims')[k].size \in Nat
        BY <1>1, <2>1 DEF ClaimKeys
      <3> QED
        BY <2>1, <3>1
    <2>3. k # LegacyClaim
      BY ReconcilerAssumption DEF LegacyClaim
    <2> QED
      BY <1>1, <2>1, <2>2, <2>3 DEF GrowingClaims
  <1> QED
    BY <1>3, <1>4, <1>5 DEF StorageStep, Storage!Next

\* No step of the operator, of its users or of the cluster loses, shrinks or
\* moves a log claim, for any number of pods, claims, edits and faults.
THEOREM ClaimsNeverShrink == Spec => ClaimsOnlyGrow
  <1>1. TypeInv /\ TypeInv' /\ [Next]_vars => GrowingClaims
    BY StepImplements, StorageStepGrows
  <1> QED
    BY <1>1, InitType, NextType, PTL DEF Spec, ClaimsOnlyGrow
===============================================================================
