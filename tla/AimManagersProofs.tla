--------------------------- MODULE AimManagersProofs ---------------------------
(***************************************************************************)
(* Two managers.  What was proved of one manager is used twice: for the    *)
(* old one as it stands, for the new one in an instance with the new one's *)
(* streams.  What has to be added is that the two views of the live        *)
(* objects agree, whichever side writes.                                   *)
(***************************************************************************)
EXTENDS AimManagers, AimHistoryProofs, SequenceTheorems

\* The results on one manager, for the new one.
NewP == INSTANCE AimHistoryProofs
          WITH cr <- cr2, sts <- sts2, cm <- cm2, claims <- claims2, secrets <- secrets2,
               queued <- queued2, pc <- pc2, r <- r2

-------------------------------------------------------------------------------
(* The new manager's steps *)

\* The types do not depend on whose streams they describe.
LEMMA SameTypes ==
    /\ NewP!CRs = CRs /\ NewP!StatefulSets = StatefulSets /\ NewP!ConfigMaps = ConfigMaps
    /\ NewP!ClaimSets = ClaimSets /\ NewP!Secrets = Secrets /\ NewP!Calls = Calls
    /\ NewP!Locals = Locals /\ NewP!NoLocals = NoLocals
    /\ NewP!SpecType = SpecType /\ NewP!StsSpecs = StsSpecs /\ NewP!SecretValues = SecretValues
    /\ NewP!Inputs = Inputs /\ NewP!Files = Files /\ NewP!CaSecrets = CaSecrets
    /\ NewP!Claims = Claims /\ NewP!Templates = Templates /\ NewP!LogSpecs = LogSpecs
  BY DEF NewP!CRs, CRs, NewP!StatefulSets, StatefulSets, NewP!ConfigMaps, ConfigMaps,
     NewP!ClaimSets, ClaimSets, NewP!Secrets, Secrets, NewP!Calls, Calls, NewP!Locals, Locals,
     NewP!NoLocals, NoLocals, NewP!SpecType, SpecType, NewP!StsSpecs, StsSpecs,
     NewP!SecretValues, SecretValues, NewP!Inputs, Inputs, NewP!SecretKeys, SecretKeys,
     NewP!Files, Files, NewP!DbConns, DbConns, NewP!CaSecrets, CaSecrets, NewP!Claims, Claims,
     NewP!Templates, Templates, NewP!LogSpecs, LogSpecs, NewP!Sizes, Sizes, NewP!Unparsable,
     Unparsable, NewP!Conditions, Conditions, NewP!Mounts, Mounts, NewP!ClaimKeys, ClaimKeys,
     NewP!LegacyClaim, LegacyClaim

\* What the new manager does is what the results on one manager are about.
LEMMA NewReconcile ==
    ASSUME New!Reconcile
    PROVE  NewP!Reconcile
  <1> USE DEF New!Live, NewP!Live, New!Cached, NewP!Cached, New!NextRev, NewP!NextRev,
         New!Bump, NewP!Bump, New!NoLocals, NewP!NoLocals, New!Proceed, NewP!Proceed,
         New!Requeue, NewP!Requeue, New!Reply, NewP!Reply
  <1>1. ASSUME New!FetchInstance PROVE NewP!FetchInstance
    BY <1>1 DEF New!FetchInstance, NewP!FetchInstance
  <1>2. ASSUME New!ensureDB PROVE NewP!ensureDB
    BY <1>2 DEF New!ensureDB, NewP!ensureDB, New!setCondition, NewP!setCondition
  <1>3. ASSUME New!ensureMessageBus PROVE NewP!ensureMessageBus
    BY <1>3 DEF New!ensureMessageBus, NewP!ensureMessageBus, New!setCondition,
       NewP!setCondition
  <1>4. ASSUME New!RenderConfigFiles PROVE NewP!RenderConfigFiles
    BY <1>4 DEF New!RenderConfigFiles, NewP!RenderConfigFiles, New!generateConfigFilesFails,
       NewP!generateConfigFilesFails, New!generateConfigFiles, NewP!generateConfigFiles,
       New!getNeutronRabbitConfig, NewP!getNeutronRabbitConfig
  <1>5. ASSUME New!ensureConfigMap PROVE NewP!ensureConfigMap
    BY <1>5 DEF New!ensureConfigMap, NewP!ensureConfigMap, New!SetControllerReference,
       NewP!SetControllerReference
  <1>6. ASSUME New!ensureRabbitMQCaSecret PROVE NewP!ensureRabbitMQCaSecret
    BY <1>6 DEF New!ensureRabbitMQCaSecret, NewP!ensureRabbitMQCaSecret
  <1>7. ASSUME New!ensureStatefulSet PROVE NewP!ensureStatefulSet
    BY <1>7 DEF New!ensureStatefulSet, NewP!ensureStatefulSet,
       New!validateVolumeClaimTemplateStorageClassChange,
       NewP!validateVolumeClaimTemplateStorageClassChange, New!Desired, NewP!Desired,
       New!StatefulSet, NewP!StatefulSet, New!GetVolumeMounts, NewP!GetVolumeMounts,
       New!VolumeClaimTemplates, NewP!VolumeClaimTemplates, New!LogVolumeClaimTemplate,
       NewP!LogVolumeClaimTemplate, New!GenerateConfigMapChecksum,
       NewP!GenerateConfigMapChecksum, New!StatefulSetFails, NewP!StatefulSetFails,
       New!Unparsable, NewP!Unparsable, New!SetControllerReference,
       NewP!SetControllerReference, New!Defaulted, NewP!Defaulted
  <1>8. ASSUME New!ensureLogPVCStorage PROVE NewP!ensureLogPVCStorage
    BY <1>8 DEF New!ensureLogPVCStorage, NewP!ensureLogPVCStorage, New!prepareLogPVCResize,
       NewP!prepareLogPVCResize
  <1>9. ASSUME New!applyStatefulSet PROVE NewP!applyStatefulSet
    BY <1>9 DEF New!applyStatefulSet, NewP!applyStatefulSet,
       New!statefulSetRequiresRecreation, NewP!statefulSetRequiresRecreation,
       New!volumeClaimTemplatesEqual, NewP!volumeClaimTemplatesEqual, New!Desired,
       NewP!Desired, New!StatefulSet, NewP!StatefulSet, New!GetVolumeMounts,
       NewP!GetVolumeMounts, New!VolumeClaimTemplates, NewP!VolumeClaimTemplates,
       New!LogVolumeClaimTemplate, NewP!LogVolumeClaimTemplate,
       New!GenerateConfigMapChecksum, NewP!GenerateConfigMapChecksum, New!Defaulted,
       NewP!Defaulted, New!UpdatedStatefulSet, NewP!UpdatedStatefulSet, New!DeleteFound,
       NewP!DeleteFound, New!RemoveSts, NewP!RemoveSts, New!ClaimKeys, NewP!ClaimKeys,
       New!LegacyClaim, NewP!LegacyClaim
  <1>10. ASSUME New!updateStatus PROVE NewP!updateStatus
    BY <1>10 DEF New!updateStatus, NewP!updateStatus, New!setCondition, NewP!setCondition,
       New!SameVersion, NewP!SameVersion, New!StatusChanged, NewP!StatusChanged
  <1> QED
    BY <1>1, <1>2, <1>3, <1>4, <1>5, <1>6, <1>7, <1>8, <1>9, <1>10 DEF New!Reconcile,
       NewP!Reconcile

\* The same for the cluster.
LEMMA NewCluster ==
    ASSUME New!Cluster
    PROVE  NewP!Cluster
  <1> USE DEF New!Live, NewP!Live
  <1>1. ASSUME New!GarbageCollectSts PROVE NewP!GarbageCollectSts
    BY <1>1 DEF New!GarbageCollectSts, NewP!GarbageCollectSts, New!Orphan, NewP!Orphan,
       New!NoOwner, NewP!NoOwner, New!MayCollect, NewP!MayCollect, New!RemoveSts,
       NewP!RemoveSts, New!ClaimKeys, NewP!ClaimKeys, New!LegacyClaim, NewP!LegacyClaim
  <1>2. ASSUME New!GarbageCollectCm PROVE NewP!GarbageCollectCm
    BY <1>2 DEF New!GarbageCollectCm, NewP!GarbageCollectCm, New!Orphan, NewP!Orphan,
       New!NoOwner, NewP!NoOwner, New!MayCollect, NewP!MayCollect
  <1>3. ASSUME New!StsFinalized PROVE NewP!StsFinalized
    BY <1>3 DEF New!StsFinalized, NewP!StsFinalized, New!RemoveSts, NewP!RemoveSts,
       New!ClaimKeys, NewP!ClaimKeys, New!LegacyClaim, NewP!LegacyClaim
  <1>4. ASSUME New!StsCreatesClaim PROVE NewP!StsCreatesClaim
    BY <1>4 DEF New!StsCreatesClaim, NewP!StsCreatesClaim
  <1> QED
    BY <1>1, <1>2, <1>3, <1>4 DEF New!Cluster, NewP!Cluster

\* The same for users and faults.
LEMMA NewEnvironment ==
    ASSUME New!Environment
    PROVE  NewP!Environment
  <1> USE DEF New!Live, NewP!Live, New!NextRev, NewP!NextRev, New!Bump, NewP!Bump,
         New!NoLocals, NewP!NoLocals, New!Requeue, NewP!Requeue
  <1>1. ASSUME New!UserCreatesCr PROVE NewP!UserCreatesCr
    BY <1>1 DEF New!UserCreatesCr, NewP!UserCreatesCr, New!Edit, NewP!Edit
  <1>2. ASSUME New!UserEditsCr PROVE NewP!UserEditsCr
    BY <1>2 DEF New!UserEditsCr, NewP!UserEditsCr, New!Edit, NewP!Edit
  <1>3. ASSUME New!UserDeletesCr PROVE NewP!UserDeletesCr
    BY <1>3 DEF New!UserDeletesCr, NewP!UserDeletesCr, New!Edit, NewP!Edit
  <1>4. ASSUME New!UserDeletesSts PROVE NewP!UserDeletesSts
    BY <1>4 DEF New!UserDeletesSts, NewP!UserDeletesSts, New!Edit, NewP!Edit
  <1>5. ASSUME New!InputChanges PROVE NewP!InputChanges
    BY <1>5 DEF New!InputChanges, NewP!InputChanges, New!Edit, NewP!Edit
  <1>6. ASSUME New!CallFails PROVE NewP!CallFails
    BY <1>6 DEF New!CallFails, NewP!CallFails, New!Calls, NewP!Calls, New!SpecType,
       NewP!SpecType, New!LogSpecs, NewP!LogSpecs, New!Sizes, NewP!Sizes, New!Unparsable,
       NewP!Unparsable, New!StsSpecs, NewP!StsSpecs, New!Files, NewP!Files, New!DbConns,
       NewP!DbConns, New!Mounts, NewP!Mounts, New!Templates, NewP!Templates,
       New!SecretValues, NewP!SecretValues, New!Inputs, NewP!Inputs, New!SecretKeys,
       NewP!SecretKeys, New!CRs, NewP!CRs, New!Conditions, NewP!Conditions,
       New!StatefulSets, NewP!StatefulSets, New!ConfigMaps, NewP!ConfigMaps, New!CaSecrets,
       NewP!CaSecrets
  <1>7. ASSUME New!Restart PROVE NewP!Restart
    BY <1>7 DEF New!Restart, NewP!Restart
  <1> QED
    BY <1>1, <1>2, <1>3, <1>4, <1>5, <1>6, <1>7 DEF New!Environment, NewP!Environment

\* A step of the new manager, of the cluster or of users on the new one's streams.
NewStep == \/ New!Reconcile \/ New!SyncCr \/ New!SyncSts \/ New!SyncCm \/ New!SyncClaims
           \/ New!SyncSecrets \/ New!Cluster \/ New!Environment

LEMMA NewNext ==
    ASSUME NewStep
    PROVE  [NewP!Next]_(NewP!vars)
  <1>1. CASE New!SyncCr \/ New!SyncSts \/ New!SyncCm \/ New!SyncClaims \/ New!SyncSecrets
    BY <1>1 DEF New!SyncCr, NewP!SyncCr, New!SyncSts, NewP!SyncSts, New!SyncCm, NewP!SyncCm,
       New!SyncClaims, NewP!SyncClaims, New!SyncSecrets, NewP!SyncSecrets, New!SecretEvent,
       NewP!SecretEvent, New!Cached, NewP!Cached, New!mapMariaDBSecretToCiscoAciAim,
       NewP!mapMariaDBSecretToCiscoAciAim, New!mapRabbitMQSecretToCiscoAciAim,
       NewP!mapRabbitMQSecretToCiscoAciAim, New!mapNeutronConfigSecretToCiscoAciAim,
       NewP!mapNeutronConfigSecretToCiscoAciAim, NewP!Next
  <1> QED
    BY <1>1, NewReconcile, NewCluster, NewEnvironment DEF NewStep, NewP!Next

-------------------------------------------------------------------------------
(* The streams of the other side *)

\* What is fed has the type of what it is fed from.
LEMMA FedType ==
    ASSUME NEW S, NEW own \in Seq(S), own # <<>>, NEW after \in Seq(S), after # <<>>,
           NEW before \in Seq(S), NEW runs
    PROVE  Fed(own, runs, before, after) \in Seq(S) /\ Fed(own, runs, before, after) # <<>>
  <1>1. CASE runs
    <2> DEFINE rest == SubSeq(after, Len(before) + 1, Len(after))
    <2>1. rest \in Seq(S)
      OBVIOUS
    <2> HIDE DEF rest
    <2>2. own \o rest \in Seq(S) /\ Len(own \o rest) = Len(own) + Len(rest)
      BY <2>1
    <2>3. own \o rest # <<>>
      BY <2>1, <2>2
    <2> QED
      BY <1>1, <2>2, <2>3 DEF Fed, rest
  <1>2. CASE ~runs
    <2>1. Live(after) \in S
      BY StreamType
    <2> QED
      BY <1>2, <2>1 DEF Fed
  <1> QED
    BY <1>1, <1>2

\* The stream of a manager that runs.
Passed(own, before, after) == own \o SubSeq(after, Len(before) + 1, Len(after))

\* A version is passed on; an event, and a fresh list, are the other side's own.
LEMMA PassedOn ==
    ASSUME NEW S, NEW own \in Seq(S), own # <<>>, NEW before \in Seq(S), before # <<>>,
           NEW after \in Seq(S), after # <<>>, Moved(before, after)
    PROVE  \/ Passed(own, before, after) = own /\ Live(after) = Live(before)
           \/ \E x \in S : /\ Passed(own, before, after) = Append(own, x)
                           /\ after = Append(before, x)
  <1>0. Len(before) \in Nat \ {0} /\ Len(own) \in Nat /\ Len(after) \in Nat \ {0}
    OBVIOUS
  <1> DEFINE rest == SubSeq(after, Len(before) + 1, Len(after))
  <1>1. Passed(own, before, after) = own \o rest
    BY DEF Passed
  <1>2. ASSUME Len(after) <= Len(before)
        PROVE  own \o rest = own
    <2>1. rest = <<>>
      BY <1>0, <1>2, SubSeqEmpty
    <2> QED
      BY <2>1, ConcatEmptySeq
  <1>3. ASSUME NEW x, after = Append(before, x)
        PROVE  x \in S /\ own \o rest = Append(own, x)
    <2>1. Len(after) = Len(before) + 1 /\ after[Len(after)] = x
      BY <1>3
    <2>2. x \in S
      BY <1>0, <2>1
    <2>3. rest \in Seq(S) /\ Len(rest) = 1 /\ rest[1] = x
      BY <1>0, <2>1, <2>2
    <2> HIDE DEF rest
    <2>4. /\ own \o rest \in Seq(S) /\ Len(own \o rest) = Len(own) + 1
          /\ Append(own, x) \in Seq(S) /\ Len(Append(own, x)) = Len(own) + 1
      <3>1. own \o rest \in Seq(S) /\ Len(own \o rest) = Len(own) + Len(rest)
        BY <2>3, ConcatProperties
      <3>2. Append(own, x) \in Seq(S) /\ Len(Append(own, x)) = Len(own) + 1
        BY <2>2, AppendProperties
      <3> QED
        BY <2>3, <3>1, <3>2
    <2>5. ASSUME NEW i \in 1..Len(own) + 1
          PROVE  (own \o rest)[i] = Append(own, x)[i]
      <3>1. (own \o rest)[i] = IF i <= Len(own) THEN own[i] ELSE rest[i - Len(own)]
        BY <1>0, <2>3, ConcatProperties
      <3>2. CASE i <= Len(own)
        BY <1>0, <2>2, <3>1, <3>2, AppendProperties
      <3>3. CASE i = Len(own) + 1
        BY <1>0, <2>2, <2>3, <3>1, <3>3, AppendProperties
      <3>4. i <= Len(own) \/ i = Len(own) + 1
        BY <1>0
      <3> QED
        BY <3>2, <3>3, <3>4
    <2> QED
      BY <2>2, <2>4, <2>5, SeqEqual
  <1> HIDE DEF rest
  <1>4. CASE Len(after) <= Len(before) /\ Live(after) = Live(before)
    BY <1>1, <1>2, <1>4
  <1>5. CASE after = before
    <2>1. Len(after) <= Len(before) /\ Live(after) = Live(before)
      BY <1>0, <1>5
    <2> QED
      BY <1>4, <2>1
  <1>6. CASE Len(before) > 1 /\ after = Tail(before)
    <2>1. Live(after) = Live(before) /\ Len(after) = Len(before) - 1
      BY <1>6, StreamTail, TailElements
    <2>2. Len(after) <= Len(before)
      BY <1>0, <2>1
    <2> QED
      BY <1>4, <2>1, <2>2
  <1>7. CASE after = <<Live(before)>>
    <2>1. Live(after) = Live(before) /\ Len(after) = 1
      BY <1>7, StreamRelist, RelistElements
    <2>2. Len(after) <= Len(before)
      BY <1>0, <2>1
    <2> QED
      BY <1>4, <2>1, <2>2
  <1>8. ASSUME NEW x, after = Append(before, x)
        PROVE  \E y \in S : /\ Passed(own, before, after) = Append(own, y)
                            /\ after = Append(before, y)
    BY <1>1, <1>3, <1>8
  <1> QED
    BY <1>5, <1>6, <1>7, <1>8 DEF Moved

\* The live object is the same for both sides after the step as well.
LEMMA FedLive ==
    ASSUME NEW S, NEW own \in Seq(S), own # <<>>, NEW before \in Seq(S), before # <<>>,
           NEW after \in Seq(S), after # <<>>, Moved(before, after),
           Live(own) = Live(before), NEW runs
    PROVE  Live(Fed(own, runs, before, after)) = Live(after)
  <1>1. CASE runs
    <2> DEFINE fed == Passed(own, before, after)
    <2>1. Fed(own, runs, before, after) = fed
      BY <1>1 DEF Fed, Passed
    <2>2. \/ fed = own /\ Live(after) = Live(before)
          \/ \E x \in S : fed = Append(own, x) /\ after = Append(before, x)
      BY PassedOn
    <2> HIDE DEF fed
    <2>3. ASSUME NEW x \in S, fed = Append(own, x), after = Append(before, x)
          PROVE  Live(fed) = Live(after)
      <3>1. Live(Append(own, x)) = x /\ Live(Append(before, x)) = x
        BY StreamAppend
      <3> QED
        BY <2>3, <3>1
    <2>4. Live(fed) = Live(after)
      BY <2>2, <2>3
    <2> QED
      BY <2>1, <2>4
  <1>2. CASE ~runs
    <2>1. Fed(own, runs, before, after) = <<Live(after)>>
      BY <1>2 DEF Fed
    <2> QED
      BY <2>1, StreamRelist
  <1> QED
    BY <1>1, <1>2

-------------------------------------------------------------------------------
(* Both sides see the same live objects *)

Agree == Live(cr2) = Live(cr) /\ Live(sts2) = Live(sts) /\ Live(claims2) = Live(claims)

SharedInv == TypeInv /\ NewP!TypeInv /\ Agree /\ stage \in Stages

\* The types of the new manager's state, in the terms of the old one's.
LEMMA NewType ==
    NewP!TypeInv <=>
       /\ cr2 \in Seq(CRs \cup {None}) /\ cr2 # <<>>
       /\ sts2 \in Seq(StatefulSets \cup {None}) /\ sts2 # <<>>
       /\ cm2 \in Seq(ConfigMaps \cup {None}) /\ cm2 # <<>>
       /\ claims2 \in Seq(ClaimSets) /\ claims2 # <<>>
       /\ secrets2 \in Seq(Secrets) /\ secrets2 # <<>>
       /\ neutron \in Vals \cup {None}
       /\ rev \in [{"cr", "sts", "cm", "ca"} -> Nat]
       /\ edits \in 0..MaxEdits /\ faults \in 0..MaxFaults
       /\ queued2 \in BOOLEAN /\ pc2 \in Calls \cup {"idle"} /\ r2 \in Locals
       /\ NewP!LocalsOK
  BY SameTypes DEF NewP!TypeInv, NewP!TypeOK

\* The streams of the new manager move as those of the old one do.
LEMMA NewMoved ==
    ASSUME [NewP!Next]_(NewP!vars)
    PROVE  Moved(cr2, cr2') /\ Moved(sts2, sts2') /\ Moved(claims2, claims2')
  <1>1. /\ NewP!Moved(cr2, cr2') /\ NewP!Moved(sts2, sts2') /\ NewP!Moved(claims2, claims2')
    BY SameTypes, NewP!NextMoved, ClassAssumption, NoneAssumption, ConfAssumption,
       ReconcilerAssumption
  <1> QED
    BY <1>1 DEF Moved, NewP!Moved, Live, NewP!Live

LEMMA NewKeepsType ==
    ASSUME NewP!TypeInv, [NewP!Next]_(NewP!vars)
    PROVE  NewP!TypeInv'
  BY SameTypes, NewP!NextType, ClassAssumption, NoneAssumption, ConfAssumption,
     ReconcilerAssumption

\* A step on the old manager's streams.
LEMMA OldFeeds ==
    ASSUME SharedInv, [Next]_vars, FeedNew
    PROVE  SharedInv'
  <1>1. TypeInv' /\ TypeInv
    BY NextType DEF SharedInv
  <1>2. Moved(cr, cr') /\ Moved(sts, sts') /\ Moved(claims, claims')
    BY NextMoved
  <1>3. /\ cr \in Seq(CRs \cup {None}) /\ cr # <<>> /\ cr' \in Seq(CRs \cup {None}) /\ cr' # <<>>
        /\ sts \in Seq(StatefulSets \cup {None}) /\ sts # <<>>
        /\ sts' \in Seq(StatefulSets \cup {None}) /\ sts' # <<>>
        /\ cm \in Seq(ConfigMaps \cup {None})
        /\ cm' \in Seq(ConfigMaps \cup {None}) /\ cm' # <<>>
        /\ claims \in Seq(ClaimSets) /\ claims # <<>>
        /\ claims' \in Seq(ClaimSets) /\ claims' # <<>>
        /\ secrets \in Seq(Secrets) /\ secrets' \in Seq(Secrets) /\ secrets' # <<>>
    BY <1>1 DEF TypeInv, TypeOK
  <1>4. /\ cr2 \in Seq(CRs \cup {None}) /\ cr2 # <<>>
        /\ sts2 \in Seq(StatefulSets \cup {None}) /\ sts2 # <<>>
        /\ cm2 \in Seq(ConfigMaps \cup {None}) /\ cm2 # <<>>
        /\ claims2 \in Seq(ClaimSets) /\ claims2 # <<>>
        /\ secrets2 \in Seq(Secrets) /\ secrets2 # <<>>
    BY NewType DEF SharedInv
  <1> DEFINE runs == stage # "old"
  <1>5. /\ cr2' = Fed(cr2, runs, cr, cr') /\ sts2' = Fed(sts2, runs, sts, sts')
        /\ cm2' = Fed(cm2, runs, cm, cm') /\ claims2' = Fed(claims2, runs, claims, claims')
        /\ secrets2' = Fed(secrets2, runs, secrets, secrets')
    BY DEF FeedNew
  <1> HIDE DEF runs
  <1>6. /\ cr2' \in Seq(CRs \cup {None}) /\ cr2' # <<>>
        /\ sts2' \in Seq(StatefulSets \cup {None}) /\ sts2' # <<>>
        /\ cm2' \in Seq(ConfigMaps \cup {None}) /\ cm2' # <<>>
        /\ claims2' \in Seq(ClaimSets) /\ claims2' # <<>>
        /\ secrets2' \in Seq(Secrets) /\ secrets2' # <<>>
    BY <1>3, <1>4, <1>5, FedType
  <1>7. Live(cr2') = Live(cr') /\ Live(sts2') = Live(sts') /\ Live(claims2') = Live(claims')
    BY <1>2, <1>3, <1>4, <1>5, FedLive DEF SharedInv, Agree
  <1>8. NewP!TypeInv'
    <2>1. /\ queued2' \in BOOLEAN /\ pc2' \in Calls \cup {"idle"} /\ r2' \in Locals
          /\ NewP!LocalsOK'
      BY NewType DEF SharedInv, FeedNew, NewP!LocalsOK
    <2>2. /\ neutron' \in Vals \cup {None} /\ rev' \in [{"cr", "sts", "cm", "ca"} -> Nat]
          /\ edits' \in 0..MaxEdits /\ faults' \in 0..MaxFaults
      BY <1>1 DEF TypeInv, TypeOK
    <2> QED
      BY <1>6, <2>1, <2>2, SameTypes DEF NewP!TypeInv, NewP!TypeOK
  <1>9. stage' \in Stages
    BY DEF FeedNew, SharedInv
  <1> QED
    BY <1>1, <1>7, <1>8, <1>9 DEF SharedInv, Agree, Live

\* A step on the new manager's streams.
LEMMA NewFeeds ==
    ASSUME SharedInv, [NewP!Next]_(NewP!vars), FeedOld
    PROVE  SharedInv'
  <1>1. NewP!TypeInv' /\ NewP!TypeInv
    BY NewKeepsType DEF SharedInv
  <1>2. Moved(cr2, cr2') /\ Moved(sts2, sts2') /\ Moved(claims2, claims2')
    BY NewMoved
  <1>3. /\ cr2 \in Seq(CRs \cup {None}) /\ cr2 # <<>>
        /\ cr2' \in Seq(CRs \cup {None}) /\ cr2' # <<>>
        /\ sts2 \in Seq(StatefulSets \cup {None}) /\ sts2 # <<>>
        /\ sts2' \in Seq(StatefulSets \cup {None}) /\ sts2' # <<>>
        /\ cm2 \in Seq(ConfigMaps \cup {None})
        /\ cm2' \in Seq(ConfigMaps \cup {None}) /\ cm2' # <<>>
        /\ claims2 \in Seq(ClaimSets) /\ claims2 # <<>>
        /\ claims2' \in Seq(ClaimSets) /\ claims2' # <<>>
        /\ secrets2 \in Seq(Secrets) /\ secrets2' \in Seq(Secrets) /\ secrets2' # <<>>
    BY <1>1, SameTypes DEF NewP!TypeInv, NewP!TypeOK
  <1>4. /\ cr \in Seq(CRs \cup {None}) /\ cr # <<>>
        /\ sts \in Seq(StatefulSets \cup {None}) /\ sts # <<>>
        /\ cm \in Seq(ConfigMaps \cup {None}) /\ cm # <<>>
        /\ claims \in Seq(ClaimSets) /\ claims # <<>>
        /\ secrets \in Seq(Secrets) /\ secrets # <<>>
    BY DEF SharedInv, TypeInv, TypeOK
  <1> DEFINE runs == stage # "new"
  <1>5. /\ cr' = Fed(cr, runs, cr2, cr2') /\ sts' = Fed(sts, runs, sts2, sts2')
        /\ cm' = Fed(cm, runs, cm2, cm2') /\ claims' = Fed(claims, runs, claims2, claims2')
        /\ secrets' = Fed(secrets, runs, secrets2, secrets2')
    BY DEF FeedOld
  <1> HIDE DEF runs
  <1>6. /\ cr' \in Seq(CRs \cup {None}) /\ cr' # <<>>
        /\ sts' \in Seq(StatefulSets \cup {None}) /\ sts' # <<>>
        /\ cm' \in Seq(ConfigMaps \cup {None}) /\ cm' # <<>>
        /\ claims' \in Seq(ClaimSets) /\ claims' # <<>>
        /\ secrets' \in Seq(Secrets) /\ secrets' # <<>>
    BY <1>3, <1>4, <1>5, FedType
  <1>7. Live(cr') = Live(cr2') /\ Live(sts') = Live(sts2') /\ Live(claims') = Live(claims2')
    BY <1>2, <1>3, <1>4, <1>5, FedLive DEF SharedInv, Agree
  <1>8. TypeInv'
    <2>1. queued' \in BOOLEAN /\ pc' \in Calls \cup {"idle"} /\ r' \in Locals /\ LocalsOK'
      BY DEF SharedInv, TypeInv, TypeOK, FeedOld, LocalsOK
    <2>2. /\ neutron' \in Vals \cup {None} /\ rev' \in [{"cr", "sts", "cm", "ca"} -> Nat]
          /\ edits' \in 0..MaxEdits /\ faults' \in 0..MaxFaults
      BY <1>1 DEF NewP!TypeInv, NewP!TypeOK
    <2> QED
      BY <1>6, <2>1, <2>2 DEF TypeInv, TypeOK
  <1>9. stage' \in Stages
    BY DEF FeedOld, SharedInv
  <1> QED
    BY <1>1, <1>7, <1>8, <1>9 DEF SharedInv, Agree, Live

\* The start of the new manager and the end of the old one.
LEMMA StartKeeps ==
    ASSUME SharedInv, NewManagerStarts
    PROVE  SharedInv'
  <1>1. UNCHANGED <<cr, sts, cm, claims, secrets, neutron, rev, queued, pc, r, edits, faults>>
    BY DEF NewManagerStarts, oldView
  <1>2. UNCHANGED <<cr2, sts2, cm2, claims2, secrets2, pc2, r2>> /\ queued2' \in BOOLEAN
    BY DEF NewManagerStarts
  <1>3. TypeInv' /\ Agree'
    BY <1>1, <1>2 DEF SharedInv, Agree, TypeInv, TypeOK, LocalsOK, Live
  <1>4. NewP!TypeInv'
    BY <1>1, <1>2 DEF SharedInv, NewP!TypeInv, NewP!TypeOK, NewP!LocalsOK
  <1>5. stage' \in Stages
    BY DEF NewManagerStarts, Stages
  <1> QED
    BY <1>3, <1>4, <1>5 DEF SharedInv

LEMMA StopKeeps ==
    ASSUME SharedInv, OldManagerStops
    PROVE  /\ SharedInv' /\ UNCHANGED newView
           /\ Live(cr') = Live(cr) /\ Live(sts') = Live(sts) /\ Live(claims') = Live(claims)
  <1>1. UNCHANGED <<cr2, sts2, cm2, claims2, secrets2, queued2, pc2, r2>>
        /\ UNCHANGED <<neutron, rev, edits, faults>>
    BY DEF OldManagerStops, newView
  <1>2. /\ cr \in Seq(CRs \cup {None}) /\ cr # <<>> /\ cr' = <<Live(cr)>>
        /\ sts \in Seq(StatefulSets \cup {None}) /\ sts # <<>> /\ sts' = <<Live(sts)>>
        /\ cm \in Seq(ConfigMaps \cup {None}) /\ cm # <<>> /\ cm' = <<Live(cm)>>
        /\ claims \in Seq(ClaimSets) /\ claims # <<>> /\ claims' = <<Live(claims)>>
        /\ secrets \in Seq(Secrets) /\ secrets # <<>> /\ secrets' = <<Live(secrets)>>
    BY DEF SharedInv, TypeInv, TypeOK, OldManagerStops
  <1>3. /\ cr' \in Seq(CRs \cup {None}) /\ cr' # <<>> /\ Live(cr') = Live(cr)
        /\ sts' \in Seq(StatefulSets \cup {None}) /\ sts' # <<>> /\ Live(sts') = Live(sts)
        /\ cm' \in Seq(ConfigMaps \cup {None}) /\ cm' # <<>>
        /\ claims' \in Seq(ClaimSets) /\ claims' # <<>> /\ Live(claims') = Live(claims)
        /\ secrets' \in Seq(Secrets) /\ secrets' # <<>>
    BY <1>2, StreamRelist
  <1>4. /\ pc' \in Calls \cup {"idle"} /\ r' \in Locals /\ LocalsOK' /\ queued' \in BOOLEAN
    BY IdleType DEF OldManagerStops
  <1>5. TypeInv'
    BY <1>1, <1>3, <1>4 DEF TypeInv, TypeOK, SharedInv
  <1>6. Agree'
    BY <1>1, <1>3 DEF SharedInv, Agree, Live
  <1>7. NewP!TypeInv'
    BY <1>1 DEF SharedInv, NewP!TypeInv, NewP!TypeOK, NewP!LocalsOK
  <1>8. stage' \in Stages
    BY DEF OldManagerStops, Stages
  <1> QED
    BY <1>1, <1>3, <1>5, <1>6, <1>7, <1>8 DEF SharedInv, newView

\* Every step is a step of one side that the other is fed, or a change of stage.
LEMMA ManagersSteps ==
    ASSUME [ManagersNext]_allVars
    PROVE  \/ stage # "new" /\ [Next]_vars /\ FeedNew
           \/ /\ stage # "old" /\ NewStep /\ FeedOld
              /\ \/ leaderElect => stage = "new"
                 \/ New!SyncCr \/ New!SyncSts \/ New!SyncCm \/ New!SyncClaims \/ New!SyncSecrets
           \/ NewManagerStarts
           \/ OldManagerStops
           \/ UNCHANGED allVars
  <1>1. ASSUME OldManager PROVE stage # "new" /\ Next /\ FeedNew
    BY <1>1 DEF OldManager, OldReconciles, Next
  <1>2. ASSUME NewManager
        PROVE  /\ stage # "old" /\ NewStep /\ FeedOld
               /\ \/ leaderElect => stage = "new"
                  \/ New!SyncCr \/ New!SyncSts \/ New!SyncCm \/ New!SyncClaims \/ New!SyncSecrets
    BY <1>2 DEF NewManager, NewReconciles, MayReconcile, NewStep
  <1>3. ASSUME ClusterActs \/ EnvironmentActs
        PROVE  \/ stage # "new" /\ Next /\ FeedNew
               \/ stage # "old" /\ NewStep /\ FeedOld /\ stage = "new"
    BY <1>3 DEF ClusterActs, EnvironmentActs, Next, NewStep
  <1> QED
    BY <1>1, <1>2, <1>3 DEF ManagersNext

-------------------------------------------------------------------------------
(* The log claims *)

\* On the new manager's view every step is one of LogClaims, and so it is on the
\* old one's.
LEMMA NewImplements ==
    ASSUME SharedInv, SharedInv', [NewP!Next]_(NewP!vars)
    PROVE  StorageStep
  <1>1. NewP!StorageStep
    BY SameTypes, NewP!StepImplements, ClassAssumption, NoneAssumption, ConfAssumption,
       ReconcilerAssumption DEF SharedInv
  <1>2. Live(claims2) = Live(claims) /\ Live(claims2') = Live(claims')
    BY DEF SharedInv, Agree, Live
  <1> QED
    BY <1>1, <1>2 DEF NewP!StorageStep, StorageStep, NewP!Storage!Next, Storage!Next,
       NewP!Storage!Provision, Storage!Provision, NewP!Storage!Grow, Storage!Grow,
       NewP!Storage!Others, Storage!Others, NewP!Storage!Keys, Storage!Keys,
       NewP!LegacyClaim, LegacyClaim, NewP!Live, Live

\* Both managers start from the same objects.
LEMMA InitShared ==
    ASSUME ManagersInit
    PROVE  SharedInv
  <1>1. TypeInv
    BY InitType DEF ManagersInit
  <1>2. /\ cr2 = cr /\ sts2 = sts /\ cm2 = cm /\ claims2 = claims /\ secrets2 = secrets
        /\ queued2 \in BOOLEAN /\ pc2 = "idle" /\ r2 = NoLocals
    BY DEF ManagersInit
  <1>3. r2 \in Locals /\ NewP!LocalsOK
    BY <1>2 DEF NoLocals, Locals, NewP!LocalsOK
  <1>4. NewP!TypeInv
    BY <1>1, <1>2, <1>3, SameTypes DEF TypeInv, TypeOK, NewP!TypeInv, NewP!TypeOK
  <1>5. stage \in Stages
    BY DEF ManagersInit, Stages
  <1> QED
    BY <1>1, <1>2, <1>4, <1>5 DEF SharedInv, Agree

\* Every step keeps the two views together and is a step of LogClaims.
LEMMA SharedNext ==
    ASSUME SharedInv, [ManagersNext]_allVars
    PROVE  SharedInv' /\ StorageStep
  <1>1. CASE [Next]_vars /\ FeedNew
    BY <1>1, OldFeeds, StepImplements DEF SharedInv
  <1>2. CASE NewStep /\ FeedOld
    <2>1. [NewP!Next]_(NewP!vars)
      BY <1>2, NewNext
    <2>2. SharedInv'
      BY <1>2, <2>1, NewFeeds
    <2> QED
      BY <2>1, <2>2, NewImplements
  <1>3. CASE NewManagerStarts
    <2>1. claims' = claims
      BY <1>3 DEF NewManagerStarts, oldView
    <2> QED
      BY <1>3, <2>1, StartKeeps DEF StorageStep
  <1>4. CASE OldManagerStops
    BY <1>4, StopKeeps DEF StorageStep
  <1>5. CASE UNCHANGED allVars
    <2>1. /\ UNCHANGED <<cr, sts, cm, claims, secrets, queued, pc, r>>
          /\ UNCHANGED <<cr2, sts2, cm2, claims2, secrets2, queued2, pc2, r2>>
          /\ UNCHANGED <<neutron, rev, edits, faults, stage>>
      BY <1>5 DEF allVars, oldView, newView
    <2>2. TypeInv' /\ Agree'
      BY <2>1 DEF SharedInv, Agree, TypeInv, TypeOK, LocalsOK, Live
    <2>3. NewP!TypeInv'
      BY <2>1 DEF SharedInv, NewP!TypeInv, NewP!TypeOK, NewP!LocalsOK
    <2> QED
      BY <2>1, <2>2, <2>3 DEF SharedInv, StorageStep
  <1> QED
    BY <1>1, <1>2, <1>3, <1>4, <1>5, ManagersSteps

\* A rolling update of the operator, with or without leader election, is invisible
\* to the claims: two managers on caches of different age, and an old one that ends
\* in the middle of a Reconcile, provision and grow them as one manager does.
THEOREM ManagersImplementLogClaims == ManagersSpec => ImplementsLogClaims
  <1>1. ManagersInit => SharedInv /\ Storage!Init
    BY InitShared, InitImplements DEF ManagersInit
  <1>2. SharedInv /\ [ManagersNext]_allVars => SharedInv' /\ [Storage!Next]_(Live(claims))
    <2>1. Live(claims)' = Live(claims')
      BY DEF Live
    <2> QED
      BY <2>1, SharedNext DEF StorageStep
  <1> QED
    BY <1>1, <1>2, PTL DEF ManagersSpec, ImplementsLogClaims, Storage!Spec

-------------------------------------------------------------------------------
(* Deletions under the lease *)

\* Before the hand-over only the old manager writes, and all versions the new one
\* holds are versions of the one resource; after it only the new one writes.
LeaseInv ==
    leaderElect =>
       /\ stage # "new" => DeleteInv /\ pc2 = "idle" /\ NewP!OneResource
       /\ stage = "new" => pc = "idle" /\ (fresh => NewP!DeleteInv)

\* A view that gains only the live version of a resource that is still the same.
LEMMA SameResource ==
    ASSUME SharedInv, NewP!OneResource, pc2' = "idle", SharedInv',
           Live(cr) # None => Live(cr') # None /\ Live(cr').uid = Live(cr).uid,
           \A i \in 1..Len(cr2') : \/ cr2'[i] = Live(cr2')
                                   \/ \E j \in 1..Len(cr2) : cr2'[i] = cr2[j]
    PROVE  NewP!OneResource'
  <1>1. Live(cr2) = Live(cr) /\ Live(cr2') = Live(cr')
    BY DEF SharedInv, Agree, Live
  <1>2. \A j \in 1..Len(cr2) : cr2[j] # None => Live(cr2) # None /\ cr2[j].uid = Live(cr2).uid
    BY DEF NewP!OneResource, NewP!Live, Live
  <1>3. ASSUME NEW i \in 1..Len(cr2'), cr2'[i] # None
        PROVE  Live(cr2') # None /\ cr2'[i].uid = Live(cr2').uid
    BY <1>1, <1>2, <1>3
  <1> QED
    BY <1>3 DEF NewP!OneResource, NewP!Live, Live

\* The old manager, the cluster or a user before the hand-over.
LEMMA OldUnderLease ==
    ASSUME Deletes = FALSE, SharedInv, SharedInv', LeaseInv, leaderElect, stage # "new",
           [Next]_vars, FeedNew
    PROVE  LeaseInv'
  <1>1. /\ TypeInv /\ DeleteInv /\ pc2 = "idle" /\ NewP!OneResource
        /\ UNCHANGED <<stage, leaderElect, pc2>>
    BY DEF SharedInv, LeaseInv, FeedNew
  <1>2. DeleteInv'
    BY <1>1, NextDelete
  <1>3. Live(cr) # None => Live(cr') # None /\ Live(cr').uid = Live(cr).uid
    <2>1. CrMove /\ RunMove
      BY <1>1, NextMoves DEF Moves
    <2> QED
      BY <1>1, <2>1, CrMoveKeeps DEF DeleteInv, TypeInv
  <1>4. /\ cr2 \in Seq(CRs \cup {None}) /\ cr2 # <<>>
        /\ cr \in Seq(CRs \cup {None}) /\ cr # <<>>
        /\ cr' \in Seq(CRs \cup {None}) /\ cr' # <<>>
    BY NewType DEF SharedInv, TypeInv, TypeOK
  <1>5. \A i \in 1..Len(cr2') : \/ cr2'[i] = Live(cr2')
                                \/ \E j \in 1..Len(cr2) : cr2'[i] = cr2[j]
    <2>1. CASE stage = "old"
      <3>1. cr2' = <<Live(cr')>>
        BY <2>1 DEF FeedNew, Fed
      <3> QED
        BY <3>1 DEF Live
    <2>2. CASE stage # "old"
      <3>1. cr2' = Passed(cr2, cr, cr')
        BY <2>2 DEF FeedNew, Fed, Passed
      <3>2. Moved(cr, cr')
        BY NextMoved
      <3>3. \/ Passed(cr2, cr, cr') = cr2
            \/ \E x \in CRs \cup {None} : Passed(cr2, cr, cr') = Append(cr2, x)
        BY <1>4, <3>2, PassedOn
      <3>4. ASSUME NEW x \in CRs \cup {None}, cr2' = Append(cr2, x)
            PROVE  \A i \in 1..Len(cr2') : \/ cr2'[i] = Live(cr2')
                                           \/ \E j \in 1..Len(cr2) : cr2'[i] = cr2[j]
        <4>1. /\ Len(cr2') = Len(cr2) + 1 /\ Len(cr2) \in Nat
              /\ \A j \in 1..Len(cr2) : cr2'[j] = cr2[j]
          BY <1>4, <3>4, AppendElements
        <4>2. \A i \in 1..Len(cr2') : i = Len(cr2') \/ i \in 1..Len(cr2)
          BY <4>1
        <4> QED
          BY <4>1, <4>2 DEF Live
      <3> QED
        BY <3>1, <3>3, <3>4
    <2> QED
      BY <2>1, <2>2
  <1>6. NewP!OneResource'
    BY <1>1, <1>3, <1>5, SameResource
  <1> QED
    BY <1>1, <1>2, <1>6 DEF LeaseInv

\* An event the new manager takes in is not passed on.
LEMMA EventStays ==
    ASSUME NEW S, NEW own \in Seq(S), own # <<>>, NEW before \in Seq(S), before # <<>>,
           NEW after, after = before \/ (Len(before) > 1 /\ after = Tail(before))
    PROVE  Passed(own, before, after) = own
  <1>1. /\ after \in Seq(S) /\ after # <<>> /\ Len(before) \in Nat
        /\ Len(after) = Len(before) \/ Len(after) = Len(before) - 1
    <2>1. CASE after = before
      BY <2>1
    <2>2. CASE Len(before) > 1 /\ after = Tail(before)
      BY <2>2, StreamTail, TailElements
    <2> QED
      BY <2>1, <2>2
  <1>2. Moved(before, after)
    BY DEF Moved
  <1>3. ASSUME NEW x \in S PROVE after # Append(before, x)
    <2>1. Len(Append(before, x)) = Len(before) + 1
      BY AppendProperties
    <2>2. Len(after) # Len(before) + 1
      BY <1>1
    <2> QED
      BY <2>1, <2>2
  <1> QED
    BY <1>1, <1>2, <1>3, PassedOn

\* The new manager's cache fills before the hand-over.
LEMMA NewWaits ==
    ASSUME SharedInv, SharedInv', LeaseInv, leaderElect, stage # "new", FeedOld,
           New!SyncCr \/ New!SyncSts \/ New!SyncCm \/ New!SyncClaims \/ New!SyncSecrets
    PROVE  LeaseInv'
  <1>1. /\ DeleteInv /\ pc2 = "idle" /\ NewP!OneResource
        /\ UNCHANGED <<stage, leaderElect, pc, r>>
    BY DEF LeaseInv, FeedOld
  <1>2. /\ pc2' = pc2
        /\ cr2' = cr2 \/ (Len(cr2) > 1 /\ cr2' = Tail(cr2))
        /\ sts2' = sts2 \/ (Len(sts2) > 1 /\ sts2' = Tail(sts2))
    BY DEF New!SyncCr, New!SyncSts, New!SyncCm, New!SyncClaims, New!SyncSecrets
  <1>3. /\ cr \in Seq(CRs \cup {None}) /\ cr # <<>>
        /\ sts \in Seq(StatefulSets \cup {None}) /\ sts # <<>>
        /\ cr2 \in Seq(CRs \cup {None}) /\ cr2 # <<>>
        /\ sts2 \in Seq(StatefulSets \cup {None}) /\ sts2 # <<>>
    BY NewType DEF SharedInv, TypeInv, TypeOK
  <1>4. cr' = cr /\ sts' = sts
    <2>1. cr' = Passed(cr, cr2, cr2') /\ sts' = Passed(sts, sts2, sts2')
      BY DEF FeedOld, Fed, Passed
    <2>2. Passed(cr, cr2, cr2') = cr
      BY <1>2, <1>3, EventStays
    <2>3. Passed(sts, sts2, sts2') = sts
      BY <1>2, <1>3, EventStays
    <2> QED
      BY <2>1, <2>2, <2>3
  <1>5. DeleteInv'
    BY <1>1, <1>4 DEF DeleteInv, OneResource, Owned, OneObject, Examined, Live
  <1>6. \A i \in 1..Len(cr2') : \E j \in 1..Len(cr2) : cr2'[i] = cr2[j]
    <2>1. CASE cr2' = cr2
      BY <2>1
    <2>2. CASE Len(cr2) > 1 /\ cr2' = Tail(cr2)
      BY <1>3, <2>2, TailElements
    <2> QED
      BY <1>2, <2>1, <2>2
  <1>7. NewP!OneResource'
    BY <1>1, <1>2, <1>4, <1>6, SameResource
  <1> QED
    BY <1>1, <1>2, <1>5, <1>7 DEF LeaseInv

\* The new manager, the cluster or a user after the hand-over.
LEMMA NewUnderLease ==
    ASSUME Deletes = FALSE, SharedInv, LeaseInv, leaderElect, stage = "new",
           [NewP!Next]_(NewP!vars), FeedOld
    PROVE  LeaseInv'
  <1>1. /\ pc = "idle" /\ (fresh => NewP!DeleteInv) /\ NewP!TypeInv
        /\ UNCHANGED <<stage, leaderElect, fresh, pc>>
    BY DEF LeaseInv, FeedOld, SharedInv
  <1>2. ASSUME NewP!DeleteInv PROVE NewP!DeleteInv'
    BY <1>1, <1>2, NewP!NextDelete, SameTypes, ClassAssumption, NoneAssumption,
       ConfAssumption, ReconcilerAssumption
  <1> QED
    BY <1>1, <1>2 DEF LeaseInv

\* The hand-over to a manager that has seen the live StatefulSet.
LEMMA StopUnderLease ==
    ASSUME SharedInv, LeaseInv, leaderElect, OldManagerStops
    PROVE  LeaseInv'
  <1>1. /\ DeleteInv /\ pc2 = "idle" /\ NewP!OneResource
        /\ stage' = "new" /\ pc' = "idle" /\ fresh' = (Len(sts2) = 1)
        /\ UNCHANGED <<cr2, sts2, pc2, r2, leaderElect>>
    BY DEF LeaseInv, OldManagerStops, newView
  <1>2. NewP!OneResource'
    BY <1>1 DEF NewP!OneResource, NewP!Live
  <1>3. NewP!Examined'
    BY <1>1 DEF NewP!Examined
  <1>4. ASSUME Len(sts2) = 1
        PROVE  NewP!Owned' /\ NewP!OneObject(sts2)'
    <2>1. /\ Live(sts2) = Live(sts) /\ Live(cr2) = Live(cr) /\ sts2[1] = Live(sts2)
          /\ Live(sts) = sts[Len(sts)] /\ Len(sts) \in 1..Len(sts)
      BY <1>4, RelistElements DEF SharedInv, Agree, TypeInv, TypeOK, Live
    <2>2. sts2[1] # None =>
             Live(cr2) # None /\ sts2[1].owner = Live(cr2).uid /\ ~sts2[1].term
      BY <1>1, <2>1 DEF DeleteInv, Owned
    <2>3. \A i \in 1..Len(sts2) : i = 1
      BY <1>4
    <2>4. NewP!Owned'
      BY <1>1, <2>2, <2>3 DEF NewP!Owned, NewP!Live, Live
    <2>5. NewP!OneObject(sts2)'
      BY <1>1, <2>3 DEF NewP!OneObject
    <2> QED
      BY <2>4, <2>5
  <1> QED
    BY <1>1, <1>2, <1>3, <1>4 DEF LeaseInv, NewP!DeleteInv

\* The start of the new manager, which does not reconcile yet.
LEMMA StartUnderLease ==
    ASSUME LeaseInv, leaderElect, NewManagerStarts
    PROVE  LeaseInv'
  <1>1. /\ DeleteInv /\ pc2 = "idle" /\ NewP!OneResource /\ stage' = "both"
        /\ UNCHANGED <<cr, sts, pc, r, cr2, pc2, r2, leaderElect>>
    BY DEF LeaseInv, NewManagerStarts, oldView
  <1>2. DeleteInv'
    BY <1>1 DEF DeleteInv, OneResource, Owned, OneObject, Examined, Live
  <1>3. NewP!OneResource'
    BY <1>1 DEF NewP!OneResource, NewP!Live
  <1> QED
    BY <1>1, <1>2, <1>3 DEF LeaseInv

LEMMA InitLease ==
    ASSUME ManagersInit
    PROVE  LeaseInv
  <1>1. DeleteInv /\ cr2 = cr /\ pc2 = "idle" /\ stage = "old"
    BY InitDelete DEF ManagersInit
  <1>2. NewP!OneResource
    BY <1>1 DEF DeleteInv, OneResource, NewP!OneResource, NewP!Live, Live
  <1> QED
    BY <1>1, <1>2 DEF LeaseInv

\* Every step keeps the invariant of the lease.
LEMMA LeaseNext ==
    ASSUME Deletes = FALSE, SharedInv, LeaseInv, [ManagersNext]_allVars
    PROVE  LeaseInv'
  <1>1. SharedInv' /\ leaderElect' = leaderElect
    BY SharedNext, ManagersSteps DEF FeedNew, FeedOld, NewManagerStarts, OldManagerStops,
       allVars
  <1>2. CASE ~leaderElect
    BY <1>1, <1>2 DEF LeaseInv
  <1>3. CASE leaderElect /\ stage # "new" /\ [Next]_vars /\ FeedNew
    BY <1>1, <1>3, OldUnderLease
  <1>4. CASE leaderElect /\ stage = "new" /\ NewStep /\ FeedOld
    BY <1>4, NewNext, NewUnderLease
  <1>5. CASE /\ leaderElect /\ stage # "new" /\ FeedOld
             /\ \/ New!SyncCr \/ New!SyncSts \/ New!SyncCm \/ New!SyncClaims
                \/ New!SyncSecrets
    BY <1>1, <1>5, NewWaits
  <1>6. CASE leaderElect /\ NewManagerStarts
    BY <1>6, StartUnderLease
  <1>7. CASE leaderElect /\ OldManagerStops
    BY <1>7, StopUnderLease
  <1>8. CASE leaderElect /\ UNCHANGED allVars
    <2>1. /\ UNCHANGED <<cr, sts, pc, r, cr2, sts2, pc2, r2, stage, fresh, leaderElect>>
      BY <1>8 DEF allVars, oldView, newView
    <2>2. DeleteInv => DeleteInv'
      BY <2>1 DEF DeleteInv, OneResource, Owned, OneObject, Examined, Live
    <2>3. NewP!OneResource => NewP!OneResource'
      BY <2>1 DEF NewP!OneResource, NewP!Live
    <2>4. NewP!DeleteInv => NewP!DeleteInv'
      BY <2>1 DEF NewP!DeleteInv, NewP!OneResource, NewP!Owned, NewP!OneObject,
         NewP!Examined, NewP!Live
    <2> QED
      BY <2>1, <2>2, <2>3, <2>4 DEF LeaseInv
  <1> QED
    BY <1>2, <1>3, <1>4, <1>5, <1>6, <1>7, <1>8, ManagersSteps

\* What either manager deletes under the lease is what it examined.
LEMMA LeaseExamined ==
    ASSUME SharedInv, LeaseInv, leaderElect, fresh
    PROVE  DeletedWasExamined /\ New!DeletedWasExamined
  <1>1. CASE stage # "new"
    <2>1. TypeInv /\ DeleteInv /\ pc2 = "idle"
      BY <1>1 DEF SharedInv, LeaseInv
    <2>2. New!DeletedWasExamined
      BY <2>1 DEF New!DeletedWasExamined
    <2> QED
      BY <2>1, <2>2, ExaminedDeletion
  <1>2. CASE stage = "new"
    <2>1. NewP!TypeInv /\ NewP!DeleteInv /\ pc = "idle"
      BY <1>2 DEF SharedInv, LeaseInv
    <2>2. DeletedWasExamined
      BY <2>1 DEF DeletedWasExamined
    <2>3. NewP!DeletedWasExamined
      BY <2>1, NewP!ExaminedDeletion, SameTypes, ClassAssumption, NoneAssumption,
         ConfAssumption, ReconcilerAssumption
    <2>4. New!DeletedWasExamined
      BY <2>3 DEF New!DeletedWasExamined, NewP!DeletedWasExamined, New!Live, NewP!Live
    <2> QED
      BY <2>2, <2>4
  <1> QED
    BY <1>1, <1>2

\* Leader election does what it is for: during a rolling update neither manager
\* deletes a StatefulSet it did not examine, however far the caches lag before the
\* hand-over and wherever the old manager's Reconcile is cut off, if the new one's
\* cache shows the live StatefulSet when it takes over and nobody else deletes.
THEOREM ManagersDeleteWhatTheyExamined ==
    ASSUME Deletes = FALSE
    PROVE  ManagersSpec => ManagersDeleteExamined
  <1>1. ManagersInit => SharedInv /\ LeaseInv
    BY InitShared, InitLease
  <1>2. ASSUME SharedInv /\ LeaseInv, [ManagersNext]_allVars
        PROVE  (SharedInv /\ LeaseInv)'
    BY <1>2, SharedNext, LeaseNext
  <1>3. SharedInv /\ LeaseInv
          => (leaderElect /\ fresh => DeletedWasExamined /\ New!DeletedWasExamined)
    BY LeaseExamined
  <1> QED
    BY <1>1, <1>2, <1>3, PTL DEF ManagersSpec, ManagersDeleteExamined
===============================================================================
