--------------------------- MODULE AimHistoryProofs ---------------------------
(***************************************************************************)
(* What the streams of the resource and of the StatefulSet can show.       *)
(*                                                                         *)
(* The status: what Reconcile writes belongs to the version of the         *)
(* resource that it fetched, and it stops writing.                         *)
(*                                                                         *)
(* Deletions: the operator deletes a StatefulSet by name, and the object   *)
(* it hits is the one it has compared, as long as nobody else deletes the  *)
(* StatefulSet or the resource.                                            *)
(*                                                                         *)
(* A step of any action is first reduced to one of a few moves of the      *)
(* streams, and the invariants are proved for the moves.                   *)
(***************************************************************************)
EXTENDS AimReconcilerProofs

-------------------------------------------------------------------------------
(* The control flow of Reconcile *)

\* Steps on which locals are carried.
Kept(local) == r'[local] = r[local]

\* How a step of any action moves Reconcile on, and what its locals become.
Walk ==
    \/ pc' = "idle"
    \/ UNCHANGED <<pc, r>>
    \/ /\ pc = "idle" /\ pc' = "ensureDB" /\ UNCHANGED <<cr, rev>>
       /\ Cached(cr) # None /\ r'.inst = Cached(cr)
    \/ /\ pc = "ensureDB" /\ pc' = "ensureMessageBus" /\ UNCHANGED <<cr, rev>>
       /\ r'.inst = setCondition(r.inst, "DBReady")
    \/ /\ pc = "ensureMessageBus" /\ pc' = "generateConfigFiles" /\ UNCHANGED <<cr, rev>>
       /\ r'.inst \in {r.inst, setCondition(r.inst, "RabbitMQReady")}
    \/ /\ pc = "generateConfigFiles" /\ pc' = "ensureConfigMap" /\ UNCHANGED <<cr, cm, rev>>
       /\ Kept("inst") /\ r'.files.conf = r.inst.spec.conf
    \/ /\ pc = "ensureConfigMap" /\ pc' = "ensureRabbitMQCaSecret" /\ UNCHANGED r
    \/ /\ pc = "ensureRabbitMQCaSecret" /\ pc' = "ensureStatefulSet" /\ UNCHANGED r
    \/ /\ pc = "ensureStatefulSet" /\ pc' \in {"ensureLogPVCStorage", "applyStatefulSet"}
       /\ Kept("inst") /\ Kept("files") /\ r'.found = Cached(sts) /\ Cached(sts) # None
       /\ UNCHANGED sts
    \/ /\ pc = "ensureLogPVCStorage" /\ pc' \in {"ensureLogPVCStorage", "applyStatefulSet"}
       /\ Kept("inst") /\ Kept("files") /\ Kept("found") /\ UNCHANGED sts
    \/ /\ pc \in {"ensureStatefulSet", "applyStatefulSet"} /\ pc' = "updateStatus"
       /\ Kept("inst")

\* Reconcile follows the order of its calls and goes back only to the start.
LEMMA ReconcileWalks ==
    ASSUME TypeInv, Reconcile
    PROVE  Walk
  <1> USE DEF TypeInv
  <1>0. r \in Locals /\ (pc # "idle" => r.inst \in CRs)
    BY DEF TypeOK, LocalsOK
  <1>1. CASE FetchInstance
    <2>1. CASE /\ Cached(cr) # None /\ pc' = "ensureDB"
               /\ r' = [NoLocals EXCEPT !.inst = Cached(cr)]
      <3>1. r'.inst = Cached(cr)
        BY <2>1 DEF NoLocals
      <3> QED
        BY <1>1, <2>1, <3>1 DEF FetchInstance, Walk
    <2> QED
      BY <1>1, <2>1 DEF FetchInstance, Walk
  <1>2. CASE ensureDB
    <2>1. CASE Proceed("ensureMessageBus",
                       [r EXCEPT !.inst = setCondition(@, "DBReady"),
                                 !.db = [host |-> neutron, password |-> Cached(secrets).db]])
      <3>1. r'.inst = setCondition(r.inst, "DBReady")
        BY <1>0, <2>1 DEF Proceed, Locals
      <3> QED
        BY <1>2, <2>1, <3>1 DEF ensureDB, Proceed, Walk
    <2> QED
      BY <1>2, <2>1 DEF ensureDB, Requeue, Walk
  <1>3. CASE ensureMessageBus
    <2>1. CASE Proceed("generateConfigFiles", [r EXCEPT !.bus = ""])
      <3>1. r'.inst = r.inst
        BY <1>0, <2>1 DEF Proceed, Locals
      <3> QED
        BY <1>3, <2>1, <3>1 DEF ensureMessageBus, Proceed, Walk
    <2>2. CASE Proceed("generateConfigFiles",
                       [r EXCEPT !.inst = setCondition(@, "RabbitMQReady"),
                                 !.bus = Cached(secrets).bus])
      <3>1. r'.inst = setCondition(r.inst, "RabbitMQReady")
        BY <1>0, <2>2 DEF Proceed, Locals
      <3> QED
        BY <1>3, <2>2, <3>1 DEF ensureMessageBus, Proceed, Walk
    <2> QED
      BY <1>3, <2>1, <2>2 DEF ensureMessageBus, Requeue, Walk
  <1>4. CASE RenderConfigFiles
    <2> DEFINE files == generateConfigFiles(r.inst.spec, r.db, r.bus,
                                            getNeutronRabbitConfig(Cached(secrets).dhcp))
    <2>1. CASE Proceed("ensureConfigMap", [r EXCEPT !.files = files, !.db = None, !.bus = None])
      <3>1. files.conf = r.inst.spec.conf
        BY DEF generateConfigFiles
      <3> HIDE DEF files
      <3>2. r'.inst = r.inst /\ r'.files = files
        BY <1>0, <2>1 DEF Proceed, Locals
      <3> QED
        BY <1>4, <2>1, <3>1, <3>2 DEF RenderConfigFiles, Proceed, Walk, Kept
    <2> QED
      BY <1>4, <2>1 DEF RenderConfigFiles, Requeue, Walk
  <1>5. CASE ensureConfigMap
    <2>1. pc' = "idle" \/ (pc' = "ensureRabbitMQCaSecret" /\ r' = r)
      BY <1>5 DEF ensureConfigMap, Reply, Proceed, Requeue
    <2> QED
      BY <1>5, <2>1 DEF ensureConfigMap, Walk
  <1>6. CASE ensureRabbitMQCaSecret
    <2>1. pc' = "idle" \/ (pc' = "ensureStatefulSet" /\ r' = r)
      BY <1>6 DEF ensureRabbitMQCaSecret, Reply, Proceed, Requeue
    <2> QED
      BY <1>6, <2>1 DEF ensureRabbitMQCaSecret, Walk
  <1>7. ASSUME pc \in {"ensureStatefulSet", "applyStatefulSet"},
               Reply("updateStatus", [NoLocals EXCEPT !.inst = r.inst])
        PROVE  Walk
    <2>1. pc' = "idle" \/ (pc' = "updateStatus" /\ r'.inst = r.inst)
      BY <1>7, StatusLocals DEF Reply, Proceed, Requeue
    <2> QED
      BY <1>7, <2>1 DEF Walk, Kept
  <1>8. CASE ensureStatefulSet
    <2> DEFINE listed == IF r.inst.spec.log = None THEN {}
                         ELSE {k \in Ordinals : Cached(claims)[k] # None}
               next == IF listed = {} THEN "applyStatefulSet" ELSE "ensureLogPVCStorage"
               locals == [r EXCEPT !.found = Cached(sts), !.todo = listed,
                                   !.listed = IF listed = {} THEN None ELSE Cached(claims)]
    <2>1. CASE Cached(sts) # None /\ Proceed(next, locals) /\ UNCHANGED sts
      <3> HIDE DEF listed
      <3>1. r'.inst = r.inst /\ r'.files = r.files /\ r'.found = Cached(sts)
        BY <1>0, <2>1 DEF Proceed, Locals
      <3>2. pc' \in {"ensureLogPVCStorage", "applyStatefulSet"}
        BY <2>1 DEF Proceed
      <3> QED
        BY <1>8, <2>1, <3>1, <3>2 DEF ensureStatefulSet, Walk, Kept
    <2>2. CASE Requeue
      BY <2>2 DEF Requeue, Walk
    <2> QED
      BY <1>7, <1>8, <2>1, <2>2 DEF ensureStatefulSet
  <1>9. CASE ensureLogPVCStorage
    <2>1. PICK k \in r.todo :
            LET rest == r.todo \ {k}
                next == IF rest = {} THEN "applyStatefulSet" ELSE "ensureLogPVCStorage"
                locals == [r EXCEPT !.todo = rest, !.listed = IF rest = {} THEN None ELSE @]
            IN  Proceed(next, locals) \/ Reply(next, locals) \/ Requeue
      BY <1>9 DEF ensureLogPVCStorage
    <2> DEFINE rest == r.todo \ {k}
               next == IF rest = {} THEN "applyStatefulSet" ELSE "ensureLogPVCStorage"
               locals == [r EXCEPT !.todo = rest, !.listed = IF rest = {} THEN None ELSE @]
    <2> HIDE DEF rest
    <2>2. CASE Proceed(next, locals)
      <3>1. r'.inst = r.inst /\ r'.files = r.files /\ r'.found = r.found
        BY <1>0, <2>2 DEF Proceed, Locals
      <3>2. pc' \in {"ensureLogPVCStorage", "applyStatefulSet"}
        BY <2>2 DEF Proceed
      <3> QED
        BY <1>9, <3>1, <3>2 DEF ensureLogPVCStorage, Walk, Kept
    <2>3. CASE Requeue
      BY <2>3 DEF Requeue, Walk
    <2> QED
      BY <2>1, <2>2, <2>3 DEF Reply, rest
  <1>10. CASE applyStatefulSet
    BY <1>7, <1>10 DEF applyStatefulSet, Requeue, Walk
  <1>11. CASE updateStatus
    BY <1>11 DEF updateStatus, Reply, Proceed, Requeue, Walk
  <1> QED
    BY <1>1, <1>2, <1>3, <1>4, <1>5, <1>6, <1>8, <1>9, <1>10, <1>11 DEF Reconcile

LEMMA NextWalks ==
    ASSUME TypeInv, [Next]_vars
    PROVE  Walk
  <1>1. CASE Reconcile
    BY <1>1, ReconcileWalks
  <1>2. CASE UNCHANGED vars
    BY <1>2 DEF vars, Walk
  <1>3. CASE SyncCr \/ SyncSts \/ SyncCm \/ SyncClaims \/ SyncSecrets \/ Resync \/ Cluster
    BY <1>3 DEF SyncCr, SyncSts, SyncCm, SyncClaims, SyncSecrets, Resync, Cluster,
       GarbageCollectSts, GarbageCollectCm, StsFinalized, StsCreatesClaim, Walk
  <1>4. CASE Environment
    BY <1>4 DEF Environment, UserCreatesCr, UserEditsCr, UserDeletesCr, UserDeletesSts,
       InputChanges, CallFails, Restart, Requeue, Walk
  <1> QED
    BY <1>1, <1>2, <1>3, <1>4 DEF Next

-------------------------------------------------------------------------------
(* Status: the invariant *)

\* A resource version names one version of the resource: an old one in the stream
\* that has the version number of the live one is the live one.
Versions ==
    \A i \in 1..Len(cr) : cr[i] # None =>
       /\ cr[i].rv <= rev["cr"]
       /\ Live(cr) # None /\ cr[i].rv = Live(cr).rv => cr[i] = Live(cr)

\* The instance of a running Reconcile has the spec of the version it was fetched
\* from, and its conditions and more.
Fetched ==
    pc # "idle" =>
       /\ r.inst.rv <= rev["cr"]
       /\ Live(cr) # None /\ r.inst.rv = Live(cr).rv
            => r.inst.spec = Live(cr).spec /\ Live(cr).conds \subseteq r.inst.conds

\* DBReady is set before all other conditions.
DbFirst ==
    /\ pc \notin {"idle", "ensureDB"} => "DBReady" \in r.inst.conds
    /\ Live(cr) # None /\ "AimReady" \in Live(cr).conds => "DBReady" \in Live(cr).conds

\* The status writes that a resource can still see.
WritesLeft(object) ==
    IF object = None THEN 0
    ELSE IF "AimReady" \notin object.conds THEN 2
    ELSE IF "RabbitMQReady" \notin object.conds THEN 1 ELSE 0

\* Every creation pays for its writes in advance.
Budget == rev["cr"] + WritesLeft(Live(cr)) <= 1 + edits + 2 * (1 + edits)

StatusInv == Versions /\ Fetched /\ DbFirst /\ Budget

-------------------------------------------------------------------------------
(* Status: the stream of the resource *)

\* The steps that show the resource to the operator, or take it away.
CrShown ==
    /\ rev'["cr"] = rev["cr"] /\ edits' \in {edits, edits + 1}
    /\ \/ UNCHANGED cr
       \/ Len(cr) > 1 /\ cr' = Tail(cr)
       \/ cr' = <<Live(cr)>> /\ pc' = "idle"
       \/ cr' = Append(cr, None) /\ UNCHANGED <<pc, r>>

\* The writes: a creation, an edit, a status.
CrWritten ==
    /\ rev'["cr"] = rev["cr"] + 1
    /\ \E x \in CRs :
          /\ cr' = Append(cr, x) /\ x.rv = rev["cr"] + 1
          /\ \/ /\ edits' = edits + 1 /\ UNCHANGED <<pc, r>>
                /\ x.conds = IF Live(cr) = None THEN {} ELSE Live(cr).conds
             \/ /\ UNCHANGED edits /\ pc' = "idle"
                /\ "DBReady" \in x.conds /\ WritesLeft(x) < WritesLeft(Live(cr))

\* updateStatus writes only what a version with less conditions lacks.
LEMMA StatusWrites ==
    ASSUME TypeInv, StatusInv, updateStatus
    PROVE  CrShown \/ CrWritten
  <1> USE DEF TypeInv
  <1>1. /\ r.inst \in CRs /\ pc' = "idle" /\ UNCHANGED edits /\ edits \in Nat
        /\ pc = "updateStatus" /\ "DBReady" \in r.inst.conds
    BY DEF updateStatus, LocalsOK, Reply, Proceed, Requeue, TypeOK, StatusInv, DbFirst
  <1> DEFINE instance == setCondition(r.inst, "AimReady")
             new == [Live(cr) EXCEPT !.rv = NextRev("cr"), !.conds = instance.conds]
  <1>2. CASE UNCHANGED <<cr, rev>>
    BY <1>1, <1>2 DEF CrShown
  <1>3. CASE /\ SameVersion(Live(cr), instance) /\ StatusChanged(Live(cr), instance)
             /\ cr' = Append(cr, new) /\ Bump("cr")
    <2>1. /\ instance \in CRs /\ instance.rv = r.inst.rv
          /\ instance.conds = r.inst.conds \cup {"AimReady"}
      BY <1>1, ConditionType DEF Conditions, setCondition, CRs
    <2>2. Live(cr) \in CRs /\ NextRev("cr") \in Nat /\ Live(cr) # None
      BY <1>3, StreamsTyped DEF SameVersion, NextRev, TypeOK
    <2>3. Live(cr).rv = r.inst.rv /\ Live(cr).conds # instance.conds
      BY <1>3, <2>1 DEF SameVersion, StatusChanged
    <2>4. Live(cr).conds \subseteq r.inst.conds
      BY <1>1, <2>2, <2>3 DEF StatusInv, Fetched
    <2>5. "AimReady" \in Live(cr).conds => "DBReady" \in Live(cr).conds
      BY <2>2 DEF StatusInv, DbFirst
    <2> HIDE DEF instance
    <2>6. new \in CRs /\ new.conds = instance.conds /\ new.rv = NextRev("cr")
      BY <2>1, <2>2 DEF CRs
    <2>7. cr' = Append(cr, new)
      BY <1>3
    <2> HIDE DEF new
    <2>8. instance.conds \subseteq Conditions /\ Live(cr).conds \subseteq Conditions
      BY <2>1, <2>2 DEF CRs
    <2>9. new # None
      BY <2>6, ReconcilerAssumption
    <2>10. "AimReady" \in Live(cr).conds =>
             "RabbitMQReady" \notin Live(cr).conds /\ "RabbitMQReady" \in instance.conds
      BY <2>1, <2>3, <2>4, <2>5, <2>8 DEF Conditions
    <2>11. WritesLeft(new) < WritesLeft(Live(cr))
      BY <2>1, <2>2, <2>6, <2>9, <2>10 DEF WritesLeft
    <2>12. rev'["cr"] = rev["cr"] + 1 /\ NextRev("cr") = rev["cr"] + 1
      BY <1>3 DEF Bump, NextRev, TypeOK
    <2> QED
      BY <1>1, <2>1, <2>6, <2>7, <2>11, <2>12 DEF CrWritten
  <1> QED
    BY <1>2, <1>3 DEF updateStatus

\* Every step shows or writes the resource.
LEMMA CrSteps ==
    ASSUME TypeInv, StatusInv, [Next]_vars
    PROVE  CrShown \/ CrWritten
  <1> USE DEF TypeInv
  <1>0. /\ edits \in Nat /\ rev \in [{"cr", "sts", "cm", "ca"} -> Nat]
        /\ NextRev("cr") \in Nat /\ NextRev("cr") = rev["cr"] + 1
    BY DEF TypeOK, NextRev
  <1>1. CASE UNCHANGED <<cr, edits>> /\ (UNCHANGED rev \/ Bump("sts") \/ Bump("cm") \/ Bump("ca"))
    <2>1. rev'["cr"] = rev["cr"]
      BY <1>0, <1>1 DEF Bump
    <2> QED
      BY <1>0, <1>1, <2>1 DEF CrShown
  <1>2. CASE updateStatus
    BY <1>2, StatusWrites
  <1>3. CASE \/ FetchInstance \/ ensureDB \/ ensureMessageBus \/ RenderConfigFiles
             \/ ensureConfigMap \/ ensureRabbitMQCaSecret \/ ensureStatefulSet
             \/ ensureLogPVCStorage \/ applyStatefulSet
    <2>1. UNCHANGED <<cr, edits>>
      BY <1>3 DEF FetchInstance, ensureDB, ensureMessageBus, RenderConfigFiles,
         ensureConfigMap, ensureRabbitMQCaSecret, ensureStatefulSet, ensureLogPVCStorage,
         applyStatefulSet
    <2>2. UNCHANGED rev \/ Bump("sts") \/ Bump("cm") \/ Bump("ca")
      BY <1>3 DEF FetchInstance, ensureDB, ensureMessageBus, RenderConfigFiles,
         ensureConfigMap, ensureRabbitMQCaSecret, ensureStatefulSet, ensureLogPVCStorage,
         applyStatefulSet, DeleteFound
    <2> QED
      BY <1>1, <2>1, <2>2
  <1>4. CASE UNCHANGED vars \/ SyncSts \/ SyncCm \/ SyncClaims \/ SyncSecrets \/ Resync
             \/ Cluster \/ CallFails
    <2>1. UNCHANGED <<cr, edits, rev>>
      BY <1>4 DEF vars, SyncSts, SyncCm, SyncClaims, SyncSecrets, Resync, Cluster, CallFails,
         GarbageCollectSts, GarbageCollectCm, StsFinalized, StsCreatesClaim
    <2> QED
      BY <1>1, <2>1
  <1>5. CASE SyncCr \/ Restart
    BY <1>0, <1>5 DEF SyncCr, Restart, CrShown
  <1>6. CASE UserDeletesCr \/ UserDeletesSts \/ InputChanges
    <2>1. rev'["cr"] = rev["cr"]
      BY <1>0, <1>6 DEF UserDeletesCr, UserDeletesSts, InputChanges, Bump
    <2>2. edits' = edits + 1 /\ UNCHANGED <<pc, r>> /\ (UNCHANGED cr \/ cr' = Append(cr, None))
      BY <1>6 DEF UserDeletesCr, UserDeletesSts, InputChanges, Edit
    <2> QED
      BY <1>0, <2>1, <2>2 DEF CrShown
  <1>7. CASE UserCreatesCr
    <2>1. PICK spec \in Specs :
             cr' = Append(cr, [uid |-> NextRev("cr"), rv |-> NextRev("cr"), spec |-> spec,
                               conds |-> {}])
      BY <1>7 DEF UserCreatesCr
    <2> DEFINE new == [uid |-> NextRev("cr"), rv |-> NextRev("cr"), spec |-> spec, conds |-> {}]
    <2>2. new \in CRs /\ new.rv = rev["cr"] + 1 /\ new.conds = {}
      BY <1>0, ReconcilerAssumption DEF CRs
    <2>3. cr' = Append(cr, new)
      BY <2>1
    <2> HIDE DEF new
    <2>4. /\ rev'["cr"] = rev["cr"] + 1 /\ edits' = edits + 1
          /\ UNCHANGED <<pc, r>> /\ Live(cr) = None
      BY <1>0, <1>7 DEF UserCreatesCr, Bump, Edit
    <2> QED
      BY <2>2, <2>3, <2>4 DEF CrWritten
  <1>8. CASE UserEditsCr
    <2>1. PICK spec \in Specs :
             cr' = Append(cr, [Live(cr) EXCEPT !.rv = NextRev("cr"), !.spec = spec])
      BY <1>8 DEF UserEditsCr
    <2> DEFINE new == [Live(cr) EXCEPT !.rv = NextRev("cr"), !.spec = spec]
    <2>2. Live(cr) \in CRs /\ Live(cr) # None /\ spec \in SpecType
      BY <1>8, StreamsTyped, ReconcilerAssumption DEF UserEditsCr
    <2>3. new \in CRs /\ new.rv = rev["cr"] + 1 /\ new.conds = Live(cr).conds
      BY <1>0, <2>2 DEF CRs
    <2>4. cr' = Append(cr, new)
      BY <2>1
    <2> HIDE DEF new
    <2>5. /\ rev'["cr"] = rev["cr"] + 1 /\ edits' = edits + 1
          /\ UNCHANGED <<pc, r>>
      BY <1>0, <1>8 DEF UserEditsCr, Bump, Edit
    <2> QED
      BY <2>2, <2>3, <2>4, <2>5 DEF CrWritten
  <1> QED
    BY <1>2, <1>3, <1>4, <1>5, <1>6, <1>7, <1>8 DEF Next, Reconcile, Environment

-------------------------------------------------------------------------------
(* Status: the invariant is kept *)

\* A resource that is shown keeps its versions apart and its budget.
LEMMA ShownKeeps ==
    ASSUME TypeInv, StatusInv, CrShown
    PROVE  Versions' /\ Budget' /\ (Live(cr') = Live(cr) \/ Live(cr') = None)
  <1>0. /\ cr \in Seq(CRs \cup {None}) /\ cr # <<>> /\ Versions /\ Budget
        /\ rev'["cr"] = rev["cr"] /\ edits \in Nat /\ rev["cr"] \in Nat /\ edits' \in {edits, edits + 1}
    BY DEF TypeInv, TypeOK, StatusInv, CrShown
  <1>1. WritesLeft(Live(cr)) \in Nat /\ WritesLeft(None) = 0
    BY DEF WritesLeft
  <1>2. Versions' /\ (Live(cr') = Live(cr) \/ Live(cr') = None)
    <2>1. CASE UNCHANGED cr
      BY <1>0, <2>1 DEF Versions
    <2>2. CASE Len(cr) > 1 /\ cr' = Tail(cr)
      <3>1. Live(cr') = Live(cr)
        BY <1>0, <2>2, StreamTail
      <3>2. \A i \in 1..Len(cr') : cr'[i] = cr[i + 1] /\ i + 1 \in 1..Len(cr)
        BY <1>0, <2>2, TailElements
      <3> QED
        BY <1>0, <3>1, <3>2 DEF Versions
    <2>3. CASE cr' = <<Live(cr)>>
      <3>1. /\ Live(cr') = Live(cr) /\ Len(cr') = 1 /\ cr'[1] = Live(cr)
            /\ Len(cr) \in 1..Len(cr) /\ Live(cr) = cr[Len(cr)]
        BY <1>0, <2>3, StreamRelist, RelistElements
      <3> QED
        BY <1>0, <3>1 DEF Versions
    <2>4. CASE cr' = Append(cr, None)
      <3>1. Live(cr') = None
        BY <1>0, <2>4, StreamAppend
      <3>2. /\ Len(cr') = Len(cr) + 1 /\ Len(cr) \in Nat
            /\ \A i \in 1..Len(cr) : cr'[i] = cr[i]
            /\ cr'[Len(cr) + 1] = None
        BY <1>0, <2>4, AppendElements
      <3>3. \A i \in 1..Len(cr') : cr'[i] # None => i \in 1..Len(cr) /\ cr'[i] = cr[i]
        BY <3>2
      <3> QED
        BY <1>0, <3>1, <3>3 DEF Versions
    <2> QED
      BY <2>1, <2>2, <2>3, <2>4 DEF CrShown
  <1>3. Budget'
    BY <1>0, <1>1, <1>2 DEF Budget
  <1> QED
    BY <1>2, <1>3

\* A write has a version number that nobody has seen.
LEMMA WrittenKeeps ==
    ASSUME TypeInv, StatusInv, CrWritten
    PROVE  /\ Versions' /\ Budget' /\ Live(cr') # None
           /\ Live(cr').rv = rev["cr"] + 1
           /\ "AimReady" \in Live(cr').conds => "DBReady" \in Live(cr').conds
           /\ pc' = "idle" \/ UNCHANGED <<pc, r>>
  <1>0. /\ cr \in Seq(CRs \cup {None}) /\ cr # <<>> /\ Versions /\ Budget /\ DbFirst
        /\ edits \in Nat /\ rev["cr"] \in Nat /\ rev'["cr"] = rev["cr"] + 1
    BY DEF TypeInv, TypeOK, StatusInv, CrWritten
  <1>1. PICK x \in CRs :
          /\ cr' = Append(cr, x) /\ x.rv = rev["cr"] + 1
          /\ \/ /\ edits' = edits + 1 /\ UNCHANGED <<pc, r>>
                /\ x.conds = IF Live(cr) = None THEN {} ELSE Live(cr).conds
             \/ /\ UNCHANGED edits /\ pc' = "idle"
                /\ "DBReady" \in x.conds /\ WritesLeft(x) < WritesLeft(Live(cr))
    BY DEF CrWritten
  <1>2. Live(cr') = x /\ x # None
    BY <1>0, <1>1, StreamAppend, ReconcilerAssumption
  <1>3. /\ Len(cr') = Len(cr) + 1 /\ Len(cr) \in Nat
        /\ \A i \in 1..Len(cr) : cr'[i] = cr[i] /\ cr[i] \in CRs \cup {None}
        /\ cr'[Len(cr) + 1] = x
    BY <1>0, <1>1, AppendElements, StreamType
  <1>4. Versions'
    <2>1. ASSUME NEW i \in 1..Len(cr'), cr'[i] # None
          PROVE  cr'[i].rv <= rev["cr"] + 1 /\ (cr'[i].rv = x.rv => cr'[i] = x)
      <3>1. CASE i = Len(cr) + 1
        BY <1>0, <1>1, <1>3, <3>1
      <3>2. CASE i \in 1..Len(cr)
        <4>1. cr'[i] = cr[i] /\ cr[i] \in CRs /\ cr[i] # None
          BY <1>3, <2>1, <3>2
        <4>2. cr[i].rv <= rev["cr"] /\ cr[i].rv \in Nat
          BY <1>0, <3>2, <4>1 DEF Versions, CRs
        <4> QED
          BY <1>0, <1>1, <4>1, <4>2
      <3> QED
        BY <1>3, <3>1, <3>2
    <2> QED
      BY <1>0, <1>2, <2>1 DEF Versions
  <1>5. /\ WritesLeft(Live(cr)) \in 0..2 /\ WritesLeft(x) \in 0..2
        /\ Live(cr) # None /\ x.conds = Live(cr).conds => WritesLeft(x) = WritesLeft(Live(cr))
        /\ rev["cr"] + WritesLeft(Live(cr)) <= 1 + edits + 2 * (1 + edits)
    BY <1>0, <1>2 DEF WritesLeft, Budget
  <1>6. Budget'
    <2> DEFINE a == WritesLeft(Live(cr))
               b == WritesLeft(x)
    <2>1. b <= a + 2
      BY <1>5
    <2>2. CASE edits' = edits + 1
      <3>1. rev["cr"] + 1 + b <= 1 + (edits + 1) + 2 * (1 + (edits + 1))
        <4> HIDE DEF a, b
        <4> QED
          BY <1>0, <1>5, <2>1 DEF a, b
      <3> QED
        BY <1>0, <1>2, <2>2, <3>1 DEF Budget
    <2>3. CASE edits' = edits /\ b < a
      <3>1. rev["cr"] + 1 + b <= 1 + edits + 2 * (1 + edits)
        BY <1>0, <1>5, <2>3
      <3> QED
        BY <1>0, <1>2, <2>3, <3>1 DEF Budget
    <2> QED
      BY <1>1, <2>2, <2>3
  <1>7. "AimReady" \in x.conds => "DBReady" \in x.conds
    BY <1>0, <1>1 DEF DbFirst
  <1> QED
    BY <1>1, <1>2, <1>4, <1>6, <1>7

\* Reconcile keeps the instance it has fetched, with more conditions.
LEMMA WalkKeeps ==
    ASSUME TypeInv, StatusInv, Walk, CrShown \/ CrWritten
    PROVE  Fetched' /\ DbFirst'
  <1>0. /\ cr \in Seq(CRs \cup {None}) /\ cr # <<>> /\ rev["cr"] \in Nat
        /\ Versions /\ Fetched /\ DbFirst
        /\ pc # "idle" => r.inst \in CRs
    BY DEF TypeInv, TypeOK, LocalsOK, StatusInv
  <1>1. \/ /\ Live(cr') = Live(cr) \/ Live(cr') = None
           /\ rev'["cr"] = rev["cr"]
        \/ /\ Live(cr') # None /\ Live(cr').rv = rev["cr"] + 1 /\ rev'["cr"] = rev["cr"] + 1
           /\ "AimReady" \in Live(cr').conds => "DBReady" \in Live(cr').conds
           /\ pc' = "idle" \/ UNCHANGED <<pc, r>>
    BY ShownKeeps, WrittenKeeps DEF CrShown, CrWritten
  <1>2. Live(cr') # None /\ "AimReady" \in Live(cr').conds => "DBReady" \in Live(cr').conds
    BY <1>0, <1>1 DEF DbFirst
  <1>3. CASE pc' = "idle"
    BY <1>2, <1>3 DEF Fetched, DbFirst
  <1>4. CASE UNCHANGED <<pc, r>>
    <2>1. pc # "idle" => r.inst.rv \in Nat
      BY <1>0 DEF CRs
    <2> QED
      BY <1>0, <1>1, <1>2, <1>4, <2>1 DEF Fetched, DbFirst
  <1>5. CASE /\ pc = "idle" /\ pc' = "ensureDB" /\ UNCHANGED <<cr, rev>>
             /\ Cached(cr) # None /\ r'.inst = Cached(cr)
    <2>1. Cached(cr) = cr[1] /\ 1 \in 1..Len(cr)
      BY <1>0 DEF Cached
    <2>2. /\ cr[1].rv <= rev["cr"]
          /\ Live(cr) # None /\ cr[1].rv = Live(cr).rv => cr[1] = Live(cr)
      BY <1>0, <1>5, <2>1 DEF Versions
    <2> QED
      BY <1>2, <1>5, <2>1, <2>2 DEF Fetched, DbFirst
  <1>6. ASSUME pc # "idle", pc' # "idle", NEW c \in Conditions,
               r'.inst \in {r.inst, setCondition(r.inst, c)},
               pc = "ensureDB" => c = "DBReady" /\ r'.inst = setCondition(r.inst, c)
        PROVE  Fetched' /\ DbFirst'
    <2>1. /\ r'.inst.rv = r.inst.rv /\ r'.inst.spec = r.inst.spec /\ r.inst.rv \in Nat
          /\ r.inst.conds \subseteq r'.inst.conds
          /\ pc = "ensureDB" => "DBReady" \in r'.inst.conds
      BY <1>0, <1>6 DEF setCondition, CRs
    <2>2. Fetched'
      BY <1>0, <1>1, <1>6, <2>1 DEF Fetched
    <2> QED
      BY <1>0, <1>2, <1>6, <2>1, <2>2 DEF DbFirst
  <1> QED
    BY <1>3, <1>4, <1>5, <1>6 DEF Walk, Kept, Conditions

\* The initial state.
LEMMA InitStatus == Init => StatusInv
  <1> SUFFICES ASSUME Init PROVE StatusInv
    OBVIOUS
  <1>1. PICK spec \in InitSpecs :
          cr = <<IF spec = None THEN None
                 ELSE [uid |-> 1, rv |-> 1, spec |-> spec, conds |-> {}]>>
    BY DEF Init
  <1>2. Live(cr) = cr[1] /\ Len(cr) = 1
    BY <1>1 DEF Live
  <1>3. pc = "idle" /\ edits = 0 /\ rev["cr"] = 1
    BY DEF Init
  <1>4. cr[1] # None => cr[1].rv = 1 /\ cr[1].conds = {}
    BY <1>1
  <1>5. Versions
    BY <1>2, <1>3, <1>4 DEF Versions
  <1>6. Fetched /\ DbFirst
    BY <1>2, <1>3, <1>4 DEF Fetched, DbFirst
  <1>7. Budget
    BY <1>3 DEF Budget, WritesLeft
  <1> QED
    BY <1>5, <1>6, <1>7 DEF StatusInv

\* Every step keeps the invariant.
LEMMA NextStatus ==
    ASSUME TypeInv, StatusInv, [Next]_vars
    PROVE  StatusInv'
  <1>1. Walk /\ (CrShown \/ CrWritten)
    BY NextWalks, CrSteps
  <1>2. Versions' /\ Budget'
    BY <1>1, ShownKeeps, WrittenKeeps
  <1>3. Fetched' /\ DbFirst'
    BY <1>1, WalkKeeps
  <1> QED
    BY <1>2, <1>3 DEF StatusInv

\* The operator is woken by its own status writes and still stops: for any specs,
\* inputs, faults, restarts and deletions of the resource there are at most two
\* status writes for each resource that is created.
THEOREM StatusWritesStop == Spec => []StatusWritesBounded
  <1>1. Init => TypeInv /\ StatusInv
    BY InitType, InitStatus
  <1>2. ASSUME TypeInv /\ StatusInv, [Next]_vars
        PROVE  (TypeInv /\ StatusInv)'
    BY <1>2, NextType, NextStatus
  <1>3. TypeInv /\ StatusInv => StatusWritesBounded
    <2> SUFFICES ASSUME TypeInv, StatusInv PROVE StatusWritesBounded
      OBVIOUS
    <2>1. WritesLeft(Live(cr)) \in Nat /\ rev["cr"] \in Nat /\ edits \in Nat
      BY DEF WritesLeft, TypeInv, TypeOK
    <2> QED
      BY <2>1 DEF StatusInv, Budget, StatusWritesBounded
  <1> QED
    BY <1>1, <1>2, <1>3, PTL DEF Spec

-------------------------------------------------------------------------------
(* Deletions: the invariant *)

\* A stream of StatefulSets that the operator alone creates and deletes: it shows
\* one object, which appears once or disappears once.
OneObject(s) ==
    /\ \A i, j \in 1..Len(s) : s[i] # None /\ s[j] # None => s[i].uid = s[j].uid
    /\ s[1] # None => \A i, j \in 1..Len(s) : i <= j /\ s[i] = None => s[j] = None
    /\ s[1] = None => \A i, j \in 1..Len(s) : i <= j /\ s[i] # None => s[j] # None

\* All versions of the resource are versions of the live one, and Reconcile works
\* on one of them.
OneResource ==
    /\ \A i \in 1..Len(cr) : cr[i] # None => Live(cr) # None /\ cr[i].uid = Live(cr).uid
    /\ pc # "idle" => Live(cr) # None /\ r.inst.uid = Live(cr).uid

\* The live resource owns every version of the StatefulSet and nobody deletes it.
Owned ==
    \A i \in 1..Len(sts) : sts[i] # None =>
       Live(cr) # None /\ sts[i].owner = Live(cr).uid /\ ~sts[i].term

\* Between Get and Delete the stream shows the object that was found, or nothing.
Examined ==
    pc \in {"ensureLogPVCStorage", "applyStatefulSet"} =>
       /\ \A i \in 1..Len(sts) : sts[i] # None => sts[i].uid = r.found.uid
       /\ sts[1] = None => \A i \in 1..Len(sts) : sts[i] = None

DeleteInv == OneResource /\ Owned /\ OneObject(sts) /\ Examined

-------------------------------------------------------------------------------
(* Deletions: moves *)

\* What a step may do to the stream of the resource.
CrMove ==
    \/ UNCHANGED cr
    \/ Len(cr) > 1 /\ cr' = Tail(cr)
    \/ cr' = <<Live(cr)>>
    \/ \E x \in CRs : cr' = Append(cr, x) /\ (Live(cr) # None => x.uid = Live(cr).uid)

\* What a step may do to the control state of Reconcile, as far as the resource is
\* concerned.
RunMove ==
    \/ pc' = "idle"
    \/ UNCHANGED <<pc, r>>
    \/ pc # "idle" /\ r'.inst.uid = r.inst.uid
    \/ Cached(cr) # None /\ r'.inst = Cached(cr) /\ UNCHANGED cr

\* What a step may do to the stream of the StatefulSet, and when.
StsMove ==
    \/ UNCHANGED sts
    \/ Len(sts) > 1 /\ sts' = Tail(sts) /\ UNCHANGED <<pc, r>>
    \/ sts' = <<Live(sts)>> /\ pc' = "idle"
    \/ /\ \E x \in StatefulSets :
             /\ sts' = Append(sts, x) /\ ~x.term
             /\ \/ Cached(sts) = None /\ Live(sts) = None /\ x.owner = r.inst.uid
                \/ Live(sts) # None /\ x.uid = Live(sts).uid /\ x.owner = Live(sts).owner
       /\ pc # "idle" /\ pc' \in {"idle", "updateStatus"} /\ UNCHANGED cr
    \/ /\ pc = "applyStatefulSet" /\ Live(sts) # None
       /\ sts' = Append(sts, None) /\ pc' = "idle"

\* When a step enters or stays in the part of Reconcile between Get and Delete.
FoundMove ==
    \/ pc' \notin {"ensureLogPVCStorage", "applyStatefulSet"}
    \/ UNCHANGED <<pc, r>>
    \/ /\ pc \in {"ensureLogPVCStorage", "applyStatefulSet"}
       /\ r'.found = r.found /\ UNCHANGED sts
    \/ Cached(sts) # None /\ r'.found = Cached(sts) /\ UNCHANGED sts

-------------------------------------------------------------------------------
(* Deletions: the moves keep the invariant *)

\* The identity of the resource is stable.
LEMMA CrMoveKeeps ==
    ASSUME TypeOK, OneResource, CrMove, RunMove
    PROVE  /\ OneResource'
           /\ Live(cr) # None => Live(cr') # None /\ Live(cr').uid = Live(cr).uid
  <1> DEFINE C == \A i \in 1..Len(cr) : cr[i] # None =>
                     Live(cr) # None /\ cr[i].uid = Live(cr).uid
             Stable == Live(cr) # None => Live(cr') # None /\ Live(cr').uid = Live(cr).uid
  <1>0. cr \in Seq(CRs \cup {None}) /\ cr # <<>> /\ C
    BY DEF TypeOK, OneResource
  <1>1. C' /\ Stable
    <2>1. CASE UNCHANGED cr
      BY <1>0, <2>1
    <2>2. CASE Len(cr) > 1 /\ cr' = Tail(cr)
      <3>1. Live(cr') = Live(cr)
        BY <1>0, <2>2, StreamTail
      <3>2. \A i \in 1..Len(cr') : cr'[i] = cr[i + 1] /\ i + 1 \in 1..Len(cr)
        BY <1>0, <2>2, TailElements
      <3> QED
        BY <1>0, <3>1, <3>2
    <2>3. CASE cr' = <<Live(cr)>>
      <3>1. Live(cr') = Live(cr)
        BY <1>0, <2>3, StreamRelist
      <3>2. Len(cr') = 1 /\ cr'[1] = Live(cr)
        BY <1>0, <2>3, RelistElements
      <3> QED
        BY <3>1, <3>2
    <2>4. ASSUME NEW x \in CRs, cr' = Append(cr, x), Live(cr) # None => x.uid = Live(cr).uid
          PROVE  C' /\ Stable
      <3>1. Live(cr') = x /\ x # None
        BY <1>0, <2>4, StreamAppend, ReconcilerAssumption
      <3>2. /\ Len(cr') = Len(cr) + 1 /\ Len(cr) \in Nat \ {0}
            /\ \A i \in 1..Len(cr) : cr'[i] = cr[i]
            /\ cr'[Len(cr) + 1] = x
        BY <1>0, <2>4, AppendElements
      <3>3. ASSUME NEW i \in 1..Len(cr'), cr'[i] # None
            PROVE  cr'[i].uid = x.uid
        <4>1. CASE i \in 1..Len(cr)
          BY <1>0, <2>4, <3>2, <3>3, <4>1
        <4>2. CASE i = Len(cr) + 1
          BY <3>2, <4>2
        <4> QED
          BY <3>2, <4>1, <4>2
      <3> QED
        BY <2>4, <3>1, <3>3
    <2> QED
      BY <2>1, <2>2, <2>3, <2>4 DEF CrMove
  <1>2. ASSUME pc' # "idle"
        PROVE  Live(cr') # None /\ r'.inst.uid = Live(cr').uid
    <2>1. CASE UNCHANGED <<pc, r>>
      BY <1>1, <1>2, <2>1 DEF OneResource
    <2>2. CASE pc # "idle" /\ r'.inst.uid = r.inst.uid
      BY <1>1, <2>2 DEF OneResource
    <2>3. CASE Cached(cr) # None /\ r'.inst = Cached(cr) /\ UNCHANGED cr
      <3>1. Cached(cr) = cr[1] /\ 1 \in 1..Len(cr)
        BY <1>0 DEF Cached
      <3> QED
        BY <1>0, <2>3, <3>1
    <2> QED
      BY <1>2, <2>1, <2>2, <2>3 DEF RunMove
  <1> QED
    BY <1>1, <1>2 DEF OneResource

\* The stream keeps its shape, its owner and the object that was found.
LEMMA StsMoveKeeps ==
    ASSUME TypeInv, DeleteInv, CrMove, RunMove, StsMove, FoundMove
    PROVE  OneObject(sts)' /\ Owned' /\ Examined'
  <1>0. /\ sts \in Seq(StatefulSets \cup {None}) /\ sts # <<>> /\ TypeOK
        /\ OneResource /\ Owned /\ OneObject(sts) /\ Examined
    BY DEF TypeInv, TypeOK, DeleteInv
  <1>1. Live(cr) # None => Live(cr') # None /\ Live(cr').uid = Live(cr).uid
    BY <1>0, CrMoveKeeps
  <1>2. Cached(sts) = sts[1] /\ 1 \in 1..Len(sts) /\ Len(sts) \in 1..Len(sts)
        /\ Live(sts) = sts[Len(sts)] /\ Len(sts) \in Nat \ {0}
    BY <1>0 DEF Cached, Live
  <1> DEFINE mid == {"ensureLogPVCStorage", "applyStatefulSet"}
  <1>3. CASE UNCHANGED sts
    <2>1. OneObject(sts)'
      BY <1>0, <1>3 DEF OneObject
    <2>2. Owned'
      BY <1>0, <1>1, <1>3 DEF Owned
    <2>3. Examined'
      <3>1. CASE UNCHANGED <<pc, r>>
        BY <1>0, <1>3, <3>1 DEF Examined
      <3>2. CASE pc \in mid /\ r'.found = r.found
        BY <1>0, <1>3, <3>2 DEF Examined
      <3>3. CASE Cached(sts) # None /\ r'.found = Cached(sts)
        BY <1>0, <1>2, <1>3, <3>3 DEF Examined, OneObject
      <3> QED
        BY <3>1, <3>2, <3>3 DEF FoundMove, Examined
    <2> QED
      BY <2>1, <2>2, <2>3
  <1>4. CASE Len(sts) > 1 /\ sts' = Tail(sts) /\ UNCHANGED <<pc, r>>
    <2>1. /\ Len(sts') = Len(sts) - 1
          /\ \A i \in 1..Len(sts') : sts'[i] = sts[i + 1] /\ i + 1 \in 1..Len(sts)
      BY <1>0, <1>4, TailElements
    <2>2. sts'[1] = sts[2] /\ 2 \in 1..Len(sts) /\ 1 \in 1..Len(sts')
      BY <1>2, <1>4, <2>1
    <2>3. OneObject(sts)'
      <3>1. ASSUME NEW i \in 1..Len(sts'), NEW j \in 1..Len(sts')
            PROVE  sts'[i] # None /\ sts'[j] # None => sts'[i].uid = sts'[j].uid
        BY <1>0, <2>1 DEF OneObject
      <3>2. ASSUME sts'[1] # None, NEW i \in 1..Len(sts'), NEW j \in 1..Len(sts'),
                   i <= j, sts'[i] = None
            PROVE  sts'[j] = None
        <4>1. CASE sts[1] # None
          BY <1>0, <2>1, <3>2, <4>1 DEF OneObject
        <4>2. CASE sts[1] = None
          <5>1. sts[2] # None /\ 2 <= i + 1 /\ i + 1 \in 1..Len(sts)
            BY <2>1, <2>2, <3>2
          <5>2. sts[i + 1] # None
            BY <1>0, <2>2, <4>2, <5>1 DEF OneObject
          <5> QED
            BY <2>1, <3>2, <5>2
        <4> QED
          BY <4>1, <4>2
      <3>3. ASSUME sts'[1] = None, NEW i \in 1..Len(sts'), NEW j \in 1..Len(sts'),
                   i <= j, sts'[i] # None
            PROVE  sts'[j] # None
        <4>1. CASE sts[1] = None
          BY <1>0, <2>1, <3>3, <4>1 DEF OneObject
        <4>2. CASE sts[1] # None
          <5>1. sts[2] = None /\ 2 <= i + 1 /\ i + 1 \in 1..Len(sts)
            BY <2>1, <2>2, <3>3
          <5>2. sts[i + 1] = None
            BY <1>0, <2>2, <4>2, <5>1 DEF OneObject
          <5> QED
            BY <2>1, <3>3, <5>2
        <4> QED
          BY <4>1, <4>2
      <3> QED
        BY <3>1, <3>2, <3>3 DEF OneObject
    <2>4. Owned'
      BY <1>0, <1>1, <2>1 DEF Owned
    <2>5. Examined'
      <3>1. ASSUME pc \in mid
            PROVE  \A i \in 1..Len(sts') : sts'[i] # None => sts'[i].uid = r.found.uid
        BY <1>0, <2>1, <3>1 DEF Examined
      <3>2. ASSUME pc \in mid, sts'[1] = None, NEW i \in 1..Len(sts')
            PROVE  sts'[i] = None
        <4>1. CASE sts[1] = None
          BY <1>0, <2>1, <3>2, <4>1 DEF Examined
        <4>2. CASE sts[1] # None
          <5>1. sts[2] = None /\ 2 <= i + 1 /\ i + 1 \in 1..Len(sts)
            BY <2>1, <2>2, <3>2
          <5>2. sts[i + 1] = None
            BY <1>0, <2>2, <4>2, <5>1 DEF OneObject
          <5> QED
            BY <2>1, <5>2
        <4> QED
          BY <4>1, <4>2
      <3> QED
        BY <1>4, <3>1, <3>2 DEF Examined
    <2> QED
      BY <2>3, <2>4, <2>5
  <1>5. CASE sts' = <<Live(sts)>> /\ pc' = "idle"
    <2>1. Len(sts') = 1 /\ sts'[1] = sts[Len(sts)]
      BY <1>0, <1>2, <1>5, RelistElements
    <2> QED
      BY <1>0, <1>1, <1>2, <1>5, <2>1 DEF OneObject, Owned, Examined
  <1>6. ASSUME NEW x \in StatefulSets, sts' = Append(sts, x), ~x.term,
               \/ Cached(sts) = None /\ Live(sts) = None /\ x.owner = r.inst.uid
               \/ Live(sts) # None /\ x.uid = Live(sts).uid /\ x.owner = Live(sts).owner,
               pc # "idle", pc' \in {"idle", "updateStatus"}, UNCHANGED cr
        PROVE  OneObject(sts)' /\ Owned' /\ Examined'
    <2>1. /\ Len(sts') = Len(sts) + 1
          /\ \A i \in 1..Len(sts) : sts'[i] = sts[i]
          /\ sts'[Len(sts) + 1] = x
      BY <1>0, <1>6, AppendElements
    <2>2. x # None
      BY ReconcilerAssumption
    <2>3. \A i \in 1..Len(sts') : i \in 1..Len(sts) \/ i = Len(sts) + 1
      BY <1>2, <2>1
    <2>4. Live(cr) # None /\ x.owner = Live(cr).uid
      BY <1>0, <1>2, <1>6 DEF OneResource, Owned
    <2>5. Owned'
      BY <1>0, <1>6, <2>1, <2>3, <2>4 DEF Owned
    <2>6. Examined'
      BY <1>6 DEF Examined
    <2>7. CASE sts[1] = None /\ sts[Len(sts)] = None
      <3>1. \A i \in 1..Len(sts) : sts[i] = None
        BY <1>0, <1>2, <2>7 DEF OneObject
      <3> QED
        BY <1>2, <2>1, <2>2, <2>3, <2>5, <2>6, <3>1 DEF OneObject
    <2>8. CASE sts[Len(sts)] # None /\ x.uid = sts[Len(sts)].uid
      <3>1. \A i \in 1..Len(sts) : sts[i] # None => sts[i].uid = x.uid
        BY <1>0, <1>2, <2>8 DEF OneObject
      <3>2. sts[1] # None => \A i \in 1..Len(sts) : sts[i] # None
        BY <1>0, <1>2, <2>8 DEF OneObject
      <3>3. \A i, j \in 1..Len(sts') : sts'[i] # None /\ sts'[j] # None
                                            => sts'[i].uid = sts'[j].uid
        BY <2>1, <2>3, <3>1
      <3>4. sts'[1] # None => \A i \in 1..Len(sts') : sts'[i] # None
        BY <1>2, <2>1, <2>2, <2>3, <3>2
      <3>5. ASSUME sts'[1] = None, NEW i \in 1..Len(sts'), NEW j \in 1..Len(sts'),
                   i <= j, sts'[i] # None
            PROVE  sts'[j] # None
        <4>1. CASE j = Len(sts) + 1
          BY <2>1, <2>2, <4>1
        <4>2. CASE j \in 1..Len(sts)
          <5>1. i \in 1..Len(sts)
            BY <1>2, <3>5, <4>2
          <5> QED
            BY <1>0, <1>2, <2>1, <3>5, <4>2, <5>1 DEF OneObject
        <4> QED
          BY <2>3, <4>1, <4>2
      <3> QED
        BY <2>5, <2>6, <3>3, <3>4, <3>5 DEF OneObject
    <2> QED
      BY <1>2, <1>6, <2>7, <2>8
  <1>7. CASE /\ pc = "applyStatefulSet" /\ Live(sts) # None
             /\ sts' = Append(sts, None) /\ pc' = "idle"
    <2>1. /\ Len(sts') = Len(sts) + 1
          /\ \A i \in 1..Len(sts) : sts'[i] = sts[i]
          /\ sts'[Len(sts) + 1] = None
      BY <1>0, <1>7, AppendElements
    <2>2. \A i \in 1..Len(sts') : i \in 1..Len(sts) \/ i = Len(sts) + 1
      BY <1>2, <2>1
    <2>3. sts[1] # None /\ sts'[1] # None
      BY <1>0, <1>2, <1>7, <2>1 DEF Examined
    <2>4. Owned' /\ Examined'
      BY <1>0, <1>1, <1>7, <2>1, <2>2 DEF Owned, Examined
    <2>5. \A i, j \in 1..Len(sts') : sts'[i] # None /\ sts'[j] # None
                                          => sts'[i].uid = sts'[j].uid
      BY <1>0, <2>1, <2>2 DEF OneObject
    <2>6. ASSUME NEW i \in 1..Len(sts'), NEW j \in 1..Len(sts'), i <= j, sts'[i] = None
          PROVE  sts'[j] = None
      <3>1. CASE j = Len(sts) + 1
        BY <2>1, <3>1
      <3>2. CASE j \in 1..Len(sts)
        <4>1. i \in 1..Len(sts)
          BY <1>2, <2>6, <3>2
        <4> QED
          BY <1>0, <2>1, <2>3, <2>6, <3>2, <4>1 DEF OneObject
      <3> QED
        BY <2>2, <3>1, <3>2
    <2> QED
      BY <2>3, <2>4, <2>5, <2>6 DEF OneObject
  <1> QED
    BY <1>3, <1>4, <1>5, <1>6, <1>7 DEF StsMove

-------------------------------------------------------------------------------
(* Deletions: every step makes one of the moves *)

\* The way of Reconcile keeps the resource and what was found.
LEMMA WalkMoves ==
    ASSUME TypeInv, Walk
    PROVE  RunMove /\ FoundMove
  <1>1. pc # "idle" => r.inst \in CRs
    BY DEF TypeInv, LocalsOK
  <1>2. ASSUME pc # "idle", NEW c \in Conditions, r'.inst \in {r.inst, setCondition(r.inst, c)}
        PROVE  RunMove
    <2>1. r'.inst.uid = r.inst.uid
      BY <1>1, <1>2, ConditionType
    <2> QED
      BY <1>2, <2>1 DEF RunMove
  <1>3. RunMove
    BY <1>2 DEF Walk, Kept, Conditions, RunMove
  <1>4. FoundMove
    BY DEF Walk, Kept, FoundMove
  <1> QED
    BY <1>3, <1>4

Moves == CrMove /\ StsMove

\* The steps that read inputs and render, and those that write other objects.
LEMMA OtherStepsMove ==
    ASSUME \/ FetchInstance \/ ensureDB \/ ensureMessageBus \/ RenderConfigFiles
           \/ ensureConfigMap \/ ensureRabbitMQCaSecret \/ ensureLogPVCStorage
    PROVE  Moves
  <1>1. UNCHANGED <<cr, sts>>
    BY DEF FetchInstance, ensureDB, ensureMessageBus, RenderConfigFiles, ensureConfigMap,
       ensureRabbitMQCaSecret, ensureLogPVCStorage
  <1> QED
    BY <1>1 DEF Moves, CrMove, StsMove

\* ensureStatefulSet creates only on an empty stream.
LEMMA StatefulSetMoves ==
    ASSUME TypeInv, ensureStatefulSet
    PROVE  Moves
  <1> USE DEF TypeInv
  <1>1. r.inst \in CRs /\ r.files \in Files /\ pc # "idle" /\ UNCHANGED cr
    BY DEF ensureStatefulSet, LocalsOK
  <1> DEFINE new == [uid |-> NextRev("sts"), rv |-> NextRev("sts"),
                     owner |-> SetControllerReference(r.inst),
                     spec |-> Defaulted(Desired), term |-> FALSE]
  <1>2. CASE UNCHANGED sts
    BY <1>1, <1>2 DEF Moves, CrMove, StsMove
  <1>3. CASE /\ ~StatefulSetFails(r.inst.spec) /\ Cached(sts) = None /\ Live(sts) = None
             /\ sts' = Append(sts, new)
             /\ Reply("updateStatus", [NoLocals EXCEPT !.inst = r.inst])
    <2>1. Defaulted(Desired) \in StsSpecs
      <3>1. r.inst.spec \in SpecType
        BY <1>1 DEF CRs
      <3> QED
        BY <1>1, <1>3, <3>1, BuiltType DEF Desired
    <2>2. SetControllerReference(r.inst) = r.inst.uid /\ r.inst.uid \in Nat
          /\ NextRev("sts") \in Nat
      BY <1>1 DEF SetControllerReference, CRs, NextRev, TypeOK
    <2>3. new \in StatefulSets /\ new.owner = r.inst.uid /\ ~new.term
      BY <2>1, <2>2 DEF StatefulSets
    <2> HIDE DEF new
    <2>4. pc' \in {"idle", "updateStatus"}
      BY <1>3 DEF Reply, Proceed, Requeue
    <2> QED
      BY <1>1, <1>3, <2>3, <2>4 DEF Moves, CrMove, StsMove
  <1> QED
    BY <1>2, <1>3 DEF ensureStatefulSet

\* applyStatefulSet deletes the live object or appends a version of the found one.
LEMMA ApplyMoves ==
    ASSUME TypeInv, DeleteInv, applyStatefulSet
    PROVE  Moves
  <1> USE DEF TypeInv
  <1>1. /\ r.inst \in CRs /\ r.files \in Files /\ r \in Locals
        /\ r.found \in StatefulSets /\ ~StatefulSetFails(r.inst.spec)
        /\ pc = "applyStatefulSet" /\ UNCHANGED cr
    BY DEF applyStatefulSet, LocalsOK, TypeOK
  <1>2. CrMove
    BY <1>1 DEF CrMove
  <1>3. CASE UNCHANGED sts
    BY <1>2, <1>3 DEF Moves, StsMove
  <1>4. CASE DeleteFound(r.found) /\ Requeue
    <2>1. CASE Live(sts) # None /\ RemoveSts
      <3>1. sts' = Append(sts, None) /\ pc' = "idle"
        BY <1>4, <2>1 DEF RemoveSts, Requeue
      <3> QED
        BY <1>1, <1>2, <2>1, <3>1 DEF Moves, StsMove
    <2> QED
      BY <1>3, <1>4, <2>1 DEF DeleteFound
  <1> DEFINE updated == Defaulted(UpdatedStatefulSet(r.found.spec, Desired))
             new == [r.found EXCEPT !.rv = NextRev("sts"), !.spec = updated]
  <1>5. CASE /\ Live(sts) = r.found
             /\ UNCHANGED sts \/ sts' = Append(sts, new)
             /\ Reply("updateStatus", [NoLocals EXCEPT !.inst = r.inst])
    <2>1. updated \in StsSpecs
      <3>1. r.inst.spec \in SpecType /\ r.found.spec \in StsSpecs
        BY <1>1 DEF CRs, StatefulSets
      <3> QED
        BY <1>1, <3>1, UpdatedType DEF Desired
    <2> HIDE DEF updated
    <2>2. NextRev("sts") \in Nat
      BY DEF NextRev, TypeOK
    <2>3. /\ new \in StatefulSets /\ new.uid = r.found.uid
          /\ new.owner = r.found.owner /\ new.term = r.found.term
      BY <1>1, <2>1, <2>2 DEF StatefulSets
    <2> HIDE DEF new
    <2>4. pc' \in {"idle", "updateStatus"}
      BY <1>5 DEF Reply, Proceed, Requeue
    <2>5. Live(sts) # None /\ ~Live(sts).term
      <3>1. Live(sts) # None
        BY <1>1, <1>5, ReconcilerAssumption
      <3>2. Len(sts) \in 1..Len(sts) /\ Live(sts) = sts[Len(sts)]
        BY RelistElements DEF TypeOK
      <3> QED
        BY <3>1, <3>2 DEF DeleteInv, Owned
    <2>6. StsMove
      BY <1>1, <1>5, <2>3, <2>4, <2>5 DEF StsMove
    <2> QED
      BY <1>2, <2>6 DEF Moves
  <1> QED
    BY <1>3, <1>4, <1>5 DEF applyStatefulSet

\* updateStatus appends a version of the live resource.
LEMMA StatusMoves ==
    ASSUME TypeInv, updateStatus
    PROVE  Moves
  <1> USE DEF TypeInv
  <1>1. r.inst \in CRs /\ UNCHANGED sts
    BY DEF updateStatus, LocalsOK
  <1>2. StsMove
    BY <1>1 DEF StsMove
  <1> DEFINE instance == setCondition(r.inst, "AimReady")
             new == [Live(cr) EXCEPT !.rv = NextRev("cr"), !.conds = instance.conds]
  <1>3. CASE UNCHANGED cr
    BY <1>2, <1>3 DEF Moves, CrMove
  <1>4. CASE SameVersion(Live(cr), instance) /\ cr' = Append(cr, new)
    <2>1. instance \in CRs
      BY <1>1, ConditionType DEF Conditions
    <2>2. Live(cr) \in CRs /\ NextRev("cr") \in Nat
      BY <1>4, StreamsTyped DEF SameVersion, NextRev, TypeOK
    <2> HIDE DEF instance
    <2>3. new \in CRs /\ new.uid = Live(cr).uid
      BY <2>1, <2>2 DEF CRs
    <2> HIDE DEF new
    <2> QED
      BY <1>2, <1>4, <2>3 DEF Moves, CrMove
  <1> QED
    BY <1>3, <1>4 DEF updateStatus

\* Watch events and faults.
LEMMA EventMoves ==
    ASSUME TypeInv,
           \/ SyncCr \/ SyncSts \/ SyncCm \/ SyncClaims \/ SyncSecrets \/ Resync
           \/ CallFails \/ Restart
    PROVE  Moves
  BY DEF SyncCr, SyncSts, SyncCm, SyncClaims, SyncSecrets, Resync, CallFails, Restart, Requeue,
     Moves, CrMove, StsMove

\* Users who delete nothing.
LEMMA UserMoves ==
    ASSUME Deletes = FALSE, TypeInv,
           UserCreatesCr \/ UserEditsCr \/ UserDeletesCr \/ UserDeletesSts \/ InputChanges
    PROVE  Moves
  <1> USE DEF TypeInv
  <1>1. UNCHANGED sts
    BY DEF UserCreatesCr, UserEditsCr, UserDeletesCr, UserDeletesSts, InputChanges
  <1>2. StsMove
    BY <1>1 DEF StsMove
  <1>3. CASE UserCreatesCr
    <2>1. PICK spec \in Specs :
             cr' = Append(cr, [uid |-> NextRev("cr"), rv |-> NextRev("cr"), spec |-> spec,
                               conds |-> {}])
      BY <1>3 DEF UserCreatesCr
    <2>2. [uid |-> NextRev("cr"), rv |-> NextRev("cr"), spec |-> spec, conds |-> {}] \in CRs
      BY ReconcilerAssumption DEF CRs, NextRev, TypeOK
    <2>3. CrMove
      BY <1>3, <2>1, <2>2 DEF UserCreatesCr, CrMove
    <2> QED
      BY <1>2, <2>3 DEF Moves
  <1>4. CASE UserEditsCr
    <2>1. PICK spec \in Specs :
             cr' = Append(cr, [Live(cr) EXCEPT !.rv = NextRev("cr"), !.spec = spec])
      BY <1>4 DEF UserEditsCr
    <2> DEFINE new == [Live(cr) EXCEPT !.rv = NextRev("cr"), !.spec = spec]
    <2>2. Live(cr) \in CRs /\ NextRev("cr") \in Nat /\ spec \in SpecType
      <3>1. Live(cr) \in CRs
        BY <1>4, StreamsTyped DEF UserEditsCr
      <3>2. NextRev("cr") \in Nat
        BY DEF NextRev, TypeOK
      <3> QED
        BY <3>1, <3>2, ReconcilerAssumption
    <2>3. new \in CRs /\ new.uid = Live(cr).uid
      BY <2>2 DEF CRs
    <2>4. cr' = Append(cr, new)
      BY <2>1
    <2> HIDE DEF new
    <2> QED
      BY <1>2, <2>3, <2>4 DEF Moves, CrMove
  <1>5. CASE InputChanges
    BY <1>2, <1>5 DEF InputChanges, Moves, CrMove
  <1> QED
    BY <1>3, <1>4, <1>5 DEF UserDeletesCr, UserDeletesSts

\* The garbage collector finds nothing to collect, and no deletion is pending.
LEMMA ClusterMoves ==
    ASSUME TypeInv, DeleteInv, Cluster
    PROVE  Moves
  <1>1. Len(sts) \in 1..Len(sts) /\ Live(sts) = sts[Len(sts)]
    BY RelistElements DEF TypeInv, TypeOK
  <1>2. Live(sts) # None =>
          Live(cr) # None /\ Live(sts).owner = Live(cr).uid /\ ~Live(sts).term
    BY <1>1 DEF DeleteInv, Owned
  <1>3. GarbageCollectCm \/ StsCreatesClaim
    BY <1>2 DEF Cluster, GarbageCollectSts, Orphan, StsFinalized
  <1> QED
    BY <1>3 DEF GarbageCollectCm, StsCreatesClaim, Moves, CrMove, StsMove

\* The initial state.
LEMMA InitDelete == Init => DeleteInv
  <1> SUFFICES ASSUME Init PROVE DeleteInv
    OBVIOUS
  <1>1. PICK spec \in InitSpecs :
          /\ cr = <<IF spec = None THEN None
                    ELSE [uid |-> 1, rv |-> 1, spec |-> spec, conds |-> {}]>>
          /\ \E s \in IF spec = None THEN {None} ELSE InitSts :
                sts = <<IF s = None THEN None
                        ELSE [uid |-> 1, rv |-> 1, owner |-> 1, spec |-> s, term |-> FALSE]>>
    BY DEF Init
  <1>2. Live(cr) = cr[1] /\ Len(cr) = 1 /\ Len(sts) = 1
    BY <1>1 DEF Live
  <1>3. pc = "idle"
    BY DEF Init
  <1>4. OneResource /\ Examined
    BY <1>2, <1>3 DEF OneResource, Examined
  <1>5. OneObject(sts)
    BY <1>2 DEF OneObject
  <1>6. Owned
    <2>1. spec # None => cr[1] # None /\ cr[1].uid = 1
      <3>1. spec # None => [uid |-> 1, rv |-> 1, spec |-> spec, conds |-> {}] \in CRs
        BY ReconcilerAssumption DEF CRs
      <3> QED
        BY <1>1, <3>1, ReconcilerAssumption
    <2>2. sts[1] # None => spec # None /\ sts[1].owner = 1 /\ ~sts[1].term
      BY <1>1
    <2> QED
      BY <1>2, <2>1, <2>2 DEF Owned
  <1> QED
    BY <1>4, <1>5, <1>6 DEF DeleteInv

\* Every step moves so when nobody else deletes.
LEMMA NextMoves ==
    ASSUME Deletes = FALSE, TypeInv, DeleteInv, [Next]_vars
    PROVE  Moves /\ RunMove /\ FoundMove
  <1>1. Moves
    <2>1. CASE UNCHANGED vars
      BY <2>1 DEF vars, Moves, CrMove, StsMove
    <2>2. CASE Reconcile
      BY <2>2, OtherStepsMove, StatefulSetMoves, ApplyMoves, StatusMoves DEF Reconcile
    <2>3. CASE SyncCr \/ SyncSts \/ SyncCm \/ SyncClaims \/ SyncSecrets \/ Resync
      BY <2>3, EventMoves
    <2>4. CASE Cluster
      BY <2>4, ClusterMoves
    <2>5. CASE Environment
      BY <2>5, UserMoves, EventMoves DEF Environment
    <2> QED
      BY <2>1, <2>2, <2>3, <2>4, <2>5 DEF Next
  <1> QED
    BY <1>1, NextWalks, WalkMoves

\* Every step keeps the invariant when nobody else deletes.
LEMMA NextDelete ==
    ASSUME Deletes = FALSE, TypeInv, DeleteInv, [Next]_vars
    PROVE  DeleteInv'
  <1>1. CrMove /\ RunMove /\ StsMove /\ FoundMove
    BY NextMoves DEF Moves
  <1>2. OneResource'
    BY <1>1, CrMoveKeeps DEF DeleteInv, TypeInv
  <1>3. OneObject(sts)' /\ Owned' /\ Examined'
    BY <1>1, StsMoveKeeps
  <1> QED
    BY <1>2, <1>3 DEF DeleteInv

\* The object that goes is the one that was found.
LEMMA ExaminedDeletion ==
    ASSUME TypeInv, DeleteInv
    PROVE  DeletedWasExamined
  <1>1. Len(sts) \in 1..Len(sts) /\ Live(sts) = sts[Len(sts)]
    BY RelistElements DEF TypeInv, TypeOK
  <1> QED
    BY <1>1 DEF DeleteInv, Examined, DeletedWasExamined

\* Delete names no version, and the operator reads the StatefulSet from a cache of
\* any age; still it removes only the object that it fetched and compared, as
\* long as nobody else deletes the StatefulSet or the resource.
THEOREM DeletionsAreExamined ==
    ASSUME Deletes = FALSE
    PROVE  Spec => DeletesOnlyExamined
  <1>1. Init => TypeInv /\ DeleteInv
    BY InitType, InitDelete
  <1>2. ASSUME TypeInv /\ DeleteInv, [Next]_vars
        PROVE  (TypeInv /\ DeleteInv)'
    BY <1>2, NextType, NextDelete
  <1>3. TypeInv /\ DeleteInv => DeletedWasExamined
    BY ExaminedDeletion
  <1> QED
    BY <1>1, <1>2, <1>3, PTL DEF Spec, DeletesOnlyExamined

-------------------------------------------------------------------------------
(* All streams *)

\* A stream goes on by one version, by one event, or from its last version.
Moved(before, after) ==
    \/ after = before
    \/ Len(before) > 1 /\ after = Tail(before)
    \/ after = <<Live(before)>>
    \/ \E x : after = Append(before, x)

\* Every step moves every stream so, whoever deletes.
LEMMA NextMoved ==
    ASSUME [Next]_vars
    PROVE  Moved(cr, cr') /\ Moved(sts, sts') /\ Moved(claims, claims')
  <1> USE DEF Moved
  <1>1. CASE UNCHANGED vars
    BY <1>1 DEF vars
  <1>2. CASE FetchInstance \/ ensureDB \/ ensureMessageBus \/ RenderConfigFiles
             \/ ensureConfigMap \/ ensureRabbitMQCaSecret
    BY <1>2 DEF FetchInstance, ensureDB, ensureMessageBus, RenderConfigFiles, ensureConfigMap,
       ensureRabbitMQCaSecret
  <1>3. CASE ensureStatefulSet
    BY <1>3 DEF ensureStatefulSet
  <1>4. CASE ensureLogPVCStorage
    BY <1>4 DEF ensureLogPVCStorage
  <1>5. CASE applyStatefulSet
    BY <1>5 DEF applyStatefulSet, DeleteFound, RemoveSts
  <1>6. CASE updateStatus
    BY <1>6 DEF updateStatus
  <1>7. CASE SyncCr \/ SyncSts \/ SyncCm \/ SyncClaims \/ SyncSecrets \/ Resync
    BY <1>7 DEF SyncCr, SyncSts, SyncCm, SyncClaims, SyncSecrets, Resync
  <1>8. CASE Cluster
    BY <1>8 DEF Cluster, GarbageCollectSts, GarbageCollectCm, StsFinalized, StsCreatesClaim,
       RemoveSts
  <1>9. CASE UserCreatesCr \/ UserEditsCr \/ UserDeletesCr \/ UserDeletesSts \/ InputChanges
    BY <1>9 DEF UserCreatesCr, UserEditsCr, UserDeletesCr, UserDeletesSts, InputChanges
  <1>10. CASE CallFails \/ Restart
    BY <1>10 DEF CallFails, Restart
  <1> QED
    BY <1>1, <1>2, <1>3, <1>4, <1>5, <1>6, <1>7, <1>8, <1>9, <1>10
    DEF Next, Reconcile, Environment
===============================================================================
