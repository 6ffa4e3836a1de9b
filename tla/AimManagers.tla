------------------------------ MODULE AimManagers ------------------------------
(***************************************************************************)
(* A rolling update of the operator: the manager that runs, and a new one  *)
(* that starts before the old one is gone.  The old manager is the         *)
(* specification this module extends, the new one is a second instance of  *)
(* it with a cache, a queue and a Reconcile of its own.                    *)
(*                                                                         *)
(* The objects in the API server are one: what one side appends to its     *)
(* streams is appended to those of the other as well, so that the last     *)
(* elements agree and each cache lags by its own amount.  The informers'   *)
(* resync, 10 hours apart, is left out.                                    *)
(***************************************************************************)
EXTENDS AimRefinement

CONSTANT MaxVersions    \* bound on versions of the StatefulSet a cache may lag behind

ASSUME ManagersAssumption ==
    /\ MaxVersions \in Nat
    /\ InputWrites = {}    \* needed by Reading

VARIABLES
    leaderElect,                         \* the flag --leader-elect of both managers
    stage,                               \* which managers run
    fresh,                               \* the new one had seen the StatefulSet at the hand-over
    cr2, sts2, cm2, claims2, secrets2,   \* the new manager's view of the streams
    queued2, pc2, r2                     \* its queue and its Reconcile

New == INSTANCE AimReconciler
         WITH cr <- cr2, sts <- sts2, cm <- cm2, claims <- claims2, secrets <- secrets2,
              queued <- queued2, pc <- pc2, r <- r2

oldView == <<cr, sts, cm, claims, secrets, queued, pc, r>>
newView == <<cr2, sts2, cm2, claims2, secrets2, queued2, pc2, r2>>
allVars == <<leaderElect, stage, fresh, oldView, newView, neutron, rev, edits, faults>>

Stages == {"old", "both", "new"}

\* The stream of one manager after the other's stream went from before to after:
\* events on their way, or nothing but the live object where no manager runs.
Fed(own, runs, before, after) ==
    IF runs THEN own \o SubSeq(after, Len(before) + 1, Len(after)) ELSE <<Live(after)>>

FeedNew ==
    LET runs == stage # "old"
    IN  /\ cr2' = Fed(cr2, runs, cr, cr') /\ sts2' = Fed(sts2, runs, sts, sts')
        /\ cm2' = Fed(cm2, runs, cm, cm') /\ claims2' = Fed(claims2, runs, claims, claims')
        /\ secrets2' = Fed(secrets2, runs, secrets, secrets')
        /\ UNCHANGED <<queued2, pc2, r2, stage, fresh, leaderElect>>

FeedOld ==
    LET runs == stage # "new"
    IN  /\ cr' = Fed(cr, runs, cr2, cr2') /\ sts' = Fed(sts, runs, sts2, sts2')
        /\ cm' = Fed(cm, runs, cm2, cm2') /\ claims' = Fed(claims, runs, claims2, claims2')
        /\ secrets' = Fed(secrets, runs, secrets2, secrets2')
        /\ UNCHANGED <<queued, pc, r, stage, fresh, leaderElect>>

-------------------------------------------------------------------------------
\* Mutant: a new manager reconciles whether or not it holds the lease.
MayReconcile_AnyTime == TRUE

\* A new manager fills its caches at once, and its controller waits for the
\* lease.  The old one holds the lease until it ends: it is not released, and
\* nobody else gets it before.  Without leader election there is no lease.
MayReconcile == leaderElect => stage = "new"

\* Without a lease two managers can delete and create the StatefulSet in turns for
\* as long as one of them has not seen the other's.  The bound ends that when
\* MaxVersions is reached: the next Reconcile waits for the events of what this
\* operator writes for the pods.  Those of the resource and the claims may still lag.
CaughtUp(streams, step) ==
    step = "idle" /\ ~leaderElect =>
        rev["sts"] <= MaxVersions \/ \A i \in DOMAIN streams : Len(streams[i]) = 1

\* Steps that only read secrets of others.  None of these changes during the update,
\* so the steps commute with all other steps and are taken at once.
Reading == {"ensureDB", "ensureMessageBus", "generateConfigFiles"}

OldReconciles == CaughtUp(<<sts, cm, secrets>>, pc) /\ Reconcile

NewReconciles == MayReconcile /\ CaughtUp(<<sts2, cm2, secrets2>>, pc2) /\ New!Reconcile

OldManager ==
    /\ stage # "new"
    /\ \/ OldReconciles \/ SyncCr \/ SyncSts \/ SyncCm \/ SyncClaims \/ SyncSecrets
    /\ FeedNew

NewManager ==
    /\ stage # "old"
    /\ \/ NewReconciles
       \/ New!SyncCr \/ New!SyncSts \/ New!SyncCm \/ New!SyncClaims \/ New!SyncSecrets
    /\ FeedOld

\* External: the Deployment starts a manager; its informers list what is there.
NewManagerStarts ==
    /\ stage = "old" /\ stage' = "both"
    /\ queued2' = (Live(cr) # None \/ Live(sts) # None)
    /\ UNCHANGED <<cr2, sts2, cm2, claims2, secrets2, pc2, r2, oldView, neutron, rev, edits, faults,
                   fresh, leaderElect>>

\* The old one is told to end and does, wherever its Reconcile is.
OldManagerStops ==
    /\ stage = "both" /\ stage' = "new"
    /\ cr' = <<Live(cr)>> /\ sts' = <<Live(sts)>> /\ cm' = <<Live(cm)>>
    /\ claims' = <<Live(claims)>> /\ secrets' = <<Live(secrets)>>
    /\ queued' = FALSE /\ pc' = "idle" /\ r' = NoLocals /\ fresh' = (Len(sts2) = 1)
    /\ UNCHANGED <<newView, neutron, rev, edits, faults, leaderElect>>

ClusterActs ==
    \/ stage # "new" /\ Cluster /\ FeedNew
    \/ stage = "new" /\ New!Cluster /\ FeedOld

EnvironmentActs ==
    \/ stage # "new" /\ Environment /\ FeedNew
    \/ stage = "new" /\ New!Environment /\ FeedOld

ManagersInit ==
    /\ Init /\ stage = "old" /\ leaderElect \in BOOLEAN /\ fresh = TRUE
    /\ cr2 = cr /\ sts2 = sts /\ cm2 = cm /\ claims2 = claims /\ secrets2 = secrets
    /\ queued2 = FALSE /\ pc2 = "idle" /\ r2 = NoLocals

ManagersNext ==
    \/ pc2 \notin Reading /\ OldManager
    \/ pc \notin Reading /\ NewManager
    \/ /\ pc \notin Reading /\ pc2 \notin Reading
       /\ NewManagerStarts \/ OldManagerStops \/ ClusterActs \/ EnvironmentActs

ManagersSpec == ManagersInit /\ [][ManagersNext]_allVars

-------------------------------------------------------------------------------
\* With leader election, neither manager deletes a StatefulSet other than the one
\* it fetched and compared, provided that the new one's cache showed the live
\* StatefulSet when the old one ended: a Reconcile of the old one that is cut short
\* leaves nothing behind that the new one would act on.  (without the lease both
\* hold a StatefulSet to be replaced, and the slower one deletes the replacement)
ManagersDeleteExamined ==
    [][leaderElect /\ fresh => DeletedWasExamined /\ New!DeletedWasExamined]_allVars
===============================================================================
