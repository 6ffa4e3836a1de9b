--------------------------- MODULE MCAimReconciler ---------------------------
(***************************************************************************)
(* Small instances of AimReconciler for TLC.  Each .cfg picks the          *)
(* specs, the inputs and the bounds that make its question happen.         *)
(***************************************************************************)
EXTENDS AimRefinement, TLC

MCLog(size, class) == [size |-> size, class |-> class]

MCSpec(conf, replicas, log) == [conf |-> conf, pod |-> "p1", replicas |-> replicas, log |-> log]

\* One pod without persistent logs, and variants of it.
Plain == MCSpec("c1", 1, None)
Reconf == MCSpec("c2", 1, None)
Third == [Plain EXCEPT !.conf = "c3", !.pod = "p2"]
Rejected == MCSpec("bad", 1, None)

\* Persistent logs: small, grown, larger on two pods, of a named class, unparsable.
Logs1 == MCSpec("c1", 1, MCLog(1, None))
Logs2 == MCSpec("c1", 1, MCLog(2, None))
Logs3Wide == MCSpec("c1", 2, MCLog(3, None))
Logs1Fast == MCSpec("c1", 1, MCLog(1, "fast"))
LogsBad == MCSpec("c1", 1, MCLog(Unparsable, None))

AllInputs == [db |-> "a", bus |-> "a", dhcp |-> "a", rootca |-> "a", ca |-> None]
NoInputs == [db |-> None, bus |-> None, dhcp |-> None, rootca |-> None, ca |-> None]

MCWrite(input, value) == [input |-> input, value |-> value]

\* The StatefulSet of a release before per-pod claims: all pods in parallel.
LegacySts ==
    [Defaulted(StatefulSet(Plain, GenerateConfigMapChecksum(
         generateConfigFiles(Plain, [host |-> "a", password |-> "a"], "a", "a"))))
       EXCEPT !.podManagementPolicy = "Parallel"]

NoneOnly == {None}
NoneOrLegacy == {None, LegacySts}
PlainOnly == {Plain}
Logs1Only == {Logs1}
PlainOrNone == {Plain, None}

\* storage: grow, shrink (on a stale list too), scale out on an outdated template,
\* disable, a class, a typo.
StorageSpecs == {Logs1, Logs2, Logs3Wide, Plain, Logs1Fast, LogsBad}

\* rotation: no write ever brings an earlier value back.
RotationSpecs == {Third}
RotationWrites == {MCWrite("db", "b"), MCWrite("db", "c"), MCWrite("bus", "b"),
                   MCWrite("dhcp", "b"), MCWrite("bus", NoKey)}

\* bootstrap: everything is missing and appears, half-made or complete.
BootstrapSpecs == {Plain, Rejected}
BootstrapWrites == {MCWrite("db", NoKey), MCWrite("db", "a"),
                    MCWrite("bus", NoKey), MCWrite("bus", "a"),
                    MCWrite("rootca", NoKey), MCWrite("rootca", "a"), MCWrite("rootca", "b"),
                    MCWrite("neutron", "a"), MCWrite("neutron", None)}

\* deletion and recreation of the resource and of the StatefulSet.
DeletionSpecs == {Plain}

\* revert: the configuration changes and changes back.
RevertSpecs == {Plain, Reconf}

\* refused: a spec that no Reconcile can apply.
RefusedSpecs == {LogsBad}
===============================================================================
