------------------------------ MODULE LogStorage ------------------------------
(***************************************************************************)
(* The pure rules of persistent log storage: the claim template of the     *)
(* StatefulSet (pkg/ciscoaciaim/pvc.go), the comparison of claim templates *)
(* (ciscoaciaim_controller.go) and the decision taken for one existing     *)
(* claim (log_pvc_resize.go).                                              *)
(*                                                                         *)
(* A size is a number of storage units.  A string that the CRD pattern     *)
(* accepts and resource.ParseQuantity refuses is the size Unparsable.      *)
(* A storage class is a value of Classes; None stands both for the empty   *)
(* string of the custom resource and for the nil pointer of a claim.       *)
(***************************************************************************)
EXTENDS Integers, Sequences

CONSTANTS None,      \* an absent object or a nil pointer
          Classes    \* names of storage classes

ASSUME ClassAssumption == None \notin Classes

Unparsable == -1

Sizes == {n \in Int : n >= Unparsable}

\* Spec.LogPersistence of the custom resource: nil, or a size and a class.
LogSpecs == {None} \cup [size : Sizes, class : Classes \cup {None}]

\* A PersistentVolumeClaim: the requested storage and the storage class.
Claims == [size : Nat, class : Classes \cup {None}]

ASSUME NoneAssumption == None \notin Claims

\* An entry of a StatefulSet's volumeClaimTemplates.  The field meta stands
\* for the labels and the access modes, which the builder always sets alike.
Templates == [name : {"aim_logs"}, meta : {"app_RWO"},
              size : Nat, class : Classes \cup {None}]

\* LogVolumeClaimTemplate for a log specification that is set and parses.
LogVolumeClaimTemplate(log) ==
    [name |-> "aim_logs", meta |-> "app_RWO", size |-> log.size, class |-> log.class]

\* The templates name the same claims and differ at most in requested size.
volumeClaimTemplatesEqual(current, desired) ==
    /\ Len(current) = Len(desired)
    /\ \A i \in DOMAIN desired : \E j \in DOMAIN current :
          /\ current[j].name = desired[i].name
          /\ current[j].meta = desired[i].meta
          /\ current[j].class = desired[i].class

\* TRUE when the change is allowed, FALSE when the code returns an error.
validateVolumeClaimTemplateStorageClassChange(current, desired) ==
    (Len(current) = 1 /\ Len(desired) = 1 /\ current[1].name = desired[1].name)
        => current[1].class = desired[1].class

\* Mutant: every size that differs is written.
prepareLogPVCResize_Shrinks(claim, desiredSize, desiredClass) ==
    IF claim.size = desiredSize THEN "unchanged" ELSE "changed"

\* What ensureLogPVCStorage does with one claim: "error" aborts the loop,
\* "unchanged" skips the claim, "changed" sends an Update with the new size.
prepareLogPVCResize(claim, desiredSize, desiredClass) ==
    IF (desiredClass # None /\ claim.class # desiredClass) \/ claim.size > desiredSize
    THEN "error"
    ELSE IF claim.size = desiredSize THEN "unchanged" ELSE "changed"
===============================================================================
