------------------------------ MODULE LogClaims ------------------------------
(***************************************************************************)
(* What the operator promises about log storage, without any of its        *)
(* machinery: a pod's claim appears once, and from then on the only thing  *)
(* that ever happens to it is that it grows.  One claim changes at a time. *)
(* The claim of earlier releases is not touched.                           *)
(***************************************************************************)
EXTENDS Naturals

CONSTANTS None,      \* no claim
          Ordinals,  \* the pods
          Legacy,    \* the key of the claim of earlier releases
          Classes    \* storage classes

VARIABLE claims

Keys == Ordinals \cup {Legacy}

Init ==
    /\ claims \in [Keys -> [size : Nat, class : Classes] \cup {None}]
    /\ \A k \in Ordinals : claims[k] = None

Others(k) ==
    /\ DOMAIN claims' = Keys
    /\ \A j \in Keys \ {k} : claims'[j] = claims[j]

Provision(k) ==
    /\ claims[k] = None
    /\ claims'[k] \in [size : Nat, class : Classes]
    /\ Others(k)

Grow(k) ==
    /\ claims[k] # None /\ claims'[k] # None
    /\ claims'[k].class = claims[k].class
    /\ claims'[k].size > claims[k].size
    /\ Others(k)

Next == \E k \in Ordinals : Provision(k) \/ Grow(k)

Spec == Init /\ [][Next]_claims
===============================================================================
