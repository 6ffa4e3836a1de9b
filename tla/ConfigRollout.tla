---------------------------- MODULE ConfigRollout ----------------------------
(***************************************************************************)
(* How a configuration reaches the pods, seen from outside: it is          *)
(* published first, and the pods are rolled only to what is published at   *)
(* that moment.  The pods may be taken down at any time, and what is       *)
(* published is replaced but never withdrawn.                              *)
(***************************************************************************)
CONSTANT None        \* nothing published, no pods

VARIABLES published, \* the configuration that pods mount
          rolled     \* the configuration the pods were last rolled to

Init == rolled = None \/ rolled = published

Publish == published' # None /\ published' # published /\ UNCHANGED rolled

Roll == published # None /\ rolled' = published /\ UNCHANGED published

TakeDown == rolled' = None /\ UNCHANGED published

Next == Publish \/ Roll \/ TakeDown

Spec == Init /\ [][Next]_<<published, rolled>>
===============================================================================
