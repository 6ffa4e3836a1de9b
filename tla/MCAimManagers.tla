---------------------------- MODULE MCAimManagers ----------------------------
(***************************************************************************)
(* Small instances of AimManagers for TLC.                                 *)
(***************************************************************************)
EXTENDS AimManagers, MCAimReconciler

LegacyOnly == {LegacySts}
Logs2Only == {Logs2}
===============================================================================
