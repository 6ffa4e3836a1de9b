--------------------------- MODULE InitScriptProofs ---------------------------
(***************************************************************************)
(* The hash file of init.sh never runs ahead of the AIM database, for any  *)
(* number of configurations, changes and crashes.                          *)
(***************************************************************************)
EXTENDS InitScript, TLAPS

\* What the next command relies on: the commands before it have applied the
\* hashed configuration or a newer one.
Progressing ==
    /\ step \in {"infra_create", "load_domains", "record"} => aim["config_update"] >= hash
    /\ step = "record" => aim["load_domains"] >= hash

\* Time runs forward: no file is newer than its source, so a command that
\* reads the volume late applies nothing older than the hash.
Monotone ==
    /\ mounted <= conf
    /\ step # "check" => hash <= mounted
    /\ file <= mounted
    /\ \A c \in Commands : aim[c] <= mounted

IInv == TypeOK /\ RecordedIsApplied /\ Progressing /\ Monotone

\* The initial state of the script is well typed.
LEMMA InitEstablishes == Init => IInv
  BY InitScriptAssumption DEF Init, IInv, TypeOK, RecordedIsApplied, Progressing, Monotone,
                              Steps, Commands

\* Every step of the script, of the kubelet and of the rollout keeps the invariant.
LEMMA NextPreserves ==
    ASSUME Rollbacks = FALSE, IInv, [Next]_vars
    PROVE  IInv'
  <1> USE InitScriptAssumption DEF IInv, TypeOK, RecordedIsApplied, Progressing, Monotone,
                                   Steps, Commands
  <1>1. CASE CheckHash
    BY <1>1 DEF CheckHash
  <1>2. CASE CommandSucceeds("config_update", "infra_create")
    BY <1>2 DEF CommandSucceeds
  <1>3. CASE CommandSucceeds("infra_create", "load_domains")
    BY <1>3 DEF CommandSucceeds
  <1>4. CASE CommandSucceeds("load_domains", "record")
    BY <1>4 DEF CommandSucceeds
  <1>5. CASE RecordHash("serving")
    BY <1>5 DEF RecordHash
  <1>6. ASSUME NEW c \in Commands, CommandFails(c)
        PROVE  IInv'
    BY <1>6 DEF CommandFails, Start
  <1>7. CASE ConfigChanges
    BY <1>7 DEF ConfigChanges
  <1>8. CASE RefreshVolume
    BY <1>8 DEF RefreshVolume
  <1>9. CASE ReplacePod
    BY <1>9 DEF ReplacePod, Start
  <1>10. CASE ContainerDies
    BY <1>10 DEF ContainerDies, Start
  <1>11. CASE UNCHANGED vars
    BY <1>11 DEF vars
  <1> QED
    BY <1>1, <1>2, <1>3, <1>4, <1>5, <1>6, <1>7, <1>8, <1>9, <1>10, <1>11 DEF Next, Script

\* As long as no earlier configuration comes back, a recorded hash stands for a
\* configuration that `config update' and `load-domains' have applied, wherever
\* the script was interrupted (init.sh, lines 20-36).
THEOREM RecordedConfigurationIsApplied ==
    ASSUME Rollbacks = FALSE
    PROVE  Spec => []RecordedIsApplied
  <1>1. Init => IInv
    BY InitEstablishes
  <1>2. IInv /\ [Next]_vars => IInv'
    BY NextPreserves
  <1>3. IInv => RecordedIsApplied
    BY DEF IInv
  <1> QED
    BY <1>1, <1>2, <1>3, PTL DEF Spec
===============================================================================
