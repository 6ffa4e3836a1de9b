------------------------------ MODULE InitScript ------------------------------
(***************************************************************************)
(* templates/init.sh, the script that pod 0 runs before the AIM service.   *)
(* It applies aimctl.conf to the AIM database once per configuration: a    *)
(* hash file remembers the configuration that was applied last.            *)
(*                                                                         *)
(* The script is cut between its commands, because each of them reads the  *)
(* mounted file anew and may fail, and because the container may be killed *)
(* anywhere (node loss, liveness probe, rollout).  With persistent logs    *)
(* the hash file is on the log claim and outlives the container, otherwise *)
(* it is in /tmp and goes with it.                                         *)
(*                                                                         *)
(* A configuration is a number; the hash of a file is the number itself.   *)
(***************************************************************************)
EXTENDS Naturals

CONSTANTS LogToDisk,    \* Spec.LogPersistence is set: the hash file persists
          Rollbacks,    \* whether an earlier configuration may come back
          Refreshes,    \* whether the kubelet refreshes the volume of a running pod
          MaxConf,      \* configurations are 1..MaxConf
          MaxChanges,   \* bound on changes of the configuration
          MaxCrashes    \* bound on failed commands and killed containers

ASSUME InitScriptAssumption ==
    /\ LogToDisk \in BOOLEAN /\ Rollbacks \in BOOLEAN /\ Refreshes \in BOOLEAN
    /\ MaxConf \in Nat \ {0} /\ MaxChanges \in Nat /\ MaxCrashes \in Nat

VARIABLES
    conf,       \* aimctl.conf in the ConfigMap
    revision,   \* the configuration whose checksum pod 0 was started with
    mounted,    \* aimctl.conf as the container sees it
    step,       \* the next command of the script
    hash,       \* CONFIG_HASH
    file,       \* content of the hash file, 0: no such file
    aim,        \* the configuration each command applied last, 0: none
    changes, crashes

vars == <<conf, revision, mounted, step, hash, file, aim, changes, crashes>>

Steps == {"check", "config_update", "infra_create", "load_domains", "record", "serving"}
Commands == {"config_update", "infra_create", "load_domains"}

-------------------------------------------------------------------------------
\* A container starts: the script begins with the file now in the volume.
Start ==
    /\ step' = "check" /\ hash' = 0
    /\ file' = IF LogToDisk THEN file ELSE 0

\* Mutant: any recorded hash ends the script.
CheckHash_FileExists ==
    /\ step = "check"
    /\ hash' = mounted
    /\ step' = IF file # 0 THEN "serving" ELSE "config_update"
    /\ UNCHANGED <<conf, revision, mounted, file, aim, changes, crashes>>

\* Compare the hash of the configuration with the recorded one.
CheckHash ==
    /\ step = "check"
    /\ hash' = mounted
    /\ step' = IF file = mounted THEN "serving" ELSE "config_update"
    /\ UNCHANGED <<conf, revision, mounted, file, aim, changes, crashes>>

\* An aimctl command succeeds; it reads the file that is mounted now.
CommandSucceeds(command, next) ==
    /\ step = command
    /\ aim' = [aim EXCEPT ![command] = mounted]
    /\ step' = next
    /\ UNCHANGED <<conf, revision, mounted, hash, file, changes, crashes>>

\* A failing command ends the script (set -e), and the container starts again;
\* only infra create may fail and the script goes on.
CommandFails(command) ==
    /\ step = command
    /\ crashes < MaxCrashes /\ crashes' = crashes + 1
    /\ IF command = "infra_create"
       THEN step' = "load_domains" /\ UNCHANGED <<hash, file>>
       ELSE Start
    /\ UNCHANGED <<conf, revision, mounted, aim, changes>>

\* Write the hash computed at the start; the service is started after the script.
RecordHash(next) ==
    /\ step = "record"
    /\ file' = hash
    /\ step' = next
    /\ UNCHANGED <<conf, revision, mounted, hash, aim, changes, crashes>>

\* Mutant: the hash is recorded before the last command.
Script_RecordsEarly ==
    \/ CheckHash
    \/ CommandSucceeds("config_update", "infra_create")
    \/ CommandSucceeds("infra_create", "record")
    \/ RecordHash("load_domains")
    \/ CommandSucceeds("load_domains", "serving")

Script ==
    \/ CheckHash
    \/ CommandSucceeds("config_update", "infra_create")
    \/ CommandSucceeds("infra_create", "load_domains")
    \/ CommandSucceeds("load_domains", "record")
    \/ RecordHash("serving")

-------------------------------------------------------------------------------
\* External: the ConfigMap changes; the kubelet refreshes the volume some time
\* later; a pod whose template carries another checksum is replaced; the
\* container dies at any point and starts again in the same pod.
ConfigChanges ==
    /\ changes < MaxChanges /\ changes' = changes + 1
    /\ conf' \in 1..MaxConf
    /\ IF Rollbacks THEN conf' # conf ELSE conf' > conf
    /\ UNCHANGED <<revision, mounted, step, hash, file, aim, crashes>>

RefreshVolume ==
    /\ Refreshes /\ mounted # conf /\ mounted' = conf
    /\ UNCHANGED <<conf, revision, step, hash, file, aim, changes, crashes>>

ReplacePod ==
    /\ revision # conf /\ revision' = conf /\ mounted' = conf
    /\ Start
    /\ UNCHANGED <<conf, aim, changes, crashes>>

ContainerDies ==
    /\ crashes < MaxCrashes /\ crashes' = crashes + 1
    /\ Start
    /\ UNCHANGED <<conf, revision, mounted, aim, changes>>

Init ==
    /\ conf = 1 /\ revision = 1 /\ mounted = 1
    /\ step = "check" /\ hash = 0 /\ file = 0
    /\ aim = [c \in Commands |-> 0]
    /\ changes = 0 /\ crashes = 0

Next ==
    \/ Script \/ \E c \in Commands : CommandFails(c)
    \/ ConfigChanges \/ RefreshVolume \/ ReplacePod \/ ContainerDies

Spec == Init /\ [][Next]_vars

\* The shell runs on, the kubelet refreshes volumes and the rollout proceeds.
FairSpec == Spec /\ WF_vars(Script) /\ WF_vars(RefreshVolume) /\ WF_vars(ReplacePod)

-------------------------------------------------------------------------------
\* Type correctness.
TypeOK ==
    /\ conf \in 1..MaxConf /\ revision \in 1..MaxConf /\ mounted \in 1..MaxConf
    /\ step \in Steps
    /\ hash \in 0..MaxConf /\ file \in 0..MaxConf
    /\ aim \in [Commands -> 0..MaxConf]
    /\ changes \in 0..MaxChanges /\ crashes \in 0..MaxCrashes

\* The hash file never names a configuration newer than the ones `config update'
\* and `load-domains' applied, wherever the container died and whenever the
\* volume was refreshed under the script.
RecordedIsApplied ==
    file # 0 => aim["config_update"] >= file /\ aim["load_domains"] >= file

\* AIM is initialised with every configuration that lasts: in the end pod 0 serves
\* and both commands have applied the configuration in the ConfigMap.
SetupApplied ==
    <>[](step = "serving" /\ aim["config_update"] = conf /\ aim["load_domains"] = conf)
===============================================================================
