-------------------------------- MODULE AimPod --------------------------------
(***************************************************************************)
(* The files of the AIM container.  Four parts of the repository must agree *)
(* on them: GetVolumes and GetVolumeMounts lay them out, generateConfigFiles*)
(* writes the ConfigMap, the files in it name one another and the key of    *)
(* the APIC, and init.sh and kolla read and copy them.  They do not change  *)
(* together: the ConfigMap is written before the StatefulSet, the kubelet   *)
(* refreshes the three ConfigMap volumes of a running pod one by one, and a *)
(* container may be restarted at any time, so a container can start from    *)
(* files of one spec with the mounts of another.                            *)
(*                                                                         *)
(* A path is <<directory, name>>.  A name is <<stem, ending>>: the ending    *)
(* "_private_key" is split off when the name has it, and is empty otherwise, *)
(* so equal names are equal pairs, and the name of a certificate can be that *)
(* of a key or of anything else in its directory.  The content of a          *)
(* ConfigMap is the spec it was rendered from.                               *)
(***************************************************************************)
EXTENDS Naturals, FiniteSets

CONSTANTS Specs,      \* the specs users write
          NoSpec,     \* nothing copied yet
          Rollbacks,  \* whether an earlier spec may come back
          MaxEdits,   \* bound on edits of the resource
          MaxDeaths   \* bound on deaths of the container and of the pod

\* A name without the ending, and an omitted one.
Plain(stem) == <<stem, "">>
NoName == Plain("")

\* The fields that reach the files and the mounts.  The user is a stem, certName a
\* name; ca is the path in ACIVerifySslCertificate, <<>> when it is none.
SpecFields == {"user", "password", "certName", "keyRef", "certRef", "ca", "log"}

ASSUME AimPodAssumption ==
    /\ Rollbacks \in BOOLEAN /\ MaxEdits \in Nat /\ MaxDeaths \in Nat
    /\ \A s \in Specs : DOMAIN s = SpecFields
    /\ NoSpec \notin Specs

VARIABLES
    spec,    \* the resource
    past,    \* the specs it had, this one included
    want,    \* the spec that Reconcile works on
    pc,      \* what Reconcile does next
    cm,      \* the ConfigMap
    tmpl,    \* the spec the pod template was built from
    pod,     \* made: the template of the pod, vols: the content of its ConfigMap volumes
    run,     \* the container: its phase, the files in /etc/aim and logs in use
    edits, deaths

vars == <<spec, past, want, pc, cm, tmpl, pod, run, edits, deaths>>

ConfigVolumes == {"config-volume", "init-script-volume", "config-kolla"}

-------------------------------------------------------------------------------
(* volumes.go *)

PrivateKeyFile(s) == <<IF s.user = "" THEN "admin" ELSE s.user, "_private_key">>

CertFile(s) == IF s.certName = NoName THEN Plain("certificate.pem") ELSE s.certName

Same(names) == {[key |-> n, path |-> n] : n \in names}

\* Mutant: the key is projected under the name it has in the secret.
PrivateKeyItem_OwnName(s) == [key |-> Plain("key"), path |-> Plain("key")]

PrivateKeyItem(s) == [key |-> Plain("key"), path |-> PrivateKeyFile(s)]

CertificateItem(s) == [key |-> Plain("cert"), path |-> CertFile(s)]

\* The volumes filled from the ConfigMap.
ConfigMapVolumes ==
    {[name |-> "config-volume",
      items |-> Same({Plain("aim.conf"), Plain("aim_supervisord.conf"), Plain("aimctl.conf")})
                  \cup {[key |-> Plain("aim_healthcheck.sh"), path |-> Plain("aim_healthcheck")]}],
     [name |-> "init-script-volume", items |-> Same({Plain("init.sh")})],
     [name |-> "config-kolla",
      items |-> {[key |-> Plain("kolla_config.json"), path |-> Plain("config.json")]}]}

\* All volumes of a pod; the others are filled from secrets.
GetVolumes(s) ==
    ConfigMapVolumes
    \cup {[name |-> "rabbitmq-ca", items |-> Same({Plain("tls-ca-bundle.pem")})]}
    \cup {[name |-> "apic-ca-cert", items |-> Same({f})] : f \in IF s.ca = <<>> THEN {} ELSE {s.ca[2]}}
    \cup {[name |-> "apic-auth-private-key", items |-> {i}] :
            i \in IF s.keyRef THEN {PrivateKeyItem(s)} ELSE {}}
    \cup {[name |-> "apic-auth-certificate", items |-> {i}] :
            i \in IF s.certRef THEN {CertificateItem(s)} ELSE {}}

\* A volume mounted on a directory, and one file of a volume mounted on a path.
DirMount(name, path) == [name |-> name, path |-> path, sub |-> NoName]
FileMount(name, path, sub) == [name |-> name, path |-> path, sub |-> sub]

\* Mutant: the key is mounted for the default user.
PrivateKeyMount_Admin(s) ==
    FileMount("apic-auth-private-key", <<"/etc/aim", <<"admin", "_private_key">>>>, PrivateKeyFile(s))

PrivateKeyMount(s) ==
    FileMount("apic-auth-private-key", <<"/etc/aim", PrivateKeyFile(s)>>, PrivateKeyFile(s))

\* What kolla copies to the root is mounted here.
ConfigSource == <<"/var/lib/kolla/config_files/src/etc", Plain("aim")>>

GetVolumeMounts(s) ==
    {DirMount("config-volume", ConfigSource),
     DirMount("config-kolla", <<"/var/lib/kolla", Plain("config_files/")>>),
     DirMount("rabbitmq-ca", <<"/etc/pki/ca-trust/extracted", Plain("pem/")>>),
     DirMount("init-script-volume", <<"/etc/aim", Plain("scripts")>>)}
    \cup (IF s.log THEN {DirMount("aim-logs", <<"/var/log", Plain("aim")>>)} ELSE {})
    \cup (IF s.ca = <<>> THEN {} ELSE {FileMount("apic-ca-cert", s.ca, s.ca[2])})
    \cup (IF s.keyRef THEN {PrivateKeyMount(s)} ELSE {})
    \cup (IF ~s.certRef THEN {} ELSE
            {FileMount("apic-auth-certificate", <<"/etc/aim", CertFile(s)>>, CertFile(s))})

\* The claim template of the StatefulSet.
ClaimTemplates(s) == IF s.log THEN {"aim-logs"} ELSE {}

-------------------------------------------------------------------------------
(* The ConfigMap *)

\* The keys of the ConfigMap.
generateConfigFiles == {Plain("aim.conf"), Plain("aimctl.conf"), Plain("kolla_config.json"),
                        Plain("aim_healthcheck.sh"), Plain("aim_supervisord.conf"), Plain("init.sh")}

\* The files that aim.conf names.
AimConfNames(s) ==
    (IF s.password \/ s.certName = NoName THEN {} ELSE {<<"/etc/aim", <<s.user, "_private_key">>>>})
    \cup (IF s.ca = <<>> THEN {} ELSE {s.ca})

\* The files that the other files and the probe name in /etc/aim.
ServiceFiles ==
    {<<"/etc/aim", Plain(f)>> : f \in {"aim.conf", "aim_supervisord.conf", "aim_healthcheck"}}

\* Mutant: the pod template does not carry the checksum.
PodTemplate_NoChecksum(s) == [mounts |-> GetVolumeMounts(s), volumes |-> GetVolumes(s)]

\* What makes the StatefulSet controller replace a pod.
PodTemplate(s) == [mounts |-> GetVolumeMounts(s), volumes |-> GetVolumes(s), checksum |-> s]

-------------------------------------------------------------------------------
(* Reconcile: one spec from the fetch to the StatefulSet *)

Fetch ==
    /\ pc = "fetch" /\ want' = spec /\ pc' = "configmap"
    /\ UNCHANGED <<spec, past, cm, tmpl, pod, run, edits, deaths>>

WriteConfigMap ==
    /\ pc = "configmap" /\ cm' = want /\ pc' = "statefulset"
    /\ UNCHANGED <<spec, past, want, tmpl, pod, run, edits, deaths>>

WriteStatefulSet ==
    /\ pc = "statefulset" /\ tmpl' = want /\ pc' = "done"
    /\ UNCHANGED <<spec, past, want, cm, pod, run, edits, deaths>>

\* An edit wakes Reconcile; one that is running goes on with the spec it has.
UserEdits ==
    /\ edits < MaxEdits /\ edits' = edits + 1
    /\ spec' \in Specs \ (IF Rollbacks THEN {spec} ELSE past)
    /\ past' = past \cup {spec'}
    /\ UNCHANGED <<want, pc, cm, tmpl, pod, run, deaths>>

Wake ==
    /\ pc = "done" /\ want # spec /\ pc' = "fetch"
    /\ UNCHANGED <<spec, past, want, cm, tmpl, pod, run, edits, deaths>>

-------------------------------------------------------------------------------
(* The pod and its container *)

FreshRun == [phase |-> "init", init |-> NoSpec, kolla |-> NoSpec, etc |-> NoSpec]

\* External: a pod is made from the template, its volumes from the ConfigMap.
MakePod ==
    /\ pod' = [made |-> tmpl, vols |-> [v \in ConfigVolumes |-> cm]]
    /\ run' = FreshRun
    /\ UNCHANGED <<spec, past, want, pc, cm, tmpl, edits>>

ReplacePod == PodTemplate(tmpl) # PodTemplate(pod.made) /\ MakePod /\ UNCHANGED deaths

PodLost == deaths < MaxDeaths /\ deaths' = deaths + 1 /\ MakePod

\* External: the kubelet refreshes a volume of the running pod.
RefreshVolume(v) ==
    /\ pod.vols[v] # cm
    /\ pod' = [pod EXCEPT !.vols[v] = cm]
    /\ UNCHANGED <<spec, past, want, pc, cm, tmpl, run, edits, deaths>>

\* External: the container is restarted in the same pod, with an empty /etc/aim.
ContainerDies ==
    /\ deaths < MaxDeaths /\ deaths' = deaths + 1
    /\ run' = FreshRun
    /\ UNCHANGED <<spec, past, want, pc, cm, tmpl, pod, edits>>

\* bash -c "init.sh && exec kolla_start": the script that is mounted now runs.
RunInit ==
    /\ run.phase = "init"
    /\ run' = [run EXCEPT !.phase = "kolla", !.init = pod.vols["init-script-volume"]]
    /\ UNCHANGED <<spec, past, want, pc, cm, tmpl, pod, edits, deaths>>

\* kolla_start reads config.json, which copies src/etc/aim to /etc/aim and owns
\* the log directory, then execs supervisord.
KollaStart ==
    /\ run.phase = "kolla"
    /\ run' = [run EXCEPT !.phase = "serving", !.kolla = pod.vols["config-kolla"],
                          !.etc = pod.vols["config-volume"]]
    /\ UNCHANGED <<spec, past, want, pc, cm, tmpl, pod, edits, deaths>>

Reconcile == Fetch \/ WriteConfigMap \/ WriteStatefulSet \/ Wake
Container == RunInit \/ KollaStart
Kubelet == \E v \in ConfigVolumes : RefreshVolume(v)

Init ==
    /\ spec \in Specs /\ past = {spec} /\ want = spec /\ pc = "done"
    /\ cm = spec /\ tmpl = spec
    /\ pod = [made |-> spec, vols |-> [v \in ConfigVolumes |-> spec]]
    /\ run = FreshRun /\ edits = 0 /\ deaths = 0

Next ==
    \/ Reconcile \/ UserEdits
    \/ ReplacePod \/ PodLost \/ Kubelet \/ ContainerDies \/ Container

Spec == Init /\ [][Next]_vars

\* Reconcile, the StatefulSet controller, the kubelet and the container run on.
FairSpec == Spec /\ WF_vars(Reconcile) /\ WF_vars(ReplacePod) /\ WF_vars(Kubelet)
                 /\ WF_vars(Container)

-------------------------------------------------------------------------------
(* Properties *)

ItemPaths(s, volume) ==
    {i.path : i \in UNION {v.items : v \in {u \in GetVolumes(s) : u.name = volume}}}

\* The files a pod mounts one by one.
Mounted(s) == {m.path : m \in {n \in GetVolumeMounts(s) : n.sub # NoName}}

\* Kolla copies what the pod has under src/etc/aim.
Copied(s) ==
    UNION {{<<"/etc/aim", f>> : f \in ItemPaths(s, m.name)} :
           m \in {n \in GetVolumeMounts(s) : n.path = ConfigSource}}

\* A spec that states all it needs and gives no name twice: a login by certificate
\* comes with the key and the user's name, the certificate has a name of its own in
\* /etc/aim, and a CA bundle is a file outside of it.  Nothing in the code checks this.
Complete(s) ==
    LET taken == {Plain("scripts"), Plain("aim.conf"), Plain("aim_supervisord.conf"),
                  Plain("aimctl.conf"), Plain("aim_healthcheck")}
                   \cup (IF s.keyRef THEN {PrivateKeyFile(s)} ELSE {})
        dirs == {ConfigSource, <<"/var/lib/kolla", Plain("config_files/")>>,
                 <<"/etc/pki/ca-trust/extracted", Plain("pem/")>>, <<"/var/log", Plain("aim")>>}
    IN  /\ s.password \/ s.certName = NoName \/ (s.keyRef /\ s.user # "")
        /\ s.certRef => CertFile(s) \notin taken
        /\ s.ca # <<>> => /\ s.ca = <<s.ca[1], s.ca[2]>> /\ s.ca[2] # NoName
                          /\ s.ca[1] # "/etc/aim" /\ s.ca \notin dirs

\* The container finds every file that its configuration names, and logs and keeps
\* its state on the log claim exactly when the claim is mounted.
Usable ==
    /\ AimConfNames(run.etc) \cup ServiceFiles \subseteq Mounted(pod.made) \cup Copied(pod.made)
    /\ {run.init.log, run.kolla.log, run.etc.log} = {pod.made.log}

\* Kubernetes accepts and can set up the pod: every mount has its volume or claim
\* template, every subPath is a file of that volume, no two mounts share a path,
\* and every item of a ConfigMap volume is a key of the ConfigMap.  Kolla copies its
\* files over none of the mounts, which are read-only.
MountsBacked ==
    LET mounts == GetVolumeMounts(tmpl)
        volumes == GetVolumes(tmpl)
    IN  /\ \A m \in mounts : Cardinality({v \in volumes : v.name = m.name})
                               + Cardinality(ClaimTemplates(tmpl) \cap {m.name}) = 1
        /\ \A m \in mounts : m.sub # NoName => m.sub \in ItemPaths(tmpl, m.name)
        /\ \A m, n \in mounts : m.path = n.path => m = n
        /\ Copied(tmpl) \cap {m.path : m \in mounts} = {}
        /\ \A v \in ConfigMapVolumes : {i.key : i \in v.items} \subseteq generateConfigFiles

\* A container that started from the files of the spec its pod was made for finds
\* all it needs: volumes.go, the templates and kolla agree on every path.
StartsUsable ==
    run.phase = "serving" /\ {run.init, run.kolla, run.etc} = {pod.made} => Usable

\* Whatever was refreshed under a container and wherever it was restarted, in the
\* end the pod runs on the last spec with every file in its place: the checksum
\* in the template restarts every pod that must be.
PodSettles == <>[](run.phase = "serving" /\ run.etc = spec /\ Usable)
===============================================================================
