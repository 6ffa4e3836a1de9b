----------------------------- MODULE AimPodProofs -----------------------------
(***************************************************************************)
(* The paths of the AIM container agree for every set of complete specs,   *)
(* any number of edits and any order of refreshes and restarts.  Complete  *)
(* is needed: a certificate called "scripts", or like the user's key, makes *)
(* a template with two mounts on one path.                                 *)
(***************************************************************************)
EXTENDS AimPod, FiniteSetTheorems, TLAPS

-------------------------------------------------------------------------------
(* Volumes and their files *)

\* The items of the volume of a name.
Items(s, name) ==
    CASE name = "config-volume" ->
           Same({Plain("aim.conf"), Plain("aim_supervisord.conf"), Plain("aimctl.conf")})
             \cup {[key |-> Plain("aim_healthcheck.sh"), path |-> Plain("aim_healthcheck")]}
      [] name = "init-script-volume" -> Same({Plain("init.sh")})
      [] name = "config-kolla" ->
           {[key |-> Plain("kolla_config.json"), path |-> Plain("config.json")]}
      [] name = "rabbitmq-ca" -> Same({Plain("tls-ca-bundle.pem")})
      [] name = "apic-ca-cert" -> Same({s.ca[2]})
      [] name = "apic-auth-private-key" -> {PrivateKeyItem(s)}
      [] name = "apic-auth-certificate" -> {CertificateItem(s)}

Volume(s, name) == [name |-> name, items |-> Items(s, name)]

\* The names of the volumes of a pod.
VolumeNames(s) ==
    {"config-volume", "init-script-volume", "config-kolla", "rabbitmq-ca"}
    \cup (IF s.ca = <<>> THEN {} ELSE {"apic-ca-cert"})
    \cup (IF s.keyRef THEN {"apic-auth-private-key"} ELSE {})
    \cup (IF s.certRef THEN {"apic-auth-certificate"} ELSE {})

\* GetVolumes makes one volume of each name.
LEMMA VolumesByName ==
    ASSUME NEW s
    PROVE  GetVolumes(s) = {Volume(s, n) : n \in VolumeNames(s)}
  <1>1. ConfigMapVolumes = {Volume(s, "config-volume"), Volume(s, "init-script-volume"),
                            Volume(s, "config-kolla")}
    BY DEF ConfigMapVolumes, Volume, Items
  <1>2. [name |-> "rabbitmq-ca", items |-> Same({Plain("tls-ca-bundle.pem")})]
          = Volume(s, "rabbitmq-ca")
    BY DEF Volume, Items
  <1>3. {[name |-> "apic-ca-cert", items |-> Same({f})] :
           f \in IF s.ca = <<>> THEN {} ELSE {s.ca[2]}}
          = IF s.ca = <<>> THEN {} ELSE {Volume(s, "apic-ca-cert")}
    <2>1. [name |-> "apic-ca-cert", items |-> Same({s.ca[2]})] = Volume(s, "apic-ca-cert")
      BY DEF Volume, Items
    <2> QED
      BY <2>1, Zenon
  <1>4. {[name |-> "apic-auth-private-key", items |-> {i}] :
           i \in IF s.keyRef THEN {PrivateKeyItem(s)} ELSE {}}
          = IF s.keyRef THEN {Volume(s, "apic-auth-private-key")} ELSE {}
    <2>1. [name |-> "apic-auth-private-key", items |-> {PrivateKeyItem(s)}]
            = Volume(s, "apic-auth-private-key")
      BY DEF Volume, Items
    <2> QED
      BY <2>1, Zenon
  <1>5. {[name |-> "apic-auth-certificate", items |-> {i}] :
           i \in IF s.certRef THEN {CertificateItem(s)} ELSE {}}
          = IF s.certRef THEN {Volume(s, "apic-auth-certificate")} ELSE {}
    <2>1. [name |-> "apic-auth-certificate", items |-> {CertificateItem(s)}]
            = Volume(s, "apic-auth-certificate")
      BY DEF Volume, Items
    <2> QED
      BY <2>1, Zenon
  <1> HIDE DEF Volume
  <1>6. GetVolumes(s) = {Volume(s, "config-volume"), Volume(s, "init-script-volume"),
                         Volume(s, "config-kolla")}
                        \cup {Volume(s, "rabbitmq-ca")}
                        \cup (IF s.ca = <<>> THEN {} ELSE {Volume(s, "apic-ca-cert")})
                        \cup (IF s.keyRef THEN {Volume(s, "apic-auth-private-key")} ELSE {})
                        \cup (IF s.certRef THEN {Volume(s, "apic-auth-certificate")} ELSE {})
    BY <1>1, <1>2, <1>3, <1>4, <1>5, Zenon DEF GetVolumes
  <1> QED
    BY <1>6 DEF VolumeNames

\* No two volumes of a pod share a name.
LEMMA OneVolumePerName ==
    ASSUME NEW s, NEW v \in GetVolumes(s), NEW w \in GetVolumes(s), v.name = w.name
    PROVE  v = w
  BY VolumesByName DEF Volume

\* The files of a volume are the paths of its items.
LEMMA FilesOf ==
    ASSUME NEW s, NEW v \in GetVolumes(s), NEW i \in v.items
    PROVE  i.path \in ItemPaths(s, v.name)
  BY DEF ItemPaths

\* A volume that is there is counted once.
LEMMA CountedOnce ==
    ASSUME NEW s, NEW v \in GetVolumes(s)
    PROVE  Cardinality({u \in GetVolumes(s) : u.name = v.name}) = 1
  <1>1. {u \in GetVolumes(s) : u.name = v.name} = {v}
    BY OneVolumePerName
  <1> QED
    BY <1>1, FS_Singleton

\* Where the other directories are mounted.
KollaDir == <<"/var/lib/kolla", Plain("config_files/")>>
PemDir == <<"/etc/pki/ca-trust/extracted", Plain("pem/")>>
ScriptsDir == <<"/etc/aim", Plain("scripts")>>
LogDir == <<"/var/log", Plain("aim")>>

\* The mounts of a pod.
LEMMA MountKinds ==
    ASSUME NEW s, NEW m \in GetVolumeMounts(s)
    PROVE  \/ m \in {DirMount("config-volume", ConfigSource), DirMount("config-kolla", KollaDir),
                     DirMount("rabbitmq-ca", PemDir), DirMount("init-script-volume", ScriptsDir)}
           \/ s.log /\ m = DirMount("aim-logs", LogDir)
           \/ s.ca # <<>> /\ m = FileMount("apic-ca-cert", s.ca, s.ca[2])
           \/ s.keyRef /\ m = PrivateKeyMount(s)
           \/ s.certRef /\ m = FileMount("apic-auth-certificate", <<"/etc/aim", CertFile(s)>>,
                                         CertFile(s))
  BY DEF GetVolumeMounts, KollaDir, PemDir, ScriptsDir, LogDir

\* Every mount is the log claim, or has a volume that holds its file.
LEMMA MountHasVolume ==
    ASSUME NEW s, NEW m \in GetVolumeMounts(s)
    PROVE  \/ s.log /\ m = DirMount("aim-logs", LogDir)
           \/ \E v \in GetVolumes(s) :
                 /\ v.name = m.name /\ v.name # "aim-logs"
                 /\ m.sub = NoName \/ \E i \in v.items : i.path = m.sub
  <1>0. \A n \in VolumeNames(s) : /\ Volume(s, n) \in GetVolumes(s) /\ n # "aim-logs"
                                  /\ Volume(s, n).name = n /\ Volume(s, n).items = Items(s, n)
    BY VolumesByName DEF Volume, VolumeNames
  <1>1. CASE m \in {DirMount("config-volume", ConfigSource),
                    DirMount("config-kolla", KollaDir), DirMount("rabbitmq-ca", PemDir),
                    DirMount("init-script-volume", ScriptsDir)}
    <2>1. m.sub = NoName /\ m.name \in VolumeNames(s)
      BY <1>1 DEF VolumeNames, DirMount
    <2> QED
      BY <1>0, <2>1
  <1>2. CASE s.log /\ m = DirMount("aim-logs", LogDir)
    BY <1>2
  <1>3. CASE s.ca # <<>> /\ m = FileMount("apic-ca-cert", s.ca, s.ca[2])
    <2>1. m.name = "apic-ca-cert" /\ m.sub = s.ca[2] /\ m.name \in VolumeNames(s)
      BY <1>3 DEF FileMount, VolumeNames
    <2>2. [key |-> s.ca[2], path |-> s.ca[2]] \in Items(s, m.name)
      BY <2>1 DEF Items, Same
    <2> QED
      BY <1>0, <2>1, <2>2
  <1>4. CASE s.keyRef /\ m = PrivateKeyMount(s)
    <2>1. /\ m.name = "apic-auth-private-key" /\ m.sub = PrivateKeyFile(s)
          /\ m.name \in VolumeNames(s)
      BY <1>4 DEF PrivateKeyMount, FileMount, VolumeNames
    <2>2. PrivateKeyItem(s) \in Items(s, m.name) /\ PrivateKeyItem(s).path = m.sub
      BY <2>1 DEF Items, PrivateKeyItem
    <2> QED
      BY <1>0, <2>1, <2>2
  <1>5. CASE s.certRef /\ m = FileMount("apic-auth-certificate", <<"/etc/aim", CertFile(s)>>,
                                        CertFile(s))
    <2>1. /\ m.name = "apic-auth-certificate" /\ m.sub = CertFile(s)
          /\ m.name \in VolumeNames(s)
      BY <1>5 DEF FileMount, VolumeNames
    <2>2. CertificateItem(s) \in Items(s, m.name) /\ CertificateItem(s).path = m.sub
      BY <2>1 DEF Items, CertificateItem
    <2> QED
      BY <1>0, <2>1, <2>2
  <1> QED
    BY <1>1, <1>2, <1>3, <1>4, <1>5, MountKinds

\* No volume has the name of the log claim.
LEMMA ClaimIsNoVolume ==
    ASSUME NEW s
    PROVE  {v \in GetVolumes(s) : v.name = "aim-logs"} = {}
  <1>1. \A n \in VolumeNames(s) : n # "aim-logs"
    BY DEF VolumeNames
  <1> QED
    BY <1>1, VolumesByName DEF Volume

\* The names that a complete spec keeps apart.
LEMMA NamesDiffer ==
    ASSUME NEW s, Complete(s)
    PROVE  /\ \A n : PrivateKeyFile(s) # Plain(n)
           /\ s.certRef => /\ CertFile(s) # Plain("scripts") /\ CertFile(s) # Plain("aim.conf")
                           /\ CertFile(s) # Plain("aim_supervisord.conf")
                           /\ CertFile(s) # Plain("aimctl.conf")
                           /\ CertFile(s) # Plain("aim_healthcheck")
           /\ s.certRef /\ s.keyRef => CertFile(s) # PrivateKeyFile(s)
  <1>1. \A n : PrivateKeyFile(s) # Plain(n)
    BY DEF PrivateKeyFile, Plain
  <1> QED
    BY <1>1, Zenon DEF Complete

\* The CA bundle of a complete spec is mounted by itself.
LEMMA CaElsewhere ==
    ASSUME NEW s, Complete(s), s.ca # <<>>
    PROVE  /\ s.ca[1] # "/etc/aim" /\ s.ca[2] # NoName
           /\ s.ca \notin {ConfigSource, KollaDir, PemDir, LogDir}
  BY Zenon DEF Complete, KollaDir, PemDir, LogDir

\* Two mounts of a complete spec never share a path: the directories differ, a key
\* file is neither "scripts" nor, in a complete spec, the certificate, and the CA bundle
\* is elsewhere.
LEMMA PathsDiffer ==
    ASSUME NEW s, Complete(s),
           NEW m \in GetVolumeMounts(s), NEW n \in GetVolumeMounts(s), m.path = n.path
    PROVE  m = n
  <1> DEFINE Dirs == {DirMount("config-volume", ConfigSource), DirMount("config-kolla", KollaDir),
                      DirMount("rabbitmq-ca", PemDir), DirMount("aim-logs", LogDir)}
             scripts == DirMount("init-script-volume", ScriptsDir)
             ca == FileMount("apic-ca-cert", s.ca, s.ca[2])
             key == PrivateKeyMount(s)
             cert == FileMount("apic-auth-certificate", <<"/etc/aim", CertFile(s)>>, CertFile(s))
  <1>1. \A x \in GetVolumeMounts(s) :
           \/ x \in Dirs \/ x = scripts \/ (x = ca /\ s.ca # <<>>)
           \/ (x = key /\ s.keyRef) \/ (x = cert /\ s.certRef)
    BY MountKinds
  <1>2. \A x, d : DirMount(x, d).path = d
    BY DEF DirMount
  <1>3. /\ \A x \in Dirs : x.path[1] # "/etc/aim" /\ x.path \in {ConfigSource, KollaDir, PemDir, LogDir}
        /\ \A x, y \in Dirs : x.path = y.path => x = y
    <2>1. /\ ConfigSource # KollaDir /\ ConfigSource # PemDir /\ ConfigSource # LogDir
          /\ KollaDir # PemDir /\ KollaDir # LogDir /\ PemDir # LogDir
      BY DEF ConfigSource, KollaDir, PemDir, LogDir
    <2>2. \A d \in {ConfigSource, KollaDir, PemDir, LogDir} : d[1] # "/etc/aim"
      BY DEF ConfigSource, KollaDir, PemDir, LogDir
    <2> QED
      BY <1>2, <2>1, <2>2
  <1>4. /\ key.path = <<"/etc/aim", PrivateKeyFile(s)>> /\ cert.path = <<"/etc/aim", CertFile(s)>>
        /\ ca.path = s.ca /\ scripts.path = <<"/etc/aim", Plain("scripts")>>
    BY <1>2 DEF PrivateKeyMount, FileMount, ScriptsDir
  <1>5. /\ key.path[1] = "/etc/aim" /\ cert.path[1] = "/etc/aim" /\ scripts.path[1] = "/etc/aim"
        /\ key.path[2] = PrivateKeyFile(s) /\ cert.path[2] = CertFile(s)
        /\ scripts.path[2] = Plain("scripts")
    BY <1>4
  <1>6. /\ key.path # scripts.path
        /\ s.certRef => cert.path # scripts.path
        /\ s.certRef /\ s.keyRef => cert.path # key.path
    BY <1>5, NamesDiffer
  <1>7. s.ca # <<>> => ca.path[1] # "/etc/aim" /\ ca.path \notin {ConfigSource, KollaDir, PemDir, LogDir}
    BY <1>4, CaElsewhere
  <1> HIDE DEF Dirs, scripts, ca, key, cert
  <1> QED
    BY <1>1, <1>3, <1>5, <1>6, <1>7

\* The files in /etc/aim that kolla copies.
LEMMA CopiedNames ==
    ASSUME NEW s, Complete(s)
    PROVE  Copied(s) = {<<"/etc/aim", Plain(f)>> :
                          f \in {"aim.conf", "aim_supervisord.conf", "aimctl.conf", "aim_healthcheck"}}
  <1> DEFINE m == DirMount("config-volume", ConfigSource)
             v == Volume(s, "config-volume")
  <1>1. m \in GetVolumeMounts(s) /\ m.path = ConfigSource /\ m.name = "config-volume"
    BY DEF GetVolumeMounts, DirMount
  <1>2. {n \in GetVolumeMounts(s) : n.path = ConfigSource} = {m}
    BY <1>1, PathsDiffer
  <1>3. Copied(s) = {<<"/etc/aim", f>> : f \in ItemPaths(s, "config-volume")}
    <2> HIDE DEF m
    <2> QED
      BY <1>1, <1>2 DEF Copied
  <1>4. v \in GetVolumes(s) /\ v.name = "config-volume" /\ v.items = Items(s, "config-volume")
    BY VolumesByName DEF Volume, VolumeNames
  <1>5. {u \in GetVolumes(s) : u.name = "config-volume"} = {v}
    BY <1>4, OneVolumePerName
  <1>6. ItemPaths(s, "config-volume") = {i.path : i \in Items(s, "config-volume")}
    <2> HIDE DEF v
    <2> QED
      BY <1>4, <1>5 DEF ItemPaths
  <1>7. {i.path : i \in Items(s, "config-volume")}
          = {Plain("aim.conf"), Plain("aim_supervisord.conf"), Plain("aimctl.conf"),
             Plain("aim_healthcheck")}
    <2> DEFINE names == {Plain("aim.conf"), Plain("aim_supervisord.conf"), Plain("aimctl.conf")}
               check == [key |-> Plain("aim_healthcheck.sh"), path |-> Plain("aim_healthcheck")]
    <2>1. Items(s, "config-volume") = Same(names) \cup {check}
      BY DEF Items
    <2>2. {i.path : i \in Same(names)} = names
      <3> HIDE DEF names
      <3>1. \A i \in Same(names) : i.path \in names
        BY DEF Same
      <3>2. ASSUME NEW n \in names
            PROVE  \E i \in Same(names) : i.path = n
        <4>1. [key |-> n, path |-> n] \in Same(names)
          BY DEF Same
        <4> WITNESS [key |-> n, path |-> n] \in Same(names)
        <4> QED
          OBVIOUS
      <3> QED
        BY <3>1, <3>2
    <2>3. check.path = Plain("aim_healthcheck")
      OBVIOUS
    <2>4. {i.path : i \in Same(names) \cup {check}} = {i.path : i \in Same(names)} \cup {check.path}
      <3> HIDE DEF names, check
      <3> QED
        OBVIOUS
    <2> QED
      BY <2>1, <2>2, <2>3, <2>4
  <1> QED
    BY <1>3, <1>6, <1>7

\* Kolla copies over none of the mounts.
LEMMA CopiesOverNone ==
    ASSUME NEW s, Complete(s), NEW m \in GetVolumeMounts(s)
    PROVE  m.path \notin Copied(s)
  <1> SUFFICES ASSUME NEW f \in {"aim.conf", "aim_supervisord.conf", "aimctl.conf", "aim_healthcheck"},
                      m.path = <<"/etc/aim", Plain(f)>>
               PROVE  FALSE
    BY CopiedNames
  <1>1. m.path[1] = "/etc/aim" /\ m.path[2] = Plain(f) /\ Plain(f) # Plain("scripts")
    <2>1. f # "scripts"
      OBVIOUS
    <2>2. Plain(f)[1] = f /\ Plain("scripts")[1] = "scripts"
      BY DEF Plain
    <2> QED
      BY <2>1, <2>2
  <1>2. \A x, d : DirMount(x, d).path = d
    BY DEF DirMount
  <1>3. CASE m \in {DirMount("config-volume", ConfigSource), DirMount("config-kolla", KollaDir),
                    DirMount("rabbitmq-ca", PemDir), DirMount("aim-logs", LogDir)}
    <2>1. \A d \in {ConfigSource, KollaDir, PemDir, LogDir} : d[1] # "/etc/aim"
      BY DEF ConfigSource, KollaDir, PemDir, LogDir
    <2> QED
      BY <1>1, <1>2, <1>3, <2>1
  <1>4. CASE m = DirMount("init-script-volume", ScriptsDir)
    <2>1. ScriptsDir[2] = Plain("scripts")
      BY DEF ScriptsDir
    <2> QED
      BY <1>1, <1>2, <1>4, <2>1
  <1>5. CASE s.ca # <<>> /\ m = FileMount("apic-ca-cert", s.ca, s.ca[2])
    <2>1. m.path = s.ca
      BY <1>5 DEF FileMount
    <2> QED
      BY <1>1, <1>5, <2>1, CaElsewhere
  <1>6. CASE m = PrivateKeyMount(s)
    <2>1. m.path[2] = PrivateKeyFile(s)
      BY <1>6 DEF PrivateKeyMount, FileMount
    <2> QED
      BY <1>1, <2>1, NamesDiffer
  <1>7. CASE s.certRef /\ m = FileMount("apic-auth-certificate", <<"/etc/aim", CertFile(s)>>, CertFile(s))
    <2>1. m.path[2] = CertFile(s)
      BY <1>7 DEF FileMount
    <2> QED
      BY <1>1, <1>7, <2>1, NamesDiffer
  <1> QED
    BY <1>3, <1>4, <1>5, <1>6, <1>7, MountKinds

\* Kubernetes can set up a pod that is built from a complete spec.
LEMMA SpecBacked ==
    ASSUME NEW s, Complete(s)
    PROVE  LET mounts == GetVolumeMounts(s)
               volumes == GetVolumes(s)
           IN  /\ \A m \in mounts : Cardinality({v \in volumes : v.name = m.name})
                                      + Cardinality(ClaimTemplates(s) \cap {m.name}) = 1
               /\ \A m \in mounts : m.sub # NoName => m.sub \in ItemPaths(s, m.name)
               /\ \A m, n \in mounts : m.path = n.path => m = n
               /\ Copied(s) \cap {m.path : m \in mounts} = {}
               /\ \A v \in ConfigMapVolumes : {i.key : i \in v.items} \subseteq generateConfigFiles
  <1>1. ASSUME NEW m \in GetVolumeMounts(s)
        PROVE  Cardinality({v \in GetVolumes(s) : v.name = m.name})
                 + Cardinality(ClaimTemplates(s) \cap {m.name}) = 1
    <2>1. CASE s.log /\ m = DirMount("aim-logs", LogDir)
      <3>1. m.name = "aim-logs" /\ ClaimTemplates(s) \cap {m.name} = {"aim-logs"}
        BY <2>1 DEF DirMount, ClaimTemplates
      <3>2. {v \in GetVolumes(s) : v.name = m.name} = {}
        BY <3>1, ClaimIsNoVolume
      <3>3. Cardinality({v \in GetVolumes(s) : v.name = m.name}) = 0
        BY <3>2, FS_EmptySet
      <3>4. Cardinality(ClaimTemplates(s) \cap {m.name}) = 1
        BY <3>1, FS_Singleton
      <3> QED
        BY <3>3, <3>4
    <2>2. ASSUME NEW v \in GetVolumes(s), v.name = m.name, v.name # "aim-logs"
          PROVE  Cardinality({u \in GetVolumes(s) : u.name = m.name})
                   + Cardinality(ClaimTemplates(s) \cap {m.name}) = 1
      <3>1. ClaimTemplates(s) \cap {m.name} = {}
        BY <2>2 DEF ClaimTemplates
      <3>2. Cardinality({u \in GetVolumes(s) : u.name = m.name}) = 1
        BY <2>2, CountedOnce
      <3> QED
        BY <3>1, <3>2, FS_EmptySet
    <2> QED
      BY <2>1, <2>2, MountHasVolume
  <1>2. ASSUME NEW m \in GetVolumeMounts(s), m.sub # NoName
        PROVE  m.sub \in ItemPaths(s, m.name)
    <2>1. m # DirMount("aim-logs", LogDir)
      BY <1>2 DEF DirMount
    <2> QED
      BY <1>2, <2>1, MountHasVolume, FilesOf
  <1>3. ASSUME NEW v \in ConfigMapVolumes
        PROVE  {i.key : i \in v.items} \subseteq generateConfigFiles
    BY DEF ConfigMapVolumes, Same, generateConfigFiles
  <1> QED
    BY <1>1, <1>2, <1>3, PathsDiffer, CopiesOverNone

-------------------------------------------------------------------------------
(* The files that the configuration names *)

\* The service finds its own files where kolla copies them.
LEMMA ServiceCopied ==
    ASSUME NEW s, Complete(s)
    PROVE  ServiceFiles \subseteq Copied(s)
  BY CopiedNames DEF ServiceFiles

\* A file that is mounted by itself is there.
LEMMA FileMounted ==
    ASSUME NEW s, NEW m \in GetVolumeMounts(s), m.sub # NoName
    PROVE  m.path \in Mounted(s)
  BY DEF Mounted

\* The key and the CA bundle that aim.conf names are mounted.
LEMMA NamesMounted ==
    ASSUME NEW s, Complete(s)
    PROVE  AimConfNames(s) \subseteq Mounted(s)
  <1>1. ASSUME ~(s.password \/ s.certName = NoName)
        PROVE  <<"/etc/aim", <<s.user, "_private_key">>>> \in Mounted(s)
    <2>1. s.keyRef /\ s.user # ""
      BY <1>1 DEF Complete
    <2>2. PrivateKeyMount(s) \in GetVolumeMounts(s)
      BY <2>1 DEF GetVolumeMounts
    <2>3. PrivateKeyFile(s) = <<s.user, "_private_key">>
      BY <2>1 DEF PrivateKeyFile
    <2>4. PrivateKeyFile(s) # NoName
      BY <2>3 DEF NoName, Plain
    <2>5. /\ PrivateKeyMount(s).sub = PrivateKeyFile(s)
          /\ PrivateKeyMount(s).path = <<"/etc/aim", PrivateKeyFile(s)>>
      BY DEF PrivateKeyMount, FileMount
    <2> QED
      BY <2>2, <2>3, <2>4, <2>5, FileMounted
  <1>2. ASSUME s.ca # <<>>
        PROVE  s.ca \in Mounted(s)
    <2> DEFINE m == FileMount("apic-ca-cert", s.ca, s.ca[2])
    <2>1. m \in GetVolumeMounts(s)
      BY <1>2 DEF GetVolumeMounts
    <2>2. m.sub # NoName /\ m.path = s.ca
      BY <1>2 DEF FileMount, Complete
    <2> QED
      BY <2>1, <2>2, FileMounted
  <1> QED
    BY <1>1, <1>2 DEF AimConfNames

-------------------------------------------------------------------------------
(* The invariant: every copy of the spec is one that a user wrote *)

Written ==
    /\ spec \in Specs /\ want \in Specs /\ cm \in Specs /\ tmpl \in Specs
    /\ pod \in [made : Specs, vols : [ConfigVolumes -> Specs]]

LEMMA InitWritten == Init => Written
  BY DEF Init, Written

LEMMA NextWritten ==
    ASSUME Written, [Next]_vars
    PROVE  Written'
  <1> USE DEF Written
  <1>1. CASE Fetch \/ WriteConfigMap \/ WriteStatefulSet \/ Wake \/ UserEdits
    BY <1>1 DEF Fetch, WriteConfigMap, WriteStatefulSet, Wake, UserEdits
  <1>2. CASE ReplacePod \/ PodLost
    BY <1>2 DEF ReplacePod, PodLost, MakePod
  <1>3. ASSUME NEW v \in ConfigVolumes, RefreshVolume(v)
        PROVE  Written'
    BY <1>3 DEF RefreshVolume
  <1>4. CASE ContainerDies \/ RunInit \/ KollaStart
    BY <1>4 DEF ContainerDies, RunInit, KollaStart
  <1>5. CASE UNCHANGED vars
    BY <1>5 DEF vars
  <1> QED
    BY <1>1, <1>2, <1>3, <1>4, <1>5 DEF Next, Reconcile, Kubelet, Container

\* Every pod template the operator writes can be set up by Kubernetes, and kolla can
\* copy its files into it, for any set of complete specs and any sequence of edits.
\* User, certificate and CA have any names that Complete allows: no collision is left
\* besides those it excludes.
THEOREM TemplatesAreBacked ==
    ASSUME \A s \in Specs : Complete(s)
    PROVE  Spec => []MountsBacked
  <1>1. Written /\ [Next]_vars => Written'
    BY NextWritten
  <1>2. Written => MountsBacked
    <2> SUFFICES ASSUME Written PROVE MountsBacked
      OBVIOUS
    <2>1. Complete(tmpl)
      BY DEF Written
    <2> QED
      BY <2>1, SpecBacked DEF MountsBacked
  <1> QED
    BY <1>1, <1>2, InitWritten, PTL DEF Spec

\* A container that started from the files of its pod's spec finds every file
\* that they name, for any set of complete specs, whatever was refreshed under it
\* and wherever it was restarted.
THEOREM ContainersStartUsable ==
    ASSUME \A s \in Specs : Complete(s)
    PROVE  Spec => []StartsUsable
  <1>1. Written /\ [Next]_vars => Written'
    BY NextWritten
  <1>2. Written => StartsUsable
    <2> SUFFICES ASSUME Written, {run.init, run.kolla, run.etc} = {pod.made}
                 PROVE  Usable
      BY DEF StartsUsable
    <2>1. run.init = pod.made /\ run.kolla = pod.made /\ run.etc = pod.made
      OBVIOUS
    <2>2. Complete(pod.made)
      BY DEF Written
    <2>3. AimConfNames(run.etc) \cup ServiceFiles \subseteq Mounted(pod.made) \cup Copied(pod.made)
      BY <2>1, <2>2, NamesMounted, ServiceCopied
    <2>4. {run.init.log, run.kolla.log, run.etc.log} = {pod.made.log}
      BY <2>1
    <2> QED
      BY <2>3, <2>4 DEF Usable
  <1> QED
    BY <1>1, <1>2, InitWritten, PTL DEF Spec
===============================================================================
