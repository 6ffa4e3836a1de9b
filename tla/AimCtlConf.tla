------------------------------ MODULE AimCtlConf ------------------------------
(***************************************************************************)
(* The fabric part of aimctl.conf: populateAimCtlConfData and              *)
(* buildSwitchConfigs.  Go visits the keys of a map in an order of its own *)
(* each time, and the checksum of the rendered file decides whether all    *)
(* pods are rolled: every loop over a map takes an arbitrary order here,   *)
(* and a fabric is rendered again and again.  The loops are steps, so that *)
(* what they compute is stated as an invariant.                            *)
(*                                                                         *)
(* Switches, hosts and ports are numbers, ordered like the strings they    *)
(* stand for.  A network is a value, a domain a tuple of name parts: the   *)
(* default domain of a network is <<"pdom", network>>.                     *)
(***************************************************************************)
EXTENDS Naturals, Sequences, FiniteSets, SequencesExt

CONSTANTS Fabrics,    \* the AciFabric specs
          NoName,     \* an omitted name, a mapping without a colon
          SystemId    \* ACIApicSystemId

\* AciVmmDomainName, ACIHostLinks, AciPhysDomMappings, NeutronPhysicalDevMappings and
\* NeutronNetworkVLANRanges.  No code reads NeutronPhysicalDevMappings; the other
\* fields are copied as they are.
AciFabricSpec == {"vmm", "links", "mappings", "devMappings", "ranges"}

\* A Go map of strings, and a slice.
IsMap(m) == IsFiniteSet(DOMAIN m) /\ DOMAIN m \subseteq Nat
IsSlice(s) == s \in Seq(Range(s))

ASSUME FabricAssumption ==
    \A f \in Fabrics :
       /\ DOMAIN f = AciFabricSpec
       /\ IsMap(f.links) /\ IsSlice(f.mappings) /\ IsSlice(f.ranges)
       /\ IsSlice(f.devMappings)
       /\ \A id \in DOMAIN f.links : IsMap(f.links[id]) /\ Range(f.links[id]) \subseteq Nat

VARIABLES
    fab,          \* the AciFabric that is rendered
    stage,        \* what is done next
    switchIDs,    \* the switches still to be written
    hosts,        \* the hosts of the first of them still to be visited
    hostsByPort,  \* its other hosts
    pdomMapping,  \* the physical domain of a network
    pos,          \* the mappings or VLAN ranges that are done
    data,         \* AimCtlConfData so far
    previous      \* the data of the last rendering of the same fabric

vars == <<fab, stage, switchIDs, hosts, hostsByPort, pdomMapping, pos, data, previous>>

Empty == [k \in {} |-> NoName]
Put(map, key, value) == [k \in DOMAIN map \cup {key} |-> IF k = key THEN value ELSE map[k]]

NoData == [vmm |-> NoName, switches |-> <<>>, physDoms |-> <<>>]

\* The keys of a map in the order in which a loop visits them.
Visits(map) == SetToSeqs(DOMAIN map)

SortStrings(s) ==
    LET p == CHOOSE p \in Bijection(DOMAIN s, DOMAIN s) :
                \A i, j \in DOMAIN s : i < j => s[p[i]] <= s[p[j]]
    IN  [i \in DOMAIN s |-> s[p[i]]]

-------------------------------------------------------------------------------
(* The VMM domain and buildSwitchConfigs *)

\* AciVmmDomainName, or the system id.
VmmDomain(f) == IF f.vmm = NoName THEN SystemId ELSE f.vmm

ListSwitches ==
    /\ stage = "start" /\ stage' = "switches"
    /\ \E ids \in Visits(fab.links) : switchIDs' = SortStrings(ids)
    /\ data' = [NoData EXCEPT !.vmm = VmmDomain(fab)]
    /\ UNCHANGED <<fab, hosts, hostsByPort, pdomMapping, pos, previous>>

OpenSwitch ==
    /\ stage = "switches" /\ switchIDs # <<>> /\ stage' = "hosts"
    /\ hosts' = DOMAIN fab.links[Head(switchIDs)] /\ hostsByPort' = Empty
    /\ UNCHANGED <<fab, switchIDs, pdomMapping, pos, data, previous>>

\* Mutant: the last host of a port replaces the others.
AddHost_Last(port, host) == Put(hostsByPort, port, <<host>>)

AddHost(port, host) ==
    Put(hostsByPort, port,
        IF port \in DOMAIN hostsByPort THEN Append(hostsByPort[port], host) ELSE <<host>>)

VisitHost ==
    /\ stage = "hosts"
    /\ \E host \in hosts : /\ hosts' = hosts \ {host}
                           /\ hostsByPort' = AddHost(fab.links[Head(switchIDs)][host], host)
    /\ UNCHANGED <<fab, stage, switchIDs, pdomMapping, pos, data, previous>>

\* Mutant: the hosts of a line stay in the order of the map.
HostLink_Unsorted(port) == [hosts |-> hostsByPort[port], port |-> port]

\* A line "host1,host2 = port".
HostLink(port) == [hosts |-> SortStrings(hostsByPort[port]), port |-> port]

WriteSwitch ==
    /\ stage = "hosts" /\ hosts = {} /\ stage' = "switches"
    /\ \E visited \in Visits(hostsByPort) :
         LET ports == SortStrings(visited)
         IN  data' = [data EXCEPT !.switches = Append(@,
                 [id |-> Head(switchIDs), links |-> [i \in DOMAIN ports |-> HostLink(ports[i])]])]
    /\ switchIDs' = Tail(switchIDs)
    /\ UNCHANGED <<fab, hosts, hostsByPort, pdomMapping, pos, previous>>

-------------------------------------------------------------------------------
(* Physical domains *)

\* A later mapping of a network replaces an earlier one; one without a colon is
\* skipped.
AddMapping ==
    /\ stage = "mappings" /\ pos < Len(fab.mappings) /\ pos' = pos + 1
    /\ LET m == fab.mappings[pos + 1]
       IN  pdomMapping' = IF m.dom = NoName THEN pdomMapping ELSE Put(pdomMapping, m.net, m.dom)
    /\ UNCHANGED <<fab, stage, switchIDs, hosts, hostsByPort, data, previous>>

PhysDomName(net) == IF net \in DOMAIN pdomMapping THEN pdomMapping[net] ELSE <<"pdom", net>>

\* Mutant: a network is skipped when it was seen before, not its domain.
InPhysDomSet_Network(net) == \E i \in 1..pos : fab.ranges[i] = net

InPhysDomSet(net) == Contains(data.physDoms, PhysDomName(net))

\* One section per domain, in the order of the VLAN ranges.
AddDomain ==
    /\ stage = "ranges" /\ pos < Len(fab.ranges) /\ pos' = pos + 1
    /\ LET net == fab.ranges[pos + 1]
       IN  data' = IF InPhysDomSet(net) THEN data
                   ELSE [data EXCEPT !.physDoms = Append(@, PhysDomName(net))]
    /\ UNCHANGED <<fab, stage, switchIDs, hosts, hostsByPort, pdomMapping, previous>>

LoopEnds ==
    /\ \/ stage = "switches" /\ switchIDs = <<>> /\ stage' = "mappings"
       \/ stage = "mappings" /\ pos = Len(fab.mappings) /\ stage' = "ranges"
       \/ stage = "ranges" /\ pos = Len(fab.ranges) /\ stage' = "done"
    /\ pos' = 0
    /\ UNCHANGED <<fab, switchIDs, hosts, hostsByPort, pdomMapping, data, previous>>

-------------------------------------------------------------------------------
\* The next Reconcile renders the same fabric again.
RenderAgain ==
    /\ stage = "done" /\ stage' = "start"
    /\ previous' = data /\ data' = NoData /\ hostsByPort' = Empty /\ pdomMapping' = Empty
    /\ UNCHANGED <<fab, switchIDs, hosts, pos>>

Init ==
    /\ fab \in Fabrics
    /\ stage = "start" /\ switchIDs = <<>> /\ hosts = {} /\ hostsByPort = Empty
    /\ pdomMapping = Empty /\ pos = 0 /\ data = NoData /\ previous = NoData

Next ==
    \/ ListSwitches \/ OpenSwitch \/ VisitHost \/ WriteSwitch
    \/ AddMapping \/ AddDomain \/ LoopEnds \/ RenderAgain

Spec == Init /\ [][Next]_vars

-------------------------------------------------------------------------------
\* Rendering the same fabric twice gives the same file, in whatever order Go visits
\* its maps: the checksum stays and no pod is rolled.  (buildSwitchConfigs)
RenderingIsStable == stage = "done" /\ previous # NoData => data = previous

\* The lines written for the switches say what ACIHostLinks says, no more and no
\* less: one section per switch, one line per port, each host on its port.
LinksAsSpecified ==
    stage = "done" =>
      /\ IsInjective([i \in DOMAIN data.switches |-> data.switches[i].id])
      /\ {s.id : s \in ToSet(data.switches)} = DOMAIN fab.links
      /\ \A s \in ToSet(data.switches) :
           LET ports == fab.links[s.id]
           IN  /\ IsInjective([i \in DOMAIN s.links |-> s.links[i].port])
               /\ {l.port : l \in ToSet(s.links)} = Range(ports)
               /\ \A l \in ToSet(s.links) :
                    IsInjective(l.hosts) /\ ToSet(l.hosts) = {h \in DOMAIN ports : ports[h] = l.port}

\* Each network of the VLAN ranges that NeutronPhysicalDevMappings does not name has
\* the section of the domain that the last of its mappings names, or of
\* pdom_<network>; other sections are there only if it names some network of the
\* ranges; and no section is written twice.  (populateAimCtlConfData; what the comment
\* on NeutronPhysicalDevMappings promises for the networks it names is not done, and
\* not claimed here)
DomainsAsSpecified ==
    stage = "done" =>
      LET given(net) == {i \in DOMAIN fab.mappings :
                           fab.mappings[i].net = net /\ fab.mappings[i].dom # NoName}
          domain(net) == IF given(net) = {} THEN <<"pdom", net>>
                         ELSE fab.mappings[CHOOSE i \in given(net) : \A j \in given(net) : j <= i].dom
          nets == ToSet(fab.ranges)
          overridden == nets \cap {m.net : m \in ToSet(fab.devMappings)}
          due == {domain(net) : net \in nets \ overridden}
      IN  /\ IsInjective(data.physDoms)
          /\ due \subseteq ToSet(data.physDoms)
          /\ overridden = {} => ToSet(data.physDoms) = due
===============================================================================
