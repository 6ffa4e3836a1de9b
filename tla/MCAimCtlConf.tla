----------------------------- MODULE MCAimCtlConf -----------------------------
(***************************************************************************)
(* Small fabrics for TLC: up to two switches with up to three hosts on two *)
(* ports, or up to three VLAN ranges and two mappings over two networks.   *)
(***************************************************************************)
EXTENDS AimCtlConf

Bare == [links |-> [s \in {} |-> s], mappings |-> <<>>, devMappings |-> <<>>, ranges |-> <<>>,
         vmm |-> NoName]

HostMaps == UNION {[H -> {1, 2}] : H \in SUBSET {1, 2, 3}}

LinkFabrics == {[Bare EXCEPT !.links = l] : l \in UNION {[S -> HostMaps] : S \in SUBSET {1, 2}}}

Nets == {"n1", "n2"}
Mappings == [net : Nets, dom : {<<"d1">>, <<"pdom", "n1">>, NoName}]

DomainFabrics ==
    {[Bare EXCEPT !.mappings = m, !.ranges = r, !.vmm = v] :
        m \in SeqOf(Mappings, 2), r \in SeqOf(Nets, 3), v \in {NoName, "v1"}}

\* NeutronPhysicalDevMappings names a network, of the ranges or not.
OverrideFabrics ==
    {[Bare EXCEPT !.mappings = m, !.devMappings = <<[net |-> n, dom |-> <<"d2">>]>>, !.ranges = r] :
        m \in SeqOf(Mappings, 1), n \in Nets, r \in SeqOf(Nets, 2)}

AllFabrics == LinkFabrics \cup DomainFabrics \cup OverrideFabrics
===============================================================================
