---------------------------- MODULE MCDataSwitch ----------------------------
(* Configurations of data switches for model checking DataSwitch. *)
EXTENDS DataSwitch

Ifc(label, name, master, raw, vlan, mtu) ==
  [label |-> label, name |-> name, bond |-> label = "b", master |-> master,
   raw |-> raw, vlan |-> vlan, mtu |-> mtu]

\* A bond of two ports with a vlan.
Bond(vlan) ==
  {Ifc("b", "bond0", "", "", 0, 0), Ifc("e1", "eth1", "bond0", "", 0, 0),
   Ifc("e2", "eth2", "bond0", "", 0, 0), Ifc("v", "bond0.v", "", "bond0", vlan, 0)}

Template(s1, s2, ifcs, more) ==
  <<[ifcs |-> {"b", "e1", "e2", "v"} \cup ifcs,
     data |-> <<[ifc |-> "e1", sw |-> s1, ports |-> <<1>>],
                [ifc |-> "e2", sw |-> s2, ports |-> <<2>>]>> \o more]>>

Up == <<[target |-> "mgmt", vlan |-> 0, ip |-> 1]>>
Link(peer, ip) == <<[target |-> peer, vlan |-> 99, ip |-> ip]>>

\* a Cisco switch with a bond and a port that has an MTU; a bond on one
\* Mellanox switch; one with another vlan over an MLAG pair of that and another
MCConfigs ==
  {[ifcs |-> Bond(10) \cup {Ifc("e3", "eth3", "", "", 0, 9000)},
    templates |-> Template("c", "c", {"e3"}, <<[ifc |-> "e3", sw |-> "c", ports |-> <<5>>]>>),
    links |-> [s \in {"c"} |-> Up]],
   [ifcs |-> Bond(20), templates |-> Template("m1", "m1", {}, <<>>),
    links |-> [s \in {"m1"} |-> Up]],
   [ifcs |-> Bond(10), templates |-> Template("m1", "m2", {}, <<>>),
    links |-> [s \in {"m1", "m2"} |-> IF s = "m1" THEN Link("m2", 1) ELSE Link("m1", 2)]]}

MCClass == [s \in Switches |-> IF s = "c" THEN "cisco" ELSE "mellanox"]
=============================================================================
