---------------------------- MODULE MCMgmtSwitch ----------------------------
(* A small switch: one BMC port, one PXE port, a port to the deployer and  *)
(* one to another switch.  The vlan of the ipmi network is the number of a *)
(* port, and the one of the management network is the first digit of the   *)
(* one of the pxe network.  Node ports are in the right vlan or in that of *)
(* the other network, the others are set up or in a vlan of the nodes.     *)
EXTENDS MgmtSwitch

MCVlan == [k \in Kinds |-> IF k = "ipmi" THEN 4 ELSE 20]
MCClient == [k \in Kinds |-> IF k = "ipmi" THEN {1} ELSE {2}]

Access(v) == [mode |-> "access", pvid |-> v, allowed |-> {v}]
Trunk(vs) == [mode |-> "trunk", pvid |-> 1, allowed |-> vs]
MCBefore == <<{Access(4), Access(20)}, {Access(4), Access(20)},
              {Access(4), Trunk({1, 2, 4, 20})}, {Access(20), Trunk({1, 2})}>>
=============================================================================
