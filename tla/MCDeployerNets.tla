--------------------------- MODULE MCDeployerNets ---------------------------
(* Configurations for model checking DeployerNets. *)
EXTENDS DeployerNets

Mgmt(dev, vlan, bridged) ==
  [type |-> "mgmt", dev |-> dev, vlan |-> vlan, bridged |-> bridged, cont |-> bridged]
Client(type, dev, vlan) ==
  [type |-> type, dev |-> dev, vlan |-> vlan, bridged |-> TRUE, cont |-> TRUE]

\* the usual one; names within names and a shared link; untagged networks; two
\* addresses on one device, one on a device with vlan links
MCConfigs ==
  {<<Mgmt("eth1", 0, FALSE), Client("ipmi", "eth0", 20), Client("pxe", "eth0", 10)>>,
   <<Mgmt("eth0", 10, TRUE), Mgmt("eth0", 1, TRUE), Client("pxe", "eth0", 10)>>,
   <<Mgmt("eth0", 5, TRUE), Client("ipmi", "eth1", 0), Client("pxe", "eth0", 10)>>,
   <<Client("ipmi", "eth1", 4095), Client("pxe", "eth0", 10)>>,
   <<Mgmt("eth1", 0, FALSE), Mgmt("eth1", 0, FALSE), Client("pxe", "eth1", 0)>>,
   <<Mgmt("eth0", 0, FALSE), Client("pxe", "eth0", 10)>>}

MCForeign == <<"br", 0>>
=============================================================================
