---------------------------- MODULE MCIpReserve ----------------------------
(* Instances of IpReserve.  Start is 1, so that the offsets stay small.    *)
EXTENDS IpReserve

\* one login for all BMCs, as config.yml defines it per node template
SameCred == [n \in Nodes |-> "c"]
\* a login per node
OwnCred == [n \in Nodes |-> n]

\* BMC network with two spare addresses, PXE network with room to spare
TwoNets == [ipmi |-> N + 3, pxe |-> N + 3]
\* one network for both, two spare addresses
OneNet == [ipmi |-> 2 * N + 3, pxe |-> 2 * N + 3]
=============================================================================
