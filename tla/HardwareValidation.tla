------------------------- MODULE HardwareValidation -------------------------
(***************************************************************************)
(* `pup validate --cluster-hardware`: gen.py _cluster_hardware and         *)
(* validate_cluster_hardware.py.  The command checks the switches, then    *)
(* takes the container off the IPMI and PXE bridges, runs a DHCP server of *)
(* its own in a network namespace on each, waits for the nodes to appear,  *)
(* logs in to their BMCs and puts everything back.  A run can be killed or *)
(* raise at any point; namespaces and DHCP servers outlive it.             *)
(*                                                                         *)
(* A host's address is any free one of the pool and passes on when the    *)
(* host takes another; whoever holds an address answers at it, and logins  *)
(* are of templates, so any BMC with an account of one is taken for ours.  *)
(* Power and boot device calls to the BMCs are module BmcClients.          *)
(***************************************************************************)
EXTENDS Naturals, Sequences, FiniteSets

CONSTANTS Nodes,        \* the nodes of the configuration, one IPMI, one PXE port
          Strangers,    \* other hosts on these networks
          Templates,    \* node templates
          Account,      \* [Templates -> an account of their BMCs]
          Takes,        \* [Hosts -> the accounts a BMC has]
          Pool, None,   \* the addresses, and that of a host without one
          Switches,     \* number of management switches
          Runs          \* bound on the runs of the command

ASSUME HardwareAssumption ==
  /\ Nodes \cap Strangers = {} /\ IsFiniteSet(Nodes) /\ IsFiniteSet(Strangers)
  /\ IsFiniteSet(Templates) /\ None \notin Pool
  /\ Switches \in Nat /\ Runs \in Nat

Nets == {"ipmi", "pxe"}
Hosts == Nodes \cup Strangers

\* The templates whose login the BMC of a host accepts.
Accepted(h) == {t \in Templates: Account[t] \in Takes[h]}

VARIABLES
  \* the deployer: namespaces, DHCP servers and tcpdump in them, and whether
  \* the container's interface on the bridge is up
  space, dns, dump, veth,
  \* the networks: address of each host, hosts whose PXE request tcpdump saw
  addr, seen,
  \* the management switches: "good", "fails" (no ping) or "silent" (raises too)
  health,
  \* the process
  pc, sw, rc, nodeList, table, pxeTable, macList, todo, stop, ran, runs,
  login,    \* _get_credentials: [ai: bmc_ai, count: logins counted] and its
            \* history [who: hosts that answered, odd: one not to be counted did]
  dirty     \* a run died, and none completed since

deployer == <<space, dns, dump, veth>>
network == <<addr, seen>>
found == <<nodeList, table, pxeTable, login, macList>>
vars == <<space, dns, dump, veth, addr, seen, health, pc, sw, rc, nodeList,
          table, pxeTable, login, macList, todo, stop, ran, runs, dirty>>

NoLogin == [ai |-> {}, count |-> 0, who |-> {}, odd |-> FALSE]

\* No two hosts have one address.
Assigned ==
  {f \in [Hosts -> Pool \cup {None}]: \A g, h \in Hosts: f[g] = f[h] /\ g # h => f[g] = None}

Init ==
  /\ space = [t \in Nets |-> FALSE] /\ dns = [t \in Nets |-> FALSE]
  /\ dump = FALSE /\ veth = [t \in Nets |-> TRUE]
  /\ addr \in Assigned /\ seen = {}
  /\ health \in [1..Switches -> {"good", "fails", "silent"}]
  /\ pc = "idle" /\ sw = 1 /\ rc = FALSE /\ nodeList = {} /\ table = {}
  /\ pxeTable = {} /\ login = NoLogin /\ macList = {} /\ todo = <<>> /\ stop = FALSE
  /\ ran = FALSE /\ runs = 0 /\ dirty = FALSE

Empty ==
  /\ nodeList' = {} /\ table' = {} /\ pxeTable' = {} /\ login' = NoLogin
  /\ macList' = {} /\ todo' = <<>> /\ stop' = FALSE /\ ran' = FALSE

\* ValidateClusterHardware(config): tables, lists and access info are empty.
Start ==
  /\ pc \in {"idle", "ok", "stopped", "dead"} /\ runs < Runs
  /\ pc' = "mgmt" /\ runs' = runs + 1 /\ rc' = TRUE /\ UNCHANGED sw /\ Empty
  /\ UNCHANGED <<deployer, network, health, dirty>>

\* What the process knows goes with it.
Leave == Empty /\ sw' = 1 /\ rc' = FALSE

\* The process is killed, or an exception nothing catches ends it.
Die ==
  /\ pc' = "dead" /\ dirty' = TRUE /\ Leave
  /\ UNCHANGED <<deployer, network, health, runs>>

-----------------------------------------------------------------------------
\* The switches, one after the other.

\* rc is set to True again for each switch.
Result(s) == health[s] = "good"

\* A first management switch that raises leaves vlans unbound.
Unbound(s) == s = 1 /\ health[s] = "silent"

CheckSwitch ==
  /\ pc = "mgmt" /\ sw <= Switches /\ ~Unbound(sw)
  /\ rc' = Result(sw) /\ sw' = sw + 1
  /\ UNCHANGED <<deployer, network, health, pc, found, todo, stop, ran, runs, dirty>>

\* gen.py ends unless they verify.
EndSwitches ==
  /\ pc = "mgmt" /\ sw > Switches
  /\ pc' = IF rc THEN "data" ELSE "stopped"
  /\ sw' = 1 /\ rc' = TRUE
  /\ UNCHANGED <<deployer, network, health, found, todo, stop, ran, runs, dirty>>

\* The data switches: a failure is a warning.
CheckDataSwitches ==
  /\ pc = "data"
  /\ pc' = "ipmi_ns"
  /\ UNCHANGED <<deployer, network, health, sw, rc, found, todo, stop, ran, runs, dirty>>

-----------------------------------------------------------------------------
\* Namespaces.  A remnant of an earlier run is used again.

\* pc in the set-up of a network's: before its link, the namespace, the server.
SetUp == [ns |-> [ipmi |-> "ipmi_ns", pxe |-> "pxe_ns"],
          mk |-> [ipmi |-> "ipmi_mk", pxe |-> "pxe_mk"],
          dns |-> [ipmi |-> "ipmi_dns", pxe |-> "pxe_dns"]]

\* mutant: a namespace that is there is taken to be in place
DisconnectOnce(t) ==
  /\ pc = SetUp.ns[t]
  /\ pc' = SetUp.mk[t] /\ veth' = [veth EXCEPT ![t] = @ /\ space[t]]
  /\ UNCHANGED <<space, dns, dump, network, health, sw, rc, found, todo, stop,
                 ran, runs, dirty>>

\* NetNameSpace(): all veth pairs of the bridge are brought down first.
DisconnectContainer(t) ==
  /\ pc = SetUp.ns[t]
  /\ pc' = SetUp.mk[t] /\ veth' = [veth EXCEPT ![t] = FALSE]
  /\ UNCHANGED <<space, dns, dump, network, health, sw, rc, found, todo, stop,
                 ran, runs, dirty>>

MakeNameSpace(t) ==
  /\ pc = SetUp.mk[t]
  /\ pc' = SetUp.dns[t] /\ space' = [space EXCEPT ![t] = TRUE]
  /\ UNCHANGED <<dns, dump, veth, network, health, sw, rc, found, todo, stop,
                 ran, runs, dirty>>

\* _teardown_ns(): dnsmasq and tcpdump of the namespace are killed,
KillServers ==
  /\ pc = "down" /\ todo # <<>>
  /\ pc' = "connect" /\ dns' = [dns EXCEPT ![Head(todo)] = FALSE]
  /\ dump' = (dump /\ Head(todo) # "pxe")
  /\ UNCHANGED <<space, veth, network, health, sw, rc, found, todo, stop, ran, runs, dirty>>

\* then the container is connected,
ReconnectContainer ==
  /\ pc = "connect"
  /\ pc' = "destroy" /\ veth' = [veth EXCEPT ![Head(todo)] = TRUE]
  /\ UNCHANGED <<space, dns, dump, network, health, sw, rc, found, todo, stop,
                 ran, runs, dirty>>

\* and the namespace deleted.
DestroyNameSpace ==
  /\ pc = "destroy"
  /\ pc' = "down" /\ space' = [space EXCEPT ![Head(todo)] = FALSE] /\ todo' = Tail(todo)
  /\ UNCHANGED <<dns, dump, veth, network, health, sw, rc, found, stop, ran, runs, dirty>>

-----------------------------------------------------------------------------
\* validate_ipmi.

\* fping of the pool: any of the hosts that have an address may answer.
Pinged == SUBSET ({addr[h] : h \in Hosts} \ {None})

\* BMCs at a list that take a login of ours may be told to cold reset, and
\* lose their address.
ResetBmcs(list) ==
  \E r \in SUBSET {h \in Hosts: addr[h] \in list /\ Accepted(h) # {}}:
    addr' = [h \in Hosts |-> IF h \in r THEN None ELSE addr[h]]

\* Those that answered before any server of ours are; dnsmasq is started
\* unless it runs in the namespace.
StartIpmiDhcp ==
  /\ pc = "ipmi_dns"
  /\ ResetBmcs(Pool)
  /\ dns' = [dns EXCEPT !["ipmi"] = TRUE] /\ pc' = "ipmi_scan"
  /\ UNCHANGED <<space, dump, veth, seen, health, sw, rc, found, todo, stop, ran, runs, dirty>>

\* _get_port_table_ipmi(): <<port, address>> of the nodes on a list by their
\* leases; the first address found at a port stays.
PortTable(list) ==
  {<<n, addr[n]>> : n \in {m \in Nodes: addr[m] \in list /\ \A e \in table: e[1] # m}}

\* A scan cycle: fewer hosts than ports after 25 scans and the operator is
\* asked, enough and the scan is over.  rc is fping's when they do not suffice.
ScanIpmi ==
  /\ pc = "ipmi_scan"
  /\ \E s \in Pinged:
       /\ nodeList' = s
       /\ \E t \in SUBSET PortTable(s): table' = table \cup t
       /\ pc' = IF Cardinality(s) >= Cardinality(Nodes) THEN "login" ELSE "ipmi_ask"
  /\ UNCHANGED <<deployer, network, health, sw, rc, pxeTable, login, macList,
                 todo, stop, ran, runs, dirty>>

\* Enter, or an answer that is not confirmed: scan on.
AskIpmi ==
  /\ pc = "ipmi_ask"
  /\ \/ pc' = "ipmi_scan" /\ UNCHANGED <<todo, stop>>
     \/ pc' = "login" /\ UNCHANGED <<todo, stop>>
     \/ pc' = "down" /\ todo' = <<"ipmi">> /\ stop' = TRUE
  /\ UNCHANGED <<deployer, network, health, sw, rc, found, ran, runs, dirty>>

\* _get_credentials(): the host that is now at an address not yet logged in to
\* accepts some of the templates' logins.  Each is counted, whoever it is.
Login ==
  /\ pc = "login"
  /\ \E h \in Hosts:
       /\ addr[h] \in nodeList \ login.ai
       /\ \E works \in SUBSET Accepted(h) \ {{}}:
            login' = [ai |-> login.ai \cup {addr[h]},
                      count |-> login.count + Cardinality(works),
                      who |-> login.who \cup {h},
                      odd |-> \/ login.odd \/ h \in login.who \cup Strangers
                              \/ Cardinality(works) # 1]
  /\ UNCHANGED <<deployer, network, health, pc, sw, rc, nodeList, table, pxeTable,
                 macList, todo, stop, ran, runs, dirty>>

\* mutant: any login is enough
AnyLogin == login.count > 0

\* left = 0: as many logins as the templates have ports.
AllLogins == login.count = Cardinality(Nodes)

\* ... until all were logged in to, at most 21 attempts; with nothing found it
\* is not called.  Too few or too many logins raise, and bmc_ai is not assigned.
EndLogins ==
  /\ pc = "login"
  /\ ran' = (nodeList = {} \/ AllLogins)
  /\ login' = IF ran' THEN login ELSE NoLogin
  /\ pc' = "pxe_ns"
  /\ UNCHANGED <<deployer, network, health, sw, rc, nodeList, table, pxeTable,
                 macList, todo, stop, runs, dirty>>

-----------------------------------------------------------------------------
\* validate_pxe, whether validate_ipmi raised or not.

\* Remnants of dnsmasq and tcpdump are killed and new ones started, on an
\* empty file.
StartPxeDhcp ==
  /\ pc = "pxe_dns"
  /\ dns' = [dns EXCEPT !["pxe"] = TRUE] /\ dump' = TRUE /\ seen' = {}
  /\ pc' = "pxe_scan"
  /\ UNCHANGED <<space, veth, addr, health, sw, rc, found, todo, stop, ran, runs, dirty>>

\* A scan cycle: MACs that asked for PXE, any host's; _build_port_table_pxe()
\* adds the new ones and gives "-" for a port the switch does not have them on.
ScanPxe ==
  /\ pc = "pxe_scan"
  /\ macList' = macList \cup seen
  /\ \E onPort \in SUBSET ((seen \ macList) \cap Nodes):
       pxeTable' = pxeTable \cup onPort
  /\ pc' = IF Cardinality(macList') >= Cardinality(Nodes) THEN "down" ELSE "pxe_ask"
  /\ todo' = IF pc' = "down" THEN <<"pxe", "ipmi">> ELSE todo
  /\ UNCHANGED <<deployer, network, health, sw, rc, nodeList, table, login, stop,
                 ran, runs, dirty>>

\* The addresses in the table of the nodes whose PXE port is not in that of PXE.
Missing == {e[2] : e \in {d \in table : d[1] \notin pxeTable}}

\* mutant: a stop takes down what this method made
StopPxeOnly == <<"pxe">>

StopPxe == <<"ipmi", "pxe">>

\* 'R' cycles the power of the missing nodes with their access info.
AskPxe ==
  /\ pc = "pxe_ask"
  /\ \/ pc' = "pxe_scan" /\ UNCHANGED <<todo, stop>>
     \/ pc' = "pxe_scan" /\ Missing \subseteq login.ai /\ UNCHANGED <<todo, stop>>
     \/ pc' = "down" /\ todo' = <<"pxe", "ipmi">> /\ UNCHANGED stop
     \/ pc' = "down" /\ todo' = StopPxe /\ stop' = TRUE
  /\ UNCHANGED <<deployer, network, health, sw, rc, found, ran, runs, dirty>>

\* bmc_ai has no such address: a KeyError.
CycleUnknown == pc = "pxe_ask" /\ ~(Missing \subseteq login.ai) /\ Die

\* Everything is torn down.  A complete run resets the BMCs at the
\* addresses it found.
End ==
  /\ pc = "down" /\ todo = <<>>
  /\ pc' = IF stop THEN "stopped" ELSE "ok"
  /\ ResetBmcs(IF stop THEN {} ELSE nodeList)
  /\ dirty' = (dirty /\ stop) /\ Leave
  /\ UNCHANGED <<deployer, seen, health, runs>>

-----------------------------------------------------------------------------
\* The environment.

\* A host takes a free address from the server in the namespace, for its first
\* or another one.
Lease ==
  /\ dns["ipmi"]
  /\ \E h \in Hosts, a \in Pool:
       (\A g \in Hosts: addr[g] # a) /\ addr' = [addr EXCEPT ![h] = a]
  /\ UNCHANGED <<deployer, seen, health, pc, sw, rc, found, todo, stop, ran, runs, dirty>>

\* A host asks for PXE boot.
RequestPxe ==
  /\ dump /\ \E h \in Hosts \ seen: seen' = seen \cup {h}
  /\ UNCHANGED <<deployer, addr, health, pc, sw, rc, found, todo, stop, ran, runs, dirty>>

Running == pc \notin {"idle", "ok", "stopped", "dead"}

Crash == Running /\ Die

Validate ==
  \/ Start \/ CheckSwitch \/ EndSwitches \/ CheckDataSwitches
  \/ \E t \in Nets: DisconnectContainer(t)
  \/ \E t \in Nets: MakeNameSpace(t)
  \/ KillServers \/ ReconnectContainer \/ DestroyNameSpace
  \/ StartIpmiDhcp \/ ScanIpmi \/ AskIpmi \/ Login \/ EndLogins
  \/ StartPxeDhcp \/ ScanPxe \/ AskPxe \/ CycleUnknown \/ End

Next == Validate \/ Lease \/ RequestPxe \/ Crash

Spec == Init /\ [][Next]_vars

-----------------------------------------------------------------------------
\* Properties.

\* No network has two DHCP servers: while ours runs on a network the container
\* is off it, whatever earlier runs that died had left
\* (NetNameSpace._disconnect_container, _teardown_ns).
OneServer == \A t \in Nets: dns[t] => ~veth[t]

Clean == \A t \in Nets: ~space[t] /\ ~dns[t] /\ ~dump /\ veth[t]

\* "POWER-Up dismantles the DHCP servers after validation"
\* (docs/Run-Cluster-Genesis.rst:139): a run that comes to its end, also one
\* in which validate_ipmi raised, leaves nothing of its own or of runs that
\* died before; one the operator stops leaves nothing of its own.
CleanEnd == pc = "ok" \/ (pc = "stopped" /\ ~dirty) => Clean

\* "POWER-Up will also verify that all nodes respond to IPMI commands"
\* (docs/Run-Cluster-Genesis.rst:119): validate_ipmi returns with access info
\* only if each node answered, addresses that change between scan and login and
\* hosts that do not answer notwithstanding.  That is all a count can say: it is
\* wrong when a stranger answers, or a node twice (at the address it had and at
\* one it took over, or to two templates).
AllNodesAnswered == ran /\ nodeList # {} /\ ~login.odd => login.who = Nodes

=============================================================================
