---------------------------- MODULE DeployerNets ----------------------------
(***************************************************************************)
(* The networks of the deployer: the bridges, vlan links, addresses,       *)
(* interface files, firewall rules and docker networks that `pup setup`    *)
(* and `pup deploy` make and that `pup teardown deployer` removes.         *)
(* enable_deployer_networks.py, pupteardown_deployer_networks.py,          *)
(* enable_deployer_gateway.py, pupteardown_deployer_container.py and       *)
(* lib/container.py on a Red Hat deployer.                                 *)
(*                                                                         *)
(* An interface is a pair <<name, vlan>>: <<"eth0", 10>> is eth0.10,       *)
(* <<"mgmt", 0>> is br-mgmt, <<"mgmt", 5>> is br-mgmt-5.  What the kernel  *)
(* holds (live) and what the ifcfg files restore at boot (disk) have one   *)
(* shape: the interfaces, the <<interface, address>> pairs and the         *)
(* <<link, bridge>> pairs.                                                 *)
(***************************************************************************)
EXTENDS Naturals, Sequences

CONSTANTS Configs,      \* the configurations: sequences of networks
          Devices,      \* the physical devices, each with an ifcfg file
          Foreign,      \* a bridge that no configuration asks for
          Reboots,      \* bound on reboots
          Commands      \* bound on commands

Ops == {"enable", "gateway", "container", "remove", "ungate", "teardown"}

Types == {"mgmt", "pxe", "ipmi"}

Networks == [type: Types, dev: Devices, vlan: 0..4095, bridged: BOOLEAN, cont: BOOLEAN]

\* A client network has a bridge (lib/validate_config_schema.py:84).
ASSUME ConfigsAssumption ==
  /\ Configs \subseteq Seq(Networks)
  /\ \A c \in Configs: \A k \in DOMAIN c: c[k].type # "mgmt" => c[k].bridged
  /\ Reboots \in Nat /\ Commands \in Nat

\* No device or bridge of others is called as a bridge of ours.
ASSUME NamesAssumption ==
  /\ Devices \cap Types = {}
  /\ Foreign[1] \notin Devices \cup Types

VARIABLES nets,         \* the configuration in use
          firewall,     \* firewalld is active
          live, disk,   \* what the kernel holds, what the files restore
          plain,        \* networks whose address a device's file has as "IPADDR="
          rules,        \* how many FORWARD rules each bridge has
          nat,          \* networks with a MASQUERADE rule
          cont,         \* "none", "made" or "joined"
          dock,         \* networks docker has
          made,         \* bridges docker made itself
          cmd,          \* the command that runs: [op, i, step]
          left,         \* bounds: [reboots, commands]
          \* history
          whole,        \* an enable completed and no teardown began since
          gone,         \* a teardown completed and nothing began since
          settled       \* what the last enable left, while nothing changed it

netsVars == <<nets, firewall, live, disk, plain, rules, nat, cont, dock, made, cmd, left,
          whole, gone, settled>>

host == <<rules, nat, cont, dock, made>>

-----------------------------------------------------------------------------
\* Names and what is found by looking for one text in another.

\* vlan 4095 and no vlan both mean untagged
Tag(n) == IF n.vlan = 4095 THEN 0 ELSE n.vlan

Link(n) == <<n.dev, Tag(n)>>
Bridge(n) == <<n.type, Tag(n)>>

\* The bridge name the container asks docker for: 4095 is not left out.
DockerBridge(n) == <<n.type, n.vlan>>

\* The name of a is a part of the name of b: eth0 and eth0.1 of eth0.10.
Within(a, b) ==
  a[1] = b[1] /\ \E d \in {1, 10, 100, 1000, 10000}: b[2] \div d = a[2]

\* mutant: a link on its own bridge counts as in use elsewhere
AttachedAnywhere(link, br) == \E p \in live.port: Within(link, p[1])

\* brctl show has a line with the link that does not hold the bridge's name.
AttachedElsewhere(link, br) ==
  \E p \in live.port: Within(link, p[1]) /\ ~Within(br, p[2])

Numbers == 1..Len(nets)
Net == nets[cmd.i]
Bridges == {Bridge(nets[k]): k \in Numbers}

-----------------------------------------------------------------------------
\* Operations on a record of interfaces, addresses and ports.

AddIfc(s, i) == [s EXCEPT !.ifc = @ \cup {i}]
AddAddr(s, i, a) == [s EXCEPT !.addr = @ \cup {<<i, a>>}]
Attach(s, l, b) == [s EXCEPT !.port = {p \in @: p[1] # l} \cup {<<l, b>>}]

DelIfc(s, i) ==
  [ifc |-> s.ifc \ {i},
   addr |-> {p \in s.addr: p[1] # i},
   port |-> {p \in s.port: i \notin {p[1], p[2]}}]

-----------------------------------------------------------------------------
Idle == [op |-> "idle", i |-> 0, step |-> "none"]

Physical == {<<d, 0>>: d \in Devices}

\* An address is <<network, TRUE>> when the configuration gives it and
\* <<network, FALSE>> for another one of that subnet.
NetsInit ==
  /\ nets \in Configs
  /\ firewall \in BOOLEAN
  /\ \E odd \in SUBSET {<<<<nets[k].dev, 0>>, <<k, FALSE>>>>: k \in Numbers},
        old \in SUBSET {<<Link(nets[k]), Foreign>>:
                          k \in {j \in Numbers: nets[j].type = "pxe"}}:
       /\ live = [ifc |-> Physical \cup {Foreign} \cup {p[1]: p \in old},
                  addr |-> odd, port |-> old]
       /\ disk = [ifc |-> Physical, addr |-> odd, port |-> {}]
  /\ plain = {}
  /\ rules = [b \in Bridges |-> 0] /\ nat = {} /\ cont = "none" /\ dock = {} /\ made = {}
  /\ cmd = Idle
  /\ left = [reboots |-> Reboots, commands |-> Commands]
  /\ whole = FALSE /\ gone = FALSE /\ settled = {}

Step(s) == cmd' = [cmd EXCEPT !.step = s]

\* the next network, or the end of the command
Advance ==
  IF cmd.i < Len(nets) THEN cmd' = [cmd EXCEPT !.i = @ + 1, !.step = "begin"]
                       ELSE cmd' = Idle

\* what only the two steps on a device's file change, and what none does
fixed == <<nets, firewall, plain>>

StartCommand(op) ==
  /\ cmd = Idle /\ left.commands > 0
  /\ Len(nets) > 0
  /\ cmd' = [op |-> op, i |-> 1,
             step |-> CASE op = "container" -> "create"
                        [] op = "teardown" -> "docker"
                        [] OTHER -> "begin"]
  /\ left' = [left EXCEPT !.commands = @ - 1]
  /\ gone' = FALSE
  /\ whole' = (whole /\ op # "teardown")
  /\ settled' = IF op = "enable" THEN settled ELSE {}
  /\ UNCHANGED <<fixed, live, disk, host>>

At(op, step) == cmd.op = op /\ cmd.step = step

history == <<left, whole, gone, settled>>

-----------------------------------------------------------------------------
\* enable_deployer_network: _create_network for each network.

\* The address of a network without a bridge goes on the device itself.
AddAddress ==
  /\ At("enable", "begin") /\ ~Net.bridged
  /\ live' = AddAddr(live, <<Net.dev, 0>>, <<cmd.i, TRUE>>)
  /\ Step("file")
  /\ UNCHANGED <<fixed, disk, host, history>>

\* What a completed enable leaves, to compare with the next one.
Complete ==
  IF cmd.i < Len(nets)
    THEN UNCHANGED <<whole, settled>>
    ELSE whole' = TRUE /\ settled' = {<<live', rules', nat>>}

\* ... and in the device's file unless that has it: as "IPADDR=" when the
\* file has no address yet, as "IPADDR0=" and so on beside others.  Only the
\* plain form is recognised later, so a numbered one is written once more.
WriteIfcCfg ==
  /\ At("enable", "file")
  /\ disk' = AddAddr(disk, <<Net.dev, 0>>, <<cmd.i, TRUE>>)
  /\ plain' = IF \E p \in disk.addr: p[1] = <<Net.dev, 0>> THEN plain ELSE plain \cup {cmd.i}
  /\ UNCHANGED <<nets, firewall, live, host, left, gone>>
  /\ Advance /\ Complete

\* The addresses of the bridge's subnet leave the device, not its file.
ClearAddresses ==
  /\ At("enable", "begin") /\ Net.bridged
  /\ live' = [live EXCEPT !.addr =
                {p \in @: ~(p[1] = <<Net.dev, 0>> /\ p[2][1] = cmd.i)}]
  /\ Step("link")
  /\ UNCHANGED <<fixed, disk, host, history>>

\* An interface that is not up in ten seconds ends the command.
WaitForIfcUp(next) == Step(next) \/ cmd' = Idle

\* The vlan link is made unless it exists and set up.  A link in use elsewhere only warns.
MakeLink ==
  /\ At("enable", "link")
  /\ live' = AddIfc(live, Link(Net))
  /\ WaitForIfcUp("ask")
  /\ UNCHANGED <<fixed, disk, host, history>>

\* The operator may end the run when the bridge already exists.
AskBridge ==
  /\ At("enable", "ask")
  /\ \/ Step("linkfile")
     \/ Bridge(Net) \in live.ifc /\ cmd' = Idle
  /\ UNCHANGED <<fixed, live, disk, host, history>>

\* mutant: the file of the link does not name its bridge
WriteLinkFileBare ==
  /\ At("enable", "linkfile")
  /\ disk' = AddIfc(disk, Link(Net))
  /\ Step("bridgefile")
  /\ UNCHANGED <<fixed, live, host, history>>

\* _write_br_cfg_file, first the file of the link ...
WriteLinkFile ==
  /\ At("enable", "linkfile")
  /\ disk' = Attach(AddIfc(disk, Link(Net)), Link(Net), Bridge(Net))
  /\ Step("bridgefile")
  /\ UNCHANGED <<fixed, live, host, history>>

\* ... then that of the bridge.  A management network appends to a file that
\* exists: its last line has no newline, so the new address is glued to it
\* and the boot scripts do not see it.  A client network overwrites the file.
WriteBridgeFile ==
  /\ At("enable", "bridgefile")
  /\ LET b == Bridge(Net)
     IN disk' = IF Net.type = "mgmt" /\ b \in disk.ifc
                  THEN disk
                  ELSE [AddIfc(disk, b) EXCEPT
                          !.addr = {p \in @: p[1] # b} \cup {<<b, <<cmd.i, TRUE>>>>}]
  /\ Step("bridge")
  /\ UNCHANGED <<fixed, live, host, history>>

\* _setup_bridge: the bridge and its address ...
MakeBridge ==
  /\ At("enable", "bridge")
  /\ live' = AddAddr(AddIfc(live, Bridge(Net)), Bridge(Net), <<cmd.i, TRUE>>)
  /\ Step("attach")
  /\ UNCHANGED <<fixed, disk, host, history>>

\* ... and its link, taken from the bridge that had it.  Either wait may
\* time out.
AttachLink ==
  /\ At("enable", "attach")
  /\ live' = Attach(live, Link(Net), Bridge(Net))
  /\ WaitForIfcUp("firewall")
  /\ UNCHANGED <<fixed, disk, host, history>>

\* mutant: the rule is added again by every run
UpdateFirewallAgain ==
  /\ At("enable", "firewall")
  /\ rules' = IF firewall THEN [rules EXCEPT ![Bridge(Net)] = @ + 1] ELSE rules
  /\ UNCHANGED <<fixed, live, disk, nat, cont, dock, made, left, gone>>
  /\ Advance /\ Complete

\* The rule is added unless the text of the table holds the bridge's name.
UpdateFirewall ==
  /\ At("enable", "firewall")
  /\ rules' = IF firewall /\ ~\E b \in Bridges: rules[b] > 0 /\ Within(Bridge(Net), b)
                THEN [rules EXCEPT ![Bridge(Net)] = @ + 1] ELSE rules
  /\ UNCHANGED <<fixed, live, disk, nat, cont, dock, made, left, gone>>
  /\ Advance /\ Complete

-----------------------------------------------------------------------------
\* The gateway and the container.

\* enable_deployer_gateway, and with remove=True.  A rule is added once.
Gateway ==
  /\ At("gateway", "begin") \/ At("ungate", "begin")
  /\ nat' = IF Net.type # "pxe" THEN nat
            ELSE IF cmd.op = "gateway" THEN nat \cup {cmd.i} ELSE nat \ {cmd.i}
  /\ Advance
  /\ UNCHANGED <<fixed, live, disk, rules, cont, dock, made, history>>

\* Container.create up to the networks: the operator may stop when there is a
\* container; the image, the start, a copy or half a key pair may end it.
CreateContainer ==
  /\ At("container", "create") /\ cont # "joined"
  /\ \/ cont' = "made" /\ Step("begin")
     \/ cont' \in {cont, "made"} /\ cmd' = Idle
  /\ UNCHANGED <<fixed, live, disk, rules, nat, dock, made, history>>

AgainContainer ==
  /\ At("container", "create") /\ cont = "joined"
  /\ Step("begin") \/ cmd' = Idle
  /\ UNCHANGED <<fixed, live, disk, host, history>>

\* create_networks and connect_networks: a network of that name is used as it
\* is, else docker makes one, on the bridge of that name or on a new one.
CreateNetwork ==
  /\ At("container", "begin")
  /\ LET b == DockerBridge(Net)
         taken == \E k \in dock: DockerBridge(nets[k]) = b
     IN IF ~(Net.bridged /\ Net.cont) \/ taken
          THEN UNCHANGED <<live, dock, made>>
          ELSE /\ dock' = dock \cup {cmd.i}
               /\ IF b \in live.ifc
                    THEN UNCHANGED <<live, made>>
                    ELSE /\ live' = AddAddr(AddIfc(live, b), b, <<cmd.i, TRUE>>)
                         /\ made' = made \cup {b}
  /\ Advance
  /\ cont' = IF cmd.i = Len(nets) THEN "joined" ELSE cont
  /\ UNCHANGED <<fixed, disk, rules, nat, history>>

\* teardown_deployer_container: removed by force, its networks stay.
RemoveContainer ==
  /\ At("remove", "begin")
  /\ cont' = "none"
  /\ cmd' = Idle
  /\ UNCHANGED <<fixed, live, disk, rules, nat, dock, made, history>>

-----------------------------------------------------------------------------
\* teardown_deployer_network.

\* All docker networks go first; a bridge docker made goes with its network.
RemoveDockerNetworks ==
  /\ At("teardown", "docker")
  /\ live' = [ifc |-> live.ifc \ made,
              addr |-> {p \in live.addr: p[1] \notin made},
              port |-> {p \in live.port: p[2] \notin made}]
  /\ dock' = {} /\ made' = {}
  /\ Step("begin")
  /\ UNCHANGED <<fixed, disk, rules, nat, cont, history>>

Finish == gone' = (cmd.i = Len(nets)) /\ UNCHANGED <<left, whole, settled>>

\* The address of a network without a bridge leaves the device, and the file
\* if it is found there: in the plain form, in the first file listed that has
\* the device's name, which may be that of one of its vlan links.
DeleteAddress ==
  /\ At("teardown", "begin") /\ ~Net.bridged
  /\ LET dev == <<Net.dev, 0>>
         pair == <<dev, <<cmd.i, TRUE>>>>
     IN /\ live' = [live EXCEPT !.addr = @ \ {pair}]
        /\ \/ /\ cmd.i \in plain
              /\ disk' = [disk EXCEPT !.addr = @ \ {pair}] /\ plain' = plain \ {cmd.i}
           \/ /\ cmd.i \notin plain \/ \E l \in disk.ifc \ {dev}: l[1] = Net.dev
              /\ UNCHANGED <<disk, plain>>
  /\ Advance /\ Finish
  /\ UNCHANGED <<nets, firewall, host>>

\* The link goes unless it seems attached elsewhere.  The kernel refuses to
\* delete a physical device: the exception ends the command.
DeleteLink ==
  /\ At("teardown", "begin") /\ Net.bridged
  /\ LET busy == AttachedElsewhere(Link(Net), Bridge(Net))
     IN \/ busy /\ Step("bridge") /\ UNCHANGED live
        \/ ~busy /\ Tag(Net) = 0 /\ cmd' = Idle /\ UNCHANGED live
        \/ ~busy /\ Tag(Net) # 0 /\ Step("bridge") /\ live' = DelIfc(live, Link(Net))
  /\ UNCHANGED <<fixed, disk, host, history>>

DeleteBridge ==
  /\ At("teardown", "bridge")
  /\ live' = DelIfc(live, Bridge(Net))
  /\ Step("bridgefile")
  /\ UNCHANGED <<fixed, disk, host, history>>

DeleteBridgeFile ==
  /\ At("teardown", "bridgefile")
  /\ disk' = [disk EXCEPT !.ifc = @ \ {Bridge(Net)},
                          !.addr = {p \in @: p[1] # Bridge(Net)}]
  /\ Step("linkfile")
  /\ UNCHANGED <<fixed, live, host, history>>

\* Only a vlan link has a file of its own; ifcfg-dev keeps its BRIDGE line.
DeleteLinkFile ==
  /\ At("teardown", "linkfile")
  /\ disk' = IF Tag(Net) = 0 THEN disk ELSE DelIfc(disk, Link(Net))
  /\ Step("firewall")
  /\ UNCHANGED <<fixed, live, host, history>>

\* Every rule whose text holds the bridge's name goes.
DeleteRules ==
  /\ At("teardown", "firewall")
  /\ rules' = IF firewall
                THEN [b \in Bridges |-> IF Within(Bridge(Net), b) THEN 0 ELSE rules[b]]
                ELSE rules
  /\ Advance /\ Finish
  /\ UNCHANGED <<fixed, live, disk, nat, cont, dock, made>>

-----------------------------------------------------------------------------
\* The command is interrupted, or the deployer restarts.

Interrupt ==
  /\ cmd # Idle
  /\ cmd' = Idle
  /\ UNCHANGED <<fixed, live, disk, host, history>>

\* The boot scripts set up what the files say, docker its own bridges; the
\* iptables rules are not kept.
Reboot ==
  /\ left.reboots > 0
  /\ left' = [left EXCEPT !.reboots = @ - 1]
  /\ LET ours == {k \in dock: DockerBridge(nets[k]) \in made}
     IN live' = [ifc |-> disk.ifc \cup made \cup {Foreign},
                 addr |-> disk.addr \cup
                          {<<DockerBridge(nets[k]), <<k, TRUE>>>>: k \in ours},
                 port |-> {p \in disk.port: p[2] \in disk.ifc \cup made}]
  /\ rules' = [b \in Bridges |-> 0] /\ nat' = {} /\ settled' = {}
  /\ cmd' = Idle
  /\ UNCHANGED <<fixed, disk, cont, dock, made, whole, gone>>

Enable == \/ AddAddress \/ WriteIfcCfg \/ ClearAddresses \/ MakeLink
          \/ AskBridge \/ WriteLinkFile \/ WriteBridgeFile \/ MakeBridge
          \/ AttachLink \/ UpdateFirewall

Containers == Gateway \/ CreateContainer \/ AgainContainer \/ CreateNetwork \/ RemoveContainer

TeardownNet == \/ RemoveDockerNetworks \/ DeleteAddress \/ DeleteLink
               \/ DeleteBridge \/ DeleteBridgeFile \/ DeleteLinkFile \/ DeleteRules

NetsNext ==
  (\E op \in Ops: StartCommand(op)) \/ Enable \/ Containers \/ TeardownNet \/ Interrupt \/ Reboot

NetsSpec == NetsInit /\ [][NetsNext]_netsVars

-----------------------------------------------------------------------------
\* Properties.

\* No other network uses the link or the bridge.
Alone(i) ==
  \A j \in Numbers \ {i}:
    nets[j].bridged => Link(nets[j]) # Link(nets[i]) /\ Bridge(nets[j]) # Bridge(nets[i])

\* The network carries traffic: its address is where it belongs and a bridge
\* has its link.
Serves(i) ==
  LET n == nets[i]
  IN IF n.bridged
       THEN /\ {Link(n), Bridge(n)} \subseteq live.ifc
            /\ <<Bridge(n), <<i, TRUE>>>> \in live.addr
            /\ <<Link(n), Bridge(n)>> \in live.port
            /\ i \in dock /\ n.vlan # 4095 =>
                 <<Link(n), DockerBridge(n)>> \in live.port
       ELSE <<<<n.dev, 0>>, <<i, TRUE>>>> \in live.addr

\* From the end of an enable to the start of a teardown every network that
\* shares no link or bridge serves: over reboots, which see only the files,
\* and through later runs that fail, are stopped or are killed at any point.
NetworksUp == whole => \A i \in Numbers: Alone(i) => Serves(i)

\* No name of another network's link or bridge holds this one's.
Distinct(i) ==
  \A j \in Numbers \ {i}:
    nets[j].bridged => /\ ~Within(Link(nets[i]), Link(nets[j]))
                       /\ ~Within(Bridge(nets[i]), Bridge(nets[j]))

\* The file of the device has no address but that of this network, and no vlan
\* link of the device has a file.
Sole(i) ==
  /\ \A j \in Numbers \ {i}:
       nets[j].dev = nets[i].dev => nets[j].bridged /\ Tag(nets[j]) = 0
  /\ \A k \in Numbers: <<<<nets[i].dev, 0>>, <<k, FALSE>>>> \notin disk.addr

\* A teardown that ran to its end leaves nothing of the configuration, now or
\* after a reboot, whatever state earlier runs that failed had left: no
\* bridge, rule or docker network, no link of a tagged network unless
\* another bridge has it, and no address on a device.  The address is found in
\* the file only where it stands alone (Sole); beside another it stays there and
\* is back after a reboot.
TeardownClean ==
  gone => /\ dock = {}
          /\ \A i \in Numbers:
               LET n == nets[i]
               IN IF n.bridged
                    THEN /\ Bridge(n) \notin live.ifc \cup disk.ifc
                         /\ rules[Bridge(n)] = 0
                         /\ Tag(n) # 0 => Link(n) \notin disk.ifc
                         /\ Tag(n) # 0 /\ Distinct(i) =>
                              (Link(n) \in live.ifc => <<Link(n), Foreign>> \in live.port)
                    ELSE Sole(i) => \A s \in {live, disk}: <<<<n.dev, 0>>, <<i, TRUE>>>> \notin s.addr

\* "This function is idempotent": an enable run again on what an enable left
\* ends with the same interfaces, addresses, ports and rules.
RerunSame ==
  [][settled # {} /\ settled' # {} => settled' = settled]_netsVars
=============================================================================
