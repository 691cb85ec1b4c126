----------------------------- MODULE MgmtSwitch -----------------------------
(***************************************************************************)
(* configure_mgmt_switches, for one switch in active mode: make the vlans  *)
(* that are missing, put the ports that lead to the deployer and to other  *)
(* switches in trunk mode, put the BMC and PXE ports of the nodes in       *)
(* access mode in the vlan of their network, and take out of these vlans   *)
(* the ports that are not listed for them.                                 *)
(*                                                                         *)
(* All decisions use what show_ports returned at the start (ports_cfg).    *)
(* The in-band interfaces, configured between the vlans and the ports, are *)
(* those of SwitchIfc: they have no effect on ports and are left out.      *)
(***************************************************************************)
EXTENDS Integers

CONSTANTS
  NPorts,     \* number of ports of the switch
  Vlan,       \* vlan of the ipmi and of the pxe network
  MgmtVlans,  \* vlan of the management network, if it has one
  Client,     \* ports listed for ipmi and for pxe
  Deployer,   \* ports linked to the deployer
  Links,      \* ports linked to other switches
  Before,     \* settings each port may have before the first run
  MaxRuns     \* bound on the number of runs

Ports == 1 .. NPorts
Kinds == {"ipmi", "pxe"}
DefaultVlan == 1
Needed == MgmtVlans \cup {Vlan[k] : k \in Kinds}
LinkVlan == IF MgmtVlans = {} THEN DefaultVlan ELSE CHOOSE v \in MgmtVlans : TRUE
Settings == [mode : {"access", "trunk"}, pvid : Nat, allowed : SUBSET Nat]

ASSUME MgmtSwitchAssumption ==
  /\ NPorts \in Nat \ {0}
  /\ Vlan \in [Kinds -> Nat \ {0}] /\ Vlan["ipmi"] # Vlan["pxe"]
  /\ \A k \in Kinds : Vlan[k] # DefaultVlan /\ Vlan[k] \notin MgmtVlans
  /\ MgmtVlans \subseteq Nat \ {0}
  /\ \A v, w \in MgmtVlans : v = w
  /\ Client \in [Kinds -> SUBSET Ports] /\ Client["ipmi"] \cap Client["pxe"] = {}
  /\ Deployer \subseteq Ports /\ Links \subseteq Ports /\ Deployer \cap Links = {}
  /\ \A k \in Kinds : Client[k] \cap (Deployer \cup Links) = {}
  /\ Before \in [Ports -> SUBSET Settings]
  /\ MaxRuns \in Nat

VARIABLES
  pc,      \* where the script is
  port,    \* settings of each port of the switch
  vlans,   \* vlans of the switch
  shown,   \* ports_cfg
  make,    \* vlans still to be made
  kind,    \* if_type
  todo,    \* ports the current loop has not visited
  cur,     \* link port being configured, 0 if none
  cmd,     \* which command for that port comes next
  resp,    \* answer of the operator
  kept,    \* ports the operator kept in a vlan
  err,     \* an error was logged or raised in this run
  runs     \* number of runs

vars == <<pc, port, vlans, shown, make, kind, todo, cur, cmd, resp, kept, err, runs>>

Init ==
  /\ pc = "read"
  /\ port \in [Ports -> UNION {Before[p] : p \in Ports}]
  /\ \A p \in Ports : port[p] \in Before[p]
  /\ vlans = {DefaultVlan} \cup {port[p].pvid : p \in Ports}
  /\ shown = port
  /\ make = {} /\ kind = "ipmi" /\ todo = {} /\ cur = 0 /\ cmd = 0
  /\ resp = "y" /\ kept = {} /\ err = FALSE /\ runs = 1

-----------------------------------------------------------------------------
(* sw_vlans after the first i ports.  The code means to collect the native *)
(* vlan of a port and appends the number of the port.                      *)
SwVlans(ports) ==
  LET f[i \in 0 .. NPorts] ==
        IF i = 0 THEN {}
        ELSE f[i - 1] \cup ports[i].allowed
                      \cup IF ports[i].pvid \in f[i - 1] THEN {} ELSE {i}
  IN f[NPorts]

ReadPorts ==
  /\ pc = "read"
  /\ shown' = port
  /\ make' = Needed \ SwVlans(port)
  /\ pc' = "vlans"
  /\ UNCHANGED <<port, vlans, kind, todo, cur, cmd, resp, kept, err, runs>>

(* is_vlan_created looks for a line that begins with the number.           *)
Created(v) == \E w \in vlans' : \E k \in {1, 10, 100, 1000} : w \div k = v

CreateVlan(v) ==
  /\ pc = "vlans" /\ v \in make
  /\ vlans' \in {vlans, vlans \cup {v}}
  /\ make' = make \ {v}
  /\ IF Created(v) THEN UNCHANGED <<pc, err>> ELSE pc' = "died" /\ err' = TRUE
  /\ UNCHANGED <<port, shown, kind, todo, cur, cmd, resp, kept, runs>>

EndVlans ==
  /\ pc = "vlans" /\ make = {}
  /\ pc' = "links"
  /\ todo' = Deployer \cup Links
  /\ UNCHANGED <<port, vlans, shown, make, kind, cur, cmd, resp, kept, err, runs>>

-----------------------------------------------------------------------------
(* What the switch makes of a mode command; vlan 0 stands for none.        *)
Switched(setting, m, v) ==
  LET pvid == IF v = 0 THEN setting.pvid ELSE v
  IN [mode |-> m, pvid |-> pvid,
      allowed |-> IF m = "access" THEN {pvid} ELSE setting.allowed]

(* set_switchport_mode: the command, then a look at the port.  The switch  *)
(* may refuse, and either session may fail to get the lock.                *)
SetMode(p, m, v, raised) ==
  /\ port' \in {port, [port EXCEPT ![p] = Switched(port[p], m, v)]}
  /\ raised \/ (port'[p].mode = m /\ (v = 0 \/ port'[p].pvid = v))
  /\ err' = (err \/ raised)

(* allowed_vlans_port: vlans missing afterwards are only logged.           *)
AddVlans(p, vs, raised) ==
  /\ port' \in {port, [port EXCEPT ![p].allowed = port[p].allowed \cup vs]}
  /\ err' = (err \/ raised \/ ~(vs \subseteq port'[p].allowed))

AllowNone(p, raised) ==
  /\ port' \in {port, [port EXCEPT ![p].allowed = {}]}
  /\ err' = (err \/ raised)

(* Mutant of LinkSet: a link that is set up already is set up again.       *)
LinkSetNever(p) == FALSE

(* The next link; a link to a switch that is set up already is left alone. *)
LinkSet(p) ==
  p \in Links /\ shown[p].mode = "trunk" /\ LinkVlan \in shown[p].allowed

NextLink(p) ==
  /\ pc = "links" /\ cur = 0 /\ p \in todo
  /\ todo' = todo \ {p}
  /\ IF LinkSet(p) THEN UNCHANGED <<cur, cmd>> ELSE cur' = p /\ cmd' = 1
  /\ UNCHANGED <<pc, port, vlans, shown, make, kind, resp, kept, err, runs>>

LinkStep(last, raised) ==
  /\ IF last \/ raised THEN cur' = 0 /\ cmd' = 0 ELSE cur' = cur /\ cmd' = cmd + 1
  /\ UNCHANGED <<pc, vlans, shown, make, kind, todo, resp, kept, runs>>

(* Two commands for a port to the deployer, an exception of the first is   *)
(* caught before the second.                                               *)
TrunkDeployer ==
  /\ pc = "links" /\ cur \in Deployer /\ cmd = 1
  /\ IF shown[cur].mode = "trunk" THEN UNCHANGED <<port, err>>
     ELSE \E raised \in BOOLEAN : SetMode(cur, "trunk", 0, raised)
  /\ LinkStep(FALSE, FALSE)

AllowDeployer ==
  /\ pc = "links" /\ cur \in Deployer /\ cmd = 2
  /\ IF MgmtVlans # {} \/ ~({Vlan[k] : k \in Kinds} \subseteq shown[cur].allowed)
       THEN \E raised \in BOOLEAN : AddVlans(cur, Needed, raised)
       ELSE UNCHANGED <<port, err>>
  /\ LinkStep(TRUE, FALSE)

(* Mutant of SetLink: the vlan is allowed before all vlans are removed.    *)
SetLinkSwapped ==
  /\ pc = "links" /\ cur \in Links
  /\ \E raised \in BOOLEAN :
       /\ \/ cmd = 1 /\ SetMode(cur, "trunk", 0, raised)
          \/ cmd = 2 /\ AddVlans(cur, {LinkVlan}, raised)
          \/ cmd = 3 /\ AllowNone(cur, raised)
          \/ cmd = 4 /\ SetMode(cur, "trunk", LinkVlan, raised)
       /\ LinkStep(cmd = 4, raised)

(* Four commands for a port to another switch, all in one try.             *)
SetLink ==
  /\ pc = "links" /\ cur \in Links
  /\ \E raised \in BOOLEAN :
       /\ \/ cmd = 1 /\ SetMode(cur, "trunk", 0, raised)
          \/ cmd = 2 /\ AllowNone(cur, raised)
          \/ cmd = 3 /\ AddVlans(cur, {LinkVlan}, raised)
          \/ cmd = 4 /\ SetMode(cur, "trunk", LinkVlan, raised)
       /\ LinkStep(cmd = 4, raised)

EndLinks ==
  /\ pc = "links" /\ cur = 0 /\ todo = {}
  /\ pc' = "clients"
  /\ todo' = Client[kind]
  /\ UNCHANGED <<port, vlans, shown, make, kind, cur, cmd, resp, kept, err, runs>>

-----------------------------------------------------------------------------
(* A port listed for the network.                                          *)
SetClient(p) ==
  /\ pc = "clients" /\ p \in todo
  /\ todo' = todo \ {p}
  /\ IF shown[p].pvid = Vlan[kind] THEN UNCHANGED <<port, err>>
     ELSE \E raised \in BOOLEAN : SetMode(p, "access", Vlan[kind], raised)
  /\ UNCHANGED <<pc, vlans, shown, make, kind, cur, cmd, resp, kept, runs>>

(* Mutant of Unlisted: the list of the network is not consulted.           *)
UnlistedAll(k) == {p \in Ports : shown[p].pvid = Vlan[k]}

(* Ports to take out of the vlan: those that were in it at the start and   *)
(* are not listed for this network.                                        *)
Unlisted(k) == {p \in Ports \ Client[k] : shown[p].pvid = Vlan[k]}

EndClients ==
  /\ pc = "clients" /\ todo = {}
  /\ pc' = "remove"
  /\ todo' = Unlisted(kind)
  /\ resp' = "y"
  /\ UNCHANGED <<port, vlans, shown, make, kind, cur, cmd, kept, err, runs>>

(* Mutant of RemovePort: "yta" asks no more and removes nothing.           *)
RemoveYesOnly(p) ==
  /\ pc = "remove" /\ p \in todo /\ \A q \in todo : p <= q
  /\ todo' = todo \ {p}
  /\ resp' \in IF resp \in {"yta", "nta"} THEN {resp} ELSE {"y", "yta", "n", "nta"}
  /\ IF resp' = "y" THEN SetMode(p, "access", DefaultVlan, FALSE) ELSE UNCHANGED <<port, err>>
  /\ kept' = IF resp' \in {"n", "nta"} THEN kept \cup {p} ELSE kept
  /\ UNCHANGED <<pc, vlans, shown, make, kind, cur, cmd, runs>>

(* The ports come in the order in which the switch lists them.  The        *)
(* operator is asked for each, unless an earlier answer was for all.  An   *)
(* exception of this command is not caught.                                *)
RemovePort(p) ==
  /\ pc = "remove" /\ p \in todo /\ \A q \in todo : p <= q
  /\ todo' = todo \ {p}
  /\ resp' \in IF resp \in {"yta", "nta"} THEN {resp} ELSE {"y", "yta", "n", "nta"}
  /\ IF resp' \in {"y", "yta"}
       THEN \E raised \in BOOLEAN :
              /\ SetMode(p, "access", DefaultVlan, raised)
              /\ pc' = IF raised THEN "died" ELSE pc
              /\ UNCHANGED kept
       ELSE kept' = kept \cup {p} /\ UNCHANGED <<port, err, pc>>
  /\ UNCHANGED <<vlans, shown, make, kind, cur, cmd, runs>>

EndKind ==
  /\ pc = "remove" /\ todo = {}
  /\ IF kind = "ipmi"
       THEN kind' = "pxe" /\ pc' = "clients" /\ todo' = Client["pxe"]
       ELSE pc' = "done" /\ UNCHANGED <<kind, todo>>
  /\ UNCHANGED <<port, vlans, shown, make, cur, cmd, resp, kept, err, runs>>

(* An ssh connection that fails ends the script at any command.            *)
LoseSwitch ==
  /\ pc \in {"read", "vlans", "links", "clients", "remove"}
  /\ pc' = "died" /\ err' = TRUE
  /\ UNCHANGED <<port, vlans, shown, make, kind, todo, cur, cmd, resp, kept, runs>>

(* The operator runs the command again.                                    *)
Rerun ==
  /\ pc \in {"done", "died"} /\ runs < MaxRuns
  /\ pc' = "read" /\ runs' = runs + 1
  /\ make' = {} /\ kind' = "ipmi" /\ todo' = {} /\ cur' = 0 /\ cmd' = 0
  /\ resp' = "y" /\ kept' = {} /\ err' = FALSE
  /\ UNCHANGED <<port, vlans, shown>>

Script ==
  \/ ReadPorts \/ EndVlans \/ EndLinks \/ EndClients \/ EndKind
  \/ TrunkDeployer \/ AllowDeployer \/ SetLink
  \/ \E v \in Needed : CreateVlan(v)
  \/ \E p \in Ports : NextLink(p) \/ SetClient(p) \/ RemovePort(p)

Next == Script \/ LoseSwitch \/ Rerun

Spec == Init /\ [][Next]_vars

-----------------------------------------------------------------------------
(* What docs/Setup.rst asks of the ports, as conditions on settings.       *)
ClientSet(ports, p) == \A k \in Kinds : p \in Client[k] => ports[p].pvid = Vlan[k]

DeployerSet(ports, p) == ports[p].mode = "trunk" /\ Needed \subseteq ports[p].allowed

SwitchLinkSet(ports, p) == ports[p].mode = "trunk" /\ LinkVlan \in ports[p].allowed

Outsider(ports, p) == \E k \in Kinds : ports[p].pvid = Vlan[k] /\ p \notin Client[k]

AllSet(ports) ==
  /\ \A p \in Ports : ClientSet(ports, p) /\ ~Outsider(ports, p)
  /\ \A p \in Deployer : DeployerSet(ports, p)
  /\ \A p \in Links : SwitchLinkSet(ports, p)

Finished == pc = "done" /\ ~err

(* Every variable stays in its set; a link is being configured only in the *)
(* loop over the links and the loop variable of the kind of network is the *)
(* one of the loop the script is in.                                       *)
TypeOK ==
  /\ pc \in {"read", "vlans", "links", "clients", "remove", "done", "died"}
  /\ port \in [Ports -> Settings] /\ shown \in [Ports -> Settings]
  /\ vlans \subseteq Nat /\ make \subseteq Needed
  /\ kind \in Kinds /\ todo \subseteq Ports
  /\ cur \in {0} \cup Deployer \cup Links /\ cmd \in 0 .. 4
  /\ resp \in {"y", "yta", "n", "nta"} /\ kept \subseteq Ports
  /\ err \in BOOLEAN /\ runs \in 1 .. MaxRuns
  /\ cur # 0 => pc \in {"links", "died"} /\ cmd \in 1 .. 4
  /\ pc \in {"read", "vlans", "links"} => kind = "ipmi" /\ kept = {}
  /\ pc = "done" => kind = "pxe" /\ todo = {}

(* A run that reports no error leaves every BMC and PXE port of a node in  *)
(* the vlan of its network, although the removal of unlisted ports works   *)
(* from what the ports were at the start.  The one exception is a BMC port *)
(* that was in the vlan of the pxe network: it is listed, and taken out.   *)
ClientsReady ==
  Finished => \A p \in Ports :
    \/ ClientSet(port, p)
    \/ p \in Client["ipmi"] /\ shown[p].pvid = Vlan["pxe"]

(* A run that reports no error leaves no port outside a node network in    *)
(* its vlan, but for those the operator kept.  Both removals together must  *)
(* undo what the ports were before and what the run has made of them.      *)
Isolated == Finished => \A p \in Ports \ kept : ~Outsider(port, p)

(* A run that reports no error leaves the ports to the deployer and to     *)
(* other switches in trunk mode with the vlans they must carry, unless the *)
(* port was in the vlan of a node network and was taken out of it, as a    *)
(* port that is not listed for that network.                               *)
LinksReady ==
  Finished => \A p \in Deployer \cup Links :
    \/ p \in Deployer /\ DeployerSet(port, p)
    \/ p \in Links /\ SwitchLinkSet(port, p)
    \/ Outsider(shown, p) /\ p \notin kept

(* A run on a switch whose ports are all as required changes none of them, *)
(* whatever it asks or repeats: the command may be given again.            *)
QuietRerun ==
  [][pc # "read" /\ AllSet(shown) => port' = port]_vars
=============================================================================
