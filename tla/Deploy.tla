------------------------------- MODULE Deploy -------------------------------
(***************************************************************************)
(* "pup deploy" and the gathering of MAC addresses of "pup post-deploy":   *)
(* the inventory is created, Cobbler set up, images fetched, BMCs and PXE  *)
(* interfaces found by matching the MAC tables of the management switches  *)
(* with the DHCP leases, their addresses reserved, and Cobbler told of the *)
(* distribution and the nodes.  One command line runs all of it, or one    *)
(* stage; every stage is a process that reads the inventory once.          *)
(*                                                                         *)
(* Devices are plugged in, replaced and moved while this goes on, and a    *)
(* process may be killed between any two steps; killed while the inventory *)
(* is written it leaves the file empty.  The reservation is IpReserve's,   *)
(* here one step per node; a lease, once given, stays in the lease file.   *)
(***************************************************************************)
EXTENDS Naturals, Sequences, FiniteSets

CONSTANTS N,              \* node ports of the configuration
          Spares,         \* devices of each kind that are not plugged in
          Commands, Plugs, Kills,  \* bounds: commands, changes of cabling, kills
          None

ASSUME SizesAreNat == N \in Nat /\ Spares \in Nat

VARIABLES inv,    \* the inventory file
          mem,    \* the inventory of the running process
          next,   \* the same with the IP addresses of the poll under way
          at,     \* [stage, pc, all, node]: where the command is
          port,   \* the device plugged in at each port
          been,   \* the devices that ever were
          lease,  \* dnsmasq: leases
          resv,   \* dnsmasq template: dhcp-host lines of BMCs
          cob,    \* [setup, images, prof, saved, live]: Cobbler, image files
          hist,   \* [given, torn]: reserved pairs, a poll was cut in two
          left    \* [cmds, plugs, kills]
vars == <<inv, mem, next, at, port, been, lease, resv, cob, hist, left>>
network == <<port, been, lease, left>>
---------------------------------------------------------------------------
Nodes == 1..N
Kinds == {"ipmi", "pxe"}
Devices(k) == {k} \X (1..(N + Spares))
AllDevices == Devices("ipmi") \union Devices("pxe") \union Devices("data")
Blank == [mac |-> None, ip |-> None]
Fresh(S) == [n \in S |-> [ipmi |-> Blank, pxe |-> Blank, data |-> None]]
Empty == Fresh({})

(* What follows each stage when all of them are asked for, and the stages   *)
(* that can be asked for alone.                                            *)
Following == [create |-> "cobbler", cobbler |-> "images", images |-> "ipmi", ipmi |-> "pxe",
              pxe |-> "reserve", reserve |-> "distros", distros |-> "systems"]
Single == {"create", "ipmi", "pxe", "reserve", "systems", "gather"}

Idle == [stage |-> "none", pc |-> "none", all |-> FALSE, node |-> 1]
Begin(s, all) == [stage |-> s, pc |-> "begin", all |-> all, node |-> 1]
At(s, p) == at.stage = s /\ at.pc = p
Go(p) == at' = [at EXCEPT !.pc = p]
Exit == at' = Idle /\ mem' = Empty /\ next' = Empty
(* The next stage is a process of its own, which loads the inventory i. *)
NextStage(i) ==
    /\ next' = Empty
    /\ IF at.all /\ at.stage \in DOMAIN Following
       THEN at' = Begin(Following[at.stage], TRUE) /\ mem' = i
       ELSE at' = Idle /\ mem' = Empty

Init ==
    /\ inv = Empty /\ mem = Empty /\ next = Empty /\ at = Idle
    /\ port = [n \in Nodes |-> [k \in Kinds \union {"data"} |-> <<k, n>>]]
    /\ been = [n \in Nodes |-> [k \in Kinds \union {"data"} |-> {<<k, n>>}]]
    /\ lease = [d \in AllDevices |-> None] /\ resv = [d \in AllDevices |-> None]
    /\ cob = [setup |-> "no", images |-> "none", prof |-> "no",
              saved |-> [n \in Nodes |-> None], live |-> [n \in Nodes |-> None]]
    /\ hist = [given |-> {}, torn |-> FALSE]
    /\ left = [cmds |-> Commands, plugs |-> Plugs, kills |-> Kills]

Start(stage, all) ==
    /\ at = Idle /\ left.cmds > 0
    /\ at' = Begin(stage, all) /\ mem' = inv
    /\ left' = [left EXCEPT !.cmds = @ - 1]
    /\ UNCHANGED <<inv, next, port, been, lease, resv, cob, hist>>
---------------------------------------------------------------------------
(* The inventory is created from the node templates.  If a list of         *)
(* interface addresses is too short for a node, the nodes up to that one   *)
(* are written all the same, by the destructor, and the command ends.      *)
CreateNodes ==
    /\ At("create", "begin")
    /\ \/ mem' = Fresh(Nodes) /\ Go("write")
       \/ \E last \in Nodes : mem' = Fresh(1..last) /\ Go("write_part")
    /\ UNCHANGED <<inv, next, resv, cob, hist, network>>
UpdateNodes ==
    /\ at.pc \in {"write", "write_part"}
    /\ inv' = mem
    /\ IF at.pc = "write_part" THEN Exit ELSE NextStage(mem)
    /\ UNCHANGED <<resv, cob, hist, network>>

(* Cobbler answers its check: it counts as installed, whole or not.        *)
(* Otherwise it is installed (again), or the operator ends the command.    *)
CobblerInstall ==
    /\ At("cobbler", "begin")
    /\ \/ cob.setup # "no" /\ NextStage(inv) /\ UNCHANGED cob
       \/ cob.setup = "half" /\ Exit /\ UNCHANGED cob
       \/ /\ cob.setup # "yes"
          /\ cob' = [cob EXCEPT !.setup = "half"] /\ Go("configure") /\ UNCHANGED <<mem, next>>
    /\ UNCHANGED <<inv, resv, hist, network>>
CobblerConfigure ==
    /\ at.pc = "configure"
    /\ cob' = [cob EXCEPT !.setup = "yes"]
    /\ NextStage(inv)
    /\ UNCHANGED <<inv, resv, hist, network>>

(* A file that is there is not fetched again, whatever is in it. *)
DownloadOsImages ==
    /\ At("images", "begin")
    /\ \E got \in (IF cob.images = "none" THEN {"good", "bad"} ELSE {cob.images}) :
         /\ cob' = [cob EXCEPT !.images = got]
         /\ IF got = "good" THEN NextStage(inv) ELSE Exit
    /\ UNCHANGED <<inv, resv, hist, network>>
---------------------------------------------------------------------------
(* _inv_add_ports_ipmi and _pxe: skipped when no address is missing in a   *)
(* node that is in the inventory.                                          *)
AllKnown(k) == mem # Empty /\ \A n \in DOMAIN mem : None \notin {mem[n][k].mac, mem[n][k].ip}
InvAddPorts(k) ==
    /\ At(k, "begin")
    /\ IF AllKnown(k) THEN NextStage(inv) ELSE Go("poll") /\ UNCHANGED <<mem, next>>
    /\ UNCHANGED <<inv, resv, cob, hist, network>>

(* MAC tables less what has no lease: of the devices a switch lists at a   *)
(* port, those plugged in lately among them, one with a lease is kept.     *)
Leased(n, k) == {d \in been[n][k] : lease[d] # None}
Tables(k) == {t \in [Nodes -> AllDevices \union {None}] :
                /\ \A n \in Nodes : t[n] \in Leased(n, k) \union {None}
                /\ \A n, m \in Nodes : t[n] = t[m] => n = m \/ t[n] = None}

AddMacs(i, k, tab) ==
    [n \in DOMAIN i |-> IF tab[n] = None THEN i[n] ELSE [i[n] EXCEPT ![k].mac = tab[n]]]
AddIpaddrs(i, k) ==
    [n \in DOMAIN i |-> LET mac == i[n][k].mac IN
                        IF mac = None \/ lease[mac] = None THEN i[n]
                        ELSE [i[n] EXCEPT ![k].ip = lease[mac]]]
GetPortsAddressFirst(k) ==
    /\ At(k, "poll")
    /\ \E tab \in Tables(k) :
         /\ mem' = AddIpaddrs(mem, k)
         /\ next' = AddMacs(mem', k, tab)
    /\ Go("macs")
    /\ UNCHANGED <<inv, resv, cob, hist, network>>
GetPorts(k) ==
    /\ At(k, "poll")
    /\ \E tab \in Tables(k) :
         /\ mem' = AddMacs(mem, k, tab)
         /\ next' = AddIpaddrs(mem', k)
    /\ Go("macs")
    /\ UNCHANGED <<inv, resv, cob, hist, network>>
DumpMacs(k) ==
    /\ At(k, "macs")
    /\ inv' = mem /\ Go("ips")
    /\ UNCHANGED <<mem, next, resv, cob, hist, network>>
DumpIpaddrs(k) ==
    /\ At(k, "ips")
    /\ inv' = next /\ mem' = next /\ Go("count")
    /\ UNCHANGED <<next, resv, cob, hist, network>>

(* The ports of the configuration are counted, those not in the inventory  *)
(* as not found.  All found, or the operator goes on, tries again or ends. *)
PortsFound(k) == {n \in Nodes : n \in DOMAIN mem /\ None \notin {mem[n][k].mac, mem[n][k].ip}}
PortsOfInventory(k) == Cardinality(DOMAIN mem)
PortsTotal(k) == Cardinality(Nodes)
GetPortStatus(k) ==
    /\ At(k, "count")
    /\ IF Cardinality(PortsFound(k)) = PortsTotal(k)
       THEN Go("complete") /\ UNCHANGED <<mem, next>>
       ELSE \/ Go("poll") /\ UNCHANGED <<mem, next>>
            \/ NextStage(inv)
            \/ Exit
    /\ UNCHANGED <<inv, resv, cob, hist, network>>
Complete(k) ==
    /\ At(k, "complete")
    /\ NextStage(inv)
    /\ UNCHANGED <<inv, resv, cob, hist, network>>
---------------------------------------------------------------------------
(* The reservation (IpReserve): per node the line for the BMC is written,  *)
(* the PXE address saved; then BMCs are looked for at their new addresses. *)
(* A BMC without a MAC address ends it.                                    *)
Kept(n, k) == <<"kept", n, k>>
ReserveNode ==
    /\ At("reserve", "begin")
    /\ LET n == at.node IN
       IF n \notin DOMAIN mem
       THEN at' = [at EXCEPT !.pc = "confirm", !.node = 1] /\ UNCHANGED <<inv, mem, next, resv, hist>>
       ELSE IF mem[n].ipmi.mac = None THEN Exit /\ UNCHANGED <<inv, resv, hist>>
       ELSE /\ resv' = [resv EXCEPT ![mem[n].ipmi.mac] = Kept(n, "ipmi")]
            /\ mem' = [mem EXCEPT ![n].pxe.ip = Kept(n, "pxe")]
            /\ inv' = mem'
            /\ hist' = [hist EXCEPT !.given = @ \union
                          {<<mem[n].ipmi.mac, Kept(n, "ipmi")>>, <<mem[n].pxe.mac, Kept(n, "pxe")>>}]
            /\ at' = [at EXCEPT !.node = n + 1] /\ UNCHANGED next
    /\ UNCHANGED <<cob, network>>
Confirm ==
    /\ at.pc = "confirm"
    /\ LET n == at.node IN
       IF n \notin DOMAIN mem
       THEN NextStage(inv) /\ UNCHANGED inv
       ELSE \/ /\ lease[mem[n].ipmi.mac] = Kept(n, "ipmi") \/ mem[n].ipmi.ip = Kept(n, "ipmi")
               /\ mem' = [mem EXCEPT ![n].ipmi.ip = Kept(n, "ipmi")]
               /\ inv' = mem'
               /\ at' = [at EXCEPT !.node = n + 1] /\ UNCHANGED next
            \/ Exit /\ UNCHANGED inv
    /\ UNCHANGED <<resv, cob, hist, network>>

(* The distribution is saved, then the profile; without Cobbler the call   *)
(* fails.                                                                  *)
AddDistro ==
    /\ At("distros", "begin")
    /\ cob' = [cob EXCEPT !.prof = IF @ = "no" THEN "distro" ELSE @]
    /\ Go("profile")
    /\ UNCHANGED <<inv, mem, next, resv, hist, network>>
AddProfile ==
    /\ at.pc = "profile"
    /\ cob' = [cob EXCEPT !.prof = "yes"]
    /\ NextStage(inv)
    /\ UNCHANGED <<inv, resv, hist, network>>

(* A system per node of the inventory; an address that is None cannot be   *)
(* sent, and Cobbler refuses a system without a profile.  The systems are  *)
(* put to use at the end.                                                  *)
AnySent(n) == cob.prof = "yes"
Sendable(n) == None \notin {mem[n].ipmi.ip, mem[n].pxe.mac, mem[n].pxe.ip} /\ cob.prof = "yes"
AddSystem ==
    /\ At("systems", "begin")
    /\ LET n == at.node IN
       IF n \notin DOMAIN mem
       THEN Go("synced") /\ cob' = [cob EXCEPT !.live = cob.saved] /\ UNCHANGED <<mem, next>>
       ELSE IF ~Sendable(n) THEN Exit /\ UNCHANGED cob
       ELSE /\ cob' = [cob EXCEPT !.saved[n] = [bmc |-> mem[n].ipmi.ip, pxe |-> mem[n].pxe]]
            /\ at' = [at EXCEPT !.node = n + 1] /\ UNCHANGED <<mem, next>>
    /\ UNCHANGED <<inv, resv, hist, network>>
SystemsAdded ==
    /\ at.pc = "synced"
    /\ NextStage(inv)
    /\ UNCHANGED <<inv, resv, cob, hist, network>>

(* _gather_mac_addr: the tables of the data switches are cleared, the      *)
(* interfaces brought up, the MAC addresses that show saved, until none is *)
(* missing or the operator goes on or ends.  Two at a port end it.         *)
Gather ==
    /\ At("gather", "begin")
    /\ \/ /\ \E S \in SUBSET DOMAIN mem :
               mem' = [n \in DOMAIN mem |-> IF n \in S /\ port[n].data # None
                                            THEN [mem[n] EXCEPT !.data = port[n].data] ELSE mem[n]]
          /\ Go("gather_save") /\ UNCHANGED next
       \/ Exit
    /\ UNCHANGED <<inv, resv, cob, hist, network>>
GatherSave ==
    /\ at.pc = "gather_save"
    /\ inv' = mem
    /\ \/ Exit
       \/ (\E n \in DOMAIN mem : mem[n].data = None) /\ Go("begin") /\ UNCHANGED <<mem, next>>
    /\ UNCHANGED <<resv, cob, hist, network>>
---------------------------------------------------------------------------
(* A process is killed.  While it writes the inventory the file may be     *)
(* empty; between its two writes the poll is torn.                         *)
Writing == at.pc \in {"write", "write_part", "macs", "ips", "gather_save"}
Kill ==
    /\ at.pc # "none" /\ left.kills > 0
    /\ inv' \in {inv} \union (IF Writing THEN {Empty} ELSE {})
    /\ hist' = [hist EXCEPT !.torn = @ \/ (at.pc = "ips" /\ mem # next)]
    /\ left' = [left EXCEPT !.kills = @ - 1]
    /\ Exit
    /\ UNCHANGED <<port, been, lease, resv, cob>>

(* A port is unplugged, or gets a device that is plugged in nowhere. *)
Plug(n, k) ==
    /\ left.plugs > 0
    /\ \E d \in {None} \union {e \in Devices(k) : \A m \in Nodes : port[m][k] # e} :
         /\ d # port[n][k]
         /\ port' = [port EXCEPT ![n][k] = d]
         /\ been' = IF d = None THEN been ELSE [been EXCEPT ![n][k] = @ \union {d}]
    /\ left' = [left EXCEPT !.plugs = @ - 1]
    /\ UNCHANGED <<inv, mem, next, at, lease, resv, cob, hist>>

(* dnsmasq: an address kept for the device, or one of the pool. *)
KeptFor(d) ==
    IF resv[d] # None THEN resv[d]
    ELSE IF \E n \in Nodes : cob.live[n] # None /\ cob.live[n].pxe.mac = d
         THEN (CHOOSE s \in {cob.live[n] : n \in Nodes} : s # None /\ s.pxe.mac = d).pxe.ip
         ELSE <<"pool", d>>
Lease(n, k) ==
    /\ LET d == port[n][k] IN
       /\ d # None /\ cob.setup # "no"
       /\ lease[d] # KeptFor(d)
       /\ lease' = [lease EXCEPT ![d] = KeptFor(d)]
    /\ UNCHANGED <<inv, mem, next, at, port, been, resv, cob, hist, left>>

Next ==
    \/ Start("create", TRUE) \/ \E s \in Single : Start(s, FALSE)
    \/ CreateNodes \/ UpdateNodes \/ CobblerInstall \/ CobblerConfigure \/ DownloadOsImages
    \/ \E k \in Kinds : InvAddPorts(k) \/ GetPorts(k) \/ DumpMacs(k) \/ DumpIpaddrs(k)
                        \/ GetPortStatus(k) \/ Complete(k)
    \/ ReserveNode \/ Confirm \/ AddDistro \/ AddProfile \/ AddSystem \/ SystemsAdded
    \/ Gather \/ GatherSave \/ Kill
    \/ \E n \in Nodes, k \in Kinds \union {"data"} : Plug(n, k)
    \/ \E n \in Nodes, k \in Kinds : Lease(n, k)

Spec == Init /\ [][Next]_vars
---------------------------------------------------------------------------
(* At every moment discovery or a later stage goes on from an inventory, a *)
(* record that has both addresses has the MAC address of a device that was *)
(* at that port, and an IP address that device was given.  Excepted are    *)
(* inventories a process was killed in between the two writes of a poll.   *)
TruePair(n, k, r) ==
    /\ r.mac # None => r.mac \in been[n][k]
    /\ None \notin {r.mac, r.ip} => r.ip = <<"pool", r.mac>> \/ <<r.mac, r.ip>> \in hist.given
PairsTrue ==
    at.stage \in Kinds \union {"reserve", "systems"} /\ at.pc \in {"begin", "complete"} =>
      \/ hist.torn
      \/ \A n \in DOMAIN inv : \A k \in Kinds : TruePair(n, k, inv[n][k])

(* Discovery reports that it is complete: the file has a node for every    *)
(* port of the configuration, with both its addresses, whatever was left   *)
(* of the inventory by commands that failed or were killed.                *)
CompleteMeansAll ==
    \A k \in Kinds : At(k, "complete") =>
      \A n \in Nodes : n \in DOMAIN inv /\ None \notin {inv[n][k].mac, inv[n][k].ip}

(* "pup deploy" with all stages came to the end of its last before the OS  *)
(* installation: Cobbler serves a system for every node, with the          *)
(* addresses of the inventory, whose BMC dnsmasq keeps its address for.    *)
(* Excepted are inventories with a device in two records: one that was     *)
(* moved from a port to another during discovery counts as found at both.  *)
FoundTwice == \E n, m \in DOMAIN inv : n # m /\ \E k \in Kinds : inv[n][k].mac = inv[m][k].mac
DeployedTrue ==
    at.pc = "synced" /\ at.all /\ ~FoundTwice =>
      \A n \in Nodes :
        /\ n \in DOMAIN inv /\ cob.prof = "yes"
        /\ cob.live[n] = [bmc |-> inv[n].ipmi.ip, pxe |-> inv[n].pxe]
        /\ None \notin {inv[n].ipmi.ip, inv[n].pxe.mac, inv[n].pxe.ip}
        /\ resv[inv[n].ipmi.mac] = inv[n].ipmi.ip
=============================================================================
