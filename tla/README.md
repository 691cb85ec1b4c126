# Cluster Genesis in TLA+

TLA+ models of Cluster Genesis (POWER-Up), the program that takes a rack of
machines from bare switches to installed clients and then installs software on
them. Most of what it does is done to something it does not own: BMCs that reset,
lose their address or stop answering, switches several processes configure,
the network of the host it runs on, DHCP servers, files an operator edits,
machines that boot. TLC checks the models on small instances, TLAPS proves the
most important results for every number of nodes, ports and processes. Paths are
relative to `src/`; `scripts/python/` is written `py/`.

## 1. The system

The deployer runs `pup` (`py/gen.py`). A cluster is deployed by a sequence of
commands, each a sequential program started by the operator, and each of which
may be started again after it succeeded, failed or was killed. They share files
(`config.yml`, the inventory, the dnsmasq template, lock files, saved variables)
and the equipment itself. `pup software` and `pup osinstall` are programs of their
own beside it, for machines that were not deployed this way.

| Part | State it keeps | Operations | Talks to |
| --- | --- | --- | --- |
| Commands and menus (`py/gen.py`, `py/pup.py`) | none | run the stages in order, skip, stop or go on after an exception | all the others |
| Deployer networks (`py/enable_deployer_networks.py`, `py/pupteardown_deployer_networks.py`), gateway | bridges, vlan links, addresses, interface files, firewall rules | set up, tear down, both repeatable | host |
| Containers (`lib/container.py`, `py/pupteardown_deployer_container.py`) | the container and its docker networks | create, delete | docker, the bridges |
| Management switches (`py/configure_mgmt_switches.py`) | vlans, mode and vlans of each port, in-band interfaces | make vlans, set links, set node ports, remove unlisted ports | `lib/switch_common.py` |
| Switch sessions (`lib/switch_common.py: send_cmd`) | one lock file per switch | open, lock with timeout, one ssh session, unlock | `lib/ssh.py`, other processes |
| Lenovo in-band interfaces (`lib/lenovo.py`) | interfaces by number | show, configure, remove | switch sessions |
| Data switches (`py/configure_data_switches.py`, `lib/switch_common.py`, `lib/mellanox.py`, `lib/cisco.py`) | vlans, MTU, port channels, MLAG | configure, deconfigure, both repeatable | switch sessions |
| Hardware validation (`py/validate_cluster_hardware.py`) | namespaces, DHCP servers, the container's link; lists of what was found | check switches, find BMCs and PXE interfaces, log in, put everything back | DHCP, BMCs, switches, container |
| Inventory (`lib/inventory.py`, `py/inv_create.py`, `lib/db.py`) | inventory file | create nodes, add MACs and addresses, set addresses, count what is missing | every command |
| Port discovery (`py/inv_add_ports.py`) | MACs and addresses in the inventory | read MAC tables and leases, correlate | switches, DHCP leases |
| Address reservation (`py/inv_reserve_ipmi_pxe_ips.py`) | next offsets, dnsmasq template, nodes to move | reserve, cobbler sync, cold reset, poll | inventory, Cobbler, BMCs |
| Cobbler set-up (`py/cobbler_*.py`, `py/download_os_images.py`) | Cobbler's distros, profiles, systems; images | install, add, save, sync | Cobbler |
| Power and boot source (`py/set_power_clients.py`, `py/set_bootdev_clients.py`) | clients left, open logins | log in, command, check, retry | BMCs (`lib/bmc.py`, `lib/open_bmc.py`, `lib/ipmi.py`) |
| OS installation (`py/install_client_os.py`) | nodes seen installing | power off, network boot, power on, poll status, boot source back | the two above, Cobbler |
| OS installation utility (`py/osinstall.py`) | three forms, `osinstall_node_status.yml`, services of the installer node | set up, scan and select, boot, poll reports, switch off | BMCs, dnsmasq, nginx, the nodes' reports |
| Software installation (`software/wmla120.py`, `software/wmla121.py`, `py/repos.py`) | content of the software server, `sw_vars` and its file | prepare, status, initialise clients, install | package sources, nginx, firewall, Ansible |
| Client inventory of it (`py/software_hosts.py`) | `software_hosts`, ssh keys, the cached password in `.vault` | edit, validate, repair | operator, Ansible |
| Configuration file, OS interface names, post-deploy playbooks, `software/paie11*.py` | files | sequential | section 7 |

What is hard in it, and hence what the models are for:

* **Addresses that move.** The permanent BMC addresses are handed out from the
  start of the dynamic pool, where the BMCs have their present ones. The new
  address of one node is as a rule the present one of another's BMC, all of
  which accept the same login.
* **Answers that cannot be had.** A BMC may refuse, ignore or delay a command,
  stop answering between two calls, and obey after its state was read.
* **Results that are not looked at.** `install_client_os` ignores what its three
  calls return, `osinstall` what its own return; the reservation ignores the
  power-off. Some switch methods check what they did, some stop, some do neither.
* **Decisions on old state.** `configure_mgmt_switches` decides everything on
  the port list it read first, including what to undo at the end; a Lenovo
  interface number is read in one session and used in another; MLAG counts as
  configured once the protocol is on; a software installation goes by variables
  saved earlier, not by the server.
* **Writes in more than one step.** The inventory and the software variables are
  files that are emptied and then filled; a poll writes MACs, then addresses; an
  interface is made live first and gets its file after.
* **Locks that cover less than the operation.** One command, not the sequence.
* **Reports without order.** The nodes of an `osinstall` tell of their progress
  through files that replace each other, with or without a name, among those of an
  earlier installation.
* **Reruns.** Every command may be given again on what the last one left, which
  may have been killed at any point.

What makes each part correct, in one line each: no address twice and none in the
pool, and for each node the address of its own BMC (reservation); success only
for clients that were seen in the wanted state, and none commanded again after
(power, boot source); network boot kept until a node installs (installation),
and taken back when all have finished, not before (osinstall);
sessions never mixed, and numbers and interfaces those the caller meant
(sessions, interfaces); node ports in the vlan of their network and nobody else
in it (management switches); MAC and address of a node those of the devices on
its ports, and Cobbler's systems those of the inventory (discovery, Cobbler);
every node answered and nothing left behind (validation); what was saved is what
the server holds, and nothing is installed from a server that lacks content
(software); the machine that installs is not rebooted by its own installation
(software installation); teardown leaves no trace and set-up twice is
set-up once (deployer networks, data switches). `PROJECT.json` lists each
hazard with its line and the properties that guard it.

## 2. The modules

| Module | Models | Extends |
| --- | --- | --- |
| `DeployerNets` | deployer networks, gateway, container and their teardown; reboots | |
| `SwitchCmd` | the lock in `send_cmd` | |
| `SwitchIfc` | in-band interfaces of a Lenovo switch, every command of a call composed with a session of `SwitchCmd` | `SwitchCmd` |
| `SwitchTable` | what `SwitchIfc` promises: a table changed by whole commands | |
| `SwitchIfcProofs` | theorems about the three, and about `DataSwitch` | `SwitchIfc`, `DataSwitch` |
| `MgmtSwitch` | ports and vlans of one management switch in `configure_mgmt_switches`, with the port commands of `lib/switch_common.py` | |
| `MgmtSwitchProofs` | its theorems | `MgmtSwitch` |
| `DataSwitch` | vlans, MTU, port channels and MLAG of the data switches, configured and deconfigured | |
| `HardwareValidation` | `py/validate_cluster_hardware.py`; hosts on the two networks as environment | |
| `DeployerProofs` | theorems about it and about `DeployerNets` | `DeployerNets`, `HardwareValidation` |
| `Deploy` | the stages of `pup deploy` before the OS installation, and gathering MACs: inventory, Cobbler, discovery, reservation by node | |
| `DeployProofs` | its theorems | `Deploy` |
| `IpReserve` | `py/inv_reserve_ipmi_pxe_ips.py`, the address setters of the inventory, dnsmasq and BMCs as environment | |
| `IpReserveProofs` | its theorems | `IpReserve` |
| `BmcClients` | the loop of `set_power_clients` and `set_bootdev_clients`, BMCs as environment | |
| `InstallOs` | `py/install_client_os.py`, composed with the calls of `BmcClients`; nodes that boot, Cobbler's status | `BmcClients` |
| `Osinstall` | `py/osinstall.py`: forms, services, reports; machines that boot and report | |
| `InstallOsProofs` | theorems about the three | `InstallOs`, `Osinstall` |
| `SoftwarePrep` | preparation and status of `wmla120` and `wmla121`: server content and saved variables | |
| `SoftwarePrepProofs` | its theorems | `SoftwarePrep` |
| `SoftwareInstall` | initialisation of the clients and installation of the same, with `py/software_hosts.py` | |
| `SoftwareInstallProofs` | its theorems | `SoftwareInstall` |
| `MCIpReserve`, `MCSwitchIfc`, `MCMgmtSwitch`, `MCDataSwitch`, `MCDeployerNets`, `MCHardwareValidation` | values of the constants for TLC | |

A definition whose comment says "a bug", "mutant" or "Mutant of", and one that
precedes a definition of similar name and no action uses (`FreshAny` before
`Fresh`), is not part of a model. It is what the definition after it would be after a
plausible mistake in the code; with it in place, TLC must find a property violated,
which shows that the property says something about the code.

Three modules stand for a part of another, smaller than it is there. `Deploy` reserves
the addresses of a node in one step, `Osinstall` and `HardwareValidation` call BMCs
in one step that works for some of them: how the addresses are handed out and
how a call goes is the subject of `IpReserve` and `BmcClients`.
`SoftwareInstall` does not look at the content of the server, which is the
subject of `SoftwarePrep`.

### DeployerNets

What the kernel holds (`live`) and what the interface files restore (`disk`) are two
records of one shape; the number of rules the firewall has for each bridge, masquerading, the container and
docker's networks are beside them. `cmd` is the command, the network and the step
it is at; each step is one call that changes the host, in the code's order, which is
live first and file after. `Interrupt` stops a command at any step, `Reboot` replaces
`live` by what `disk` restores. Names are pairs of a device or bridge and a vlan,
and `Within` says when the text of one is part of another's, because the code looks
for names in the output of `brctl` and `iptables` that way. An address is right or another
one of the subnet. `plain` are the networks whose address is in the file of their device
as `IPADDR=`, the only form the code recognises; beside another address it is
written as `IPADDR0=` and so on. A file of a device is taken to be known by the
device's name (`NAME=`), and no device's name to be the beginning of another's.

### SwitchCmd and SwitchIfc

`Open` is the test for the lock file, `Mknod` its creation, `Acquire` and `WaitOver`
the five tries, `Release` the end of the session. A command of `SwitchIfc` is
one action inside a session; the creation of an interface has two lines the
switch carries out one by one (`SetAddress`, `SetVlan`). `Look` is what the
loop over the rows in `show_interfaces` computes, the available number included.

### MgmtSwitch

`shown` is `ports_cfg`, the port list read at line 120 on which everything after
is decided, `port` what the switch has. A command may be refused, may have
succeeded and still end in an exception (its check is a session of its own), and
the script goes on, as the code does, with the error logged; only `create_vlan`
and the removal (line 236) are outside a `try`, and a failed ssh connection ends
the script anywhere. `SwVlans` keeps the code's addition of port numbers where
native vlans are meant. `SetClient`, `EndClients` and `RemovePort` run for
ipmi, then for pxe.

### DataSwitch

The first half computes from a configuration what the code computes before it
talks to a switch: the vlans of a port (`VlansOn`), its MTU, the groups of ports of
a bond, the MLAG pairs. The loops of `configure_data_switch` and
`deconfigure_data_switch` are the stages (`ConfigureStages`, `DeconfigureStages`), what a loop
goes through its `Tasks`, and what its body sends for one of them the plan (`Plans`):
a set of commands, each with its place `n`. The second half sends them. `Take` is the next
turn of a loop, in any order where the loop is over a dictionary. `Ask` is the one question
whose answer leaves commands out (is MLAG configured), `Takes` says when a
switch accepts a command in the state it is in, `Checks` what the method looks at
afterwards, `CheckJoined` the look at a whole group of ports, `Fatal` which methods stop the run,
and `Break` stands for the exceptions of code that cannot work (section 5). Refusals and kills
are bounded. `torn` remembers where a kill or refusal hit the MLAG commands (`Midway`, `Cut`).
The configuration is assumed to put a port into one port channel at most and to name switches it describes.

### HardwareValidation

`pc` follows `gen.py`'s `_cluster_hardware` and `validate_ipmi`, `validate_pxe`:
the switches, then for each network the container off the bridge
(`DisconnectContainer`), a namespace (`MakeNameSpace`), the DHCP server, scans and
questions until the operator or the count ends them, logins, and the teardown in
three steps. Addresses come from one pool, and `Lease` lets any host take any free one,
its first or another, so that what answers at a login need not be what was scanned. Who
holds an address and has the account of a template is logged in to, whether it is a
node or not, and `login` has the number of logins, which is all the code looks
at, beside who they were of, which only the property does. `Crash` ends the process
at any point, and namespaces, servers and the container's link stay as they are.

### Deploy

`at` is the stage and step of the command, `mem` the inventory of its process, `inv`
the file; every stage is a process of its own. A discovery poll takes one snapshot of
MAC tables and leases and writes it twice (`DumpMacs`, `DumpIpaddrs`); both are dumps of
the whole file, and a kill during a dump leaves it empty. `GetPortStatus` counts the
way the code does, over the inventory and over the configuration. `cob` holds
Cobbler's systems as added (`saved`) and as served since the last sync (`live`). `Plug`
moves and replaces devices, `Lease` is dnsmasq: the address kept for a MAC or one of the
pool. `hist.given` are the pairs a reservation gave, `hist.torn` whether a poll
was killed between its two dumps.

### IpReserve

`ReserveIpmi` and `ReservePxe` are the two halves of one round of the loop at
lines 107-142: the line of the template, the pool start (`_adjust_dhcp_pool`),
the inventory, `cobbler sync`. `tmpl` is the file, `dhcp` what dnsmasq has
loaded of it, and they differ exactly between the write and the sync. Each half
may find the network full in two places, before and after its write, and the
second leaves the write behind. `ColdReset`, `EndPause`, `Probe`, `NextPass`
and `Timeout` are lines 144-230. `Rerun` starts the command over from what is
on disk. Addresses are offsets in their network. A BMC keeps its
present address until the reset (`BeginReset`), comes up again with what dnsmasq
offers (`Dhcp`, `Offer`): its reservation if no other client has it on lease, else
something from the pool. Passwords matter only through `Cred`: an address is
answered by whoever has it and accepts the login.

### BmcClients and InstallOs

One call is `Begin`, then attempts of `Login`, `Command`, `Check` per client, and
`Return` or an exception. `asked = {}` stands for both `None` and `[]`, which
`_get_cred_list` does not tell apart; that is where an empty list comes to mean
all nodes (`Targets`). A command is done at once, accepted and done later
(`late`, `TakesEffect`), refused, or unanswered. A BMC may stop or begin to
answer between any two steps (`Flap`). Only the boot source functions of openbmc
let a lost connection through (`Raises`).

`InstallOs` makes the calls in the code's order, and every step of a call is
a step of it. `allOk` is not in the code: it remembers whether the calls
verified all nodes, so that a property can be stated for that case. A node that
has been off boots once it is on, from the network if the boot source is still
so and Cobbler serves it; the boot source holds for one boot. `Strangers` are
systems of Cobbler that are not in the inventory.

### Osinstall

`at` is the form shown and where it is; `Goto` is npyscreen's change of form. OK on
MAIN runs six functions in turn: `Ends` says which of them may give a warning, an
error or end the program, `SvcAfter` what is on the installer node then, namely the
directory of the reports and services that boot a machine into the installer.
OK on NODE takes a selection of the BMCs scans have found (`Listed`; any may have answered one), writes the files
(`WriteFiles`) and goes through `initiate_pxeboot`. A poll of STATUS lists the
reports (`StartPoll`), reads them one by one in any order (`ReadReport`) while
machines replace them, and counts (`EndPoll`). Setting a boot source may end the program, as
the exception of an openbmc does. `nodes` is `osinstall_node_status.yml`: the
selection, a record for each of them, and records of machines that were not
selected or could not be recognised. `Timed` and `TimedOther` are how a start
and a finish change a record; times are counted in reports. `hist` is no part
of the program: it counts the installations that were really begun and completed.

### SoftwarePrep

An item of content is the set of its parts on the server (`mem.srv`); `mem.rec`
and `mem.chan` are `sw_vars`, `file` what `software-vars.yml` holds of it. A step of the
preparation is the set of its outcomes (`ContentStep`, `YumStep`, `CondaStep`,
`PypiStep`, ...): what server and variables become, and whether the step saves,
returns without saving, or dies of an exception. They contain every source that
fails, every prompt answered with "none" and every part that is left out.
`Step` takes one; `Truncate` and `Dump` are the two opens of `write_sw_vars_to_file`;
`Interrupt` is the keyboard interrupt `gen.py` catches; `Kill` ends the process
anywhere, also between the two opens. Both modules are in it, with their
differences (`Create121`, `Create120`, ...), in the order of their `create` functions.
`CheckReady` is the test at the start of an installation. The order of the channels, which
`prep_post` arranges, is left out: no check looks at it.

### SoftwareInstall

`mem` and `disk` are the variables an installation goes by; `inv` what matters of the
inventory the operator edits: whether it has the machine `pup` runs on, by which
name, and which values of `pup_reboot` its line has: `one` and `two` in reach of the
expression that removes the last of them, `far` one it does not reach (`Effective` is the one
Ansible takes). The steps
are those of `init_clients` and `install`: validation of the inventory with its
repairs and its questions, ssh keys and host keys, the cached sudo password and the file
`.vault` it is handed over in, then the tasks, one `RunTask` and `AnsibleTasks` each with its
retries. `Pause121` and `Pause120` are the two forms of stopping for a reboot of the
installer. `OtherEnds` is another `pup` command whose end removes `.vault`. `hist`
remembers what was begun, agreed and paused, for the properties.

## 3. The runs

All are expected to hold, and do.

| Run | Instance | Shows |
| --- | --- | --- |
| `ip_two_nets` | 3 nodes, 2 networks with two spare addresses, one login, punctual BMCs, 2 runs of the command | `DoneRecordsAll`, `RecordsOwnBmc`; `EveryBmcFound` under fairness |
| `ip_one_net` | 2 nodes, one network for both kinds, a login per BMC, BMCs that fail and renew leases at any time, 2 runs | `ReservationsDisjoint`, `PoolExcludesAssigned` |
| `os_install` | 2 nodes with BMCs of both types, 1 stranger in Cobbler, 2 attempts, 2 polls | `SuccessIsVerified`, `VerifiedLeftAlone`, `KnownResetsOnly`, `CompleteMeansAll`; `VerifiedInstalls`, `ScriptEnds` under fairness |
| `sw_ifc` | 2 processes, each configures an interface and removes one, the same one | `CommandsWhole`, `CreatesOnUnused`, `RemovesNamed`; `JobsEnd` under fairness |
| `mg_ports` | 4 ports (BMC, PXE, deployer, switch), each in its place or in the vlan of a wrong node network, 2 runs of the command | `ClientsReady`, `Isolated`, `LinksReady`, `QuietRerun` |
| `data_switch` | 3 configurations (a Cisco; a Mellanox; that one with another vlan in an MLAG pair), 3 runs with edits of the configuration between, 1 refusal, 1 kill | `NothingSilent`, `MlagWhole`, `DeconfigureClean` |
| `dep_nets` | 6 configurations (the usual one, names within names and a shared link, untagged networks, vlan 4095, two addresses on one device, an address on a device with vlan links), 2 devices, 3 commands, 1 reboot | `NetworksUp`, `TeardownClean`, `RerunSame` |
| `hw_val` | 2 nodes of two templates, 1 stranger with the account of one, 1 switch, 3 addresses, 2 runs | `OneServer`, `CleanEnd`, `AllNodesAnswered` |
| `deploy` | 2 nodes, 2 commands, 2 changes of cabling, 1 kill | `PairsTrue`, `CompleteMeansAll`, `DeployedTrue` |
| `osinstall` | 2 machines, 2 installations, 2 reports, 1 restart by hand | `LocalBootWhenDone`; `InstallationEnds` under fairness |
| `sw_prep` | both modules, any 2 of 11 items missing at first, 3 commands, 1 kill | `SavedTrue`, `CompleteMeansReady`, `ReadyIsServed` |
| `sw_install` | both modules, 2 processor families, 3 commands, 1 kill, 1 other command | `InstallerSafe`, `InstallFitsInit`, `PauseRemembered`; `RetryEnds` under fairness |

**The bounds, and why they are enough.**

*Addresses.* Three BMCs are the fewest with a cycle of addresses that is not a swap, and let
one be at another's new address while a third has moved; the initial leases are
every assignment, so every permutation occurs. Two spare addresses make room for
BMCs displaced from a cycle. Networks that run full are left to the proof, which
covers every size. Two runs show what a run finds that another has left; a third
begins in states like those of the second.

*BMCs and polls.* Two BMCs show one that is done and
one that is retried. One poll more than needed or one less does not depend on
the number, so two polls suffice; the code has 60.

*Switches.* Five waits for the lock are the
code's own number. Five interface numbers leave a gap of two, one for each process, and an
interface after it. Between the look and the creation, or the removal, of one process
the other may do either.
On a management switch, ports influence each other only through the order of
the loops; one port of each kind, with each of the two vlans it should not be in
or its proper setting, gives every case of the code's conditions. The vlan
numbers are chosen so that one is the number of a port (line 125) and one a
prefix of another (`is_vlan_created`). An operator's answer is free at every
question. On data switches the configurations differ in exactly what the plans branch on: class
of the switch, a bond inside a switch or across a pair, a changed vlan between two
runs, an MTU. Three runs are configure, deconfigure and configure again, or
two configurations and the removal of the second; one kill or refusal falls at each command of each.
An edit keeps some of the switches (`Start`): those it replaces are other switches, of which nothing is asked.

*Deployer networks.* Three commands are set-up, a broken set-up or teardown, and the command
that has to cope with what is left. One reboot separates `live` from `disk`; a
second finds them equal. The second configuration has `eth0.1` inside `eth0.10`
and one link for two networks.

*Validation.* A run that died and the next one; a third finds what the second does. With three
addresses for three hosts all may have one, or one is free for a host that changes its own, and
then for another to take the one it left. The stranger makes the count of
answers, and that of logins, match without a node. The addresses are symmetric: nothing orders them.

*Deploy.* Two nodes can exchange devices; two changes of cabling do. Two
commands are one that is killed and one that takes over. With no spare devices, a
device that is plugged in comes from another port or is plugged back.

*osinstall.* Two reports are the start and the finish of one machine; so the
installation that ends is one of a single node, the second machine being a
stranger who may report too, or one of an earlier installation with reports left over. With two
nodes selected the reports do not suffice, which makes `LocalBootWhenDone` the
statement that they are not taken for sufficient; for any number of reports it is proved. Two installations and a
restart of the program leave reports of the first for the second. The run has 1.3 million
states; a third report multiplies them by ten.

*Software.* Any two items are in any state at first and the rest are there: a step touches its
own item, the conda channels, which are three, and the final check, which takes the
conjunction of all. Three commands are a preparation, another that repairs or damages,
and a status or installation. In `sw_install` three commands are an
initialisation, another one of it or an installation that pauses, and a later
installation.

Deadlock is checked in `osinstall`, a program that never comes to rest; elsewhere
it is not: the commands end, and their environment may fall silent.

**Fairness and why the code has it.** The commands are sequential programs that
always take their next step: weak fairness of the program's steps, and no
fairness for failures (`Flap`, `Disconnected`, `StrangerInstalls`, `Kill`).
In `IpReserve` a BMC that was told to reset does so (weak), and a BMC asks
for a lease again and again: `Dhcp` is strongly fair, because the offer may be
withdrawn and renewed while other BMCs move. In `InstallOs` a node that is on
boots; this is needed for `VerifiedInstalls` and has no part in `ScriptEnds`, which
holds for nodes that never boot. In `SoftwareInstall` the process, with the operator who answers
it, goes on (`Process`); kills and other commands need not happen. In `Osinstall`
only the poll is fair (`StatusPoll`): npyscreen calls it whenever the form was left
alone for a second; neither the operator nor the machines have to do anything.

## 4. The proofs

All theorems hold for every value of the constants under the assumptions in the
module headers, which say no more than what the configuration schema or the code
guarantee (a network has room for its first address, interface numbers are
positive, ...).

* `IpReserveProofs`. `TypeCorrect` needs the loop index to be a node
  while the loop runs (`TypeInv`). `AddressesDisjoint` and `PoolNeverOverlaps`
  rest on `AddrInv`, which gives the addresses in closed form: node *n* has
  `IpmiAddr(n)` and `PxeAddr(n)`, next offset and pool starts are those of the
  node being served. Disjointness follows since the forms are injective and
  interleave on a shared network. `DoneIsRecorded` adds `RecordInv`: every node
  is still on `nodes_list` or recorded. `PunctualRecordsOwn` says that only a node's own BMC
  is ever recorded, for any logins, if each BMC that does not obey within the pause, or
  renews its lease during the loop (`Flaky`, `Early`), has a login no other has; with one login for
  a whole rack that means none such. `LeaseInv` is the reason: a punctual BMC that answers
  is at its reservation, past all reservations, or still where it was with its
  reset ahead of it, and polling starts when no BMC is of the third kind.
* `InstallOsProofs`. `SuccessVerified` and `VerifiedNotRepeated`, of the calls of `BmcClients`, rest on `LoopInv`,
  which relates the lists of the loop at each point: who is meant is left or
  seen, who was seen is not left outside of the checks, and in them only
  as a member of `clients_set`. `ResetsOnlyInstalling` and `CompleteIsAll` add `PollInv`: what
  the polling loop passes on is installing. The second compares cardinalities:
  a set of nodes as large as the set of all nodes is the set of all nodes.
  `LocalBootWhenAllDone`, of `Osinstall`, counts: the machines that count as finished, or would after some
  polls (`Completed`: a start before a finish, recorded or not read yet), are never more than the
  installations `hist` has seen started and completed (`CountInv`). A poll moves times from the reports to the
  records and adds none (`ReadReportKeeps`); a start is later than every finish there is; a finish adds its machine,
  and only if its start was in this installation, since otherwise no start of it counts
  (`StartedInv`). Nobody counts twice because no selected node has a record by address (`NamedInv`).
* `SwitchIfcProofs`. `SessionsExclusive` from `LockInv` (who is in a session is the
  only holder). `InterfacesWhole` from `HalfInv`: an interface nobody asked for
  belongs to the one process that is between its two lines, which is in a session.
  `CommandsImplementTable` proves that `SwitchIfc` implements `SwitchTable`, whose
  table changes by whole commands. The refinement mapping (`Whole`) reads a number that is
  between its writer's two lines as what the writer asked for already:
  the first line then is the abstract command and the second a stutter, and
  an interrupted session is one that was carried out. `NobodyWrites`, `OneWrites` and
  `QuietStutters` say which steps change the mapped table and which do not, on top of
  `LockInv` and `HalfInv`; `CommittedStep` has a case for each action.
  `CreatesWhereFree` and `RemovesWhatWasNamed` are about the number that is found in one session and
  used in a later one, for any processes and jobs. Nothing keeps another process from using it
  in between, so the theorems say what can be lost by it: an interface that another process is
  told to configure itself, and none that was there before. `StepKinds`
  puts every action under one of seven effects on numbers, and `NumberInv` says that from the look on
  the number is unused or taken by another process (`Taken`), and the number of an interface to
  be removed holds that interface, nothing, or one taken likewise.

* `SwitchIfcProofs`, on `DataSwitch`. `NothingIsSilent`, `MlagStaysWhole` and `DeconfigureLeavesNothing`, for any
  configurations, switches, runs, kills and refusals. `Planned` says of the commands that are left what each is
  about and in what order they come: an answer precedes what it decides, all steps of MLAG precede
  the enabling, a port that leaves a channel is looked at after. With it, each promise has
  an invariant of the same form, for each port, group and pair of the configuration: it is kept, or named
  in the log, or its task is still to come, or a command of the plan will see to it (`VlanInv`, `ChanInv`,
  `PairInv` for a configuration, `GoneInv` for a removal that nothing was refused to). `VlanInv` must hold
  on through the stages of MLAG and channels, where a port may leave a channel whose settings it hid: then the look
  at its group is ahead. `GoneInv` holds because no later stage makes anything again, and needs the order of the
  stages: while its port is in a channel a trunk port cannot be taken back, so channels go first. `MlagInv` counts
  what is left of a set-up or removal: as long as nothing was cut off or refused, the steps on the switch and
  those in the plan make up all nine.
* `MgmtSwitchProofs`. `NodePortsReady`, `NetworksIsolated`, `TrunksReady` and
  `RerunIsQuiet`, for any number of ports. The script decides on what the ports were
  (`shown`), so the invariant (`RunInv`) relates for each port what it was, what it is,
  and which of the five loops has been past it (`SetPast`, `RemovePast`, `LinkPast`). Its core is
  `VlanInv`: a port is in a node vlan only if it was or is listed, and one that was
  and is listed stays. So the removal, which goes by `shown`, reaches every port it must
  reach, and no port is reached by both removals (`OneVlan`). A run that died says nothing, and the
  next begins with a fresh look.
* `DeployProofs`. `PairsAreTrue`, `CompleteIsAllPorts` and `DeployServesAll`, for any nodes, devices, addresses,
  commands and kills. `WhereInv` says what the process and the file hold at each stage and step of a command.
  `TrueInv` relates every MAC and address of the inventory, of the snapshot of a poll and of Cobbler to
  the leases and to the pairs that were given, and says where the two dumps of a poll may differ: only after a
  kill between them (`hist.torn`). `DoneInv` says what the end of a stage promises the next one, from
  the full inventory over the reservation to Cobbler's sync.
* `DeployerProofs`, on `DeployerNets`. `NetworksStayUp`, `TeardownLeavesNothing` and `EnableIsIdempotent`, for any
  configurations, devices, commands and reboots. Neither a network that is up nor one that was removed
  says so by itself: `EnableInv` says what the enable that runs has made for the networks it is past, on the host
  (`LiveDone`) and in the files (`DiskDone`), and for the present one by its step; `RemovedInv` says the same of
  a teardown. A bridge belongs to a network that shares no name with another (`Alone`): no step for another
  network takes its ports or addresses (`EnableGrows`), so `UpInv` goes on, on the host and in the files,
  and a reboot restores what it needs. `GlueInv` is why the glued line of a management bridge does no harm there: a file that
  exists has the address already. A link that is spared as in use elsewhere is on another bridge because
  every port is of a configured link and either its bridge or one that was there before (`PortInv`).
  An address that stands alone in its file is there in the form teardown finds (`PlainInv`).
  Idempotence holds also for networks that share links, although a second enable moves these for a
  while: `SettledInv` compares with the ports of links outside, and `PortsSet` says on which bridge each
  link ends, whatever the order of the steps.
* `DeployerProofs`, on `HardwareValidation`. `OneDhcpServer`, `NothingLeft` and `EveryNodeAnswered`.
  Namespaces, servers and links of dead runs may be found in any state; the
  invariant bounds it by how far the run since has come: before a network is set up it
  is as it was found, a server of ours runs only with the container's link down,
  and in the teardown only networks waiting for it may be unclean (`TidyInv`). For the
  logins, as long as no stranger and no host twice was counted the number of logins is that
  of the nodes that answered (`AnswerInv`), and as many nodes as there are are all nodes.
* `SoftwareInstallProofs`. `InstallerNotRebooted`, `InstallsWhatWasInitialised` and `PauseKept`, for
  any architectures, families, commands and kills. `SafeInv` follows the inventory: every way to the
  tasks leads through `SetPupReboot`, after which nothing edits it. `FitInv` relates the records on
  disk and in the process to what was begun and done: they may be missing, never
  wrong. `PauseInv` says that a pause is on disk, or known to the process that has told
  the operator of it and has yet to save it, or was lost by a kill. Of the types only the fields of the records are needed (`Shape`).
* `SoftwarePrepProofs`. `SaidIsTrue`, `CompleteCanBeInstalled` and `InstalledIsServed`, for any number
  of items, commands and kills. What a command says at its end is said of variables it
  has read from the server itself: `Invariant` says that they agree (`Agree`) from the rescan to
  the save and the check, that the file holds them by then, and that a command that is
  interrupted, killed or dies says nothing. `CompleteIsReady` compares the two checks:
  what the summary finds on the server is, where they agree, what `_install_ready` looks for in the records.

Type correctness is part of each invariant where the proofs need it; for `IpReserve` it is a theorem of its own.

**Only model-checked**: everything that is to happen eventually (`EveryBmcFound`,
`VerifiedInstalls`, `ScriptEnds`, `JobsEnd`, `RetryEnds`, `InstallationEnds`), which
TLAPS does not reach. Every other property of the runs is stated by a theorem, `RecordsOwnBmc` under
the assumption on BMCs it needs.

## 5. Behaviour read off the models

What the models showed about the code, most of it as a counterexample to a property that
had to be weakened. The exceptions in the properties are these cases.

*Addresses and BMCs*

* With one login for all BMCs, a cold reset that fails (it is only logged) leaves
  a BMC at an address that is another node's new one, and polling records it for that
  node. `Flaky` empty in `ip_two_nets`, and the assumption of `PunctualRecordsOwn`,
  are what excludes this.
* A network that runs out after the PXE address was written leaves that address in
  the inventory and in the pool dnsmasq has loaded. The command has failed by then.
* The messages after the wait for the BMCs (`py/inv_reserve_ipmi_pxe_ips.py:224`) print
  variables of another loop and name the node polled last, not the silent ones.
* An address that is no node's counts in `client_cnt == installing_cnt`: polling may end
  before all nodes install.
* A list of addresses none of which the inventory knows becomes an empty list, which means
  all nodes (`py/set_bootdev_clients.py:61`); the comment at line 71 speaks of a
  subset. `KnownResetsOnly` is what remains true.

*Switches*

* Two processes that both find no lock file both call `os.mknod`; the second ends
  with `FileExistsError`.
* "The next available unconfigured interface" (`lib/lenovo.py:229`) is
  chosen in one session and used in another: two processes that configure may choose the same, and
  the second overwrites the interface of the first. Without a gap in the numbers the available
  interface is 0, which the switch refuses.
  Two processes that remove the same interface may, when one configures between
  them, remove the new one: the second goes by the number it read. `CreatesOnUnused` and
  `RemovesNamed` except the interfaces other processes are configuring, and nothing else.
* `sw_vlans` gets the number of a port where its native vlan is meant: a vlan
  with the number of a port is not created. `is_vlan_created` looks for a line that
  begins with the number: vlan 2 passes for created when vlan 20 exists.
* A deployer or switch port that was in the vlan of a node network is set up as
  trunk and then, as an unlisted port of that vlan, set to access vlan 1. The
  exception in `LinksReady` is this case; a second run repairs it, which is how
  `QuietRerun` is reached from such a switch.
* A port listed for ipmi that was in the pxe vlan is put in the ipmi vlan
  and then removed to vlan 1 as a port "not listed in the config file"
  (`py/configure_mgmt_switches.py:221`). `ClientsReady` holds but for this.
* The port channels of a Mellanox MLAG pair are never set up: with the first one
  created, `py/configure_data_switches.py:436` ends the run with a TypeError. `docs/Intro.rst` (95, 103) speaks of MLAG as supported. A Mellanox switch with an MTU
  ends with an AttributeError, and `LAG_PORT_CHANNEL` (`lib/switch_common.py:578`)
  is defined nowhere. "allowed none" sends no command.
* Of the ports of a group that are not in their channel, `add_ports_to_port_channel_ifc` names the first and
  looks no further (`lib/switch_common.py:537`), so with two refusals one port is named for the other.
  `NothingSilent` asks for a port of the group; the proof showed why it must.
* A run that is killed while it sets up MLAG leaves the protocol on, and the next run takes
  the rest for done. `MlagWhole` excepts this.
* `MgmtSwitchAssumption` takes the ipmi and the pxe network for different vlans, and at most one
  management vlan, which the configuration schema does not ask for. With one vlan
  for both the removal for either network takes out the ports of the other.
* `lib/cisco.py` has no `is_mlag_configured`: the vPC methods of Cisco switches are out
  of reach of the command.

*Discovery, validation, deployer networks*

* A process killed between the two dumps of a poll leaves a new MAC with the
  address of the old one in a record, and a later poll does not look at complete records.
* A device that is moved during discovery counts as found at both ports, and Cobbler gets
  one system with the addresses of the other. The `dhcp-host` line of a device that was
  replaced stays.
* The result of checking several switches is that of the last (`rc` is set anew for each,
  `py/validate_cluster_hardware.py:1039`); if the first cannot be talked to, that is
  caught, and `vlans` (line 1077) is then used unbound.
* "POWER-Up will also verify that all nodes respond to IPMI commands"
  (`docs/Run-Cluster-Genesis.rst:119`): the code counts logins
  (`py/validate_cluster_hardware.py:310`), not nodes. A BMC of another rack with an account of ours counts, a
  node counts again at an address it moved to, and for a second template with
  the same account; so the number can match without a node. `AllNodesAnswered` excepts these.
* An address that is written beside another one in the file of a device
  gets the name `IPADDR0` (`py/enable_deployer_networks.py:288`), and neither enable nor
  teardown looks for that: enable writes it once more each time, teardown leaves
  it (`py/pupteardown_deployer_networks.py:243`) and it is back after a reboot. Teardown also stops at the first
  file that names the device, such as `ifcfg-eth0.10` for `eth0`, and removes every line
  with the netmask it looks for. `TeardownClean` is stated of an address that stands alone (`Sole`).
* A management bridge's file that exists is appended to without a newline, so that the new
  address is not read at boot; files of links are written without
  newlines in one branch (`py/enable_deployer_networks.py:343-348`).
* Bridges and links are found by their names as parts of lines
  (`py/enable_deployer_networks.py:246`, `py/pupteardown_deployer_networks.py:336`): a rule for
  `br-mgmt-10` passes for one of `br-mgmt-1`, and `eth0.1` counts as in use
  because of `eth0.10`.

*Software installation*

* `_install_ready` does not look at the pypi repository; an installation is let through
  without it.
* `_set_pup_reboot` is to set `pup_reboot=False` for the installer (`py/software_hosts.py:488`); it removes
  the last value its expression reaches (line 510) and puts the new one right behind the
  name. A second value, or one with a `.` or `#` between the name and it
  (`ansible_host=10.1.1.1 pup_reboot=True`), stays behind the new one and is what Ansible
  takes: the installer may be rebooted. `InstallerSafe` excepts such lines (`OutOfReach`).
* A pause of a self-installation is announced before it is saved: a kill in between, or one that tears
  the file in this or a later save, loses it, and the next installation starts over.
  `PauseRemembered` excepts such kills (`hist.cut`) and nothing else. That an installation was marked as
  completed is saved no earlier: if the full one that follows ends early, its second part is offered again.
* The objects of `software/paie111.py` and `software/paie112.py` cannot be made:
  `gen.py` passes seven arguments to constructors of two.

*osinstall*

* Whoever finishes counts: the finishes of machines that were not selected make up the total
  (`total_nodes_finished`), and network installation is switched off before the
  selected nodes are done.
* A machine whose first start came without its name is counted twice, as a
  stranger and, once a report names it, as selected. `LocalBootWhenDone` therefore speaks of
  installations whose reports all name their machine.
* A stranger's finish that is read before its start is not counted, because the start takes it back.
* The failure of nginx is returned as nothing and lost. That of the firewall raises a
  TypeError (a list is added to a string). An error message is added to a list as a
  string, which splits it into characters, so that "Error" is not found in it.
* After one good OK on MAIN the next form stays NODE, so that a later error moves on.
* Having answered "no" once, STATUS cannot be left by Cancel any more. Leaving it by OK does not
  ask about network installation that is still on: that code comes after a
  `continue`. After a restart of the program the form says it is off.
* Without the directory of the reports, STATUS ends the program with `FileNotFoundError`. An openbmc that
  drops the connection while its boot source is set (`lib/open_bmc.py:174`) ends it too, and
  network installation stays switched on.

## 6. Where code and documentation disagree

The sentences at `py/set_bootdev_clients.py:71`, `lib/lenovo.py:229`,
`py/configure_mgmt_switches.py:221` and `docs/Intro.rst:95` are quoted in section 5
beside what the code does. No run is devoted to them: each is a case that one of the
properties excepts or whose instance leaves it out, with the reason in its comment.

## 7. What is not modelled

* **Configuration file and its validation** (`lib/config.py`, `lib/validate_config_*.py`): accessors
  and checks of one file that is read and never written. Where an accessor decides
  something (the ports of a bond, the vlans of a port) it is part of the
  definition that uses it.
* **`software/paie111.py`, `software/paie112.py`**: cannot be started (section 5).
* **OS interface configuration and post-deploy playbooks**: text that a playbook writes once;
  their outcome is Ansible's.
* **Passive switch mode**: commands go to a file, MAC tables come from one. No state of
  the switch is read back.
* **vPC of Cisco switches**: not reachable (section 5). vLAG and port channels of Lenovo
  switches, and ports of management switches in a channel group, whose settings
  the code does not verify.
* **Ubuntu branches of the deployer networks**: the same steps on files of another
  form. `py/enable_deployer_ifc.py`, an older form of the set-up.
* **The text of forms**: validation of single fields, layout and the profile file of
  `osinstall`, tables printed by the validation, text menus.
* **Addresses that move during an `osinstall`**: a machine keeps its PXE address, by which its
  reports are named. A lease lasts longer than most installations, and dnsmasq gives the
  same address to the same MAC while it has room.
* **Edits of Apache, tftp and kickstart files** for Cobbler: text no later step reads back.
* **Choices among sources of the same content** in the preparation of software are their outcomes.
  Where `wmla120` and `wmla121` share a definition it is mapped to one of the two files.
* The dictionary form of the client argument and the boot source `setup`, the choice
  among several addresses of a switch, argument parsing, logging.

## 8. Plan

1. `AddressBook`, an abstract specification of the reservation (each node obtains
   one fixed address, recorded once its BMC has it), with `IpReserve` as its
   refinement, proved stepwise from `AddrInv` and `RecordInv`; then `Deploy` on top of
   it instead of its own step per node. Likewise `Command`, a call as one
   atomic step that works for some clients, refined by `BmcClients` and used by
   `Osinstall`.
2. Addresses that move in `Osinstall`.

Bounds as now: two or three nodes, two or three runs of a command, one fault of each kind.
