-------------------------- MODULE MgmtSwitchProofs --------------------------
(***************************************************************************)
(* Theorems about MgmtSwitch, for any number of ports, any listing of them *)
(* and any settings found on the switch.  The invariant relates, for each  *)
(* port, what it was (shown), what it is (port) and which of the loops has *)
(* been past it.  A run that died or has not read the ports says nothing.  *)
(***************************************************************************)
EXTENDS MgmtSwitch, TLAPS

TypeInv ==
  /\ pc \in {"read", "vlans", "links", "clients", "remove", "done", "died"}
  /\ port \in [Ports -> Settings] /\ shown \in [Ports -> Settings]
  /\ kind \in Kinds /\ err \in BOOLEAN
  /\ cur \in {0} \cup Deployer \cup Links /\ cmd \in 0 .. 4
  /\ pc \in {"read", "vlans", "links"} => kind = "ipmi"
  /\ pc = "done" => kind = "pxe"
  /\ pc = "read" => cur = 0 /\ kept = {}

\* Which ports the loops have been past, in a run that is not dead.
SetPast(k, p) ==
  \/ k = "ipmi" /\ kind = "pxe"
  \/ k = kind /\ (pc \in {"remove", "done"} \/ (pc = "clients" /\ p \notin todo))
RemovePast(k, p) ==
  \/ k = "ipmi" /\ kind = "pxe"
  \/ k = kind /\ (pc = "done" \/ (pc = "remove" /\ p \notin todo))
LinkPast(p) == pc \notin {"read", "vlans"} /\ (pc = "links" => p \notin todo /\ cur # p)
LinkAhead(p) == pc = "vlans" \/ (pc = "links" /\ (p \in todo \/ (cur = p /\ cmd = 1)))

LoopInv ==
  /\ pc = "links" => /\ todo \subseteq Deployer \cup Links
                     /\ cur \notin todo
                     /\ cur # 0 => cmd \in 1 .. 4
                     /\ cur \in Deployer => cmd \in 1 .. 2
  /\ pc # "links" => cur = 0
  /\ pc = "clients" => todo \subseteq Client[kind]
  /\ pc = "remove" => todo \subseteq Unlisted(kind)

\* A port that is in the vlan of a network was so, or is listed for it; one
\* that was and is listed stays.
VlanInv ==
  \A p \in Ports, k \in Kinds :
    IF p \in Client[k] THEN shown[p].pvid = Vlan[k] => port[p].pvid = Vlan[k]
                       ELSE port[p].pvid = Vlan[k] => shown[p].pvid = Vlan[k]

SetInv ==
  \A k \in Kinds : \A p \in Client[k] : SetPast(k, p) =>
    err \/ port[p].pvid = Vlan[k] \/ (k = "ipmi" /\ shown[p].pvid = Vlan["pxe"])

RemoveInv ==
  \A k \in Kinds : \A p \in Unlisted(k) : RemovePast(k, p) =>
    err \/ p \in kept \/ port[p].pvid # Vlan[k]

KeptInv == \A p \in kept : \E k \in Kinds : p \in Unlisted(k) /\ RemovePast(k, p)

\* A port a loop over the links has been past is ready, or was taken out of
\* the vlan of a node network since.
Taken(p) == p \notin kept /\ \E k \in Kinds : p \in Unlisted(k) /\ RemovePast(k, p)
Ready(p) == \/ p \in Deployer /\ DeployerSet(port, p)
            \/ p \in Links /\ SwitchLinkSet(port, p)
            \/ Taken(p)
AtDeployer ==
  cmd = 2 => /\ port[cur].allowed = shown[cur].allowed
             /\ err \/ port[cur].mode = "trunk"
AtLink ==
  /\ ~LinkSet(cur)
  /\ cmd > 1 => err \/ port[cur].mode = "trunk"
  /\ cmd = 4 => err \/ LinkVlan \in port[cur].allowed
LinkInv ==
  /\ \A p \in Deployer \cup Links : /\ LinkAhead(p) => port[p] = shown[p]
                                    /\ LinkPast(p) => err \/ Ready(p)
  /\ pc = "links" /\ cur \in Deployer => AtDeployer
  /\ pc = "links" /\ cur \in Links => AtLink

\* What is as required stays so.
QuietInv == AllSet(shown) => port = shown

RunInv == LoopInv /\ VlanInv /\ SetInv /\ RemoveInv /\ KeptInv /\ LinkInv /\ QuietInv
Invariant == TypeInv /\ (pc \notin {"read", "died"} => RunInv)
-----------------------------------------------------------------------------
\* The assumption, as the proofs use it.
LEMMA Distinct ==
  /\ Vlan["ipmi"] \in Nat /\ Vlan["pxe"] \in Nat /\ Vlan["ipmi"] # Vlan["pxe"]
  /\ \A k \in Kinds : Vlan[k] \in Nat /\ Vlan[k] # 0 /\ Vlan[k] # 1
  /\ LinkVlan \in Nat /\ LinkVlan # 0 /\ \A k \in Kinds : LinkVlan # Vlan[k]
  /\ Needed \subseteq Nat /\ LinkVlan \in Needed \cup {1}
<1>1. \A k \in Kinds : Vlan[k] \in Nat /\ Vlan[k] # 0 /\ Vlan[k] # 1 /\ Vlan[k] \notin MgmtVlans
  BY MgmtSwitchAssumption DEF DefaultVlan
<1>2. MgmtVlans \subseteq Nat \ {0}
  BY MgmtSwitchAssumption
<1>3. LinkVlan \in MgmtVlans \cup {1}
  BY DEF LinkVlan, DefaultVlan
<1>4. Vlan["ipmi"] # Vlan["pxe"]
  BY MgmtSwitchAssumption
<1>5. \A v \in Needed : v \in MgmtVlans \/ \E k \in Kinds : v = Vlan[k]
  BY DEF Needed
<1>6. MgmtVlans \subseteq Needed
  BY DEF Needed
<1> QED
  BY <1>1, <1>2, <1>3, <1>4, <1>5, <1>6 DEF Kinds

LEMMA Listed ==
  /\ \A k \in Kinds : Client[k] \subseteq Ports
  /\ \A k, l \in Kinds : k # l => Client[k] \cap Client[l] = {}
  /\ \A k \in Kinds : Client[k] \cap (Deployer \cup Links) = {}
  /\ Deployer \subseteq Ports /\ Links \subseteq Ports /\ Deployer \cap Links = {}
  /\ 0 \notin Ports
BY MgmtSwitchAssumption DEF Kinds, Ports

\* What a command may do to a port.
LEMMA Setting ==
  ASSUME port \in [Ports -> Settings], NEW p \in Ports
  PROVE  port[p].mode \in {"access", "trunk"} /\ port[p].pvid \in Nat /\ port[p].allowed \subseteq Nat
BY DEF Settings

LEMMA ModeSet ==
  ASSUME port \in [Ports -> Settings], NEW p \in Ports, NEW m \in {"access", "trunk"},
         NEW v \in Nat, NEW raised \in BOOLEAN, SetMode(p, m, v, raised), err \in BOOLEAN
  PROVE  /\ port' \in [Ports -> Settings] /\ \A q \in Ports \ {p} : port'[q] = port[q]
         /\ port'[p].pvid \in {port[p].pvid, v}
         /\ v = 0 => port'[p].pvid = port[p].pvid
         /\ m = "trunk" => port'[p].allowed = port[p].allowed
         /\ raised \/ (port'[p].mode = m /\ (v = 0 \/ port'[p].pvid = v))
         /\ port'[p].mode \in {port[p].mode, m}
         /\ err' = (err \/ raised)
<1>1. Switched(port[p], m, v) \in Settings
  BY Setting DEF Switched, Settings
<1>2. CASE port' = port
  BY <1>2 DEF SetMode
<1>3. CASE port' = [port EXCEPT ![p] = Switched(port[p], m, v)]
  <2>1. port' \in [Ports -> Settings] /\ port'[p] = Switched(port[p], m, v)
        /\ \A q \in Ports \ {p} : port'[q] = port[q]
    BY <1>1, <1>3
  <2> QED
    BY <2>1 DEF SetMode, Switched
<1> QED
  BY <1>2, <1>3 DEF SetMode

LEMMA VlansAdded ==
  ASSUME port \in [Ports -> Settings], NEW p \in Ports, NEW vs \in SUBSET Nat,
         NEW raised \in BOOLEAN, AddVlans(p, vs, raised), err \in BOOLEAN
  PROVE  /\ port' \in [Ports -> Settings] /\ \A q \in Ports \ {p} : port'[q] = port[q]
         /\ port'[p].mode = port[p].mode /\ port'[p].pvid = port[p].pvid
         /\ vs \subseteq port[p].allowed => port'[p].allowed = port[p].allowed /\ port' = port
         /\ err' \/ vs \subseteq port'[p].allowed
         /\ err' \in BOOLEAN /\ (err => err')
<1> DEFINE new == [port[p] EXCEPT !.allowed = port[p].allowed \cup vs]
<1>1. new \in Settings /\ new.mode = port[p].mode /\ new.pvid = port[p].pvid
      /\ new.allowed = port[p].allowed \cup vs
  BY Setting DEF Settings
<1>2. vs \subseteq port[p].allowed => new = port[p]
  <2>1. port[p] = [mode |-> port[p].mode, pvid |-> port[p].pvid, allowed |-> port[p].allowed]
    BY DEF Settings
  <2> QED BY <2>1
<1>3. CASE port' = port
  BY <1>3 DEF AddVlans
<1>4. CASE port' = [port EXCEPT ![p] = new]
  <2>1. port' \in [Ports -> Settings] /\ port'[p] = new /\ \A q \in Ports \ {p} : port'[q] = port[q]
    BY <1>1, <1>4
  <2>2. vs \subseteq port[p].allowed => port' = port
    BY <1>2, <1>4
  <2> QED
    BY <2>1, <2>2, <1>1, <1>2 DEF AddVlans
<1>5. port' = port \/ port' = [port EXCEPT ![p] = new]
  BY DEF AddVlans
<1> QED
  BY <1>3, <1>4, <1>5

LEMMA NoneAllowed ==
  ASSUME port \in [Ports -> Settings], NEW p \in Ports,
         NEW raised \in BOOLEAN, AllowNone(p, raised), err \in BOOLEAN
  PROVE  /\ port' \in [Ports -> Settings] /\ \A q \in Ports \ {p} : port'[q] = port[q]
         /\ port'[p].mode = port[p].mode /\ port'[p].pvid = port[p].pvid
         /\ err' = (err \/ raised)
<1> DEFINE new == [port[p] EXCEPT !.allowed = {}]
<1>1. new \in Settings /\ new.mode = port[p].mode /\ new.pvid = port[p].pvid
  BY Setting DEF Settings
<1>2. port' = port \/ port' = [port EXCEPT ![p] = new]
  BY DEF AllowNone
<1> QED
  BY <1>1, <1>2 DEF AllowNone
-----------------------------------------------------------------------------
LEMMA InvariantInit == Init => Invariant
<1> SUFFICES ASSUME Init PROVE Invariant
  OBVIOUS
<1>1. port \in [Ports -> Settings]
  <2>1. \A p \in Ports : port[p] \in Settings
    BY MgmtSwitchAssumption DEF Init
  <2> QED BY <2>1 DEF Init
<1>2. /\ pc = "read" /\ shown = port /\ kind = "ipmi" /\ err = FALSE
      /\ cur = 0 /\ cmd = 0 /\ kept = {}
  BY DEF Init
<1>3. shown \in [Ports -> Settings] /\ err \in BOOLEAN
  BY <1>1, <1>2
<1>4. kind \in Kinds /\ cmd \in 0 .. 4 /\ cur \in {0} \cup Deployer \cup Links
  BY <1>2 DEF Kinds
<1>5. TypeInv
  BY <1>1, <1>2, <1>3, <1>4 DEF TypeInv
<1> QED
  BY <1>2, <1>5 DEF Invariant

\* What the commands for one port do, by loop.
LEMMA LinkCommand ==
  ASSUME TypeInv, TrunkDeployer \/ AllowDeployer \/ SetLink
  PROVE  /\ cur \in Ports /\ pc = "links" /\ UNCHANGED <<pc, shown, kind, todo, kept>>
         /\ port' \in [Ports -> Settings] /\ \A q \in Ports \ {cur} : port'[q] = port[q]
         /\ \A k \in Kinds : (port'[cur].pvid = Vlan[k]) => (port[cur].pvid = Vlan[k])
         /\ err' \in BOOLEAN /\ (err => err')
         /\ (cur' = cur /\ cmd' = cmd + 1) \/ (cur' = 0 /\ cmd' = 0)
<1> DEFINE Effect ==
      /\ port' \in [Ports -> Settings] /\ \A q \in Ports \ {cur} : port'[q] = port[q]
      /\ \A k \in Kinds : (port'[cur].pvid = Vlan[k]) => (port[cur].pvid = Vlan[k])
      /\ err' \in BOOLEAN /\ (err => err')
<1>1. cur \in Ports /\ port \in [Ports -> Settings] /\ err \in BOOLEAN
  BY Listed DEF TypeInv, TrunkDeployer, AllowDeployer, SetLink
<1>2. /\ pc = "links" /\ UNCHANGED <<pc, shown, kind, todo, kept>>
      /\ (cur' = cur /\ cmd' = cmd + 1) \/ (cur' = 0 /\ cmd' = 0)
  BY DEF TrunkDeployer, AllowDeployer, SetLink, LinkStep
<1>3. UNCHANGED <<port, err>> => Effect
  BY <1>1
<1>4. ASSUME NEW raised \in BOOLEAN, NEW v \in {0, LinkVlan}, SetMode(cur, "trunk", v, raised)
      PROVE  Effect
  BY <1>1, <1>4, Distinct, ModeSet
<1>5. ASSUME NEW raised \in BOOLEAN, NEW vs \in {Needed, {LinkVlan}}, AddVlans(cur, vs, raised)
      PROVE  Effect
  BY <1>1, <1>5, Distinct, VlansAdded
<1>6. ASSUME NEW raised \in BOOLEAN, AllowNone(cur, raised)
      PROVE  Effect
  BY <1>1, <1>6, NoneAllowed
<1> HIDE DEF Effect
<1>7. TrunkDeployer => Effect
  BY <1>3, <1>4 DEF TrunkDeployer
<1>8. AllowDeployer => Effect
  BY <1>3, <1>5 DEF AllowDeployer
<1>9. SetLink => Effect
  BY <1>4, <1>5, <1>6 DEF SetLink
<1>10. Effect
  BY <1>7, <1>8, <1>9
<1> QED
  BY <1>1, <1>2, <1>10 DEF Effect

LEMMA ClientCommand ==
  ASSUME TypeInv, LoopInv, NEW p \in Ports, SetClient(p)
  PROVE  /\ pc = "clients" /\ p \in todo /\ p \in Client[kind]
         /\ UNCHANGED <<pc, shown, kind, cur, cmd, kept>> /\ todo' = todo \ {p}
         /\ port' \in [Ports -> Settings] /\ \A q \in Ports \ {p} : port'[q] = port[q]
         /\ port'[p].pvid \in {port[p].pvid, Vlan[kind]}
         /\ shown[p].pvid = Vlan[kind] => port' = port
         /\ shown[p].pvid # Vlan[kind] => err' \/ port'[p].pvid = Vlan[kind]
         /\ err' \in BOOLEAN /\ (err => err')
<1>1. port \in [Ports -> Settings] /\ err \in BOOLEAN /\ Vlan[kind] \in Nat /\ Vlan[kind] # 0
  BY Distinct DEF TypeInv
<1>2. p \in Client[kind]
  BY DEF SetClient, LoopInv
<1>3. CASE shown[p].pvid = Vlan[kind]
  BY <1>1, <1>2, <1>3 DEF SetClient
<1>4. CASE shown[p].pvid # Vlan[kind]
  <2>1. PICK raised \in BOOLEAN : SetMode(p, "access", Vlan[kind], raised)
    BY <1>4 DEF SetClient
  <2> QED
    BY <1>1, <1>2, <1>4, <2>1, ModeSet DEF SetClient
<1> QED
  BY <1>3, <1>4

LEMMA RemoveCommand ==
  ASSUME TypeInv, LoopInv, NEW p \in Ports, RemovePort(p)
  PROVE  /\ pc = "remove" /\ p \in todo /\ p \in Unlisted(kind)
         /\ UNCHANGED <<shown, kind, cur, cmd>> /\ todo' = todo \ {p}
         /\ port' \in [Ports -> Settings] /\ \A q \in Ports \ {p} : port'[q] = port[q]
         /\ port'[p].pvid \in {port[p].pvid, 1}
         /\ \/ pc' = "died"
            \/ pc' = pc /\ kept' = kept /\ port'[p].pvid = 1
            \/ pc' = pc /\ kept' = kept \cup {p} /\ port' = port
         /\ err' \in BOOLEAN /\ (err => err')
<1>1. port \in [Ports -> Settings] /\ err \in BOOLEAN
  BY DEF TypeInv
<1>2. p \in Unlisted(kind)
  BY DEF RemovePort, LoopInv
<1>3. CASE resp' \in {"y", "yta"}
  <2>1. PICK raised \in BOOLEAN : /\ SetMode(p, "access", DefaultVlan, raised)
                                  /\ pc' = IF raised THEN "died" ELSE pc
                                  /\ UNCHANGED kept
    BY <1>3 DEF RemovePort
  <2> QED
    BY <1>1, <1>2, <2>1, ModeSet DEF RemovePort, DefaultVlan
<1>4. CASE resp' \notin {"y", "yta"}
  BY <1>1, <1>2, <1>4 DEF RemovePort
<1> QED
  BY <1>3, <1>4
-----------------------------------------------------------------------------
LEMMA TypeStep == ASSUME Invariant, [Next]_vars PROVE TypeInv'
<1> USE DEF TypeInv
<1>1. CASE ReadPorts
  BY <1>1 DEF Invariant, ReadPorts
<1>2. CASE EndVlans \/ EndLinks
  BY <1>2 DEF Invariant, EndVlans, EndLinks
<1>3. CASE EndClients \/ EndKind
  BY <1>3 DEF Invariant, EndClients, EndKind, Kinds
<1>4. CASE \E v \in Needed : CreateVlan(v)
  BY <1>4 DEF Invariant, CreateVlan
<1>5. ASSUME NEW p \in Ports, NextLink(p) PROVE TypeInv'
  <2>1. pc = "links" /\ todo \subseteq Deployer \cup Links
    BY <1>5 DEF Invariant, RunInv, LoopInv, NextLink
  <2> QED
    BY <1>5, <2>1 DEF Invariant, NextLink
<1>6. CASE TrunkDeployer \/ AllowDeployer \/ SetLink
  <2>1. TypeInv /\ pc = "links" /\ (cur # 0 => cmd \in 1 .. 4)
    BY <1>6 DEF Invariant, RunInv, LoopInv, TrunkDeployer, AllowDeployer, SetLink
  <2>2. cur' = cur => cmd' \in 1 .. 4
    BY <1>6, <2>1, Listed DEF TrunkDeployer, AllowDeployer, SetLink, LinkStep
  <2> QED
    BY <1>6, <2>1, <2>2, LinkCommand
<1>7. ASSUME NEW p \in Ports, SetClient(p) PROVE TypeInv'
  <2>1. TypeInv /\ LoopInv
    BY <1>7 DEF Invariant, RunInv, SetClient
  <2> QED
    BY <1>7, <2>1, ClientCommand
<1>8. ASSUME NEW p \in Ports, RemovePort(p) PROVE TypeInv'
  <2>1. TypeInv /\ LoopInv
    BY <1>8 DEF Invariant, RunInv, RemovePort
  <2> QED
    BY <1>8, <2>1, RemoveCommand
<1>9. CASE LoseSwitch \/ Rerun
  <2>1. CASE LoseSwitch
    BY <2>1 DEF Invariant, LoseSwitch
  <2>2. CASE Rerun
    <3>1. err' \in BOOLEAN
      BY <2>2 DEF Rerun
    <3>2. kind' \in Kinds /\ cmd' \in 0 .. 4 /\ cur' = 0
      BY <2>2 DEF Rerun, Kinds
    <3> QED
      BY <2>2, <3>1, <3>2 DEF Invariant, Rerun
  <2> QED
    BY <1>9, <2>1, <2>2
<1>10. CASE UNCHANGED vars
  BY <1>10 DEF Invariant, vars
<1> QED
  BY <1>1, <1>2, <1>3, <1>4, <1>5, <1>6, <1>7, <1>8, <1>9, <1>10 DEF Next, Script

LEMMA LoopStep ==
  ASSUME TypeInv, LoopInv, pc \notin {"read", "died"}, Next, pc' \notin {"read", "died"}
  PROVE  LoopInv'
<1> USE DEF LoopInv
<1>1. CASE EndVlans \/ EndLinks
  BY <1>1, Listed DEF EndVlans, EndLinks
<1>2. CASE EndClients \/ EndKind
  BY <1>2 DEF EndClients, EndKind, Unlisted
<1>3. CASE \E v \in Needed : CreateVlan(v)
  BY <1>3 DEF CreateVlan
<1>4. ASSUME NEW p \in Ports, NextLink(p) PROVE LoopInv'
  BY <1>4, Listed DEF NextLink
<1>5. CASE TrunkDeployer \/ AllowDeployer \/ SetLink
  BY <1>5, LinkCommand, Listed DEF TrunkDeployer, AllowDeployer, SetLink, LinkStep
<1>6. ASSUME NEW p \in Ports, SetClient(p) PROVE LoopInv'
  BY <1>6, ClientCommand
<1>7. ASSUME NEW p \in Ports, RemovePort(p) PROVE LoopInv'
  BY <1>7, RemoveCommand DEF Unlisted
<1> QED
  BY <1>1, <1>2, <1>3, <1>4, <1>5, <1>6, <1>7 DEF Next, Script, ReadPorts, LoseSwitch, Rerun
\* A port was in one vlan, and what a loop is past it stays past.
LEMMA OneVlan ==
  \A k, l \in Kinds : k # l => Unlisted(k) \cap Unlisted(l) = {} /\ Unlisted(k) \subseteq Ports
BY Distinct DEF Unlisted, Kinds

LEMMA PastGrows ==
  ASSUME TypeInv, LoopInv, pc \notin {"read", "died"}, Next, pc' \notin {"read", "died"}
  PROVE  \A k \in Kinds, q \in Ports : RemovePast(k, q) => RemovePast(k, q)'
<1> USE DEF RemovePast
<1>1. CASE EndVlans \/ EndLinks
  BY <1>1 DEF EndVlans, EndLinks
<1>2. CASE EndClients \/ EndKind
  BY <1>2 DEF EndClients, EndKind
<1>3. CASE \E v \in Needed : CreateVlan(v)
  BY <1>3 DEF CreateVlan
<1>4. ASSUME NEW p \in Ports, NextLink(p) PROVE \A k \in Kinds, q \in Ports : RemovePast(k, q) => RemovePast(k, q)'
  BY <1>4 DEF NextLink
<1>5. CASE TrunkDeployer \/ AllowDeployer \/ SetLink
  BY <1>5, LinkCommand
<1>6. ASSUME NEW p \in Ports, SetClient(p) PROVE \A k \in Kinds, q \in Ports : RemovePast(k, q) => RemovePast(k, q)'
  BY <1>6, ClientCommand
<1>7. ASSUME NEW p \in Ports, RemovePort(p) PROVE \A k \in Kinds, q \in Ports : RemovePast(k, q) => RemovePast(k, q)'
  BY <1>7, RemoveCommand
<1> QED
  BY <1>1, <1>2, <1>3, <1>4, <1>5, <1>6, <1>7 DEF Next, Script, ReadPorts, LoseSwitch, Rerun

LEMMA VlanStep ==
  ASSUME TypeInv, LoopInv, VlanInv, pc \notin {"read", "died"}, Next, pc' \notin {"read", "died"}
  PROVE  VlanInv'
<1> USE DEF VlanInv
<1>1. CASE EndVlans \/ EndLinks
  BY <1>1 DEF EndVlans, EndLinks
<1>2. CASE EndClients \/ EndKind
  BY <1>2 DEF EndClients, EndKind
<1>3. CASE \E v \in Needed : CreateVlan(v)
  BY <1>3 DEF CreateVlan
<1>4. ASSUME NEW p \in Ports, NextLink(p) PROVE VlanInv'
  BY <1>4 DEF NextLink
<1>5. CASE TrunkDeployer \/ AllowDeployer \/ SetLink
  <2>1. cur \in Deployer \cup Links
    BY <1>5 DEF TrunkDeployer, AllowDeployer, SetLink
  <2>2. \A k \in Kinds : cur \notin Client[k]
    BY <2>1, Listed
  <2> QED
    BY <1>5, <2>2, LinkCommand
<1>6. ASSUME NEW p \in Ports, SetClient(p) PROVE VlanInv'
  BY <1>6, ClientCommand, Listed, Distinct DEF Kinds, TypeInv
<1>7. ASSUME NEW p \in Ports, RemovePort(p) PROVE VlanInv'
  BY <1>7, RemoveCommand, Distinct DEF Unlisted, TypeInv, Kinds
<1> QED
  BY <1>1, <1>2, <1>3, <1>4, <1>5, <1>6, <1>7 DEF Next, Script, ReadPorts, LoseSwitch, Rerun

LEMMA SetStep ==
  ASSUME TypeInv, LoopInv, VlanInv, SetInv, pc \notin {"read", "died"}, Next, pc' \notin {"read", "died"}
  PROVE  SetInv'
<1> USE DEF SetInv, SetPast, TypeInv
<1>1. CASE EndVlans \/ EndLinks
  BY <1>1 DEF EndVlans, EndLinks
<1>2. CASE EndClients \/ EndKind
  BY <1>2 DEF EndClients, EndKind
<1>3. CASE \E v \in Needed : CreateVlan(v)
  BY <1>3 DEF CreateVlan
<1>4. ASSUME NEW p \in Ports, NextLink(p) PROVE SetInv'
  BY <1>4 DEF NextLink
<1>5. CASE TrunkDeployer \/ AllowDeployer \/ SetLink
  BY <1>5, LinkCommand
<1>6. ASSUME NEW p \in Ports, SetClient(p) PROVE SetInv'
  <2>1. port[p].pvid = Vlan[kind] \/ shown[p].pvid # Vlan[kind]
    BY <1>6, ClientCommand DEF VlanInv
  <2> QED
    BY <1>6, <2>1, ClientCommand, Listed
<1>7. ASSUME NEW p \in Ports, RemovePort(p) PROVE SetInv'
  BY <1>7, RemoveCommand, Listed DEF Unlisted, Kinds
<1> QED
  BY <1>1, <1>2, <1>3, <1>4, <1>5, <1>6, <1>7 DEF Next, Script, ReadPorts, LoseSwitch, Rerun

LEMMA RemoveStep ==
  ASSUME TypeInv, LoopInv, RemoveInv, pc \notin {"read", "died"}, Next, pc' \notin {"read", "died"}
  PROVE  RemoveInv'
<1> USE DEF RemoveInv, RemovePast, TypeInv
<1>1. CASE EndVlans \/ EndLinks
  BY <1>1 DEF EndVlans, EndLinks, Unlisted
<1>2. CASE EndClients \/ EndKind
  BY <1>2 DEF EndClients, EndKind, Unlisted
<1>3. CASE \E v \in Needed : CreateVlan(v)
  BY <1>3 DEF CreateVlan, Unlisted
<1>4. ASSUME NEW p \in Ports, NextLink(p) PROVE RemoveInv'
  BY <1>4 DEF NextLink, Unlisted
<1>5. CASE TrunkDeployer \/ AllowDeployer \/ SetLink
  BY <1>5, LinkCommand DEF Unlisted
<1>6. ASSUME NEW p \in Ports, SetClient(p) PROVE RemoveInv'
  BY <1>6, ClientCommand, Distinct DEF Unlisted, Kinds
<1>7. ASSUME NEW p \in Ports, RemovePort(p) PROVE RemoveInv'
  BY <1>7, RemoveCommand, Distinct DEF Unlisted, Kinds
<1> QED
  BY <1>1, <1>2, <1>3, <1>4, <1>5, <1>6, <1>7 DEF Next, Script, ReadPorts, LoseSwitch, Rerun

LEMMA KeptStep ==
  ASSUME TypeInv, LoopInv, KeptInv, pc \notin {"read", "died"}, Next, pc' \notin {"read", "died"}
  PROVE  KeptInv'
<1> USE DEF KeptInv
<1>1. CASE EndVlans \/ EndLinks
  BY <1>1, PastGrows DEF EndVlans, EndLinks, Unlisted
<1>2. CASE EndClients \/ EndKind
  BY <1>2, PastGrows DEF EndClients, EndKind, Unlisted
<1>3. CASE \E v \in Needed : CreateVlan(v)
  BY <1>3, PastGrows DEF CreateVlan, Unlisted
<1>4. ASSUME NEW p \in Ports, NextLink(p) PROVE KeptInv'
  BY <1>4, PastGrows DEF NextLink, Unlisted
<1>5. CASE TrunkDeployer \/ AllowDeployer \/ SetLink
  BY <1>5, PastGrows, LinkCommand DEF Unlisted
<1>6. ASSUME NEW p \in Ports, SetClient(p) PROVE KeptInv'
  BY <1>6, PastGrows, ClientCommand DEF Unlisted
<1>7. ASSUME NEW p \in Ports, RemovePort(p) PROVE KeptInv'
  <2>1. pc' = pc /\ p \in Unlisted(kind) /\ RemovePast(kind, p)' /\ kind \in Kinds
    BY <1>7, RemoveCommand DEF RemovePast, TypeInv
  <2> QED
    BY <1>7, <2>1, PastGrows, RemoveCommand DEF Unlisted
<1> QED
  BY <1>1, <1>2, <1>3, <1>4, <1>5, <1>6, <1>7 DEF Next, Script, ReadPorts, LoseSwitch, Rerun

\* A port the removal comes to was not come to before, and is not kept.
LEMMA NotBefore ==
  ASSUME TypeInv, KeptInv, NEW p \in Unlisted(kind), pc = "remove", p \in todo
  PROVE  p \notin kept /\ ~Taken(p)
<1>1. \A k \in Kinds : p \in Unlisted(k) => ~RemovePast(k, p)
  BY OneVlan DEF RemovePast, TypeInv
<1> QED
  BY <1>1 DEF KeptInv, Taken, TypeInv

\* Commands that do not touch a port, and keep nothing, leave it ready.
LEMMA StaysReady ==
  ASSUME TypeInv, LoopInv, Next, pc \notin {"read", "died"}, pc' \notin {"read", "died"},
         NEW p \in Ports, Ready(p), shown' = shown, port'[p] = port[p], p \in kept' => p \in kept
  PROVE  Ready(p)'
<1>1. CASE Taken(p)
  BY <1>1, PastGrows DEF Ready, Taken, Unlisted
<1>2. CASE ~Taken(p)
  BY <1>2 DEF Ready, DeployerSet, SwitchLinkSet
<1> QED
  BY <1>1, <1>2

LEMMA LinksStep ==
  ASSUME TypeInv, LoopInv, KeptInv, LinkInv, pc \notin {"read", "died"}, Next, pc' \notin {"read", "died"}
  PROVE  LinkInv'
<1> DEFINE PortInv(q) == /\ LinkAhead(q) => port[q] = shown[q]
                         /\ LinkPast(q) => err \/ Ready(q)
<1>0. SUFFICES /\ \A q \in Deployer \cup Links : PortInv(q)'
               /\ pc' = "links" /\ cur' \in Deployer => AtDeployer'
               /\ pc' = "links" /\ cur' \in Links => AtLink'
  BY DEF LinkInv
<1> USE DEF LinkAhead, LinkPast
<1>1. CASE EndVlans
  BY <1>1, Listed DEF EndVlans, LinkInv, LoopInv, TypeInv
<1>2. CASE \E v \in Needed : CreateVlan(v)
  BY <1>2, Listed DEF CreateVlan, LinkInv, LoopInv, TypeInv
<1>3. CASE EndLinks \/ EndClients \/ EndKind
  <2>1. /\ UNCHANGED <<port, shown, kept, err>> /\ pc' \in {"clients", "remove", "done"}
        /\ pc = "links" => cur = 0 /\ todo = {}
    BY <1>3 DEF EndLinks, EndClients, EndKind, TypeInv
  <2>2. \A q \in Deployer \cup Links : LinkPast(q)
    BY <2>1, Listed, <1>3 DEF EndLinks, EndClients, EndKind
  <2> QED
    BY <2>1, <2>2, StaysReady, Listed DEF LinkInv
<1>4. ASSUME NEW p \in Ports, NextLink(p) PROVE LinkInv'
  <2>1. /\ pc = "links" /\ cur = 0 /\ p \in todo /\ todo' = todo \ {p}
        /\ UNCHANGED <<pc, port, shown, kept, err, kind>> /\ p \in Deployer \cup Links
    BY <1>4 DEF NextLink, LoopInv
  <2>2. \A q \in Deployer \cup Links : Ready(q) => Ready(q)'
    BY <2>1, StaysReady, Listed
  <2>3. CASE LinkSet(p)
    <3>1. cur' = 0 /\ p \in Links /\ SwitchLinkSet(shown, p)
      BY <1>4, <2>1, <2>3 DEF NextLink, LinkSet, SwitchLinkSet
    <3>2. port[p] = shown[p]
      BY <2>1 DEF LinkInv
    <3>3. Ready(p)'
      BY <2>1, <3>1, <3>2 DEF Ready, SwitchLinkSet
    <3> QED
      BY <2>1, <2>2, <3>1, <3>3, Listed DEF LinkInv
  <2>4. CASE ~LinkSet(p)
    <3>1. cur' = p /\ cmd' = 1 /\ p # 0
      BY <1>4, <2>4, Listed DEF NextLink
    <3>2. \A q \in Deployer \cup Links : PortInv(q)'
      BY <2>1, <2>2, <3>1, Listed DEF LinkInv
    <3> QED
      BY <2>1, <2>4, <3>1, <3>2 DEF LinkInv, AtDeployer, AtLink, LinkSet
  <2> QED
    BY <2>3, <2>4
<1>5. ASSUME NEW p \in Ports, SetClient(p) PROVE LinkInv'
  <2>1. \A q \in Deployer \cup Links : LinkPast(q) /\ q # p /\ q \in Ports
    BY <1>5, ClientCommand, Listed DEF TypeInv, LoopInv
  <2> QED
    BY <1>5, <2>1, ClientCommand, StaysReady DEF LinkInv
<1>6. ASSUME NEW p \in Ports, RemovePort(p) PROVE LinkInv'
  <2>1. /\ pc = "remove" /\ pc' = pc /\ p \in todo /\ p \in Unlisted(kind) /\ shown' = shown
        /\ \A q \in Ports \ {p} : port'[q] = port[q] /\ (q \in kept' => q \in kept)
        /\ err => err'
    BY <1>6, RemoveCommand
  <2>2. p \notin kept /\ ~Taken(p)
    BY <2>1, NotBefore
  <2>3. ASSUME p \in Deployer \cup Links, Ready(p) PROVE Ready(p)'
    <3>1. CASE port' = port
      BY <2>2, <2>3, <3>1 DEF Ready, DeployerSet, SwitchLinkSet
    <3>2. CASE kept' = kept
      <4>1. RemovePast(kind, p)' /\ p \in Unlisted(kind)' /\ kind' \in Kinds
        BY <1>6, <2>1, RemoveCommand DEF RemovePast, TypeInv, Unlisted
      <4> QED
        BY <1>6, <2>2, <3>2, <4>1, RemoveCommand DEF Ready, Taken
    <3> QED
      BY <1>6, <2>1, <3>1, <3>2, RemoveCommand
  <2>4. \A q \in Deployer \cup Links : Ready(q) => Ready(q)'
    BY <2>1, <2>3, StaysReady, Listed
  <2> QED
    BY <2>1, <2>4 DEF LinkInv
<1>7. CASE TrunkDeployer \/ AllowDeployer \/ SetLink
  <2>1. /\ cur \in Ports /\ cur \notin todo /\ cur \in Deployer \cup Links /\ cur # 0 /\ cmd \in 1 .. 4
        /\ port \in [Ports -> Settings] /\ err \in BOOLEAN
        /\ pc = "links" /\ pc' = pc /\ todo' = todo /\ shown' = shown
    BY <1>7, LinkCommand, Listed DEF LoopInv, TypeInv, TrunkDeployer, AllowDeployer, SetLink
  <2>2. \A q \in (Deployer \cup Links) \ {cur} : PortInv(q)'
    <3>1. \A q \in (Deployer \cup Links) \ {cur} : PortInv(q) /\ (Ready(q) => Ready(q)')
      BY <1>7, LinkCommand, StaysReady, Listed DEF LinkInv
    <3> QED
      BY <1>7, <2>1, <3>1, LinkCommand, Listed
  <2>3. CASE TrunkDeployer
    <3>1. cur' = cur /\ cmd = 1 /\ cmd' = 2 /\ shown' = shown /\ cur \in Deployer /\ port[cur] = shown[cur]
      BY <1>7, <2>1, <2>3 DEF TrunkDeployer, LinkStep, LinkInv
    <3>2. port'[cur].allowed = port[cur].allowed /\ (err' \/ port'[cur].mode = "trunk")
      <4>1. CASE shown[cur].mode = "trunk"
        BY <2>3, <3>1, <4>1 DEF TrunkDeployer
      <4>2. CASE shown[cur].mode # "trunk"
        <5>1. PICK raised \in BOOLEAN : SetMode(cur, "trunk", 0, raised)
          BY <2>3, <4>2 DEF TrunkDeployer
        <5> QED
          BY <2>1, <5>1, ModeSet
      <4> QED
        BY <4>1, <4>2
    <3> QED
      BY <2>1, <2>2, <3>1, <3>2, Listed DEF AtDeployer
  <2>4. CASE AllowDeployer
    <3>1. cur' = 0 /\ cur \in Deployer /\ AtDeployer /\ cmd = 2 /\ shown' = shown
      BY <2>1, <2>4 DEF AllowDeployer, LinkStep, LinkInv
    <3>2. err' \/ DeployerSet(port', cur)
      <4>1. CASE MgmtVlans # {} \/ ~({Vlan[k] : k \in Kinds} \subseteq shown[cur].allowed)
        <5>1. PICK raised \in BOOLEAN : AddVlans(cur, Needed, raised)
          BY <2>4, <4>1 DEF AllowDeployer
        <5>2. port'[cur].mode = port[cur].mode /\ (err' \/ Needed \subseteq port'[cur].allowed)
              /\ (err => err')
          BY <2>1, <5>1, Distinct, VlansAdded
        <5> QED
          BY <3>1, <5>2 DEF AtDeployer, DeployerSet
      <4>2. CASE MgmtVlans = {} /\ {Vlan[k] : k \in Kinds} \subseteq shown[cur].allowed
        <5>1. Needed \subseteq shown[cur].allowed /\ UNCHANGED <<port, err>>
          BY <2>4, <4>2 DEF AllowDeployer, Needed
        <5> QED
          BY <3>1, <5>1 DEF AtDeployer, DeployerSet
      <4> QED
        BY <4>1, <4>2
    <3> QED
      BY <2>1, <2>2, <3>1, <3>2, Listed DEF Ready
  <2>5. CASE SetLink
    <3>1. cur \in Links /\ AtLink /\ shown' = shown /\ pc' = pc
      BY <2>1, <2>5 DEF SetLink, LinkStep, LinkInv
    <3>2. PICK raised \in BOOLEAN :
            /\ \/ cmd = 1 /\ SetMode(cur, "trunk", 0, raised)
               \/ cmd = 2 /\ AllowNone(cur, raised)
               \/ cmd = 3 /\ AddVlans(cur, {LinkVlan}, raised)
               \/ cmd = 4 /\ SetMode(cur, "trunk", LinkVlan, raised)
            /\ LinkStep(cmd = 4, raised)
      BY <2>5 DEF SetLink
    <3>3. /\ err' \/ port'[cur].mode = "trunk"
          /\ cmd > 2 => err' \/ LinkVlan \in port'[cur].allowed
          /\ raised => err'
      <4>1. CASE cmd = 1 /\ SetMode(cur, "trunk", 0, raised)
        BY <2>1, <4>1, ModeSet
      <4>2. CASE cmd = 2 /\ AllowNone(cur, raised)
        BY <2>1, <3>1, <4>2, NoneAllowed DEF AtLink
      <4>3. CASE cmd = 3 /\ AddVlans(cur, {LinkVlan}, raised)
        <5>1. raised => err'
          BY <4>3 DEF AddVlans
        <5> QED
          BY <2>1, <3>1, <4>3, <5>1, VlansAdded, Distinct DEF AtLink
      <4>4. CASE cmd = 4 /\ SetMode(cur, "trunk", LinkVlan, raised)
        BY <2>1, <3>1, <4>4, ModeSet, Distinct DEF AtLink
      <4> QED
        BY <3>2, <4>1, <4>2, <4>3, <4>4
    <3>4. CASE cmd = 4 \/ raised
      <4>1. cur' = 0 /\ (err' \/ SwitchLinkSet(port', cur))
        BY <3>1, <3>2, <3>3, <3>4 DEF LinkStep, SwitchLinkSet
      <4> QED
        BY <2>1, <2>2, <3>1, <4>1, Listed DEF Ready
    <3>5. CASE ~(cmd = 4 \/ raised)
      <4>1. cur' = cur /\ cmd' = cmd + 1
        BY <3>2, <3>5 DEF LinkStep
      <4>2. AtLink'
        BY <2>1, <3>1, <3>3, <3>5, <4>1 DEF AtLink, LinkSet
      <4> QED
        BY <2>1, <2>2, <3>1, <3>5, <4>1, <4>2, Listed
    <3> QED
      BY <3>4, <3>5
  <2> QED
    BY <1>7, <2>3, <2>4, <2>5
<1> QED
  BY <1>0, <1>1, <1>2, <1>3, <1>4, <1>5, <1>6, <1>7
     DEF LinkInv, Next, Script, ReadPorts, LoseSwitch, Rerun

\* On a switch that was set up no command changes a port.
LEMMA QuietStep ==
  ASSUME TypeInv, LoopInv, LinkInv, QuietInv, pc \notin {"read", "died"}, Next, AllSet(shown)
  PROVE  port' = port
<1>1. port = shown
  BY DEF QuietInv
<1>2. CASE TrunkDeployer
  <2>1. shown[cur].mode = "trunk"
    BY <1>2 DEF TrunkDeployer, AllSet, DeployerSet
  <2> QED
    BY <1>2, <2>1 DEF TrunkDeployer
<1>3. CASE AllowDeployer
  <2>1. Needed \subseteq port[cur].allowed /\ cur \in Ports
    BY <1>1, <1>3, Listed DEF AllowDeployer, AllSet, DeployerSet
  <2>2. \A raised \in BOOLEAN : AddVlans(cur, Needed, raised) => port' = port
    BY <2>1, Distinct, VlansAdded DEF TypeInv
  <2> QED
    BY <1>3, <2>2 DEF AllowDeployer
<1>4. CASE SetLink
  <2>1. cur \in Links /\ AtLink
    BY <1>4 DEF SetLink, LinkInv
  <2> QED
    BY <2>1 DEF AtLink, LinkSet, AllSet, SwitchLinkSet
<1>5. ASSUME NEW p \in Ports, SetClient(p) PROVE port' = port
  <2>1. p \in Client[kind] /\ kind \in Kinds
    BY <1>5, ClientCommand DEF TypeInv
  <2>2. shown[p].pvid = Vlan[kind]
    BY <2>1 DEF AllSet, ClientSet
  <2> QED
    BY <1>5, <2>2, ClientCommand
<1>6. ASSUME NEW p \in Ports, RemovePort(p) PROVE port' = port
  <2>1. p \in Unlisted(kind) /\ kind \in Kinds
    BY <1>6, RemoveCommand DEF TypeInv
  <2> QED
    BY <2>1 DEF AllSet, Outsider, Unlisted
<1> QED
  BY <1>2, <1>3, <1>4, <1>5, <1>6
     DEF Next, Script, ReadPorts, EndVlans, EndLinks, EndClients, EndKind, CreateVlan, NextLink,
         LoseSwitch, Rerun

\* Once a run has read the ports they are as shown, and no loop has been past one.
LEMMA ReadStep == ASSUME TypeInv, ReadPorts PROVE RunInv'
<1>1. /\ pc' = "vlans" /\ kind' = "ipmi" /\ cur' = 0 /\ kept' = {} /\ shown' = port /\ port' = port
  BY DEF ReadPorts, TypeInv
<1>2. LoopInv' /\ VlanInv' /\ KeptInv' /\ QuietInv'
  BY <1>1 DEF LoopInv, VlanInv, KeptInv, QuietInv
<1>3. SetInv' /\ RemoveInv'
  BY <1>1 DEF SetInv, RemoveInv, SetPast, RemovePast
<1>4. LinkInv'
  BY <1>1 DEF LinkInv, LinkPast
<1> QED
  BY <1>2, <1>3, <1>4 DEF RunInv

LEMMA InvariantStep == ASSUME Invariant, [Next]_vars PROVE Invariant'
<1>1. CASE UNCHANGED vars
  BY <1>1 DEF vars, Invariant, TypeInv, RunInv, LoopInv, VlanInv, SetInv, RemoveInv, KeptInv, LinkInv,
              QuietInv, SetPast, RemovePast, LinkPast, LinkAhead, Taken, Ready, AtDeployer, AtLink,
              LinkSet, Unlisted, DeployerSet, SwitchLinkSet, AllSet, ClientSet, Outsider
<1>2. CASE Next /\ pc = "read"
  <2>1. ReadPorts \/ pc' = "died"
    BY <1>2 DEF Next, Script, ReadPorts, EndVlans, EndLinks, EndClients, EndKind, TrunkDeployer,
                AllowDeployer, SetLink, CreateVlan, NextLink, SetClient, RemovePort, LoseSwitch, Rerun
  <2> QED
    BY <2>1, TypeStep, ReadStep DEF Invariant
<1>3. CASE Next /\ pc = "died"
  <2>1. pc' = "read"
    BY <1>3 DEF Next, Script, ReadPorts, EndVlans, EndLinks, EndClients, EndKind, TrunkDeployer,
                AllowDeployer, SetLink, CreateVlan, NextLink, SetClient, RemovePort, LoseSwitch, Rerun
  <2> QED
    BY <2>1, TypeStep DEF Invariant
<1>4. CASE Next /\ pc \notin {"read", "died"} /\ pc' \notin {"read", "died"}
  <2>1. TypeInv /\ RunInv
    BY <1>4 DEF Invariant
  <2>2. shown' = shown
    BY <1>4 DEF Next, Script, ReadPorts, EndVlans, EndLinks, EndClients, EndKind, TrunkDeployer, LinkStep,
                AllowDeployer, SetLink, CreateVlan, NextLink, SetClient, RemovePort, LoseSwitch, Rerun
  <2>3. QuietInv'
    BY <1>4, <2>1, <2>2, QuietStep DEF RunInv, QuietInv
  <2>4. LoopInv' /\ VlanInv' /\ SetInv' /\ RemoveInv' /\ KeptInv' /\ LinkInv'
    BY <1>4, <2>1, LoopStep, VlanStep, SetStep, RemoveStep, KeptStep, LinksStep DEF RunInv
  <2> QED
    BY <2>3, <2>4, TypeStep DEF Invariant, RunInv
<1> QED
  BY <1>1, <1>2, <1>3, <1>4, TypeStep DEF Invariant

LEMMA Invariance == Spec => []Invariant
BY InvariantInit, InvariantStep, PTL DEF Spec
-----------------------------------------------------------------------------
\* configure_mgmt_switches: a run that reports no error leaves the ports of
\* nodes in the vlans of their networks, except a BMC port that was in the
\* vlan of the pxe network, whatever the ports were and the switch refused.
THEOREM NodePortsReady == Spec => []ClientsReady
<1>1. ASSUME Invariant, Finished PROVE ClientsReady
  <2>1. TypeInv /\ SetInv /\ pc = "done" /\ err = FALSE /\ kind = "pxe"
    BY <1>1 DEF Invariant, RunInv, Finished, TypeInv
  <2>2. \A k \in Kinds : \A p \in Client[k] :
           port[p].pvid = Vlan[k] \/ (k = "ipmi" /\ shown[p].pvid = Vlan["pxe"])
    BY <2>1 DEF SetInv, SetPast, Kinds
  <2> QED
    BY <2>2 DEF ClientsReady, ClientSet
<1>2. Invariant => ClientsReady
  BY <1>1 DEF ClientsReady
<1> QED
  BY <1>2, Invariance, PTL

\* The removals: no port is left in the vlan of a network it is not listed
\* for, but those the operator kept.
THEOREM NetworksIsolated == Spec => []Isolated
<1>1. ASSUME Invariant, Finished PROVE Isolated
  <2>1. TypeInv /\ RemoveInv /\ VlanInv /\ pc = "done" /\ err = FALSE /\ kind = "pxe"
    BY <1>1 DEF Invariant, RunInv, Finished, TypeInv
  <2>2. \A k \in Kinds : \A p \in Unlisted(k) : p \in kept \/ port[p].pvid # Vlan[k]
    BY <2>1 DEF RemoveInv, RemovePast, Kinds
  <2>3. \A k \in Kinds : \A p \in Ports \ Client[k] : port[p].pvid = Vlan[k] => p \in Unlisted(k)
    BY <2>1 DEF VlanInv, Unlisted
  <2> QED
    BY <2>2, <2>3 DEF Isolated, Outsider
<1>2. Invariant => Isolated
  BY <1>1 DEF Isolated
<1> QED
  BY <1>2, Invariance, PTL

\* The links of the deployer and of other switches carry what they must, but
\* for those that were in the vlan of a node network and were taken out of it.
THEOREM TrunksReady == Spec => []LinksReady
<1>1. ASSUME Invariant, Finished PROVE LinksReady
  <2>1. TypeInv /\ LinkInv /\ pc = "done" /\ err = FALSE
    BY <1>1 DEF Invariant, RunInv, Finished
  <2>2. \A p \in Deployer \cup Links : Ready(p)
    BY <2>1 DEF LinkInv, LinkPast
  <2>3. \A p \in Deployer \cup Links : Taken(p) => Outsider(shown, p) /\ p \notin kept
    BY DEF Taken, Unlisted, Outsider
  <2> QED
    BY <2>2, <2>3 DEF LinksReady, Ready
<1>2. Invariant => LinksReady
  BY <1>1 DEF LinksReady
<1> QED
  BY <1>2, Invariance, PTL

\* The command given again on a switch that is set up changes no port.
THEOREM RerunIsQuiet == Spec => QuietRerun
<1>1. ASSUME Invariant, [Next]_vars, pc # "read", AllSet(shown) PROVE port' = port
  <2>1. CASE UNCHANGED vars
    BY <2>1 DEF vars
  <2>2. CASE Next /\ pc = "died"
    BY <2>2 DEF Next, Script, ReadPorts, EndVlans, EndLinks, EndClients, EndKind, TrunkDeployer,
                AllowDeployer, SetLink, CreateVlan, NextLink, SetClient, RemovePort, LoseSwitch, Rerun
  <2>3. CASE Next /\ pc # "died"
    BY <1>1, <2>3, QuietStep DEF Invariant, RunInv
  <2> QED
    BY <1>1, <2>1, <2>2, <2>3
<1>2. Invariant /\ [Next]_vars => [pc # "read" /\ AllSet(shown) => port' = port]_vars
  BY <1>1
<1> QED
  BY <1>2, Invariance, PTL DEF Spec, QuietRerun
=============================================================================
