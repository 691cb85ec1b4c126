---------------------------- MODULE DeployProofs ----------------------------
(***************************************************************************)
(* Theorems about Deploy, for any number of node ports, of spare devices   *)
(* and of commands, changes of cabling and kills.  The invariant has four  *)
(* parts: the shape of the records; where a stage is, and what of the      *)
(* inventory it has in memory then (WhereInv); what is true of every pair  *)
(* of addresses in the inventory, in dnsmasq and in Cobbler (TrueInv); and *)
(* what a stage that goes from node to node has done so far (DoneInv).     *)
(***************************************************************************)
EXTENDS Deploy, TLAPS, FiniteSetTheorems

\* The fields of the records: all that the proofs need of their types.
Macs == AllDevices \union {None}
RecShape(r) == r = [mac |-> r.mac, ip |-> r.ip] /\ r.mac \in Macs
NodeShape(x) ==
  /\ x = [ipmi |-> x.ipmi, pxe |-> x.pxe, data |-> x.data]
  /\ RecShape(x.ipmi) /\ RecShape(x.pxe)
Inventory(i) ==
  /\ \E last \in 0 .. N : DOMAIN i = 1 .. last
  /\ i = [n \in DOMAIN i |-> i[n]]
  /\ \A n \in DOMAIN i : NodeShape(i[n])
AtShape ==
  /\ at = [stage |-> at.stage, pc |-> at.pc, all |-> at.all, node |-> at.node]
  /\ at.node \in Nat \ {0} /\ at.all \in BOOLEAN
CobShape ==
  /\ cob = [setup |-> cob.setup, images |-> cob.images, prof |-> cob.prof,
            saved |-> cob.saved, live |-> cob.live]
  /\ cob.saved = [n \in Nodes |-> cob.saved[n]]
HistShape == hist = [given |-> hist.given, torn |-> hist.torn] /\ hist.torn \in BOOLEAN
ServerShape ==
  /\ lease = [d \in AllDevices |-> lease[d]] /\ resv = [d \in AllDevices |-> resv[d]]
  /\ been = [n \in Nodes |-> [k \in Kinds \union {"data"} |-> been[n][k]]]
Shape ==
  /\ Inventory(inv) /\ Inventory(mem) /\ Inventory(next)
  /\ AtShape /\ CobShape /\ HistShape /\ ServerShape

\* Which stage a step is of, and what of the inventory the process holds: it
\* is the file but while it is being written, and has a node for every port
\* once all stages are run and the first is over.
Steps ==
  /\ at.pc = "none" => at.stage = "none" /\ ~at.all
  /\ at.pc \in {"write", "write_part"} => at.stage = "create"
  /\ at.pc = "configure" => at.stage = "cobbler"
  /\ at.pc \in {"poll", "macs", "ips", "count", "complete"} => at.stage \in Kinds
  /\ at.pc = "confirm" => at.stage = "reserve"
  /\ at.pc = "profile" => at.stage = "distros"
  /\ at.pc = "synced" => at.stage = "systems"
  /\ at.pc = "gather_save" => at.stage = "gather"
Held ==
  /\ at.pc \notin {"none", "write", "write_part", "macs", "gather_save"} => mem = inv
  /\ at.pc \notin {"none", "write", "write_part"} => DOMAIN mem = DOMAIN inv
  /\ at.pc \in {"macs", "ips"} => DOMAIN next = DOMAIN mem
  /\ at.pc = "write" => DOMAIN mem = Nodes
  /\ at.all /\ at.stage # "create" => DOMAIN inv = Nodes
AllFound ==
  at.pc = "complete" =>
    \A n \in Nodes : n \in DOMAIN mem /\ None \notin {mem[n][at.stage].mac, mem[n][at.stage].ip}
WhereInv == Steps /\ Held /\ AllFound

\* Every pair of addresses is true of devices that were where b says, and of
\* the pairs g that were reserved: those of an inventory i, those dnsmasq has,
\* and those Cobbler has.  Between the two writes of a poll it is not the file
\* that is true, but the inventory about to be written.
Given(d, ip, g) == ip = <<"pool", d>> \/ <<d, ip>> \in g
TrueIn(i, b, g) ==
  \A n \in DOMAIN i, k \in Kinds :
    /\ i[n][k].mac # None => i[n][k].mac \in b[n][k]
    /\ None \notin {i[n][k].mac, i[n][k].ip} => Given(i[n][k].mac, i[n][k].ip, g)
ServedTrue ==
  \A d \in AllDevices : /\ lease[d] # None => Given(d, lease[d], hist.given)
                        /\ resv[d] # None => Given(d, resv[d], hist.given)
SystemTrue(s) == s # None => Given(s.pxe.mac, s.pxe.ip, hist.given)
SystemsTrue == \A n \in Nodes : SystemTrue(cob.saved[n]) /\ SystemTrue(cob.live[n])
TrueInv ==
  ~hist.torn =>
    /\ ServedTrue /\ SystemsTrue
    /\ at.pc # "ips" => TrueIn(inv, been, hist.given)
    /\ at.pc \notin {"macs", "ips"} => TrueIn(mem, been, hist.given)
    /\ at.pc \in {"macs", "ips"} => TrueIn(next, been, hist.given)

\* What a stage that goes from node to node has done for the nodes before
\* at.node, and leaves to the stages after it.
Reserved(n) ==
  \/ resv[mem[n].ipmi.mac] = Kept(n, "ipmi")
  \/ \E m \in DOMAIN mem \ {n} : mem[m].ipmi.mac = mem[n].ipmi.mac
Confirmed(n) == mem[n].ipmi.ip = Kept(n, "ipmi")
Added(s, n) ==
  /\ cob.prof = "yes" /\ s = [bmc |-> mem[n].ipmi.ip, pxe |-> mem[n].pxe]
  /\ None \notin {mem[n].ipmi.ip, mem[n].pxe.mac, mem[n].pxe.ip}
DoneInv ==
  \A n \in DOMAIN mem :
    /\ At("reserve", "begin") /\ n < at.node => Reserved(n)
    /\ at.pc = "confirm" => Reserved(n) /\ (n < at.node => Confirmed(n))
    /\ at.all /\ at.stage \in {"distros", "systems"} => Reserved(n) /\ Confirmed(n)
    /\ At("systems", "begin") /\ n < at.node => Added(cob.saved[n], n)
    /\ at.pc = "synced" => Added(cob.live[n], n)
-----------------------------------------------------------------------------
(* The operators on an inventory. *)

LEMMA EmptyShape == Inventory(Empty) /\ DOMAIN Empty = {}
<1>1. Empty = [n \in {} |-> [ipmi |-> Blank, pxe |-> Blank, data |-> None]]
  BY DEF Empty, Fresh
<1>2. DOMAIN Empty = 1 .. 0 /\ 0 \in 0 .. N
  BY <1>1, SizesAreNat
<1> QED
  BY <1>1, <1>2 DEF Inventory

LEMMA FreshShape ==
  ASSUME NEW last \in 0 .. N
  PROVE  /\ Inventory(Fresh(1 .. last)) /\ DOMAIN Fresh(1 .. last) = 1 .. last
         /\ \A n \in 1 .. last, k \in Kinds : Fresh(1 .. last)[n][k].mac = None
BY DEF Fresh, Inventory, NodeShape, RecShape, Macs, Blank, Kinds

\* A MAC address is taken from the table, the rest of a node is left alone.
LEMMA AddMacsEffect ==
  ASSUME NEW i, Inventory(i), NEW k \in Kinds, NEW tab \in Tables(k)
  PROVE  LET j == AddMacs(i, k, tab) IN
         /\ Inventory(j) /\ DOMAIN j = DOMAIN i
         /\ \A n \in DOMAIN i :
              /\ j[n][k].ip = i[n][k].ip
              /\ j[n][k].mac = IF tab[n] = None THEN i[n][k].mac ELSE tab[n]
              /\ \A q \in Kinds \ {k} : j[n][q] = i[n][q]
<1> DEFINE j == AddMacs(i, k, tab)
<1>1. DOMAIN j = DOMAIN i /\ j = [n \in DOMAIN j |-> j[n]]
  BY DEF AddMacs
<1>2. ASSUME NEW n \in DOMAIN i
      PROVE  /\ NodeShape(j[n])
             /\ j[n][k].ip = i[n][k].ip
             /\ j[n][k].mac = IF tab[n] = None THEN i[n][k].mac ELSE tab[n]
             /\ \A q \in Kinds \ {k} : j[n][q] = i[n][q]
  <2>1. NodeShape(i[n]) /\ n \in Nodes
    BY SizesAreNat DEF Inventory, Nodes
  <2>2. tab[n] \in Macs
    BY <2>1 DEF Tables, Macs
  <2>3. j[n] = IF tab[n] = None THEN i[n] ELSE [i[n] EXCEPT ![k].mac = tab[n]]
    BY DEF AddMacs
  <2>4. CASE tab[n] = None
    BY <2>1, <2>3, <2>4
  <2>5. CASE tab[n] # None /\ k = "ipmi"
    <3>1. j[n] = [ipmi |-> [mac |-> tab[n], ip |-> i[n].ipmi.ip],
                  pxe |-> i[n].pxe, data |-> i[n].data]
      BY <2>1, <2>3, <2>5 DEF NodeShape, RecShape
    <3> QED
      BY <3>1, <2>1, <2>2, <2>5 DEF NodeShape, RecShape, Kinds
  <2>6. CASE tab[n] # None /\ k = "pxe"
    <3>1. j[n] = [ipmi |-> i[n].ipmi, pxe |-> [mac |-> tab[n], ip |-> i[n].pxe.ip],
                  data |-> i[n].data]
      BY <2>1, <2>3, <2>6 DEF NodeShape, RecShape
    <3> QED
      BY <3>1, <2>1, <2>2, <2>6 DEF NodeShape, RecShape, Kinds
  <2> QED
    BY <2>4, <2>5, <2>6 DEF Kinds
<1> QED
  BY <1>1, <1>2 DEF Inventory

\* An IP address is taken from the lease of the MAC address that is known.
LEMMA AddIpaddrsEffect ==
  ASSUME NEW i, Inventory(i), NEW k \in Kinds
  PROVE  LET j == AddIpaddrs(i, k) IN
         /\ Inventory(j) /\ DOMAIN j = DOMAIN i
         /\ \A n \in DOMAIN i : LET mac == i[n][k].mac IN
              /\ j[n][k].mac = mac
              /\ j[n][k].ip = IF mac = None \/ lease[mac] = None THEN i[n][k].ip ELSE lease[mac]
              /\ \A q \in Kinds \ {k} : j[n][q] = i[n][q]
<1> DEFINE j == AddIpaddrs(i, k)
<1>1. DOMAIN j = DOMAIN i /\ j = [n \in DOMAIN j |-> j[n]]
  BY DEF AddIpaddrs
<1>2. ASSUME NEW n \in DOMAIN i
      PROVE  LET mac == i[n][k].mac IN
             /\ NodeShape(j[n])
             /\ j[n][k].mac = mac
             /\ j[n][k].ip = IF mac = None \/ lease[mac] = None THEN i[n][k].ip ELSE lease[mac]
             /\ \A q \in Kinds \ {k} : j[n][q] = i[n][q]
  <2> DEFINE mac == i[n][k].mac
  <2>1. NodeShape(i[n])
    BY DEF Inventory
  <2>3. j[n] = IF mac = None \/ lease[mac] = None THEN i[n]
               ELSE [i[n] EXCEPT ![k].ip = lease[mac]]
    BY DEF AddIpaddrs
  <2>4. CASE mac = None \/ lease[mac] = None
    BY <2>1, <2>3, <2>4
  <2>5. CASE ~(mac = None \/ lease[mac] = None) /\ k = "ipmi"
    <3>1. j[n] = [ipmi |-> [mac |-> i[n].ipmi.mac, ip |-> lease[mac]],
                  pxe |-> i[n].pxe, data |-> i[n].data]
      BY <2>1, <2>3, <2>5 DEF NodeShape, RecShape
    <3> QED
      BY <3>1, <2>1, <2>5 DEF NodeShape, RecShape, Kinds
  <2>6. CASE ~(mac = None \/ lease[mac] = None) /\ k = "pxe"
    <3>1. j[n] = [ipmi |-> i[n].ipmi, pxe |-> [mac |-> i[n].pxe.mac, ip |-> lease[mac]],
                  data |-> i[n].data]
      BY <2>1, <2>3, <2>6 DEF NodeShape, RecShape
    <3> QED
      BY <3>1, <2>1, <2>6 DEF NodeShape, RecShape, Kinds
  <2> QED
    BY <2>4, <2>5, <2>6 DEF Kinds
<1> QED
  BY <1>1, <1>2 DEF Inventory

\* An address of one node is set.
SetIp(i, m, k, ip) == [i EXCEPT ![m][k].ip = ip]

LEMMA SetIpEffect ==
  ASSUME NEW i, Inventory(i), NEW k \in Kinds, NEW ip, NEW m \in DOMAIN i
  PROVE  LET j == SetIp(i, m, k, ip) IN
         /\ Inventory(j) /\ DOMAIN j = DOMAIN i
         /\ \A n \in DOMAIN i, q \in Kinds :
              /\ j[n][q].mac = i[n][q].mac
              /\ j[n][q].ip = IF n = m /\ q = k THEN ip ELSE i[n][q].ip
<1> DEFINE j == SetIp(i, m, k, ip)
<1>1. NodeShape(i[m])
  BY DEF Inventory
<1>2. /\ k = "ipmi" => j[m] = [ipmi |-> [mac |-> i[m].ipmi.mac, ip |-> ip],
                              pxe |-> i[m].pxe, data |-> i[m].data]
      /\ k = "pxe"  => j[m] = [ipmi |-> i[m].ipmi, data |-> i[m].data,
                              pxe |-> [mac |-> i[m].pxe.mac, ip |-> ip]]
  <2>1. CASE k = "ipmi"
    BY <1>1, <2>1 DEF SetIp, NodeShape, RecShape
  <2>2. CASE k = "pxe"
    BY <1>1, <2>2 DEF SetIp, NodeShape, RecShape
  <2> QED
    BY <2>1, <2>2 DEF Kinds
<1>3. NodeShape(j[m])
  BY <1>1, <1>2 DEF NodeShape, RecShape, Kinds
<1>4. /\ DOMAIN j = DOMAIN i /\ j = [n \in DOMAIN j |-> j[n]]
      /\ \A n \in DOMAIN i : n # m => j[n] = i[n]
  BY DEF SetIp
<1>5. Inventory(j)
  BY <1>3, <1>4 DEF Inventory
<1> QED
  BY <1>1, <1>2, <1>4, <1>5 DEF NodeShape, RecShape, Kinds
-----------------------------------------------------------------------------
(* Between the stages. *)

LEMMA BeginShape == ASSUME NEW s, NEW all \in BOOLEAN, at' = Begin(s, all) PROVE AtShape'
BY DEF Begin, AtShape

LEMMA NextStageEffect ==
  ASSUME Shape, NEW i, Inventory(i), NextStage(i)
  PROVE  /\ Inventory(mem') /\ Inventory(next') /\ AtShape'
         /\ \/ at' = Idle /\ mem' = Empty
            \/ /\ at.all /\ at.stage \in DOMAIN Following
               /\ at' = Begin(Following[at.stage], TRUE) /\ mem' = i
<1>1. \/ at' = Idle
      \/ at' = Begin(Following[at.stage], TRUE)
  BY DEF NextStage
<1>2. AtShape'
  <2>1. CASE at' = Idle
    BY <2>1 DEF Idle, AtShape
  <2>2. CASE at' = Begin(Following[at.stage], TRUE)
    BY <2>2, BeginShape
  <2> QED
    BY <1>1, <2>1, <2>2
<1> QED
  BY <1>2, EmptyShape DEF NextStage

LEMMA ExitEffect ==
  ASSUME Shape, Exit
  PROVE  Inventory(mem') /\ Inventory(next') /\ AtShape' /\ at' = Idle /\ mem' = Empty
BY EmptyShape DEF Exit, Idle, AtShape

LEMMA GoEffect ==
  ASSUME Shape, NEW p, Go(p)
  PROVE  AtShape' /\ at'.stage = at.stage /\ at'.pc = p /\ at'.all = at.all /\ at'.node = at.node
BY DEF Shape, Go, AtShape

LEMMA NodeEffect ==
  ASSUME Shape, NEW n \in Nat \ {0}, NEW p, at' = [at EXCEPT !.pc = p, !.node = n]
  PROVE  AtShape' /\ at'.stage = at.stage /\ at'.pc = p /\ at'.all = at.all /\ at'.node = n
BY DEF Shape, AtShape

\* The nodes of an inventory are the first so many.
LEMMA Passed ==
  ASSUME NEW i, Inventory(i), NEW n \in Nat \ {0}, n \notin DOMAIN i
  PROVE  \A m \in DOMAIN i : m < n
<1>1. PICK last \in 0 .. N : DOMAIN i = 1 .. last
  BY DEF Inventory
<1> QED
  BY <1>1, SizesAreNat
-----------------------------------------------------------------------------
(* The shape of the records. *)

LEMMA ShapeInit == Init => Shape
<1> SUFFICES ASSUME Init PROVE Shape
  OBVIOUS
<1>1. Inventory(inv) /\ Inventory(mem) /\ Inventory(next)
  BY EmptyShape DEF Init
<1>2. AtShape /\ CobShape /\ HistShape
  BY DEF Init, AtShape, CobShape, HistShape, Idle
<1>3. ServerShape
  BY DEF Init, ServerShape
<1> QED
  BY <1>1, <1>2, <1>3 DEF Shape

LEMMA ShapeStep == Shape /\ [Next]_vars => Shape'
<1> SUFFICES ASSUME Shape, [Next]_vars PROVE Shape'
  OBVIOUS
<1>1. CASE UNCHANGED vars
  BY <1>1 DEF vars, Shape, AtShape, CobShape, HistShape, ServerShape
<1>2. ASSUME NEW s, NEW all \in BOOLEAN, Start(s, all) PROVE Shape'
  <2>1. AtShape'
    BY <1>2, BeginShape DEF Start
  <2> QED
    BY <1>2, <2>1 DEF Start, Shape, CobShape, HistShape, ServerShape
<1>3. CASE CreateNodes
  <2>1. PICK last \in 0 .. N : /\ mem' = Fresh(1 .. last)
                               /\ (last = N /\ Go("write")) \/ Go("write_part")
    BY <1>3, SizesAreNat DEF CreateNodes, Nodes
  <2>2. Inventory(mem') /\ AtShape'
    BY <2>1, FreshShape, GoEffect
  <2> QED
    BY <1>3, <2>2 DEF CreateNodes, network, Shape, CobShape, HistShape, ServerShape
<1>4. CASE UpdateNodes
  <2>1. Inventory(mem') /\ Inventory(next') /\ AtShape'
    BY <1>4, NextStageEffect, ExitEffect DEF UpdateNodes, Shape
  <2> QED
    BY <1>4, <2>1 DEF UpdateNodes, network, Shape, CobShape, HistShape, ServerShape
<1>5. CASE CobblerInstall \/ CobblerConfigure \/ DownloadOsImages
  <2>1. Inventory(mem') /\ Inventory(next') /\ AtShape'
    BY <1>5, NextStageEffect, ExitEffect, GoEffect
    DEF CobblerInstall, CobblerConfigure, DownloadOsImages, Shape
  <2>2. CobShape'
    BY <1>5 DEF CobblerInstall, CobblerConfigure, DownloadOsImages, Shape, CobShape
  <2> QED
    BY <1>5, <2>1, <2>2
    DEF CobblerInstall, CobblerConfigure, DownloadOsImages, network, Shape, HistShape, ServerShape
<1>6. ASSUME NEW k \in Kinds, InvAddPorts(k) \/ GetPortStatus(k) \/ Complete(k) PROVE Shape'
  <2>1. Inventory(mem') /\ Inventory(next') /\ AtShape'
    BY <1>6, NextStageEffect, ExitEffect, GoEffect DEF InvAddPorts, GetPortStatus, Complete, Shape
  <2> QED
    BY <1>6, <2>1
    DEF InvAddPorts, GetPortStatus, Complete, network, Shape, CobShape, HistShape, ServerShape
<1>7. ASSUME NEW k \in Kinds, GetPorts(k) PROVE Shape'
  <2>1. PICK tab \in Tables(k) : mem' = AddMacs(mem, k, tab) /\ next' = AddIpaddrs(mem', k)
    BY <1>7 DEF GetPorts
  <2>2. Inventory(mem')
    BY <2>1, AddMacsEffect DEF Shape
  <2>3. Inventory(next')
    BY <2>1, <2>2, AddIpaddrsEffect
  <2>4. AtShape'
    BY <1>7, GoEffect DEF GetPorts
  <2> QED
    BY <1>7, <2>2, <2>3, <2>4 DEF GetPorts, network, Shape, CobShape, HistShape, ServerShape
<1>8. ASSUME NEW k \in Kinds, DumpMacs(k) \/ DumpIpaddrs(k) PROVE Shape'
  <2>1. AtShape'
    BY <1>8, GoEffect DEF DumpMacs, DumpIpaddrs
  <2> QED
    BY <1>8, <2>1 DEF DumpMacs, DumpIpaddrs, network, Shape, CobShape, HistShape, ServerShape
<1>9. CASE ReserveNode
  <2> DEFINE n == at.node
  <2>1. CASE n \notin DOMAIN mem
    <3>1. at' = [at EXCEPT !.pc = "confirm", !.node = 1] /\ 1 \in Nat \ {0}
      BY <1>9, <2>1 DEF ReserveNode
    <3>2. AtShape'
      BY <3>1, NodeEffect, Zenon
    <3> QED
      BY <1>9, <2>1, <3>2 DEF ReserveNode, network, Shape, CobShape, HistShape, ServerShape
  <2>2. CASE n \in DOMAIN mem /\ mem[n].ipmi.mac = None
    <3>1. Exit /\ UNCHANGED <<inv, resv, hist, cob, network>>
      BY <1>9, <2>2 DEF ReserveNode
    <3> QED
      BY <3>1, ExitEffect DEF network, Shape, CobShape, HistShape, ServerShape
  <2>3. CASE n \in DOMAIN mem /\ mem[n].ipmi.mac # None
    <3>1. /\ mem' = [mem EXCEPT ![n].pxe.ip = Kept(n, "pxe")] /\ inv' = mem' /\ next' = next
          /\ at' = [at EXCEPT !.node = n + 1]
          /\ resv' = [resv EXCEPT ![mem[n].ipmi.mac] = Kept(n, "ipmi")]
          /\ UNCHANGED <<cob, network>>
      BY <1>9, <2>3 DEF ReserveNode
    <3>2. HistShape'
      BY <1>9, <2>3 DEF ReserveNode, Shape, HistShape
    <3>3. Inventory(mem')
      <4>1. mem' = SetIp(mem, n, "pxe", Kept(n, "pxe"))
        BY <3>1 DEF SetIp
      <4> QED
        BY <2>3, <4>1, SetIpEffect DEF Shape, Kinds
    <3>4. AtShape'
      BY <3>1 DEF Shape, AtShape
    <3> QED
      BY <3>1, <3>2, <3>3, <3>4 DEF network, Shape, CobShape, ServerShape
  <2> QED
    BY <2>1, <2>2, <2>3
<1>10. CASE Confirm
  <2> DEFINE n == at.node
  <2>1. CASE (NextStage(inv) /\ UNCHANGED inv) \/ (Exit /\ UNCHANGED inv)
    <3>1. Inventory(mem') /\ Inventory(next') /\ AtShape'
      BY <2>1, NextStageEffect, ExitEffect DEF Shape
    <3> QED
      BY <1>10, <2>1, <3>1 DEF Confirm, network, Shape, CobShape, HistShape, ServerShape
  <2>2. CASE n \in DOMAIN mem /\ ~(Exit /\ UNCHANGED inv)
    <3>1. /\ mem' = [mem EXCEPT ![n].ipmi.ip = Kept(n, "ipmi")] /\ inv' = mem' /\ next' = next
          /\ at' = [at EXCEPT !.node = n + 1]
          /\ UNCHANGED <<resv, cob, hist, network>>
      BY <1>10, <2>2 DEF Confirm
    <3>2. Inventory(mem')
      <4>1. mem' = SetIp(mem, n, "ipmi", Kept(n, "ipmi"))
        BY <3>1 DEF SetIp
      <4> QED
        BY <2>2, <4>1, SetIpEffect DEF Shape, Kinds
    <3>3. AtShape'
      BY <3>1 DEF Shape, AtShape
    <3> QED
      BY <3>1, <3>2, <3>3 DEF network, Shape, CobShape, HistShape, ServerShape
  <2> QED
    BY <1>10, <2>1, <2>2 DEF Confirm
<1>11. CASE AddDistro \/ AddProfile
  <2>1. Inventory(mem') /\ Inventory(next') /\ AtShape'
    BY <1>11, NextStageEffect, GoEffect DEF AddDistro, AddProfile, Shape
  <2>2. CobShape'
    BY <1>11 DEF AddDistro, AddProfile, Shape, CobShape
  <2> QED
    BY <1>11, <2>1, <2>2 DEF AddDistro, AddProfile, network, Shape, HistShape, ServerShape
<1>12. CASE AddSystem \/ SystemsAdded
  <2>1. Inventory(mem') /\ Inventory(next')
    BY <1>12, NextStageEffect, ExitEffect DEF AddSystem, SystemsAdded, Shape
  <2>2. AtShape'
    <3>1. CASE at' = [at EXCEPT !.node = at.node + 1]
      BY <3>1 DEF Shape, AtShape
    <3> QED
      BY <1>12, <3>1, NextStageEffect, ExitEffect, GoEffect DEF AddSystem, SystemsAdded, Shape
  <2>3. CobShape'
    BY <1>12 DEF AddSystem, SystemsAdded, Shape, CobShape
  <2> QED
    BY <1>12, <2>1, <2>2, <2>3 DEF AddSystem, SystemsAdded, network, Shape, HistShape, ServerShape
<1>13. CASE Gather
  <2>1. CASE Exit
    BY <1>13, <2>1, ExitEffect DEF Gather, network, Shape, CobShape, HistShape, ServerShape
  <2>2. CASE ~Exit
    <3>1. PICK S \in SUBSET DOMAIN mem :
            mem' = [n \in DOMAIN mem |-> IF n \in S /\ port[n].data # None
                                         THEN [mem[n] EXCEPT !.data = port[n].data] ELSE mem[n]]
      BY <1>13, <2>2 DEF Gather
    <3>2. /\ DOMAIN mem' = DOMAIN mem /\ mem' = [n \in DOMAIN mem' |-> mem'[n]]
          /\ \A n \in DOMAIN mem : NodeShape(mem'[n])
      BY <3>1 DEF Shape, Inventory, NodeShape
    <3>3. Inventory(mem')
      BY <3>2 DEF Shape, Inventory
    <3>4. AtShape'
      BY <1>13, <2>2, GoEffect DEF Gather
    <3> QED
      BY <1>13, <2>2, <3>3, <3>4 DEF Gather, network, Shape, CobShape, HistShape, ServerShape
  <2> QED
    BY <2>1, <2>2
<1>14. CASE GatherSave
  <2>1. Inventory(mem') /\ Inventory(next') /\ AtShape'
    BY <1>14, ExitEffect, GoEffect DEF GatherSave, Shape
  <2> QED
    BY <1>14, <2>1 DEF GatherSave, network, Shape, CobShape, HistShape, ServerShape
<1>15. CASE Kill
  <2>1. Inventory(inv')
    BY <1>15, EmptyShape DEF Kill, Shape
  <2>2. HistShape'
    BY <1>15 DEF Kill, Shape, HistShape
  <2>3. Inventory(mem') /\ Inventory(next') /\ AtShape'
    BY <1>15, ExitEffect DEF Kill
  <2> QED
    BY <1>15, <2>1, <2>2, <2>3 DEF Kill, Shape, CobShape, ServerShape
<1>16. ASSUME NEW n \in Nodes, NEW k \in Kinds \union {"data"}, Plug(n, k) PROVE Shape'
  <2>1. PICK d : been' = IF d = None THEN been ELSE [been EXCEPT ![n][k] = @ \union {d}]
    BY <1>16 DEF Plug
  <2>2. been' = [m \in Nodes |-> [q \in Kinds \union {"data"} |-> been'[m][q]]]
    <3> DEFINE was == [m \in Nodes |-> [q \in Kinds \union {"data"} |-> been[m][q]]]
    <3>1. been = was
      BY DEF Shape, ServerShape
    <3>2. CASE d = None
      BY <2>1, <3>1, <3>2
    <3>3. CASE d # None
      <4>1. been' = [was EXCEPT ![n][k] = @ \union {d}]
        BY <2>1, <3>1, <3>3
      <4>2. been' = [m \in Nodes |-> IF m = n THEN [was[n] EXCEPT ![k] = @ \union {d}] ELSE was[m]]
        BY <4>1
      <4> QED
        BY <4>2
    <3> QED
      BY <3>2, <3>3
  <2>3. ServerShape'
    BY <1>16, <2>2 DEF Plug, Shape, ServerShape
  <2> QED
    BY <1>16, <2>3 DEF Plug, Shape, AtShape, CobShape, HistShape
<1>17. ASSUME NEW n \in Nodes, NEW k \in Kinds, Lease(n, k) PROVE Shape'
  <2>1. ServerShape'
    BY <1>17 DEF Lease, Shape, ServerShape
  <2> QED
    BY <1>17, <2>1 DEF Lease, Shape, AtShape, CobShape, HistShape
<1> QED
  BY <1>1, <1>2, <1>3, <1>4, <1>5, <1>6, <1>7, <1>8, <1>9, <1>10, <1>11, <1>12, <1>13,
     <1>14, <1>15, <1>16, <1>17 DEF Next
-----------------------------------------------------------------------------
(* Where the stages are. *)

LEMMA WhereInit == Init => WhereInv
BY DEF Init, WhereInv, Steps, Held, AllFound, Idle

LEMMA NextStageWhere ==
  ASSUME Shape, Inventory(inv'), NextStage(inv'),
         at.all /\ at.stage \in DOMAIN Following => DOMAIN inv' = Nodes
  PROVE  WhereInv'
<1>1. CASE at' = Idle
  BY <1>1 DEF Idle, WhereInv, Steps, Held, AllFound
<1>2. CASE at' = Begin(Following[at.stage], TRUE) /\ mem' = inv' /\ DOMAIN inv' = Nodes
  BY <1>2 DEF Begin, WhereInv, Steps, Held, AllFound
<1> QED
  BY <1>1, <1>2, NextStageEffect

LEMMA ExitWhere == ASSUME Exit PROVE WhereInv'
BY DEF Exit, Idle, WhereInv, Steps, Held, AllFound

LEMMA WhereStep == Shape /\ WhereInv /\ [Next]_vars => WhereInv'
<1> SUFFICES ASSUME Shape, WhereInv, [Next]_vars PROVE WhereInv'
  OBVIOUS
<1> DEFINE Stay == NextStage(inv) /\ UNCHANGED inv
<1>0. ASSUME Stay, at.stage # "create" PROVE WhereInv'
  BY <1>0, NextStageWhere DEF Shape, WhereInv, Held
<1>1. CASE UNCHANGED vars
  BY <1>1 DEF vars, WhereInv, Steps, Held, AllFound
<1>2. ASSUME NEW s, NEW all \in BOOLEAN, Start(s, all), all => s = "create" PROVE WhereInv'
  BY <1>2 DEF Start, Begin, WhereInv, Steps, Held, AllFound
<1>3. CASE CreateNodes
  <2>1. PICK last \in 0 .. N : /\ mem' = Fresh(1 .. last)
                               /\ (last = N /\ Go("write")) \/ Go("write_part")
    BY <1>3, SizesAreNat DEF CreateNodes, Nodes
  <2>2. at'.pc = "write" => DOMAIN mem' = Nodes
    BY <2>1, FreshShape, GoEffect DEF Nodes
  <2>3. at'.stage = "create" /\ at'.pc \in {"write", "write_part"}
    BY <1>3, <2>1, GoEffect DEF CreateNodes, At
  <2> QED
    BY <2>2, <2>3 DEF WhereInv, Steps, Held, AllFound
<1>4. CASE UpdateNodes
  <2>1. CASE at.pc = "write"
    <3>1. NextStage(inv') /\ Inventory(inv') /\ DOMAIN inv' = Nodes
      BY <1>4, <2>1 DEF UpdateNodes, Shape, WhereInv, Held
    <3> QED
      BY <3>1, NextStageWhere
  <2> QED
    BY <1>4, <2>1, ExitWhere DEF UpdateNodes
<1>5. CASE CobblerInstall \/ CobblerConfigure \/ DownloadOsImages
  <2>1. at.stage \in {"cobbler", "images"} /\ inv' = inv
    BY <1>5 DEF CobblerInstall, CobblerConfigure, DownloadOsImages, At, WhereInv, Steps
  <2>2. CASE Go("configure") /\ UNCHANGED <<mem, next>> /\ At("cobbler", "begin")
    BY <2>1, <2>2, GoEffect DEF At, WhereInv, Steps, Held, AllFound
  <2> QED
    BY <1>5, <1>0, <2>1, <2>2, ExitWhere DEF CobblerInstall, CobblerConfigure, DownloadOsImages
<1>6. ASSUME NEW k \in Kinds, InvAddPorts(k) PROVE WhereInv'
  <2>1. at.stage = k /\ at.pc = "begin" /\ k # "create" /\ inv' = inv
    BY <1>6 DEF InvAddPorts, At, Kinds
  <2>2. CASE Go("poll") /\ UNCHANGED <<mem, next>>
    BY <2>1, <2>2, GoEffect DEF WhereInv, Steps, Held, AllFound
  <2> QED
    BY <1>0, <1>6, <2>1, <2>2 DEF InvAddPorts
<1>7. ASSUME NEW k \in Kinds, GetPorts(k) PROVE WhereInv'
  <2>1. PICK tab \in Tables(k) : mem' = AddMacs(mem, k, tab) /\ next' = AddIpaddrs(mem', k)
    BY <1>7 DEF GetPorts
  <2>2. Inventory(mem') /\ DOMAIN mem' = DOMAIN mem
    BY <2>1, AddMacsEffect DEF Shape
  <2>3. DOMAIN next' = DOMAIN mem'
    BY <2>1, <2>2, AddIpaddrsEffect
  <2>4. at.stage = k /\ at.pc = "poll" /\ inv' = inv /\ Go("macs")
    BY <1>7 DEF GetPorts, At
  <2> QED
    BY <2>2, <2>3, <2>4, GoEffect DEF WhereInv, Steps, Held, AllFound
<1>8. ASSUME NEW k \in Kinds, DumpMacs(k) \/ DumpIpaddrs(k) PROVE WhereInv'
  <2>1. CASE DumpMacs(k)
    <3>1. at.stage = k /\ at.pc = "macs" /\ Go("ips") /\ inv' = mem /\ UNCHANGED <<mem, next>>
      BY <2>1 DEF DumpMacs, At
    <3> QED
      BY <3>1, GoEffect DEF WhereInv, Steps, Held, AllFound
  <2>2. CASE DumpIpaddrs(k)
    <3>1. at.stage = k /\ at.pc = "ips" /\ Go("count") /\ inv' = next /\ mem' = next
      BY <2>2 DEF DumpIpaddrs, At
    <3> QED
      BY <3>1, GoEffect DEF WhereInv, Steps, Held, AllFound
  <2> QED
    BY <1>8, <2>1, <2>2
<1>9. ASSUME NEW k \in Kinds, GetPortStatus(k) PROVE WhereInv'
  <2>1. at.stage = k /\ at.pc = "count" /\ inv' = inv /\ k # "create"
    BY <1>9 DEF GetPortStatus, At, Kinds
  <2>2. CASE Go("complete") /\ UNCHANGED <<mem, next>> /\ Cardinality(PortsFound(k)) = PortsTotal(k)
    <3>1. PortsFound(k) = Nodes
      <4>1. IsFiniteSet(Nodes) /\ PortsFound(k) \subseteq Nodes
        BY FS_Interval, SizesAreNat DEF Nodes, PortsFound
      <4> QED
        BY <2>2, <4>1, FS_Subset DEF PortsTotal
    <3>2. \A n \in Nodes : n \in DOMAIN mem /\ None \notin {mem[n][k].mac, mem[n][k].ip}
      BY <3>1 DEF PortsFound
    <3> QED
      BY <2>1, <2>2, <3>2, GoEffect DEF WhereInv, Steps, Held, AllFound
  <2>3. CASE Go("poll") /\ UNCHANGED <<mem, next>>
    BY <2>1, <2>3, GoEffect DEF WhereInv, Steps, Held, AllFound
  <2> QED
    BY <1>0, <1>9, <2>1, <2>2, <2>3, ExitWhere DEF GetPortStatus
<1>10. ASSUME NEW k \in Kinds, Complete(k) PROVE WhereInv'
  BY <1>0, <1>10 DEF Complete, At, Kinds
<1>11. CASE ReserveNode
  <2> DEFINE n == at.node
  <2>1. at.stage = "reserve" /\ at.pc = "begin" /\ mem = inv
    BY <1>11 DEF ReserveNode, At, WhereInv, Held
  <2>2. CASE n \notin DOMAIN mem
    <3>1. at' = [at EXCEPT !.pc = "confirm", !.node = 1] /\ UNCHANGED <<inv, mem, next>>
      BY <1>11, <2>2 DEF ReserveNode
    <3>2. at'.stage = "reserve" /\ at'.pc = "confirm" /\ at'.all = at.all
      BY <2>1, <3>1 DEF Shape, AtShape
    <3> QED
      BY <2>1, <3>1, <3>2 DEF WhereInv, Steps, Held, AllFound
  <2>3. CASE n \in DOMAIN mem /\ mem[n].ipmi.mac # None
    <3>1. /\ mem' = [mem EXCEPT ![n].pxe.ip = Kept(n, "pxe")] /\ inv' = mem'
          /\ at' = [at EXCEPT !.node = n + 1]
      BY <1>11, <2>3 DEF ReserveNode
    <3>2. at'.stage = "reserve" /\ at'.pc = "begin" /\ at'.all = at.all /\ DOMAIN mem' = DOMAIN mem
      BY <2>1, <3>1 DEF Shape, AtShape
    <3> QED
      BY <2>1, <3>1, <3>2 DEF WhereInv, Steps, Held, AllFound
  <2> QED
    BY <1>11, <2>2, <2>3, ExitWhere DEF ReserveNode
<1>12. CASE Confirm
  <2> DEFINE n == at.node
  <2>1. at.stage = "reserve" /\ at.pc = "confirm" /\ mem = inv
    BY <1>12 DEF Confirm, WhereInv, Steps, Held
  <2>2. CASE /\ mem' = [mem EXCEPT ![n].ipmi.ip = Kept(n, "ipmi")] /\ inv' = mem'
             /\ at' = [at EXCEPT !.node = n + 1]
    <3>1. at'.stage = "reserve" /\ at'.pc = "confirm" /\ at'.all = at.all /\ DOMAIN mem' = DOMAIN mem
      BY <2>1, <2>2 DEF Shape, AtShape
    <3> QED
      BY <2>1, <2>2, <3>1 DEF WhereInv, Steps, Held, AllFound
  <2> QED
    BY <1>0, <1>12, <2>1, <2>2, ExitWhere DEF Confirm
<1>13. CASE AddDistro
  BY <1>13, GoEffect DEF AddDistro, At, WhereInv, Steps, Held, AllFound
<1>14. CASE AddProfile \/ SystemsAdded
  <2>1. at.stage \in {"distros", "systems"}
    BY <1>14 DEF AddProfile, SystemsAdded, WhereInv, Steps
  <2> QED
    BY <1>0, <1>14, <2>1 DEF AddProfile, SystemsAdded
<1>15. CASE AddSystem
  <2>1. at.stage = "systems" /\ at.pc = "begin" /\ inv' = inv
    BY <1>15 DEF AddSystem, At
  <2>2. CASE Go("synced") /\ UNCHANGED <<mem, next>>
    BY <2>1, <2>2, GoEffect DEF WhereInv, Steps, Held, AllFound
  <2>3. CASE at' = [at EXCEPT !.node = at.node + 1] /\ UNCHANGED <<mem, next>>
    <3>1. at'.stage = "systems" /\ at'.pc = "begin" /\ at'.all = at.all
      BY <2>1, <2>3 DEF Shape, AtShape
    <3> QED
      BY <2>1, <2>3, <3>1 DEF WhereInv, Steps, Held, AllFound
  <2> QED
    BY <1>15, <2>2, <2>3, ExitWhere DEF AddSystem
<1>16. CASE Gather \/ GatherSave
  <2>2. CASE Exit
    BY <2>2, ExitWhere
  <2>3. CASE Gather /\ ~Exit
    <3>1. DOMAIN mem' = DOMAIN mem /\ Go("gather_save") /\ inv' = inv
      BY <2>3 DEF Gather
    <3>2. at.stage = "gather" /\ at.pc = "begin"
      BY <2>3 DEF Gather, At
    <3> QED
      BY <3>1, <3>2, GoEffect DEF WhereInv, Steps, Held, AllFound
  <2>4. CASE GatherSave /\ ~Exit
    <3>1. Go("begin") /\ UNCHANGED mem /\ inv' = mem /\ at.pc = "gather_save"
      BY <2>4 DEF GatherSave
    <3> QED
      BY <3>1, GoEffect DEF WhereInv, Steps, Held, AllFound
  <2> QED
    BY <1>16, <2>2, <2>3, <2>4
<1>17. CASE Kill
  BY <1>17, ExitWhere DEF Kill
<1>18. ASSUME NEW n \in Nodes, NEW k, Plug(n, k) \/ Lease(n, k) PROVE WhereInv'
  BY <1>18 DEF Plug, Lease, WhereInv, Steps, Held, AllFound
<1> QED
  BY <1>1, <1>2, <1>3, <1>4, <1>5, <1>6, <1>7, <1>8, <1>9, <1>10, <1>11, <1>12, <1>13,
     <1>14, <1>15, <1>16, <1>17, <1>18 DEF Next
-----------------------------------------------------------------------------
(* What is true of the pairs of addresses. *)

LEMMA EmptyTrue == ASSUME NEW b, NEW g PROVE TrueIn(Empty, b, g)
BY EmptyShape DEF TrueIn

\* It stays true when more devices have been there, and more was reserved.
LEMMA TrueGrows ==
  ASSUME NEW i, Inventory(i), NEW b, NEW c, NEW g, NEW h, TrueIn(i, b, g), g \subseteq h,
         \A n \in Nodes, k \in Kinds : b[n][k] \subseteq c[n][k]
  PROVE  TrueIn(i, c, h)
<1>1. DOMAIN i \subseteq Nodes
  BY SizesAreNat DEF Inventory, Nodes
<1> QED
  BY <1>1 DEF TrueIn, Given

LEMMA HistoryGrows ==
  ASSUME Shape, [Next]_vars
  PROVE  /\ \A n \in Nodes, k \in Kinds : been[n][k] \subseteq been'[n][k]
         /\ hist.given \subseteq hist'.given
         /\ hist.torn => hist'.torn
<1> DEFINE Goal == /\ \A n \in Nodes, k \in Kinds : been[n][k] \subseteq been'[n][k]
                   /\ hist.given \subseteq hist'.given /\ (hist.torn => hist'.torn)
<1>1. CASE UNCHANGED <<been, hist>>
  BY <1>1
<1>2. CASE ReserveNode
  BY <1>2 DEF ReserveNode, network, Shape, HistShape
<1>3. CASE Kill
  BY <1>3 DEF Kill, Shape, HistShape
<1>4. ASSUME NEW m \in Nodes, NEW q \in Kinds \union {"data"}, Plug(m, q) PROVE Goal
  <2>1. PICK d : been' = IF d = None THEN been ELSE [been EXCEPT ![m][q] = @ \union {d}]
    BY <1>4 DEF Plug
  <2>2. been' = been \/ been' = [been EXCEPT ![m] = [been[m] EXCEPT ![q] = been[m][q] \union {d}]]
    BY <2>1
  <2>3. ASSUME NEW n \in Nodes, NEW k \in Kinds PROVE been[n][k] \subseteq been'[n][k]
    <3>1. been = [x \in Nodes |-> [y \in Kinds \union {"data"} |-> been[x][y]]]
      BY DEF Shape, ServerShape
    <3>2. DOMAIN been = Nodes /\ DOMAIN been[m] = Kinds \union {"data"}
      BY <3>1
    <3> QED
      BY <2>2, <3>2
  <2> QED
    BY <1>4, <2>3 DEF Plug
<1>5. ASSUME NEW m \in Nodes, NEW q \in Kinds, Lease(m, q) PROVE Goal
  BY <1>5 DEF Lease
<1>6. CASE UNCHANGED vars
  BY <1>6, <1>1 DEF vars
<1>7. ASSUME NEW st, NEW all, Start(st, all) PROVE Goal
  BY <1>1, <1>7 DEF Start
<1>8. CASE CreateNodes \/ UpdateNodes \/ CobblerInstall \/ CobblerConfigure \/ DownloadOsImages
  BY <1>1, <1>8 DEF CreateNodes, UpdateNodes, CobblerInstall, CobblerConfigure,
     DownloadOsImages, network
<1>9. ASSUME NEW k \in Kinds, \/ InvAddPorts(k) \/ GetPorts(k) \/ DumpMacs(k)
                              \/ DumpIpaddrs(k) \/ GetPortStatus(k) \/ Complete(k)
      PROVE  Goal
  BY <1>1, <1>9 DEF InvAddPorts, GetPorts, DumpMacs, DumpIpaddrs, GetPortStatus, Complete, network
<1>10. CASE \/ Confirm \/ AddDistro \/ AddProfile \/ AddSystem \/ SystemsAdded
            \/ Gather \/ GatherSave
  BY <1>1, <1>10 DEF Confirm, AddDistro, AddProfile, AddSystem, SystemsAdded, Gather,
     GatherSave, network
<1> QED
  BY <1>2, <1>3, <1>4, <1>5, <1>6, <1>7, <1>8, <1>9, <1>10 DEF Next

LEMMA TrueInit == Init => TrueInv
<1> SUFFICES ASSUME Init PROVE TrueInv
  OBVIOUS
<1>1. ServedTrue /\ SystemsTrue
  BY DEF Init, ServedTrue, SystemsTrue, SystemTrue
<1>2. TrueIn(inv, been, hist.given) /\ TrueIn(mem, been, hist.given) /\ TrueIn(next, been, hist.given)
  BY EmptyTrue DEF Init
<1> QED
  BY <1>1, <1>2 DEF TrueInv

\* What dnsmasq and Cobbler have: a line is added for a BMC, a system saved
\* from the inventory, an address given out of either.
LEMMA ServedStep ==
  ASSUME Shape, TrueInv, ~hist.torn, [Next]_vars
  PROVE  ServedTrue' /\ SystemsTrue'
<1>1. ServedTrue /\ SystemsTrue
  BY DEF TrueInv
<1>2. hist.given \subseteq hist'.given
  BY HistoryGrows
<1>3. CASE UNCHANGED <<lease, resv, cob>>
  BY <1>1, <1>2, <1>3 DEF ServedTrue, SystemsTrue, SystemTrue, Given
<1>4. CASE cob'.saved = cob.saved /\ cob'.live = cob.live /\ UNCHANGED <<lease, resv>>
  BY <1>1, <1>2, <1>4 DEF ServedTrue, SystemsTrue, SystemTrue, Given
<1>5. CASE CobblerInstall \/ CobblerConfigure \/ DownloadOsImages \/ AddDistro \/ AddProfile
  <2>1. cob'.saved = cob.saved /\ cob'.live = cob.live
    BY <1>5 DEF CobblerInstall, CobblerConfigure, DownloadOsImages, AddDistro, AddProfile,
       Shape, CobShape
  <2>2. UNCHANGED <<lease, resv>>
    BY <1>5 DEF CobblerInstall, CobblerConfigure, DownloadOsImages, AddDistro, AddProfile, network
  <2> QED
    BY <1>4, <2>1, <2>2
<1>6. CASE ReserveNode
  <2> DEFINE n == at.node
  <2>1. CASE UNCHANGED resv
    BY <1>3, <1>6, <2>1 DEF ReserveNode, network
  <2>2. CASE resv' # resv
    <3>1. /\ resv' = [resv EXCEPT ![mem[n].ipmi.mac] = Kept(n, "ipmi")]
          /\ <<mem[n].ipmi.mac, Kept(n, "ipmi")>> \in hist'.given
          /\ UNCHANGED <<lease, cob>>
      BY <1>6, <2>2 DEF ReserveNode, network, Shape, HistShape
    <3>2. ServedTrue'
      BY <1>1, <1>2, <3>1 DEF ServedTrue, Given, Shape, ServerShape
    <3>3. SystemsTrue'
      BY <1>1, <1>2, <3>1 DEF SystemsTrue, SystemTrue, Given
    <3> QED
      BY <3>2, <3>3
  <2> QED
    BY <2>1, <2>2
<1>7. CASE AddSystem
  <2> DEFINE n == at.node
  <2>1. UNCHANGED <<lease, resv, hist>> /\ At("systems", "begin")
    BY <1>7 DEF AddSystem, network
  <2>2. ServedTrue'
    BY <1>1, <2>1 DEF ServedTrue, Given
  <2>3. CASE UNCHANGED cob
    BY <1>3, <2>1, <2>3
  <2>4. CASE cob' = [cob EXCEPT !.live = cob.saved]
    <3>1. cob'.saved = cob.saved /\ cob'.live = cob.saved
      BY <2>4 DEF Shape, CobShape
    <3> QED
      BY <1>1, <2>1, <2>2, <3>1 DEF SystemsTrue, SystemTrue
  <2>5. CASE /\ n \in DOMAIN mem /\ Sendable(n)
             /\ cob' = [cob EXCEPT !.saved[n] = [bmc |-> mem[n].ipmi.ip, pxe |-> mem[n].pxe]]
    <3> DEFINE new == [bmc |-> mem[n].ipmi.ip, pxe |-> mem[n].pxe]
    <3>1. cob'.live = cob.live
      BY <2>5 DEF Shape, CobShape
    <3>2. \A m \in Nodes : cob'.saved[m] = cob.saved[m] \/ cob'.saved[m] = new
      BY <2>5 DEF Shape, CobShape
    <3>3. Given(mem[n].pxe.mac, mem[n].pxe.ip, hist.given)
      <4>1. TrueIn(mem, been, hist.given)
        BY <2>1 DEF At, TrueInv
      <4> QED
        BY <2>5, <4>1 DEF TrueIn, Sendable, Kinds
    <3> QED
      BY <1>1, <2>1, <2>2, <3>1, <3>2, <3>3 DEF SystemsTrue, SystemTrue
  <2> QED
    BY <1>7, <2>3, <2>4, <2>5 DEF AddSystem
<1>8. ASSUME NEW n \in Nodes, NEW k \in Kinds, Lease(n, k) PROVE ServedTrue' /\ SystemsTrue'
  <2> DEFINE d == port[n][k]
  <2>1. lease' = [lease EXCEPT ![d] = KeptFor(d)] /\ d # None /\ UNCHANGED <<resv, cob, hist>>
    BY <1>8 DEF Lease
  <2>2. SystemsTrue'
    BY <1>1, <2>1 DEF SystemsTrue, SystemTrue
  <2>3. CASE d \notin AllDevices
    BY <1>1, <2>1, <2>2, <2>3 DEF ServedTrue, Shape, ServerShape
  <2>4. CASE d \in AllDevices
    <3>1. KeptFor(d) # None => Given(d, KeptFor(d), hist.given)
      <4>1. CASE resv[d] # None
        BY <1>1, <2>4, <4>1 DEF KeptFor, ServedTrue
      <4>2. CASE resv[d] = None /\ \E m \in Nodes : cob.live[m] # None /\ cob.live[m].pxe.mac = d
        <5> DEFINE Which(s) == s # None /\ s.pxe.mac = d
                   s0 == CHOOSE s \in {cob.live[m] : m \in Nodes} : Which(s)
        <5>1. \E s \in {cob.live[m] : m \in Nodes} : Which(s)
          BY <4>2
        <5>2. s0 \in {cob.live[m] : m \in Nodes} /\ Which(s0)
          <6> HIDE DEF Which
          <6> QED
            BY <5>1
        <5>3. KeptFor(d) = s0.pxe.ip
          BY <4>2 DEF KeptFor
        <5> QED
          BY <1>1, <5>2, <5>3 DEF SystemsTrue, SystemTrue
      <4>3. CASE resv[d] = None /\ ~\E m \in Nodes : cob.live[m] # None /\ cob.live[m].pxe.mac = d
        BY <4>3 DEF KeptFor, Given
      <4> QED
        BY <4>1, <4>2, <4>3
    <3> HIDE DEF d
    <3>2. \A e \in AllDevices : lease'[e] = IF e = d THEN KeptFor(d) ELSE lease[e]
      BY <2>1 DEF Shape, ServerShape
    <3>3. ServedTrue'
      BY <1>1, <2>1, <3>1, <3>2 DEF ServedTrue
    <3> QED
      BY <2>2, <3>3
  <2> QED
    BY <2>3, <2>4
<1>9. CASE UNCHANGED vars
  BY <1>3, <1>9 DEF vars
<1>10. ASSUME NEW st, NEW all, Start(st, all) PROVE ServedTrue' /\ SystemsTrue'
  BY <1>3, <1>10 DEF Start
<1>11. CASE \/ CreateNodes \/ UpdateNodes \/ Confirm \/ SystemsAdded \/ Gather \/ GatherSave \/ Kill
  BY <1>3, <1>11 DEF CreateNodes, UpdateNodes, Confirm, SystemsAdded, Gather, GatherSave, Kill, network
<1>12. ASSUME NEW k \in Kinds, \/ InvAddPorts(k) \/ GetPorts(k) \/ DumpMacs(k)
                               \/ DumpIpaddrs(k) \/ GetPortStatus(k) \/ Complete(k)
       PROVE  ServedTrue' /\ SystemsTrue'
  BY <1>3, <1>12 DEF InvAddPorts, GetPorts, DumpMacs, DumpIpaddrs, GetPortStatus, Complete, network
<1>13. ASSUME NEW n, NEW k, Plug(n, k) PROVE ServedTrue' /\ SystemsTrue'
  BY <1>3, <1>13 DEF Plug
<1> QED
  BY <1>5, <1>6, <1>7, <1>8, <1>9, <1>10, <1>11, <1>12, <1>13 DEF Next

\* A step that leaves the file alone, out of a poll: the inventory is kept in
\* memory, dropped, or handed to the next stage.
LEMMA TrueStay ==
  ASSUME Shape, TrueInv, [Next]_vars, inv' = inv, at.pc \notin {"macs", "ips"},
         \/ NextStage(inv) \/ Exit
         \/ mem' = mem /\ at'.pc \notin {"macs", "ips"}
  PROVE  TrueInv'
<1> SUFFICES ASSUME ~hist'.torn PROVE TrueInv'
  BY DEF TrueInv
<1>1. ~hist.torn
  BY HistoryGrows
<1>2. ServedTrue' /\ SystemsTrue'
  BY <1>1, ServedStep
<1>3. TrueIn(inv, been', hist'.given) /\ TrueIn(mem, been', hist'.given)
  BY <1>1, HistoryGrows, TrueGrows DEF TrueInv, Shape
<1>4. at'.pc \notin {"macs", "ips"}
  BY NextStageEffect DEF Exit, Idle, Begin, Shape
<1>5. mem' = mem \/ mem' = inv \/ mem' = Empty
  BY NextStageEffect DEF Exit, Shape
<1>6. TrueIn(mem', been', hist'.given)
  BY <1>3, <1>5, EmptyTrue
<1> QED
  BY <1>2, <1>3, <1>4, <1>6 DEF TrueInv

LEMMA TrueStep == Shape /\ WhereInv /\ TrueInv /\ [Next]_vars => TrueInv'
<1> SUFFICES ASSUME Shape, WhereInv, TrueInv, [Next]_vars, ~hist'.torn PROVE TrueInv'
  BY DEF TrueInv
<1> DEFINE b == been'
           g == hist'.given
<1> HIDE DEF b, g
<1>0. /\ ~hist.torn /\ ServedTrue' /\ SystemsTrue'
      /\ at.pc # "ips" => TrueIn(inv, b, g)
      /\ at.pc \notin {"macs", "ips"} => TrueIn(mem, b, g)
      /\ at.pc \in {"macs", "ips"} => TrueIn(next, b, g)
      /\ hist.given \subseteq g
  <2>1. ~hist.torn /\ hist.given \subseteq hist'.given
    BY HistoryGrows
  <2>2. \A i : Inventory(i) /\ TrueIn(i, been, hist.given) => TrueIn(i, been', hist'.given)
    BY HistoryGrows, TrueGrows
  <2> QED
    BY <2>1, <2>2, ServedStep DEF TrueInv, Shape, b, g
<1>a. ASSUME at'.pc # "ips" => TrueIn(inv', b, g),
             at'.pc \notin {"macs", "ips"} => TrueIn(mem', b, g),
             at'.pc \in {"macs", "ips"} => TrueIn(next', b, g)
      PROVE  TrueInv'
  BY <1>0, <1>a DEF TrueInv, b, g
<1>e. TrueIn(Empty, b, g)
  BY EmptyTrue
<1>1. CASE UNCHANGED <<inv, mem, next, at>>
  BY <1>0, <1>a, <1>1
<1>2. ASSUME NEW st, NEW all, Start(st, all) PROVE TrueInv'
  <2>1. inv' = inv /\ mem' = inv /\ at'.pc = "begin" /\ at.pc = "none"
    BY <1>2 DEF Start, Begin, Idle
  <2> QED
    BY <1>0, <1>a, <2>1
<1>3. CASE CreateNodes
  <2>1. PICK last \in 0 .. N : /\ mem' = Fresh(1 .. last)
                               /\ (last = N /\ Go("write")) \/ Go("write_part")
    BY <1>3, SizesAreNat DEF CreateNodes, Nodes
  <2>2. TrueIn(mem', b, g)
    BY <2>1, FreshShape DEF TrueIn
  <2>3. inv' = inv /\ at.pc = "begin" /\ at'.pc \in {"write", "write_part"}
    BY <1>3, <2>1, GoEffect DEF CreateNodes, At
  <2> QED
    BY <1>0, <1>a, <2>2, <2>3
<1>4. CASE UpdateNodes
  <2>1. inv' = mem /\ at.pc \in {"write", "write_part"}
    BY <1>4 DEF UpdateNodes
  <2>2. /\ mem' = mem \/ mem' = Empty
        /\ at'.pc \in {"none", "begin"}
    BY <1>4, NextStageEffect, ExitEffect DEF UpdateNodes, Shape, Begin, Idle
  <2> QED
    BY <1>0, <1>a, <1>e, <2>1, <2>2
<1>5. CASE \/ CobblerInstall \/ CobblerConfigure \/ DownloadOsImages
  <2>1. inv' = inv /\ at.pc \in {"begin", "configure"}
    BY <1>5 DEF CobblerInstall, CobblerConfigure, DownloadOsImages, At
  <2>2. NextStage(inv) \/ Exit \/ (Go("configure") /\ mem' = mem)
    BY <1>5 DEF CobblerInstall, CobblerConfigure, DownloadOsImages
  <2> QED
    BY <2>1, <2>2, GoEffect, TrueStay
<1>6. ASSUME NEW k \in Kinds, InvAddPorts(k) \/ GetPortStatus(k) \/ Complete(k) PROVE TrueInv'
  <2>1. inv' = inv /\ at.pc \in {"begin", "count", "complete"}
    BY <1>6 DEF InvAddPorts, GetPortStatus, Complete, At
  <2>2. NextStage(inv) \/ Exit \/ ((Go("poll") \/ Go("complete")) /\ mem' = mem)
    BY <1>6 DEF InvAddPorts, GetPortStatus, Complete
  <2> QED
    BY <2>1, <2>2, GoEffect, TrueStay
<1>7. ASSUME NEW k \in Kinds, GetPorts(k) PROVE TrueInv'
  <2>1. PICK tab \in Tables(k) : mem' = AddMacs(mem, k, tab) /\ next' = AddIpaddrs(mem', k)
    BY <1>7 DEF GetPorts
  <2>2. at.pc = "poll" /\ at'.pc = "macs" /\ inv' = inv /\ b = been /\ g = hist.given
    BY <1>7, GoEffect DEF GetPorts, At, network, b, g
  <2>3. TrueIn(mem, b, g) /\ ServedTrue
    BY <1>0, <2>2 DEF TrueInv
  <2>4. DOMAIN mem \subseteq Nodes
    BY SizesAreNat DEF Shape, Inventory, Nodes
  <2>5. ASSUME NEW n \in DOMAIN mem
        PROVE  tab[n] # None => tab[n] \in b[n][k] /\ tab[n] \in AllDevices /\ lease[tab[n]] # None
    BY <2>2, <2>4 DEF Tables, Leased
  <2> DEFINE i == AddMacs(mem, k, tab)
             j == AddIpaddrs(i, k)
  <2>6. /\ Inventory(i) /\ DOMAIN i = DOMAIN mem
        /\ \A n \in DOMAIN mem :
             /\ i[n][k].ip = mem[n][k].ip
             /\ i[n][k].mac = IF tab[n] = None THEN mem[n][k].mac ELSE tab[n]
             /\ \A q \in Kinds \ {k} : i[n][q] = mem[n][q]
    BY AddMacsEffect DEF Shape
  <2>7. /\ Inventory(j) /\ DOMAIN j = DOMAIN i
        /\ \A n \in DOMAIN i : LET mac == i[n][k].mac IN
             /\ j[n][k].mac = mac
             /\ j[n][k].ip = IF mac = None \/ lease[mac] = None THEN i[n][k].ip ELSE lease[mac]
             /\ \A q \in Kinds \ {k} : j[n][q] = i[n][q]
    BY <2>6, AddIpaddrsEffect
  <2> HIDE DEF i, j
  <2>8. ASSUME NEW n \in DOMAIN j, NEW q \in Kinds
        PROVE  /\ j[n][q].mac # None => j[n][q].mac \in b[n][q]
               /\ None \notin {j[n][q].mac, j[n][q].ip} => Given(j[n][q].mac, j[n][q].ip, g)
    <3>1. /\ mem[n][q].mac # None => mem[n][q].mac \in b[n][q]
          /\ None \notin {mem[n][q].mac, mem[n][q].ip} => Given(mem[n][q].mac, mem[n][q].ip, g)
      BY <2>3, <2>6, <2>7 DEF TrueIn
    <3>2. CASE q # k
      BY <2>6, <2>7, <3>1, <3>2
    <3>3. CASE q = k
      <4> DEFINE mac == i[n][k].mac
      <4>1. /\ mac = IF tab[n] = None THEN mem[n][k].mac ELSE tab[n]
            /\ j[n][k].mac = mac
            /\ j[n][k].ip = IF mac = None \/ lease[mac] = None THEN mem[n][k].ip ELSE lease[mac]
        BY <2>6, <2>7
      <4>2. mac # None => mac \in AllDevices
        <5>1. mac \in Macs
          BY <2>6, <2>7, <3>3 DEF Inventory, NodeShape, RecShape, Kinds
        <5> QED
          BY <5>1 DEF Macs
      <4>3. mac # None => mac \in b[n][k]
        BY <2>5, <2>6, <2>7, <3>1, <3>3, <4>1
      <4>4. None \notin {mac, j[n][k].ip} => Given(mac, j[n][k].ip, g)
        <5>1. CASE mac # None /\ lease[mac] # None
          BY <2>2, <2>3, <4>1, <4>2, <5>1 DEF ServedTrue
        <5>2. CASE mac # None /\ lease[mac] = None
          BY <2>5, <2>6, <2>7, <3>1, <3>3, <4>1, <5>2
        <5> QED
          BY <5>1, <5>2
      <4> HIDE DEF mac
      <4> QED
        BY <3>3, <4>1, <4>3, <4>4
    <3> QED
      BY <3>2, <3>3
  <2>9. TrueIn(j, b, g)
    BY <2>8 DEF TrueIn
  <2>10. next' = j
    BY <2>1 DEF i, j
  <2> QED
    BY <1>0, <1>a, <2>2, <2>9, <2>10
<1>8. ASSUME NEW k \in Kinds, DumpMacs(k) \/ DumpIpaddrs(k) PROVE TrueInv'
  <2>1. CASE DumpMacs(k)
    <3>1. at.pc = "macs" /\ at'.pc = "ips" /\ next' = next
      BY <2>1, GoEffect DEF DumpMacs, At
    <3> QED
      BY <1>0, <1>a, <3>1
  <2>2. CASE DumpIpaddrs(k)
    <3>1. at.pc = "ips" /\ at'.pc = "count" /\ inv' = next /\ mem' = next
      BY <2>2, GoEffect DEF DumpIpaddrs, At
    <3> QED
      BY <1>0, <1>a, <3>1
  <2> QED
    BY <1>8, <2>1, <2>2
<1>9. CASE ReserveNode
  <2> DEFINE n == at.node
  <2>1. at.pc = "begin" /\ at.stage = "reserve"
    BY <1>9 DEF ReserveNode, At
  <2>2. CASE n \notin DOMAIN mem
    <3>1. at' = [at EXCEPT !.pc = "confirm", !.node = 1] /\ UNCHANGED <<inv, mem>>
      BY <1>9, <2>2 DEF ReserveNode
    <3>2. at'.pc = "confirm"
      BY <3>1 DEF Shape, AtShape
    <3> QED
      BY <2>1, <3>1, <3>2, TrueStay
  <2>3. CASE n \in DOMAIN mem /\ mem[n].ipmi.mac = None
    <3>1. Exit /\ inv' = inv
      BY <1>9, <2>3 DEF ReserveNode
    <3> QED
      BY <2>1, <3>1, TrueStay
  <2>4. CASE n \in DOMAIN mem /\ mem[n].ipmi.mac # None
    <3>1. /\ mem' = [mem EXCEPT ![n].pxe.ip = Kept(n, "pxe")] /\ inv' = mem'
          /\ at' = [at EXCEPT !.node = n + 1]
      BY <1>9, <2>4 DEF ReserveNode
    <3>2. <<mem[n].pxe.mac, Kept(n, "pxe")>> \in g
      BY <1>9, <2>4 DEF ReserveNode, Shape, HistShape, g
    <3>3. at'.pc = "begin"
      BY <2>1, <3>1 DEF Shape, AtShape
    <3>4. TrueIn(mem, b, g)
      BY <1>0, <2>1
    <3>5. TrueIn(mem', b, g)
      <4>1. \A m \in DOMAIN mem, q \in Kinds :
              /\ mem'[m][q].mac = mem[m][q].mac
              /\ mem'[m][q].ip = IF m = n /\ q = "pxe" THEN Kept(n, "pxe") ELSE mem[m][q].ip
        <5>1. Inventory(mem) /\ "pxe" \in Kinds
          BY DEF Shape, Kinds
        <5>2. mem' = SetIp(mem, n, "pxe", Kept(n, "pxe")) /\ n \in DOMAIN mem
          BY <2>4, <3>1, Zenon DEF SetIp
        <5> QED
          BY <5>1, <5>2, SetIpEffect
      <4>2. DOMAIN mem' = DOMAIN mem
        BY <3>1
      <4>3. Given(mem[n].pxe.mac, Kept(n, "pxe"), g)
        BY <3>2 DEF Given
      <4> QED
        BY <3>4, <4>1, <4>2, <4>3 DEF TrueIn
    <3> QED
      BY <1>a, <3>1, <3>3, <3>5
  <2> QED
    BY <2>2, <2>3, <2>4
<1>10. CASE Confirm
  <2> DEFINE n == at.node
  <2>1. at.pc = "confirm" /\ g = hist.given
    BY <1>10 DEF Confirm, g
  <2>2. CASE UNCHANGED inv /\ (NextStage(inv) \/ Exit)
    BY <2>1, <2>2, TrueStay
  <2>3. CASE /\ n \in DOMAIN mem /\ mem' = [mem EXCEPT ![n].ipmi.ip = Kept(n, "ipmi")]
             /\ inv' = mem' /\ at' = [at EXCEPT !.node = n + 1]
             /\ lease[mem[n].ipmi.mac] = Kept(n, "ipmi") \/ mem[n].ipmi.ip = Kept(n, "ipmi")
    <3>1. at'.pc = "confirm"
      BY <2>1, <2>3 DEF Shape, AtShape
    <3>2. TrueIn(mem, b, g) /\ ServedTrue
      BY <1>0, <2>1 DEF TrueInv
    <3>3. mem[n].ipmi.mac # None => mem[n].ipmi.mac \in AllDevices
      BY <2>3 DEF Shape, Inventory, NodeShape, RecShape, Macs
    <3>4. None \notin {mem[n].ipmi.mac, Kept(n, "ipmi")}
            => Given(mem[n].ipmi.mac, Kept(n, "ipmi"), g)
      <4>1. CASE lease[mem[n].ipmi.mac] = Kept(n, "ipmi")
        BY <2>1, <3>2, <3>3, <4>1 DEF ServedTrue
      <4>2. CASE mem[n].ipmi.ip = Kept(n, "ipmi")
        BY <2>3, <3>2, <4>2 DEF TrueIn, Kinds
      <4> QED
        BY <2>3, <4>1, <4>2
    <3>5. TrueIn(mem', b, g)
      <4>1. \A m \in DOMAIN mem, q \in Kinds :
              /\ mem'[m][q].mac = mem[m][q].mac
              /\ mem'[m][q].ip = IF m = n /\ q = "ipmi" THEN Kept(n, "ipmi") ELSE mem[m][q].ip
        <5>1. Inventory(mem) /\ "ipmi" \in Kinds
          BY DEF Shape, Kinds
        <5>2. mem' = SetIp(mem, n, "ipmi", Kept(n, "ipmi")) /\ n \in DOMAIN mem
          BY <2>3, Zenon DEF SetIp
        <5> QED
          BY <5>1, <5>2, SetIpEffect
      <4>2. DOMAIN mem' = DOMAIN mem
        BY <2>3
      <4> QED
        BY <3>2, <3>4, <4>1, <4>2 DEF TrueIn, Kinds
    <3> QED
      BY <1>a, <2>3, <3>1, <3>5
  <2> QED
    BY <1>10, <2>2, <2>3 DEF Confirm
<1>11. CASE AddDistro \/ AddProfile \/ SystemsAdded
  <2>1. inv' = inv /\ at.pc \in {"begin", "profile", "synced"}
    BY <1>11 DEF AddDistro, AddProfile, SystemsAdded, At
  <2>2. NextStage(inv) \/ (Go("profile") /\ mem' = mem)
    BY <1>11 DEF AddDistro, AddProfile, SystemsAdded
  <2> QED
    BY <2>1, <2>2, GoEffect, TrueStay
<1>12. CASE AddSystem
  <2>1. inv' = inv /\ at.pc = "begin"
    BY <1>12 DEF AddSystem, At
  <2>2. Exit \/ (mem' = mem /\ (Go("synced") \/ at' = [at EXCEPT !.node = at.node + 1]))
    BY <1>12 DEF AddSystem
  <2>3. CASE Exit
    BY <2>1, <2>3, TrueStay
  <2>4. CASE mem' = mem /\ Go("synced")
    BY <2>1, <2>4, GoEffect, TrueStay
  <2>5. CASE mem' = mem /\ at' = [at EXCEPT !.node = at.node + 1]
    <3>1. at'.pc = "begin"
      BY <2>1, <2>5 DEF Shape, AtShape
    <3> QED
      BY <2>1, <2>5, <3>1, TrueStay
  <2> QED
    BY <2>2, <2>3, <2>4, <2>5
<1>13. CASE Gather
  <2>1. at.pc = "begin" /\ inv' = inv
    BY <1>13 DEF Gather, At
  <2>2. CASE Exit
    BY <2>1, <2>2, TrueStay
  <2>3. CASE ~Exit
    <3>1. PICK S \in SUBSET DOMAIN mem :
            mem' = [n \in DOMAIN mem |-> IF n \in S /\ port[n].data # None
                                         THEN [mem[n] EXCEPT !.data = port[n].data] ELSE mem[n]]
      BY <1>13, <2>3 DEF Gather
    <3>2. at'.pc = "gather_save"
      BY <1>13, <2>3, GoEffect DEF Gather
    <3>3. DOMAIN mem' = DOMAIN mem /\ \A n \in DOMAIN mem, q \in Kinds : mem'[n][q] = mem[n][q]
      BY <3>1 DEF Shape, Inventory, NodeShape, Kinds
    <3>4. TrueIn(mem', b, g)
      BY <1>0, <2>1, <3>3 DEF TrueIn
    <3> QED
      BY <1>0, <1>a, <2>1, <3>2, <3>4
  <2> QED
    BY <2>2, <2>3
<1>14. CASE GatherSave
  <2>1. inv' = mem /\ at.pc = "gather_save"
    BY <1>14 DEF GatherSave
  <2>2. (Exit \/ mem' = mem) /\ at'.pc \in {"none", "begin"}
    BY <1>14, GoEffect, ExitEffect DEF GatherSave, Idle
  <2>3. mem' = mem \/ mem' = Empty
    BY <2>2 DEF Exit
  <2> QED
    BY <1>0, <1>a, <1>e, <2>1, <2>2, <2>3
<1>15. CASE Kill
  <2>1. mem' = Empty /\ at'.pc = "none" /\ inv' \in {inv, Empty}
    BY <1>15, ExitEffect DEF Kill, Idle
  <2>2. TrueIn(inv, b, g)
    <3>1. CASE at.pc = "ips"
      <4>1. mem = next
        BY <1>15, <3>1 DEF Kill, Shape, HistShape
      <4> QED
        BY <1>0, <3>1, <4>1 DEF WhereInv, Held
    <3> QED
      BY <1>0, <3>1
  <2> QED
    BY <1>a, <1>e, <2>1, <2>2
<1>16. ASSUME NEW n, NEW k, Plug(n, k) \/ Lease(n, k) PROVE TrueInv'
  BY <1>1, <1>16 DEF Plug, Lease
<1> QED
  BY <1>1, <1>2, <1>3, <1>4, <1>5, <1>6, <1>7, <1>8, <1>9, <1>10, <1>11, <1>12, <1>13,
     <1>14, <1>15, <1>16 DEF Next, vars
-----------------------------------------------------------------------------
(* What the stages that go from node to node have done. *)

LEMMA DoneInit == Init => DoneInv
<1> SUFFICES ASSUME Init PROVE DoneInv
  OBVIOUS
<1>1. DOMAIN mem = {}
  BY EmptyShape DEF Init
<1> QED
  BY <1>1 DEF DoneInv

\* Nothing is claimed at the start of a stage, but of distros and systems when
\* all are run.
LEMMA DoneBegin ==
  ASSUME NEW s, NEW all \in BOOLEAN, at' = Begin(s, all), Inventory(mem'),
         all /\ s \in {"distros", "systems"} => \A n \in DOMAIN mem' : (Reserved(n) /\ Confirmed(n))'
  PROVE  DoneInv'
<1>1. \A n \in DOMAIN mem' : ~(n < 1)
  BY SizesAreNat DEF Inventory
<1> QED
  BY <1>1 DEF DoneInv, Begin, At

LEMMA DoneIdle == ASSUME mem' = Empty PROVE DoneInv'
BY EmptyShape DEF DoneInv

\* The next of all the stages is begun with the inventory as it is.
LEMMA DoneNext ==
  ASSUME Shape, NEW i, Inventory(i), NextStage(i), UNCHANGED resv,
         at.all /\ at.stage \in {"reserve", "distros"} =>
           i = mem /\ \A n \in DOMAIN mem : Reserved(n) /\ Confirmed(n)
  PROVE  DoneInv'
<1>1. CASE mem' = Empty
  BY <1>1, DoneIdle
<1>2. CASE /\ at.all /\ at.stage \in DOMAIN Following
           /\ at' = Begin(Following[at.stage], TRUE) /\ mem' = i
  <2>1. Following[at.stage] \in {"distros", "systems"} => at.stage \in {"reserve", "distros"}
    BY <1>2 DEF Following
  <2>2. Following[at.stage] \in {"distros", "systems"} =>
          \A n \in DOMAIN mem' : (Reserved(n) /\ Confirmed(n))'
    BY <1>2, <2>1 DEF Reserved, Confirmed
  <2> QED
    BY <1>2, <2>2, DoneBegin
<1> QED
  BY <1>1, <1>2, NextStageEffect

\* Elsewhere than in the last stages nothing is claimed.
LEMMA DoneElsewhere ==
  ASSUME at'.stage \notin {"reserve", "distros", "systems"}, at'.pc \notin {"confirm", "synced"}
  PROVE  DoneInv'
BY DEF DoneInv, At

LEMMA DoneStep == Shape /\ WhereInv /\ DoneInv /\ [Next]_vars => DoneInv'
<1> SUFFICES ASSUME Shape, WhereInv, DoneInv, [Next]_vars PROVE DoneInv'
  OBVIOUS
<1>1. CASE UNCHANGED <<mem, at, resv, cob>>
  BY <1>1 DEF DoneInv, At, Reserved, Confirmed, Added
<1>2. ASSUME NEW s, NEW all \in BOOLEAN, Start(s, all), all => s = "create" PROVE DoneInv'
  <2>1. at' = Begin(s, all) /\ Inventory(mem')
    BY <1>2 DEF Start, Shape
  <2> QED
    BY <1>2, <2>1, DoneBegin
<1>3. CASE CreateNodes
  <2>1. at'.stage = "create" /\ at'.pc \in {"write", "write_part"}
    BY <1>3, GoEffect DEF CreateNodes, At
  <2> QED
    BY <2>1, DoneElsewhere
<1>4. CASE UpdateNodes
  <2>1. at.stage = "create"
    BY <1>4 DEF UpdateNodes, WhereInv, Steps
  <2> QED
    BY <1>4, <2>1, DoneNext, DoneIdle DEF UpdateNodes, Exit, Shape
<1>5. CASE CobblerInstall \/ CobblerConfigure \/ DownloadOsImages
  <2>1. at.stage \in {"cobbler", "images"}
    BY <1>5 DEF CobblerInstall, CobblerConfigure, DownloadOsImages, At, WhereInv, Steps
  <2>2. NextStage(inv) \/ Exit \/ Go("configure")
    BY <1>5 DEF CobblerInstall, CobblerConfigure, DownloadOsImages
  <2>3. CASE NextStage(inv) /\ UNCHANGED resv
    BY <2>1, <2>3, DoneNext DEF Shape
  <2> QED
    BY <1>5, <2>1, <2>2, <2>3, DoneElsewhere, DoneIdle, GoEffect
    DEF CobblerInstall, CobblerConfigure, DownloadOsImages, Exit
<1>6. ASSUME NEW k \in Kinds, \/ InvAddPorts(k) \/ GetPorts(k) \/ DumpMacs(k)
                              \/ DumpIpaddrs(k) \/ GetPortStatus(k) \/ Complete(k)
      PROVE  DoneInv'
  <2>1. at.stage = k /\ UNCHANGED resv
    BY <1>6 DEF InvAddPorts, GetPorts, DumpMacs, DumpIpaddrs, GetPortStatus, Complete, At
  <2>2. \/ NextStage(inv) \/ Exit
        \/ \E p \in {"poll", "macs", "ips", "count", "complete"} : Go(p)
    BY <1>6 DEF InvAddPorts, GetPorts, DumpMacs, DumpIpaddrs, GetPortStatus, Complete
  <2>3. CASE NextStage(inv)
    BY <2>1, <2>3, DoneNext DEF Shape, Kinds
  <2>4. CASE Exit
    BY <2>4, DoneIdle DEF Exit
  <2>5. ASSUME NEW p \in {"poll", "macs", "ips", "count", "complete"}, Go(p) PROVE DoneInv'
    BY <2>1, <2>5, GoEffect, DoneElsewhere DEF Kinds
  <2> QED
    BY <2>2, <2>3, <2>4, <2>5
<1>7. CASE ReserveNode
  <2> DEFINE n == at.node
  <2>1. at.pc = "begin" /\ at.stage = "reserve"
    BY <1>7 DEF ReserveNode, At
  <2>2. CASE n \notin DOMAIN mem
    <3>1. at' = [at EXCEPT !.pc = "confirm", !.node = 1] /\ UNCHANGED <<mem, resv>>
      BY <1>7, <2>2 DEF ReserveNode
    <3>2. at'.pc = "confirm" /\ at'.stage = "reserve" /\ at'.node = 1
      BY <2>1, <3>1 DEF Shape, AtShape
    <3>3. \A m \in DOMAIN mem : m < n /\ ~(m < 1)
      BY <2>2, Passed, SizesAreNat DEF Shape, AtShape, Inventory
    <3> QED
      BY <2>1, <3>1, <3>2, <3>3 DEF DoneInv, At, Reserved, Confirmed
  <2>3. CASE n \in DOMAIN mem /\ mem[n].ipmi.mac = None
    BY <1>7, <2>3, DoneIdle DEF ReserveNode, Exit
  <2>4. CASE n \in DOMAIN mem /\ mem[n].ipmi.mac # None
    <3>1. /\ mem' = [mem EXCEPT ![n].pxe.ip = Kept(n, "pxe")]
          /\ resv' = [resv EXCEPT ![mem[n].ipmi.mac] = Kept(n, "ipmi")]
          /\ at' = [at EXCEPT !.node = n + 1]
      BY <1>7, <2>4 DEF ReserveNode
    <3>2. at'.pc = "begin" /\ at'.stage = "reserve" /\ at'.node = n + 1
      BY <2>1, <3>1 DEF Shape, AtShape
    <3>3. DOMAIN mem' = DOMAIN mem /\ \A m \in DOMAIN mem : mem'[m].ipmi.mac = mem[m].ipmi.mac
      <4>1. mem' = SetIp(mem, n, "pxe", Kept(n, "pxe"))
        BY <3>1 DEF SetIp
      <4> QED
        BY <2>4, <4>1, SetIpEffect DEF Shape, Kinds
    <3>4. /\ mem[n].ipmi.mac \in AllDevices
          /\ \A d \in AllDevices : resv'[d] = IF d = mem[n].ipmi.mac THEN Kept(n, "ipmi") ELSE resv[d]
      BY <2>4, <3>1 DEF Shape, Inventory, NodeShape, RecShape, Macs, ServerShape
    <3>5. ASSUME NEW m \in DOMAIN mem, m < n + 1 PROVE Reserved(m)'
      <4>1. CASE mem[m].ipmi.mac = mem[n].ipmi.mac
        BY <2>4, <3>3, <3>4, <4>1 DEF Reserved
      <4>2. CASE mem[m].ipmi.mac # mem[n].ipmi.mac
        <5>1. m < n /\ Reserved(m)
          BY <2>1, <3>5, <4>2, SizesAreNat DEF DoneInv, At, Shape, AtShape, Inventory
        <5> QED
          BY <3>1, <3>3, <4>2, <5>1 DEF Reserved
      <4> QED
        BY <4>1, <4>2
    <3> QED
      BY <3>2, <3>3, <3>5 DEF DoneInv, At
  <2> QED
    BY <2>2, <2>3, <2>4
<1>8. CASE Confirm
  <2> DEFINE n == at.node
  <2>1. at.pc = "confirm" /\ at.stage = "reserve" /\ mem = inv /\ UNCHANGED resv
    BY <1>8 DEF Confirm, WhereInv, Steps, Held
  <2>2. CASE NextStage(inv) /\ n \notin DOMAIN mem
    <3>1. \A m \in DOMAIN mem : m < n
      BY <2>2, Passed DEF Shape, AtShape
    <3>2. \A m \in DOMAIN mem : Reserved(m) /\ Confirmed(m)
      BY <2>1, <3>1 DEF DoneInv
    <3> QED
      BY <2>1, <2>2, <3>2, DoneNext DEF Shape
  <2>3. CASE Exit
    BY <2>3, DoneIdle DEF Exit
  <2>4. CASE /\ n \in DOMAIN mem /\ mem' = [mem EXCEPT ![n].ipmi.ip = Kept(n, "ipmi")]
             /\ at' = [at EXCEPT !.node = n + 1]
    <3>1. at'.pc = "confirm" /\ at'.stage = "reserve" /\ at'.node = n + 1
      BY <2>1, <2>4 DEF Shape, AtShape
    <3>2. /\ DOMAIN mem' = DOMAIN mem
          /\ \A m \in DOMAIN mem :
               /\ mem'[m].ipmi.mac = mem[m].ipmi.mac
               /\ mem'[m].ipmi.ip = IF m = n THEN Kept(n, "ipmi") ELSE mem[m].ipmi.ip
      <4>1. mem' = SetIp(mem, n, "ipmi", Kept(n, "ipmi"))
        BY <2>4 DEF SetIp
      <4> QED
        BY <2>4, <4>1, SetIpEffect DEF Shape, Kinds
    <3>3. ASSUME NEW m \in DOMAIN mem PROVE Reserved(m)' /\ (m < n + 1 => Confirmed(m)')
      <4>1. Reserved(m) /\ (m < n => Confirmed(m))
        BY <2>1 DEF DoneInv
      <4>2. Reserved(m)'
        BY <2>1, <3>2, <4>1 DEF Reserved
      <4>3. m < n + 1 => m < n \/ m = n
        BY SizesAreNat DEF Shape, AtShape, Inventory
      <4> QED
        BY <3>2, <4>1, <4>2, <4>3 DEF Confirmed
    <3> QED
      BY <3>1, <3>2, <3>3 DEF DoneInv, At
  <2> QED
    BY <1>8, <2>2, <2>3, <2>4 DEF Confirm
<1>9. CASE AddDistro
  <2>1. at.stage = "distros" /\ Go("profile") /\ UNCHANGED <<mem, resv>>
    BY <1>9 DEF AddDistro, At
  <2>2. at'.stage = "distros" /\ at'.pc = "profile" /\ at'.all = at.all
    BY <2>1, GoEffect
  <2> QED
    BY <2>1, <2>2 DEF DoneInv, At, Reserved, Confirmed
<1>10. CASE AddProfile
  <2>1. at.stage = "distros" /\ mem = inv /\ NextStage(inv) /\ UNCHANGED resv
    BY <1>10 DEF AddProfile, WhereInv, Steps, Held
  <2> QED
    BY <2>1, DoneNext DEF DoneInv, Shape
<1>11. CASE SystemsAdded
  <2>1. at.stage = "systems" /\ NextStage(inv) /\ UNCHANGED resv
    BY <1>11 DEF SystemsAdded, WhereInv, Steps
  <2> QED
    BY <2>1, DoneNext DEF Shape
<1>12. CASE AddSystem
  <2> DEFINE n == at.node
  <2>1. at.pc = "begin" /\ at.stage = "systems" /\ UNCHANGED resv
    BY <1>12 DEF AddSystem, At
  <2>2. CASE n \notin DOMAIN mem
    <3>1. Go("synced") /\ cob' = [cob EXCEPT !.live = cob.saved] /\ UNCHANGED mem
      BY <1>12, <2>2 DEF AddSystem
    <3>2. at'.pc = "synced" /\ at'.stage = "systems" /\ at'.all = at.all
      BY <2>1, <3>1, GoEffect
    <3>3. cob'.live = cob.saved /\ cob'.prof = cob.prof
      BY <3>1 DEF Shape, CobShape
    <3>4. \A m \in DOMAIN mem : m < n
      BY <2>2, Passed DEF Shape, AtShape
    <3>5. \A m \in DOMAIN mem : Added(cob.saved[m], m)
      BY <2>1, <3>4 DEF DoneInv, At
    <3> QED
      BY <2>1, <3>1, <3>2, <3>3, <3>5 DEF DoneInv, At, Reserved, Confirmed, Added
  <2>3. CASE Exit
    BY <2>3, DoneIdle DEF Exit
  <2>4. CASE n \in DOMAIN mem /\ ~Exit
    <3>1. /\ Sendable(n) /\ UNCHANGED mem /\ at' = [at EXCEPT !.node = n + 1]
          /\ cob' = [cob EXCEPT !.saved[n] = [bmc |-> mem[n].ipmi.ip, pxe |-> mem[n].pxe]]
      BY <1>12, <2>4 DEF AddSystem
    <3>2. at'.pc = "begin" /\ at'.stage = "systems" /\ at'.all = at.all /\ at'.node = n + 1
      BY <2>1, <3>1 DEF Shape, AtShape
    <3>3. n \in Nodes
      BY <2>4, SizesAreNat DEF Shape, Inventory, Nodes
    <3>4. /\ cob'.prof = cob.prof
          /\ cob'.saved[n] = [bmc |-> mem[n].ipmi.ip, pxe |-> mem[n].pxe]
          /\ \A m \in Nodes : m # n => cob'.saved[m] = cob.saved[m]
      BY <3>1, <3>3 DEF Shape, CobShape
    <3>5. ASSUME NEW m \in DOMAIN mem, m < n + 1 PROVE Added(cob.saved[m], m)'
      <4>1. CASE m = n
        BY <3>1, <3>4, <4>1 DEF Added, Sendable
      <4>2. CASE m # n
        <5>1. m < n /\ m \in Nodes
          BY <3>5, <4>2, SizesAreNat DEF Shape, AtShape, Inventory, Nodes
        <5>2. Added(cob.saved[m], m)
          BY <2>1, <5>1 DEF DoneInv, At
        <5> QED
          BY <3>1, <3>4, <4>2, <5>1, <5>2 DEF Added
      <4> QED
        BY <4>1, <4>2
    <3> QED
      BY <2>1, <3>1, <3>2, <3>5 DEF DoneInv, At, Reserved, Confirmed
  <2> QED
    BY <2>2, <2>3, <2>4
<1>13. CASE Gather \/ GatherSave
  <2>1. CASE Exit
    BY <2>1, DoneIdle DEF Exit
  <2>2. CASE ~Exit
    <3>1. at.stage = "gather" /\ (Go("gather_save") \/ Go("begin"))
      BY <1>13, <2>2 DEF Gather, GatherSave, At, WhereInv, Steps
    <3> QED
      BY <3>1, GoEffect, DoneElsewhere
  <2> QED
    BY <2>1, <2>2
<1>14. CASE Kill
  BY <1>14, DoneIdle DEF Kill, Exit
<1>15. ASSUME NEW n, NEW k, Plug(n, k) \/ Lease(n, k) PROVE DoneInv'
  BY <1>1, <1>15 DEF Plug, Lease
<1> QED
  BY <1>1, <1>2, <1>3, <1>4, <1>5, <1>6, <1>7, <1>8, <1>9, <1>10, <1>11, <1>12, <1>13,
     <1>14, <1>15 DEF Next, vars
-----------------------------------------------------------------------------
IInv == Shape /\ WhereInv /\ TrueInv /\ DoneInv

LEMMA IInvAlways == Spec => []IInv
<1>1. Init => IInv
  BY ShapeInit, WhereInit, TrueInit, DoneInit DEF IInv
<1>2. IInv /\ [Next]_vars => IInv'
  BY ShapeStep, WhereStep, TrueStep, DoneStep DEF IInv
<1> QED
  BY <1>1, <1>2, PTL DEF Spec

(* Discovery and the stages after it only go on from pairs of addresses     *)
(* that are true: the device was at that port, and was given that address. *)
THEOREM PairsAreTrue == Spec => []PairsTrue
<1>1. IInv => PairsTrue
  BY DEF IInv, TrueInv, TrueIn, Given, PairsTrue, TruePair
<1> QED
  BY <1>1, IInvAlways, PTL

(* "Complete" is only reported of an inventory file that has a node, with   *)
(* both its addresses, for every port of the configuration.                *)
THEOREM CompleteIsAllPorts == Spec => []CompleteMeansAll
<1>1. IInv => CompleteMeansAll
  BY DEF IInv, WhereInv, Held, AllFound, CompleteMeansAll, At
<1> QED
  BY <1>1, IInvAlways, PTL

(* At the end of the last stage of "pup deploy" Cobbler serves every node   *)
(* of the configuration with the addresses of the inventory, and dnsmasq   *)
(* keeps the address of its BMC; whatever was killed, and run again.       *)
THEOREM DeployServesAll == Spec => []DeployedTrue
<1>1. ASSUME IInv, at.pc = "synced", at.all, ~FoundTwice, NEW n \in Nodes
      PROVE  /\ n \in DOMAIN inv /\ cob.prof = "yes"
             /\ cob.live[n] = [bmc |-> inv[n].ipmi.ip, pxe |-> inv[n].pxe]
             /\ None \notin {inv[n].ipmi.ip, inv[n].pxe.mac, inv[n].pxe.ip}
             /\ resv[inv[n].ipmi.mac] = inv[n].ipmi.ip
  <2>1. at.stage = "systems" /\ mem = inv /\ DOMAIN inv = Nodes
    BY <1>1 DEF IInv, WhereInv, Steps, Held
  <2>2. Reserved(n) /\ Confirmed(n) /\ Added(cob.live[n], n)
    BY <1>1, <2>1 DEF IInv, DoneInv
  <2>3. \A m \in Nodes \ {n} : inv[m].ipmi.mac # inv[n].ipmi.mac
    BY <1>1, <2>1 DEF FoundTwice, Kinds
  <2> QED
    BY <2>1, <2>2, <2>3 DEF Reserved, Confirmed, Added
<1>2. IInv => DeployedTrue
  BY <1>1 DEF DeployedTrue
<1> QED
  BY <1>2, IInvAlways, PTL
==============================================================================
