---------------------------- MODULE DeployerProofs ----------------------------
(***************************************************************************)
(* Theorems about the two modules of the deployer's own networks.          *)
(*                                                                         *)
(* HardwareValidation, for any hosts, addresses, accounts, switches and    *)
(* runs.  What a dead run left behind is bounded by how far the runs since *)
(* have come: before a network is set up it is as it was found, in the     *)
(* teardown only networks still to be taken down are not clean             *)
(* (Invariant).                                                            *)
(*                                                                         *)
(* DeployerNets, for any configurations, devices, commands and reboots.    *)
(* How far the command that runs has come says what it has made so far, on *)
(* the host and in the files (EnableInv), or removed (RemovedInv); after   *)
(* it, what is up is up on both (UpInv), so that a reboot and the steps of *)
(* other commands find and leave it.  What an enable left is kept but for  *)
(* links that a later one is moving (SettledInv).                          *)
(***************************************************************************)
EXTENDS DeployerNets, HardwareValidation, TLAPS, FiniteSetTheorems

\* pc by what has been done to the networks.
Resting  == {"idle", "ok", "stopped", "dead"}
Starting == {"mgmt", "data", "ipmi_ns"}
Ipmi     == {"ipmi_mk", "ipmi_dns", "ipmi_scan", "ipmi_ask", "login", "pxe_ns"}
Pxe      == {"pxe_mk", "pxe_dns", "pxe_scan", "pxe_ask"}
Teardown == {"down", "connect", "destroy"}
Untouched == [ipmi |-> Resting \cup Starting, pxe |-> Resting \cup Starting \cup Ipmi]

TypeInv ==
  /\ pc \in Resting \cup Starting \cup Ipmi \cup Pxe \cup Teardown
  /\ {space, dns, veth} \subseteq [Nets -> BOOLEAN]
  /\ {dump, stop, dirty, ran} \subseteq BOOLEAN
  /\ todo \in {<<>>, <<"ipmi">>, <<"pxe">>, <<"pxe", "ipmi">>, <<"ipmi", "pxe">>}

\* The networks the teardown has yet to come to.
Waiting(t) == todo \in {<<"pxe", "ipmi">>, <<"ipmi", "pxe">>, <<t>>}
CleanNet(t) == ~space[t] /\ ~dns[t] /\ veth[t] /\ (t = "pxe" => ~dump)

\* While ours runs the container is off; it is taken off before that, and
\* ours is killed before the container is connected again.
ServerInv ==
  /\ OneServer
  /\ pc \in {"ipmi_mk", "ipmi_dns"} => ~veth["ipmi"]
  /\ pc \in {"pxe_mk", "pxe_dns"} => ~veth["pxe"]
  /\ pc \in {"connect", "destroy"} => todo # <<>> /\ ~dns[Head(todo)]

TidyInv ==
  /\ pc = "ok" => ~dirty
  /\ pc = "dead" => dirty
  /\ ~dirty => \A t \in Nets : pc \in Untouched[t] => CleanNet(t)
  /\ pc \in Teardown /\ (~stop \/ ~dirty) => \A t \in Nets : Waiting(t) \/ CleanNet(t)
  /\ pc \in {"connect", "destroy"} => (Head(todo) = "pxe" => ~dump)
  /\ pc = "destroy" => veth[Head(todo)]

Invariant == TypeInv /\ ServerInv /\ TidyInv

\* Every host that was counted once and is no stranger is a node, so that the
\* count is how many nodes answered.
AnswerInv ==
  /\ pc \in (Starting \cup Ipmi) \ {"pxe_ns"} => ~ran
  /\ IsFiniteSet(login.who)
  /\ ~login.odd => login.who \subseteq Nodes /\ login.count = Cardinality(login.who)
  /\ ran /\ nodeList # {} => AllLogins
-----------------------------------------------------------------------------
LEMMA InvariantInit == Init => Invariant
<1> SUFFICES ASSUME Init PROVE Invariant
  OBVIOUS
<1>1. /\ pc = "idle" /\ todo = <<>> /\ ~dump /\ ~stop /\ ~dirty /\ ~ran
      /\ {dump, stop, dirty, ran} \subseteq BOOLEAN
      /\ space = [t \in Nets |-> FALSE] /\ dns = [t \in Nets |-> FALSE]
      /\ veth = [t \in Nets |-> TRUE]
  BY DEF Init
<1> QED BY <1>1 DEF Invariant, TypeInv, ServerInv, TidyInv, OneServer, CleanNet, Untouched,
                    Nets, Resting, Starting, Ipmi, Pxe, Teardown

\* What a teardown has before it and after its first network.
LEMMA Todo ==
  /\ Head(<<"ipmi">>) = "ipmi" /\ Tail(<<"ipmi">>) = <<>>
  /\ Head(<<"pxe">>) = "pxe" /\ Tail(<<"pxe">>) = <<>>
  /\ Head(<<"pxe", "ipmi">>) = "pxe" /\ Tail(<<"pxe", "ipmi">>) = <<"ipmi">>
  /\ Head(<<"ipmi", "pxe">>) = "ipmi" /\ Tail(<<"ipmi", "pxe">>) = <<"pxe">>
  /\ \A t, u \in Nets : <<>> # <<t>> /\ <<>> # <<"pxe", "ipmi">> /\ <<>> # <<"ipmi", "pxe">>
                        /\ <<t>> # <<"pxe", "ipmi">> /\ <<t>> # <<"ipmi", "pxe">>
                        /\ (t # u => <<t>> # <<u>>)
  /\ <<"pxe", "ipmi">> # <<"ipmi", "pxe">>
BY DEF Nets

LEMMA InvariantStep == Invariant /\ [Next]_vars => Invariant'
<1> SUFFICES ASSUME Invariant, [Next]_vars PROVE Invariant'
  OBVIOUS
<1> USE DEF Invariant, TypeInv, ServerInv, TidyInv, OneServer, CleanNet, Waiting, Untouched,
            Nets, Resting, Starting, Ipmi, Pxe, Teardown, deployer, network, found
<1>1. CASE Start
  BY <1>1 DEF Start, Empty
<1>2. CASE CheckSwitch
  BY <1>2 DEF CheckSwitch
<1>3. CASE EndSwitches
  BY <1>3 DEF EndSwitches
<1>4. CASE CheckDataSwitches
  BY <1>4 DEF CheckDataSwitches
<1>5. ASSUME NEW t \in Nets, DisconnectContainer(t) PROVE Invariant'
  BY <1>5 DEF DisconnectContainer, SetUp
<1>6. ASSUME NEW t \in Nets, MakeNameSpace(t) PROVE Invariant'
  BY <1>6 DEF MakeNameSpace, SetUp
<1>7. CASE KillServers
  BY <1>7 DEF KillServers
<1>8. CASE ReconnectContainer
  BY <1>8 DEF ReconnectContainer
<1>9. CASE DestroyNameSpace
  <2>1. CASE todo \in {<<"ipmi">>, <<"pxe">>}
    BY <1>9, <2>1, Todo DEF DestroyNameSpace
  <2>2. CASE todo = <<"pxe", "ipmi">>
    BY <1>9, <2>2, Todo DEF DestroyNameSpace
  <2>3. CASE todo = <<"ipmi", "pxe">>
    BY <1>9, <2>3, Todo DEF DestroyNameSpace
  <2> QED BY <1>9, <2>1, <2>2, <2>3 DEF DestroyNameSpace
<1>10. CASE StartIpmiDhcp
  BY <1>10 DEF StartIpmiDhcp
<1>11. CASE ScanIpmi
  BY <1>11 DEF ScanIpmi
<1>12. CASE AskIpmi
  <2>1. /\ UNCHANGED <<space, dns, dump, veth, ran, dirty>> /\ pc = "ipmi_ask"
        /\ \/ pc' \in {"ipmi_scan", "login"} /\ UNCHANGED <<todo, stop>>
           \/ pc' = "down" /\ todo' = <<"ipmi">> /\ stop' = TRUE
    BY <1>12 DEF AskIpmi
  <2>2. CASE pc' \in {"ipmi_scan", "login"} /\ UNCHANGED <<todo, stop>>
    BY <2>1, <2>2
  <2>3. CASE pc' = "down" /\ todo' = <<"ipmi">> /\ stop' = TRUE
    <3>1. TypeInv' /\ ServerInv'
      BY <2>1, <2>3
    <3>2. ~dirty => CleanNet("pxe")'
      BY <2>1
    <3> QED BY <2>1, <2>3, <3>1, <3>2, Todo
  <2> QED BY <2>1, <2>2, <2>3
<1>13. CASE Login \/ EndLogins
  <2>1. ran' \in BOOLEAN
    BY <1>13 DEF Login, EndLogins, AllLogins
  <2>2. /\ UNCHANGED <<space, dns, dump, veth, dirty, todo, stop>>
        /\ pc = "login" /\ pc' \in {"login", "pxe_ns"}
    BY <1>13 DEF Login, EndLogins
  <2> QED BY <2>1, <2>2
<1>14. CASE StartPxeDhcp
  BY <1>14 DEF StartPxeDhcp
<1>15. CASE ScanPxe
  <2>1. /\ UNCHANGED <<space, dns, dump, veth, dirty, ran, stop>> /\ pc = "pxe_scan"
        /\ \/ pc' = "down" /\ todo' = <<"pxe", "ipmi">>
           \/ pc' = "pxe_ask" /\ todo' = todo
    BY <1>15 DEF ScanPxe
  <2> QED BY <2>1, Todo
<1>16. CASE AskPxe
  <2>1. /\ UNCHANGED <<space, dns, dump, veth, dirty, ran>> /\ pc = "pxe_ask"
        /\ stop' \in BOOLEAN
        /\ \/ pc' = "down" /\ todo' \in {<<"pxe", "ipmi">>, <<"ipmi", "pxe">>}
           \/ pc' = "pxe_scan" /\ todo' = todo
    BY <1>16 DEF AskPxe, StopPxe
  <2> QED BY <2>1, Todo
<1>17. CASE CycleUnknown \/ Crash
  BY <1>17 DEF CycleUnknown, Crash, Die, Leave, Empty
<1>18. CASE End
  BY <1>18, Todo DEF End, Leave, Empty
<1>19. CASE Lease \/ RequestPxe \/ UNCHANGED vars
  BY <1>19 DEF Lease, RequestPxe, vars
<1> QED
  BY <1>1, <1>2, <1>3, <1>4, <1>5, <1>6, <1>7, <1>8, <1>9, <1>10, <1>11, <1>12,
     <1>13, <1>14, <1>15, <1>16, <1>17, <1>18, <1>19 DEF Next, Validate

\* _disconnect_container, _teardown_ns: whatever runs that died have left, at
\* no moment does a network have two DHCP servers.
THEOREM OneDhcpServer == Spec => []OneServer
<1>1. Invariant => OneServer
  BY DEF Invariant, ServerInv
<1> QED BY InvariantInit, InvariantStep, <1>1, PTL DEF Spec

\* A run that comes to its end leaves nothing of its own or of runs that died
\* before, one the operator stops leaves nothing of its own.
THEOREM NothingLeft == Spec => []CleanEnd
<1>1. Invariant => CleanEnd
  BY DEF Invariant, TypeInv, TidyInv, CleanEnd, Clean, CleanNet, Untouched, Nets,
         Resting, Starting, Ipmi
<1> QED BY InvariantInit, InvariantStep, <1>1, PTL DEF Spec
-----------------------------------------------------------------------------
\* Steps that leave the scan and the logins as they are.
LEMMA AnswerStays ==
  ASSUME AnswerInv, UNCHANGED <<nodeList, login, ran>>,
         pc' \in (Starting \cup Ipmi) \ {"pxe_ns"} => pc \in (Starting \cup Ipmi) \ {"pxe_ns"}
  PROVE  AnswerInv'
BY DEF AnswerInv, AllLogins

\* A process that knows nothing.
LEMMA AnswerEmpty == Empty => AnswerInv'
<1> SUFFICES ASSUME Empty PROVE AnswerInv'
  OBVIOUS
<1>1. login' = NoLogin /\ ~ran'
  BY DEF Empty
<1> QED BY <1>1, FS_EmptySet DEF AnswerInv, NoLogin

LEMMA AnswerInit == Init => AnswerInv
BY FS_EmptySet DEF Init, AnswerInv, NoLogin

LEMMA AnswerStep == TypeInv /\ AnswerInv /\ [Next]_vars => AnswerInv'
<1> SUFFICES ASSUME TypeInv, AnswerInv, [Next]_vars PROVE AnswerInv'
  OBVIOUS
<1> USE DEF Starting, Ipmi, found
<1>1. CASE Start \/ CycleUnknown \/ Crash \/ End
  BY <1>1, AnswerEmpty DEF Start, CycleUnknown, Crash, End, Die, Leave
<1>2. CASE ScanIpmi
  BY <1>2 DEF ScanIpmi, AnswerInv
<1>3. CASE Login
  <2>1. ~ran /\ ran' = ran /\ nodeList' = nodeList /\ pc' = pc
    BY <1>3 DEF Login, AnswerInv
  <2>2. PICK h \in Hosts : \E works \in SUBSET Accepted(h) \ {{}} :
          login' = [ai |-> login.ai \cup {addr[h]}, count |-> login.count + Cardinality(works),
                    who |-> login.who \cup {h},
                    odd |-> login.odd \/ h \in login.who \cup Strangers \/ Cardinality(works) # 1]
    BY <1>3 DEF Login
  <2>3. PICK n : /\ login'.who = login.who \cup {h} /\ login'.count = login.count + n
                 /\ login'.odd = (login.odd \/ h \in login.who \cup Strangers \/ n # 1)
    <3>1. PICK works \in SUBSET Accepted(h) \ {{}} :
            login' = [ai |-> login.ai \cup {addr[h]}, count |-> login.count + Cardinality(works),
                      who |-> login.who \cup {h},
                      odd |-> login.odd \/ h \in login.who \cup Strangers \/ Cardinality(works) # 1]
      BY <2>2
    <3>2. /\ login'.who = login.who \cup {h} /\ login'.count = login.count + Cardinality(works)
          /\ login'.odd = (login.odd \/ h \in login.who \cup Strangers \/ Cardinality(works) # 1)
      BY <3>1, Zenon
    <3> QED BY <3>2
  <2>4. /\ IsFiniteSet(login'.who)
        /\ h \notin login.who => Cardinality(login'.who) = Cardinality(login.who) + 1
    BY <2>3, FS_AddElement DEF AnswerInv
  <2>5. ~login'.odd => login'.who \subseteq Nodes /\ login'.count = Cardinality(login'.who)
    BY <2>3, <2>4 DEF AnswerInv, Hosts
  <2> QED BY <2>1, <2>4, <2>5 DEF AnswerInv
<1>4. CASE EndLogins
  <2>1. nodeList' = nodeList /\ pc' = "pxe_ns" /\ ran' = (nodeList = {} \/ AllLogins)
    BY <1>4 DEF EndLogins
  <2>2. CASE ran'
    <3>1. login' = login
      BY <1>4, <2>2 DEF EndLogins
    <3> QED BY <2>1, <2>2, <3>1 DEF AnswerInv, AllLogins
  <2>3. CASE ~ran'
    <3>1. login' = NoLogin
      BY <1>4, <2>3 DEF EndLogins
    <3> QED BY <2>1, <2>3, <3>1, FS_EmptySet DEF AnswerInv, NoLogin
  <2> QED BY <2>2, <2>3
<1>5. CASE CheckSwitch \/ EndSwitches \/ CheckDataSwitches
  BY <1>5, AnswerStays DEF CheckSwitch, EndSwitches, CheckDataSwitches
<1>6. CASE \E t \in Nets : DisconnectContainer(t) \/ MakeNameSpace(t)
  BY <1>6, AnswerStays DEF DisconnectContainer, MakeNameSpace, SetUp, Nets
<1>7. CASE KillServers \/ ReconnectContainer \/ DestroyNameSpace
  BY <1>7, AnswerStays DEF KillServers, ReconnectContainer, DestroyNameSpace
<1>8. CASE StartIpmiDhcp \/ AskIpmi \/ StartPxeDhcp
  BY <1>8, AnswerStays DEF StartIpmiDhcp, AskIpmi, StartPxeDhcp
<1>9. CASE ScanPxe \/ AskPxe
  BY <1>9, AnswerStays DEF ScanPxe, AskPxe
<1>10. CASE Lease \/ RequestPxe \/ UNCHANGED vars
  BY <1>10, AnswerStays DEF Lease, RequestPxe, vars
<1> QED BY <1>1, <1>2, <1>3, <1>4, <1>5, <1>6, <1>7, <1>8, <1>9, <1>10
        DEF Next, Validate

\* validate_ipmi, _get_credentials: with access info as many nodes answered as
\* there are, for any hosts, accounts and addresses that change at any time,
\* unless a stranger answered or a node was counted twice.
THEOREM EveryNodeAnswered == Spec => []AllNodesAnswered
<1>1. Invariant => TypeInv
  BY DEF Invariant
<1>2. AnswerInv => AllNodesAnswered
  <2>1. SUFFICES ASSUME AnswerInv, ran, nodeList # {}, ~login.odd
                 PROVE  login.who = Nodes
    BY DEF AllNodesAnswered
  <2>2. login.who \subseteq Nodes /\ Cardinality(login.who) = Cardinality(Nodes)
    BY <2>1 DEF AnswerInv, AllLogins
  <2> QED BY <2>2, FS_Subset, HardwareAssumption
<1> QED BY InvariantInit, InvariantStep, AnswerInit, AnswerStep, <1>1, <1>2, PTL DEF Spec

-----------------------------------------------------------------------------
(* DeployerNets. *)

\* The networks of a configuration, the records, and where a command is.
Network(n) ==
  /\ n.type \in Types /\ n.dev \in Devices /\ n.vlan \in Nat /\ n.bridged \in BOOLEAN
  /\ n.type # "mgmt" => n.bridged
HostShape ==
  /\ Len(nets) \in Nat /\ \A k \in Numbers : Network(nets[k])
  /\ live = [ifc |-> live.ifc, addr |-> live.addr, port |-> live.port]
  /\ disk = [ifc |-> disk.ifc, addr |-> disk.addr, port |-> disk.port]
  /\ rules = [b \in Bridges |-> rules[b]] /\ \A b \in Bridges : rules[b] \in Nat
  /\ cmd = [op |-> cmd.op, i |-> cmd.i, step |-> cmd.step]
  /\ {whole, gone} \subseteq BOOLEAN
Linked == {"link", "ask", "linkfile", "bridgefile", "bridge", "attach", "firewall"}
CommandInv ==
  /\ cmd.op \in Ops \cup {"idle"}
  /\ IF cmd.op = "idle" THEN cmd = Idle ELSE cmd.i \in Numbers /\ ~gone
  /\ cmd.op \in {"enable", "teardown"} =>
       /\ cmd.step \in Linked => Net.bridged
       /\ cmd.step = "file" => ~Net.bridged
  /\ cmd.op = "enable" => cmd.step \in Linked \cup {"begin", "file"}
  /\ cmd.op = "teardown" => ~whole /\ (cmd.step = "docker" => cmd.i = 1)
  /\ settled # {} => cmd.op \in {"idle", "enable"}

\* Who can be on which bridge, and rules only where there is a firewall.
Ours(p) == \E j \in Numbers : nets[j].bridged /\ p = <<Link(nets[j]), Bridge(nets[j])>>
Theirs(p) == \E j \in Numbers : nets[j].bridged /\ p = <<Link(nets[j]), Foreign>>
PortInv ==
  /\ \A p \in live.port : Ours(p) \/ Theirs(p)
  /\ \A p \in disk.port : Ours(p)
  /\ ~firewall => \A b \in Bridges : rules[b] = 0

\* What an enable does for network i on the host, and in its files.
Address(i) == <<IF nets[i].bridged THEN Bridge(nets[i]) ELSE <<nets[i].dev, 0>>, <<i, TRUE>>>>
Cleared(i) == \A p \in live.addr : ~(p[1] = <<nets[i].dev, 0>> /\ p[2][1] = i)
Ruled(i) == firewall => \E b \in Bridges : rules[b] > 0 /\ Within(Bridge(nets[i]), b)
LiveDone(i) ==
  /\ Address(i) \in live.addr
  /\ nets[i].bridged => {Link(nets[i]), Bridge(nets[i])} \subseteq live.ifc /\ Cleared(i) /\ Ruled(i)
DiskDone(i) ==
  /\ Address(i) \in disk.addr
  /\ nets[i].bridged => /\ {Link(nets[i]), Bridge(nets[i])} \subseteq disk.ifc
                        /\ <<Link(nets[i]), Bridge(nets[i])>> \in disk.port

\* A link is on the bridge of the last network, of the first u, that has it.
LastOf(j, u) ==
  /\ j \in Numbers /\ nets[j].bridged /\ j <= u
  /\ \A m \in Numbers : j < m /\ m <= u /\ nets[m].bridged => Link(nets[m]) # Link(nets[j])
Linking(u) == {Link(nets[j]) : j \in {k \in Numbers : k <= u /\ nets[k].bridged}}
PortsSet(P, u) ==
  \A p : p[1] \in Linking(u) =>
    (p \in P <=> \E j \in Numbers : LastOf(j, u) /\ p = <<Link(nets[j]), Bridge(nets[j])>>)

Upto == IF cmd.step = "firewall" THEN cmd.i ELSE cmd.i - 1
StageInv(i, s) ==
  LET l == Link(nets[i])
      b == Bridge(nets[i])
  IN /\ s = "file" => Address(i) \in live.addr
     /\ s \in Linked => Cleared(i)
     /\ s \in Linked \ {"link"} => l \in live.ifc
     /\ s \in {"bridgefile", "bridge", "attach", "firewall"} => l \in disk.ifc /\ <<l, b>> \in disk.port
     /\ s \in {"bridge", "attach", "firewall"} /\ Alone(i) => b \in disk.ifc /\ Address(i) \in disk.addr
     /\ s \in {"attach", "firewall"} => b \in live.ifc /\ Address(i) \in live.addr
EnableInv ==
  cmd.op = "enable" =>
    /\ \A j \in Numbers : j < cmd.i => LiveDone(j) /\ (Alone(j) => DiskDone(j))
    /\ PortsSet(live.port, Upto)
    /\ StageInv(cmd.i, cmd.step)

\* A management bridge that has a file has its address in it.
GlueInv ==
  \A i \in Numbers :
    nets[i].bridged /\ nets[i].type = "mgmt" /\ Alone(i) /\ Bridge(nets[i]) \in disk.ifc =>
      Address(i) \in disk.addr
\* Up on the host and in the files.
Up(i) ==
  /\ DiskDone(i) /\ Address(i) \in live.addr
  /\ nets[i].bridged => /\ {Link(nets[i]), Bridge(nets[i])} \subseteq live.ifc
                        /\ <<Link(nets[i]), Bridge(nets[i])>> \in live.port
UpInv == whole => \A i \in Numbers : Alone(i) => Up(i)

\* What an enable left is what there is, but for links that the present one is moving.
SettledInv ==
  settled # {} =>
    /\ \A j \in Numbers : LiveDone(j)
    /\ \E P : /\ settled = {<<[ifc |-> live.ifc, addr |-> live.addr, port |-> P], rules, nat>>}
              /\ PortsSet(P, Len(nets))
              /\ \A p : p[1] \notin Linking(Len(nets)) => (p \in P <=> p \in live.port)

\* What a teardown does for network i.
LinkGone(i) ==
  Tag(nets[i]) # 0 /\ Distinct(i) =>
    (Link(nets[i]) \in live.ifc => <<Link(nets[i]), Foreign>> \in live.port)
Removed(i) ==
  LET n == nets[i]
  IN IF n.bridged
       THEN /\ Bridge(n) \notin live.ifc \cup disk.ifc
            /\ rules[Bridge(n)] = 0
            /\ Tag(n) # 0 => Link(n) \notin disk.ifc
            /\ LinkGone(i)
       ELSE Sole(i) => Address(i) \notin live.addr \cup disk.addr
RemovedInv ==
  /\ gone => dock = {} /\ made = {} /\ \A i \in Numbers : Removed(i)
  /\ cmd.op = "teardown" /\ cmd.step # "docker" =>
       /\ dock = {} /\ made = {}
       /\ \A j \in Numbers : j < cmd.i => Removed(j)
       /\ cmd.step \in {"bridge", "bridgefile", "linkfile", "firewall"} => LinkGone(cmd.i)
       /\ cmd.step \in {"bridgefile", "linkfile", "firewall"} => Bridge(Net) \notin live.ifc
       /\ cmd.step \in {"linkfile", "firewall"} => Bridge(Net) \notin disk.ifc
       /\ cmd.step = "firewall" /\ Tag(Net) # 0 => Link(Net) \notin disk.ifc

\* What can be in the files, and that the address of a network without a bridge
\* is there in the plain form if no other is there beside it.
FileInv ==
  /\ \A p \in disk.addr : \/ \E j \in Numbers : p = Address(j)
                          \/ \E d \in Devices, k \in Numbers : p = <<<<d, 0>>, <<k, FALSE>>>>
  /\ \A l \in disk.ifc : \/ l \in Physical
                         \/ \E j \in Numbers : nets[j].bridged /\ l \in {Link(nets[j]), Bridge(nets[j])}
PlainInv ==
  \A i \in Numbers : ~nets[i].bridged /\ Sole(i) /\ Address(i) \in disk.addr => i \in plain
-----------------------------------------------------------------------------
(* Names, and what one step does to a record. *)

LEMMA NamesApart ==
  ASSUME HostShape, NEW i \in Numbers, NEW j \in Numbers
  PROVE  /\ Link(nets[i]) # Bridge(nets[j]) /\ <<nets[i].dev, 0>> # Bridge(nets[j])
         /\ Foreign # Link(nets[i]) /\ Foreign # Bridge(nets[j])
         /\ Tag(nets[i]) \in Nat /\ Bridge(nets[j]) \in Bridges
<1>1. Network(nets[i]) /\ Network(nets[j])
  BY DEF HostShape
<1>2. Tag(nets[i]) \in Nat
  BY <1>1 DEF Network, Tag
<1>3. nets[i].dev # nets[j].type /\ Foreign[1] # nets[i].dev /\ Foreign[1] # nets[j].type
  BY <1>1, NamesAssumption DEF Network
<1> QED
  BY <1>2, <1>3 DEF Link, Bridge, Bridges

LEMMA WithinItself == ASSUME NEW a, a[2] \in Nat PROVE Within(a, a)
<1>1. a[2] \div 1 = a[2]
  OBVIOUS
<1> QED
  BY <1>1 DEF Within

LEMMA AddIfcFields ==
  ASSUME NEW s, s = [ifc |-> s.ifc, addr |-> s.addr, port |-> s.port], NEW i
  PROVE  AddIfc(s, i) = [ifc |-> s.ifc \cup {i}, addr |-> s.addr, port |-> s.port]
BY DEF AddIfc

\* The record with other addresses or other ports.
WithAddr(s, A) == [s EXCEPT !.addr = A]
WithPort(s, P) == [s EXCEPT !.port = P]

LEMMA WithFields ==
  ASSUME NEW s, s = [ifc |-> s.ifc, addr |-> s.addr, port |-> s.port], NEW A
  PROVE  /\ WithAddr(s, A) = [ifc |-> s.ifc, addr |-> A, port |-> s.port]
         /\ WithPort(s, A) = [ifc |-> s.ifc, addr |-> s.addr, port |-> A]
BY DEF WithAddr, WithPort

LEMMA AddAddrFields ==
  ASSUME NEW s, s = [ifc |-> s.ifc, addr |-> s.addr, port |-> s.port], NEW i, NEW a
  PROVE  AddAddr(s, i, a) = [ifc |-> s.ifc, addr |-> s.addr \cup {<<i, a>>}, port |-> s.port]
<1>1. AddAddr(s, i, a) = WithAddr(s, s.addr \cup {<<i, a>>})
  BY Zenon DEF AddAddr, WithAddr
<1> QED
  BY <1>1, WithFields, Zenon

LEMMA AddBoth ==
  ASSUME NEW s, s = [ifc |-> s.ifc, addr |-> s.addr, port |-> s.port], NEW i, NEW a
  PROVE  AddAddr(AddIfc(s, i), i, a)
           = [ifc |-> s.ifc \cup {i}, addr |-> s.addr \cup {<<i, a>>}, port |-> s.port]
<1> DEFINE r == AddIfc(s, i)
<1>1. r = [ifc |-> s.ifc \cup {i}, addr |-> s.addr, port |-> s.port]
  BY AddIfcFields
<1>2. r = [ifc |-> r.ifc, addr |-> r.addr, port |-> r.port]
  BY <1>1
<1> HIDE DEF r
<1>3. AddAddr(r, i, a) = [ifc |-> r.ifc, addr |-> r.addr \cup {<<i, a>>}, port |-> r.port]
  BY <1>2, AddAddrFields, Zenon
<1> QED
  BY <1>1, <1>3 DEF r

LEMMA AttachFields ==
  ASSUME NEW s, s = [ifc |-> s.ifc, addr |-> s.addr, port |-> s.port], NEW i, NEW a
  PROVE  Attach(s, i, a) = [ifc |-> s.ifc, addr |-> s.addr,
                            port |-> {p \in s.port : p[1] # i} \cup {<<i, a>>}]
<1>1. Attach(s, i, a) = WithPort(s, {p \in s.port : p[1] # i} \cup {<<i, a>>})
  BY Zenon DEF Attach, WithPort
<1> QED
  BY <1>1, WithFields, Zenon

LEMMA StepFields ==
  ASSUME HostShape, NEW s, Step(s)
  PROVE  cmd' = [op |-> cmd.op, i |-> cmd.i, step |-> s]
BY DEF HostShape, Step

LEMMA AdvanceFields ==
  ASSUME HostShape, CommandInv, cmd.op # "idle", Advance
  PROVE  /\ cmd.i \in Numbers
         /\ \/ cmd.i = Len(nets) /\ cmd' = Idle
            \/ cmd.i + 1 \in Numbers /\ cmd' = [op |-> cmd.op, i |-> cmd.i + 1, step |-> "begin"]
<1>1. cmd.i \in Numbers /\ Len(nets) \in Nat
  BY DEF CommandInv, HostShape
<1>2. CASE cmd.i < Len(nets)
  <2>1. cmd' = [op |-> cmd.op, i |-> cmd.i + 1, step |-> "begin"]
    BY <1>2 DEF Advance, HostShape
  <2> QED
    BY <1>1, <1>2, <2>1 DEF Numbers
<1> QED
  BY <1>1, <1>2 DEF Advance, Numbers

\* The steps of an enable.
Enabling(s) == cmd.op = "enable" /\ cmd.step = s /\ cmd.i \in Numbers
To(s) == cmd' = [op |-> "enable", i |-> cmd.i, step |-> s]
Same == UNCHANGED <<nets, firewall, nat, cont, dock, made>>
Quiet == UNCHANGED <<rules, whole, gone, settled>>

LEMMA AddAddressDoes ==
  ASSUME HostShape, CommandInv, AddAddress
  PROVE  /\ Enabling("begin") /\ ~Net.bridged /\ To("file") /\ Same /\ Quiet /\ disk' = disk
         /\ live' = [ifc |-> live.ifc, addr |-> live.addr \cup {Address(cmd.i)}, port |-> live.port]
<1>1. Enabling("begin") /\ ~Net.bridged
  BY DEF AddAddress, At, CommandInv, Enabling
<1>2. Address(cmd.i) = <<<<Net.dev, 0>>, <<cmd.i, TRUE>>>>
  BY <1>1 DEF Address, Net
<1>3. live' = [ifc |-> live.ifc, addr |-> live.addr \cup {<<<<Net.dev, 0>>, <<cmd.i, TRUE>>>>}, port |-> live.port]
  BY AddAddrFields, Zenon DEF AddAddress, HostShape
<1> QED
  BY <1>1, <1>2, <1>3, StepFields DEF AddAddress, At, To, Same, Quiet, fixed, host, history

LEMMA ClearAddressesDoes ==
  ASSUME HostShape, CommandInv, ClearAddresses
  PROVE  /\ Enabling("begin") /\ Net.bridged /\ To("link") /\ Same /\ Quiet /\ disk' = disk
         /\ live' = [ifc |-> live.ifc, port |-> live.port,
                     addr |-> {p \in live.addr : ~(p[1] = <<Net.dev, 0>> /\ p[2][1] = cmd.i)}]
BY StepFields
DEF ClearAddresses, At, CommandInv, HostShape, Enabling, To, Same, Quiet, fixed, host, history

LEMMA MakeLinkDoes ==
  ASSUME HostShape, CommandInv, MakeLink
  PROVE  /\ Enabling("link") /\ Net.bridged /\ (To("ask") \/ cmd' = Idle)
         /\ Same /\ Quiet /\ disk' = disk
         /\ live' = [ifc |-> live.ifc \cup {Link(Net)}, addr |-> live.addr, port |-> live.port]
<1>1. live' = [ifc |-> live.ifc \cup {Link(Net)}, addr |-> live.addr, port |-> live.port]
  BY AddIfcFields DEF MakeLink, HostShape
<1> QED
  BY <1>1, StepFields DEF MakeLink, WaitForIfcUp, At, CommandInv, Linked, Enabling, To, Same,
     Quiet, fixed, host, history

LEMMA AskBridgeDoes ==
  ASSUME HostShape, CommandInv, AskBridge
  PROVE  /\ Enabling("ask") /\ Net.bridged /\ (To("linkfile") \/ cmd' = Idle)
         /\ Same /\ Quiet /\ disk' = disk /\ live' = live
BY StepFields DEF AskBridge, At, CommandInv, Linked, Enabling, To, Same, Quiet, fixed, host, history

LEMMA WriteLinkFileDoes ==
  ASSUME HostShape, CommandInv, WriteLinkFile
  PROVE  /\ Enabling("linkfile") /\ Net.bridged /\ To("bridgefile") /\ Same /\ Quiet /\ live' = live
         /\ disk' = [ifc |-> disk.ifc \cup {Link(Net)}, addr |-> disk.addr,
                     port |-> {p \in disk.port : p[1] # Link(Net)} \cup {<<Link(Net), Bridge(Net)>>}]
<1>1. disk' = [ifc |-> disk.ifc \cup {Link(Net)}, addr |-> disk.addr,
               port |-> {p \in disk.port : p[1] # Link(Net)} \cup {<<Link(Net), Bridge(Net)>>}]
  <2>1. AddIfc(disk, Link(Net)) = [ifc |-> disk.ifc \cup {Link(Net)}, addr |-> disk.addr, port |-> disk.port]
    BY AddIfcFields DEF HostShape
  <2> DEFINE s == [ifc |-> disk.ifc \cup {Link(Net)}, addr |-> disk.addr, port |-> disk.port]
  <2>2. Attach(s, Link(Net), Bridge(Net))
          = [ifc |-> s.ifc, addr |-> s.addr,
             port |-> {p \in s.port : p[1] # Link(Net)} \cup {<<Link(Net), Bridge(Net)>>}]
    <3>1. s = [ifc |-> s.ifc, addr |-> s.addr, port |-> s.port]
      OBVIOUS
    <3> HIDE DEF s
    <3> QED
      BY <3>1, AttachFields, Zenon
  <2> QED
    BY <2>1, <2>2 DEF WriteLinkFile
<1> QED
  BY <1>1, StepFields DEF WriteLinkFile, At, CommandInv, Linked, Enabling, To, Same, Quiet,
     fixed, host, history

LEMMA WriteBridgeFileDoes ==
  ASSUME HostShape, CommandInv, WriteBridgeFile
  PROVE  /\ Enabling("bridgefile") /\ Net.bridged /\ To("bridge") /\ Same /\ Quiet /\ live' = live
         /\ \/ Net.type = "mgmt" /\ Bridge(Net) \in disk.ifc /\ disk' = disk
            \/ disk' = [ifc |-> disk.ifc \cup {Bridge(Net)}, port |-> disk.port,
                        addr |-> {p \in disk.addr : p[1] # Bridge(Net)} \cup {Address(cmd.i)}]
<1> DEFINE new == [ifc |-> disk.ifc \cup {Bridge(Net)}, port |-> disk.port,
                   addr |-> {p \in disk.addr : p[1] # Bridge(Net)} \cup {<<Bridge(Net), <<cmd.i, TRUE>>>>}]
<1>1. \/ Net.type = "mgmt" /\ Bridge(Net) \in disk.ifc /\ disk' = disk
      \/ disk' = new
  <2>1. AddIfc(disk, Bridge(Net)) = [ifc |-> disk.ifc \cup {Bridge(Net)}, addr |-> disk.addr, port |-> disk.port]
    BY AddIfcFields DEF HostShape
  <2> DEFINE s == [ifc |-> disk.ifc \cup {Bridge(Net)}, addr |-> disk.addr, port |-> disk.port]
             A == {p \in s.addr : p[1] # Bridge(Net)} \cup {<<Bridge(Net), <<cmd.i, TRUE>>>>}
  <2>2. WithAddr(s, A) = [ifc |-> s.ifc, addr |-> A, port |-> s.port]
    <3>1. s = [ifc |-> s.ifc, addr |-> s.addr, port |-> s.port]
      OBVIOUS
    <3> HIDE DEF s, A
    <3> QED
      BY <3>1, WithFields, Zenon
  <2>3. \/ Net.type = "mgmt" /\ Bridge(Net) \in disk.ifc /\ disk' = disk
        \/ disk' = [s EXCEPT !.addr = A]
    <3>1. AddIfc(disk, Bridge(Net)) = s
      BY <2>1
    <3> HIDE DEF s
    <3> QED
      BY <3>1, Zenon DEF WriteBridgeFile
  <2> QED
    BY <2>2, <2>3 DEF WithAddr
<1>2. Enabling("bridgefile") /\ Net.bridged
  BY DEF WriteBridgeFile, At, CommandInv, Linked, Enabling
<1>3. Address(cmd.i) = <<Bridge(Net), <<cmd.i, TRUE>>>>
  BY <1>2 DEF Address, Net
<1> QED
  BY <1>1, <1>2, <1>3, StepFields DEF WriteBridgeFile, At, To, Same, Quiet, fixed, host, history

LEMMA MakeBridgeDoes ==
  ASSUME HostShape, CommandInv, MakeBridge
  PROVE  /\ Enabling("bridge") /\ Net.bridged /\ To("attach") /\ Same /\ Quiet /\ disk' = disk
         /\ live' = [ifc |-> live.ifc \cup {Bridge(Net)}, port |-> live.port,
                     addr |-> live.addr \cup {Address(cmd.i)}]
<1>1. Enabling("bridge") /\ Net.bridged
  BY DEF MakeBridge, At, CommandInv, Linked, Enabling
<1>2. Address(cmd.i) = <<Bridge(Net), <<cmd.i, TRUE>>>>
  BY <1>1 DEF Address, Net
<1>3. live' = [ifc |-> live.ifc \cup {Bridge(Net)}, port |-> live.port,
               addr |-> live.addr \cup {<<Bridge(Net), <<cmd.i, TRUE>>>>}]
  <2>1. AddAddr(AddIfc(live, Bridge(Net)), Bridge(Net), <<cmd.i, TRUE>>)
          = [ifc |-> live.ifc \cup {Bridge(Net)}, port |-> live.port,
             addr |-> live.addr \cup {<<Bridge(Net), <<cmd.i, TRUE>>>>}]
    BY AddBoth DEF HostShape
  <2> QED
    BY <2>1, Zenon DEF MakeBridge
<1> QED
  BY <1>1, <1>2, <1>3, StepFields DEF MakeBridge, At, To, Same, Quiet, fixed, host, history

LEMMA AttachLinkDoes ==
  ASSUME HostShape, CommandInv, AttachLink
  PROVE  /\ Enabling("attach") /\ Net.bridged /\ (To("firewall") \/ cmd' = Idle)
         /\ Same /\ Quiet /\ disk' = disk
         /\ live' = [ifc |-> live.ifc, addr |-> live.addr,
                     port |-> {p \in live.port : p[1] # Link(Net)} \cup {<<Link(Net), Bridge(Net)>>}]
<1>1. live' = [ifc |-> live.ifc, addr |-> live.addr,
               port |-> {p \in live.port : p[1] # Link(Net)} \cup {<<Link(Net), Bridge(Net)>>}]
  BY AttachFields, Zenon DEF AttachLink, HostShape
<1> QED
  BY <1>1, StepFields DEF AttachLink, WaitForIfcUp, At, CommandInv, Linked, Enabling, To, Same,
     Quiet, fixed, host, history

\* The last step for a network, and the end with the last network.
Ends ==
  \/ /\ cmd.i = Len(nets) /\ cmd' = Idle
     /\ whole' = TRUE /\ settled' = {<<live', rules', nat>>}
  \/ /\ cmd.i + 1 \in Numbers /\ cmd' = [op |-> "enable", i |-> cmd.i + 1, step |-> "begin"]
     /\ UNCHANGED <<whole, settled>>

LEMMA CompleteEnds ==
  ASSUME HostShape, CommandInv, cmd.op = "enable", Advance, Complete
  PROVE  Ends
<1>1. Len(nets) \in Nat /\ cmd.i \in Numbers
  BY DEF HostShape, CommandInv
<1> QED
  BY <1>1, AdvanceFields DEF Complete, Ends, Numbers, Idle

LEMMA WriteIfcCfgDoes ==
  ASSUME HostShape, CommandInv, WriteIfcCfg
  PROVE  /\ Enabling("file") /\ ~Net.bridged /\ Ends /\ Same /\ gone' = gone
         /\ live' = live /\ rules' = rules
         /\ disk' = [ifc |-> disk.ifc, addr |-> disk.addr \cup {Address(cmd.i)}, port |-> disk.port]
         /\ plain' = (IF \E p \in disk.addr : p[1] = <<Net.dev, 0>> THEN plain ELSE plain \cup {cmd.i})
<1>1. Enabling("file") /\ ~Net.bridged
  BY DEF WriteIfcCfg, At, CommandInv, Enabling
<1>2. Address(cmd.i) = <<<<Net.dev, 0>>, <<cmd.i, TRUE>>>>
  BY <1>1 DEF Address, Net
<1>3. disk' = [ifc |-> disk.ifc, addr |-> disk.addr \cup {<<<<Net.dev, 0>>, <<cmd.i, TRUE>>>>}, port |-> disk.port]
  BY AddAddrFields, Zenon DEF WriteIfcCfg, HostShape
<1>4. Ends
  BY <1>1, CompleteEnds DEF WriteIfcCfg, Enabling
<1> QED
  BY <1>1, <1>2, <1>3, <1>4 DEF WriteIfcCfg, Same, fixed, host

LEMMA UpdateFirewallDoes ==
  ASSUME HostShape, CommandInv, UpdateFirewall
  PROVE  /\ Enabling("firewall") /\ Net.bridged /\ Ends /\ Same /\ gone' = gone
         /\ live' = live /\ disk' = disk
         /\ \/ rules' = rules /\ Ruled(cmd.i)
            \/ /\ firewall /\ ~\E b \in Bridges : rules[b] > 0 /\ Within(Bridge(Net), b)
               /\ rules' = [rules EXCEPT ![Bridge(Net)] = @ + 1]
<1>1. Enabling("firewall") /\ Net.bridged
  BY DEF UpdateFirewall, At, CommandInv, Linked, Enabling
<1>2. Ends
  BY <1>1, CompleteEnds DEF UpdateFirewall, Enabling
<1>3. \/ rules' = rules /\ Ruled(cmd.i)
      \/ /\ firewall /\ ~\E b \in Bridges : rules[b] > 0 /\ Within(Bridge(Net), b)
         /\ rules' = [rules EXCEPT ![Bridge(Net)] = @ + 1]
  BY DEF UpdateFirewall, Ruled, Net
<1> QED
  BY <1>1, <1>2, <1>3 DEF UpdateFirewall, Same, fixed

\* The steps that leave the networks as they are.
Still == UNCHANGED <<nets, firewall, live, disk, rules, dock, made>>
LEMMA StartDoes ==
  ASSUME HostShape, NEW op \in Ops, StartCommand(op)
  PROVE  /\ cmd = Idle /\ Still /\ nat' = nat /\ 1 \in Numbers /\ gone' = FALSE
         /\ whole' = (whole /\ op # "teardown")
         /\ settled' = (IF op = "enable" THEN settled ELSE {})
         /\ \E s \in {"create", "docker", "begin"} :
              /\ cmd' = [op |-> op, i |-> 1, step |-> s]
              /\ op = "enable" => s = "begin"
              /\ op = "teardown" => s = "docker"
<1>1. 1 \in Numbers
  BY DEF StartCommand, HostShape, Numbers
<1> QED
  BY <1>1 DEF StartCommand, Still, host, fixed

\* The other resting steps belong to commands that make or remove no network.
LEMMA RestDoes ==
  ASSUME HostShape, CommandInv,
         Gateway \/ CreateContainer \/ AgainContainer \/ RemoveContainer \/ Interrupt
  PROVE  /\ cmd.op # "idle" /\ Still /\ UNCHANGED <<whole, gone, settled>>
         /\ \/ cmd' = Idle
            \/ /\ cmd.op \in {"gateway", "ungate", "container"}
               /\ cmd'.i \in Numbers /\ cmd' = [op |-> cmd.op, i |-> cmd'.i, step |-> "begin"]
<1>1. ASSUME Gateway
      PROVE  /\ cmd.op \in {"gateway", "ungate"} /\ Still /\ UNCHANGED <<whole, gone, settled>>
             /\ Advance
  BY <1>1 DEF Gateway, At, Still, fixed, history
<1>2. ASSUME CreateContainer \/ AgainContainer
      PROVE  /\ cmd.op = "container" /\ Still /\ UNCHANGED <<whole, gone, settled>>
             /\ Step("begin") \/ cmd' = Idle
  BY <1>2 DEF CreateContainer, AgainContainer, At, Still, fixed, history, host
<1>3. ASSUME RemoveContainer \/ Interrupt
      PROVE  /\ cmd.op # "idle" /\ Still /\ UNCHANGED <<whole, gone, settled>> /\ cmd' = Idle
  BY <1>3 DEF RemoveContainer, Interrupt, At, Still, fixed, history, host, CommandInv
<1>4. cmd.op # "idle" => cmd.i \in Numbers
  BY DEF CommandInv
<1>5. CASE Gateway
  BY <1>1, <1>4, <1>5, AdvanceFields
<1>6. CASE CreateContainer \/ AgainContainer
  BY <1>2, <1>4, <1>6, StepFields
<1> QED
  BY <1>3, <1>5, <1>6

LEMMA CreateNetworkDoes ==
  ASSUME HostShape, CommandInv, CreateNetwork
  PROVE  /\ cmd.op = "container" /\ cmd.i \in Numbers /\ UNCHANGED <<nets, firewall, disk, rules>>
         /\ UNCHANGED <<whole, gone, settled>>
         /\ \/ cmd' = Idle
            \/ cmd'.i \in Numbers /\ cmd' = [op |-> cmd.op, i |-> cmd'.i, step |-> "begin"]
         /\ \/ live' = live
            \/ live' = [ifc |-> live.ifc \cup {DockerBridge(Net)}, port |-> live.port,
                        addr |-> live.addr \cup {<<DockerBridge(Net), <<cmd.i, TRUE>>>>}]
<1>1. cmd.op = "container" /\ cmd.i \in Numbers
  BY DEF CreateNetwork, At, CommandInv
<1>2. \/ live' = live
      \/ live' = AddAddr(AddIfc(live, DockerBridge(Net)), DockerBridge(Net), <<cmd.i, TRUE>>)
  BY Zenon DEF CreateNetwork
<1>3. AddAddr(AddIfc(live, DockerBridge(Net)), DockerBridge(Net), <<cmd.i, TRUE>>)
        = [ifc |-> live.ifc \cup {DockerBridge(Net)}, port |-> live.port,
           addr |-> live.addr \cup {<<DockerBridge(Net), <<cmd.i, TRUE>>>>}]
  BY AddBoth DEF HostShape
<1>4. \/ cmd' = Idle
      \/ cmd'.i \in Numbers /\ cmd' = [op |-> cmd.op, i |-> cmd'.i, step |-> "begin"]
  <2>1. cmd.op # "idle" /\ Advance
    BY <1>1 DEF CreateNetwork
  <2> QED
    BY <2>1, AdvanceFields
<1>5. UNCHANGED <<nets, firewall, disk, rules>> /\ UNCHANGED <<whole, gone, settled>>
  BY DEF CreateNetwork, fixed, history
<1> QED
  BY <1>1, <1>2, <1>3, <1>4, <1>5, Zenon

-----------------------------------------------------------------------------
(* The steps of a teardown. *)

Tearing(s) == cmd.op = "teardown" /\ cmd.step = s /\ cmd.i \in Numbers
Down(s) == cmd' = [op |-> "teardown", i |-> cmd.i, step |-> s]
Alike == UNCHANGED <<nets, firewall, whole, settled>>

\* The record without an interface.
LEMMA DelFields ==
  ASSUME NEW s, NEW i
  PROVE  /\ DelIfc(s, i).ifc = s.ifc \ {i} /\ DelIfc(s, i).addr = {p \in s.addr : p[1] # i}
         /\ DelIfc(s, i).port = {p \in s.port : i \notin {p[1], p[2]}}
         /\ DelIfc(s, i) = [ifc |-> DelIfc(s, i).ifc, addr |-> DelIfc(s, i).addr, port |-> DelIfc(s, i).port]
BY DEF DelIfc

\* The last network of a teardown.
Last ==
  \/ cmd.i = Len(nets) /\ cmd' = Idle /\ gone' = TRUE
  \/ /\ cmd.i + 1 \in Numbers /\ cmd' = [op |-> "teardown", i |-> cmd.i + 1, step |-> "begin"]
     /\ gone' = FALSE

LEMMA FinishEnds ==
  ASSUME HostShape, CommandInv, cmd.op = "teardown", Advance, Finish
  PROVE  Last /\ UNCHANGED <<whole, settled>>
<1>1. Len(nets) \in Nat /\ cmd.i \in Numbers
  BY DEF HostShape, CommandInv
<1> QED
  <2>1. CASE cmd.i = Len(nets)
    <3>1. gone' = TRUE
      BY <2>1, Zenon DEF Finish
    <3>2. cmd' = Idle
      BY <1>1, <2>1 DEF Advance
    <3> QED
      BY <2>1, <3>1, <3>2, Zenon DEF Last, Finish
  <2>2. CASE cmd.i # Len(nets)
    <3>1. gone' = FALSE
      BY <2>2, Zenon DEF Finish
    <3>2. cmd.i + 1 \in Numbers /\ cmd' = [op |-> "teardown", i |-> cmd.i + 1, step |-> "begin"]
      BY <2>2, AdvanceFields
    <3> QED
      BY <3>1, <3>2, Zenon DEF Last, Finish
  <2> QED
    BY <2>1, <2>2

LEMMA RemoveDockerNetworksDoes ==
  ASSUME HostShape, CommandInv, RemoveDockerNetworks
  PROVE  /\ Tearing("docker") /\ Down("begin") /\ Alike /\ gone' = gone
         /\ disk' = disk /\ rules' = rules /\ dock' = {} /\ made' = {}
         /\ live' = [ifc |-> live'.ifc, addr |-> live'.addr, port |-> live'.port]
         /\ live'.port \subseteq live.port
BY StepFields DEF RemoveDockerNetworks, At, CommandInv, Tearing, Down, Alike, fixed, history

LEMMA DeleteAddressDoes ==
  ASSUME HostShape, CommandInv, DeleteAddress
  PROVE  /\ Tearing("begin") /\ ~Net.bridged /\ Last /\ Alike
         /\ UNCHANGED <<rules, dock, made>>
         /\ live' = [ifc |-> live.ifc, addr |-> live.addr \ {Address(cmd.i)}, port |-> live.port]
         /\ \/ /\ disk' = [ifc |-> disk.ifc, addr |-> disk.addr \ {Address(cmd.i)}, port |-> disk.port]
               /\ plain' = plain \ {cmd.i}
            \/ /\ cmd.i \notin plain \/ \E l \in disk.ifc \ {<<Net.dev, 0>>} : l[1] = Net.dev
               /\ disk' = disk /\ plain' = plain
<1>1. Tearing("begin") /\ ~Net.bridged
  BY DEF DeleteAddress, At, CommandInv, Tearing
<1>2. Address(cmd.i) = <<<<Net.dev, 0>>, <<cmd.i, TRUE>>>>
  BY <1>1 DEF Address, Net
<1>3. /\ live' = WithAddr(live, live.addr \ {<<<<Net.dev, 0>>, <<cmd.i, TRUE>>>>})
      /\ \/ /\ disk' = WithAddr(disk, disk.addr \ {<<<<Net.dev, 0>>, <<cmd.i, TRUE>>>>})
            /\ plain' = plain \ {cmd.i}
         \/ /\ cmd.i \notin plain \/ \E l \in disk.ifc \ {<<Net.dev, 0>>} : l[1] = Net.dev
            /\ disk' = disk /\ plain' = plain
  BY Zenon DEF DeleteAddress, WithAddr
<1>4. /\ live' = [ifc |-> live.ifc, addr |-> live.addr \ {Address(cmd.i)}, port |-> live.port]
      /\ \/ /\ disk' = [ifc |-> disk.ifc, addr |-> disk.addr \ {Address(cmd.i)}, port |-> disk.port]
            /\ plain' = plain \ {cmd.i}
         \/ /\ cmd.i \notin plain \/ \E l \in disk.ifc \ {<<Net.dev, 0>>} : l[1] = Net.dev
            /\ disk' = disk /\ plain' = plain
  BY <1>2, <1>3, WithFields DEF HostShape
<1> QED
  BY <1>1, <1>4, FinishEnds DEF DeleteAddress, Tearing, Alike, fixed, host

LEMMA DeleteLinkDoes ==
  ASSUME HostShape, CommandInv, DeleteLink
  PROVE  /\ Tearing("begin") /\ Net.bridged /\ Alike /\ gone' = gone
         /\ UNCHANGED <<rules, dock, made>> /\ disk' = disk
         /\ \/ AttachedElsewhere(Link(Net), Bridge(Net)) /\ Down("bridge") /\ live' = live
            \/ cmd' = Idle /\ live' = live
            \/ Down("bridge") /\ live' = DelIfc(live, Link(Net))
BY StepFields DEF DeleteLink, At, CommandInv, Tearing, Down, Alike, fixed, history, host

LEMMA DeleteBridgeDoes ==
  ASSUME HostShape, CommandInv, DeleteBridge
  PROVE  /\ Tearing("bridge") /\ Net.bridged /\ Down("bridgefile") /\ Alike /\ gone' = gone
         /\ UNCHANGED <<rules, dock, made>> /\ disk' = disk /\ live' = DelIfc(live, Bridge(Net))
BY StepFields DEF DeleteBridge, At, CommandInv, Linked, Tearing, Down, Alike, fixed, history, host

LEMMA DeleteBridgeFileDoes ==
  ASSUME HostShape, CommandInv, DeleteBridgeFile
  PROVE  /\ Tearing("bridgefile") /\ Net.bridged /\ Down("linkfile") /\ Alike /\ gone' = gone
         /\ UNCHANGED <<rules, dock, made>> /\ live' = live
         /\ disk' = [ifc |-> disk.ifc \ {Bridge(Net)}, port |-> disk.port,
                     addr |-> {p \in disk.addr : p[1] # Bridge(Net)}]
<1>1. Tearing("bridgefile") /\ Net.bridged
  BY DEF DeleteBridgeFile, At, CommandInv, Linked, Tearing
<1>2. disk' = [ifc |-> disk.ifc \ {Bridge(Net)}, port |-> disk.port,
               addr |-> {p \in disk.addr : p[1] # Bridge(Net)}]
  BY DEF DeleteBridgeFile, HostShape
<1> QED
  BY <1>1, <1>2, StepFields DEF DeleteBridgeFile, Tearing, Down, Alike, fixed, history, host

LEMMA DeleteLinkFileDoes ==
  ASSUME HostShape, CommandInv, DeleteLinkFile
  PROVE  /\ Tearing("linkfile") /\ Net.bridged /\ Down("firewall") /\ Alike /\ gone' = gone
         /\ UNCHANGED <<rules, dock, made>> /\ live' = live
         /\ \/ Tag(Net) = 0 /\ disk' = disk
            \/ Tag(Net) # 0 /\ disk' = DelIfc(disk, Link(Net))
BY StepFields DEF DeleteLinkFile, At, CommandInv, Linked, Tearing, Down, Alike, fixed, history, host

LEMMA DeleteRulesDoes ==
  ASSUME HostShape, CommandInv, DeleteRules
  PROVE  /\ Tearing("firewall") /\ Net.bridged /\ Last /\ Alike
         /\ UNCHANGED <<live, disk, dock, made>>
         /\ rules' = IF firewall
                       THEN [b \in Bridges |-> IF Within(Bridge(Net), b) THEN 0 ELSE rules[b]]
                       ELSE rules
<1>1. Tearing("firewall") /\ Net.bridged
  BY DEF DeleteRules, At, CommandInv, Linked, Tearing
<1> QED
  BY <1>1, FinishEnds DEF DeleteRules, Tearing, Alike, fixed

-----------------------------------------------------------------------------
(* The records keep their shape and the command its place. *)

Shape(s) == s = [ifc |-> s.ifc, addr |-> s.addr, port |-> s.port]
RulesShape(r) == r = [b \in Bridges |-> r[b]] /\ \A b \in Bridges : r[b] \in Nat

\* To the next step for a network, or to the end of the command.
Goes(op, s) ==
  \/ cmd' = Idle
  \/ /\ cmd' = [op |-> op, i |-> cmd.i, step |-> s] /\ s \in Linked \cup {"file"}
     /\ (s \in Linked => Net.bridged) /\ (s = "file" => ~Net.bridged)

LEMMA EnableDoes ==
  ASSUME HostShape, CommandInv, Enable
  PROVE  /\ cmd.op = "enable" /\ cmd.i \in Numbers /\ UNCHANGED <<nets, firewall, gone>>
         /\ Shape(live') /\ Shape(disk') /\ RulesShape(rules')
         /\ (\E s : Goes("enable", s) /\ UNCHANGED <<whole, settled>>) \/ Ends
<1>0. Shape(live) /\ Shape(disk) /\ RulesShape(rules)
  BY DEF HostShape, Shape, RulesShape
<1> USE DEF Shape
<1>1. CASE AddAddress
  BY <1>0, <1>1, AddAddressDoes DEF Enabling, Same, Quiet, To, Goes, Linked, Net
<1>2. CASE ClearAddresses
  BY <1>0, <1>2, ClearAddressesDoes DEF Enabling, Same, Quiet, To, Goes, Linked, Net
<1>3. CASE MakeLink
  BY <1>0, <1>3, MakeLinkDoes DEF Enabling, Same, Quiet, To, Goes, Linked, Net
<1>4. CASE AskBridge
  BY <1>0, <1>4, AskBridgeDoes DEF Enabling, Same, Quiet, To, Goes, Linked, Net
<1>5. CASE WriteLinkFile
  BY <1>0, <1>5, WriteLinkFileDoes DEF Enabling, Same, Quiet, To, Goes, Linked, Net
<1>6. CASE WriteBridgeFile
  BY <1>0, <1>6, WriteBridgeFileDoes DEF Enabling, Same, Quiet, To, Goes, Linked, Net
<1>7. CASE MakeBridge
  BY <1>0, <1>7, MakeBridgeDoes DEF Enabling, Same, Quiet, To, Goes, Linked, Net
<1>8. CASE AttachLink
  BY <1>0, <1>8, AttachLinkDoes DEF Enabling, Same, Quiet, To, Goes, Linked, Net
<1>9. CASE WriteIfcCfg
  BY <1>0, <1>9, WriteIfcCfgDoes DEF Enabling, Same
<1>10. CASE UpdateFirewall
  <2>1. /\ cmd.op = "enable" /\ cmd.i \in Numbers /\ UNCHANGED <<nets, firewall, gone>>
        /\ Ends /\ live' = live /\ disk' = disk
    BY <1>10, UpdateFirewallDoes DEF Enabling, Same
  <2>2. RulesShape(rules')
    <3>1. rules' = rules \/ rules' = [rules EXCEPT ![Bridge(Net)] = @ + 1]
      BY <1>10, UpdateFirewallDoes
    <3> QED
      BY <1>0, <3>1 DEF RulesShape
  <2> QED
    BY <1>0, <2>1, <2>2
<1> QED
  BY <1>1, <1>2, <1>3, <1>4, <1>5, <1>6, <1>7, <1>8, <1>9, <1>10 DEF Enable

LEMMA TeardownDoes ==
  ASSUME HostShape, CommandInv, TeardownNet
  PROVE  /\ cmd.op = "teardown" /\ cmd.i \in Numbers /\ Alike
         /\ Shape(live') /\ Shape(disk') /\ RulesShape(rules')
         /\ \/ (\E s : Goes("teardown", s) \/ (cmd.step = "docker" /\ Down("begin"))) /\ gone' = gone
            \/ Last
<1>0. Shape(live) /\ Shape(disk) /\ RulesShape(rules)
  BY DEF HostShape, Shape, RulesShape
<1> USE DEF Shape
<1>1. CASE RemoveDockerNetworks
  BY <1>0, <1>1, RemoveDockerNetworksDoes DEF Tearing, Alike
<1>2. CASE DeleteAddress
  BY <1>0, <1>2, DeleteAddressDoes DEF Tearing, Alike
<1>3. CASE DeleteLink
  BY <1>0, <1>3, DeleteLinkDoes, DelFields DEF Tearing, Alike, Down, Goes, Linked, Net
<1>4. CASE DeleteBridge
  BY <1>0, <1>4, DeleteBridgeDoes, DelFields DEF Tearing, Alike, Down, Goes, Linked, Net
<1>5. CASE DeleteBridgeFile
  BY <1>0, <1>5, DeleteBridgeFileDoes DEF Tearing, Alike, Down, Goes, Linked, Net
<1>6. CASE DeleteLinkFile
  BY <1>0, <1>6, DeleteLinkFileDoes, DelFields DEF Tearing, Alike, Down, Goes, Linked, Net
<1>7. CASE DeleteRules
  <2>1. /\ cmd.op = "teardown" /\ cmd.i \in Numbers /\ Alike /\ Last
        /\ live' = live /\ disk' = disk
    BY <1>7, DeleteRulesDoes DEF Tearing
  <2>2. RulesShape(rules')
    BY <1>0, <1>7, DeleteRulesDoes DEF RulesShape
  <2> QED
    BY <1>0, <2>1, <2>2
<1> QED
  BY <1>1, <1>2, <1>3, <1>4, <1>5, <1>6, <1>7 DEF TeardownNet

LEMMA RebootDoes ==
  ASSUME Reboot
  PROVE  /\ UNCHANGED <<nets, firewall, disk, dock, made, whole, gone>>
         /\ cmd' = Idle /\ settled' = {} /\ rules' = [b \in Bridges |-> 0]
         /\ Shape(live')
         /\ live'.ifc = disk.ifc \cup made \cup {Foreign}
         /\ disk.addr \subseteq live'.addr /\ (made = {} => live'.addr = disk.addr)
         /\ live'.port = {p \in disk.port : p[2] \in disk.ifc \cup made}
<1> DEFINE ours == {k \in dock : DockerBridge(nets[k]) \in made}
           extra == {<<DockerBridge(nets[k]), <<k, TRUE>>>> : k \in ours}
<1>1. live' = [ifc |-> disk.ifc \cup made \cup {Foreign}, addr |-> disk.addr \cup extra,
               port |-> {p \in disk.port : p[2] \in disk.ifc \cup made}]
  BY Zenon DEF Reboot
<1>2. made = {} => extra = {}
  OBVIOUS
<1> HIDE DEF ours, extra
<1>3. /\ live'.ifc = disk.ifc \cup made \cup {Foreign} /\ live'.addr = disk.addr \cup extra
      /\ live'.port = {p \in disk.port : p[2] \in disk.ifc \cup made}
  BY <1>1
<1>4. UNCHANGED <<nets, firewall, disk, dock, made, whole, gone>>
  BY Zenon DEF Reboot, fixed
<1>5. cmd' = Idle /\ settled' = {} /\ rules' = [b \in Bridges |-> 0]
  BY Zenon DEF Reboot
<1>6. Shape(live')
  BY <1>1, <1>3 DEF Shape
<1> QED
  BY <1>2, <1>3, <1>4, <1>5, <1>6

LEMMA KindsOfSteps ==
  ASSUME HostShape, CommandInv, [NetsNext]_netsVars
  PROVE  \/ Enable \/ TeardownNet \/ CreateNetwork \/ Reboot \/ UNCHANGED netsVars
         \/ (\E op \in Ops : StartCommand(op))
         \/ Gateway \/ CreateContainer \/ AgainContainer \/ RemoveContainer \/ Interrupt
BY DEF NetsNext, Containers

LEMMA ShapeKept ==
  ASSUME HostShape, CommandInv, [NetsNext]_netsVars
  PROVE  HostShape'
<1>0. Shape(live) /\ Shape(disk) /\ RulesShape(rules)
  BY DEF HostShape, Shape, RulesShape
<1>1. nets' = nets /\ Shape(live') /\ Shape(disk') /\ RulesShape(rules')
  <2>1. CASE Enable
    BY <2>1, EnableDoes
  <2>2. CASE TeardownNet
    BY <2>2, TeardownDoes DEF Alike
  <2>3. CASE CreateNetwork
    BY <1>0, <2>3, CreateNetworkDoes DEF Shape
  <2>4. CASE Reboot
    BY <1>0, <2>4, RebootDoes DEF RulesShape
  <2>5. CASE UNCHANGED netsVars
    BY <1>0, <2>5 DEF netsVars
  <2>6. CASE \E op \in Ops : StartCommand(op)
    BY <1>0, <2>6, StartDoes DEF Still
  <2>7. CASE Gateway \/ CreateContainer \/ AgainContainer \/ RemoveContainer \/ Interrupt
    BY <1>0, <2>7, RestDoes DEF Still
  <2> QED
    BY KindsOfSteps, <2>1, <2>2, <2>3, <2>4, <2>5, <2>6, <2>7
<1>2. cmd' = [op |-> cmd'.op, i |-> cmd'.i, step |-> cmd'.step]
  <2>1. CASE Enable
    BY <2>1, EnableDoes DEF Goes, Ends, Idle
  <2>2. CASE TeardownNet
    BY <2>2, TeardownDoes DEF Goes, Last, Down, Idle
  <2>3. CASE CreateNetwork
    BY <2>3, CreateNetworkDoes DEF Idle
  <2>4. CASE Reboot
    BY <2>4, RebootDoes DEF Idle
  <2>5. CASE UNCHANGED netsVars
    BY <2>5 DEF netsVars, HostShape
  <2>6. CASE \E op \in Ops : StartCommand(op)
    <3>1. PICK op \in Ops : StartCommand(op)
      BY <2>6
    <3>2. PICK s \in {"create", "docker", "begin"} : cmd' = [op |-> op, i |-> 1, step |-> s]
      BY <3>1, StartDoes
    <3> QED
      BY <3>2
  <2>7. CASE Gateway \/ CreateContainer \/ AgainContainer \/ RemoveContainer \/ Interrupt
    BY <2>7, RestDoes DEF Idle
  <2> QED
    BY KindsOfSteps, <2>1, <2>2, <2>3, <2>4, <2>5, <2>6, <2>7
<1>3. whole' \in BOOLEAN /\ gone' \in BOOLEAN
  <2>0. whole \in BOOLEAN /\ gone \in BOOLEAN
    BY DEF HostShape
  <2>1. CASE Enable
    <3>1. gone' = gone /\ (whole' = whole \/ whole' = TRUE)
      BY <2>1, EnableDoes DEF Ends
    <3> QED
      BY <2>0, <3>1
  <2>2. CASE TeardownNet
    <3>1. whole' = whole /\ (gone' = gone \/ gone' = TRUE \/ gone' = FALSE)
      BY <2>2, TeardownDoes DEF Last, Alike
    <3> QED
      BY <2>0, <3>1
  <2>3. CASE CreateNetwork
    BY <2>0, <2>3, CreateNetworkDoes
  <2>4. CASE Reboot
    BY <2>0, <2>4, RebootDoes
  <2>5. CASE UNCHANGED netsVars
    BY <2>0, <2>5 DEF netsVars
  <2>6. CASE \E op \in Ops : StartCommand(op)
    <3>1. PICK op \in Ops : StartCommand(op)
      BY <2>6
    <3>2. gone' = FALSE /\ whole' = (whole /\ op # "teardown")
      BY <3>1, StartDoes
    <3> QED
      BY <3>2, Zenon
  <2>7. CASE Gateway \/ CreateContainer \/ AgainContainer \/ RemoveContainer \/ Interrupt
    BY <2>0, <2>7, RestDoes
  <2> QED
    BY KindsOfSteps, <2>1, <2>2, <2>3, <2>4, <2>5, <2>6, <2>7
<1>4. Len(nets)' \in Nat /\ (\A k \in Numbers : Network(nets[k]))'
  BY <1>1 DEF HostShape, Numbers
<1>5. Bridges' = Bridges
  BY <1>1 DEF Bridges, Numbers
<1> QED
  BY <1>1, <1>2, <1>3, <1>4, <1>5 DEF HostShape, Shape, RulesShape

\* Where the command is after a step, whichever it was.
Place ==
  /\ \/ cmd' = Idle
     \/ Goes(cmd.op, cmd'.step) /\ cmd.op \in {"enable", "teardown"} /\ gone' = gone
     \/ cmd.op = "teardown" /\ Down("begin") /\ gone' = gone
     \/ cmd.op \in Ops /\ cmd'.i \in Numbers /\ ~gone' /\ cmd' = [op |-> cmd.op, i |-> cmd'.i, step |-> "begin"]
     \/ UNCHANGED <<cmd, gone>>
  /\ whole' # whole => cmd.op = "enable" /\ cmd'.op = "idle"
  /\ settled' # settled => cmd'.op = "idle"

LEMMA PlaceAfter ==
  ASSUME HostShape, CommandInv, [NetsNext]_netsVars, ~\E op \in Ops : StartCommand(op)
  PROVE  Place
<1>1. CASE Enable
  <2>1. cmd.op = "enable" /\ gone' = gone /\ ~gone
    BY <1>1, EnableDoes DEF CommandInv
  <2>2. CASE Ends
    BY <2>1, <2>2 DEF Ends, Place, Idle, Ops
  <2>3. ASSUME NEW s, Goes("enable", s), UNCHANGED <<whole, settled>>
        PROVE  Place
    <3>1. cmd' = Idle \/ Goes("enable", cmd'.step)
      BY <2>3 DEF Goes
    <3> QED
      BY <2>1, <2>3, <3>1 DEF Place
  <2> QED
    BY <1>1, <2>2, <2>3, EnableDoes
<1>2. CASE TeardownNet
  <2>1. cmd.op = "teardown" /\ UNCHANGED <<whole, settled>>
    BY <1>2, TeardownDoes DEF Alike
  <2>2. CASE Last
    BY <2>1, <2>2 DEF Last, Place, Ops
  <2>3. ASSUME NEW s, Goes("teardown", s) \/ Down("begin"), gone' = gone
        PROVE  Place
    <3>1. cmd' = Idle \/ Goes("teardown", cmd'.step) \/ Down("begin")
      BY <2>3 DEF Goes
    <3> QED
      BY <2>1, <2>3, <3>1 DEF Place
  <2> QED
    BY <1>2, <2>2, <2>3, TeardownDoes
<1>3. CASE CreateNetwork
  <2>1. cmd.op = "container" /\ UNCHANGED <<whole, gone, settled>> /\ ~gone
    BY <1>3, CreateNetworkDoes DEF CommandInv
  <2>2. \/ cmd' = Idle
        \/ cmd'.i \in Numbers /\ cmd' = [op |-> cmd.op, i |-> cmd'.i, step |-> "begin"]
    BY <1>3, CreateNetworkDoes
  <2> QED
    BY <2>1, <2>2 DEF Place, Ops
<1>4. CASE Reboot
  BY <1>4, RebootDoes DEF Place, Idle
<1>5. CASE UNCHANGED netsVars
  BY <1>5 DEF netsVars, Place
<1>6. CASE Gateway \/ CreateContainer \/ AgainContainer \/ RemoveContainer \/ Interrupt
  BY <1>6, RestDoes DEF Place, CommandInv, Ops
<1> QED
  BY KindsOfSteps, <1>1, <1>2, <1>3, <1>4, <1>5, <1>6

LEMMA NetsKept ==
  ASSUME HostShape, CommandInv, [NetsNext]_netsVars
  PROVE  /\ nets' = nets /\ firewall' = firewall /\ Numbers' = Numbers /\ Bridges' = Bridges
<1>1. nets' = nets /\ firewall' = firewall
  <2>1. CASE Enable
    BY <2>1, EnableDoes
  <2>2. CASE TeardownNet
    BY <2>2, TeardownDoes DEF Alike
  <2>3. CASE CreateNetwork
    BY <2>3, CreateNetworkDoes
  <2>4. CASE Reboot
    BY <2>4, RebootDoes
  <2>5. CASE UNCHANGED netsVars
    BY <2>5 DEF netsVars
  <2>6. CASE \E op \in Ops : StartCommand(op)
    BY <2>6, StartDoes DEF Still
  <2>7. CASE Gateway \/ CreateContainer \/ AgainContainer \/ RemoveContainer \/ Interrupt
    BY <2>7, RestDoes DEF Still
  <2> QED
    BY KindsOfSteps, <2>1, <2>2, <2>3, <2>4, <2>5, <2>6, <2>7
<1> QED
  BY <1>1 DEF Bridges, Numbers

LEMMA CommandKept ==
  ASSUME HostShape, CommandInv, [NetsNext]_netsVars
  PROVE  CommandInv'
<1>0. nets' = nets /\ Numbers' = Numbers
  BY NetsKept
<1>1. CASE \E op \in Ops : StartCommand(op)
  <2>1. PICK op \in Ops : StartCommand(op)
    BY <1>1
  <2>2. PICK s \in {"create", "docker", "begin"} :
          /\ cmd' = [op |-> op, i |-> 1, step |-> s]
          /\ op = "enable" => s = "begin"
          /\ op = "teardown" => s = "docker"
    BY <2>1, StartDoes
  <2>3. 1 \in Numbers /\ gone' = FALSE
    BY <2>1, StartDoes
  <2>4. op = "teardown" => ~whole'
    BY <2>1, StartDoes
  <2>5. settled' # {} => op = "enable"
    BY <2>1, StartDoes
  <2> QED
    BY <1>0, <2>2, <2>3, <2>4, <2>5 DEF CommandInv, Ops, Linked
<1>2. CASE ~\E op \in Ops : StartCommand(op)
  <2>0. Place
    BY <1>2, PlaceAfter
  <2>1. CASE cmd' = Idle
    BY <2>1 DEF CommandInv, Idle
  <2>2. CASE Goes(cmd.op, cmd'.step) /\ cmd.op \in {"enable", "teardown"} /\ gone' = gone
    BY <1>0, <2>0, <2>1, <2>2 DEF Place, Goes, CommandInv, Net, Linked, Ops
  <2>3. CASE cmd.op = "teardown" /\ Down("begin") /\ gone' = gone
    BY <1>0, <2>0, <2>3 DEF Place, Down, CommandInv, Linked
  <2>4. CASE cmd.op \in Ops /\ cmd'.i \in Numbers /\ ~gone' /\ cmd' = [op |-> cmd.op, i |-> cmd'.i, step |-> "begin"]
    BY <1>0, <2>0, <2>4 DEF Place, CommandInv, Linked, Ops
  <2>5. CASE UNCHANGED <<cmd, gone>>
    BY <1>0, <2>0, <2>5 DEF Place, CommandInv, Net, Idle
  <2> QED
    BY <2>0, <2>1, <2>2, <2>3, <2>4, <2>5 DEF Place
<1> QED
  BY <1>1, <1>2

-----------------------------------------------------------------------------
(* Ports and rules; the files of management bridges. *)

LEMMA PortsKept ==
  ASSUME HostShape, CommandInv, PortInv, [NetsNext]_netsVars
  PROVE  PortInv'
<1>0. nets' = nets /\ firewall' = firewall /\ Numbers' = Numbers /\ Bridges' = Bridges
  BY NetsKept
<1> DEFINE mine == <<Link(Net), Bridge(Net)>>
<1>1. \A p \in live'.port : p \in live.port \/ p \in disk.port
         \/ (cmd.i \in Numbers /\ Net.bridged /\ p = mine)
  <2>1. CASE Enable
    <3>1. CASE AttachLink
      BY <3>1, AttachLinkDoes DEF Enabling
    <3>2. CASE ~AttachLink
      BY <2>1, <3>2, AddAddressDoes, ClearAddressesDoes, MakeLinkDoes, AskBridgeDoes, WriteLinkFileDoes,
         WriteBridgeFileDoes, MakeBridgeDoes, WriteIfcCfgDoes, UpdateFirewallDoes DEF Enable
    <3> QED
      BY <3>1, <3>2
  <2>2. CASE TeardownNet
    BY <2>2, RemoveDockerNetworksDoes, DeleteAddressDoes, DeleteLinkDoes, DeleteBridgeDoes,
       DeleteBridgeFileDoes, DeleteLinkFileDoes, DeleteRulesDoes, DelFields DEF TeardownNet
  <2>3. CASE CreateNetwork
    <3>1. \/ live' = live
          \/ live' = [ifc |-> live.ifc \cup {DockerBridge(Net)}, port |-> live.port,
                      addr |-> live.addr \cup {<<DockerBridge(Net), <<cmd.i, TRUE>>>>}]
      BY <2>3, CreateNetworkDoes, Zenon
    <3> DEFINE I == live.ifc \cup {DockerBridge(Net)}
               A == live.addr \cup {<<DockerBridge(Net), <<cmd.i, TRUE>>>>}
    <3> HIDE DEF I, A
    <3>2. live' = live \/ live' = [ifc |-> I, port |-> live.port, addr |-> A]
      BY <3>1 DEF I, A
    <3>3. live'.port = live.port
      BY <3>2
    <3> QED
      BY <3>3
  <2>4. CASE Reboot
    BY <2>4, RebootDoes
  <2>5. CASE UNCHANGED netsVars
    BY <2>5 DEF netsVars
  <2>6. CASE \E op \in Ops : StartCommand(op)
    BY <2>6, StartDoes DEF Still
  <2>7. CASE Gateway \/ CreateContainer \/ AgainContainer \/ RemoveContainer \/ Interrupt
    BY <2>7, RestDoes DEF Still
  <2> QED
    BY KindsOfSteps, <2>1, <2>2, <2>3, <2>4, <2>5, <2>6, <2>7
<1>2. \A p \in disk'.port : p \in disk.port \/ (cmd.i \in Numbers /\ Net.bridged /\ p = mine)
  <2>1. CASE Enable
    <3>1. CASE WriteLinkFile
      BY <3>1, WriteLinkFileDoes DEF Enabling
    <3>2. CASE ~WriteLinkFile
      BY <2>1, <3>2, AddAddressDoes, ClearAddressesDoes, MakeLinkDoes, AskBridgeDoes, AttachLinkDoes,
         WriteBridgeFileDoes, MakeBridgeDoes, WriteIfcCfgDoes, UpdateFirewallDoes DEF Enable
    <3> QED
      BY <3>1, <3>2
  <2>2. CASE TeardownNet
    BY <2>2, RemoveDockerNetworksDoes, DeleteAddressDoes, DeleteLinkDoes, DeleteBridgeDoes,
       DeleteBridgeFileDoes, DeleteLinkFileDoes, DeleteRulesDoes, DelFields DEF TeardownNet
  <2>3. CASE CreateNetwork
    BY <2>3, CreateNetworkDoes
  <2>4. CASE Reboot
    BY <2>4, RebootDoes
  <2>5. CASE UNCHANGED netsVars
    BY <2>5 DEF netsVars
  <2>6. CASE \E op \in Ops : StartCommand(op)
    BY <2>6, StartDoes DEF Still
  <2>7. CASE Gateway \/ CreateContainer \/ AgainContainer \/ RemoveContainer \/ Interrupt
    BY <2>7, RestDoes DEF Still
  <2> QED
    BY KindsOfSteps, <2>1, <2>2, <2>3, <2>4, <2>5, <2>6, <2>7
<1>3. ~firewall => \A b \in Bridges : rules'[b] = 0
  <2>0. ~firewall => \A b \in Bridges : rules[b] = 0
    BY DEF PortInv
  <2>1. CASE rules' = rules
    BY <2>0, <2>1
  <2>2. CASE UpdateFirewall \/ DeleteRules
    BY <2>0, <2>2, UpdateFirewallDoes, DeleteRulesDoes
  <2>3. CASE Reboot
    BY <2>3, RebootDoes
  <2>4. rules' = rules \/ UpdateFirewall \/ DeleteRules \/ Reboot
    <3>1. CASE Enable
      BY <3>1, AddAddressDoes, ClearAddressesDoes, MakeLinkDoes, AskBridgeDoes, WriteLinkFileDoes,
         WriteBridgeFileDoes, MakeBridgeDoes, AttachLinkDoes, WriteIfcCfgDoes DEF Enable, Quiet
    <3>2. CASE TeardownNet
      BY <3>2, RemoveDockerNetworksDoes, DeleteAddressDoes, DeleteLinkDoes, DeleteBridgeDoes,
         DeleteBridgeFileDoes, DeleteLinkFileDoes DEF TeardownNet
    <3>3. CASE ~Enable /\ ~TeardownNet
      BY <3>3, KindsOfSteps, CreateNetworkDoes, StartDoes, RestDoes DEF netsVars, Still
    <3> QED
      BY <3>1, <3>2, <3>3
  <2> QED
    BY <2>1, <2>2, <2>3, <2>4
<1>4. \A p : cmd.i \in Numbers /\ Net.bridged /\ p = mine => Ours(p)
  BY DEF Ours, Net
<1>5. \A p : (Ours(p) <=> Ours(p)') /\ (Theirs(p) <=> Theirs(p)')
  BY <1>0 DEF Ours, Theirs
<1> HIDE DEF mine
<1> QED
  BY <1>0, <1>1, <1>2, <1>3, <1>4, <1>5 DEF PortInv

LEMMA AddressOf ==
  ASSUME HostShape, NEW i \in Numbers
  PROVE  /\ Address(i)[2] = <<i, TRUE>> /\ Address(i)[2][1] = i
         /\ nets[i].bridged => Address(i)[1] = Bridge(nets[i])
         /\ ~nets[i].bridged => Address(i)[1] = <<nets[i].dev, 0>>
         /\ \A j \in Numbers : /\ nets[j].bridged /\ Alone(i) /\ i # j => Address(i)[1] # Bridge(nets[j])
                               /\ ~nets[i].bridged => Address(i)[1] # Bridge(nets[j])
                               /\ nets[i].bridged => Address(i)[1] # <<nets[j].dev, 0>>
<1>1. \A j \in Numbers : <<nets[i].dev, 0>> # Bridge(nets[j]) /\ <<nets[j].dev, 0>> # Bridge(nets[i])
  BY NamesApart
<1>2. \A j \in Numbers : nets[j].bridged /\ Alone(i) /\ i # j => Bridge(nets[i]) # Bridge(nets[j])
  BY DEF Alone
<1>3. /\ Address(i)[1] = IF nets[i].bridged THEN Bridge(nets[i]) ELSE <<nets[i].dev, 0>>
      /\ Address(i)[2] = <<i, TRUE>> /\ Address(i)[2][1] = i
  BY DEF Address
<1> QED
  BY <1>1, <1>2, <1>3

LEMMA NetsFixed ==
  ASSUME HostShape, CommandInv, [NetsNext]_netsVars
  PROVE  \A i : /\ Alone(i)' <=> Alone(i)
                /\ Address(i)' = Address(i)
                /\ Distinct(i)' <=> Distinct(i)
<1>1. nets' = nets /\ Numbers' = Numbers
  BY NetsKept
<1> QED
  BY <1>1 DEF Alone, Address, Distinct

\* The steps that change the files.
LEMMA FilesMove ==
  ASSUME HostShape, CommandInv, [NetsNext]_netsVars
  PROVE  \/ disk' = disk \/ WriteLinkFile \/ WriteBridgeFile \/ WriteIfcCfg
         \/ DeleteAddress \/ DeleteBridgeFile \/ DeleteLinkFile
<1>1. CASE Enable
  BY <1>1, AddAddressDoes, ClearAddressesDoes, MakeLinkDoes, AskBridgeDoes,
     MakeBridgeDoes, AttachLinkDoes, UpdateFirewallDoes DEF Enable
<1>2. CASE TeardownNet
  BY <1>2, RemoveDockerNetworksDoes, DeleteLinkDoes, DeleteBridgeDoes, DeleteRulesDoes DEF TeardownNet
<1>3. CASE ~Enable /\ ~TeardownNet
  BY <1>3, KindsOfSteps, CreateNetworkDoes, StartDoes, RestDoes, RebootDoes DEF netsVars, Still
<1> QED
  BY <1>1, <1>2, <1>3

\* Only two steps change the form of an address in a file.
LEMMA PlainKept ==
  ASSUME HostShape, CommandInv, [NetsNext]_netsVars, ~WriteIfcCfg, ~DeleteAddress
  PROVE  plain' = plain
<1> USE DEF fixed
<1>1. CASE Enable
  BY <1>1 DEF Enable, AddAddress, ClearAddresses, MakeLink, AskBridge, WriteLinkFile, WriteBridgeFile,
              MakeBridge, AttachLink, UpdateFirewall
<1>2. CASE TeardownNet
  BY <1>2 DEF TeardownNet, RemoveDockerNetworks, DeleteLink, DeleteBridge, DeleteBridgeFile,
              DeleteLinkFile, DeleteRules
<1>3. CASE Containers
  BY <1>3 DEF Containers, Gateway, CreateContainer, AgainContainer, CreateNetwork, RemoveContainer
<1>4. CASE (\E op \in Ops : StartCommand(op)) \/ Interrupt \/ Reboot \/ UNCHANGED netsVars
  BY <1>4 DEF StartCommand, Interrupt, Reboot, netsVars
<1> QED
  BY <1>1, <1>2, <1>3, <1>4 DEF NetsNext

\* The two forms of an address.
LEMMA Forms == ASSUME NEW i, NEW k PROVE <<i, TRUE>> # <<k, FALSE>>
OBVIOUS

LEMMA SecondOf == ASSUME NEW a, NEW b PROVE <<a, b>>[2] = b
OBVIOUS

\* What a step adds to the files, and that the addresses of others stay.
LEMMA FileSteps ==
  ASSUME HostShape, CommandInv, [NetsNext]_netsVars
  PROVE  /\ \A l \in disk'.ifc :
              l \in disk.ifc \/ \E j \in Numbers : nets[j].bridged /\ l \in {Link(nets[j]), Bridge(nets[j])}
         /\ \A p \in disk'.addr :
              \/ p \in disk.addr
              \/ \E j \in Numbers : p = Address(j) /\ (nets[j].bridged \/ (WriteIfcCfg /\ j = cmd.i))
         /\ \A d \in Devices, k \in Numbers :
              <<<<d, 0>>, <<k, FALSE>>>> \in disk'.addr <=> <<<<d, 0>>, <<k, FALSE>>>> \in disk.addr
<1> DEFINE odd(d, k) == <<<<d, 0>>, <<k, FALSE>>>>
<1>a. ASSUME NEW i \in Numbers, NEW d \in Devices, NEW k
      PROVE  /\ odd(d, k) # Address(i) /\ odd(d, k)[1] # Bridge(nets[i])
             /\ Tag(nets[i]) # 0 => odd(d, k)[1] # Link(nets[i])
  <2>1. nets[i].type \notin Devices
    BY NamesAssumption DEF HostShape, Network
  <2>2. odd(d, k) # Address(i)
    <3>1. odd(d, k)[2] = <<k, FALSE>>
      OBVIOUS
    <3>2. Address(i)[2] = <<i, TRUE>>
      BY AddressOf
    <3> QED
      BY <3>1, <3>2, Forms, Zenon
  <2> QED
    BY <2>1, <2>2 DEF Bridge, Link
<1> HIDE DEF odd
<1>b. SUFFICES /\ \A l \in disk'.ifc :
                    l \in disk.ifc \/ \E j \in Numbers : nets[j].bridged /\ l \in {Link(nets[j]), Bridge(nets[j])}
               /\ \A p \in disk'.addr :
                    \/ p \in disk.addr
                    \/ \E j \in Numbers : p = Address(j) /\ (nets[j].bridged \/ (WriteIfcCfg /\ j = cmd.i))
               /\ \A d \in Devices, k \in Numbers : odd(d, k) \in disk'.addr <=> odd(d, k) \in disk.addr
  BY DEF odd
<1>1. CASE disk' = disk
  BY <1>1
<1>2. CASE WriteLinkFile
  <2>1. /\ disk'.ifc = disk.ifc \cup {Link(Net)} /\ disk'.addr = disk.addr
        /\ cmd.i \in Numbers /\ Net.bridged
    BY <1>2, WriteLinkFileDoes DEF Enabling
  <2> QED
    BY <2>1 DEF Net
<1>3. CASE WriteBridgeFile
  <2>1. /\ cmd.i \in Numbers /\ Net.bridged
        /\ \/ disk' = disk
           \/ /\ disk'.ifc = disk.ifc \cup {Bridge(Net)}
              /\ disk'.addr = {p \in disk.addr : p[1] # Bridge(Net)} \cup {Address(cmd.i)}
    BY <1>3, WriteBridgeFileDoes DEF Enabling
  <2> QED
    BY <1>a, <2>1 DEF Net
<1>4. CASE WriteIfcCfg
  <2>1. /\ disk'.ifc = disk.ifc /\ disk'.addr = disk.addr \cup {Address(cmd.i)} /\ cmd.i \in Numbers
    BY <1>4, WriteIfcCfgDoes DEF Enabling
  <2> QED
    BY <1>4, <1>a, <2>1 DEF Net
<1>5. CASE DeleteAddress
  <2>1. /\ cmd.i \in Numbers /\ disk'.ifc = disk.ifc
        /\ disk'.addr = disk.addr \/ disk'.addr = disk.addr \ {Address(cmd.i)}
    BY <1>5, DeleteAddressDoes DEF Tearing
  <2> QED
    BY <1>a, <2>1
<1>6. CASE DeleteBridgeFile
  <2>1. /\ cmd.i \in Numbers /\ disk'.ifc = disk.ifc \ {Bridge(Net)}
        /\ disk'.addr = {p \in disk.addr : p[1] # Bridge(Net)}
    BY <1>6, DeleteBridgeFileDoes DEF Tearing
  <2> QED
    BY <1>a, <2>1 DEF Net
<1>7. CASE DeleteLinkFile
  <2>1. /\ cmd.i \in Numbers
        /\ \/ disk' = disk
           \/ /\ Tag(Net) # 0 /\ disk'.ifc = disk.ifc \ {Link(Net)}
              /\ disk'.addr = {p \in disk.addr : p[1] # Link(Net)}
    BY <1>7, DeleteLinkFileDoes, DelFields DEF Tearing
  <2> QED
    BY <1>a, <2>1 DEF Net
<1> QED
  BY <1>1, <1>2, <1>3, <1>4, <1>5, <1>6, <1>7, FilesMove

\* Nothing makes room in a file beside the address, and nothing takes it.
LEMMA SoleFixed ==
  ASSUME HostShape, CommandInv, [NetsNext]_netsVars, NEW i \in Numbers
  PROVE  Sole(i)' <=> Sole(i)
<1>1. nets' = nets /\ Numbers' = Numbers /\ nets[i].dev \in Devices
  BY NetsKept DEF HostShape, Network
<1>2. \A k \in Numbers : <<<<nets[i].dev, 0>>, <<k, FALSE>>>> \in disk'.addr
                           <=> <<<<nets[i].dev, 0>>, <<k, FALSE>>>> \in disk.addr
  BY <1>1, FileSteps
<1> QED
  BY <1>1, <1>2 DEF Sole

LEMMA FileKept ==
  ASSUME HostShape, CommandInv, FileInv, [NetsNext]_netsVars
  PROVE  FileInv'
<1>1. nets' = nets /\ Numbers' = Numbers /\ \A i : Address(i)' = Address(i)
  BY NetsKept, NetsFixed
<1> QED
  BY <1>1, FileSteps DEF FileInv

\* Alone in the file of its device an address is found, and there is no file of
\* a link of the device to be found before it.
LEMMA SoleFound ==
  ASSUME HostShape, FileInv, NEW i \in Numbers, ~nets[i].bridged, Sole(i)
  PROVE  /\ \A p \in disk.addr : p[1] = <<nets[i].dev, 0>> => p = Address(i)
         /\ ~\E l \in disk.ifc \ {<<nets[i].dev, 0>>} : l[1] = nets[i].dev
<1>0. nets[i].dev \in Devices /\ \A j \in Numbers : nets[j].type \notin Devices
  BY NamesAssumption DEF HostShape, Network
<1>1. ASSUME NEW p \in disk.addr, p[1] = <<nets[i].dev, 0>>
      PROVE  p = Address(i)
  <2>1. CASE \E j \in Numbers : p = Address(j)
    <3>1. PICK j \in Numbers : p = Address(j)
      BY <2>1
    <3>2. ~nets[j].bridged /\ <<nets[j].dev, 0>> = <<nets[i].dev, 0>>
      BY <1>1, <3>1, AddressOf
    <3>3. j = i
      BY <3>2 DEF Sole
    <3> QED
      BY <3>1, <3>3
  <2>2. CASE \E d \in Devices, k \in Numbers : p = <<<<d, 0>>, <<k, FALSE>>>>
    <3>1. PICK d \in Devices, k \in Numbers : p = <<<<d, 0>>, <<k, FALSE>>>>
      BY <2>2
    <3>2. <<d, 0>> = <<nets[i].dev, 0>>
      BY <1>1, <3>1
    <3>3. p = <<<<nets[i].dev, 0>>, <<k, FALSE>>>>
      BY <3>1, <3>2, Zenon
    <3> QED
      BY <3>3 DEF Sole
  <2> QED
    BY <2>1, <2>2 DEF FileInv
<1>2. ASSUME NEW l \in disk.ifc, l[1] = nets[i].dev
      PROVE  l = <<nets[i].dev, 0>>
  <2>1. CASE l \in Physical
    BY <1>2, <2>1 DEF Physical
  <2>2. CASE \E j \in Numbers : nets[j].bridged /\ l \in {Link(nets[j]), Bridge(nets[j])}
    <3>1. PICK j \in Numbers : nets[j].bridged /\ l \in {Link(nets[j]), Bridge(nets[j])}
      BY <2>2
    <3>2. l = Link(nets[j])
      BY <1>0, <1>2, <3>1 DEF Bridge
    <3>3. nets[j].dev = nets[i].dev /\ j # i
      BY <1>2, <3>1, <3>2 DEF Link
    <3>4. Tag(nets[j]) = 0
      BY <3>3 DEF Sole
    <3> QED
      BY <3>2, <3>3, <3>4 DEF Link
  <2> QED
    BY <2>1, <2>2 DEF FileInv
<1> QED
  BY <1>1, <1>2

LEMMA PlainInvKept ==
  ASSUME HostShape, CommandInv, FileInv, PlainInv, [NetsNext]_netsVars
  PROVE  PlainInv'
<1>1. nets' = nets /\ Numbers' = Numbers /\ \A j : Address(j)' = Address(j)
  BY NetsKept, NetsFixed
<1>2. SUFFICES ASSUME NEW i \in Numbers, ~nets[i].bridged, Sole(i), Address(i) \in disk'.addr
               PROVE  i \in plain'
  BY <1>1, SoleFixed DEF PlainInv
<1>3. \A j \in Numbers : j # i => Address(j) # Address(i)
  <2>1. \A j \in Numbers : Address(j)[2][1] = j
    BY AddressOf
  <2> QED
    BY <2>1
<1>4. CASE WriteIfcCfg
  <2>1. /\ cmd.i \in Numbers /\ disk'.addr = disk.addr \cup {Address(cmd.i)}
        /\ plain' = (IF \E p \in disk.addr : p[1] = <<Net.dev, 0>> THEN plain ELSE plain \cup {cmd.i})
    BY <1>4, WriteIfcCfgDoes DEF Enabling
  <2>2. CASE Address(i) \in disk.addr
    BY <1>2, <2>1, <2>2 DEF PlainInv
  <2>3. CASE Address(i) \notin disk.addr
    <3>1. i = cmd.i
      BY <1>2, <1>3, <2>1, <2>3
    <3>2. ~\E p \in disk.addr : p[1] = <<Net.dev, 0>>
      BY <1>2, <2>3, <3>1, SoleFound DEF Net
    <3> QED
      BY <2>1, <3>1, <3>2
  <2> QED
    BY <2>2, <2>3
<1>5. CASE DeleteAddress
  <2>1. /\ cmd.i \in Numbers
        /\ \/ disk'.addr = disk.addr \ {Address(cmd.i)} /\ plain' = plain \ {cmd.i}
           \/ disk' = disk /\ plain' = plain
    BY <1>5, DeleteAddressDoes DEF Tearing
  <2> QED
    BY <1>2, <2>1 DEF PlainInv
<1>6. CASE ~WriteIfcCfg /\ ~DeleteAddress
  <2>1. plain' = plain
    BY <1>6, PlainKept
  <2>2. \E j \in Numbers : Address(i) = Address(j) /\ nets[j].bridged => FALSE
    BY <1>2
  <2>3. Address(i) \in disk.addr
    BY <1>2, <1>3, <1>6, FileSteps
  <2> QED
    BY <1>2, <2>1, <2>3 DEF PlainInv
<1> QED
  BY <1>4, <1>5, <1>6

\* An address that the files have lost, or a bridge with a new file.
LEMMA FilesChange ==
  ASSUME HostShape, CommandInv, [NetsNext]_netsVars,
         NEW i \in Numbers, nets[i].bridged, Alone(i), Bridge(nets[i]) \in disk'.ifc,
         ~(Bridge(nets[i]) \in disk.ifc /\ Address(i) \notin disk.addr)
  PROVE  Address(i) \in disk'.addr
<1>a. /\ Address(i)[2][1] = i /\ Address(i)[1] = Bridge(nets[i])
      /\ \A j \in Numbers : nets[j].bridged /\ i # j => Address(i)[1] # Bridge(nets[j])
      /\ \A j \in Numbers : Bridge(nets[i]) # Link(nets[j]) /\ Address(i)[1] # <<nets[j].dev, 0>>
  BY AddressOf, NamesApart
<1> DEFINE b == Bridge(nets[i])
           a == Address(i)
<1>0. b \in disk.ifc => a \in disk.addr
  OBVIOUS
<1>1. CASE disk' = disk
  BY <1>0, <1>1
<1>2. CASE WriteLinkFile
  <2>1. disk'.ifc = disk.ifc \cup {Link(Net)} /\ disk'.addr = disk.addr /\ cmd.i \in Numbers
    BY <1>2, WriteLinkFileDoes DEF Enabling
  <2> QED
    BY <1>0, <1>a, <2>1 DEF Net
<1>3. CASE WriteBridgeFile
  <2>1. cmd.i \in Numbers /\ Net.bridged
    BY <1>3, WriteBridgeFileDoes DEF Enabling
  <2>2. \/ disk' = disk
        \/ /\ disk'.ifc = disk.ifc \cup {Bridge(Net)}
           /\ disk'.addr = {p \in disk.addr : p[1] # Bridge(Net)} \cup {Address(cmd.i)}
    BY <1>3, WriteBridgeFileDoes
  <2>3. CASE i = cmd.i
    BY <1>0, <2>2, <2>3 DEF Net
  <2>4. CASE i # cmd.i
    BY <1>0, <1>a, <2>1, <2>2, <2>4 DEF Net
  <2> QED
    BY <2>3, <2>4
<1>4. CASE WriteIfcCfg
  <2>1. disk'.ifc = disk.ifc /\ disk'.addr = disk.addr \cup {Address(cmd.i)}
    BY <1>4, WriteIfcCfgDoes
  <2> QED
    BY <1>0, <2>1
<1>5. CASE DeleteAddress
  <2>1. /\ disk'.ifc = disk.ifc /\ disk'.addr \in {disk.addr, disk.addr \ {Address(cmd.i)}}
        /\ cmd.i \in Numbers /\ ~nets[cmd.i].bridged
    BY <1>5, DeleteAddressDoes DEF Tearing, Net
  <2>2. Address(cmd.i)[1] = <<nets[cmd.i].dev, 0>>
    BY <2>1, AddressOf
  <2> QED
    BY <1>0, <1>a, <2>1, <2>2
<1>6. CASE DeleteBridgeFile
  <2>1. /\ disk'.ifc = disk.ifc \ {Bridge(Net)} /\ disk'.addr = {p \in disk.addr : p[1] # Bridge(Net)}
    BY <1>6, DeleteBridgeFileDoes
  <2> QED
    BY <1>0, <1>a, <2>1
<1>7. CASE DeleteLinkFile
  <2>1. /\ cmd.i \in Numbers
        /\ disk' = disk \/ (disk'.ifc = disk.ifc \ {Link(Net)} /\ disk'.addr = {p \in disk.addr : p[1] # Link(Net)})
    BY <1>7, DeleteLinkFileDoes, DelFields DEF Tearing
  <2> QED
    BY <1>0, <1>a, <2>1 DEF Net
<1> QED
  BY <1>1, <1>2, <1>3, <1>4, <1>5, <1>6, <1>7, FilesMove

LEMMA GlueKept ==
  ASSUME HostShape, CommandInv, GlueInv, [NetsNext]_netsVars
  PROVE  GlueInv'
<1>1. nets' = nets /\ Numbers' = Numbers
  BY NetsKept
<1>2. \A i : (Alone(i)' <=> Alone(i)) /\ Address(i)' = Address(i)
  BY NetsFixed
<1>3. SUFFICES ASSUME NEW i \in Numbers, nets[i].bridged, nets[i].type = "mgmt", Alone(i),
                      Bridge(nets[i]) \in disk'.ifc
               PROVE  Address(i) \in disk'.addr
  BY <1>1, <1>2 DEF GlueInv
<1>4. ~(Bridge(nets[i]) \in disk.ifc /\ Address(i) \notin disk.addr)
  BY <1>3 DEF GlueInv
<1> QED
  BY <1>3, <1>4, FilesChange

-----------------------------------------------------------------------------
(* What the steps of an enable keep. *)

\* Nothing that an enable made is lost.
Grows ==
  /\ live.ifc \subseteq live'.ifc /\ disk.ifc \subseteq disk'.ifc
  /\ \A j \in Numbers :
       /\ Address(j) \in live.addr => Address(j) \in live'.addr
       /\ Alone(j) /\ Address(j) \in disk.addr => Address(j) \in disk'.addr
       /\ nets[j].bridged /\ Alone(j) =>
            LET p == <<Link(nets[j]), Bridge(nets[j])>>
            IN (p \in live.port => p \in live'.port) /\ (p \in disk.port => p \in disk'.port)
       /\ nets[j].bridged /\ Cleared(j) => Cleared(j)'
       /\ Ruled(j) => Ruled(j)'

LEMMA ClearedKept ==
  ASSUME HostShape, nets' = nets, Numbers' = Numbers, NEW j \in Numbers, Cleared(j),
         \A p \in live'.addr : p \in live.addr \/ p[1] # <<nets[j].dev, 0>> \/ p[2][1] # j
  PROVE  Cleared(j)'
BY DEF Cleared

LEMMA RuledKept ==
  ASSUME nets' = nets, firewall' = firewall, Bridges' = Bridges, NEW j,
         \A b \in Bridges : rules[b] > 0 => rules'[b] > 0
  PROVE  Ruled(j) => Ruled(j)'
BY DEF Ruled

\* What the steps of an enable may change.
Touches ==
  /\ live.ifc \subseteq live'.ifc /\ disk.ifc \subseteq disk'.ifc
  /\ \A p \in live.addr : p \in live'.addr \/ (Net.bridged /\ p[1] = <<Net.dev, 0>> /\ p[2][1] = cmd.i)
  /\ \A p \in live'.addr : p \in live.addr \/ p = Address(cmd.i)
  /\ \A p \in disk.addr : p \in disk'.addr \/ (Net.bridged /\ p[1] = Bridge(Net) /\ Address(cmd.i) \in disk'.addr)
  /\ \A p \in live.port : p \in live'.port
       \/ (Net.bridged /\ p[1] = Link(Net) /\ <<Link(Net), Bridge(Net)>> \in live'.port)
  /\ \A p \in disk.port : p \in disk'.port
       \/ (Net.bridged /\ p[1] = Link(Net) /\ <<Link(Net), Bridge(Net)>> \in disk'.port)
  /\ \A b \in Bridges : rules[b] > 0 => rules'[b] > 0

LEMMA EnableTouches == ASSUME HostShape, CommandInv, Enable PROVE Touches
<1>0. \A b \in Bridges : rules[b] \in Nat
  BY DEF HostShape
<1>1. CASE AddAddress
  BY <1>1, AddAddressDoes DEF Touches, Quiet
<1>2. CASE ClearAddresses
  BY <1>2, ClearAddressesDoes DEF Touches, Quiet
<1>3. CASE MakeLink
  BY <1>3, MakeLinkDoes DEF Touches, Quiet
<1>4. CASE AskBridge
  BY <1>4, AskBridgeDoes DEF Touches, Quiet
<1>5. CASE WriteLinkFile
  BY <1>5, WriteLinkFileDoes DEF Touches, Quiet
<1>6. CASE WriteBridgeFile
  BY <1>6, WriteBridgeFileDoes DEF Touches, Quiet
<1>7. CASE MakeBridge
  BY <1>7, MakeBridgeDoes DEF Touches, Quiet
<1>8. CASE AttachLink
  BY <1>8, AttachLinkDoes DEF Touches, Quiet
<1>9. CASE WriteIfcCfg
  BY <1>9, WriteIfcCfgDoes DEF Touches
<1>10. CASE UpdateFirewall
  <2>1. live' = live /\ disk' = disk /\ (rules' = rules \/ rules' = [rules EXCEPT ![Bridge(Net)] = @ + 1])
    BY <1>10, UpdateFirewallDoes
  <2>2. \A b \in Bridges : rules[b] > 0 => rules'[b] > 0
    BY <1>0, <2>1 DEF HostShape
  <2> QED
    BY <2>1, <2>2 DEF Touches
<1> QED
  BY <1>1, <1>2, <1>3, <1>4, <1>5, <1>6, <1>7, <1>8, <1>9, <1>10 DEF Enable

LEMMA EnableGrows == ASSUME HostShape, CommandInv, Enable PROVE Grows
<1>0. Touches /\ cmd.i \in Numbers
  BY EnableTouches, EnableDoes
<1>n. nets' = nets /\ firewall' = firewall /\ Numbers' = Numbers /\ Bridges' = Bridges
  BY NetsKept DEF NetsNext
<1>1. ASSUME NEW j \in Numbers
      PROVE  /\ Address(j) \in live.addr => Address(j) \in live'.addr
             /\ Alone(j) /\ Address(j) \in disk.addr => Address(j) \in disk'.addr
  <2>1. /\ Address(j)[2][1] = j
        /\ nets[cmd.i].bridged /\ Alone(j) /\ j # cmd.i => Address(j)[1] # Bridge(nets[cmd.i])
        /\ nets[j].bridged => Address(j)[1] # <<nets[cmd.i].dev, 0>>
    BY <1>0, <1>1, AddressOf
  <2>2. Address(j) \in live.addr => Address(j) \in live'.addr
    BY <1>0, <2>1 DEF Touches, Net
  <2>3. Alone(j) /\ Address(j) \in disk.addr => Address(j) \in disk'.addr
    BY <1>0, <2>1 DEF Touches, Net
  <2> QED
    BY <2>2, <2>3
<1>2. ASSUME NEW j \in Numbers, nets[j].bridged, Alone(j)
      PROVE  LET p == <<Link(nets[j]), Bridge(nets[j])>>
             IN (p \in live.port => p \in live'.port) /\ (p \in disk.port => p \in disk'.port)
  <2>1. j # cmd.i /\ nets[cmd.i].bridged => Link(nets[cmd.i]) # Link(nets[j])
    BY <1>0, <1>2 DEF Alone
  <2> QED
    BY <1>0, <2>1 DEF Touches, Net
<1>3. ASSUME NEW j \in Numbers, nets[j].bridged, Cleared(j)
      PROVE  Cleared(j)'
  <2>1. \A p \in live'.addr : p \in live.addr \/ p[1] # <<nets[j].dev, 0>> \/ p[2][1] # j
    <3>1. /\ Address(cmd.i)[2][1] = cmd.i
          /\ nets[cmd.i].bridged => Address(cmd.i)[1] # <<nets[j].dev, 0>>
      BY <1>0, <1>3, AddressOf
    <3> QED
      BY <1>0, <1>3, <3>1 DEF Touches
  <2> QED
    BY <1>n, <1>3, <2>1, ClearedKept
<1>4. \A j \in Numbers : Ruled(j) => Ruled(j)'
  BY <1>0, <1>n, RuledKept DEF Touches
<1> QED
  BY <1>0, <1>1, <1>2, <1>3, <1>4 DEF Grows, Touches

LEMMA GrowthKeeps ==
  ASSUME HostShape, nets' = nets, Numbers' = Numbers, Grows, NEW j \in Numbers
  PROVE  /\ LiveDone(j) => LiveDone(j)'
         /\ Alone(j) /\ DiskDone(j) => DiskDone(j)'
         /\ Alone(j) /\ Up(j) => Up(j)'
<1>1. Address(j)' = Address(j)
  BY DEF Address
<1>2. LiveDone(j) => LiveDone(j)'
  BY <1>1 DEF Grows, LiveDone
<1>3. Alone(j) /\ DiskDone(j) => DiskDone(j)'
  BY <1>1 DEF Grows, DiskDone
<1>4. Alone(j) /\ Up(j) => Up(j)'
  BY <1>1, <1>3 DEF Grows, Up
<1> QED
  BY <1>2, <1>3, <1>4

-----------------------------------------------------------------------------
(* The ports of the links an enable has attached so far. *)

LEMMA PortsSetNext ==
  ASSUME HostShape, NEW i \in Numbers, NEW P, PortsSet(P, i - 1)
  PROVE  /\ nets[i].bridged =>
              PortsSet({p \in P : p[1] # Link(nets[i])} \cup {<<Link(nets[i]), Bridge(nets[i])>>}, i)
         /\ ~nets[i].bridged => PortsSet(P, i)
<1>0. \A k \in Numbers : k \in Nat /\ k >= 1
  BY DEF Numbers, HostShape
<1>l. \A l, u : l \in Linking(u) <=> \E k \in Numbers : k <= u /\ nets[k].bridged /\ l = Link(nets[k])
  BY DEF Linking
<1>1. ASSUME nets[i].bridged
      PROVE  PortsSet({p \in P : p[1] # Link(nets[i])} \cup {<<Link(nets[i]), Bridge(nets[i])>>}, i)
  <2> DEFINE Q == {p \in P : p[1] # Link(nets[i])} \cup {<<Link(nets[i]), Bridge(nets[i])>>}
  <2>1. \A j : LastOf(j, i) <=> \/ j = i
                                \/ LastOf(j, i - 1) /\ Link(nets[j]) # Link(nets[i])
    BY <1>0, <1>1 DEF LastOf
  <2>2. SUFFICES ASSUME NEW p, p[1] \in Linking(i)
                 PROVE  p \in Q <=> \E j \in Numbers : LastOf(j, i) /\ p = <<Link(nets[j]), Bridge(nets[j])>>
    BY DEF PortsSet
  <2>3. CASE p[1] = Link(nets[i])
    <3>1. p \in Q <=> p = <<Link(nets[i]), Bridge(nets[i])>>
      BY <2>3
    <3>2. \A j : LastOf(j, i) /\ p = <<Link(nets[j]), Bridge(nets[j])>> => j = i
      BY <2>1, <2>3
    <3> QED
      BY <2>1, <3>1, <3>2
  <2>4. CASE p[1] # Link(nets[i])
    <3>1. p \in Q <=> p \in P
      BY <2>4
    <3>2. p[1] \in Linking(i - 1)
      <4>1. PICK k \in Numbers : k <= i /\ nets[k].bridged /\ p[1] = Link(nets[k])
        BY <1>l, <2>2
      <4>2. k # i
        BY <2>4, <4>1
      <4>3. k <= i - 1
        BY <1>0, <4>1, <4>2
      <4> QED
        BY <1>l, <4>1, <4>3
    <3>3. p \in P <=> \E j \in Numbers : LastOf(j, i - 1) /\ p = <<Link(nets[j]), Bridge(nets[j])>>
      BY <3>2 DEF PortsSet
    <3>4. \A j : p = <<Link(nets[j]), Bridge(nets[j])>> => (LastOf(j, i - 1) <=> LastOf(j, i))
      BY <2>1, <2>4
    <3> QED
      BY <3>1, <3>3, <3>4
  <2> QED
    BY <2>3, <2>4
<1>2. ASSUME ~nets[i].bridged
      PROVE  PortsSet(P, i)
  <2>1. \A j : LastOf(j, i) <=> LastOf(j, i - 1)
    BY <1>0, <1>2 DEF LastOf
  <2>2. \A l : l \in Linking(i) <=> l \in Linking(i - 1)
    <3>1. \A k \in Numbers : nets[k].bridged => (k <= i <=> k <= i - 1)
      BY <1>0, <1>2
    <3> QED
      BY <1>l, <3>1
  <2> QED
    BY <2>1, <2>2 DEF PortsSet
<1> QED
  BY <1>1, <1>2

LEMMA PortsSetMoves ==
  ASSUME nets' = nets, Numbers' = Numbers, NEW u, Upto' = u, PortsSet(live'.port, u)
  PROVE  PortsSet(live.port, Upto)'
BY DEF PortsSet, Linking, LastOf

-----------------------------------------------------------------------------
(* An enable, step by step. *)

\* What is done for a network stays done until its next step.
LEMMA StageKept ==
  ASSUME HostShape, CommandInv, Enable, NEW i, i = cmd.i, NEW s, s # "file", nets[i].bridged, StageInv(i, s)
  PROVE  StageInv(i, s)'
<1>0. Touches /\ Grows /\ i \in Numbers /\ Net = nets[i]
  BY EnableTouches, EnableGrows, EnableDoes DEF Net
<1>1. nets' = nets /\ (Alone(i)' <=> Alone(i)) /\ Address(i)' = Address(i)
  BY NetsKept, NetsFixed DEF NetsNext
<1>2. Cleared(i) => Cleared(i)'
  BY <1>0 DEF Grows
<1>3. Address(i) \in live.addr => Address(i) \in live'.addr
  BY <1>0 DEF Grows
<1>4. Address(i) \in disk.addr => Address(i) \in disk'.addr
  BY <1>0 DEF Touches
<1>5. <<Link(nets[i]), Bridge(nets[i])>> \in disk.port => <<Link(nets[i]), Bridge(nets[i])>> \in disk'.port
  BY <1>0 DEF Touches
<1>6. live.ifc \subseteq live'.ifc /\ disk.ifc \subseteq disk'.ifc
  BY <1>0 DEF Grows
<1> QED
  BY <1>1, <1>2, <1>3, <1>4, <1>5, <1>6 DEF StageInv

\* The result of a step of an enable for the network it works on.
Stepped(i) ==
  \/ cmd' = Idle /\ UNCHANGED <<whole, settled>>
  \/ \E s : /\ To(s) /\ StageInv(i, s)' /\ UNCHANGED <<whole, settled>>
            /\ PortsSet(live'.port, IF s = "firewall" THEN i ELSE i - 1)
  \/ Ends /\ LiveDone(i)' /\ (Alone(i) => DiskDone(i)') /\ PortsSet(live'.port, i)

LEMMA EnableSteps ==
  ASSUME HostShape, CommandInv, GlueInv, EnableInv, Enable, NEW i, i = cmd.i
  PROVE  Stepped(i)
<1>0. /\ i \in Numbers /\ Net = nets[i] /\ cmd.op = "enable" /\ nets' = nets
      /\ Address(i)' = Address(i) /\ (Alone(i)' <=> Alone(i))
  BY EnableDoes, NetsFixed DEF Net, NetsNext
<1>e. StageInv(i, cmd.step) /\ PortsSet(live.port, Upto)
  BY <1>0 DEF EnableInv
<1>p. cmd.step # "firewall" => PortsSet(live.port, i - 1)
  BY <1>e DEF Upto
<1>s. PICK s : s = cmd.step
  OBVIOUS
<1>q. s # "file" /\ nets[i].bridged => StageInv(i, s)'
  BY <1>e, <1>s, StageKept
<1>1. CASE AddAddress
  <2>1. /\ To("file") /\ Quiet /\ live'.port = live.port /\ Address(i) \in live'.addr
        /\ cmd.step = "begin"
    BY <1>1, AddAddressDoes DEF Enabling
  <2>2. StageInv(i, "file")'
    BY <1>0, <2>1 DEF StageInv, Linked
  <2> QED
    BY <1>p, <2>1, <2>2 DEF Stepped, Quiet
<1>2. CASE ClearAddresses
  <2>1. /\ To("link") /\ Quiet /\ live'.port = live.port /\ cmd.step = "begin"
        /\ live'.addr = {p \in live.addr : ~(p[1] = <<Net.dev, 0>> /\ p[2][1] = i)}
    BY <1>2, ClearAddressesDoes DEF Enabling
  <2>2. Cleared(i)'
    BY <1>0, <2>1 DEF Cleared
  <2>3. StageInv(i, "link")'
    BY <2>2 DEF StageInv
  <2> QED
    BY <1>p, <2>1, <2>3 DEF Stepped, Quiet
<1>3. CASE MakeLink
  <2>1. /\ Quiet /\ live'.port = live.port /\ cmd.step = "link" /\ nets[i].bridged
        /\ Link(nets[i]) \in live'.ifc /\ (To("ask") \/ cmd' = Idle)
    BY <1>0, <1>3, MakeLinkDoes DEF Enabling
  <2>2. StageInv(i, "ask")'
    BY <1>0, <1>s, <1>q, <2>1 DEF StageInv, Linked
  <2> QED
    BY <1>p, <2>1, <2>2 DEF Stepped, Quiet
<1>4. CASE AskBridge
  <2>1. /\ Quiet /\ live'.port = live.port /\ cmd.step = "ask" /\ nets[i].bridged
        /\ To("linkfile") \/ cmd' = Idle
    BY <1>0, <1>4, AskBridgeDoes DEF Enabling
  <2>2. StageInv(i, "linkfile")'
    BY <1>0, <1>s, <1>q, <2>1 DEF StageInv, Linked
  <2> QED
    BY <1>p, <2>1, <2>2 DEF Stepped, Quiet
<1>5. CASE WriteLinkFile
  <2>1. /\ Quiet /\ live'.port = live.port /\ cmd.step = "linkfile" /\ nets[i].bridged
        /\ To("bridgefile") /\ Link(nets[i]) \in disk'.ifc
        /\ <<Link(nets[i]), Bridge(nets[i])>> \in disk'.port
    BY <1>0, <1>5, WriteLinkFileDoes DEF Enabling
  <2>2. StageInv(i, "bridgefile")'
    BY <1>0, <1>s, <1>q, <2>1 DEF StageInv, Linked
  <2> QED
    BY <1>p, <2>1, <2>2 DEF Stepped, Quiet
<1>6. CASE WriteBridgeFile
  <2>1. /\ Quiet /\ live'.port = live.port /\ cmd.step = "bridgefile" /\ nets[i].bridged
        /\ To("bridge")
        /\ \/ nets[i].type = "mgmt" /\ Bridge(nets[i]) \in disk.ifc /\ disk' = disk
           \/ Bridge(nets[i]) \in disk'.ifc /\ Address(i) \in disk'.addr
    BY <1>0, <1>6, WriteBridgeFileDoes DEF Enabling
  <2>2. Alone(i) => Bridge(nets[i]) \in disk'.ifc /\ Address(i) \in disk'.addr
    BY <1>0, <2>1 DEF GlueInv
  <2>3. StageInv(i, "bridge")'
    BY <1>0, <1>s, <1>q, <2>1, <2>2 DEF StageInv, Linked
  <2> QED
    BY <1>p, <2>1, <2>3 DEF Stepped, Quiet
<1>7. CASE MakeBridge
  <2>1. /\ Quiet /\ live'.port = live.port /\ cmd.step = "bridge" /\ nets[i].bridged
        /\ To("attach") /\ Bridge(nets[i]) \in live'.ifc /\ Address(i) \in live'.addr
    BY <1>0, <1>7, MakeBridgeDoes DEF Enabling
  <2>2. StageInv(i, "attach")'
    BY <1>0, <1>s, <1>q, <2>1 DEF StageInv, Linked
  <2> QED
    BY <1>p, <2>1, <2>2 DEF Stepped, Quiet
<1>8. CASE AttachLink
  <2>1. /\ Quiet /\ cmd.step = "attach" /\ nets[i].bridged /\ (To("firewall") \/ cmd' = Idle)
        /\ live'.port = {p \in live.port : p[1] # Link(nets[i])} \cup {<<Link(nets[i]), Bridge(nets[i])>>}
    BY <1>0, <1>8, AttachLinkDoes DEF Enabling
  <2>2. PortsSet(live'.port, i)
    BY <1>0, <1>p, <2>1, PortsSetNext
  <2>3. StageInv(i, "firewall")'
    BY <1>0, <1>s, <1>q, <2>1 DEF StageInv, Linked
  <2> QED
    BY <2>1, <2>2, <2>3 DEF Stepped, Quiet
<1>9. CASE WriteIfcCfg
  <2>1. /\ cmd.step = "file" /\ ~nets[i].bridged /\ Ends /\ live' = live
        /\ Address(i) \in disk'.addr
    BY <1>0, <1>9, WriteIfcCfgDoes DEF Enabling
  <2>2. PortsSet(live'.port, i)
    BY <1>0, <1>p, <2>1, PortsSetNext
  <2>3. LiveDone(i)' /\ DiskDone(i)'
    BY <1>0, <1>e, <2>1 DEF StageInv, LiveDone, DiskDone
  <2> QED
    BY <2>1, <2>2, <2>3 DEF Stepped
<1>10. CASE UpdateFirewall
  <2>1. /\ cmd.step = "firewall" /\ nets[i].bridged /\ Ends /\ live' = live
    BY <1>0, <1>10, UpdateFirewallDoes DEF Enabling
  <2>2. PortsSet(live'.port, i)
    BY <1>e, <2>1 DEF Upto
  <2>3. StageInv(i, "firewall")'
    BY <1>s, <1>q, <2>1
  <2>4. Ruled(i)'
    <3>1. firewall' = firewall /\ Bridges' = Bridges
      BY NetsKept DEF NetsNext
    <3>2. CASE rules' = rules /\ Ruled(i)
      BY <1>0, <3>1, <3>2 DEF Ruled
    <3>3. CASE rules' = [rules EXCEPT ![Bridge(Net)] = @ + 1]
      <4>1. Bridge(Net) \in Bridges /\ rules'[Bridge(Net)] > 0
        BY <1>0, <3>3, NamesApart DEF HostShape
      <4>2. Within(Bridge(nets[i]), Bridge(nets[i]))
        <5>1. Bridge(nets[i])[2] \in Nat
          BY <1>0, NamesApart DEF Bridge
        <5> QED
          BY <5>1, WithinItself
      <4> QED
        BY <1>0, <3>1, <4>1, <4>2 DEF Ruled
    <3> QED
      BY <1>10, <3>2, <3>3, UpdateFirewallDoes
  <2>5. LiveDone(i)' /\ (Alone(i) => DiskDone(i)')
    BY <1>0, <2>1, <2>3, <2>4 DEF StageInv, LiveDone, DiskDone, Linked
  <2> QED
    BY <2>1, <2>2, <2>5 DEF Stepped
<1> QED
  BY <1>1, <1>2, <1>3, <1>4, <1>5, <1>6, <1>7, <1>8, <1>9, <1>10 DEF Enable

\* What the last step for a network leaves done.
LEMMA EndDone ==
  ASSUME HostShape, CommandInv, EnableInv, Enable, NEW i, i = cmd.i, Ends,
         LiveDone(i)', Alone(i) => DiskDone(i)'
  PROVE  \A j \in Numbers : j <= i => LiveDone(j)' /\ (Alone(j) => DiskDone(j)')
<1>0. i \in Numbers /\ cmd.op = "enable" /\ Numbers \subseteq Nat
  BY EnableDoes DEF Numbers, HostShape
<1>1. nets' = nets /\ Numbers' = Numbers /\ Grows
  BY NetsKept, EnableGrows DEF NetsNext
<1>2. \A j \in Numbers : j < i => LiveDone(j) /\ (Alone(j) => DiskDone(j))
  BY <1>0 DEF EnableInv
<1>3. \A j \in Numbers : j <= i => j < i \/ j = i
  BY <1>0
<1> QED
  BY <1>1, <1>2, <1>3, GrowthKeeps

LEMMA EnablingKept ==
  ASSUME HostShape, CommandInv, GlueInv, EnableInv, [NetsNext]_netsVars
  PROVE  EnableInv'
<1>0. nets' = nets /\ Numbers' = Numbers /\ (\A j : Alone(j)' <=> Alone(j)) /\ Numbers \subseteq Nat
  BY NetsKept, NetsFixed DEF HostShape, Numbers
<1>1. CASE Enable
  <2>0. PICK i : i = cmd.i
    OBVIOUS
  <2>1. Stepped(i) /\ i \in Numbers
    BY <1>1, <2>0, EnableSteps, EnableDoes
  <2>2. CASE cmd' = Idle
    BY <2>2 DEF EnableInv, Idle
  <2>3. ASSUME NEW s, To(s), StageInv(i, s)', PortsSet(live'.port, IF s = "firewall" THEN i ELSE i - 1)
        PROVE  EnableInv'
    <3>1. cmd'.i = i /\ cmd'.step = s /\ cmd.op = "enable"
      BY <1>1, <2>0, <2>3, EnableDoes DEF To
    <3>2. PortsSet(live.port, Upto)'
      <4> DEFINE u == IF s = "firewall" THEN i ELSE i - 1
      <4>1. Upto' = u
        BY <3>1 DEF Upto
      <4> QED
        BY <1>0, <2>3, <4>1, PortsSetMoves
    <3>3. \A j \in Numbers : j < i => LiveDone(j)' /\ (Alone(j) => DiskDone(j)')
      <4>1. Grows
        BY <1>1, EnableGrows
      <4>2. \A j \in Numbers : j < i => LiveDone(j) /\ (Alone(j) => DiskDone(j))
        BY <2>0, <3>1 DEF EnableInv
      <4> QED
        BY <1>0, <4>1, <4>2, GrowthKeeps
    <3>4. StageInv(cmd.i, cmd.step)'
      BY <2>3, <3>1
    <3> QED
      BY <1>0, <3>1, <3>2, <3>3, <3>4 DEF EnableInv
  <2>4. CASE Ends /\ LiveDone(i)' /\ (Alone(i) => DiskDone(i)') /\ PortsSet(live'.port, i)
    <3>1. CASE cmd' = Idle
      BY <3>1 DEF EnableInv, Idle
    <3>2. CASE cmd' = [op |-> "enable", i |-> cmd.i + 1, step |-> "begin"]
      <4>1. cmd'.i = i + 1 /\ cmd'.step = "begin" /\ i \in Nat
        BY <1>0, <2>0, <2>1, <3>2
      <4>2. PortsSet(live.port, Upto)'
        <5>1. Upto' = i
          BY <4>1 DEF Upto
        <5> QED
          BY <1>0, <2>4, <5>1, PortsSetMoves
      <4>3. \A j \in Numbers : j <= i => LiveDone(j)' /\ (Alone(j) => DiskDone(j)')
        BY <1>1, <2>0, <2>4, EndDone
      <4>4. \A j \in Numbers : j < i + 1 => j <= i
        BY <1>0, <4>1
      <4>5. StageInv(cmd.i, cmd.step)'
        BY <4>1 DEF StageInv, Linked
      <4> QED
        BY <1>0, <4>1, <4>2, <4>3, <4>4, <4>5 DEF EnableInv
    <3> QED
      BY <2>4, <3>1, <3>2 DEF Ends
  <2> QED
    BY <2>1, <2>2, <2>3, <2>4 DEF Stepped
<1>2. CASE UNCHANGED netsVars
  <2>1. /\ EnableInv' <=> EnableInv
    BY <1>2 DEF netsVars, EnableInv, LiveDone, DiskDone, Address, Alone, Cleared, Ruled, PortsSet, Linking,
       LastOf, Upto, StageInv, Numbers, Bridges
  <2> QED
    BY <2>1
<1>3. CASE \E op \in Ops : StartCommand(op)
  <2>1. PICK op \in Ops : StartCommand(op)
    BY <1>3
  <2>2. PICK s : cmd' = [op |-> op, i |-> 1, step |-> s] /\ (op = "enable" => s = "begin")
    BY <2>1, StartDoes
  <2>3. CASE op = "enable"
    <3>1. cmd'.i = 1 /\ cmd'.step = "begin"
      BY <2>2, <2>3
    <3>2. PortsSet(live.port, Upto)'
      <4>1. Upto' = 0
        BY <3>1 DEF Upto
      <4>2. \A l : l \notin Linking(0)
        <5>1. \A k \in Numbers : ~(k <= 0)
          BY DEF Numbers, HostShape
        <5> QED
          BY <5>1 DEF Linking
      <4>3. PortsSet(live'.port, 0)
        BY <4>2 DEF PortsSet
      <4> QED
        BY <1>0, <4>1, <4>3, PortsSetMoves
    <3>3. \A j \in Numbers : ~(j < 1)
      BY DEF Numbers, HostShape
    <3>4. StageInv(cmd.i, cmd.step)'
      BY <3>1 DEF StageInv, Linked
    <3> QED
      BY <1>0, <3>1, <3>2, <3>3, <3>4 DEF EnableInv
  <2>4. CASE op # "enable"
    BY <2>2, <2>4 DEF EnableInv
  <2> QED
    BY <2>3, <2>4
<1>4. CASE ~Enable /\ ~UNCHANGED netsVars /\ ~\E op \in Ops : StartCommand(op)
  <2>1. cmd'.op # "enable"
    <3>1. CASE TeardownNet
      <4>1. cmd.op = "teardown" /\ Place
        BY <1>4, <3>1, TeardownDoes, PlaceAfter
      <4> QED
        BY <4>1 DEF Place, Goes, Down, Idle
    <3>2. CASE CreateNetwork
      BY <3>2, CreateNetworkDoes DEF Idle
    <3>3. CASE Reboot
      BY <3>3, RebootDoes DEF Idle
    <3>4. CASE Gateway \/ CreateContainer \/ AgainContainer \/ RemoveContainer \/ Interrupt
      BY <3>4, RestDoes DEF Idle
    <3> QED
      BY <1>4, <3>1, <3>2, <3>3, <3>4, KindsOfSteps
  <2> QED
    BY <2>1 DEF EnableInv
<1> QED
  BY <1>1, <1>2, <1>3, <1>4

-----------------------------------------------------------------------------
(* Networks that are up stay up. *)

\* The bridge of a network that shares none is the one its link ends on.
LEMMA AloneAttached ==
  ASSUME HostShape, NEW i \in Numbers, nets[i].bridged, Alone(i), NEW P, PortsSet(P, Len(nets))
  PROVE  <<Link(nets[i]), Bridge(nets[i])>> \in P
<1>0. \A k \in Numbers : k \in Nat /\ k <= Len(nets)
  BY DEF Numbers, HostShape
<1>1. LastOf(i, Len(nets))
  BY <1>0 DEF LastOf, Alone
<1>2. Link(nets[i]) \in Linking(Len(nets))
  BY <1>0 DEF Linking
<1> DEFINE p == <<Link(nets[i]), Bridge(nets[i])>>
<1>3. p[1] \in Linking(Len(nets))
  BY <1>2
<1>4. \E j \in Numbers : LastOf(j, Len(nets)) /\ p = <<Link(nets[j]), Bridge(nets[j])>>
  BY <1>1
<1> QED
  BY <1>3, <1>4 DEF PortsSet

LEMMA UpAfterEnable ==
  ASSUME HostShape, CommandInv, GlueInv, EnableInv, Enable, cmd' = Idle, whole' # whole
  PROVE  \A i \in Numbers : Alone(i) => Up(i)'
<1>0. PICK i : i = cmd.i
  OBVIOUS
<1>1. Stepped(i)
  BY <1>0, EnableSteps
<1>2. Ends /\ LiveDone(i)' /\ (Alone(i) => DiskDone(i)') /\ PortsSet(live'.port, i) /\ i = Len(nets)
  <2>1. \A s : ~To(s)
    BY DEF To, Idle
  <2>2. Ends /\ LiveDone(i)' /\ (Alone(i) => DiskDone(i)') /\ PortsSet(live'.port, i)
    BY <1>1, <2>1 DEF Stepped
  <2>3. i = Len(nets)
    BY <1>0, <2>2 DEF Ends, Idle
  <2> QED
    BY <2>2, <2>3
<1>3. \A j \in Numbers : LiveDone(j)' /\ (Alone(j) => DiskDone(j)')
  <2>1. \A j \in Numbers : j <= i
    BY <1>2 DEF Numbers, HostShape
  <2> QED
    BY <1>0, <1>2, <2>1, EndDone
<1>4. \A j \in Numbers : nets[j].bridged /\ Alone(j) => <<Link(nets[j]), Bridge(nets[j])>> \in live'.port
  BY <1>2, AloneAttached
<1>5. nets' = nets
  BY NetsKept DEF NetsNext
<1> QED
  BY <1>3, <1>4, <1>5 DEF Up, LiveDone

LEMMA UpKept ==
  ASSUME HostShape, CommandInv, GlueInv, EnableInv, UpInv, [NetsNext]_netsVars
  PROVE  UpInv'
<1>0. nets' = nets /\ Numbers' = Numbers /\ (\A j : Alone(j)' <=> Alone(j)) /\ (\A j : Address(j)' = Address(j))
  BY NetsKept, NetsFixed
<1>1. CASE Enable
  <2>1. CASE whole' = whole
    <3>1. Grows
      BY <1>1, EnableGrows
    <3> QED
      BY <1>0, <2>1, <3>1, GrowthKeeps DEF UpInv
  <2>2. CASE whole' # whole
    <3>1. cmd' = Idle
      BY <1>1, <2>2, EnableDoes DEF Ends
    <3> QED
      BY <1>0, <1>1, <2>2, <3>1, UpAfterEnable DEF UpInv
  <2> QED
    BY <2>1, <2>2
<1>2. CASE TeardownNet
  <2>1. ~whole'
    BY <1>2, TeardownDoes DEF CommandInv, Alike
  <2> QED
    BY <2>1 DEF UpInv
<1>3. CASE CreateNetwork
  <2>1. disk' = disk /\ whole' = whole
    BY <1>3, CreateNetworkDoes
  <2>2. live.ifc \subseteq live'.ifc /\ live.addr \subseteq live'.addr /\ live'.port = live.port
    <3> DEFINE I == live.ifc \cup {DockerBridge(Net)}
               A == live.addr \cup {<<DockerBridge(Net), <<cmd.i, TRUE>>>>}
    <3>1. live' = live \/ live' = [ifc |-> I, port |-> live.port, addr |-> A]
      BY <1>3, CreateNetworkDoes, Zenon
    <3>2. live.ifc \subseteq I /\ live.addr \subseteq A
      OBVIOUS
    <3> HIDE DEF I, A
    <3> QED
      BY <3>1, <3>2
  <2>3. \A j : DiskDone(j)' <=> DiskDone(j)
    BY <1>0, <2>1 DEF DiskDone
  <2>4. \A j : Up(j) => Up(j)'
    BY <1>0, <2>2, <2>3 DEF Up
  <2> QED
    BY <1>0, <2>1, <2>4 DEF UpInv
<1>4. CASE Reboot
  <2>1. /\ disk' = disk /\ whole' = whole /\ disk.ifc \subseteq live'.ifc /\ disk.addr \subseteq live'.addr
        /\ \A p \in disk.port : p[2] \in disk.ifc => p \in live'.port
    BY <1>4, RebootDoes
  <2>2. \A j : DiskDone(j)' <=> DiskDone(j)
    BY <1>0, <2>1 DEF DiskDone
  <2>3. \A j : Up(j) => Up(j)'
    <3>1. \A j : DiskDone(j) /\ nets[j].bridged => <<Link(nets[j]), Bridge(nets[j])>> \in live'.port
      BY <2>1 DEF DiskDone
    <3>2. \A j : DiskDone(j) => /\ Address(j) \in live'.addr
                                /\ nets[j].bridged => {Link(nets[j]), Bridge(nets[j])} \subseteq live'.ifc
      BY <2>1 DEF DiskDone
    <3> QED
      BY <1>0, <2>2, <3>1, <3>2 DEF Up
  <2> QED
    BY <1>0, <2>1, <2>3 DEF UpInv
<1>5. ASSUME live' = live, disk' = disk, whole' => whole
      PROVE  UpInv'
  <2>1. \A j : Up(j)' <=> Up(j)
    BY <1>0, <1>5 DEF Up, DiskDone
  <2> QED
    BY <1>0, <1>5, <2>1 DEF UpInv
<1>6. CASE ~Enable /\ ~TeardownNet /\ ~CreateNetwork /\ ~Reboot
  <2>1. live' = live /\ disk' = disk
    BY <1>6, KindsOfSteps, StartDoes, RestDoes DEF Still, netsVars
  <2>2. whole' => whole
    BY <1>6, KindsOfSteps, StartDoes, RestDoes DEF netsVars
  <2> QED
    BY <1>5, <2>1, <2>2
<1> QED
  BY <1>1, <1>2, <1>3, <1>4, <1>6

-----------------------------------------------------------------------------
(* An enable that runs again. *)

\* The host an enable left differs from the present one by links that move.
SettledOn(live0, rules0, nat0, S) ==
  \E P : /\ S = {<<[ifc |-> live0.ifc, addr |-> live0.addr, port |-> P], rules0, nat0>>}
         /\ PortsSet(P, Len(nets))
         /\ \A p : p[1] \notin Linking(Len(nets)) => (p \in P <=> p \in live0.port)

LEMMA SettledIs ==
  SettledInv <=> (settled # {} => (\A j \in Numbers : LiveDone(j)) /\ SettledOn(live, rules, nat, settled))
BY DEF SettledInv, SettledOn

\* On what an enable left, another one changes nothing but, for a while, ports.
LEMMA RerunSteps ==
  ASSUME HostShape, CommandInv, Enable, NEW i, i = cmd.i, LiveDone(i)
  PROVE  /\ live'.ifc = live.ifc /\ live'.addr = live.addr /\ rules' = rules /\ nat' = nat
         /\ \A p : p[1] \notin Linking(Len(nets)) => (p \in live'.port <=> p \in live.port)
<1>0. i \in Numbers /\ Net = nets[i]
  BY EnableDoes DEF Net
<1>1. CASE AddAddress
  <2>1. /\ live'.ifc = live.ifc /\ live'.port = live.port /\ live'.addr = live.addr \cup {Address(i)}
        /\ Quiet /\ Same
    BY <1>1, AddAddressDoes
  <2>2. live'.addr = live.addr
    BY <2>1 DEF LiveDone
  <2> QED
    BY <2>1, <2>2 DEF Quiet, Same
<1>2. CASE ClearAddresses
  <2>1. /\ live'.ifc = live.ifc /\ live'.port = live.port /\ Quiet /\ Same /\ nets[i].bridged
        /\ live'.addr = {p \in live.addr : ~(p[1] = <<nets[i].dev, 0>> /\ p[2][1] = i)}
    BY <1>0, <1>2, ClearAddressesDoes
  <2>2. live'.addr = live.addr
    BY <2>1 DEF LiveDone, Cleared
  <2> QED
    BY <2>1, <2>2 DEF Quiet, Same
<1>3. CASE MakeLink
  <2>1. /\ live'.ifc = live.ifc \cup {Link(nets[i])} /\ live'.port = live.port /\ live'.addr = live.addr
        /\ Quiet /\ Same /\ nets[i].bridged
    BY <1>0, <1>3, MakeLinkDoes
  <2>2. live'.ifc = live.ifc
    BY <2>1 DEF LiveDone
  <2> QED
    BY <2>1, <2>2 DEF Quiet, Same
<1>4. CASE AskBridge
  BY <1>4, AskBridgeDoes DEF Quiet, Same
<1>5. CASE WriteLinkFile
  BY <1>5, WriteLinkFileDoes DEF Quiet, Same
<1>6. CASE WriteBridgeFile
  BY <1>6, WriteBridgeFileDoes DEF Quiet, Same
<1>7. CASE MakeBridge
  <2>1. /\ live'.ifc = live.ifc \cup {Bridge(nets[i])} /\ live'.port = live.port
        /\ live'.addr = live.addr \cup {Address(i)} /\ Quiet /\ Same /\ nets[i].bridged
    BY <1>0, <1>7, MakeBridgeDoes
  <2>2. live'.ifc = live.ifc /\ live'.addr = live.addr
    BY <2>1 DEF LiveDone
  <2> QED
    BY <2>1, <2>2 DEF Quiet, Same
<1>8. CASE AttachLink
  <2>1. Link(nets[i]) \in Linking(Len(nets))
    <3>1. nets[i].bridged /\ i <= Len(nets)
      BY <1>0, <1>8, AttachLinkDoes DEF Numbers, HostShape
    <3> QED
      BY <1>0, <3>1 DEF Linking
  <2>2. /\ live'.ifc = live.ifc /\ live'.addr = live.addr /\ rules' = rules /\ nat' = nat
        /\ live'.port = {p \in live.port : p[1] # Link(nets[i])} \cup {<<Link(nets[i]), Bridge(nets[i])>>}
    BY <1>0, <1>8, AttachLinkDoes DEF Quiet, Same
  <2> QED
    BY <2>1, <2>2
<1>9. CASE WriteIfcCfg
  BY <1>9, WriteIfcCfgDoes DEF Same
<1>10. CASE UpdateFirewall
  <2>1. /\ Net.bridged /\ Same /\ live' = live
        /\ \/ rules' = rules
           \/ firewall /\ ~\E b \in Bridges : rules[b] > 0 /\ Within(Bridge(Net), b)
    BY <1>10, UpdateFirewallDoes
  <2>2. Ruled(i)
    BY <1>0, <2>1 DEF LiveDone
  <2> QED
    BY <1>0, <2>1, <2>2 DEF Ruled, Same
<1> QED
  BY <1>1, <1>2, <1>3, <1>4, <1>5, <1>6, <1>7, <1>8, <1>9, <1>10 DEF Enable

LEMMA SettledMoves ==
  ASSUME nets' = nets, Numbers' = Numbers, SettledOn(live', rules', nat', settled'),
         \A j \in Numbers : LiveDone(j)'
  PROVE  SettledInv'
<1>1. PICK P : /\ settled' = {<<[ifc |-> live'.ifc, addr |-> live'.addr, port |-> P], rules', nat'>>}
               /\ PortsSet(P, Len(nets))
               /\ \A p : p[1] \notin Linking(Len(nets)) => (p \in P <=> p \in live'.port)
  BY Zenon DEF SettledOn
<1>2. PortsSet(P, Len(nets))'
  BY <1>1 DEF PortsSet, Linking, LastOf
<1>3. Linking(Len(nets))' = Linking(Len(nets))
  BY DEF Linking
<1> QED
  BY <1>1, <1>2, <1>3 DEF SettledInv

\* Where an enable ends.
LEMMA SettledAtEnd ==
  ASSUME HostShape, CommandInv, GlueInv, EnableInv, Enable, cmd' = Idle,
         settled' # settled \/ whole' # whole
  PROVE  /\ settled' = {<<live', rules', nat>>} /\ nat' = nat
         /\ PortsSet(live'.port, Len(nets)) /\ \A j \in Numbers : LiveDone(j)'
<1>0. PICK i : i = cmd.i
  OBVIOUS
<1>1. Stepped(i)
  BY <1>0, EnableSteps
<1>2. Ends /\ LiveDone(i)' /\ (Alone(i) => DiskDone(i)') /\ PortsSet(live'.port, i) /\ i = Len(nets)
  <2>1. \A s : ~To(s)
    BY DEF To, Idle
  <2>2. Ends /\ LiveDone(i)' /\ (Alone(i) => DiskDone(i)') /\ PortsSet(live'.port, i)
    BY <1>1, <2>1 DEF Stepped
  <2>3. i = Len(nets)
    BY <1>0, <2>2 DEF Ends, Idle
  <2> QED
    BY <2>2, <2>3
<1>3. \A j \in Numbers : LiveDone(j)'
  <2>1. \A j \in Numbers : j <= i
    BY <1>2 DEF Numbers, HostShape
  <2> QED
    BY <1>0, <1>2, <2>1, EndDone
<1>4. settled' = {<<live', rules', nat>>}
  BY <1>2 DEF Ends, Idle
<1>5. nat' = nat
  BY AddAddressDoes, ClearAddressesDoes, MakeLinkDoes, AskBridgeDoes, WriteLinkFileDoes, WriteBridgeFileDoes,
     MakeBridgeDoes, AttachLinkDoes, WriteIfcCfgDoes, UpdateFirewallDoes DEF Enable, Same
<1> QED
  BY <1>2, <1>3, <1>4, <1>5

LEMMA SettledKept ==
  ASSUME HostShape, CommandInv, GlueInv, EnableInv, SettledInv, [NetsNext]_netsVars
  PROVE  SettledInv'
<1>0. nets' = nets /\ Numbers' = Numbers /\ firewall' = firewall /\ Bridges' = Bridges
  BY NetsKept
<1>1. CASE Enable /\ settled' = settled
  <2>1. SUFFICES ASSUME settled # {}
                 PROVE  SettledInv'
    BY <1>1 DEF SettledInv
  <2>2. (\A j \in Numbers : LiveDone(j)) /\ SettledOn(live, rules, nat, settled)
    BY <2>1, SettledIs
  <2>3. /\ live'.ifc = live.ifc /\ live'.addr = live.addr /\ rules' = rules /\ nat' = nat
        /\ \A p : p[1] \notin Linking(Len(nets)) => (p \in live'.port <=> p \in live.port)
    BY <1>1, <2>2, RerunSteps, EnableDoes
  <2>4. SettledOn(live', rules', nat', settled')
    BY <1>1, <2>2, <2>3 DEF SettledOn
  <2>5. \A j \in Numbers : LiveDone(j)'
    BY <1>0, <1>1, <2>2, EnableGrows, GrowthKeeps
  <2> QED
    BY <1>0, <2>4, <2>5, SettledMoves
<1>2. CASE Enable /\ settled' # settled
  <2>1. cmd' = Idle
    BY <1>2, EnableDoes DEF Ends
  <2>2. /\ settled' = {<<live', rules', nat>>} /\ nat' = nat
        /\ PortsSet(live'.port, Len(nets)) /\ \A j \in Numbers : LiveDone(j)'
    BY <1>2, <2>1, SettledAtEnd
  <2>3. live' = [ifc |-> live'.ifc, addr |-> live'.addr, port |-> live'.port]
    BY <1>2, EnableDoes DEF Shape
  <2>4. SettledOn(live', rules', nat', settled')
    BY <2>2, <2>3 DEF SettledOn
  <2> QED
    BY <1>0, <2>2, <2>4, SettledMoves
<1>3. CASE ~Enable /\ settled' = {}
  BY <1>3 DEF SettledInv
<1>4. ASSUME UNCHANGED <<live, rules, nat, settled>>
      PROVE  SettledInv'
  <2>1. SUFFICES ASSUME settled # {}
                 PROVE  SettledInv'
    BY <1>4 DEF SettledInv
  <2>2. (\A j \in Numbers : LiveDone(j)) /\ SettledOn(live, rules, nat, settled)
    BY <2>1, SettledIs
  <2>3. \A j \in Numbers : LiveDone(j)'
    BY <1>0, <1>4, <2>2 DEF LiveDone, Address, Cleared, Ruled
  <2>4. SettledOn(live', rules', nat', settled')
    BY <1>4, <2>2
  <2> QED
    BY <1>0, <2>3, <2>4, SettledMoves
<1>5. CASE ~Enable /\ settled' # {}
  <2>1. CASE UNCHANGED netsVars
    BY <1>4, <2>1 DEF netsVars
  <2>2. CASE \E op \in Ops : StartCommand(op)
    <3>1. UNCHANGED <<live, rules, nat>>
      BY <2>2, StartDoes DEF Still
    <3>2. settled' = settled
      BY <1>5, <2>2, StartDoes
    <3> QED
      BY <1>4, <3>1, <3>2
  <2>3. CASE Interrupt
    <3>1. UNCHANGED <<live, rules, nat, settled>>
      BY <2>3 DEF Interrupt, host, history
    <3> QED
      BY <1>4, <3>1
  <2>4. CASE ~UNCHANGED netsVars /\ ~(\E op \in Ops : StartCommand(op)) /\ ~Interrupt
    <3>1. settled' = settled
      BY <1>5, <2>4, KindsOfSteps, TeardownDoes, CreateNetworkDoes, RebootDoes, RestDoes DEF Alike
    <3>2. cmd.op \in {"teardown", "container", "gateway", "ungate", "remove"} \/ Reboot
      BY <1>5, <2>4, KindsOfSteps, TeardownDoes, CreateNetworkDoes
      DEF Gateway, CreateContainer, AgainContainer, RemoveContainer, At
    <3>3. ~Reboot
      BY <1>5, RebootDoes
    <3> QED
      BY <1>5, <3>1, <3>2, <3>3 DEF CommandInv
  <2> QED
    BY <2>1, <2>2, <2>3, <2>4
<1> QED
  BY <1>1, <1>2, <1>3, <1>5

LEMMA RerunKept ==
  ASSUME HostShape, CommandInv, GlueInv, EnableInv, SettledInv, [NetsNext]_netsVars,
         settled # {}, settled' # {}
  PROVE  settled' = settled
<1>1. CASE ~Enable
  BY <1>1, KindsOfSteps, TeardownDoes, CreateNetworkDoes, RebootDoes, RestDoes, StartDoes DEF Alike, netsVars
<1>2. CASE Enable /\ settled' # settled
  <2>1. cmd' = Idle
    BY <1>2, EnableDoes DEF Ends
  <2>2. settled' = {<<live', rules', nat>>} /\ PortsSet(live'.port, Len(nets))
    BY <1>2, <2>1, SettledAtEnd
  <2>3. /\ \A j \in Numbers : LiveDone(j)
        /\ SettledOn(live, rules, nat, settled)
    BY SettledIs
  <2>4. /\ live'.ifc = live.ifc /\ live'.addr = live.addr /\ rules' = rules
        /\ \A p : p[1] \notin Linking(Len(nets)) => (p \in live'.port <=> p \in live.port)
    BY <1>2, <2>3, RerunSteps, EnableDoes
  <2>5. PICK P : /\ settled = {<<[ifc |-> live.ifc, addr |-> live.addr, port |-> P], rules, nat>>}
                 /\ PortsSet(P, Len(nets))
                 /\ \A p : p[1] \notin Linking(Len(nets)) => (p \in P <=> p \in live.port)
    BY <2>3, Zenon DEF SettledOn
  <2>6. live'.port = P
    <3>1. \A p : p[1] \in Linking(Len(nets)) => (p \in P <=> p \in live'.port)
      BY <2>2, <2>5 DEF PortsSet
    <3>2. \A p : p \in P <=> p \in live'.port
      BY <2>4, <2>5, <3>1
    <3> QED
      BY <3>2
  <2>7. live' = [ifc |-> live'.ifc, addr |-> live'.addr, port |-> live'.port]
    BY <1>2, EnableDoes DEF Shape
  <2> QED
    BY <2>2, <2>4, <2>5, <2>6, <2>7
<1> QED
  BY <1>1, <1>2

-----------------------------------------------------------------------------
(* What a teardown removed stays removed. *)

\* Nothing comes back.
Shrinks ==
  /\ live'.ifc \subseteq live.ifc /\ disk'.ifc \subseteq disk.ifc
  /\ live'.addr \subseteq live.addr /\ disk'.addr \subseteq disk.addr
  /\ \A j \in Numbers : <<Link(nets[j]), Foreign>> \in live.port /\ Link(nets[j]) \in live'.ifc =>
                           <<Link(nets[j]), Foreign>> \in live'.port
  /\ \A b \in Bridges : rules[b] = 0 => rules'[b] = 0

LEMMA TeardownShrinks ==
  ASSUME HostShape, CommandInv, TeardownNet, ~RemoveDockerNetworks
  PROVE  Shrinks
<1>n. cmd.i \in Numbers
  BY TeardownDoes
<1>0. \A j \in Numbers : /\ Link(nets[j]) # Bridge(Net) /\ Foreign # Link(Net) /\ Foreign # Bridge(Net)
  BY <1>n, NamesApart DEF Net
<1>1. CASE DeleteAddress
  BY <1>1, DeleteAddressDoes DEF Shrinks
<1>2. CASE DeleteLink
  <2>1. /\ disk' = disk /\ rules' = rules
        /\ \/ live' = live
           \/ /\ live'.ifc = live.ifc \ {Link(Net)} /\ live'.addr \subseteq live.addr
              /\ live'.port = {p \in live.port : Link(Net) \notin {p[1], p[2]}}
    BY <1>2, DeleteLinkDoes, DelFields
  <2> QED
    BY <1>0, <2>1 DEF Shrinks
<1>3. CASE DeleteBridge
  <2>1. /\ disk' = disk /\ rules' = rules
        /\ live'.ifc = live.ifc \ {Bridge(Net)} /\ live'.addr \subseteq live.addr
        /\ live'.port = {p \in live.port : Bridge(Net) \notin {p[1], p[2]}}
    BY <1>3, DeleteBridgeDoes, DelFields
  <2> QED
    BY <1>0, <2>1 DEF Shrinks
<1>4. CASE DeleteBridgeFile
  BY <1>4, DeleteBridgeFileDoes DEF Shrinks
<1>5. CASE DeleteLinkFile
  <2>1. /\ live' = live /\ rules' = rules
        /\ disk'.ifc \subseteq disk.ifc /\ disk'.addr \subseteq disk.addr
    BY <1>5, DeleteLinkFileDoes, DelFields
  <2> QED
    BY <2>1 DEF Shrinks
<1>6. CASE DeleteRules
  BY <1>6, DeleteRulesDoes DEF Shrinks
<1> QED
  BY <1>1, <1>2, <1>3, <1>4, <1>5, <1>6 DEF TeardownNet

LEMMA ShrinkKeeps ==
  ASSUME HostShape, nets' = nets, Numbers' = Numbers, Bridges' = Bridges, Shrinks, NEW j \in Numbers,
         Distinct(j)' <=> Distinct(j), Address(j)' = Address(j), Sole(j)' <=> Sole(j)
  PROVE  /\ LinkGone(j) => LinkGone(j)'
         /\ Removed(j) => Removed(j)'
<1>1. LinkGone(j) => LinkGone(j)'
  BY DEF LinkGone, Shrinks
<1>2. Bridge(nets[j]) \in Bridges
  BY NamesApart
<1> QED
  BY <1>1, <1>2 DEF Removed, Shrinks

\* A link that seems attached elsewhere, and whose name is in no other, is there.
LEMMA BusyElsewhere ==
  ASSUME HostShape, PortInv, NEW i \in Numbers, nets[i].bridged, Distinct(i),
         AttachedElsewhere(Link(nets[i]), Bridge(nets[i]))
  PROVE  <<Link(nets[i]), Foreign>> \in live.port
<1>1. PICK p \in live.port : Within(Link(nets[i]), p[1]) /\ ~Within(Bridge(nets[i]), p[2])
  BY DEF AttachedElsewhere
<1>2. PICK j \in Numbers : /\ nets[j].bridged
                           /\ p = <<Link(nets[j]), Bridge(nets[j])>> \/ p = <<Link(nets[j]), Foreign>>
  BY <1>1 DEF PortInv, Ours, Theirs
<1>3. j = i
  BY <1>1, <1>2 DEF Distinct
<1>4. Within(Bridge(nets[i]), Bridge(nets[i]))
  <2>1. Bridge(nets[i])[2] \in Nat
    BY NamesApart DEF Bridge
  <2> QED
    BY <2>1, WithinItself
<1> QED
  BY <1>1, <1>2, <1>3, <1>4

\* What the steps of a teardown have removed of a network.
GoneStage(i, s) ==
  LET l == Link(nets[i])
      b == Bridge(nets[i])
  IN /\ s \in {"bridge", "bridgefile", "linkfile", "firewall"} => LinkGone(i)
     /\ s \in {"bridgefile", "linkfile", "firewall"} => b \notin live.ifc
     /\ s \in {"linkfile", "firewall"} => b \notin disk.ifc
     /\ s = "firewall" /\ Tag(nets[i]) # 0 => l \notin disk.ifc

LEMMA GoneStageIs ==
  RemovedInv <=>
    /\ gone => dock = {} /\ made = {} /\ \A i \in Numbers : Removed(i)
    /\ cmd.op = "teardown" /\ cmd.step # "docker" =>
         /\ dock = {} /\ made = {}
         /\ \A j \in Numbers : j < cmd.i => Removed(j)
         /\ GoneStage(cmd.i, cmd.step)
BY DEF RemovedInv, GoneStage, Net

LEMMA GoneStageKept ==
  ASSUME HostShape, CommandInv, TeardownNet, ~RemoveDockerNetworks, NEW i \in Numbers, NEW s, GoneStage(i, s)
  PROVE  GoneStage(i, s)'
<1>1. /\ nets' = nets /\ Numbers' = Numbers /\ Bridges' = Bridges
      /\ (Distinct(i)' <=> Distinct(i)) /\ Address(i)' = Address(i) /\ (Sole(i)' <=> Sole(i))
  BY NetsKept, NetsFixed, SoleFixed DEF NetsNext
<1>2. Shrinks
  BY TeardownShrinks
<1>3. LinkGone(i) => LinkGone(i)'
  BY <1>1, <1>2, ShrinkKeeps
<1> QED
  BY <1>1, <1>2, <1>3 DEF GoneStage, Shrinks

\* The result of a step of a teardown for the network it works on.
Cut(i) ==
  \/ cmd' = Idle /\ gone' = gone
  \/ \E s : Down(s) /\ s # "docker" /\ GoneStage(i, s)' /\ gone' = gone
  \/ Last /\ Removed(i)'

LEMMA TeardownSteps ==
  ASSUME HostShape, CommandInv, PortInv, FileInv, PlainInv, RemovedInv,
         TeardownNet, ~RemoveDockerNetworks, NEW i, i = cmd.i
  PROVE  Cut(i)
<1>0. /\ i \in Numbers /\ Net = nets[i] /\ cmd.op = "teardown" /\ nets' = nets /\ Bridges' = Bridges
      /\ (Distinct(i)' <=> Distinct(i)) /\ Address(i)' = Address(i)
  BY TeardownDoes, NetsKept, NetsFixed DEF Net, NetsNext
<1>s. PICK s : s = cmd.step
  OBVIOUS
<1>q. s # "docker" => GoneStage(i, s)'
  BY <1>0, <1>s, GoneStageIs, GoneStageKept
<1>1. CASE DeleteAddress
  <2>1. /\ ~nets[i].bridged /\ Last /\ Address(i) \notin live'.addr
    BY <1>0, <1>1, DeleteAddressDoes
  <2>2. Sole(i) => Address(i) \notin disk'.addr
    <3>1. CASE disk'.addr = disk.addr \ {Address(i)}
      BY <3>1
    <3>2. CASE /\ i \notin plain \/ \E l \in disk.ifc \ {<<nets[i].dev, 0>>} : l[1] = nets[i].dev
               /\ disk' = disk
      BY <1>0, <2>1, <3>2, SoleFound DEF PlainInv
    <3> QED
      BY <1>0, <1>1, <3>1, <3>2, DeleteAddressDoes
  <2>3. Sole(i)' <=> Sole(i)
    BY <1>0, SoleFixed DEF NetsNext
  <2> QED
    BY <1>0, <2>1, <2>2, <2>3 DEF Cut, Removed
<1>2. CASE DeleteLink
  <2>1. /\ nets[i].bridged /\ gone' = gone
        /\ \/ AttachedElsewhere(Link(nets[i]), Bridge(nets[i])) /\ Down("bridge") /\ live' = live
           \/ cmd' = Idle
           \/ Down("bridge") /\ live'.ifc = live.ifc \ {Link(nets[i])}
    BY <1>0, <1>2, DeleteLinkDoes, DelFields
  <2>2. CASE AttachedElsewhere(Link(nets[i]), Bridge(nets[i])) /\ Down("bridge") /\ live' = live
    <3>1. LinkGone(i)'
      BY <1>0, <2>1, <2>2, BusyElsewhere DEF LinkGone
    <3> QED
      BY <2>1, <2>2, <3>1 DEF Cut, GoneStage
  <2>3. CASE Down("bridge") /\ live'.ifc = live.ifc \ {Link(nets[i])}
    <3>1. LinkGone(i)'
      BY <1>0, <2>3 DEF LinkGone
    <3> QED
      BY <2>1, <2>3, <3>1 DEF Cut, GoneStage
  <2> QED
    BY <2>1, <2>2, <2>3 DEF Cut
<1>3. CASE DeleteBridge
  <2>1. /\ s = "bridge" /\ Down("bridgefile") /\ gone' = gone /\ Bridge(nets[i]) \notin live'.ifc
    BY <1>0, <1>s, <1>3, DeleteBridgeDoes, DelFields DEF Tearing
  <2>2. GoneStage(i, "bridgefile")'
    BY <1>0, <1>q, <2>1 DEF GoneStage
  <2> QED
    BY <2>1, <2>2 DEF Cut
<1>4. CASE DeleteBridgeFile
  <2>1. /\ s = "bridgefile" /\ Down("linkfile") /\ gone' = gone /\ Bridge(nets[i]) \notin disk'.ifc
    BY <1>0, <1>s, <1>4, DeleteBridgeFileDoes DEF Tearing
  <2>2. GoneStage(i, "linkfile")'
    BY <1>0, <1>q, <2>1 DEF GoneStage
  <2> QED
    BY <2>1, <2>2 DEF Cut
<1>5. CASE DeleteLinkFile
  <2>1. /\ s = "linkfile" /\ Down("firewall") /\ gone' = gone
        /\ Tag(nets[i]) = 0 \/ Link(nets[i]) \notin disk'.ifc
    BY <1>0, <1>s, <1>5, DeleteLinkFileDoes, DelFields DEF Tearing
  <2>2. GoneStage(i, "firewall")'
    BY <1>0, <1>q, <2>1 DEF GoneStage
  <2> QED
    BY <2>1, <2>2 DEF Cut
<1>6. CASE DeleteRules
  <2>1. /\ s = "firewall" /\ Last /\ nets[i].bridged
    BY <1>0, <1>s, <1>6, DeleteRulesDoes DEF Tearing
  <2>2. GoneStage(i, "firewall")'
    BY <1>q, <2>1
  <2>3. Bridge(nets[i]) \in Bridges /\ Within(Bridge(nets[i]), Bridge(nets[i]))
    <3>1. Bridge(nets[i])[2] \in Nat /\ Bridge(nets[i]) \in Bridges
      BY <1>0, NamesApart DEF Bridge
    <3> QED
      BY <3>1, WithinItself
  <2>4. rules'[Bridge(nets[i])] = 0
    <3>1. CASE firewall
      BY <1>0, <1>6, <2>3, <3>1, DeleteRulesDoes
    <3>2. CASE ~firewall
      BY <1>6, <2>3, <3>2, DeleteRulesDoes DEF PortInv
    <3> QED
      BY <3>1, <3>2
  <2>5. Removed(i)'
    BY <1>0, <2>1, <2>2, <2>4 DEF GoneStage, Removed
  <2> QED
    BY <2>1, <2>5 DEF Cut
<1> QED
  BY <1>1, <1>2, <1>3, <1>4, <1>5, <1>6 DEF TeardownNet

LEMMA RemovedKept ==
  ASSUME HostShape, CommandInv, PortInv, FileInv, PlainInv, RemovedInv, [NetsNext]_netsVars
  PROVE  RemovedInv'
<1>0. /\ nets' = nets /\ Numbers' = Numbers /\ Bridges' = Bridges /\ Numbers \subseteq Nat
      /\ \A j : (Distinct(j)' <=> Distinct(j)) /\ Address(j)' = Address(j)
      /\ \A j \in Numbers : Sole(j)' <=> Sole(j)
  BY NetsKept, NetsFixed, SoleFixed DEF HostShape, Numbers
<1>1. CASE TeardownNet /\ ~RemoveDockerNetworks
  <2>0. PICK i : i = cmd.i
    OBVIOUS
  <2>1. cmd.op = "teardown" /\ i \in Numbers /\ ~gone /\ cmd.step # "docker"
    <3>1. cmd.op = "teardown" /\ i \in Numbers
      BY <1>1, <2>0, TeardownDoes
    <3>2. cmd.step # "docker"
      BY <1>1, DeleteAddressDoes, DeleteLinkDoes, DeleteBridgeDoes, DeleteBridgeFileDoes, DeleteLinkFileDoes,
         DeleteRulesDoes DEF TeardownNet, Tearing
    <3> QED
      BY <3>1, <3>2 DEF CommandInv
  <2>2. dock' = {} /\ made' = {}
    <3>1. dock' = dock /\ made' = made
      BY <1>1, DeleteAddressDoes, DeleteLinkDoes, DeleteBridgeDoes, DeleteBridgeFileDoes, DeleteLinkFileDoes,
         DeleteRulesDoes DEF TeardownNet
    <3> QED
      BY <2>1, <3>1 DEF RemovedInv
  <2>3. \A j \in Numbers : j < i => Removed(j)'
    <3>1. \A j \in Numbers : j < i => Removed(j)
      BY <2>0, <2>1 DEF RemovedInv
    <3> QED
      BY <1>0, <1>1, <3>1, TeardownShrinks, ShrinkKeeps
  <2>4. Cut(i)
    BY <1>1, <2>0, TeardownSteps
  <2>5. CASE cmd' = Idle /\ gone' = gone
    BY <2>1, <2>5 DEF RemovedInv, Idle
  <2>6. ASSUME NEW s, Down(s), GoneStage(i, s)', gone' = gone
        PROVE  RemovedInv'
    <3>1. cmd'.i = i /\ cmd'.step = s
      BY <2>0, <2>6 DEF Down
    <3>2. GoneStage(cmd.i, cmd.step)'
      BY <2>6, <3>1
    <3>3. \A j \in Numbers' : j < cmd'.i => Removed(j)'
      BY <1>0, <2>3, <3>1
    <3> QED
      BY <2>1, <2>2, <2>6, <3>2, <3>3 DEF RemovedInv, GoneStage, Net
  <2>7. CASE Last /\ Removed(i)'
    <3>1. \A j \in Numbers : j <= i => Removed(j)'
      <4>1. \A j \in Numbers : j <= i => j < i \/ j = i
        BY <1>0, <2>1
      <4> QED
        BY <2>3, <2>7, <4>1
    <3>2. CASE i = Len(nets) /\ cmd' = Idle /\ gone' = TRUE
      <4>1. \A j \in Numbers' : Removed(j)'
        <5>1. \A j \in Numbers : j <= Len(nets)
          BY DEF Numbers, HostShape
        <5> QED
          BY <1>0, <3>1, <3>2, <5>1
      <4> QED
        BY <2>2, <3>2, <4>1 DEF RemovedInv, Idle
    <3>3. CASE cmd' = [op |-> "teardown", i |-> i + 1, step |-> "begin"] /\ gone' = FALSE
      <4>1. \A j \in Numbers' : j < cmd'.i => Removed(j)'
        <5>1. \A j \in Numbers : j < i + 1 => j <= i
          BY <1>0, <2>1
        <5> QED
          BY <1>0, <3>1, <3>3, <5>1
      <4>2. cmd'.step = "begin"
        BY <3>3
      <4> QED
        BY <2>2, <3>3, <4>1, <4>2 DEF RemovedInv
    <3> QED
      BY <2>0, <2>7, <3>2, <3>3 DEF Last
  <2> QED
    BY <2>4, <2>5, <2>6, <2>7 DEF Cut
<1>2. CASE RemoveDockerNetworks
  <2>1. /\ cmd' = [op |-> "teardown", i |-> 1, step |-> "begin"] /\ dock' = {} /\ made' = {} /\ ~gone'
    BY <1>2, RemoveDockerNetworksDoes DEF Tearing, Down, CommandInv
  <2>2. \A j \in Numbers' : ~(j < 1)
    BY <1>0 DEF Numbers, HostShape
  <2>3. cmd'.i = 1 /\ cmd'.step = "begin"
    BY <2>1
  <2> QED
    BY <2>1, <2>2, <2>3 DEF RemovedInv
<1>3. CASE Reboot
  <2>1. /\ disk' = disk /\ dock' = dock /\ made' = made /\ gone' = gone /\ cmd' = Idle
        /\ rules' = [b \in Bridges |-> 0] /\ live'.ifc = disk.ifc \cup made \cup {Foreign}
        /\ made = {} => live'.addr = disk.addr
    BY <1>3, RebootDoes
  <2>2. SUFFICES ASSUME gone
                 PROVE  dock' = {} /\ made' = {} /\ \A i \in Numbers' : Removed(i)'
    BY <2>1 DEF RemovedInv, Idle
  <2>3. dock = {} /\ made = {} /\ \A i \in Numbers : Removed(i)
    BY <2>2 DEF RemovedInv
  <2>4. ASSUME NEW i \in Numbers
        PROVE  Removed(i)'
    <3>1. /\ Bridge(nets[i]) \in Bridges /\ Foreign # Link(nets[i]) /\ Foreign # Bridge(nets[i])
      BY <2>4, NamesApart
    <3>2. Removed(i)
      BY <2>3, <2>4
    <3>3. CASE nets[i].bridged
      <4>1. /\ Bridge(nets[i]) \notin disk.ifc /\ (Tag(nets[i]) # 0 => Link(nets[i]) \notin disk.ifc)
        BY <3>2, <3>3 DEF Removed
      <4>2. LinkGone(i)'
        BY <1>0, <2>1, <2>3, <3>1, <4>1 DEF LinkGone
      <4> QED
        BY <1>0, <2>1, <2>3, <3>1, <3>3, <4>1, <4>2 DEF Removed
    <3>4. CASE ~nets[i].bridged
      BY <1>0, <2>1, <2>3, <3>2, <3>4 DEF Removed
    <3> QED
      BY <3>3, <3>4
  <2> QED
    BY <1>0, <2>1, <2>3, <2>4
<1>4. CASE UNCHANGED netsVars
  <2>1. RemovedInv' <=> RemovedInv
    BY <1>4 DEF netsVars, RemovedInv, Removed, LinkGone, Distinct, Sole, Address, Numbers, Net
  <2> QED
    BY <2>1
<1>5. CASE ~TeardownNet /\ ~Reboot /\ ~UNCHANGED netsVars
  <2>1. ~gone'
    <3>1. CASE \E op \in Ops : StartCommand(op)
      BY <3>1, StartDoes
    <3>2. CASE Enable
      BY <3>2, EnableDoes DEF CommandInv
    <3>3. CASE CreateNetwork
      BY <3>3, CreateNetworkDoes DEF CommandInv
    <3>4. CASE Gateway \/ CreateContainer \/ AgainContainer \/ RemoveContainer \/ Interrupt
      BY <3>4, RestDoes DEF CommandInv
    <3> QED
      BY <1>5, KindsOfSteps, <3>1, <3>2, <3>3, <3>4
  <2>2. cmd'.op = "teardown" => cmd'.step = "docker"
    <3>1. CASE \E op \in Ops : StartCommand(op)
      <4>1. PICK op \in Ops : StartCommand(op)
        BY <3>1
      <4>2. PICK s : cmd' = [op |-> op, i |-> 1, step |-> s] /\ (op = "teardown" => s = "docker")
        BY <4>1, StartDoes
      <4> QED
        BY <4>2
    <3>2. CASE Enable
      <4>1. cmd.op = "enable" /\ Place
        <5>1. cmd.op = "enable"
          BY <3>2, EnableDoes
        <5>2. ~\E op \in Ops : StartCommand(op)
          BY <5>1 DEF StartCommand, Idle
        <5> QED
          BY <5>1, <5>2, PlaceAfter
      <4> QED
        BY <4>1 DEF Place, Goes, Idle
    <3>3. CASE CreateNetwork
      BY <3>3, CreateNetworkDoes DEF Idle
    <3>4. CASE Gateway \/ CreateContainer \/ AgainContainer \/ RemoveContainer \/ Interrupt
      BY <3>4, RestDoes DEF Idle
    <3> QED
      BY <1>5, KindsOfSteps, <3>1, <3>2, <3>3, <3>4
  <2> QED
    BY <2>1, <2>2 DEF RemovedInv
<1> QED
  BY <1>1, <1>2, <1>3, <1>4, <1>5

-----------------------------------------------------------------------------
(* The theorems. *)

NetsInv ==
  /\ HostShape /\ CommandInv /\ PortInv /\ GlueInv
  /\ EnableInv /\ UpInv /\ SettledInv
  /\ FileInv /\ PlainInv /\ RemovedInv

LEMMA NetworkFields ==
  ASSUME NEW n \in Networks
  PROVE  n.type \in Types /\ n.dev \in Devices /\ n.vlan \in Nat /\ n.bridged \in BOOLEAN
<1>1. n.type \in Types /\ n.dev \in Devices
  BY SMT DEF Networks
<1>2. n.vlan \in 0..4095
  BY SMT DEF Networks
<1>3. n.bridged \in BOOLEAN
  BY SMT DEF Networks
<1>4. \A v : v \in 0..4095 => v \in Nat
  BY SMT
<1>5. n.vlan \in Nat
  BY <1>2, <1>4, SMT
<1> QED
  BY <1>1, <1>3, <1>5, Zenon

LEMMA InitHolds == NetsInit => NetsInv
<1> SUFFICES ASSUME NetsInit
             PROVE  NetsInv
  OBVIOUS
<1>1. nets \in Seq(Networks) /\ \A k \in DOMAIN nets : nets[k].type # "mgmt" => nets[k].bridged
  <2>1. nets \in Configs
    BY Zenon DEF NetsInit
  <2> QED
    BY <2>1, ConfigsAssumption
<1>2. Len(nets) \in Nat /\ DOMAIN nets = Numbers
  BY <1>1 DEF Numbers
<1>3. \A k \in Numbers : Network(nets[k])
  <2>1. SUFFICES ASSUME NEW k \in Numbers
                 PROVE  Network(nets[k])
    OBVIOUS
  <2>2. nets[k] \in Networks
    BY <1>1, <1>2, <2>1 DEF Numbers
  <2>3. nets[k].type # "mgmt" => nets[k].bridged
    BY <1>1, <1>2, <2>1
  <2>4. \A n \in Networks : n.type \in Types /\ n.dev \in Devices /\ n.vlan \in Nat /\ n.bridged \in BOOLEAN
    BY NetworkFields
  <2> QED
    BY <2>2, <2>3, <2>4 DEF Network
<1>4. PICK odd \in SUBSET {<<<<nets[k].dev, 0>>, <<k, FALSE>>>> : k \in Numbers},
           old \in SUBSET {<<Link(nets[k]), Foreign>> : k \in {j \in Numbers : nets[j].type = "pxe"}} :
        /\ live = [ifc |-> Physical \cup {Foreign} \cup {p[1] : p \in old}, addr |-> odd, port |-> old]
        /\ disk = [ifc |-> Physical, addr |-> odd, port |-> {}]
  BY Zenon DEF NetsInit
<1>5. cmd = Idle /\ whole = FALSE /\ gone = FALSE /\ settled = {} /\ rules = [b \in Bridges |-> 0]
  BY Zenon DEF NetsInit
<1>6. HostShape
  BY <1>2, <1>3, <1>4, <1>5 DEF HostShape, Idle
<1>7. CommandInv
  BY <1>5 DEF CommandInv, Idle
<1>8. PortInv
  <2>1. \A p \in old : Theirs(p)
    BY <1>3, <1>4 DEF Theirs, Network
  <2> QED
    BY <1>4, <1>5, <2>1 DEF PortInv
<1>9. GlueInv
  <2>1. \A i \in Numbers : Bridge(nets[i]) \notin Physical
    <3>1. \A i \in Numbers : nets[i].type \notin Devices
      BY <1>3, NamesAssumption DEF Network
    <3> QED
      BY <3>1 DEF Physical, Bridge
  <2> QED
    BY <1>4, <2>1 DEF GlueInv
<1>10. FileInv
  <2>1. disk.ifc = Physical /\ disk.addr = odd
    BY <1>4
  <2>2. \A p \in odd : \E d \in Devices, k \in Numbers : p = <<<<d, 0>>, <<k, FALSE>>>>
    BY <1>3 DEF Network
  <2> QED
    BY <2>1, <2>2 DEF FileInv
<1>11. PlainInv
  <2>1. ASSUME NEW i \in Numbers, Address(i) \in odd
        PROVE  FALSE
    <3>1. PICK k \in Numbers : Address(i) = <<<<nets[k].dev, 0>>, <<k, FALSE>>>>
      BY <2>1
    <3>2. Address(i)[2] = <<i, TRUE>>
      BY <1>6, AddressOf
    <3>3. Address(i)[2] = <<k, FALSE>>
      BY <3>1, SecondOf, Zenon
    <3>4. <<i, TRUE>> = <<k, FALSE>>
      BY <3>2, <3>3, Zenon
    <3> QED
      BY <3>4, Forms
  <2> QED
    BY <1>4, <2>1 DEF PlainInv
<1> QED
  BY <1>5, <1>6, <1>7, <1>8, <1>9, <1>10, <1>11 DEF NetsInv, EnableInv, UpInv, SettledInv, RemovedInv, Idle

\* Whatever step is taken, the invariant goes on.
THEOREM NetsInvariant == NetsSpec => []NetsInv
<1>1. NetsInit => NetsInv
  BY InitHolds
<1>2. NetsInv /\ [NetsNext]_netsVars => NetsInv'
  BY ShapeKept, CommandKept, PortsKept, GlueKept, EnablingKept, UpKept, SettledKept,
     FileKept, PlainInvKept, RemovedKept DEF NetsInv
<1> QED
  BY <1>1, <1>2, PTL DEF NetsSpec

\* enable_deployer_networks.py, then whatever fails, is stopped or restarts:
\* from the end of an enable to the start of a teardown each network that
\* shares no link or bridge with another one carries traffic.
THEOREM NetworksStayUp == NetsSpec => []NetworksUp
<1>1. NetsInv => NetworksUp
  <2>1. SUFFICES ASSUME NetsInv, whole, NEW i \in Numbers, Alone(i)
                 PROVE  Serves(i)
    BY DEF NetworksUp
  <2>2. Up(i) /\ Network(nets[i])
    BY <2>1 DEF NetsInv, UpInv, HostShape
  <2>3. nets[i].vlan # 4095 => DockerBridge(nets[i]) = Bridge(nets[i])
    BY DEF DockerBridge, Bridge, Tag
  <2>4. CASE nets[i].bridged
    <3>1. Address(i) = <<Bridge(nets[i]), <<i, TRUE>>>>
      BY <2>4 DEF Address
    <3> QED
      BY <2>2, <2>3, <2>4, <3>1 DEF Up, Serves
  <2>5. CASE ~nets[i].bridged
    <3>1. Address(i) = <<<<nets[i].dev, 0>>, <<i, TRUE>>>>
      BY <2>5 DEF Address
    <3> QED
      BY <2>2, <2>5, <3>1 DEF Up, Serves
  <2> QED
    BY <2>4, <2>5
<1> QED
  BY <1>1, NetsInvariant, PTL

\* pupteardown_deployer_networks.py: a teardown that came to its end has left
\* nothing of the configuration, whatever runs that failed had left before it,
\* and nothing of it comes back with a restart, but for an address that stands
\* beside another in a device's file.
THEOREM TeardownLeavesNothing == NetsSpec => []TeardownClean
<1>1. NetsInv => TeardownClean
  <2>1. SUFFICES ASSUME NetsInv, gone
                 PROVE  dock = {} /\ \A i \in Numbers : Removed(i)
    BY DEF TeardownClean, Removed, LinkGone, Address
  <2> QED
    BY <2>1 DEF NetsInv, RemovedInv
<1> QED
  BY <1>1, NetsInvariant, PTL

\* "This function is idempotent" (enable_deployer_networks.py): an enable on
\* what an enable left ends with the same interfaces, addresses, ports and rules.
THEOREM EnableIsIdempotent == NetsSpec => RerunSame
<1>1. NetsInv /\ [NetsNext]_netsVars => [settled # {} /\ settled' # {} => settled' = settled]_netsVars
  BY RerunKept DEF NetsInv
<1> QED
  BY <1>1, NetsInvariant, PTL DEF NetsSpec, RerunSame
===============================================================================
