----------------------------- MODULE DataSwitch -----------------------------
(***************************************************************************)
(* The data switches: configure_data_switches.py and the methods of        *)
(* lib/switch_common.py and lib/mellanox.py it calls.                      *)
(*                                                                         *)
(* A run goes through stages: vlans, MTU, MLAG and port channels to set    *)
(* up, or those in reverse to remove.  A stage has a task for each port,   *)
(* vlan, pair of switches or group of ports the configuration names (the   *)
(* first part of this module); a task sends its commands one after the     *)
(* other (the rest).  What a dictionary holds is visited in any order.     *)
(* A switch may refuse a command; what notices is the method's own check,  *)
(* if it has one.  A run can be killed between two commands; what it did   *)
(* stays on the switches.                                                  *)
(***************************************************************************)
EXTENDS Naturals, Sequences, FiniteSets, Functions

CONSTANTS Configs,      \* the configurations, see DataAssumption
          Switches, Class,   \* the switches and their class
          Kills, Refusals, Runs   \* bounds

-----------------------------------------------------------------------------
\* What a configuration c asks for.

Slaves(c, name) == {i.label : i \in {j \in c.ifcs : j.master = name}}

\* The entries of a template's data interfaces that are in the set.
Entries(t, labels) == SelectSeq(t.data, LAMBDA e: e.ifc \in labels)

PortsOf(entries, s) ==
  UNION {Range(e.ports) : e \in {d \in Range(entries) : d.sw = s}}

AllPorts(c, s) == UNION {PortsOf(t.data, s) : t \in Range(c.templates)}

\* _get_vlan_list(): a vlan interface of a template puts its vlan on the
\* ports of the slaves of its raw device.
VlansOn(c, s, p) ==
  {i.vlan : i \in {j \in c.ifcs :
     /\ j.raw # ""
     /\ \E t \in Range(c.templates):
          j.label \in t.ifcs /\ p \in PortsOf(Entries(t, Slaves(c, j.raw)), s)}}

VlanPorts(c, s) == {p \in AllPorts(c, s) : VlansOn(c, s, p) # {}}

\* _get_mtu_list(), _get_port_mtu(): 0 is no MTU.
MtuOf(c, s, p) ==
  LET m == {i.mtu : i \in {j \in c.ifcs :
              /\ j.mtu # 0
              /\ \E t \in Range(c.templates): p \in PortsOf(Entries(t, {j.label}), s)}}
  IN IF m = {} THEN 0 ELSE CHOOSE x \in m : TRUE

\* zip(): as many groups as the shortest list of ports has.
PortGroups(lists) ==
  IF lists = <<>> THEN <<>>
  ELSE LET n == CHOOSE k \in {Len(l) : l \in Range(lists)} :
                  \A l \in Range(lists): k <= Len(l)
       IN [i \in 1..n |-> [k \in DOMAIN lists |-> lists[k][i]]]

Bonds(c) == {i \in c.ifcs : i.bond /\ Slaves(c, i.name) # {}}

\* _get_port_chan_list(): the port groups of a bond on a switch.
Groups(c, bond, t, s) ==
  LET e == SelectSeq(Entries(t, Slaves(c, bond.name)), LAMBDA d: d.sw = s)
  IN IF bond.label \in t.ifcs THEN PortGroups([k \in DOMAIN e |-> e[k].ports]) ELSE <<>>

\* The smallest port number of the group.
ChanNum(grp) == CHOOSE p \in Range(grp) : \A q \in Range(grp) : p <= q

\* get_sw_data_mlag_peer(): the target of the first link that has a vlan.
Peer(c, s) ==
  LET l == SelectSeq(c.links[s], LAMBDA k: k.vlan # 0)
  IN IF l = <<>> THEN {} ELSE {l[1].target}

\* get_sw_data_mstr_switch(): the highest address on a link between them.
Master(c, s) ==
  LET both == {s} \cup Peer(c, s)
      ip(r) == {l.ip : l \in {k \in Range(c.links[r]) : k.target \in both}}
  IN IF Peer(c, s) = {} THEN s
     ELSE CHOOSE r \in both : \A o \in both \ {r} : \E a \in ip(r) : \A b \in ip(o) : a > b

\* _get_mlag_info(): the pairs.
Pairs(c) == {{s} \cup Peer(c, s) : s \in {r \in DOMAIN c.links : Peer(c, r) # {}}}

\* chan_ports has both switches of a pair under their master.
Paired(c, bond, t, s) ==
  Cardinality({r \in DOMAIN c.links :
                 Groups(c, bond, t, r) # <<>> /\ Master(c, r) = Master(c, s)}) = 2

\* chan_ports: the groups of a switch that are in pairs, and those that are not
ChanGroups(c, s, paired) ==
  UNION {UNION {Range(Groups(c, b, t, s)) :
                  t \in {u \in Range(c.templates) : Paired(c, b, u, s) = paired}} :
           b \in Bonds(c)}

\* A port is in one group at most; switches have peers that are switches.
ASSUME DataAssumption ==
  /\ Kills \in Nat /\ Refusals \in Nat /\ Runs \in Nat
  /\ \A c \in Configs:
       /\ DOMAIN c.links \subseteq Switches
       /\ UNION Pairs(c) \subseteq Switches
       /\ \A s \in DOMAIN c.links :
            \A g, h \in ChanGroups(c, s, FALSE) : Range(g) \cap Range(h) # {} => g = h

VARIABLES cfg,          \* the configuration of the run
          op,           \* "configure", "deconfigure" or "none"
          stage,        \* the stage of the run
          todo,         \* its tasks left
          task,         \* the task at hand
          plan,         \* its commands left
          end,          \* "none", or how a run ended: "failed" or its operation
          sw,           \* the switches
          configured,   \* switches is_mlag_configured() was True for
          logged,       \* ports an error or warning names
          left,         \* [kills, refusals, runs]
          torn          \* switches whose MLAG commands were cut or refused

run == <<cfg, op, stage>>
dataVars == <<run, todo, task, plan, end, sw, configured, logged, left, torn>>
-----------------------------------------------------------------------------
\* The commands.  The commands of a task are sent in the order of n, those of
\* the same n in any.

Cmd(n, do, s, p, a) == [n |-> n, do |-> do, sw |-> s, port |-> p, arg |-> a]

\* vlans that no earlier port of the switch had, trunk mode, vlans allowed
VlanPlan(s, p, made) ==
  {Cmd(1, "vlan", s, 0, {v}) : v \in VlansOn(cfg, s, p) \ made}
  \cup {Cmd(2, "trunk", s, p, {}), Cmd(3, "allow", s, p, VlansOn(cfg, s, p))}

\* set_mtu_for_port(): down, MTU, up.
MtuPlan(s, p, value) ==
  {Cmd(1, "down", s, p, {}), Cmd(2, "mtu", s, p, {value}), Cmd(3, "up", s, p, {})}

\* configure_mlag(), one command after the other.
MlagSteps == <<"qos", "mlag", "mlagvlan", "lag", "members", "ipl", "address", "peer", "vip">>

MlagOne(n, s) ==
  {Cmd(n, "ask", s, 0, {})}
  \cup {Cmd(n + i, "mlag", s, 0, {MlagSteps[i]}) : i \in DOMAIN MlagSteps}

\* mutant: a switch is enabled once the protocol is on
EnableEarly(a, b) ==
  MlagOne(0, a) \cup MlagOne(20, b)
  \cup {Cmd(3, "enable", a, 0, {}), Cmd(23, "enable", b, 0, {})}

\* The switches of a pair one after the other, then both are enabled.
MlagPlan(a, b) ==
  MlagOne(0, a) \cup MlagOne(20, b)
  \cup {Cmd(40, "enable", a, 0, {}), Cmd(40, "enable", b, 0, {})}

\* An MLAG port channel is removed and created; then chan_ports[..][sw], which
\* zip() returned, is indexed: a TypeError ends the run.
MlagChannelPlan(s, grp) ==
  {Cmd(1, "rm_mchan", s, ChanNum(grp), {}), Cmd(2, "mk_mchan", s, ChanNum(grp), {}),
   Cmd(3, "index", s, 0, {})}

LagPlan(s, grp) ==
  LET n == ChanNum(grp)
      vlans == VlansOn(cfg, s, grp[1])
  IN {Cmd(1, "mk_chan", s, n, {})}
     \cup (IF vlans = {} THEN {Cmd(2, "chaccess", s, n, {})}
           ELSE {Cmd(2, "chtrunk", s, n, {}),
                 Cmd(3, "clear", s, n, {}), Cmd(4, "carry", s, n, vlans)})
     \cup (IF MtuOf(cfg, s, n) = 0 THEN {} ELSE {Cmd(5, "chanmtu", s, n, {})})
     \cup {Cmd(6, "leave", s, p, {}) : p \in Range(grp)}
     \cup {Cmd(7, "join", s, p, {n}) : p \in Range(grp)}
     \cup {Cmd(8, "joined", s, 0, Range(grp))}

\* deconfigure_mlag(): the steps undone, the protocol last but for QoS.
UnmlagOne(n, s) ==
  {Cmd(n, "ask", s, 0, {}), Cmd(n + 1, "unmlag", s, 0, {})}
  \cup {Cmd(n + 11 - i, "undo", s, 0, {MlagSteps[i]}) : i \in DOMAIN MlagSteps}
UnmlagPlan(a, b) == UnmlagOne(0, a) \cup UnmlagOne(20, b)

UnvlanPlan(s, p) == {Cmd(1, "forbid", s, p, VlansOn(cfg, s, p)), Cmd(2, "access", s, p, {})}

UnchannelPlan(s, grp, paired) ==
  IF paired THEN {Cmd(1, "ask", s, 0, {}), Cmd(2, "rm_own", s, ChanNum(grp), {})}
            ELSE {Cmd(1, "rm_chan", s, ChanNum(grp), {})}
-----------------------------------------------------------------------------
\* The stages and their tasks.

ConfigureStages == <<"vlans", "mtu", "mlag", "channels">>

\* mutant: vlans first
VlansFirst == <<"unvlan", "delete", "unchannel", "unmlag", "unmtu">>

DeconfigureStages == <<"unchannel", "unmlag", "unvlan", "delete", "unmtu">>

Stages(o) == IF o = "configure" THEN ConfigureStages ELSE DeconfigureStages

ByPort == {"vlans", "mtu", "unvlan", "delete", "unmtu"}

\* A task is a port or vlan of a switch, a pair, or a group of ports.
Tasks(c, st) ==
  UNION {
    CASE st \in {"vlans", "unvlan"} -> {<<s, p>> : p \in VlanPorts(c, s)}
      [] st = "delete" -> {<<s, v>> : v \in UNION {VlansOn(c, s, p) : p \in VlanPorts(c, s)}}
      [] st \in {"mtu", "unmtu"} -> {<<s, p>> : p \in {q \in AllPorts(c, s) : MtuOf(c, s, q) # 0}}
      [] st \in {"mlag", "unmlag"} -> {pair \in Pairs(c) : s \in pair}
      [] OTHER -> {<<s, g, TRUE>> : g \in ChanGroups(c, s, TRUE)}
                  \cup {<<s, g, FALSE>> : g \in ChanGroups(c, s, FALSE)}
    : s \in DOMAIN c.links}

\* The commands a task may be: of a pair, either switch is first.
Plans(t) ==
  CASE stage = "vlans" -> {VlanPlan(t[1], t[2], UNION {VlansOn(cfg, u[1], u[2]) :
                             u \in {w \in Tasks(cfg, "vlans") \ todo : w # t /\ w[1] = t[1]}})}
    [] stage = "unvlan" -> {UnvlanPlan(t[1], t[2])}
    [] stage = "delete" -> {{Cmd(1, "novlan", t[1], 0, {t[2]})}}
    [] stage = "mtu" -> {MtuPlan(t[1], t[2], MtuOf(cfg, t[1], t[2]))}
    [] stage = "unmtu" -> {MtuPlan(t[1], t[2], 0)}
    [] stage = "mlag" -> UNION {{MlagPlan(a, b) : b \in t \ {a}} : a \in t}
    [] stage = "unmlag" -> UNION {{UnmlagPlan(a, b) : b \in t \ {a}} : a \in t}
    [] stage = "channels" -> {IF t[3] THEN MlagChannelPlan(t[1], t[2]) ELSE LagPlan(t[1], t[2])}
    [] stage = "unchannel" -> {UnchannelPlan(t[1], t[2], t[3])}

\* The command that is sent next.
Due(c) == c \in plan /\ \A d \in plan : c.n <= d.n

-----------------------------------------------------------------------------
\* A switch.  Ports of a channel are not shown by show_ports() and the switch
\* takes no vlan or mode command for them.

Blank == [vlans |-> {}, trunk |-> {}, allowed |-> {}, mtu |-> {}, down |-> {},
          chan |-> {}, chans |-> {}, mchans |-> {}, ctrunk |-> {}, carries |-> {},
          mlag |-> {}, enabled |-> FALSE]

InChannel(s, p) == \E j \in sw[s].chan: j[1] = p
Without(pairs, x) == {q \in pairs : q[1] # x}

\* What an accepted command does to the record of its switch.
Does(r, c) ==
  LET do(words) == c.do \in words
      mine == {c.port} \X c.arg
  IN [vlans   |-> IF do({"vlan"}) THEN r.vlans \cup c.arg
                  ELSE IF do({"novlan"}) THEN r.vlans \ c.arg ELSE r.vlans,
      trunk   |-> IF do({"trunk"}) THEN r.trunk \cup {c.port}
                  ELSE IF do({"access"}) THEN r.trunk \ {c.port} ELSE r.trunk,
      allowed |-> IF do({"allow"}) THEN r.allowed \cup mine
                  ELSE IF do({"forbid"}) THEN r.allowed \ mine
                  ELSE IF do({"novlan"}) THEN {a \in r.allowed : a[2] \notin c.arg} ELSE r.allowed,
      mtu     |-> IF do({"mtu"}) THEN Without(r.mtu, c.port) \cup ({c.port} \X (c.arg \ {0}))
                  ELSE r.mtu,
      down    |-> IF do({"down"}) THEN r.down \cup {c.port}
                  ELSE IF do({"up"}) THEN r.down \ {c.port} ELSE r.down,
      chan    |-> IF do({"join"}) THEN r.chan \cup mine
                  ELSE IF do({"leave"}) THEN Without(r.chan, c.port)
                  ELSE IF do({"rm_chan"}) THEN {j \in r.chan : j[2] # c.port} ELSE r.chan,
      chans   |-> IF do({"mk_chan"}) THEN r.chans \cup {c.port}
                  ELSE IF do({"rm_chan"}) THEN r.chans \ {c.port} ELSE r.chans,
      mchans  |-> IF do({"mk_mchan"}) THEN r.mchans \cup {c.port}
                  ELSE IF do({"rm_mchan", "rm_own"}) THEN r.mchans \ {c.port} ELSE r.mchans,
      ctrunk  |-> IF do({"chtrunk"}) THEN r.ctrunk \cup {c.port}
                  ELSE IF do({"chaccess", "rm_chan"}) THEN r.ctrunk \ {c.port} ELSE r.ctrunk,
      carries |-> IF do({"carry"}) THEN r.carries \cup mine
                  ELSE IF do({"clear", "rm_chan"}) THEN Without(r.carries, c.port) ELSE r.carries,
      mlag    |-> IF do({"mlag"}) THEN r.mlag \cup c.arg
                  ELSE IF do({"undo"}) THEN r.mlag \ c.arg ELSE r.mlag,
      enabled |-> IF do({"enable"}) THEN TRUE ELSE IF do({"undo"}) THEN FALSE ELSE r.enabled]

\* Vlan and mode commands for a port that is in a channel, and a second
\* channel for a port, are never taken.  Mellanox sends nothing for "none"
\* (no vlan to loop over).
Takes(c) ==
  /\ c.do \in {"trunk", "access", "allow", "forbid", "join"} => ~InChannel(c.sw, c.port)
  /\ ~(c.do = "clear" /\ Class[c.sw] = "mellanox")

\* A switch that has no MLAG is not enabled.
Skipped(c) == c.do = "enable" /\ "mlag" \notin sw[c.sw].mlag

\* An attribute the class lacks, an indexed zip, or MLAG information that is
\* not found: nothing catches it.
Breaks(c) ==
  \/ c.do = "index" \/ c.do = "chanmtu"
  \/ c.do \in {"down", "mtu", "up"} /\ Class[c.sw] = "mellanox"
  \/ c.do \in {"ask", "enable"} /\ Class[c.sw] # "mellanox"
  \/ c.do = "unmlag" /\ ~({"lag", "members", "ipl"} \subseteq sw[c.sw].mlag)

\* The vlan of the link between the peers, made by create_vlan().
IpLinkVlan(c) == c.do = "mlag" /\ c.arg = {"mlagvlan"}

\* The method's check of what the switch shows after the command: a port
\* that is in a channel is not shown and passes.
Checks(c, r) ==
  CASE c.do \in {"trunk", "access"} ->
         InChannel(c.sw, c.port) \/ (c.do = "trunk" <=> c.port \in r.trunk)
    [] c.do = "allow" -> InChannel(c.sw, c.port) \/ {c.port} \X c.arg \subseteq r.allowed
    [] c.do = "forbid" -> InChannel(c.sw, c.port) \/ ~({c.port} \X c.arg \subseteq r.allowed)
    [] c.do = "vlan" -> c.arg \subseteq r.vlans
    [] IpLinkVlan(c) -> "mlagvlan" \in r.mlag
    [] c.do = "novlan" -> c.arg \cap r.vlans = {}
    [] c.do = "leave" -> \A j \in r.chan: j[1] # c.port
    [] OTHER -> TRUE

\* mutant: it is taken for granted that the ports joined
NoneMissing(c) == {}

\* Ports of a group that are in no channel after all were to join; a port of
\* any channel passes.
Missing(c) == {p \in c.arg : ~InChannel(c.sw, p)}

\* A failed check raises an exception that ends the run.
Fatal(c) == c.do \in {"vlan", "novlan", "access"} \/ IpLinkVlan(c)

-----------------------------------------------------------------------------
DataInit ==
  /\ cfg \in Configs /\ op = "none" /\ stage = "none" /\ todo = {} /\ task = <<>> /\ plan = {}
  /\ end = "none"
  /\ sw = [s \in Switches |-> Blank] /\ configured = {} /\ logged = {}
  /\ left = [kills |-> Kills, refusals |-> Refusals, runs |-> Runs] /\ torn = {}

EnterStage(c, st) == stage' = st /\ todo' = Tasks(c, st) /\ task' = <<>>

\* A run begins, with this or an edited configuration of the same switches or
\* some of them, and works out what it asks for.
Start ==
  /\ op = "none" /\ left.runs > 0 /\ left' = [left EXCEPT !.runs = @ - 1]
  /\ op' \in {"configure", "deconfigure"}
  /\ cfg' \in {c \in Configs : DOMAIN c.links \cap DOMAIN cfg.links # {}}
  /\ EnterStage(cfg', Stages(op')[1])
  /\ end' = "none" /\ configured' = {} /\ logged' = {}
  /\ UNCHANGED <<plan, sw, torn>>

\* The next task; where a dictionary is by switch, of the switch at hand.
Take ==
  /\ op # "none" /\ plan = {}
  /\ \E t \in todo :
       /\ stage \in ByPort /\ task # <<>> =>
            t[1] = task[1] \/ \A u \in todo : u[1] # task[1]
       /\ todo' = todo \ {t} /\ task' = t
       /\ plan' \in Plans(t)
  /\ UNCHANGED <<run, end, sw, configured, logged, left, torn>>

Stop(how) ==
  op' = "none" /\ stage' = "none" /\ todo' = {} /\ task' = <<>> /\ plan' = {} /\ end' = how

\* The next stage, or the end.
NextStage ==
  /\ op # "none" /\ plan = {} /\ todo = {}
  /\ \E k \in DOMAIN Stages(op) :
       /\ stage = Stages(op)[k]
       /\ IF k < Len(Stages(op))
            THEN EnterStage(cfg, Stages(op)[k + 1]) /\ UNCHANGED <<op, plan, end>>
            ELSE Stop(op)
  /\ UNCHANGED <<cfg, sw, configured, logged, left, torn>>

\* A command whose loss leaves MLAG of the switch neither on nor off.
Cut(c) == IF c.do \in {"mlag", "undo"} THEN {c.sw} ELSE {}

\* The switches whose MLAG is being set up or removed.
Midway ==
  UNION {Cut(c) : c \in {d \in plan :
                    \A e \in plan : e.sw = d.sw => e.do \notin {"ask", "unmlag"}}}

\* is_mlag_configured(); the operator may refuse to have MLAG removed.  A
\* switch that has MLAG is not set up, one that has not has none to remove.
Ask(c) ==
  /\ c.do = "ask" /\ ~Breaks(c)
  /\ \E has \in BOOLEAN :
       /\ has => "mlag" \in sw[c.sw].mlag
       /\ ~has => "mlag" \notin sw[c.sw].mlag \/ stage = "unmlag"
       /\ configured' = IF has THEN configured \cup {c.sw} ELSE configured \ {c.sw}
       /\ plan' = {d \in plan \ {c} :
                     d.sw = c.sw => d.do \notin IF has THEN {"mlag"} ELSE {"unmlag", "undo", "rm_own"}}
  /\ UNCHANGED <<run, todo, task, end, sw, logged, left, torn>>

Skip(c) ==
  /\ Skipped(c) /\ ~Breaks(c)
  /\ plan' = plan \ {c}
  /\ UNCHANGED <<run, todo, task, end, sw, configured, logged, left, torn>>

Break(c) ==
  /\ Breaks(c)
  /\ Stop("failed") /\ torn' = torn \cup Midway
  /\ UNCHANGED <<cfg, sw, configured, logged, left>>

\* The ports of a channel are looked at; the log names one that is missing.
CheckJoined(c) ==
  /\ c.do = "joined"
  /\ IF Missing(c) = {} THEN logged' = logged
     ELSE \E p \in Missing(c) : logged' = logged \cup {<<c.sw, p>>}
  /\ plan' = plan \ {c}
  /\ UNCHANGED <<run, todo, task, end, sw, configured, left, torn>>

\* A command is sent; the switch takes it or not, and the check follows.
Send(c, take) ==
  LET r == IF take THEN Does(sw[c.sw], c) ELSE sw[c.sw]
      refused == Takes(c) /\ ~take
  IN /\ c.do \notin {"ask", "joined"} /\ ~Skipped(c) /\ ~Breaks(c)
     /\ take => Takes(c)
     /\ refused => left.refusals > 0
     /\ left' = IF refused THEN [left EXCEPT !.refusals = @ - 1] ELSE left
     /\ sw' = [sw EXCEPT ![c.sw] = r]
     /\ logged' = IF Checks(c, r) THEN logged ELSE logged \cup {<<c.sw, c.port>>}
     /\ IF Checks(c, r) \/ ~Fatal(c)
          THEN /\ plan' = plan \ {c} /\ UNCHANGED <<op, stage, todo, task, end>>
               /\ torn' = IF take THEN torn ELSE torn \cup Cut(c)
          ELSE Stop("failed") /\ torn' = torn \cup Midway
     /\ UNCHANGED <<cfg, configured>>

Command ==
  \E c \in plan :
    Due(c) /\ (Ask(c) \/ Skip(c) \/ Break(c) \/ CheckJoined(c) \/ \E take \in BOOLEAN : Send(c, take))

Kill ==
  /\ op # "none" /\ left.kills > 0 /\ left' = [left EXCEPT !.kills = @ - 1]
  /\ Stop("failed") /\ torn' = torn \cup Midway
  /\ UNCHANGED <<cfg, sw, configured, logged>>

DataNext == Start \/ Take \/ NextStage \/ Command \/ Kill

DataSpec == DataInit /\ [][DataNext]_dataVars

-----------------------------------------------------------------------------
\* Properties.

\* An error or warning names the port, or one of its group.
Mates(c, s, p) == {p} \cup UNION {Range(g) : g \in {h \in ChanGroups(c, s, FALSE) : p \in Range(h)}}
Named(s, p) == \E q \in Mates(cfg, s, p) : <<s, q>> \in logged

\* A configure that came to its end has named in the log each port, or one of
\* its group, that is not as the configuration wants it: its vlans and mode,
\* unless it is in a channel, and the channel of each port of a bond.  Earlier
\* runs may have been killed, refused, or had another configuration.
NothingSilent ==
  end = "configure" =>
    \A s \in DOMAIN cfg.links:
      /\ \A p \in VlanPorts(cfg, s):
           \/ InChannel(s, p) \/ Named(s, p)
           \/ p \in sw[s].trunk /\ {p} \X VlansOn(cfg, s, p) \subseteq sw[s].allowed
      /\ \A paired \in BOOLEAN : \A g \in ChanGroups(cfg, s, paired): \A p \in Range(g):
           <<p, ChanNum(g)>> \in sw[s].chan \/ Named(s, p)

\* MLAG is never enabled on a switch with a part of its set-up missing: a run
\* that finds the protocol on takes the rest for granted.  Not so after a
\* command of the set-up or removal itself was cut off or refused.
MlagWhole ==
  \A s \in Switches \ torn: sw[s].enabled => sw[s].mlag = Range(MlagSteps)

\* "Generally deconfiguration is done in reverse order of configuration": a
\* deconfigure that came to its end on switches that refused nothing leaves
\* nothing of its configuration, whatever part of it earlier runs had done.
DeconfigureClean ==
  end = "deconfigure" /\ left.refusals = Refusals =>
    \A s \in DOMAIN cfg.links:
      /\ \A p \in VlanPorts(cfg, s):
           /\ VlansOn(cfg, s, p) \cap sw[s].vlans = {}
           /\ ~InChannel(s, p) => p \notin sw[s].trunk
      /\ \A g \in ChanGroups(cfg, s, FALSE): ChanNum(g) \notin sw[s].chans
      /\ Peer(cfg, s) # {} /\ s \in configured => sw[s].mlag = {} /\ ~sw[s].enabled

=============================================================================
