------------------------------ MODULE Osinstall ------------------------------
(***************************************************************************)
(* `pup osinstall` (osinstall.py): three forms.  MAIN sets up the networks *)
(* and services of the installer node, NODE finds BMCs, takes a selection  *)
(* and boots it from the network, STATUS polls the reports the nodes leave *)
(* on the web server and, when all have finished, switches network         *)
(* installation off.                                                       *)
(*                                                                         *)
(* A report is the file <address>_start or <address>_finish; a later one   *)
(* replaces it.  Every machine keeps its address of the PXE network and    *)
(* stands for it; a report names its machine only if ipmitool worked       *)
(* there.  Times of modification are counted in reports.  The calls to     *)
(* the BMCs are BmcClients'; here a call succeeds for some clients, and    *)
(* its result is ignored.                                                  *)
(***************************************************************************)
EXTENDS Naturals, FiniteSets, Sequences

CONSTANTS Machines,    \* machines with a BMC; those not selected are there too
          MaxReports, MaxRounds, MaxRestarts,   \* bounds: reports sent,
                       \* installations begun (then MAIN is left alone),
                       \* machines restarted by hand
          None

\* What is known of a node's reports; a selection and what is known of it.
Records == [known : BOOLEAN, start : Nat, finish : Nat]
Selections == [sel : SUBSET Machines, rec : [Machines -> Records], other : [Machines -> Records]]

ASSUME OsinstallAssumption ==
  /\ IsFiniteSet(Machines) /\ {MaxReports, MaxRounds, MaxRestarts} \subseteq Nat
  /\ None \notin Selections

VARIABLES at,       \* [form, step]: the form shown and where it is
          prev,     \* the form visited before MAIN, while there, or None
          svc,      \* what there is on the installer node
          nodes,    \* osinstall_node_status.yml: [sel, rec, other], or None
          poll,     \* the listed reports this poll has still to read
          pxe,      \* pxelinux's default entry installs
          enabled,  \* Pup_form.pxeboot_enabled
          begun,    \* Pup_form.install_start_time
          files,    \* the reports: [time, named] by address and status
          clock,    \* reports sent
          mc,       \* the machines: [st, boot]
          hist      \* [rounds, restarts, started, count, anon], no part
                    \* of the program

osVars == <<at, prev, svc, nodes, poll, pxe, enabled, begun, files, clock, mc, hist>>
form == <<at, prev>>
data == <<nodes, poll, enabled, begun>>
world == <<files, clock, mc>>

Forms == {"MAIN", "NODE", "STATUS"}
Kinds == {"start", "finish"}
NoRec == [known |-> FALSE, start |-> 0, finish |-> 0]
Unknown == [m \in Machines |-> NoRec]
-----------------------------------------------------------------------------
(* Reports and the records made of them. *)

\* A poll looks at reports sent since the installation began.
FreshAny(f) == files[f] # None
Fresh(f) == files[f] # None /\ files[f].time > begun

\* _associate_pxe_to_bmc: by the address a record has, then by the report.
AssociateByName(n, m, rep) == m \in n.sel /\ rep.named
AssociatePxeToBmc(n, m, rep) == m \in n.sel /\ (n.rec[m].known \/ rep.named)

\* A start that is later takes the finish back.
Timed(r, kind, t) ==
  LET s == [r EXCEPT !.known = TRUE, ![kind] = t]
  IN IF s.start # 0 /\ s.finish # 0 /\ s.start >= s.finish THEN [s EXCEPT !.finish = 0] ELSE s

\* Reports of nobody selected are kept by address; there every start does.
TimedOther(r, kind, t) ==
  LET s == Timed(r, kind, t)
  IN IF kind = "start" THEN [s EXCEPT !.finish = 0] ELSE s

Recorded(n, m, kind, rep) ==
  IF AssociatePxeToBmc(n, m, rep)
    THEN [n EXCEPT !.rec[m] = Timed(@, kind, rep.time)]
    ELSE [n EXCEPT !.other[m] = TimedOther(@, kind, rep.time)]

Finished(r) == r.start # 0 /\ r.finish > r.start
FinishedNodes(n) == {m \in n.sel : Finished(n.rec[m])}

\* total_nodes_finished: of those selected, and of all others.
TotalFinished(n) ==
  Cardinality(FinishedNodes(n)) + Cardinality({m \in Machines : Finished(n.other[m])})
-----------------------------------------------------------------------------
(* The forms. *)

Shows(f) == at = [form |-> f, step |-> "edit"]
Does(f, s) == at = [form |-> f, step |-> s]
Goto(f) ==
  /\ at' = [form |-> f, step |-> "edit"]
  /\ prev' = IF f = "MAIN" THEN at.form ELSE None
Begins(f, s) == at' = [form |-> f, step |-> s] /\ UNCHANGED prev

\* osinstall(): forms are created, an earlier status file removed.
Launch ==
  /\ Shows("exit")
  /\ Begins("MAIN", "edit")
  /\ nodes' = None /\ poll' = {} /\ enabled' = FALSE /\ begun' = 0
  /\ UNCHANGED <<svc, pxe, world, hist>>

\* on_cancel: "Quit without saving?"  (After a no, STATUS cannot be left this
\* way any more: that is left out.)
Cancel(f) ==
  /\ Shows(f)
  /\ \/ Goto(f)
     \/ f = "MAIN" /\ Goto(IF prev = None THEN "exit" ELSE prev)
     \/ f = "NODE" /\ Goto("exit")
     \/ f = "STATUS" /\ Goto("MAIN")
  /\ UNCHANGED <<svc, data, pxe, world, hist>>

\* OK on MAIN runs these in turn.
OkFns == <<"is_valid_profile", "config_interfaces", "check_for_existing_dhcp",
           "add_firewall_rules", "install_and_configure_nginx", "configure_dnsmasq">>

\* Why they end: all have run, with warnings the operator put up with; one
\* gave a warning he did not put up with, or an error; or one ended the
\* program: the search for DHCP servers failed, or the error of the firewall
\* could not be put into words.  nginx never says anything.
Ends(n, why) ==
  CASE why = "onward" -> n = Len(OkFns)
    [] why = "declined" -> OkFns[n] \notin {"add_firewall_rules", "install_and_configure_nginx"}
    [] why = "error" -> OkFns[n] = "is_valid_profile"
    [] why = "raises" -> OkFns[n] \in {"check_for_existing_dhcp", "add_firewall_rules"}

\* What there is after the first n: the directory of the reports, which is
\* made before nginx is configured and stays, and services that boot a machine
\* into the installer, if both nginx and dnsmasq could be configured.
SvcAfter(n) ==
  IF n < Len(OkFns) THEN {svc}
  ELSE {s \in SUBSET {"dir", "boots"} : "boots" \in s \/ "dir" \in svc => "dir" \in s}

\* OK on MAIN.  An error leaves next_form as an earlier visit may have set it.
OkMain ==
  /\ Shows("MAIN") /\ hist.rounds < MaxRounds
  /\ \E n \in DOMAIN OkFns, why \in {"onward", "declined", "error", "raises"} :
       /\ Ends(n, why) /\ svc' \in SvcAfter(n)
       /\ \/ why = "onward" /\ Goto("NODE")
          \/ why = "declined" /\ (n = Len(OkFns) => "boots" \notin svc') /\ Goto("MAIN")
          \/ why = "error" /\ \E f \in Forms : Goto(f)
          \/ why = "raises" /\ Goto("exit")
  /\ UNCHANGED <<data, pxe, world, hist>>

\* MyButtonPress, 'Edit network config'
EditNetworkConfig ==
  /\ Shows("NODE") /\ Goto("MAIN")
  /\ UNCHANGED <<svc, data, pxe, world, hist>>

\* _get_bmcs_sn_pn: the BMCs that answer in time, with this login.
Responding == SUBSET Machines

\* while_waiting, talking_nodes: what a scan finds is added to what earlier
\* ones found, unless the user name or password has been edited since.  The
\* list has no other effect, so it is made where it is used.
Listed == {answer \cup earlier : answer, earlier \in Responding}

\* on_ok: with nobody selected the program ends, if it may.
OkNode ==
  /\ Shows("NODE")
  /\ \/ (Goto("exit") \/ Goto("NODE")) /\ UNCHANGED nodes
     \/ /\ hist.rounds < MaxRounds
        /\ \E list \in Listed : \E s \in SUBSET list \ {{}} :
             nodes' = [sel |-> s, rec |-> Unknown, other |-> Unknown]
        /\ Begins("NODE", "files")
  /\ UNCHANGED <<svc, poll, pxe, enabled, begun, world, hist>>
-----------------------------------------------------------------------------
(* initiate_os_installation *)

\* extract_iso_image: without an image the program ends.
NoImage ==
  /\ Does("NODE", "files") /\ Goto("exit")
  /\ UNCHANGED <<svc, data, pxe, world, hist>>

\* Image, kickstart file, report scripts and the entry of pxelinux.
WriteFiles ==
  /\ Does("NODE", "files") /\ Begins("NODE", "off")
  /\ pxe' = TRUE /\ enabled' = TRUE /\ begun' = clock
  /\ hist' = [hist EXCEPT !.rounds = @ + 1, !.started = {}, !.count = 0, !.anon = FALSE]
  /\ UNCHANGED <<svc, nodes, poll, world>>

SwitchOff(c) == [c EXCEPT !.st = "off"]
SetNetwork(c) == [c EXCEPT !.boot = "network"]
SetDisk(c) == [c EXCEPT !.boot = "disk"]
SwitchOn(c) == IF c.st = "off" THEN [c EXCEPT !.st = "booting"] ELSE c

\* A call to the BMCs of some machines works for some of them.
CallBmcs(clients, after) ==
  \E ok \in SUBSET clients : mc' = [m \in Machines |-> IF m \in ok THEN after[m] ELSE mc[m]]

\* initiate_pxeboot.  Setting the boot source of an openbmc that drops the
\* connection ends the program.
InitiatePxeboot ==
  /\ \/ /\ Does("NODE", "off") /\ CallBmcs(nodes.sel, [m \in Machines |-> SwitchOff(mc[m])])
        /\ Begins("NODE", "boot")
     \/ /\ Does("NODE", "boot") /\ CallBmcs(nodes.sel, [m \in Machines |-> SetNetwork(mc[m])])
        /\ Begins("NODE", "on") \/ Goto("exit")
     \/ /\ Does("NODE", "on") /\ CallBmcs(nodes.sel, [m \in Machines |-> SwitchOn(mc[m])])
        /\ Goto("STATUS")
  /\ UNCHANGED <<svc, data, pxe, files, clock, hist>>
-----------------------------------------------------------------------------
(* STATUS *)

\* The reports are listed, then read one after the other.
StartPoll ==
  /\ Shows("STATUS") /\ nodes # None
  /\ IF "dir" \in svc
       THEN /\ poll' = {f \in DOMAIN files : files[f] # None}
            /\ Begins("STATUS", "poll")
       ELSE Goto("exit") /\ UNCHANGED poll
  /\ UNCHANGED <<svc, nodes, enabled, begun, pxe, world, hist>>

ReadReport(f) ==
  /\ Does("STATUS", "poll") /\ f \in poll /\ poll' = poll \ {f}
  /\ IF Fresh(f) THEN nodes' = Recorded(nodes, f[1], f[2], files[f]) ELSE UNCHANGED nodes
  /\ UNCHANGED <<form, svc, enabled, begun, pxe, world, hist>>

\* update_status_values: who has finished is to boot from disk; when as many
\* have finished as were selected, all are, and the network boots locally, if
\* no call ended the program.
EndPoll ==
  LET all == TotalFinished(nodes) >= Cardinality(nodes.sel)
      called == IF all THEN nodes.sel ELSE FinishedNodes(nodes)
  IN /\ Does("STATUS", "poll") /\ poll = {}
     /\ CallBmcs(called, [m \in Machines |-> SetDisk(mc[m])])
     /\ \/ /\ pxe' = (pxe /\ ~all) /\ enabled' = (enabled /\ ~all)
           /\ Begins("STATUS", "edit")
        \/ called # {} /\ Goto("exit") /\ UNCHANGED <<pxe, enabled>>
     /\ UNCHANGED <<svc, nodes, poll, begun, files, clock, hist>>

\* on_ok: whether network installation is still enabled is not asked.
OkStatus ==
  /\ Shows("STATUS") /\ Goto("exit")
  /\ UNCHANGED <<svc, data, pxe, world, hist>>
-----------------------------------------------------------------------------
(* The machines and their people. *)

\* Without a setting of the BMC a machine boots from the network or not.
BootMachine(m) ==
  LET installer == pxe /\ "boots" \in svc
  IN /\ mc[m].st = "booting"
     /\ \E st \in {"up", "installer"} :
          /\ st = "installer" => installer /\ mc[m].boot # "disk"
          /\ st = "up" => ~(installer /\ mc[m].boot = "network")
          /\ mc' = [mc EXCEPT ![m] = [st |-> st, boot |-> "none"]]
     /\ UNCHANGED <<form, svc, data, pxe, files, clock, hist>>

\* pup_report.sh: without the services, a report may get lost.
Report(m, kind, named) ==
  /\ mc[m].st = (IF kind = "start" THEN "installer" ELSE "reported")
  /\ clock < MaxReports /\ clock' = clock + 1
  /\ \/ files' = [files EXCEPT ![<<m, kind>>] = [time |-> clock', named |-> named]]
     \/ "boots" \notin svc /\ UNCHANGED files
  /\ mc' = [mc EXCEPT ![m].st = IF kind = "start" THEN "reported" ELSE "booting"]
  /\ hist' = [hist EXCEPT !.started = IF kind = "start" THEN @ \cup {m} ELSE @ \ {m},
                          !.count = IF kind = "finish" /\ m \in hist.started THEN @ + 1 ELSE @,
                          !.anon = @ \/ ~named]
  /\ UNCHANGED <<form, svc, data, pxe>>

\* Somebody restarts a machine.
Restart(m) ==
  /\ mc[m].st # "booting"
  /\ mc' = [mc EXCEPT ![m].st = "booting"]
  /\ hist.restarts < MaxRestarts
  /\ hist' = [hist EXCEPT !.restarts = @ + 1, !.started = @ \ {m}]
  /\ UNCHANGED <<form, svc, data, pxe, files, clock>>
-----------------------------------------------------------------------------
OsInit ==
  /\ Shows("exit") /\ prev = None
  /\ svc = {} /\ nodes = None /\ poll = {}
  /\ pxe = FALSE /\ enabled = FALSE /\ begun = 0
  /\ files = [f \in Machines \X Kinds |-> None] /\ clock = 0
  /\ mc = [m \in Machines |-> [st |-> "up", boot |-> "none"]]
  /\ hist = [rounds |-> 0, restarts |-> 0, started |-> {}, count |-> 0,
             anon |-> FALSE]

StatusPoll == StartPoll \/ EndPoll \/ \E f \in DOMAIN files : ReadReport(f)

Operator ==
  \/ Launch \/ OkMain \/ EditNetworkConfig \/ OkNode \/ NoImage
  \/ WriteFiles \/ InitiatePxeboot \/ OkStatus
  \/ \E f \in Forms : Cancel(f)

World ==
  \E m \in Machines :
    \/ BootMachine(m) \/ Restart(m)
    \/ \E kind \in Kinds, named \in BOOLEAN : Report(m, kind, named)

OsNext == Operator \/ StatusPoll \/ World

\* npyscreen polls whenever the form is left alone for a second.
OsSpec == OsInit /\ [][OsNext]_osVars /\ WF_osVars(StatusPoll)
-----------------------------------------------------------------------------
\* If every report since the installation was begun names its machine, network
\* installation is switched off only when at least as many installations have
\* been both started and completed since then as nodes were selected: reports
\* of an earlier installation, a finish whose start was before and a restart in
\* between add nothing (update_install_status, update_status_values).
LocalBootWhenDone ==
  [][pxe /\ ~pxe' /\ ~hist.anon => hist.count >= Cardinality(nodes.sel)]_osVars

\* Each selected node's start has reached the server, with its name, and its
\* finish after that.
Reported(m) ==
  /\ Fresh(<<m, "start">>) /\ Fresh(<<m, "finish">>)
  /\ files[<<m, "start">>].named /\ files[<<m, "start">>].time < files[<<m, "finish">>].time
AllReported ==
  at.form = "STATUS" /\ "dir" \in svc /\ nodes # None /\ \A m \in nodes.sel : Reported(m)

\* While the operator watches, network installation is switched off once every
\* selected node has reported its start and its finish, in whatever order the
\* reports are listed and even if the finish does not name the node
\* (update_install_status, update_status_values).
InstallationEnds == AllReported ~> (~enabled \/ ~AllReported)
=============================================================================
