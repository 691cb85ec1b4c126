------------------------------ MODULE InstallOs ------------------------------
(***************************************************************************)
(* install_client_os: netboot all systems in Cobbler, power all nodes off, *)
(* boot source network, power on, then poll "cobbler status" and set the   *)
(* boot source of each node back to default once the node is seen          *)
(* installing.  The calls are those of BmcClients; none of their results   *)
(* is looked at.                                                           *)
(*                                                                         *)
(* Nodes that boot and the rows of "cobbler status" are the environment.   *)
(***************************************************************************)
EXTENDS BmcClients

CONSTANT MaxPolls     \* cnt

ASSUME InstallOsAssumption == MaxPolls \in Nat \ {0}

VARIABLES
  pc,          \* where install_client_os is
  netboot,     \* systems whose netboot_enabled is set in Cobbler
  fresh,       \* nodes that have been off and not booted since
  installing,  \* addresses "cobbler status" shows as installing
  handled,     \* handled_list
  polls,       \* cnt
  allOk        \* every call so far has verified all its clients

mine == <<pc, netboot, handled, polls, allOk>>
vars == <<bmcVars, mine, fresh, installing>>

Init ==
  /\ BmcInit
  /\ pc = "start"
  /\ netboot = {}
  /\ fresh = {n \in Nodes : dev.power[n] = "off"}
  /\ installing = {}
  /\ handled = {}
  /\ polls = MaxPolls
  /\ allOk = TRUE

(* The four calls, one after the other.  Each begins when the one before   *)
(* has returned, with whatever result.                                     *)
PowerOff ==
  /\ pc = "start"
  /\ netboot' = Nodes
  /\ Begin("power", "off", {})
  /\ pc' = "off"
  /\ UNCHANGED <<fresh, installing, handled, polls, allOk>>

BootNetwork ==
  /\ pc = "off" /\ Begin("boot", "network", {})
  /\ pc' = "boot"
  /\ allOk' = (allOk /\ Succeeded)
  /\ UNCHANGED <<netboot, fresh, installing, handled, polls>>

PowerOn ==
  /\ pc = "boot" /\ Begin("power", "on", {})
  /\ pc' = "on"
  /\ allOk' = (allOk /\ Succeeded)
  /\ UNCHANGED <<netboot, fresh, installing, handled, polls>>

StartPolling ==
  /\ pc = "on" /\ phase = "idle"
  /\ pc' = "poll"
  /\ allOk' = (allOk /\ Succeeded)
  /\ UNCHANGED <<bmcVars, netboot, fresh, installing, handled, polls>>

(* _get_lists: the addresses that are installing and were not before.      *)
NewList == installing \ handled

PollAlways ==      \* a bug: the call is made for an empty list too, hence for all
  /\ pc = "poll"
  /\ handled' = handled \cup NewList
  /\ Begin("boot", "default", NewList)
  /\ pc' = "count"
  /\ UNCHANGED <<netboot, fresh, installing, polls, allOk>>

(* One poll: nodes that began to install get their boot source set back.   *)
Poll ==
  /\ pc = "poll"
  /\ handled' = handled \cup NewList
  /\ IF NewList # {}
       THEN Begin("boot", "default", NewList)
       ELSE UNCHANGED bmcVars
  /\ pc' = "count"
  /\ UNCHANGED <<netboot, fresh, installing, polls, allOk>>

CompleteButOne ==      \* a bug: one node is not counted
  Cardinality(handled) >= Cardinality(Nodes) - 1

(* The lengths of the two lists are compared.                              *)
Complete == Cardinality(handled) = Cardinality(Nodes)

CountNot ==      \* a bug: polls are not counted
  /\ pc = "count" /\ phase = "idle"
  /\ pc' = IF Complete \/ polls = 0 THEN "done" ELSE "poll"
  /\ UNCHANGED <<bmcVars, netboot, fresh, installing, handled, polls, allOk>>

(* The end of a poll: leave the loop when complete or out of polls.        *)
Count ==
  /\ pc = "count" /\ phase = "idle"
  /\ polls' = IF Complete THEN polls ELSE polls - 1
  /\ pc' = IF Complete \/ polls' = 0 THEN "done" ELSE "poll"
  /\ UNCHANGED <<bmcVars, netboot, fresh, installing, handled, allOk>>

(* An exception of a call ends the script.                                 *)
Die ==
  /\ phase = "raised" /\ pc # "died"
  /\ pc' = "died"
  /\ UNCHANGED <<bmcVars, netboot, fresh, installing, handled, polls, allOk>>

InCall ==
  /\ CallStep
  /\ fresh' = fresh \cup {n \in Nodes : dev'.power[n] = "off"}
  /\ UNCHANGED <<mine, installing>>

-----------------------------------------------------------------------------
(* A node that was off boots when it is on: from the network if the boot   *)
(* source says so and Cobbler serves it, which Cobbler does once; the boot *)
(* source holds for one boot.                                              *)
Boot(n) ==
  /\ n \in fresh /\ dev.power[n] = "on"
  /\ fresh' = fresh \ {n}
  /\ IF dev.boot[n] = "network" /\ n \in netboot
       THEN /\ installing' = installing \cup {n}
            /\ netboot' = netboot \ {n}
       ELSE UNCHANGED <<installing, netboot>>
  /\ dev' = [dev EXCEPT !.boot = [dev.boot EXCEPT ![n] = "default"]]
  /\ UNCHANGED <<phase, call, loop, todo, seen, late, reach, pc, handled, polls, allOk>>

(* A machine that is in Cobbler and not in the inventory installs.         *)
StrangerInstalls(x) ==
  /\ x \notin installing
  /\ installing' = installing \cup {x}
  /\ UNCHANGED <<bmcVars, mine, fresh>>

Environment ==
  \/ \E n \in Nodes : Boot(n)
  \/ \E n \in Nodes : /\ TakesEffect(n)
                      /\ fresh' = fresh \cup {m \in Nodes : dev'.power[m] = "off"}
                      /\ UNCHANGED <<mine, installing>>
  \/ \E n \in Nodes : Flap(n) /\ UNCHANGED <<mine, fresh, installing>>
  \/ \E x \in Strangers : StrangerInstalls(x)

Script ==
  PowerOff \/ BootNetwork \/ PowerOn \/ StartPolling \/ Poll \/ Count \/ Die \/ InCall

Next == Script \/ Environment

Spec == Init /\ [][Next]_vars

(* The script keeps running, and a node that is on boots.                  *)
FairSpec == Spec /\ WF_vars(Script) /\ \A n \in Nodes : WF_vars(Boot(n))

-----------------------------------------------------------------------------
(* The value every variable may take.                                      *)
TypeOK ==
  /\ BmcTypeOK
  /\ pc \in {"start", "off", "boot", "on", "poll", "count", "done", "died"}
  /\ netboot \subseteq Nodes /\ fresh \subseteq Nodes
  /\ installing \subseteq Nodes \cup Strangers
  /\ handled \subseteq installing
  /\ polls \in 0 .. MaxPolls
  /\ allOk \in BOOLEAN

(* While it polls, the script sets the boot source back only of nodes that *)
(* have begun to install, a node still to boot keeps network, if at least  *)
(* one of the addresses found installing is in the inventory: unknown      *)
(* addresses beside it do no harm.  (A list with none means all nodes.)    *)
KnownResetsOnly ==
  [][pc = "count" /\ Known(asked) # {} =>
        \A n \in Nodes : Command(n) => n \in installing]_vars

(* The script stops polling early, without the message that not all nodes  *)
(* have started, only if all nodes have, unless it counted an address that *)
(* is no node's.                                                           *)
CompleteMeansAll ==
  pc = "done" /\ Complete /\ handled \subseteq Nodes => Nodes \subseteq installing

(* If the three calls before the polling verified every node, every node   *)
(* gets installed: no later step takes the network boot away from it,      *)
(* unless an address that is no node's turns up.                           *)
VerifiedInstalls ==
  [](pc = "poll" /\ allOk => <>(Nodes \subseteq installing \/ ~(handled \subseteq Nodes)))

(* The script ends although nodes may never install and BMCs never answer. *)
ScriptEnds == <>(pc \in {"done", "died"})
=============================================================================
