------------------------------ MODULE IpReserve ------------------------------
(***************************************************************************)
(* inv_set_ipmi_pxe_ip (inv_reserve_ipmi_pxe_ips.py): every node gets a    *)
(* permanent BMC address and a permanent PXE address.  The reservations go *)
(* to the dnsmasq template and to the inventory, the BMCs whose address    *)
(* changes are cold reset, and the installer polls the new addresses until *)
(* every BMC answered or the wait is over.                                 *)
(*                                                                         *)
(* The new addresses start at the offset at which the dynamic pool started *)
(* when the BMCs got their present ones, so the new address of one node is *)
(* as a rule the present address of another node's BMC.                    *)
(*                                                                         *)
(* Addresses are offsets in their network.  BMCs and the DHCP server are   *)
(* the environment: BeginReset and Dhcp.                                   *)
(***************************************************************************)
EXTENDS Integers, FiniteSets

CONSTANTS
  N,        \* number of nodes in the inventory, in inventory order
  Start,    \* first offset handed out (DHCP_POOL_START)
  Size,     \* number of addresses of each network
  Shared,   \* TRUE if only one client network is defined
  Cred,     \* credentials of the BMC of each node
  Flaky,    \* BMCs that may fail, ignore or delay what they are asked
  Early,    \* BMCs that may ask for a lease while reservations are written
  MaxRuns   \* bound on the number of times the operator starts the command

Nodes == 1 .. N
Kinds == {"ipmi", "pxe"}
Unset == 0        \* no reservation (offset 0 is the network address)

ASSUME IpReserveAssumption ==
  /\ N \in Nat \ {0}
  /\ Start \in Nat \ {0}
  /\ Size \in [Kinds -> Nat]
  /\ \A k \in Kinds : Start <= Size[k]
  /\ Shared \in BOOLEAN
  /\ Flaky \subseteq Nodes
  /\ Early \subseteq Nodes
  /\ MaxRuns \in Nat

VARIABLES
  pc,        \* where the command is
  cur,       \* index of the reservation loop
  next,      \* next_offset of the IPManager of each network
  tmpl,      \* the dnsmasq template: reserved BMC addresses, pool starts
  dhcp,      \* what dnsmasq has loaded of it (cobbler sync)
  ipmi,      \* BMC address of each node in the inventory file
  pxe,       \* PXE address of each node in the inventory file
  pend,      \* nodes_list
  todo,      \* nodes the current pass over nodes_list has not visited
  hits,      \* success_list
  last,      \* node the loop variables hostname, ipmi_mac, ... belong to
  reported,  \* nodes named by the final error messages
  up,        \* whether a BMC answers on the network
  lease,     \* address leased to a BMC
  ordered,   \* BMCs told to reset that have not gone down yet
  runs       \* number of runs started

files   == <<next, tmpl, dhcp>>
inv     == <<ipmi, pxe>>
loopVar == <<cur, pend, todo, hits, last>>
bmcs    == <<up, lease, ordered>>
vars    == <<pc, next, tmpl, dhcp, ipmi, pxe, cur, pend, todo, hits, last,
             reported, up, lease, ordered, runs>>

-----------------------------------------------------------------------------
(* With one client network both kinds of address come from one IPManager   *)
(* and one dhcp-range line.                                                *)
NetOwn(k) == k      \* a bug: each kind counts for itself
Net(k) == IF Shared THEN "ipmi" ELSE k

(* Loops over nodes_list visit the nodes in inventory order.               *)
First(n) == n \in todo /\ \A m \in todo : n <= m

NoReservations ==
  [host |-> [n \in Nodes |-> Unset], pool |-> [k \in Kinds |-> Start]]

Init ==
  /\ pc = "reserve"
  /\ cur = 1
  /\ next = [k \in Kinds |-> Start]
  /\ tmpl = NoReservations
  /\ dhcp = NoReservations
  /\ lease \in [Nodes -> Start .. Size["ipmi"] - 1]
  /\ \A m, n \in Nodes : m # n => lease[m] # lease[n]
  /\ ipmi = lease /\ pxe = [n \in Nodes |-> Unset]
  /\ pend = {} /\ todo = {} /\ hits = {} /\ last = 1 /\ reported = {}
  /\ up = [n \in Nodes |-> TRUE]
  /\ ordered = {}
  /\ runs = 1

-----------------------------------------------------------------------------
(* get_next_ip raises when the network has no address left, and moves on   *)
(* to the next address when the one it returns is to be reserved.          *)
Exhausted(net, offset) == offset = Size[net]

Taken(net) == [next EXCEPT ![net] = next[net] + 1]

(* _adjust_dhcp_pool: the start in the dhcp-range line of the network.     *)
AdjustedShort(net, start) ==      \* a bug: the pool starts one too early
  [tmpl.pool EXCEPT ![net] = start - 1]
Adjusted(net, start) == [tmpl.pool EXCEPT ![net] = start]

(* The BMC reservation of one node: the line in the template, then the     *)
(* start of the pool.  Running out between the two leaves the line.        *)
ReserveIpmi ==
  LET net == Net("ipmi")
      new == next[net]
      out == Exhausted(net, new)
      outAfter == Exhausted(net, new + 1)
  IN /\ pc = "reserve"
     /\ IF out
          THEN UNCHANGED <<next, tmpl>>
          ELSE /\ next' = Taken(net)
               /\ tmpl' = [host |-> [tmpl.host EXCEPT ![cur] = new],
                           pool |-> IF outAfter THEN tmpl.pool
                                    ELSE Adjusted(net, new + 1)]
     /\ pc' = IF out \/ outAfter THEN "failed" ELSE "pxe"
     /\ last' = cur
     /\ UNCHANGED <<dhcp, inv, cur, pend, todo, hits, reported, bmcs, runs>>

(* The PXE reservation of the same node: the inventory, the pool, then the *)
(* cobbler sync that makes dnsmasq load the template.  The node is put on  *)
(* nodes_list if its BMC address changes.                                  *)
ReservePxe ==
  LET net == Net("pxe")
      new == next[net]
      out == Exhausted(net, new)
      outAfter == Exhausted(net, new + 1)
      moves == tmpl.host[cur] # ipmi[cur]
      pendNow == IF moves THEN pend \cup {cur} ELSE pend
  IN /\ pc = "pxe"
     /\ IF out
          THEN UNCHANGED <<next, pxe>>
          ELSE /\ next' = Taken(net)
               /\ pxe' = [pxe EXCEPT ![cur] = new]
     /\ IF out \/ outAfter
          THEN /\ pc' = "failed"
               /\ UNCHANGED <<tmpl, dhcp, pend, todo, cur>>
          ELSE /\ tmpl' = [tmpl EXCEPT !.pool = Adjusted(net, new + 1)]
               /\ dhcp' = tmpl'
               /\ pend' = pendNow
               /\ cur' = cur + 1
               /\ pc' = IF cur = N THEN "reset" ELSE "reserve"
               /\ todo' = IF cur = N THEN pendNow ELSE {}
     /\ UNCHANGED <<ipmi, hits, last, reported, bmcs, runs>>

-----------------------------------------------------------------------------
(* Bmc(address, credentials): the BMCs that accept the login.              *)
Answers(address, n) ==
  {m \in Nodes : up[m] /\ lease[m] = address /\ Cred[m] = Cred[n]}

(* One cold reset, sent to the address the inventory has.  An address that *)
(* does not answer is skipped, a failed reset is only logged.              *)
ColdReset(n) ==
  /\ pc = "reset" /\ First(n)
  /\ todo' = todo \ {n}
  /\ last' = n
  /\ \/ \E m \in Answers(ipmi[n], n) : ordered' = ordered \cup {m}
     \/ /\ Answers(ipmi[n], n) \subseteq Flaky
        /\ UNCHANGED ordered
  /\ UNCHANGED <<pc, files, inv, cur, pend, hits, reported, up, lease, runs>>

EndResets ==
  /\ pc = "reset" /\ todo = {}
  /\ pc' = "pause"
  /\ UNCHANGED <<files, inv, loopVar, reported, bmcs, runs>>

EndPauseAtOnce ==      \* a bug: no pause
  /\ pc = "pause"
  /\ pc' = IF pend = {} THEN "done" ELSE "pass"
  /\ todo' = pend
  /\ hits' = {}
  /\ UNCHANGED <<files, inv, cur, pend, last, reported, bmcs, runs>>

(* The minute given to the BMCs to begin their reset.                      *)
EndPause ==
  /\ pc = "pause"
  /\ ordered \subseteq Flaky
  /\ pc' = IF pend = {} THEN "done" ELSE "pass"
  /\ todo' = pend
  /\ hits' = {}
  /\ UNCHANGED <<files, inv, cur, pend, last, reported, bmcs, runs>>

(* One connection attempt at a new address.  The node is taken off         *)
(* nodes_list only at the end of the pass.                                 *)
Probe(n) ==
  /\ pc = "pass" /\ First(n)
  /\ todo' = todo \ {n}
  /\ last' = n
  /\ \/ /\ Answers(tmpl.host[n], n) # {}
        /\ ipmi' = [ipmi EXCEPT ![n] = tmpl.host[n]]
        /\ hits' = hits \cup {n}
     \/ /\ Answers(tmpl.host[n], n) \subseteq Flaky
        /\ UNCHANGED <<ipmi, hits>>
  /\ UNCHANGED <<pc, files, pxe, cur, pend, reported, bmcs, runs>>

NextPassAny ==      \* a bug: one BMC found ends the wait for all
  /\ pc = "pass" /\ todo = {}
  /\ pend' = IF hits = {} THEN pend ELSE {}
  /\ pc' = IF pend' = {} THEN "done" ELSE "pass"
  /\ todo' = pend'
  /\ hits' = {}
  /\ UNCHANGED <<files, inv, cur, last, reported, bmcs, runs>>

NextPassAll ==      \* a bug: BMCs found stay on the list
  /\ pc = "pass" /\ todo = {}
  /\ pc' = IF pend = {} THEN "done" ELSE "pass"
  /\ todo' = pend
  /\ hits' = {}
  /\ UNCHANGED <<files, inv, cur, pend, last, reported, bmcs, runs>>

(* The end of a pass.                                                      *)
NextPass ==
  /\ pc = "pass" /\ todo = {}
  /\ pend' = pend \ hits
  /\ pc' = IF pend' = {} THEN "done" ELSE "pass"
  /\ todo' = pend'
  /\ hits' = {}
  /\ UNCHANGED <<files, inv, cur, last, reported, bmcs, runs>>

(* WAIT_TIME is over: one error message per node left, then the exception. *)
(* The messages print the loop variables of the pass, not those of node.   *)
Timeout ==
  /\ pc = "pass" /\ todo = {}
  /\ pend \ hits # {}
  /\ pend' = pend \ hits
  /\ reported' = {last}
  /\ pc' = "failed"
  /\ hits' = {}
  /\ UNCHANGED <<files, inv, cur, todo, last, bmcs, runs>>

(* The operator runs the command again: everything is read anew from the   *)
(* inventory and the template, the offsets start over.                     *)
Rerun ==
  /\ pc \in {"done", "failed"}
  /\ runs < MaxRuns
  /\ runs' = runs + 1
  /\ pc' = "reserve"
  /\ cur' = 1
  /\ next' = [k \in Kinds |-> Start]
  /\ pend' = {} /\ todo' = {} /\ hits' = {} /\ last' = 1 /\ reported' = {}
  /\ UNCHANGED <<tmpl, dhcp, inv, bmcs>>

-----------------------------------------------------------------------------
(* The environment.  A BMC told to reset goes down.                        *)
BeginReset(m) ==
  /\ m \in ordered
  /\ ordered' = ordered \ {m}
  /\ up' = [up EXCEPT ![m] = FALSE]
  /\ UNCHANGED <<pc, files, inv, loopVar, reported, lease, runs>>

Writing == pc \in {"reserve", "pxe"}

Free(a, m) == \A b \in Nodes \ {m} : lease[b] # a

InPool(a, m) ==
  /\ a \in dhcp.pool[Net("ipmi")] .. Size["ipmi"] - 1
  /\ \A b \in Nodes : dhcp.host[b] # a

(* What dnsmasq offers the BMC of node m: its reservation if no other      *)
(* client has it on lease, else the lease it has if that is still an       *)
(* address of the pool, else any free address of the pool.  A client it    *)
(* knows no reservation for keeps its lease.                               *)
Offer(m) ==
  IF dhcp.host[m] # Unset /\ Free(dhcp.host[m], m) THEN {dhcp.host[m]}
  ELSE IF InPool(lease[m], m) THEN {lease[m]}
  ELSE {a \in dhcp.pool[Net("ipmi")] .. Size["ipmi"] - 1 : InPool(a, m) /\ Free(a, m)}

(* A BMC asks for a lease: when it comes up, or to renew the one it has.   *)
Dhcp(m) ==
  /\ Writing => m \in Early
  /\ \E a \in Offer(m) : lease' = [lease EXCEPT ![m] = a]
  /\ up' = [up EXCEPT ![m] = TRUE]
  /\ UNCHANGED <<pc, files, inv, loopVar, reported, ordered, runs>>

-----------------------------------------------------------------------------
Command ==
  \/ ReserveIpmi \/ ReservePxe
  \/ \E n \in Nodes : ColdReset(n) \/ Probe(n)
  \/ EndResets \/ EndPause \/ NextPass \/ Timeout

Environment == \E m \in Nodes : BeginReset(m) \/ Dhcp(m)

Next == Command \/ Rerun \/ Environment

Spec == Init /\ [][Next]_vars

(* The command keeps running, a BMC told to reset does so and comes back,  *)
(* and a BMC renews its lease.  Nothing forces the wait to run out.        *)
Fairness ==
  /\ WF_vars(ReserveIpmi) /\ WF_vars(ReservePxe)
  /\ WF_vars(\E n \in Nodes : ColdReset(n) \/ Probe(n))
  /\ WF_vars(EndResets) /\ WF_vars(EndPause) /\ WF_vars(NextPass)
  /\ \A m \in Nodes : WF_vars(BeginReset(m)) /\ SF_vars(Dhcp(m))

FairSpec == Spec /\ Fairness

-----------------------------------------------------------------------------
Locations == {"reserve", "pxe", "reset", "pause", "pass", "done", "failed"}
Reservations == [host : [Nodes -> Nat], pool : [Kinds -> Nat]]

(* The value every variable may take; the loop index stays in the node     *)
(* list or just past its end.                                              *)
TypeOK ==
  /\ pc \in Locations
  /\ cur \in 1 .. N + 1
  /\ next \in [Kinds -> Nat]
  /\ tmpl \in Reservations
  /\ dhcp \in Reservations
  /\ ipmi \in [Nodes -> Nat] /\ pxe \in [Nodes -> Nat]
  /\ pend \subseteq Nodes /\ todo \subseteq Nodes /\ hits \subseteq Nodes
  /\ last \in Nodes
  /\ reported \subseteq Nodes
  /\ up \in [Nodes -> BOOLEAN]
  /\ lease \in [Nodes -> Nat]
  /\ ordered \subseteq Nodes
  /\ runs \in Nat

(* Nodes this run has given both their addresses, which dnsmasq has loaded *)
Served == {n \in Nodes : n < cur}

(* The addresses in use on a network as far as this run has assigned them. *)
(* No address is given twice, neither to two nodes nor as the BMC and the  *)
(* PXE address when both kinds come from the one IPManager.                *)
ReservationsDisjoint ==
  \A m, n \in Served :
    /\ m # n => /\ dhcp.host[m] # dhcp.host[n]
                /\ pxe[m] # pxe[n]
    /\ Shared => dhcp.host[m] # pxe[n]

(* What dnsmasq has loaded never offers a stranger an address this run has *)
(* assigned: the pool starts past all of them, also when the run stops     *)
(* because a network is full.                                              *)
PoolExcludesAssigned ==
  \A n \in Served : /\ dhcp.host[n] < dhcp.pool[Net("ipmi")]
                    /\ pxe[n] < dhcp.pool[Net("pxe")]

(* The address the command writes for a node is one that node's own BMC    *)
(* has at that moment, not one another BMC still answers at.               *)
RecordsOwnBmc ==
  [][\A n \in Nodes : ipmi'[n] # ipmi[n] =>
        up[n] /\ lease[n] = ipmi'[n]]_vars

(* A run that ends well has recorded for every node the address dnsmasq    *)
(* reserves for it, so that a further run moves no BMC.                    *)
DoneRecordsAll ==
  pc = "done" => \A n \in Nodes : ipmi[n] = dhcp.host[n]

(* If the wait does not run out, every BMC is eventually found at its new  *)
(* address, however the new addresses permute the present ones.            *)
EveryBmcFound == pc = "pass" ~> pc # "pass"
=============================================================================
