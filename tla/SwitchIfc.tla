------------------------------ MODULE SwitchIfc ------------------------------
(***************************************************************************)
(* configure_interface and remove_interface of a Lenovo switch, run by     *)
(* several processes (lib/lenovo.py).  Each is a sequence of commands:     *)
(* show the interfaces, make the vlan, check it, create or remove the      *)
(* interface, show the interfaces again.  The lock of SwitchCmd covers a   *)
(* command, not the sequence.                                              *)
(*                                                                         *)
(* A job is what a process does to the switch, call after call, as         *)
(* configure_mgmt_switches and switch_cfg do; a SwitchException is printed *)
(* and the next call made, any other exception ends the process.           *)
(***************************************************************************)
EXTENDS SwitchCmd, Sequences, FiniteSetsExt

CONSTANTS
  Hosts,    \* addresses of interfaces
  Job,      \* the calls of each process
  MaxIfc,   \* MAX_INTF, the highest interface number
  Preset    \* the interfaces at the start, by number

Slots == 1 .. MaxIfc
Interfaces == [host : Hosts, vlan : Nat]
Calls == [op : {"configure", "remove"}, host : Hosts, vlan : Nat]
None == [host |-> "none", vlan |-> 0]
DefaultVlan == 1

ASSUME SwitchIfcAssumption ==
  /\ MaxIfc \in Nat \ {0}
  /\ None.host \notin Hosts
  /\ DOMAIN Preset \subseteq Slots
  /\ \A s \in DOMAIN Preset : Preset[s] \in Interfaces
  /\ \A p \in Procs : Job[p] \in Seq(Calls) /\ Len(Job[p]) > 0

VARIABLES
  tbl,      \* the interface of each number, None if not configured
  vlans,    \* vlans that exist
  at,       \* next command of the call a process is in
  pos,      \* which call of its job that is
  found,    \* what its first look at the interfaces gave
  results   \* how its calls ended

vars == <<cmdVars, tbl, vlans, at, pos, found, results>>

-----------------------------------------------------------------------------
(* show_interfaces: the rows come in order of their number; a row whose    *)
(* number is not its rank shows a gap below, and the rank fills it.        *)
Configured(t) == {s \in Slots : t[s] # None}
Rank(t, s) == Cardinality({r \in Configured(t) : r <= s})
Shifted(t) == {s \in Configured(t) : Rank(t, s) # s}
MatchesVlan(t, ifc) == {s \in Slots : t[s].vlan = ifc.vlan}   \* a bug: host ignored
Matches(t, ifc) == {s \in Slots : t[s] = ifc}

LookCount(t, ifc) ==      \* a bug: the number after as many as there are
  [conf  |-> Matches(t, ifc) # {},
   avail |-> (Cardinality(Configured(t)) % MaxIfc) + 1,
   ifc   |-> IF Matches(t, ifc) = {} THEN 0 ELSE Max(Matches(t, ifc))]

(* What the loop over the rows finds out: whether the interface is there,  *)
(* the number to create it on, the number it has.                          *)
Look(t, ifc) ==
  [conf  |-> Matches(t, ifc) # {},
   avail |-> IF Shifted(t) = {} THEN 0 ELSE Rank(t, Min(Shifted(t))),
   ifc   |-> IF Matches(t, ifc) = {} THEN 0 ELSE Max(Matches(t, ifc))]

Call(p) == Job[p][pos[p]]
Wanted(p) == [host |-> Call(p).host, vlan |-> Call(p).vlan]

Init ==
  /\ \E exists \in BOOLEAN : CmdInit(exists)
  /\ tbl = [s \in Slots |-> IF s \in DOMAIN Preset THEN Preset[s] ELSE None]
  /\ vlans = {DefaultVlan}
  /\ at = [p \in Procs |-> "show"]
  /\ pos = [p \in Procs |-> 1]
  /\ found = [p \in Procs |-> [conf |-> FALSE, avail |-> 0, ifc |-> 0]]
  /\ results = [p \in Procs |-> <<>>]

InSession(p, command) == st[p] = "session" /\ at[p] = command

(* The call is over; the next one of the job begins.                       *)
Finish(p, result) ==
  /\ results' = [results EXCEPT ![p] = Append(results[p], result)]
  /\ pos' = [pos EXCEPT ![p] = pos[p] + 1]
  /\ at' = [at EXCEPT ![p] = IF pos[p] = Len(Job[p]) THEN "end" ELSE "show"]

Continue(p, command) ==
  /\ at' = [at EXCEPT ![p] = command]
  /\ UNCHANGED <<pos, results>>

Show(p) ==
  /\ InSession(p, "show")
  /\ found' = [found EXCEPT ![p] = Look(tbl, Wanted(p))]
  /\ IF Call(p).op = "configure"
       THEN IF found'[p].conf THEN Finish(p, "ok") ELSE Continue(p, "mkvlan")
       ELSE IF found'[p].conf THEN Continue(p, "remove") ELSE Finish(p, "ok")
  /\ Release(p)
  /\ UNCHANGED <<tbl, vlans>>

(* The switch may refuse to make the vlan, which the next command tells.   *)
MakeVlan(p) ==
  /\ InSession(p, "mkvlan")
  /\ vlans' \in {vlans, vlans \cup {Call(p).vlan}}
  /\ Continue(p, "ckvlan")
  /\ Release(p)
  /\ UNCHANGED <<tbl, found>>

CheckVlan(p) ==
  /\ InSession(p, "ckvlan")
  /\ IF Call(p).vlan \in vlans THEN Continue(p, "create") ELSE Finish(p, "raised")
  /\ Release(p)
  /\ UNCHANGED <<tbl, vlans, found>>

(* The switch carries a session out one line after the other: first the    *)
(* address, for which a new interface gets the default vlan, ...           *)
SetAddress(p) ==
  /\ InSession(p, "create")
  /\ LET s == found[p].avail
     IN tbl' = IF s \notin Slots THEN tbl
               ELSE [tbl EXCEPT ![s] =
                       [host |-> Call(p).host,
                        vlan |-> IF tbl[s] = None THEN DefaultVlan ELSE tbl[s].vlan]]
  /\ Continue(p, "setvlan")
  /\ UNCHANGED <<cmdVars, vlans, found>>

(* ... then the vlan.  There is no interface 0: the switch refuses it.     *)
SetVlan(p) ==
  /\ InSession(p, "setvlan")
  /\ LET s == found[p].avail
     IN tbl' = IF s \notin Slots THEN tbl
               ELSE [tbl EXCEPT ![s] = [tbl[s] EXCEPT !.vlan = Call(p).vlan]]
  /\ Continue(p, "verify")
  /\ Release(p)
  /\ UNCHANGED <<vlans, found>>

Remove(p) ==
  /\ InSession(p, "remove")
  /\ tbl' = [tbl EXCEPT ![found[p].ifc] = None]
  /\ Continue(p, "verify")
  /\ Release(p)
  /\ UNCHANGED <<vlans, found>>

VerifyUntil(p) ==      \* a bug: the check is repeated until it succeeds
  /\ InSession(p, "verify")
  /\ LET there == Matches(tbl, Wanted(p)) # {}
     IN IF there = (Call(p).op = "configure") THEN Finish(p, "ok")
        ELSE Continue(p, "verify")
  /\ Release(p)
  /\ UNCHANGED <<tbl, vlans, found>>

(* The interfaces are shown again, and the call fails if it has no effect. *)
Verify(p) ==
  /\ InSession(p, "verify")
  /\ LET there == Matches(tbl, Wanted(p)) # {}
     IN Finish(p, IF there = (Call(p).op = "configure") THEN "ok" ELSE "raised")
  /\ Release(p)
  /\ UNCHANGED <<tbl, vlans, found>>

(* send_cmd raises SwitchException when it never got the lock.             *)
NoLock(p) ==
  /\ st[p] = "nolock"
  /\ st' = [st EXCEPT ![p] = "idle"]
  /\ Finish(p, "raised")
  /\ UNCHANGED <<cnt, lockfile, holder, tbl, vlans, found>>

(* Up to the session of the next command.                                  *)
Lock(p) ==
  /\ at[p] # "end" /\ LockStep(p)
  /\ UNCHANGED <<tbl, vlans, at, pos, found, results>>

(* A session that has begun to change an interface goes through.           *)
Disconnected(p) ==
  /\ at[p] # "setvlan"
  /\ NoConnection(p)
  /\ UNCHANGED <<tbl, vlans, at, pos, found, results>>

Proceed(p) ==
  \/ Lock(p) \/ NoLock(p)
  \/ Show(p) \/ MakeVlan(p) \/ CheckVlan(p)
  \/ SetAddress(p) \/ SetVlan(p) \/ Remove(p) \/ Verify(p)

Next == \E p \in Procs : Proceed(p) \/ Disconnected(p)

Spec == Init /\ [][Next]_vars

(* Every process keeps running.                                            *)
FairSpec == Spec /\ \A p \in Procs : WF_vars(Proceed(p))

-----------------------------------------------------------------------------
Commands == {"show", "mkvlan", "ckvlan", "create", "setvlan", "remove", "verify", "end"}

(* The value every variable may take.                                      *)
TypeOK ==
  /\ CmdTypeOK
  /\ tbl \in [Slots -> Interfaces \cup {None}]
  /\ vlans \subseteq Nat
  /\ at \in [Procs -> Commands]
  /\ \A p \in Procs : pos[p] \in 1 .. Len(Job[p]) + 1
  /\ found \in [Procs -> [conf : BOOLEAN, avail : 0 .. MaxIfc, ifc : 0 .. MaxIfc]]
  /\ \A p \in Procs : Len(results[p]) = pos[p] - 1

(* Interfaces anyone asked for.                                            *)
Asked(ifc) ==
  \/ \E s \in DOMAIN Preset : ifc = Preset[s]
  \/ \E p \in Procs : \E i \in 1 .. Len(Job[p]) :
        ifc = [host |-> Job[p][i].host, vlan |-> Job[p][i].vlan]

(* Between sessions every interface of the switch is one that was asked    *)
(* for: the lines of two processes never mix into one interface.           *)
NoMixture ==
  (\A p \in Procs : at[p] # "setvlan") =>
    \A s \in Configured(tbl) : Asked(tbl[s])

(* The table as it is once the session that is writing is over, and the    *)
(* abstract specification read of that: the number being written already   *)
(* holds what its writer asked for.                                        *)
Writers(s) == {p \in Procs : at[p] = "setvlan" /\ found[p].avail = s}
Committed == [s \in Slots |-> IF Writers(s) = {} THEN tbl[s]
                              ELSE Wanted(CHOOSE p \in Writers(s) : TRUE)]
Whole == INSTANCE SwitchTable
         WITH Slot <- Slots, Unused <- None, table <- Committed,
              Wish <- UNION {{[host |-> Job[p][i].host, vlan |-> Job[p][i].vlan] :
                                i \in 1 .. Len(Job[p])} : p \in Procs},
              First <- [s \in Slots |-> IF s \in DOMAIN Preset THEN Preset[s] ELSE None]

(* The calls of all processes, line by line, change the interfaces as if   *)
(* each command were one step: no two processes write into each other's    *)
(* interface, in or across sessions, and no line is lost.                  *)
CommandsWhole == Whole!TableSpec

(* An interface another process was told to configure.                     *)
AnothersOf(p, ifc) ==
  \E q \in Procs \ {p} : \E i \in 1 .. Len(Job[q]) :
    Job[q][i].op = "configure" /\ ifc = [host |-> Job[q][i].host, vlan |-> Job[q][i].vlan]

(* An interface is created on a number that is not in use ("the next       *)
(* available unconfigured interface"), although the number was read in an  *)
(* earlier session; the only interface it can replace is one that another  *)
(* process configures at the same time.                                    *)
CreatesOnUnused ==
  [][\A p \in Procs : SetAddress(p) /\ found[p].avail \in Slots =>
        tbl[found[p].avail] = None \/ AnothersOf(p, tbl[found[p].avail])]_vars

(* What is removed by a number read in an earlier session is the interface *)
(* the caller named, or it is gone by then; the only other interface that  *)
(* can be lost is one that another process has configured in its place.    *)
RemovesNamed ==
  [][\A p \in Procs : Remove(p) =>
        tbl[found[p].ifc] \in {Wanted(p), None} \/ AnothersOf(p, tbl[found[p].ifc])]_vars

(* Every process gets through its job or is ended by an exception.         *)
JobsEnd == <>(\A p \in Procs : at[p] = "end" \/ st[p] \in {"noconn", "crashed"})
=============================================================================
