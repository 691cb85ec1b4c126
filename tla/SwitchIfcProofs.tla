--------------------------- MODULE SwitchIfcProofs ---------------------------
(***************************************************************************)
(* Theorems about SwitchIfc, for any set of processes and any jobs.  The   *)
(* lock gives exclusive sessions (LockInv); with them, an interface that   *)
(* is half written always has the process that finishes it (HalfInv).      *)
(* A number chosen in one session is in the next what it was, or another   *)
(* process has begun or ended a configuration there (NumberInv).           *)
(* The second part has the theorems about DataSwitch.                      *)
(***************************************************************************)
EXTENDS SwitchIfc, DataSwitch, FiniteSetTheorems, WellFoundedInduction, TLAPS

LockInv ==
  /\ st \in [Procs -> States]
  /\ \A p \in Procs : st[p] = "session" => holder = {p}

LEMMA LockInit == Init => LockInv
BY DEF Init, CmdInit, LockInv, States

(* What each step does to the lock.                                        *)
LockMove(p) == LockStep(p) \/ Release(p) \/ NoConnection(p)

LEMMA LockMoves ==
  ASSUME LockInv, NEW p \in Procs, LockMove(p)
  PROVE  LockInv'
<1> USE DEF LockInv, States
<1>1. CASE Open(p)
  BY <1>1 DEF Open
<1>2. CASE Mknod(p)
  BY <1>2 DEF Mknod
<1>3. CASE Acquire(p)
  BY <1>3 DEF Acquire
<1>4. CASE WaitOver(p)
  BY <1>4 DEF WaitOver
<1>5. CASE Release(p)
  BY <1>5 DEF Release
<1>6. CASE NoConnection(p)
  BY <1>6 DEF NoConnection
<1> QED BY <1>1, <1>2, <1>3, <1>4, <1>5, <1>6 DEF LockMove, LockStep

LEMMA LockInvStep == LockInv /\ [Next]_vars => LockInv'
<1> SUFFICES ASSUME LockInv, [Next]_vars PROVE LockInv'
  OBVIOUS
<1>1. ASSUME NEW p \in Procs, Proceed(p) \/ Disconnected(p) PROVE LockInv'
  <2>1. CASE NoLock(p)
    BY <2>1 DEF NoLock, LockInv, States
  <2>2. CASE SetAddress(p)
    BY <2>2 DEF SetAddress, cmdVars, LockInv
  <2>3. CASE LockMove(p)
    BY <2>3, LockMoves
  <2> QED
    BY <1>1, <2>1, <2>2, <2>3
    DEF Proceed, Disconnected, LockMove, Lock, Show, MakeVlan, CheckVlan, SetVlan,
        Remove, Verify
<1>2. CASE UNCHANGED vars
  BY <1>2 DEF vars, cmdVars, LockInv
<1> QED BY <1>1, <1>2 DEF Next

(* However many processes race for the lock file and the lock, at most one *)
(* has a session with the switch.                                          *)
THEOREM SessionsExclusive == Spec => []OneSession
<1>1. LockInv => OneSession
  BY DEF LockInv, OneSession
<1> QED BY <1>1, LockInit, LockInvStep, PTL DEF Spec

-----------------------------------------------------------------------------
(* A process between the two lines of a session, and the number it writes. *)
Halfway(p) == at[p] = "setvlan"
Target(p) == found[p].avail

HalfInv ==
  /\ at \in [Procs -> Commands]
  /\ pos \in [Procs -> Nat] /\ DOMAIN found = Procs
  /\ tbl \in [Slots -> Interfaces \cup {None}]
  /\ \A p \in Procs : at[p] # "end" => pos[p] \in 1 .. Len(Job[p])
  /\ \A p \in Procs : at[p] = "end" => st[p] = "idle"
  /\ \A p \in Procs : Halfway(p) =>
       /\ st[p] = "session"
       /\ Target(p) \in Slots => tbl[Target(p)].host = Call(p).host
  /\ \A s \in Configured(tbl) :
       Asked(tbl[s]) \/ \E p \in Procs : Halfway(p) /\ Target(p) = s

LEMMA HalfInit == Init => HalfInv
<1> SUFFICES ASSUME Init PROVE HalfInv
  OBVIOUS
<1> USE SwitchIfcAssumption DEF Init
<1>1. tbl \in [Slots -> Interfaces \cup {None}]
  OBVIOUS
<1>2. \A s \in Configured(tbl) : Asked(tbl[s])
  BY DEF Configured, Asked
<1>3. ASSUME NEW p \in Procs PROVE pos[p] \in 1 .. Len(Job[p]) /\ ~Halfway(p)
  <2>1. Len(Job[p]) \in Nat /\ Len(Job[p]) > 0
    OBVIOUS
  <2> QED BY <2>1 DEF Halfway
<1>4. /\ at \in [Procs -> Commands] /\ pos \in [Procs -> Nat] /\ DOMAIN found = Procs
      /\ \A p \in Procs : at[p] # "end"
  BY DEF Commands
<1> QED BY <1>1, <1>2, <1>3, <1>4 DEF HalfInv

LEMMA CallTyped ==
  ASSUME HalfInv, NEW p \in Procs, at[p] # "end"
  PROVE  /\ Call(p).host \in Hosts /\ Call(p).vlan \in Nat
         /\ Asked([host |-> Call(p).host, vlan |-> Call(p).vlan])
<1>1. pos[p] \in 1 .. Len(Job[p]) /\ Job[p] \in Seq(Calls)
  BY SwitchIfcAssumption DEF HalfInv
<1>2. Call(p) \in Calls
  BY <1>1 DEF Call
<1> QED BY <1>1, <1>2 DEF Calls, Asked, Call

(* Only the process that has the session can be halfway.                   *)
LEMMA OneHalfway ==
  ASSUME LockInv, HalfInv, NEW p \in Procs, st[p] = "session",
         NEW q \in Procs, Halfway(q)
  PROVE  q = p
BY DEF LockInv, HalfInv

(* The step of process p to another command or call.                       *)
Moved(p) ==
  /\ at' \in [Procs -> Commands] /\ pos' \in [Procs -> Nat]
  /\ \A q \in Procs : at'[q] # "end" => pos'[q] \in 1 .. Len(Job[q])
  /\ \A q \in Procs \ {p} : at'[q] = at[q] /\ pos'[q] = pos[q]

LEMMA FinishMoves ==
  ASSUME HalfInv, NEW p \in Procs, at[p] # "end", NEW r, Finish(p, r)
  PROVE  Moved(p) /\ ~Halfway(p)'
<1>1. pos[p] \in 1 .. Len(Job[p]) /\ Len(Job[p]) \in Nat
  BY SwitchIfcAssumption DEF HalfInv
<1>2. pos[p] # Len(Job[p]) => pos[p] + 1 \in 1 .. Len(Job[p])
  BY <1>1
<1>3. /\ at' = [at EXCEPT ![p] = IF pos[p] = Len(Job[p]) THEN "end" ELSE "show"]
      /\ pos' = [pos EXCEPT ![p] = pos[p] + 1]
  BY DEF Finish
<1> QED BY <1>1, <1>2, <1>3 DEF HalfInv, Moved, Halfway, Commands

LEMMA ContinueMoves ==
  ASSUME HalfInv, NEW p \in Procs, at[p] # "end",
         NEW c \in Commands \ {"end"}, Continue(p, c)
  PROVE  Moved(p) /\ at'[p] = c /\ pos'[p] = pos[p]
BY DEF HalfInv, Moved, Continue, Commands

(* A step that writes no interface.                                        *)
Quiet(p) ==
  /\ Moved(p) /\ ~Halfway(p) /\ ~Halfway(p)'
  /\ tbl' = tbl /\ DOMAIN found' = Procs
  /\ \A q \in Procs \ {p} : found'[q] = found[q] /\ st'[q] = st[q]
  /\ at'[p] = "end" => st'[p] = "idle"

LEMMA QuietKeeps ==
  ASSUME HalfInv, NEW p \in Procs, Quiet(p)
  PROVE  HalfInv'
<1>1. \A q \in Procs : Halfway(q)' <=> Halfway(q)
  BY DEF Quiet, Moved, Halfway
<1>2. \A q \in Procs : Halfway(q) =>
        Target(q)' = Target(q) /\ Call(q)' = Call(q) /\ st'[q] = st[q]
  BY DEF Quiet, Moved, Halfway, Target, Call
<1>3. \A q \in Procs : Halfway(q)' =>
        /\ st'[q] = "session"
        /\ Target(q)' \in Slots => tbl'[Target(q)'].host = Call(q)'.host
  BY <1>1, <1>2 DEF HalfInv, Quiet
<1>4. \A s \in Configured(tbl)' :
        Asked(tbl'[s]) \/ \E q \in Procs : Halfway(q)' /\ Target(q)' = s
  BY <1>1, <1>2 DEF HalfInv, Quiet, Configured
<1> QED BY <1>3, <1>4 DEF HalfInv, Quiet, Moved, Asked

(* What the steps of a process leave alone: all but those that write.      *)
LEMMA WaitingIsQuiet ==
  ASSUME LockInv, HalfInv, NEW p \in Procs, Lock(p) \/ Disconnected(p)
  PROVE  Quiet(p)
<1>1. st[p] # "session" \/ at[p] # "setvlan"
  BY DEF Lock, LockStep, Open, Mknod, Acquire, WaitOver, Disconnected
<1>2. ~Halfway(p)
  BY <1>1 DEF HalfInv, Halfway
<1>3. /\ at[p] # "end"
      /\ \A q \in Procs \ {p} : st'[q] = st[q]
  BY DEF Lock, LockStep, Open, Mknod, Acquire, WaitOver, Disconnected,
         NoConnection, LockInv, HalfInv
<1>4. UNCHANGED <<tbl, at, pos, found>>
  BY DEF Lock, Disconnected
<1> QED BY <1>2, <1>3, <1>4 DEF Quiet, Moved, Halfway, HalfInv

LEMMA CommandsMove ==
  ASSUME LockInv, HalfInv, NEW p \in Procs,
         NoLock(p) \/ Show(p) \/ MakeVlan(p) \/ CheckVlan(p) \/ Remove(p) \/ Verify(p)
  PROVE  /\ Moved(p) /\ ~Halfway(p) /\ ~Halfway(p)'
         /\ DOMAIN found' = Procs
         /\ \A q \in Procs \ {p} : found'[q] = found[q] /\ st'[q] = st[q]
         /\ st'[p] = "idle"
<1>1. ~Halfway(p) /\ at[p] # "end"
  BY DEF NoLock, Show, MakeVlan, CheckVlan, Remove, Verify, InSession, HalfInv, Halfway
<1>2. DOMAIN found' = Procs /\ \A q \in Procs \ {p} : found'[q] = found[q]
  BY DEF NoLock, Show, MakeVlan, CheckVlan, Remove, Verify, HalfInv
<1>3. st' = [st EXCEPT ![p] = "idle"]
  BY DEF NoLock, Show, MakeVlan, CheckVlan, Remove, Verify, Release
<1>4. st'[p] = "idle" /\ \A q \in Procs \ {p} : st'[q] = st[q]
  BY <1>3 DEF LockInv
<1>5. \/ \E r : Finish(p, r)
      \/ \E c \in {"mkvlan", "remove", "ckvlan", "create", "verify"} : Continue(p, c)
  BY DEF NoLock, Show, MakeVlan, CheckVlan, Remove, Verify
<1>6. Moved(p) /\ ~Halfway(p)'
  BY <1>1, <1>5, FinishMoves, ContinueMoves DEF Commands, Halfway
<1> QED BY <1>1, <1>2, <1>4, <1>6

LEMMA ReadingIsQuiet ==
  ASSUME LockInv, HalfInv, NEW p \in Procs,
         NoLock(p) \/ Show(p) \/ MakeVlan(p) \/ CheckVlan(p) \/ Verify(p)
  PROVE  Quiet(p)
<1>1. tbl' = tbl
  BY DEF NoLock, Show, MakeVlan, CheckVlan, Verify
<1> QED BY <1>1, CommandsMove DEF Quiet

LEMMA HalfStep == LockInv /\ HalfInv /\ [Next]_vars => HalfInv'
<1> SUFFICES ASSUME LockInv, HalfInv, [Next]_vars PROVE HalfInv'
  OBVIOUS
<1>1. ASSUME NEW p \in Procs, Lock(p) \/ Disconnected(p) PROVE HalfInv'
  BY <1>1, WaitingIsQuiet, QuietKeeps
<1>3. ASSUME NEW p \in Procs,
             NoLock(p) \/ Show(p) \/ MakeVlan(p) \/ CheckVlan(p) \/ Verify(p)
      PROVE  HalfInv'
  BY <1>3, ReadingIsQuiet, QuietKeeps
<1>4. ASSUME NEW p \in Procs, SetAddress(p) PROVE HalfInv'
  <2>1. /\ st[p] = "session" /\ at[p] = "create" /\ st' = st /\ found' = found
        /\ Moved(p) /\ at'[p] = "setvlan" /\ pos'[p] = pos[p]
    BY <1>4, ContinueMoves DEF SetAddress, InSession, cmdVars, Commands
  <2>2. \A q \in Procs : ~Halfway(q)
    BY <2>1, OneHalfway DEF Halfway
  <2>3. \A q \in Procs : Halfway(q)' <=> q = p
    BY <2>1, <2>2 DEF Moved, Halfway
  <2>4. Call(p)' = Call(p) /\ Target(p)' = Target(p)
    BY <2>1 DEF Call, Target
  <2> DEFINE new == [host |-> Call(p).host,
                     vlan |-> IF tbl[Target(p)] = None THEN DefaultVlan ELSE tbl[Target(p)].vlan]
  <2>5. tbl' = IF Target(p) \notin Slots THEN tbl ELSE [tbl EXCEPT ![Target(p)] = new]
    BY <1>4 DEF SetAddress, Target
  <2>6. Target(p) \in Slots => new \in Interfaces
    BY <2>1, CallTyped DEF HalfInv, Interfaces, DefaultVlan
  <2>7. new.host = Call(p).host
    OBVIOUS
  <2> HIDE DEF new
  <2>8. tbl' \in [Slots -> Interfaces \cup {None}]
    BY <2>5, <2>6 DEF HalfInv
  <2>9. Target(p) \in Slots => tbl'[Target(p)].host = Call(p).host
    BY <2>5, <2>7 DEF HalfInv
  <2>10. \A s \in Configured(tbl)' : Asked(tbl'[s]) \/ s = Target(p)
    BY <2>2, <2>5 DEF HalfInv, Configured
  <2>11. \A q \in Procs : at'[q] = "end" => st'[q] = "idle"
    BY <2>1 DEF HalfInv, Moved
  <2>12. \A q \in Procs : Halfway(q)' =>
           /\ st'[q] = "session"
           /\ Target(q)' \in Slots => tbl'[Target(q)'].host = Call(q)'.host
    BY <2>1, <2>3, <2>4, <2>9
  <2>13. \A s \in Configured(tbl)' :
           Asked(tbl'[s]) \/ \E q \in Procs : Halfway(q)' /\ Target(q)' = s
    BY <2>3, <2>4, <2>10
  <2>14. DOMAIN found' = Procs
    BY <2>1 DEF HalfInv
  <2> HIDE DEF HalfInv
  <2> QED BY <2>1, <2>8, <2>11, <2>12, <2>13, <2>14 DEF HalfInv, Moved, Asked
<1>5. ASSUME NEW p \in Procs, SetVlan(p) PROVE HalfInv'
  <2>1. /\ st[p] = "session" /\ at[p] = "setvlan" /\ found' = found
        /\ Moved(p) /\ at'[p] = "verify" /\ st' = [st EXCEPT ![p] = "idle"]
    BY <1>5, ContinueMoves DEF SetVlan, InSession, Release, Commands
  <2>2. \A q \in Procs : ~Halfway(q)'
    BY <2>1, OneHalfway DEF Moved, Halfway
  <2>3. \A q \in Procs : Halfway(q) => q = p
    BY <2>1, OneHalfway
  <2> DEFINE new == [tbl[Target(p)] EXCEPT !.vlan = Call(p).vlan]
  <2>4. tbl' = IF Target(p) \notin Slots THEN tbl ELSE [tbl EXCEPT ![Target(p)] = new]
    BY <1>5 DEF SetVlan, Target
  <2>5. ASSUME Target(p) \in Slots
        PROVE  /\ new \in Interfaces
               /\ Asked(new)
    <3>1. tbl[Target(p)].host = Call(p).host
      BY <2>1, <2>5 DEF HalfInv, Halfway
    <3>2. tbl[Target(p)] \in Interfaces \cup {None}
      BY <2>5 DEF HalfInv
    <3>3. new = [host |-> Call(p).host, vlan |-> Call(p).vlan]
      BY <3>1, <3>2 DEF Interfaces, None
    <3>4. Call(p).host \in Hosts /\ Call(p).vlan \in Nat
          /\ Asked([host |-> Call(p).host, vlan |-> Call(p).vlan])
      BY <2>1, CallTyped
    <3> QED BY <3>3, <3>4 DEF Interfaces
  <2> HIDE DEF new
  <2>6. tbl' \in [Slots -> Interfaces \cup {None}]
    BY <2>4, <2>5 DEF HalfInv
  <2>7. \A s \in Configured(tbl)' : Asked(tbl'[s])
    BY <2>3, <2>4, <2>5 DEF HalfInv, Configured
  <2>8. \A q \in Procs : at'[q] = "end" => st'[q] = "idle"
    BY <2>1 DEF HalfInv, Moved, LockInv
  <2> QED BY <2>1, <2>2, <2>6, <2>7, <2>8 DEF HalfInv, Moved, Asked
<1>6. ASSUME NEW p \in Procs, Remove(p) PROVE HalfInv'
  <2>0. /\ Moved(p) /\ ~Halfway(p) /\ ~Halfway(p)'
        /\ DOMAIN found' = Procs /\ st'[p] = "idle"
        /\ \A q \in Procs \ {p} : st'[q] = st[q]
    BY <1>6, CommandsMove
  <2>1. st[p] = "session" /\ tbl' = [tbl EXCEPT ![found[p].ifc] = None]
    BY <1>6 DEF Remove, InSession
  <2>2. \A q \in Procs : ~Halfway(q) /\ ~Halfway(q)'
    BY <2>0, <2>1, OneHalfway DEF Moved, Halfway
  <2>3. tbl' \in [Slots -> Interfaces \cup {None}]
    BY <2>1 DEF HalfInv
  <2>4. \A s \in Configured(tbl)' : Asked(tbl'[s])
    BY <2>1, <2>2 DEF HalfInv, Configured
  <2>5. \A q \in Procs : at'[q] = "end" => st'[q] = "idle"
    BY <2>0 DEF HalfInv, Moved
  <2> QED BY <2>0, <2>2, <2>3, <2>4, <2>5 DEF HalfInv, Moved, Asked
<1>7. CASE UNCHANGED vars
  BY <1>7 DEF vars, cmdVars, HalfInv, Halfway, Target, Call, Configured, Asked
<1> QED BY <1>1, <1>3, <1>4, <1>5, <1>6, <1>7 DEF Next, Proceed

(* The lines of two processes never mix into one interface, for any        *)
(* processes, jobs and interfaces: the lock around a command suffices for  *)
(* that, although it does not cover the call.                              *)
THEOREM InterfacesWhole == Spec => []NoMixture
<1>1. HalfInv => NoMixture
  BY DEF HalfInv, NoMixture, Halfway
<1> QED BY <1>1, LockInit, LockInvStep, HalfInit, HalfStep, PTL DEF Spec
-----------------------------------------------------------------------------
(* The refinement: of the steps of the processes only the first line of an *)
(* interface and the removal are steps of the abstract table.              *)
LEMMA CommittedInit == Init => Whole!TableInit
<1> SUFFICES ASSUME Init PROVE Committed = tbl
  BY DEF Whole!TableInit, Init
<1>1. \A s \in Slots : Writers(s) = {}
  BY DEF Init, Writers
<1>2. tbl = [s \in Slots |-> tbl[s]]
  BY DEF Init
<1> QED BY <1>1, <1>2 DEF Committed

LEMMA NobodyWrites ==
  ASSUME HalfInv, \A q \in Procs : ~Halfway(q)
  PROVE  Committed = tbl
<1>1. \A s \in Slots : Writers(s) = {}
  BY DEF Writers, Halfway
<1>2. tbl = [s \in Slots |-> tbl[s]]
  BY DEF HalfInv
<1> QED BY <1>1, <1>2 DEF Committed

LEMMA OneWrites ==
  ASSUME HalfInv, NEW p \in Procs, \A q \in Procs : Halfway(q) <=> q = p
  PROVE  Committed = [tbl EXCEPT ![Target(p)] = Wanted(p)]
<1>1. \A s \in Slots : Writers(s) = IF s = Target(p) THEN {p} ELSE {}
  BY DEF Writers, Halfway, Target
<1>2. \A s \in Slots : Committed[s] = IF s = Target(p) THEN Wanted(p) ELSE tbl[s]
  BY <1>1 DEF Committed
<1>3. DOMAIN Committed = Slots /\ DOMAIN tbl = Slots
  BY DEF Committed, HalfInv
<1>4. Committed = [s \in Slots |-> Committed[s]] /\ tbl = [s \in Slots |-> tbl[s]]
  BY <1>3 DEF Committed, HalfInv
<1> QED BY <1>2, <1>4

LEMMA QuietStutters ==
  ASSUME HalfInv, NEW p \in Procs, Quiet(p)
  PROVE  Committed' = Committed
<1>1. \A q \in Procs : Halfway(q)' <=> Halfway(q)
  BY DEF Quiet, Moved, Halfway
<1>2. \A q \in Procs : Halfway(q) =>
        Target(q)' = Target(q) /\ Wanted(q)' = Wanted(q)
  BY DEF Quiet, Moved, Halfway, Target, Wanted, Call
<1>3. ASSUME NEW s \in Slots
      PROVE  /\ Writers(s)' = Writers(s)
             /\ \A q \in Writers(s) : Wanted(q)' = Wanted(q)
  BY <1>1, <1>2 DEF Writers, Halfway, Target
<1>4. ASSUME NEW s \in Slots PROVE Committed'[s] = Committed[s]
  <2>1. CASE Writers(s) = {}
    BY <1>3, <2>1 DEF Committed, Quiet
  <2>2. CASE Writers(s) # {}
    <3> DEFINE w == CHOOSE q \in Writers(s) : TRUE
    <3>1. w \in Writers(s) /\ w' = w
      BY <1>3, <2>2
    <3>2. Committed[s] = Wanted(w) /\ Committed'[s] = Wanted(w)'
      BY <1>3, <2>2 DEF Committed
    <3> QED BY <1>3, <3>1, <3>2
  <2> QED BY <2>1, <2>2
<1> QED BY <1>4 DEF Committed

LEMMA CommittedStep ==
  LockInv /\ HalfInv /\ HalfInv' /\ [Next]_vars => [Whole!TableNext]_Committed
<1> SUFFICES ASSUME LockInv, HalfInv, HalfInv', [Next]_vars
             PROVE  Whole!TableNext \/ Committed' = Committed
  OBVIOUS
<1>1. ASSUME NEW p \in Procs,
             \/ Lock(p) \/ Disconnected(p)
             \/ NoLock(p) \/ Show(p) \/ MakeVlan(p) \/ CheckVlan(p) \/ Verify(p)
      PROVE  Committed' = Committed
  BY <1>1, WaitingIsQuiet, ReadingIsQuiet, QuietStutters
<1>2. ASSUME NEW p \in Procs, SetAddress(p)
      PROVE  Whole!TableNext \/ Committed' = Committed
  <2>1. /\ st[p] = "session" /\ at[p] = "create" /\ found' = found
        /\ Moved(p) /\ at'[p] = "setvlan" /\ pos'[p] = pos[p]
    BY <1>2, ContinueMoves DEF SetAddress, InSession, Commands
  <2>2. \A q \in Procs : ~Halfway(q)
    BY <2>1, OneHalfway DEF Halfway
  <2>3. \A q \in Procs : Halfway(q)' <=> q = p
    BY <2>1, <2>2 DEF Moved, Halfway
  <2>4. Committed = tbl
    BY <2>2, NobodyWrites
  <2>5. Wanted(p)' = Wanted(p) /\ Target(p)' = Target(p)
    BY <2>1 DEF Wanted, Call, Target
  <2>6. (HalfInv /\ (\A q \in Procs : Halfway(q) <=> q = p)
           => Committed = [tbl EXCEPT ![Target(p)] = Wanted(p)])'
    BY OneWrites, PTL
  <2>7. Committed' = [tbl' EXCEPT ![Target(p)] = Wanted(p)]
    BY <2>3, <2>5, <2>6
  <2>8. CASE Target(p) \notin Slots
    BY <1>2, <2>4, <2>7, <2>8 DEF SetAddress, Target, HalfInv
  <2>9. CASE Target(p) \in Slots
    <3>1. Committed' = [Committed EXCEPT ![Target(p)] = Wanted(p)]
      BY <1>2, <2>4, <2>7, <2>9 DEF SetAddress, Target, HalfInv
    <3>2. Wanted(p) \in UNION {{[host |-> Job[q][i].host, vlan |-> Job[q][i].vlan] :
                                  i \in 1 .. Len(Job[q])} : q \in Procs}
      BY <2>1 DEF HalfInv, Wanted, Call
    <3> QED BY <2>9, <3>1, <3>2 DEF Whole!TableNext, Whole!Create
  <2> QED BY <2>8, <2>9
<1>3. ASSUME NEW p \in Procs, SetVlan(p) PROVE Committed' = Committed
  <2>1. /\ st[p] = "session" /\ at[p] = "setvlan"
        /\ Moved(p) /\ at'[p] = "verify"
    BY <1>3, ContinueMoves DEF SetVlan, InSession, Commands
  <2>2. \A q \in Procs : Halfway(q) <=> q = p
    BY <2>1, OneHalfway DEF Halfway
  <2>3. \A q \in Procs : ~Halfway(q)'
    BY <2>1, <2>2 DEF Moved, Halfway
  <2>4. (HalfInv /\ (\A q \in Procs : ~Halfway(q)) => Committed = tbl)'
    BY NobodyWrites, PTL
  <2>5. Committed' = tbl'
    BY <2>3, <2>4
  <2>6. Committed = [tbl EXCEPT ![Target(p)] = Wanted(p)]
    BY <2>2, OneWrites
  <2>7. CASE Target(p) \notin Slots
    BY <1>3, <2>5, <2>6, <2>7 DEF SetVlan, Target, HalfInv
  <2>8. CASE Target(p) \in Slots
    <3>1. tbl[Target(p)].host = Call(p).host /\ tbl[Target(p)] \in Interfaces \cup {None}
      BY <2>2, <2>8 DEF HalfInv
    <3>2. [tbl[Target(p)] EXCEPT !.vlan = Call(p).vlan] = Wanted(p)
      BY <3>1 DEF Interfaces, None, Wanted
    <3>3. tbl' = [tbl EXCEPT ![Target(p)] = Wanted(p)]
      BY <1>3, <2>8, <3>2 DEF SetVlan, Target
    <3> QED BY <2>5, <2>6, <3>3
  <2> QED BY <2>7, <2>8
<1>4. ASSUME NEW p \in Procs, Remove(p)
      PROVE  Whole!TableNext \/ Committed' = Committed
  <2>1. st[p] = "session" /\ tbl' = [tbl EXCEPT ![found[p].ifc] = None]
    BY <1>4 DEF Remove, InSession
  <2>2. Moved(p) /\ ~Halfway(p) /\ ~Halfway(p)'
    BY <1>4, CommandsMove
  <2>3. \A q \in Procs : ~Halfway(q) /\ ~Halfway(q)'
    BY <2>1, <2>2, OneHalfway DEF Moved, Halfway
  <2>4. (HalfInv /\ (\A q \in Procs : ~Halfway(q)) => Committed = tbl)'
    BY NobodyWrites, PTL
  <2>5. Committed = tbl /\ Committed' = tbl'
    BY <2>3, <2>4, NobodyWrites
  <2>6. CASE found[p].ifc \in Slots
    BY <2>1, <2>5, <2>6 DEF Whole!TableNext, Whole!Delete
  <2>7. CASE found[p].ifc \notin Slots
    BY <2>1, <2>5, <2>7 DEF HalfInv
  <2> QED BY <2>6, <2>7
<1>5. CASE UNCHANGED vars
  BY <1>5 DEF vars, Committed, Writers, Wanted, Call
<1> QED BY <1>1, <1>2, <1>3, <1>4, <1>5 DEF Next, Proceed

(* The processes implement the abstract table: whatever they do, each      *)
(* command takes effect whole, and where another has not overwritten it.   *)
THEOREM CommandsImplementTable == Spec => CommandsWhole
<1>1. CommandsWhole <=> Whole!TableInit /\ [][Whole!TableNext]_Committed
  BY DEF CommandsWhole, Whole!TableSpec
<1> QED BY <1>1, CommittedInit, CommittedStep, LockInit, LockInvStep, HalfInit, HalfStep,
           PTL DEF Spec

-----------------------------------------------------------------------------
(* Numbers chosen in one session and used in another.                      *)

(* A set of numbers has a smallest one, one with a bound a greatest one.   *)
LEMMA SmallestExists ==
  ASSUME NEW S \in SUBSET Nat, S # {}
  PROVE  \E m \in S : \A n \in S : m <= n
<1>1. PICK m \in S : \A n \in S : ~(<<n, m>> \in OpToRel(<, Nat))
  BY NatLessThanWellFounded, WFMin
<1>2. \A n \in S : ~(n < m)
  BY <1>1 DEF OpToRel
<1> QED BY <1>2

(* Min and Max of the community modules are members of their set.          *)
LEMMA MinIs ==
  ASSUME NEW S \in SUBSET Nat, S # {}
  PROVE  Min(S) \in S /\ \A n \in S : Min(S) <= n
BY SmallestExists DEF Min

LEMMA MaxIs ==
  ASSUME NEW b \in Nat, NEW S \in SUBSET (0 .. b), S # {}
  PROVE  Max(S) \in S /\ \A n \in S : Max(S) >= n
<1> DEFINE D == {k \in Nat : \E n \in S : k = b - n}
<1>1. \A n \in S : b - n \in D
  OBVIOUS
<1>2. D \in SUBSET Nat /\ D # {}
  BY <1>1
<1>3. PICK d \in D : \A k \in D : d <= k
  BY <1>2, SmallestExists
<1>4. PICK m \in S : d = b - m
  OBVIOUS
<1>5. \A n \in S : m >= n
  BY <1>1, <1>3, <1>4
<1> QED BY <1>5 DEF Max

(* The rank of an interface, when it is not its number, is a number below  *)
(* it.                                                                     *)
LEMMA RankBelow ==
  ASSUME NEW t, NEW s \in Configured(t)
  PROVE  /\ Rank(t, s) \in 1 .. s
         /\ \A k \in Slots : k < s /\ t[k] = None => Rank(t, s) < s
<1> DEFINE R == {r \in Configured(t) : r <= s}
<1>1. s \in Slots /\ MaxIfc \in Nat /\ s \in Nat
  BY SwitchIfcAssumption DEF Configured, Slots
<1>2. IsFiniteSet(1 .. s) /\ Cardinality(1 .. s) = s
  BY <1>1, FS_Interval DEF Slots
<1>3. R \in SUBSET (1 .. s) /\ s \in R
  BY <1>1 DEF Configured, Slots
<1>4. IsFiniteSet(R) /\ Cardinality(R) <= s /\ (Cardinality(R) = s => R = 1 .. s)
  BY <1>2, <1>3, FS_Subset
<1>5. Cardinality(R) \in Nat /\ Cardinality(R) # 0
  BY <1>3, <1>4, FS_CardinalityType, FS_EmptySet
<1>6. ASSUME NEW k \in Slots, k < s, t[k] = None PROVE Cardinality(R) < s
  <2>1. k \in 1 .. s /\ k \notin R
    BY <1>1, <1>6 DEF Slots, Configured
  <2> QED BY <1>1, <1>4, <1>5, <2>1
<1> QED BY <1>1, <1>4, <1>5, <1>6 DEF Rank

(* The rank grows with the number.                                         *)
LEMMA RankGrows ==
  ASSUME NEW t, NEW k \in Configured(t), NEW s \in Configured(t), k < s
  PROVE  Rank(t, k) < Rank(t, s)
<1> DEFINE K == {r \in Configured(t) : r <= k}
           R == {r \in Configured(t) : r <= s}
<1>1. Configured(t) \subseteq Nat /\ s \in Nat
  BY SwitchIfcAssumption DEF Configured, Slots
<1>2. IsFiniteSet(R)
  <2>1. R \in SUBSET (1 .. s)
    BY <1>1, SwitchIfcAssumption DEF Configured, Slots
  <2>2. IsFiniteSet(1 .. s)
    BY <1>1, FS_Interval
  <2> QED BY <2>1, <2>2, FS_Subset
<1>3. K \in SUBSET R /\ s \in R /\ s \notin K
  BY <1>1
<1>4. Cardinality(K) <= Cardinality(R) /\ Cardinality(K) # Cardinality(R)
  BY <1>2, <1>3, FS_Subset
<1>5. Cardinality(K) \in Nat /\ Cardinality(R) \in Nat
  BY <1>2, <1>3, FS_Subset, FS_CardinalityType
<1> QED BY <1>4, <1>5 DEF Rank

(* The number the look gives, if it gives one, is not in use.              *)
LEMMA AvailableUnused ==
  ASSUME NEW t, NEW ifc, Look(t, ifc).avail # 0
  PROVE  Look(t, ifc).avail \in Slots /\ t[Look(t, ifc).avail] = None
<1> DEFINE m == Min(Shifted(t))
           k == Rank(t, m)
<1>1. Shifted(t) # {} /\ Look(t, ifc).avail = k
  BY DEF Look
<1>2. Shifted(t) \in SUBSET Nat /\ Shifted(t) \subseteq Configured(t)
  BY SwitchIfcAssumption DEF Shifted, Configured, Slots
<1>3. m \in Shifted(t) /\ \A n \in Shifted(t) : m <= n
  BY <1>1, <1>2, MinIs
<1>4. m \in Configured(t) /\ k # m
  BY <1>3 DEF Shifted
<1> HIDE DEF m
<1>5. k \in 1 .. m /\ m \in Slots /\ m \in Nat /\ MaxIfc \in Nat
  BY <1>4, RankBelow, SwitchIfcAssumption DEF Configured, Slots
<1>6. k \in Slots /\ k < m /\ k \in Nat
  BY <1>4, <1>5 DEF Slots
<1>7. ASSUME t[k] # None PROVE FALSE
  <2>1. k \in Configured(t)
    BY <1>6, <1>7 DEF Configured
  <2>2. Rank(t, k) = k
    BY <1>3, <1>5, <1>6, <2>1 DEF Shifted
  <2> QED BY <1>4, <1>6, <2>1, <2>2, RankGrows
<1> QED BY <1>1, <1>6, <1>7

(* The number the look gives of an interface has that interface.           *)
LEMMA NamedIsFound ==
  ASSUME NEW t, NEW ifc, Look(t, ifc).conf
  PROVE  Look(t, ifc).ifc \in Slots /\ t[Look(t, ifc).ifc] = ifc
<1>1. Matches(t, ifc) # {} /\ Look(t, ifc).ifc = Max(Matches(t, ifc))
  BY DEF Look
<1>2. Matches(t, ifc) \in SUBSET (0 .. MaxIfc) /\ MaxIfc \in Nat
  BY SwitchIfcAssumption DEF Matches, Slots
<1>3. Max(Matches(t, ifc)) \in Matches(t, ifc)
  BY <1>1, <1>2, MaxIs
<1> QED BY <1>1, <1>3 DEF Matches

-----------------------------------------------------------------------------
(* The seven things a step of a process can be, as far as the numbers are  *)
(* concerned.                                                              *)
Goes(p, from, to) ==
  at[p] \in from /\ at'[p] \in to /\ pos' = pos /\ Call(p)' = Call(p)

Rests(p) ==
  tbl' = tbl /\ at' = at /\ pos' = pos /\ found' = found /\ Call(p)' = Call(p)
Ends(p) ==
  tbl' = tbl /\ ~Halfway(p) /\ at'[p] \in {"show", "end"}
Looks(p) ==
  /\ tbl' = tbl /\ st[p] = "session" /\ found'[p] = Look(tbl, Wanted(p))
  /\ \/ Goes(p, {"show"}, {"mkvlan"}) /\ Call(p).op = "configure"
     \/ Goes(p, {"show"}, {"remove"}) /\ Call(p).op # "configure" /\ found'[p].conf
Prepares(p) ==
  tbl' = tbl /\ found' = found /\ Goes(p, {"mkvlan", "ckvlan"}, {"ckvlan", "create"})
Writes(p) ==
  /\ found' = found /\ Goes(p, {"create"}, {"setvlan"})
  /\ \A s \in Slots : s # Target(p) => tbl'[s] = tbl[s]
Completes(p) ==
  /\ found' = found /\ Goes(p, {"setvlan"}, {"verify"})
  /\ \A s \in Slots : tbl'[s] = IF s = Target(p) THEN Wanted(p) ELSE tbl[s]
Deletes(p) ==
  /\ found' = found /\ Goes(p, {"remove"}, {"verify"})
  /\ \A s \in Slots : tbl'[s] = IF s = found[p].ifc THEN None ELSE tbl[s]

Others(p) ==
  \A q \in Procs \ {p} :
    at'[q] = at[q] /\ pos'[q] = pos[q] /\ found'[q] = found[q] /\ Call(q)' = Call(q)

(* The call a process is in depends on its position only.                  *)
LEMMA SamePlace ==
  ASSUME NEW q \in Procs, pos'[q] = pos[q]
  PROVE  Call(q)' = Call(q)
BY DEF Call

(* Every step of a process is one of these, and leaves the others alone.   *)
LEMMA StepKinds ==
  ASSUME LockInv, HalfInv, NEW p \in Procs, Proceed(p) \/ Disconnected(p)
  PROVE  /\ Others(p)
         /\ \/ Rests(p) \/ Ends(p) \/ Looks(p) \/ Prepares(p)
            \/ Writes(p) \/ Completes(p) \/ Deletes(p)
<1>1. CASE Lock(p) \/ Disconnected(p)
  <2>1. UNCHANGED <<tbl, at, pos, found>>
    BY <1>1 DEF Lock, Disconnected
  <2> QED BY <2>1, SamePlace DEF Others, Rests
<1>2. CASE NoLock(p) \/ Show(p) \/ MakeVlan(p) \/ CheckVlan(p) \/ Verify(p)
  <2>1. Quiet(p) /\ at[p] # "end"
    BY <1>2, ReadingIsQuiet
    DEF NoLock, Show, MakeVlan, CheckVlan, Verify, InSession, HalfInv
  <2>2. Others(p) /\ tbl' = tbl
    BY <2>1, SamePlace DEF Quiet, Moved, Others
  <2>3. ASSUME NEW r, Finish(p, r) PROVE Ends(p)
    BY <2>1, <2>2, <2>3 DEF Ends, Finish, HalfInv, Quiet
  <2>4. ASSUME NEW c \in Commands, Continue(p, c)
        PROVE  at'[p] = c /\ pos' = pos /\ Call(p)' = Call(p)
    BY <2>4, SamePlace DEF Continue, HalfInv
  <2>5. CASE Show(p)
    <3>1. found' = [found EXCEPT ![p] = Look(tbl, Wanted(p))] /\ InSession(p, "show")
      BY <2>5 DEF Show
    <3>2. found'[p] = Look(tbl, Wanted(p))
      BY <3>1 DEF HalfInv
    <3>3. \/ \E r : Finish(p, r)
          \/ Call(p).op = "configure" /\ Continue(p, "mkvlan")
          \/ Call(p).op # "configure" /\ found'[p].conf /\ Continue(p, "remove")
      BY <2>5 DEF Show
    <3> QED BY <2>2, <2>3, <2>4, <3>1, <3>2, <3>3 DEF Looks, Goes, InSession, Commands
  <2>6. CASE MakeVlan(p) \/ CheckVlan(p)
    <3>1. found' = found
      BY <2>6 DEF MakeVlan, CheckVlan
    <3>2. \/ \E r : Finish(p, r)
          \/ at[p] = "mkvlan" /\ Continue(p, "ckvlan")
          \/ at[p] = "ckvlan" /\ Continue(p, "create")
      BY <2>6 DEF MakeVlan, CheckVlan, InSession
    <3> QED BY <2>2, <2>3, <2>4, <3>1, <3>2 DEF Prepares, Goes, Commands
  <2>7. CASE NoLock(p) \/ Verify(p)
    BY <2>2, <2>3, <2>7 DEF NoLock, Verify
  <2> QED BY <1>2, <2>5, <2>6, <2>7
<1>3. CASE SetAddress(p)
  <2>1. at[p] = "create" /\ found' = found /\ Continue(p, "setvlan")
    BY <1>3 DEF SetAddress, InSession
  <2>2. Moved(p) /\ at'[p] = "setvlan" /\ pos' = pos
    BY <2>1, ContinueMoves DEF Commands, Continue
  <2>3. \A s \in Slots : s # Target(p) => tbl'[s] = tbl[s]
    BY <1>3 DEF SetAddress, Target, HalfInv
  <2> QED BY <2>1, <2>2, <2>3, SamePlace DEF Others, Moved, Writes, Goes
<1>4. CASE SetVlan(p)
  <2>1. at[p] = "setvlan" /\ found' = found /\ Continue(p, "verify")
    BY <1>4 DEF SetVlan, InSession
  <2>2. Moved(p) /\ at'[p] = "verify" /\ pos' = pos
    BY <2>1, ContinueMoves DEF Commands, Continue
  <2> DEFINE new == [tbl[Target(p)] EXCEPT !.vlan = Call(p).vlan]
  <2>3. tbl' = IF Target(p) \notin Slots THEN tbl ELSE [tbl EXCEPT ![Target(p)] = new]
    BY <1>4 DEF SetVlan, Target
  <2>4. ASSUME Target(p) \in Slots PROVE new = Wanted(p)
    <3>1. tbl[Target(p)].host = Call(p).host /\ tbl[Target(p)] \in Interfaces \cup {None}
      BY <2>1, <2>4 DEF HalfInv, Halfway
    <3> QED BY <3>1 DEF Interfaces, None, Wanted
  <2> HIDE DEF new
  <2>5. \A s \in Slots : tbl'[s] = IF s = Target(p) THEN Wanted(p) ELSE tbl[s]
    BY <2>3, <2>4 DEF HalfInv
  <2> QED BY <2>1, <2>2, <2>5, SamePlace DEF Others, Moved, Completes, Goes
<1>5. CASE Remove(p)
  <2>1. at[p] = "remove" /\ found' = found /\ Continue(p, "verify")
    BY <1>5 DEF Remove, InSession
  <2>2. Moved(p) /\ at'[p] = "verify" /\ pos' = pos
    BY <2>1, ContinueMoves DEF Commands, Continue
  <2>3. \A s \in Slots : tbl'[s] = IF s = found[p].ifc THEN None ELSE tbl[s]
    BY <1>5 DEF Remove, HalfInv
  <2> QED BY <2>1, <2>2, <2>3, SamePlace DEF Others, Moved, Deletes, Goes
<1> QED BY <1>1, <1>2, <1>3, <1>4, <1>5 DEF Proceed

(* What a process is about to do is what its call asks.                    *)
Making == {"mkvlan", "ckvlan", "create"}

OpInv ==
  \A p \in Procs : /\ at[p] \in Making \cup {"setvlan"} => Call(p).op = "configure"
                   /\ at[p] = "remove" => Call(p).op = "remove"

(* A call under way is one of the two.                                     *)
LEMMA CallAsks ==
  ASSUME HalfInv, NEW p \in Procs, at[p] # "end"
  PROVE  Call(p).op \in {"configure", "remove"}
<1>1. pos[p] \in 1 .. Len(Job[p]) /\ Job[p] \in Seq(Calls)
  BY SwitchIfcAssumption DEF HalfInv
<1>2. Call(p) \in Calls
  BY <1>1 DEF Call
<1> QED BY <1>2 DEF Calls

(* A step keeps commands and calls together.                               *)
LEMMA OpStep ==
  ASSUME HalfInv, OpInv, NEW p \in Procs, Others(p),
         \/ Rests(p) \/ Ends(p) \/ Looks(p) \/ Prepares(p)
         \/ Writes(p) \/ Completes(p) \/ Deletes(p)
  PROVE  OpInv'
<1>1. ASSUME NEW q \in Procs \ {p}
      PROVE  /\ at'[q] \in Making \cup {"setvlan"} => Call(q)'.op = "configure"
             /\ at'[q] = "remove" => Call(q)'.op = "remove"
  BY <1>1 DEF Others, OpInv
<1>2. /\ at'[p] \in Making \cup {"setvlan"} => Call(p)'.op = "configure"
      /\ at'[p] = "remove" => Call(p)'.op = "remove"
  <2>1. CASE Looks(p)
    <3>1. Call(p).op \in {"configure", "remove"}
      BY <2>1, CallAsks DEF Looks, Goes
    <3> QED BY <2>1, <3>1 DEF Looks, Goes, Making
  <2> QED
    BY <2>1 DEF OpInv, Rests, Ends, Prepares, Writes, Completes, Deletes, Goes, Making
<1> QED BY <1>1, <1>2 DEF OpInv

(* The number a process holds between two sessions has what the look found *)
(* there, or less, or another process has configured or is configuring an  *)
(* interface there.                                                        *)
Taken(p, s) ==
  \/ AnothersOf(p, tbl[s])
  \/ \E q \in Procs \ {p} : Halfway(q) /\ Target(q) = s

NumberInv ==
  \A p \in Procs :
    /\ at[p] \in Making /\ Target(p) \in Slots =>
         tbl[Target(p)] \in {None} \/ Taken(p, Target(p))
    /\ at[p] = "remove" =>
         /\ found[p].ifc \in Slots
         /\ tbl[found[p].ifc] \in {Wanted(p), None} \/ Taken(p, found[p].ifc)

(* What a process has just written is an interface of its job.             *)
LEMMA WrittenIsAnothers ==
  ASSUME HalfInv, OpInv, NEW p \in Procs, NEW q \in Procs \ {p}, Halfway(q)
  PROVE  AnothersOf(p, Wanted(q))
<1>1. pos[q] \in 1 .. Len(Job[q]) /\ Call(q).op = "configure"
  BY DEF HalfInv, OpInv, Halfway
<1> QED BY <1>1 DEF AnothersOf, Wanted, Call

(* The step of another process leaves a number as it was, clears it, or    *)
(* begins or ends a configuration there.                                   *)
LEMMA OthersTake ==
  ASSUME HalfInv, OpInv, NEW p \in Procs, NEW q \in Procs \ {p}, Others(q),
         \/ Rests(q) \/ Ends(q) \/ Looks(q) \/ Prepares(q)
         \/ Writes(q) \/ Completes(q) \/ Deletes(q),
         NEW n \in Slots, NEW S, None \in S, tbl[n] \in S \/ Taken(p, n)
  PROVE  tbl'[n] \in S \/ Taken(p, n)'
<1>1. ASSUME NEW r \in Procs \ {p, q}, Halfway(r), Target(r) = n
      PROVE  Taken(p, n)'
  BY <1>1 DEF Others, Halfway, Target, Taken
<1>2. ASSUME AnothersOf(p, tbl[n]), tbl'[n] = tbl[n] PROVE Taken(p, n)'
  BY <1>2 DEF Taken, AnothersOf
<1>3. CASE Writes(q)
  <2>1. at'[q] = "setvlan" /\ ~Halfway(q) /\ Target(q)' = Target(q)
    BY <1>3 DEF Writes, Goes, Halfway, Target
  <2>2. CASE Target(q) = n
    BY <2>1, <2>2 DEF Taken, Halfway
  <2>3. CASE Target(q) # n
    <3>1. tbl'[n] = tbl[n]
      BY <1>3, <2>3 DEF Writes
    <3> QED BY <1>1, <1>2, <2>1, <3>1 DEF Taken
  <2> QED BY <2>2, <2>3
<1>4. CASE Completes(q)
  <2>1. CASE Target(q) = n
    <3>1. Halfway(q) /\ tbl'[n] = Wanted(q)
      BY <1>4, <2>1 DEF Completes, Goes, Halfway
    <3>2. AnothersOf(p, tbl'[n])
      BY <3>1, WrittenIsAnothers
    <3> QED BY <3>2 DEF Taken, AnothersOf
  <2>2. CASE Target(q) # n
    <3>1. tbl'[n] = tbl[n]
      BY <1>4, <2>2 DEF Completes
    <3> QED BY <1>1, <1>2, <2>2, <3>1 DEF Taken
  <2> QED BY <2>1, <2>2
<1>5. CASE Deletes(q)
  <2>1. ~Halfway(q) /\ tbl'[n] \in {None, tbl[n]}
    BY <1>5 DEF Deletes, Goes, Halfway
  <2> QED BY <1>1, <1>2, <2>1 DEF Taken
<1>6. CASE Rests(q)
  <2>1. tbl' = tbl /\ at' = at /\ found' = found
    BY <1>6 DEF Rests
  <2> QED BY <2>1 DEF Taken, AnothersOf, Halfway, Target
<1>7. CASE Ends(q) \/ Looks(q) \/ Prepares(q)
  <2>1. ~Halfway(q) /\ tbl' = tbl
    BY <1>7 DEF Ends, Looks, Prepares, Goes, Halfway
  <2> QED BY <1>1, <1>2, <2>1 DEF Taken
<1> QED BY <1>3, <1>4, <1>5, <1>6, <1>7

LEMMA NumberInit == Init => OpInv /\ NumberInv
BY DEF Init, OpInv, NumberInv, Making

(* A process's own look makes the number what it should be; until it uses  *)
(* the number, only others change it.                                      *)
LEMMA NumberMoves ==
  ASSUME HalfInv, OpInv, NumberInv, NEW q \in Procs, Others(q),
         \/ Rests(q) \/ Ends(q) \/ Looks(q) \/ Prepares(q)
         \/ Writes(q) \/ Completes(q) \/ Deletes(q)
  PROVE  NumberInv'
<1>1. ASSUME NEW p \in Procs \ {q}
      PROVE  /\ at'[p] = at[p] /\ found'[p] = found[p]
             /\ Target(p)' = Target(p) /\ Wanted(p)' = Wanted(p)
  BY <1>1 DEF Others, Target, Wanted
<1>2. ASSUME NEW p \in Procs, at'[p] \in Making, Target(p)' \in Slots
      PROVE  tbl'[Target(p)'] \in {None} \/ Taken(p, Target(p))'
  <2>1. CASE p # q
    <3>1. Target(p)' = Target(p) /\ at[p] \in Making
      BY <1>1, <1>2, <2>1
    <3>2. tbl[Target(p)] \in {None} \/ Taken(p, Target(p))
      BY <1>2, <3>1 DEF NumberInv
    <3>3. PICK n \in Slots : n = Target(p)
      BY <1>2, <3>1
    <3>4. tbl'[n] \in {None} \/ Taken(p, n)'
      BY <2>1, <3>2, <3>3, OthersTake
    <3>5. n = Target(p)'
      BY <3>1, <3>3
    <3> QED BY <3>4, <3>5 DEF Taken
  <2>2. CASE p = q /\ Looks(q)
    <3>1. Look(tbl, Wanted(q)).avail \in Slots
      BY <1>2, <2>2 DEF Looks, Target
    <3>2. Look(tbl, Wanted(q)).avail # 0
      BY <3>1 DEF Slots
    <3> QED BY <2>2, <3>2, AvailableUnused DEF Looks, Target
  <2>3. CASE p = q /\ (Rests(q) \/ Prepares(q))
    <3>1. /\ tbl' = tbl /\ found' = found /\ Target(p)' = Target(p)
          /\ at[p] \in Making
      BY <1>2, <2>3 DEF Rests, Prepares, Goes, Target, Making
    <3>2. tbl[Target(p)] \in {None} \/ Taken(p, Target(p))
      BY <1>2, <3>1 DEF NumberInv
    <3> QED BY <2>3, <3>1, <3>2 DEF Taken, AnothersOf, Others, Halfway, Target
  <2> QED
    BY <1>2, <2>1, <2>2, <2>3 DEF Ends, Writes, Completes, Deletes, Goes, Making
<1>3. ASSUME NEW p \in Procs, at'[p] = "remove"
      PROVE  /\ found'[p].ifc \in Slots
             /\ tbl'[found'[p].ifc] \in {Wanted(p)', None} \/ Taken(p, found[p].ifc)'
  <2>1. CASE p # q
    <3>1. /\ found'[p] = found[p] /\ at[p] = "remove" /\ Wanted(p)' = Wanted(p)
          /\ found[p].ifc \in Slots
          /\ tbl[found[p].ifc] \in {Wanted(p), None} \/ Taken(p, found[p].ifc)
      BY <1>1, <1>3, <2>1 DEF NumberInv
    <3>2. PICK n \in Slots : n = found[p].ifc
      BY <3>1
    <3>3. PICK S : S = {Wanted(p), None}
      OBVIOUS
    <3>4. tbl'[n] \in S \/ Taken(p, n)'
      BY <2>1, <3>1, <3>2, <3>3, OthersTake
    <3>5. n = found'[p].ifc
      BY <3>1, <3>2
    <3> QED BY <3>1, <3>3, <3>4, <3>5 DEF Taken
  <2>2. CASE p = q /\ Looks(q)
    <3>1. /\ tbl' = tbl /\ Call(q)' = Call(q)
          /\ found'[q] = Look(tbl, Wanted(q)) /\ found'[q].conf
      BY <1>3, <2>2 DEF Looks, Goes
    <3>2. Wanted(q)' = Wanted(q)
      BY <3>1 DEF Wanted
    <3> QED BY <2>2, <3>1, <3>2, NamedIsFound
  <2>3. CASE p = q /\ Rests(q)
    BY <1>3, <2>3
    DEF Rests, NumberInv, Wanted, Taken, AnothersOf, Halfway, Target
  <2> QED
    BY <1>3, <2>1, <2>2, <2>3 DEF Ends, Prepares, Writes, Completes, Deletes, Goes
<1> QED BY <1>2, <1>3 DEF NumberInv

LEMMA NumberStep ==
  LockInv /\ HalfInv /\ OpInv /\ NumberInv /\ [Next]_vars => OpInv' /\ NumberInv'
<1> SUFFICES ASSUME LockInv, HalfInv, OpInv, NumberInv, [Next]_vars
             PROVE  OpInv' /\ NumberInv'
  OBVIOUS
<1>1. CASE Next
  <2>1. PICK p \in Procs : Proceed(p) \/ Disconnected(p)
    BY <1>1 DEF Next
  <2> QED BY <2>1, StepKinds, OpStep, NumberMoves
<1>2. CASE UNCHANGED vars
  BY <1>2
  DEF vars, OpInv, NumberInv, Call, Wanted, Target, Halfway, Taken, AnothersOf
<1> QED BY <1>1, <1>2

(* However many processes create and remove interfaces, and however long   *)
(* ago a number was chosen: the interface created on it replaces none but  *)
(* one that another process was told to configure, at the same time.       *)
THEOREM CreatesWhereFree == Spec => CreatesOnUnused
<1>1. ASSUME LockInv, HalfInv, NumberInv, NEW p \in Procs, SetAddress(p),
             found[p].avail \in Slots
      PROVE  tbl[found[p].avail] = None \/ AnothersOf(p, tbl[found[p].avail])
  <2>1. st[p] = "session" /\ at[p] = "create"
    BY <1>1 DEF SetAddress, InSession
  <2>2. \A q \in Procs : ~Halfway(q)
    BY <1>1, <2>1, OneHalfway DEF Halfway
  <2> QED BY <1>1, <2>1, <2>2 DEF NumberInv, Making, Taken, Target
<1>2. LockInv /\ HalfInv /\ NumberInv =>
        \A p \in Procs : SetAddress(p) /\ found[p].avail \in Slots =>
          tbl[found[p].avail] = None \/ AnothersOf(p, tbl[found[p].avail])
  BY <1>1
<1> QED BY <1>2, LockInit, LockInvStep, HalfInit, HalfStep, NumberInit, NumberStep,
           PTL DEF Spec, CreatesOnUnused

(* However many processes remove and create interfaces: what is removed by *)
(* a number is the interface the caller named, or nothing, or one that     *)
(* another process was told to configure and has put in its place.         *)
THEOREM RemovesWhatWasNamed == Spec => RemovesNamed
<1>1. ASSUME LockInv, HalfInv, NumberInv, NEW p \in Procs, Remove(p)
      PROVE  tbl[found[p].ifc] \in {Wanted(p), None} \/ AnothersOf(p, tbl[found[p].ifc])
  <2>1. st[p] = "session" /\ at[p] = "remove"
    BY <1>1 DEF Remove, InSession
  <2>2. \A q \in Procs : ~Halfway(q)
    BY <1>1, <2>1, OneHalfway DEF Halfway
  <2> QED BY <1>1, <2>1, <2>2 DEF NumberInv, Taken
<1>2. LockInv /\ HalfInv /\ NumberInv =>
        \A p \in Procs : Remove(p) =>
          tbl[found[p].ifc] \in {Wanted(p), None} \/ AnothersOf(p, tbl[found[p].ifc])
  BY <1>1
<1> QED BY <1>2, LockInit, LockInvStep, HalfInit, HalfStep, NumberInit, NumberStep,
           PTL DEF Spec, RemovesNamed

-----------------------------------------------------------------------------
(***************************************************************************)
(* Theorems about DataSwitch, for any configurations, switches and bounds. *)
(* A plan is well formed (Planned); what a configure has been through is   *)
(* set or named, or the commands or the look that will are ahead (VlanInv, *)
(* ChanInv, PairInv); what a deconfigure has been through is gone, or the  *)
(* command that removes it is ahead (GoneInv); MLAG is whole or absent     *)
(* unless its set-up or removal is under way (MlagInv).                    *)
(***************************************************************************)

\* The words of a stage's commands.
Word(step, w) ==
  \/ step = "vlans" /\ w \in {"vlan", "trunk", "allow"}
  \/ step \in {"mtu", "unmtu"} /\ w \in {"down", "mtu", "up"}
  \/ step = "mlag" /\ w \in {"ask", "mlag", "enable"}
  \/ step = "channels" /\ w \in {"rm_mchan", "mk_mchan", "index", "mk_chan", "chtrunk", "chaccess",
                              "clear", "carry", "chanmtu", "leave", "join", "joined"}
  \/ step = "unchannel" /\ w \in {"ask", "rm_own", "rm_chan"}
  \/ step = "unmlag" /\ w \in {"ask", "unmlag", "undo"}
  \/ step = "unvlan" /\ w \in {"forbid", "access"}
  \/ step = "delete" /\ w = "novlan"

\* What each command is about.
Spelled(P) ==
  \A c \in P :
    /\ Word(stage, c.do) /\ c.sw \in Switches /\ c.n \in Nat
    /\ c.do = "allow" => c.arg = VlansOn(cfg, c.sw, c.port)
    /\ c.do \in {"leave", "join", "joined"} =>
         \E g \in ChanGroups(cfg, c.sw, FALSE) :
           /\ c.do = "joined" => c.arg = Range(g)
           /\ c.do # "joined" => c.port \in Range(g)
           /\ c.do = "join" => c.arg = {ChanNum(g)}
    /\ c.do = "leave" => c.n = 6
    /\ c.do = "joined" => c.n = 8
    /\ c.do \in {"mlag", "undo"} => \E x \in Range(MlagSteps) : c.arg = {x}

\* In what order the commands of MLAG are.
Arranged(P) ==
  \A c, d \in P :
    /\ c.do = "enable" /\ d.do \in {"ask", "mlag"} => d.n < c.n
    /\ c.sw = d.sw =>
         /\ c.do = "ask" /\ d.do \in {"mlag", "undo", "unmlag"} => c.n < d.n
         /\ c.do = "ask" /\ d.do = "ask" => c = d
         /\ c.do = "unmlag" /\ d.do = "undo" => c.n < d.n
         /\ c.do = d.do /\ c.do \in {"mlag", "undo"} /\ c.arg = d.arg => c = d

\* All of the set-up or removal is left before it begins.
Full(P) ==
  \A c \in P : \A x \in Range(MlagSteps) :
    /\ c.do = "ask" /\ stage = "mlag" =>
         \E d \in P : d.do = "mlag" /\ d.sw = c.sw /\ d.arg = {x}
    /\ (c.do = "ask" /\ stage = "unmlag") \/ c.do = "unmlag" =>
         \E d \in P : d.do = "undo" /\ d.sw = c.sw /\ d.arg = {x}

\* A port that leaves a channel is looked at after.
Leaving(P) ==
  \A c \in P : c.do = "leave" =>
    \E d \in P : d.do = "joined" /\ d.sw = c.sw /\ c.port \in d.arg

WellPlanned(P) == Spelled(P) /\ Arranged(P) /\ Full(P) /\ Leaving(P)

\* The nine steps of MLAG, each another.
LEMMA StepsAre ==
  /\ DOMAIN MlagSteps = 1..9
  /\ \A i \in 1..9 : MlagSteps[i] \in Range(MlagSteps)
  /\ \A x \in Range(MlagSteps) : \E i \in 1..9 : x = MlagSteps[i]
  /\ \A i, j \in 1..9 : MlagSteps[i] = MlagSteps[j] => i = j
  /\ "mlag" \in Range(MlagSteps)
<1>1. DOMAIN MlagSteps = 1..9
  BY DEF MlagSteps
<1>2. \A i, j \in 1..9 : MlagSteps[i] = MlagSteps[j] => i = j
  BY SMTT(60) DEF MlagSteps
<1>3. MlagSteps[2] = "mlag"
  BY DEF MlagSteps
<1>4. /\ \A i \in 1..9 : MlagSteps[i] \in Range(MlagSteps)
      /\ \A x \in Range(MlagSteps) : \E i \in 1..9 : x = MlagSteps[i]
  BY <1>1 DEF Range
<1> QED
  BY <1>1, <1>2, <1>3, <1>4

\* The plan of an MLAG pair is well formed.
LEMMA MlagPlanned ==
  ASSUME NEW a \in Switches, NEW b \in Switches, a # b, stage = "mlag"
  PROVE  WellPlanned(MlagPlan(a, b))
<1> DEFINE P == MlagPlan(a, b)
<1>1. ASSUME NEW c \in P
      PROVE  \E s \in {a, b} :
               \/ c = Cmd(IF s = a THEN 0 ELSE 20, "ask", s, 0, {})
               \/ \E i \in 1..9 : c = Cmd((IF s = a THEN 0 ELSE 20) + i, "mlag", s, 0, {MlagSteps[i]})
               \/ c = Cmd(40, "enable", s, 0, {})
  BY <1>1, StepsAre DEF MlagPlan, MlagOne
<1>2. ASSUME NEW s \in {a, b}, NEW x \in Range(MlagSteps)
      PROVE  \E d \in P : d.do = "mlag" /\ d.sw = s /\ d.arg = {x}
  <2>1. PICK i \in 1..9 : x = MlagSteps[i]
    BY StepsAre
  <2>2. Cmd((IF s = a THEN 0 ELSE 20) + i, "mlag", s, 0, {MlagSteps[i]}) \in P
    BY <2>1, StepsAre DEF MlagPlan, MlagOne
  <2> QED
    BY <2>1, <2>2 DEF Cmd
<1>3. Spelled(P)
  <2> SUFFICES ASSUME NEW c \in P
               PROVE  /\ c.do \in {"ask", "mlag", "enable"} /\ c.sw \in Switches /\ c.n \in Nat
                      /\ c.do = "mlag" => \E x \in Range(MlagSteps) : c.arg = {x}
    BY DEF Spelled, Word
  <2> QED
    BY <1>1, StepsAre DEF Cmd
<1>4. Arranged(P)
  <2> SUFFICES ASSUME NEW c \in P, NEW d \in P
               PROVE  /\ c.do = "enable" /\ d.do \in {"ask", "mlag"} => d.n < c.n
                      /\ c.sw = d.sw =>
                           /\ c.do = "ask" /\ d.do = "mlag" => c.n < d.n
                           /\ c.do = "ask" /\ d.do = "ask" => c = d
                           /\ c.do = "mlag" /\ d.do = "mlag" /\ c.arg = d.arg => c = d
                           /\ c.do \notin {"unmlag", "undo"} /\ d.do \notin {"unmlag", "undo"}
    BY DEF Arranged
  <2>1. /\ c.do \notin {"unmlag", "undo"} /\ d.do \notin {"unmlag", "undo"}
        /\ c.do = "enable" /\ d.do \in {"ask", "mlag"} => d.n < c.n
    BY <1>1 DEF Cmd
  <2>2. ASSUME c.sw = d.sw, c.do = "ask"
        PROVE  (d.do = "mlag" => c.n < d.n) /\ (d.do = "ask" => c = d)
    BY <1>1, <2>2 DEF Cmd
  <2>3. ASSUME c.sw = d.sw, c.do = "mlag", d.do = "mlag", c.arg = d.arg
        PROVE  c = d
    <3>1. PICK i \in 1..9 : c = Cmd((IF c.sw = a THEN 0 ELSE 20) + i, "mlag", c.sw, 0, {MlagSteps[i]})
      BY <1>1, <2>3 DEF Cmd
    <3>2. PICK j \in 1..9 : d = Cmd((IF c.sw = a THEN 0 ELSE 20) + j, "mlag", c.sw, 0, {MlagSteps[j]})
      BY <1>1, <2>3 DEF Cmd
    <3>3. MlagSteps[i] = MlagSteps[j]
      BY <3>1, <3>2, <2>3 DEF Cmd
    <3> QED
      BY <3>1, <3>2, <3>3, StepsAre
  <2> QED
    BY <2>1, <2>2, <2>3
<1>5. Full(P)
  <2> SUFFICES ASSUME NEW c \in P, NEW x \in Range(MlagSteps)
               PROVE  c.do # "unmlag" /\ \E d \in P : d.do = "mlag" /\ d.sw = c.sw /\ d.arg = {x}
    BY DEF Full
  <2>1. c.do # "unmlag" /\ c.sw \in {a, b}
    BY <1>1 DEF Cmd
  <2> QED
    BY <2>1, <1>2
<1>6. Leaving(P)
  BY <1>1 DEF Leaving, Cmd
<1> QED
  BY <1>3, <1>4, <1>5, <1>6 DEF WellPlanned

\* The plan that removes MLAG from a pair is well formed.
LEMMA UnmlagPlanned ==
  ASSUME NEW a \in Switches, NEW b \in Switches, a # b, stage = "unmlag"
  PROVE  WellPlanned(UnmlagPlan(a, b))
<1> DEFINE P == UnmlagPlan(a, b)
<1>1. ASSUME NEW c \in P
      PROVE  \E s \in {a, b} :
               \/ c = Cmd(IF s = a THEN 0 ELSE 20, "ask", s, 0, {})
               \/ c = Cmd((IF s = a THEN 0 ELSE 20) + 1, "unmlag", s, 0, {})
               \/ \E i \in 1..9 :
                    c = Cmd((IF s = a THEN 0 ELSE 20) + 11 - i, "undo", s, 0, {MlagSteps[i]})
  BY <1>1, StepsAre DEF UnmlagPlan, UnmlagOne
<1>2. ASSUME NEW s \in {a, b}, NEW x \in Range(MlagSteps)
      PROVE  \E d \in P : d.do = "undo" /\ d.sw = s /\ d.arg = {x}
  <2>1. PICK i \in 1..9 : x = MlagSteps[i]
    BY StepsAre
  <2>2. Cmd((IF s = a THEN 0 ELSE 20) + 11 - i, "undo", s, 0, {MlagSteps[i]}) \in P
    BY <2>1, StepsAre DEF UnmlagPlan, UnmlagOne
  <2> QED
    BY <2>1, <2>2 DEF Cmd
<1>3. Spelled(P)
  <2> SUFFICES ASSUME NEW c \in P
               PROVE  /\ c.do \in {"ask", "unmlag", "undo"} /\ c.sw \in Switches /\ c.n \in Nat
                      /\ c.do = "undo" => \E x \in Range(MlagSteps) : c.arg = {x}
    BY DEF Spelled, Word
  <2> QED
    BY <1>1, StepsAre DEF Cmd
<1>4. Arranged(P)
  <2> SUFFICES ASSUME NEW c \in P, NEW d \in P
               PROVE  /\ c.do \in {"ask", "unmlag", "undo"} /\ d.do \in {"ask", "unmlag", "undo"}
                      /\ c.sw = d.sw =>
                           /\ c.do = "ask" /\ d.do \in {"undo", "unmlag"} => c.n < d.n
                           /\ c.do = "ask" /\ d.do = "ask" => c = d
                           /\ c.do = "unmlag" /\ d.do = "undo" => c.n < d.n
                           /\ c.do = "undo" /\ d.do = "undo" /\ c.arg = d.arg => c = d
    BY DEF Arranged
  <2>1. c.do \in {"ask", "unmlag", "undo"} /\ d.do \in {"ask", "unmlag", "undo"}
    BY <1>1 DEF Cmd
  <2>2. ASSUME c.sw = d.sw, c.do = "ask"
        PROVE  (d.do \in {"undo", "unmlag"} => c.n < d.n) /\ (d.do = "ask" => c = d)
    BY <1>1, <2>2 DEF Cmd
  <2>3. ASSUME c.sw = d.sw, c.do = "unmlag", d.do = "undo"
        PROVE  c.n < d.n
    BY <1>1, <2>3 DEF Cmd
  <2>4. ASSUME c.sw = d.sw, c.do = "undo", d.do = "undo", c.arg = d.arg
        PROVE  c = d
    <3>1. PICK i \in 1..9 :
            c = Cmd((IF c.sw = a THEN 0 ELSE 20) + 11 - i, "undo", c.sw, 0, {MlagSteps[i]})
      BY <1>1, <2>4 DEF Cmd
    <3>2. PICK j \in 1..9 :
            d = Cmd((IF c.sw = a THEN 0 ELSE 20) + 11 - j, "undo", c.sw, 0, {MlagSteps[j]})
      BY <1>1, <2>4 DEF Cmd
    <3>3. MlagSteps[i] = MlagSteps[j]
      BY <3>1, <3>2, <2>4 DEF Cmd
    <3> QED
      BY <3>1, <3>2, <3>3, StepsAre
  <2> QED
    BY <2>1, <2>2, <2>3, <2>4
<1>5. Full(P)
  <2> SUFFICES ASSUME NEW c \in P, NEW x \in Range(MlagSteps)
               PROVE  \E d \in P : d.do = "undo" /\ d.sw = c.sw /\ d.arg = {x}
    BY DEF Full
  <2>1. c.sw \in {a, b}
    BY <1>1 DEF Cmd
  <2> QED
    BY <2>1, <1>2
<1>6. Leaving(P)
  BY <1>1 DEF Leaving, Cmd
<1> QED
  BY <1>3, <1>4, <1>5, <1>6 DEF WellPlanned

\* The plans that are not of MLAG or of a port channel.
LEMMA PlainPlanned ==
  \A P :
    (\A c \in P : /\ Word(stage, c.do) /\ c.sw \in Switches /\ c.n \in Nat
                  /\ c.do = "allow" => c.arg = VlansOn(cfg, c.sw, c.port)
                  /\ c.do \notin {"ask", "mlag", "unmlag", "undo", "enable", "leave", "join", "joined"})
    => WellPlanned(P)
<1> SUFFICES ASSUME NEW P,
               \A c \in P : /\ Word(stage, c.do) /\ c.sw \in Switches /\ c.n \in Nat
                            /\ c.do = "allow" => c.arg = VlansOn(cfg, c.sw, c.port)
                            /\ c.do \notin {"ask", "mlag", "unmlag", "undo", "enable", "leave", "join", "joined"}
             PROVE  WellPlanned(P)
  OBVIOUS
<1>1. Spelled(P)
  BY DEF Spelled
<1>2. Arranged(P)
  BY DEF Arranged
<1>3. Full(P)
  BY DEF Full
<1>4. Leaving(P)
  BY DEF Leaving
<1> QED
  BY <1>1, <1>2, <1>3, <1>4 DEF WellPlanned

\* The plan of a port channel is well formed.
LEMMA LagPlanned ==
  ASSUME NEW s \in Switches, NEW g \in ChanGroups(cfg, s, FALSE), stage = "channels"
  PROVE  WellPlanned(LagPlan(s, g))
<1> DEFINE P == LagPlan(s, g)
<1>1. ASSUME NEW c \in P
      PROVE  /\ c.sw = s
             /\ \/ c.do \in {"mk_chan", "chtrunk", "chaccess", "clear", "carry", "chanmtu"}
                   /\ c.n \in 1..5
                \/ c.do = "leave" /\ c.port \in Range(g) /\ c.n = 6
                \/ c.do = "join" /\ c.port \in Range(g) /\ c.arg = {ChanNum(g)} /\ c.n = 7
                \/ c.do = "joined" /\ c.arg = Range(g) /\ c.n = 8
  BY <1>1 DEF LagPlan, Cmd
<1>2. Spelled(P)
  <2> SUFFICES ASSUME NEW c \in P
               PROVE  /\ Word(stage, c.do) /\ c.sw \in Switches /\ c.n \in Nat
                      /\ c.do # "allow" /\ c.do \notin {"mlag", "undo"}
                      /\ c.do \in {"leave", "join", "joined"} =>
                           /\ g \in ChanGroups(cfg, c.sw, FALSE)
                           /\ c.do = "joined" => c.arg = Range(g)
                           /\ c.do # "joined" => c.port \in Range(g)
                           /\ c.do = "join" => c.arg = {ChanNum(g)}
                      /\ c.do = "leave" => c.n = 6
                      /\ c.do = "joined" => c.n = 8
    BY DEF Spelled
  <2>1. Word(stage, c.do) /\ c.do \notin {"mlag", "undo", "allow"}
    BY <1>1 DEF Word
  <2>2. c.sw = s /\ c.n \in Nat
    BY <1>1
  <2> QED
    BY <1>1, <2>1, <2>2
<1>3. Cmd(8, "joined", s, 0, Range(g)) \in P
  BY DEF LagPlan
<1>4. Leaving(P)
  BY <1>1, <1>3 DEF Leaving, Cmd
<1>5. Arranged(P) /\ Full(P)
  BY <1>1 DEF Arranged, Full
<1> QED
  BY <1>2, <1>4, <1>5 DEF WellPlanned

\* The plan that removes a port channel is well formed.
LEMMA UnchannelPlanned ==
  ASSUME NEW s \in Switches, NEW g, NEW paired \in BOOLEAN, stage = "unchannel"
  PROVE  WellPlanned(UnchannelPlan(s, g, paired))
<1> DEFINE P == UnchannelPlan(s, g, paired)
<1>1. ASSUME NEW c \in P
      PROVE  /\ c.do \in {"ask", "rm_own", "rm_chan"} /\ c.sw = s /\ c.n \in Nat
             /\ c.do = "ask" => c = Cmd(1, "ask", s, 0, {})
  BY <1>1 DEF UnchannelPlan, Cmd
<1>2. Spelled(P) /\ Full(P) /\ Leaving(P)
  BY <1>1 DEF Spelled, Full, Leaving, Word
<1>3. Arranged(P)
  BY <1>1 DEF Arranged
<1> QED
  BY <1>2, <1>3 DEF WellPlanned

\* The state between two commands.
Staged ==
  /\ cfg \in Configs
  /\ op \in {"none", "configure", "deconfigure"}
  /\ op = "none" => stage = "none" /\ todo = {} /\ plan = {}
  /\ op # "none" => end = "none"
  /\ op = "configure" => stage \in {"vlans", "mtu", "mlag", "channels"}
  /\ op = "deconfigure" => stage \in {"unchannel", "unmlag", "unvlan", "delete", "unmtu"}
  /\ todo \subseteq Tasks(cfg, stage)
  /\ left = [kills |-> left.kills, refusals |-> left.refusals, runs |-> left.runs]
  /\ left.refusals \in Nat /\ left.refusals <= Refusals
  /\ sw = [s \in Switches |-> sw[s]]

\* What the task of a stage is about.
LEMMA TaskIs ==
  ASSUME NEW c \in Configs, NEW step, NEW t \in Tasks(c, step)
  PROVE  /\ step \in ByPort =>
              \E s \in DOMAIN c.links : \E x : s \in Switches /\ t = <<s, x>>
         /\ step \in {"mlag", "unmlag"} => t \in Pairs(c) /\ t \subseteq Switches
         /\ step \in {"channels", "unchannel"} =>
              \E s \in DOMAIN c.links : \E paired \in BOOLEAN : \E g \in ChanGroups(c, s, paired) :
                s \in Switches /\ t = <<s, g, paired>>
<1>0. DOMAIN c.links \subseteq Switches /\ UNION Pairs(c) \subseteq Switches
  BY DataAssumption
<1>1. PICK s \in DOMAIN c.links :
        t \in CASE step \in {"vlans", "unvlan"} -> {<<s, p>> : p \in VlanPorts(c, s)}
                [] step = "delete" -> {<<s, v>> : v \in UNION {VlansOn(c, s, p) : p \in VlanPorts(c, s)}}
                [] step \in {"mtu", "unmtu"} ->
                     {<<s, p>> : p \in {q \in AllPorts(c, s) : MtuOf(c, s, q) # 0}}
                [] step \in {"mlag", "unmlag"} -> {pair \in Pairs(c) : s \in pair}
                [] OTHER -> {<<s, g, TRUE>> : g \in ChanGroups(c, s, TRUE)}
                            \cup {<<s, g, FALSE>> : g \in ChanGroups(c, s, FALSE)}
  BY DEF Tasks
<1>2. CASE step \in ByPort
  BY <1>0, <1>1, <1>2 DEF ByPort
<1>3. CASE step \in {"mlag", "unmlag"}
  BY <1>0, <1>1, <1>3 DEF ByPort
<1>4. CASE step \in {"channels", "unchannel"}
  BY <1>0, <1>1, <1>4 DEF ByPort
<1> QED
  BY <1>2, <1>3, <1>4

\* Each group of ports is a task of its own.
LEMMA ChanTasks ==
  ASSUME NEW c, NEW s \in DOMAIN c.links, NEW paired \in BOOLEAN, NEW g \in ChanGroups(c, s, paired),
         NEW step \in {"channels", "unchannel"}
  PROVE  <<s, g, paired>> \in Tasks(c, step)
<1> DEFINE all(r) == {<<r, h, TRUE>> : h \in ChanGroups(c, r, TRUE)}
                     \cup {<<r, h, FALSE>> : h \in ChanGroups(c, r, FALSE)}
<1>1. Tasks(c, step) = UNION {all(r) : r \in DOMAIN c.links}
  <2>1. CASE step = "channels"
    BY <2>1 DEF Tasks
  <2>2. CASE step = "unchannel"
    BY <2>2 DEF Tasks
  <2> QED
    BY <2>1, <2>2
<1>2. <<s, g, paired>> \in all(s)
  BY DEF all
<1> HIDE DEF all
<1> QED
  BY <1>1, <1>2

\* Whatever task is taken, its plan is well formed.
LEMMA PlansOk ==
  ASSUME Staged, op # "none", NEW t \in Tasks(cfg, stage), NEW P \in Plans(t)
  PROVE  WellPlanned(P)
<1>0. cfg \in Configs
  BY DEF Staged
<1>1. CASE stage \in ByPort
  <2>1. PICK s, x : s \in DOMAIN cfg.links /\ s \in Switches /\ t = <<s, x>>
    BY <1>0, <1>1, TaskIs
  <2>2. t[1] = s /\ t[2] = x
    BY <2>1
  <2>3. CASE stage = "vlans"
    <3>1. PICK made : P = VlanPlan(s, x, made)
      BY <2>2, <2>3 DEF Plans
    <3> QED
      BY <2>1, <2>3, <3>1, PlainPlanned DEF VlanPlan, Cmd, Word
  <2>4. CASE stage = "mtu" \/ stage = "unmtu"
    <3>1. PICK value : P = MtuPlan(s, x, value)
      BY <2>2, <2>4 DEF Plans
    <3> QED
      BY <2>1, <2>4, <3>1, PlainPlanned DEF MtuPlan, Cmd, Word
  <2>5. CASE stage = "unvlan"
    <3>1. P = UnvlanPlan(s, x)
      BY <2>2, <2>5 DEF Plans
    <3> QED
      BY <2>1, <2>5, <3>1, PlainPlanned DEF UnvlanPlan, Cmd, Word
  <2>6. CASE stage = "delete"
    <3>1. P = {Cmd(1, "novlan", s, 0, {x})}
      BY <2>2, <2>6 DEF Plans
    <3> QED
      BY <2>1, <2>6, <3>1, PlainPlanned DEF Cmd, Word
  <2> QED
    BY <1>1, <2>3, <2>4, <2>5, <2>6 DEF ByPort
<1>2. CASE stage \in {"mlag", "unmlag"}
  <2>1. t \subseteq Switches
    BY <1>0, <1>2, TaskIs
  <2>2. CASE stage = "mlag"
    <3>1. PICK a, b : a \in t /\ b \in t \ {a} /\ P = MlagPlan(a, b)
      BY <2>2 DEF Plans
    <3> QED
      BY <2>1, <2>2, <3>1, MlagPlanned
  <2>3. CASE stage = "unmlag"
    <3>1. PICK a, b : a \in t /\ b \in t \ {a} /\ P = UnmlagPlan(a, b)
      BY <2>3 DEF Plans
    <3> QED
      BY <2>1, <2>3, <3>1, UnmlagPlanned
  <2> QED
    BY <1>2, <2>2, <2>3
<1>3. CASE stage \in {"channels", "unchannel"}
  <2>1. PICK s, paired, g :
          /\ s \in DOMAIN cfg.links /\ paired \in BOOLEAN /\ g \in ChanGroups(cfg, s, paired)
          /\ s \in Switches /\ t = <<s, g, paired>>
    BY <1>0, <1>3, TaskIs
  <2>2. t[1] = s /\ t[2] = g /\ t[3] = paired
    BY <2>1
  <2>3. CASE stage = "unchannel"
    <3>1. P = UnchannelPlan(s, g, paired)
      BY <2>2, <2>3 DEF Plans
    <3> QED
      BY <2>1, <2>3, <3>1, UnchannelPlanned
  <2>4. CASE stage = "channels" /\ paired = TRUE
    <3>1. P = MlagChannelPlan(s, g)
      BY <2>2, <2>4 DEF Plans
    <3> QED
      BY <2>1, <2>4, <3>1, PlainPlanned DEF MlagChannelPlan, Cmd, Word
  <2>5. CASE stage = "channels" /\ paired = FALSE
    <3>1. P = LagPlan(s, g)
      BY <2>2, <2>5 DEF Plans
    <3> QED
      BY <2>1, <2>5, <3>1, LagPlanned
  <2> QED
    BY <1>3, <2>1, <2>3, <2>4, <2>5
<1> QED
  BY <1>1, <1>2, <1>3 DEF Staged, ByPort

Planned == WellPlanned(plan)

\* The commands that remain are still well planned.
LEMMA ShrinkPlanned ==
  ASSUME Planned, plan' \subseteq plan, UNCHANGED <<cfg, stage>>,
         \A e \in plan' : \A d \in plan :
           /\ e.sw = d.sw /\ e.do \in {"ask", "unmlag"} /\ d.do \in {"mlag", "undo"} => d \in plan'
           /\ e.do = "leave" /\ d.do = "joined" => d \in plan'
  PROVE  Planned'
<1> USE DEF Planned, WellPlanned
<1>1. Spelled(plan)'
  BY DEF Spelled
<1>2. Arranged(plan')
  BY DEF Arranged
<1>3. Full(plan)'
  BY DEF Full
<1>4. Leaving(plan)'
  BY DEF Leaving
<1> QED
  BY <1>1, <1>2, <1>3, <1>4

\* So they are when a question leaves some out.
LEMMA AskPlanned ==
  ASSUME Planned, NEW c \in plan, Ask(c)
  PROVE  Planned'
<1>1. PICK has \in BOOLEAN :
        plan' = {d \in plan \ {c} :
                  d.sw = c.sw => d.do \notin IF has THEN {"mlag"} ELSE {"unmlag", "undo", "rm_own"}}
  BY DEF Ask
<1>2. c.do = "ask" /\ UNCHANGED <<cfg, stage>>
  BY DEF Ask, run
<1>3. ASSUME NEW e \in plan', NEW d \in plan, e.sw = d.sw, e.do \in {"ask", "unmlag"},
             d.do \in {"mlag", "undo"}
      PROVE  d \in plan'
  <2>1. CASE d.sw # c.sw
    BY <1>1, <1>2, <2>1
  <2>2. CASE d.sw = c.sw
    <3>1. Arranged(plan)
      BY DEF Planned, WellPlanned
    <3>2. e \in plan /\ e # c
      BY <1>1
    <3>3. e.do = "unmlag"
      BY <1>2, <1>3, <2>2, <3>1, <3>2 DEF Arranged
    <3>4. has = TRUE
      BY <1>1, <1>3, <2>2, <3>3
    <3>5. c.n < d.n /\ c # d
      BY <1>2, <1>3, <2>2, <3>1 DEF Arranged
    <3>6. d.do # "mlag"
      <4>1. Spelled(plan)
        BY DEF Planned, WellPlanned
      <4>2. stage = "unmlag"
        BY <3>2, <3>3, <4>1 DEF Spelled, Word
      <4> QED
        BY <4>1, <4>2 DEF Spelled, Word
    <3> QED
      BY <1>1, <3>4, <3>5, <3>6
  <2> QED
    BY <2>1, <2>2
<1>4. ASSUME NEW e \in plan', NEW d \in plan, e.do = "leave", d.do = "joined"
      PROVE  d \in plan'
  BY <1>1, <1>2, <1>4
<1> QED
  BY <1>1, <1>2, <1>3, <1>4, ShrinkPlanned

\* A command that is due leaves a well planned rest.
LEMMA DuePlanned ==
  ASSUME Planned, NEW c \in plan, Due(c), c.do # "ask", plan' = plan \ {c}, UNCHANGED <<cfg, stage>>
  PROVE  Planned'
<1> USE DEF Planned, WellPlanned
<1>1. \A e \in plan : c.n <= e.n /\ c.n \in Nat /\ e.n \in Nat
  BY DEF Due, Spelled
<1>2. ASSUME NEW e \in plan', e.sw = c.sw, e.do \in {"ask", "unmlag"}, c.do \in {"mlag", "undo"}
      PROVE  FALSE
  <2>1. CASE e.do = "ask" \/ c.do = "undo"
    <3>1. e.n < c.n
      BY <1>2, <2>1 DEF Arranged
    <3> QED
      BY <1>1, <3>1
  <2>2. CASE e.do = "unmlag" /\ c.do = "mlag"
    BY <2>2 DEF Spelled, Word
  <2> QED
    BY <1>2, <2>1, <2>2
<1>3. ASSUME NEW e \in plan', e.do = "leave", c.do = "joined"
      PROVE  FALSE
  <2>1. e.n = 6 /\ c.n = 8
    BY <1>3 DEF Spelled
  <2> QED
    BY <1>1, <2>1
<1> QED
  BY <1>2, <1>3, ShrinkPlanned

\* Where a stage leads.
LEMMA NextStageIs ==
  ASSUME Staged, NextStage
  PROVE  \/ /\ op' = op /\ plan' = plan /\ end' = end
            /\ todo' = Tasks(cfg, stage')
            /\ op = "configure" => \/ stage = "vlans" /\ stage' = "mtu"
                                   \/ stage = "mtu" /\ stage' = "mlag"
                                   \/ stage = "mlag" /\ stage' = "channels"
            /\ op = "deconfigure" => \/ stage = "unchannel" /\ stage' = "unmlag"
                                     \/ stage = "unmlag" /\ stage' = "unvlan"
                                     \/ stage = "unvlan" /\ stage' = "delete"
                                     \/ stage = "delete" /\ stage' = "unmtu"
         \/ /\ Stop(op)
            /\ op = "configure" => stage = "channels"
            /\ op = "deconfigure" => stage = "unmtu"
<1>1. PICK k \in DOMAIN Stages(op) :
        /\ stage = Stages(op)[k]
        /\ IF k < Len(Stages(op))
             THEN EnterStage(cfg, Stages(op)[k + 1]) /\ UNCHANGED <<op, plan, end>>
             ELSE Stop(op)
  BY DEF NextStage
<1>2. CASE op = "configure"
  <2>1. Stages(op) = <<"vlans", "mtu", "mlag", "channels">>
    BY <1>2 DEF Stages, ConfigureStages
  <2>2. k \in 1..4 /\ Len(Stages(op)) = 4
    BY <2>1
  <2>3. CASE k = 1
    <3>1. k < Len(Stages(op)) /\ Stages(op)[k] = "vlans" /\ Stages(op)[k + 1] = "mtu"
      BY <2>1, <2>2, <2>3
    <3> QED
      BY <1>1, <1>2, <3>1 DEF EnterStage
  <2>4. CASE k = 2
    <3>1. k < Len(Stages(op)) /\ Stages(op)[k] = "mtu" /\ Stages(op)[k + 1] = "mlag"
      BY <2>1, <2>2, <2>4
    <3> QED
      BY <1>1, <1>2, <3>1 DEF EnterStage
  <2>5. CASE k = 3
    <3>1. k < Len(Stages(op)) /\ Stages(op)[k] = "mlag" /\ Stages(op)[k + 1] = "channels"
      BY <2>1, <2>2, <2>5
    <3> QED
      BY <1>1, <1>2, <3>1 DEF EnterStage
  <2>6. CASE k = 4
    <3>1. ~(k < Len(Stages(op))) /\ Stages(op)[k] = "channels"
      BY <2>1, <2>2, <2>6
    <3> QED
      BY <1>1, <1>2, <3>1
  <2> QED
    BY <2>2, <2>3, <2>4, <2>5, <2>6
<1>3. CASE op = "deconfigure"
  <2>1. Stages(op) = <<"unchannel", "unmlag", "unvlan", "delete", "unmtu">>
    BY <1>3 DEF Stages, DeconfigureStages
  <2>2. k \in 1..5 /\ Len(Stages(op)) = 5
    BY <2>1
  <2>3. CASE k = 1
    <3>1. k < Len(Stages(op)) /\ Stages(op)[k] = "unchannel" /\ Stages(op)[k + 1] = "unmlag"
      BY <2>1, <2>2, <2>3
    <3> QED
      BY <1>1, <1>3, <3>1 DEF EnterStage
  <2>4. CASE k = 2
    <3>1. k < Len(Stages(op)) /\ Stages(op)[k] = "unmlag" /\ Stages(op)[k + 1] = "unvlan"
      BY <2>1, <2>2, <2>4
    <3> QED
      BY <1>1, <1>3, <3>1 DEF EnterStage
  <2>5. CASE k = 3
    <3>1. k < Len(Stages(op)) /\ Stages(op)[k] = "unvlan" /\ Stages(op)[k + 1] = "delete"
      BY <2>1, <2>2, <2>5
    <3> QED
      BY <1>1, <1>3, <3>1 DEF EnterStage
  <2>6. CASE k = 4
    <3>1. k < Len(Stages(op)) /\ Stages(op)[k] = "delete" /\ Stages(op)[k + 1] = "unmtu"
      BY <2>1, <2>2, <2>6
    <3> QED
      BY <1>1, <1>3, <3>1 DEF EnterStage
  <2>7. CASE k = 5
    <3>1. ~(k < Len(Stages(op))) /\ Stages(op)[k] = "unmtu"
      BY <2>1, <2>2, <2>7
    <3> QED
      BY <1>1, <1>3, <3>1
  <2> QED
    BY <2>2, <2>3, <2>4, <2>5, <2>6, <2>7
<1> QED
  BY <1>2, <1>3 DEF Staged, NextStage

\* How a run starts.
LEMMA StartIs ==
  ASSUME Start
  PROVE  /\ op = "none" /\ cfg' \in Configs /\ todo' = Tasks(cfg', stage') /\ end' = "none"
         /\ \/ op' = "configure" /\ stage' = "vlans"
            \/ op' = "deconfigure" /\ stage' = "unchannel"
         /\ logged' = {} /\ configured' = {} /\ UNCHANGED <<plan, sw, torn>>
         /\ left' = [left EXCEPT !.runs = @ - 1]
<1>1. Stages("configure")[1] = "vlans" /\ Stages("deconfigure")[1] = "unchannel"
  BY DEF Stages, ConfigureStages, DeconfigureStages
<1> QED
  BY <1>1 DEF Start, EnterStage

\* Every step keeps the state that is between two commands.
LEMMA StagedStep ==
  ASSUME Staged, Planned, [DataNext]_dataVars
  PROVE  Staged'
<1> USE DEF Staged
<1>1. CASE Start
  BY <1>1, StartIs
<1>2. CASE Take
  BY <1>2 DEF Take, run
<1>3. CASE NextStage
  <2>1. UNCHANGED <<cfg, sw, left>>
    BY <1>3 DEF NextStage
  <2> QED
    BY <1>3, <2>1, NextStageIs DEF Stop, NextStage
<1>4. ASSUME NEW c \in plan, Ask(c)
      PROVE  Staged'
  BY <1>4 DEF Ask, run
<1>5. ASSUME NEW c \in plan, Skip(c)
      PROVE  Staged'
  BY <1>5 DEF Skip, run
<1>6. ASSUME NEW c \in plan, Break(c)
      PROVE  Staged'
  BY <1>6 DEF Break, Stop
<1>7. ASSUME NEW c \in plan, CheckJoined(c)
      PROVE  Staged'
  BY <1>7 DEF CheckJoined, run
<1>8. ASSUME NEW c \in plan, NEW take \in BOOLEAN, Send(c, take)
      PROVE  Staged'
  <2>1. cfg' = cfg /\ sw' = [s \in Switches |-> sw'[s]]
    BY <1>8 DEF Send
  <2>2. \/ UNCHANGED <<op, stage, todo, end>> /\ plan' \subseteq plan
        \/ Stop("failed")
    BY <1>8 DEF Send
  <2>3. /\ left' = [kills |-> left'.kills, refusals |-> left'.refusals, runs |-> left'.runs]
        /\ left'.refusals \in Nat /\ left'.refusals <= Refusals
    BY <1>8, DataAssumption DEF Send
  <2> QED
    BY <2>1, <2>2, <2>3 DEF Stop
<1>9. CASE Kill
  BY <1>9 DEF Kill, Stop
<1>10. CASE UNCHANGED dataVars
  BY <1>10 DEF dataVars, run
<1> QED
  BY <1>1, <1>2, <1>3, <1>4, <1>5, <1>6, <1>7, <1>8, <1>9, <1>10 DEF DataNext, Command

\* A plan of the same stage is judged alike before and after a step.
LEMMA SamePlanned ==
  ASSUME UNCHANGED <<cfg, stage>>, WellPlanned(plan')
  PROVE  Planned'
<1>1. Spelled(plan)'
  BY DEF WellPlanned, Spelled
<1>2. Full(plan)'
  BY DEF WellPlanned, Full
<1>3. Arranged(plan)' /\ Leaving(plan)'
  BY DEF WellPlanned, Arranged, Leaving
<1> QED
  BY <1>1, <1>2, <1>3 DEF Planned, WellPlanned

\* Every step keeps the plan well formed.
LEMMA PlannedStep ==
  ASSUME Staged, Planned, [DataNext]_dataVars
  PROVE  Planned'
<1>1. ASSUME plan' = {}
      PROVE  Planned'
  BY <1>1 DEF Planned, WellPlanned, Spelled, Arranged, Full, Leaving
<1>2. CASE Start
  <2>1. plan' = {}
    BY <1>2, StartIs DEF Staged
  <2> QED
    BY <1>1, <2>1
<1>3. CASE Take
  <2>1. PICK t \in todo : plan' \in Plans(t)
    BY <1>3 DEF Take
  <2>2. op # "none" /\ UNCHANGED <<cfg, stage>>
    BY <1>3 DEF Take, run
  <2>3. WellPlanned(plan')
    BY <2>1, <2>2, PlansOk DEF Staged
  <2> QED
    BY <2>2, <2>3, SamePlanned
<1>4. CASE NextStage
  <2>1. plan' = {}
    BY <1>4, NextStageIs DEF NextStage, Stop
  <2> QED
    BY <1>1, <2>1
<1>5. ASSUME NEW c \in plan, Due(c), Ask(c)
      PROVE  Planned'
  BY <1>5, AskPlanned
<1>6. ASSUME NEW c \in plan, Due(c), Skip(c)
      PROVE  Planned'
  <2>1. c.do # "ask" /\ plan' = plan \ {c} /\ UNCHANGED <<cfg, stage>>
    BY <1>6 DEF Skip, Skipped, run
  <2> QED
    BY <1>6, <2>1, DuePlanned
<1>7. ASSUME NEW c \in plan, Due(c), Break(c)
      PROVE  Planned'
  BY <1>1, <1>7 DEF Break, Stop
<1>8. ASSUME NEW c \in plan, Due(c), CheckJoined(c)
      PROVE  Planned'
  <2>1. c.do # "ask" /\ plan' = plan \ {c} /\ UNCHANGED <<cfg, stage>>
    BY <1>8 DEF CheckJoined, run
  <2> QED
    BY <1>8, <2>1, DuePlanned
<1>9. ASSUME NEW c \in plan, Due(c), NEW take \in BOOLEAN, Send(c, take)
      PROVE  Planned'
  <2>1. c.do # "ask" /\ cfg' = cfg
    BY <1>9 DEF Send
  <2>2. CASE plan' = plan \ {c} /\ stage' = stage
    BY <1>9, <2>1, <2>2, DuePlanned
  <2>3. CASE Stop("failed")
    BY <1>1, <2>3 DEF Stop
  <2> QED
    BY <1>9, <2>2, <2>3 DEF Send
<1>10. CASE Kill
  BY <1>1, <1>10 DEF Kill, Stop
<1>11. CASE UNCHANGED dataVars
  <2>1. UNCHANGED <<cfg, stage, plan>>
    BY <1>11 DEF dataVars, run
  <2>2. WellPlanned(plan')
    BY <2>1 DEF Planned
  <2> QED
    BY <2>1, <2>2, SamePlanned
<1> QED
  BY <1>2, <1>3, <1>4, <1>5, <1>6, <1>7, <1>8, <1>9, <1>10, <1>11 DEF DataNext, Command

\* What sending a command does.
LEMMA SendIs ==
  ASSUME Staged, Planned, NEW c \in plan, NEW take \in BOOLEAN, Send(c, take)
  PROVE  /\ \A s \in Switches : sw'[s] = IF s = c.sw /\ take THEN Does(sw[s], c) ELSE sw[s]
         /\ take => Takes(c)
         /\ ~take /\ Takes(c) => left'.refusals < left.refusals
         /\ left'.refusals <= left.refusals
         /\ torn \subseteq torn'
         /\ logged \subseteq logged'
         /\ Checks(c, sw'[c.sw]) \/ <<c.sw, c.port>> \in logged'
         /\ \/ /\ plan' = plan \ {c} /\ UNCHANGED <<op, stage, todo, end>>
               /\ torn' = IF take THEN torn ELSE torn \cup Cut(c)
            \/ Stop("failed") /\ Fatal(c) /\ torn' = torn \cup Midway /\ ~Checks(c, sw'[c.sw])
         /\ UNCHANGED <<cfg, configured>>
         /\ c.do \notin {"ask", "joined", "index"}
         /\ c.sw \in Switches
<1>1. c.sw \in Switches
  BY DEF Planned, WellPlanned, Spelled
<1>2. /\ c.do \notin {"ask", "joined"} /\ ~Breaks(c) /\ (take => Takes(c))
      /\ UNCHANGED <<cfg, configured>>
  BY DEF Send
<1>3. sw' = [sw EXCEPT ![c.sw] = IF take THEN Does(sw[c.sw], c) ELSE sw[c.sw]]
  BY DEF Send
<1>4. \A s \in Switches : sw'[s] = IF s = c.sw /\ take THEN Does(sw[s], c) ELSE sw[s]
  BY <1>1, <1>3 DEF Staged
<1>5. /\ Takes(c) /\ ~take => left.refusals > 0
      /\ left' = IF Takes(c) /\ ~take THEN [left EXCEPT !.refusals = @ - 1] ELSE left
  BY DEF Send
<1>6. left'.refusals <= left.refusals /\ (~take /\ Takes(c) => left'.refusals < left.refusals)
  BY <1>5 DEF Staged
<1>7. LET r == IF take THEN Does(sw[c.sw], c) ELSE sw[c.sw]
      IN  /\ logged' = IF Checks(c, r) THEN logged ELSE logged \cup {<<c.sw, c.port>>}
          /\ IF Checks(c, r) \/ ~Fatal(c)
               THEN /\ plan' = plan \ {c} /\ UNCHANGED <<op, stage, todo, task, end>>
                    /\ torn' = IF take THEN torn ELSE torn \cup Cut(c)
               ELSE Stop("failed") /\ torn' = torn \cup Midway
  BY DEF Send
<1>8. sw'[c.sw] = IF take THEN Does(sw[c.sw], c) ELSE sw[c.sw]
  BY <1>1, <1>4
<1>9. c.do # "index"
  BY <1>2 DEF Breaks
<1> QED
  BY <1>1, <1>2, <1>4, <1>6, <1>7, <1>8, <1>9

\* A command of the plan for a port, and a look at its group.
Pending(do, s, p) == \E c \in plan : c.do = do /\ c.sw = s /\ c.port = p
Joining(s, p) == \E c \in plan : c.do = "joined" /\ c.sw = s /\ p \in c.arg

\* A port's mode and vlans are set, or it is named or in a channel.
TrunkDone(s, p) == InChannel(s, p) \/ Named(s, p) \/ p \in sw[s].trunk
AllowDone(s, p) ==
  InChannel(s, p) \/ Named(s, p) \/ {p} \X VlansOn(cfg, s, p) \subseteq sw[s].allowed

\* Done, ahead in the stage's tasks, or ahead in the plan.
VlanOk(s, p) ==
  \/ stage = "vlans" /\ <<s, p>> \in todo
  \/ Joining(s, p)
  \/ /\ TrunkDone(s, p) \/ Pending("trunk", s, p)
     /\ AllowDone(s, p) \/ Pending("allow", s, p)

\* A configure has set a port's vlans, or named it, or will.
VlanInv ==
  op = "configure" =>
    \A s \in DOMAIN cfg.links : \A p \in VlanPorts(cfg, s) : VlanOk(s, p)

\* The ports of a group that are to be looked at are in one group.
LEMMA JoinedNames ==
  ASSUME Planned, NEW c \in plan, c.do \in {"leave", "join", "joined"}
  PROVE  \E g \in ChanGroups(cfg, c.sw, FALSE) :
           /\ c.do = "joined" => c.arg = Range(g)
           /\ c.do # "joined" => c.port \in Range(g)
           /\ c.do = "join" => c.arg = {ChanNum(g)}
  BY DEF Planned, WellPlanned, Spelled

\* In a configure nothing undone but a port's channel, by a command that says so.
LEMMA SendKeeps ==
  ASSUME Staged, Planned, op = "configure", NEW c \in plan, NEW take \in BOOLEAN, Send(c, take),
         NEW s \in Switches, NEW p, ~(c.do = "leave" /\ c.sw = s /\ c.port = p)
  PROVE  /\ InChannel(s, p) => InChannel(s, p)'
         /\ TrunkDone(s, p) => TrunkDone(s, p)'
         /\ AllowDone(s, p) => AllowDone(s, p)'
<1>1. c.do \notin {"access", "forbid", "novlan", "rm_chan"}
  BY DEF Staged, Planned, WellPlanned, Spelled, Word
<1>2. sw'[s] = IF s = c.sw /\ take THEN Does(sw[s], c) ELSE sw[s]
  BY SendIs
<1>3. logged \subseteq logged' /\ cfg' = cfg
  BY SendIs
<1>4. \A j \in sw[s].chan : j[1] = p => j \in sw'[s].chan
  BY <1>1, <1>2 DEF Does, Without
<1>5. InChannel(s, p) => InChannel(s, p)'
  BY <1>4 DEF InChannel
<1>6. sw[s].trunk \subseteq sw'[s].trunk /\ sw[s].allowed \subseteq sw'[s].allowed
  BY <1>1, <1>2 DEF Does
<1>7. Named(s, p) => Named(s, p)'
  BY <1>3 DEF Named
<1> QED
  BY <1>3, <1>5, <1>6, <1>7 DEF TrunkDone, AllowDone

\* A command of a configure keeps a port set up, named, or about to be.
LEMMA SendVlan ==
  ASSUME Staged, Planned, op = "configure", NEW c \in plan, NEW take \in BOOLEAN, Send(c, take),
         NEW s \in DOMAIN cfg.links, NEW p, VlanOk(s, p), plan' = plan \ {c},
         UNCHANGED <<op, stage, todo>>
  PROVE  VlanOk(s, p)'
<1>0. s \in Switches /\ cfg' = cfg
  BY DataAssumption, SendIs DEF Staged
<1>1. CASE stage = "vlans" /\ <<s, p>> \in todo
  BY <1>1 DEF VlanOk
<1>2. CASE Joining(s, p)
  <2>1. Joining(s, p)'
    BY <1>2, SendIs DEF Joining
  <2> QED
    BY <2>1 DEF VlanOk
<1>3. CASE c.do = "leave" /\ c.sw = s /\ c.port = p
  <2>1. PICK d \in plan : d.do = "joined" /\ d.sw = s /\ p \in d.arg
    BY <1>3 DEF Planned, WellPlanned, Leaving
  <2>2. d \in plan'
    BY <1>3, <2>1
  <2>3. Joining(s, p)'
    BY <2>1, <2>2 DEF Joining
  <2> QED
    BY <2>3 DEF VlanOk
<1>4. ASSUME /\ TrunkDone(s, p) \/ Pending("trunk", s, p)
             /\ AllowDone(s, p) \/ Pending("allow", s, p),
             ~(c.do = "leave" /\ c.sw = s /\ c.port = p)
      PROVE  VlanOk(s, p)'
  <2>1. /\ InChannel(s, p) => InChannel(s, p)'
        /\ TrunkDone(s, p) => TrunkDone(s, p)'
        /\ AllowDone(s, p) => AllowDone(s, p)'
    BY <1>0, <1>4, SendKeeps
  <2>2. <<s, p>> \in logged' => Named(s, p)'
    BY DEF Named, Mates
  <2>3. ASSUME c.do = "trunk", c.sw = s, c.port = p
        PROVE  TrunkDone(s, p)'
    <3>1. Checks(c, sw'[s]) \/ <<s, p>> \in logged'
      BY <2>3, SendIs
    <3>2. Checks(c, sw'[s]) => InChannel(s, p) \/ p \in sw'[s].trunk
      BY <2>3 DEF Checks, IpLinkVlan
    <3> QED
      BY <2>1, <2>2, <3>1, <3>2 DEF TrunkDone
  <2>4. ASSUME c.do = "allow", c.sw = s, c.port = p
        PROVE  AllowDone(s, p)'
    <3>1. Checks(c, sw'[s]) \/ <<s, p>> \in logged'
      BY <2>4, SendIs
    <3>2. c.arg = VlansOn(cfg, s, p)
      BY <2>4 DEF Planned, WellPlanned, Spelled
    <3>3. Checks(c, sw'[s]) => InChannel(s, p) \/ {p} \X VlansOn(cfg, s, p) \subseteq sw'[s].allowed
      BY <2>4, <3>2 DEF Checks, IpLinkVlan
    <3> QED
      BY <1>0, <2>1, <2>2, <3>1, <3>3 DEF AllowDone
  <2>5. Pending("trunk", s, p) => Pending("trunk", s, p)' \/ TrunkDone(s, p)'
    BY <2>3 DEF Pending
  <2>6. Pending("allow", s, p) => Pending("allow", s, p)' \/ AllowDone(s, p)'
    BY <2>4 DEF Pending
  <2> QED
    BY <1>4, <2>1, <2>5, <2>6 DEF VlanOk
<1> QED
  BY <1>1, <1>2, <1>3, <1>4 DEF VlanOk

\* After the ports were looked at, each is in a channel or named.
LEMMA VerifyNames ==
  ASSUME Planned, NEW c \in plan, CheckJoined(c), NEW p \in c.arg
  PROVE  InChannel(c.sw, p) \/ Named(c.sw, p)'
<1>1. PICK g \in ChanGroups(cfg, c.sw, FALSE) : c.arg = Range(g)
  BY JoinedNames DEF CheckJoined
<1>2. CASE Missing(c) = {}
  BY <1>2 DEF Missing
<1>3. CASE Missing(c) # {}
  <2>1. PICK q \in Missing(c) : logged' = logged \cup {<<c.sw, q>>}
    BY <1>3 DEF CheckJoined
  <2>2. q \in Mates(cfg, c.sw, p)
    BY <1>1, <2>1 DEF Missing, Mates
  <2>3. cfg' = cfg
    BY DEF CheckJoined, run
  <2> QED
    BY <2>1, <2>2, <2>3 DEF Named
<1> QED
  BY <1>2, <1>3

\* So does the look at a group.
LEMMA VerifyVlan ==
  ASSUME Staged, Planned, NEW c \in plan, CheckJoined(c), NEW s \in DOMAIN cfg.links, NEW p, VlanOk(s, p)
  PROVE  VlanOk(s, p)'
<1>1. /\ UNCHANGED <<cfg, stage, todo, sw>> /\ logged \subseteq logged' /\ plan' = plan \ {c}
      /\ c.do = "joined"
  BY DEF CheckJoined, run
<1>2. /\ TrunkDone(s, p) => TrunkDone(s, p)'
      /\ AllowDone(s, p) => AllowDone(s, p)'
  BY <1>1 DEF TrunkDone, AllowDone, InChannel, Named
<1>3. CASE c.sw = s /\ p \in c.arg
  <2>1. InChannel(s, p) \/ Named(s, p)'
    BY <1>3, VerifyNames
  <2>2. InChannel(s, p) => InChannel(s, p)'
    BY <1>1 DEF InChannel
  <2>3. TrunkDone(s, p)' /\ AllowDone(s, p)'
    BY <2>1, <2>2 DEF TrunkDone, AllowDone
  <2> QED
    BY <2>3 DEF VlanOk
<1>4. ASSUME Joining(s, p), ~(c.sw = s /\ p \in c.arg)
      PROVE  Joining(s, p)'
  BY <1>1, <1>4 DEF Joining
<1>5. /\ Pending("trunk", s, p) => Pending("trunk", s, p)'
      /\ Pending("allow", s, p) => Pending("allow", s, p)'
  BY <1>1 DEF Pending
<1> QED
  BY <1>1, <1>2, <1>3, <1>4, <1>5 DEF VlanOk

\* Asking and skipping leave all this alone.
LEMMA QuietVlan ==
  ASSUME NEW s, NEW p, VlanOk(s, p), UNCHANGED <<cfg, stage, todo, sw, logged>>,
         \A d \in plan : d.do \in {"trunk", "allow", "joined"} => d \in plan'
  PROVE  VlanOk(s, p)'
<1>1. /\ Joining(s, p) => Joining(s, p)'
      /\ Pending("trunk", s, p) => Pending("trunk", s, p)'
      /\ Pending("allow", s, p) => Pending("allow", s, p)'
  BY DEF Joining, Pending
<1>2. /\ TrunkDone(s, p) => TrunkDone(s, p)'
      /\ AllowDone(s, p) => AllowDone(s, p)'
  BY DEF TrunkDone, AllowDone, InChannel, Named
<1> QED
  BY <1>1, <1>2 DEF VlanOk

\* A port whose task is taken has its commands pending.
LEMMA TakeVlan ==
  ASSUME Staged, Take, op = "configure",
         NEW s \in DOMAIN cfg.links, NEW p, VlanOk(s, p)
  PROVE  VlanOk(s, p)'
<1>1. PICK t \in todo : todo' = todo \ {t} /\ plan' \in Plans(t)
  BY DEF Take
<1>2. plan = {} /\ UNCHANGED <<cfg, stage, sw, logged>>
  BY DEF Take, run
<1>3. CASE stage = "vlans" /\ t = <<s, p>>
  <2>1. t[1] = s /\ t[2] = p
    BY <1>3
  <2>2. PICK made : plan' = VlanPlan(s, p, made)
    BY <1>1, <1>3, <2>1 DEF Plans
  <2>3. Cmd(2, "trunk", s, p, {}) \in plan' /\ Cmd(3, "allow", s, p, VlansOn(cfg, s, p)) \in plan'
    BY <2>2 DEF VlanPlan
  <2>4. Pending("trunk", s, p)' /\ Pending("allow", s, p)'
    BY <2>3 DEF Pending, Cmd
  <2> QED
    BY <2>4 DEF VlanOk
<1>4. CASE ~(stage = "vlans" /\ t = <<s, p>>)
  <2>1. ~Joining(s, p) /\ ~Pending("trunk", s, p) /\ ~Pending("allow", s, p)
    BY <1>2 DEF Joining, Pending
  <2>2. /\ TrunkDone(s, p) => TrunkDone(s, p)'
        /\ AllowDone(s, p) => AllowDone(s, p)'
    BY <1>2 DEF TrunkDone, AllowDone, InChannel, Named
  <2>3. stage = "vlans" /\ <<s, p>> \in todo => stage' = "vlans" /\ <<s, p>> \in todo'
    BY <1>1, <1>2, <1>4
  <2> QED
    BY <2>1, <2>2, <2>3 DEF VlanOk
<1> QED
  BY <1>3, <1>4

\* Every step keeps VlanInv.
LEMMA VlanStep ==
  ASSUME Staged, Planned, VlanInv, [DataNext]_dataVars
  PROVE  VlanInv'
<1>1. ASSUME op' # "configure"
      PROVE  VlanInv'
  BY <1>1 DEF VlanInv
<1>2. ASSUME Stop("failed")
      PROVE  VlanInv'
  BY <1>1, <1>2 DEF Stop
<1>3. CASE Start
  <2>1. SUFFICES ASSUME op' = "configure", NEW s \in DOMAIN cfg'.links, NEW p \in VlanPorts(cfg', s)
                 PROVE  VlanOk(s, p)'
    BY DEF VlanInv
  <2>2. stage' = "vlans" /\ todo' = Tasks(cfg', "vlans")
    BY <1>3, <2>1, StartIs
  <2>3. <<s, p>> \in todo'
    BY <2>1, <2>2 DEF Tasks
  <2> QED
    BY <2>2, <2>3 DEF VlanOk
<1> DEFINE Kept == \A s \in DOMAIN cfg.links : \A p \in VlanPorts(cfg, s) : VlanOk(s, p) => VlanOk(s, p)'
<1>4. ASSUME cfg' = cfg, op' = op, op = "configure" => Kept
      PROVE  VlanInv'
  BY <1>4 DEF VlanInv
<1>5. CASE Take
  <2>1. cfg' = cfg /\ op' = op
    BY <1>5 DEF Take, run
  <2>2. op = "configure" => Kept
    BY <1>5, TakeVlan
  <2> QED
    BY <1>4, <2>1, <2>2
<1>6. CASE NextStage
  <2>1. UNCHANGED <<cfg, sw, logged>> /\ plan = {} /\ todo = {}
    BY <1>6 DEF NextStage
  <2>2. op' = "none" \/ op' = op
    BY <1>6, NextStageIs DEF Stop
  <2>3. ASSUME NEW s, NEW p, VlanOk(s, p)
        PROVE  VlanOk(s, p)'
    <3>1. TrunkDone(s, p) /\ AllowDone(s, p)
      BY <2>1, <2>3 DEF VlanOk, Joining, Pending
    <3>2. TrunkDone(s, p)' /\ AllowDone(s, p)'
      BY <2>1, <3>1 DEF TrunkDone, AllowDone, InChannel, Named
    <3> QED
      BY <3>2 DEF VlanOk
  <2> QED
    BY <1>1, <1>4, <2>1, <2>2, <2>3
<1>7. ASSUME NEW c \in plan, Ask(c)
      PROVE  VlanInv'
  <2>1. UNCHANGED <<cfg, op, stage, todo, sw, logged>>
    BY <1>7 DEF Ask, run
  <2>2. \A d \in plan : d.do \in {"trunk", "allow", "joined"} => d \in plan'
    BY <1>7 DEF Ask
  <2>3. Kept
    BY <2>1, <2>2, QuietVlan
  <2> QED
    BY <1>4, <2>1, <2>3
<1>8. ASSUME NEW c \in plan, Skip(c)
      PROVE  VlanInv'
  <2>1. UNCHANGED <<cfg, op, stage, todo, sw, logged>>
    BY <1>8 DEF Skip, run
  <2>2. \A d \in plan : d.do \in {"trunk", "allow", "joined"} => d \in plan'
    BY <1>8 DEF Skip, Skipped
  <2>3. Kept
    BY <2>1, <2>2, QuietVlan
  <2> QED
    BY <1>4, <2>1, <2>3
<1>9. ASSUME NEW c \in plan, Break(c)
      PROVE  VlanInv'
  BY <1>2, <1>9 DEF Break
<1>10. ASSUME NEW c \in plan, CheckJoined(c)
       PROVE  VlanInv'
  <2>1. UNCHANGED <<cfg, op>>
    BY <1>10 DEF CheckJoined, run
  <2>2. Kept
    BY <1>10, VerifyVlan
  <2> QED
    BY <1>4, <2>1, <2>2
<1>11. ASSUME NEW c \in plan, NEW take \in BOOLEAN, Send(c, take)
       PROVE  VlanInv'
  <2>1. CASE Stop("failed")
    BY <1>2, <2>1
  <2>2. CASE plan' = plan \ {c} /\ UNCHANGED <<op, stage, todo>>
    <3>1. cfg' = cfg
      BY <1>11, SendIs
    <3>2. op = "configure" => Kept
      BY <1>11, <2>2, SendVlan
    <3> QED
      BY <1>4, <2>2, <3>1, <3>2
  <2> QED
    BY <1>11, <2>1, <2>2, SendIs
<1>12. CASE Kill
  BY <1>2, <1>12 DEF Kill
<1>13. CASE UNCHANGED dataVars
  <2>1. UNCHANGED <<cfg, op, stage, todo, sw, logged, plan>>
    BY <1>13 DEF dataVars, run
  <2>2. Kept
    BY <2>1, QuietVlan
  <2> QED
    BY <1>4, <2>1, <2>2
<1> QED
  BY <1>3, <1>5, <1>6, <1>7, <1>8, <1>9, <1>10, <1>11, <1>12, <1>13 DEF DataNext, Command

\* A port of a group is in its channel, named, or will be looked at; then it
\* has left any other channel, or will.
ChanOk(s, g, p) ==
  \/ <<s, g, FALSE>> \in todo
  \/ Named(s, p)
  \/ <<p, ChanNum(g)>> \in sw[s].chan
  \/ Joining(s, p) /\ (Pending("leave", s, p) \/ ~InChannel(s, p))

\* A configure that is at the channels has put a port into its channel, or
\* named it, or will look at it after it has left any other.
ChanInv ==
  op = "configure" /\ stage = "channels" =>
    \A s \in DOMAIN cfg.links : \A g \in ChanGroups(cfg, s, FALSE) : \A p \in Range(g) :
      ChanOk(s, g, p)

\* It does not get past a group of a pair.
PairInv ==
  op = "configure" /\ stage = "channels" =>
    \A s \in DOMAIN cfg.links : \A g \in ChanGroups(cfg, s, TRUE) :
      <<s, g, TRUE>> \in todo \/ \E c \in plan : c.do = "index"

\* A port of two groups of a switch: they are one.
LEMMA OneGroup ==
  ASSUME cfg \in Configs, NEW s \in DOMAIN cfg.links,
         NEW g \in ChanGroups(cfg, s, FALSE), NEW h \in ChanGroups(cfg, s, FALSE),
         NEW p \in Range(g), p \in Range(h)
  PROVE  g = h
<1>1. Range(g) \cap Range(h) # {}
  OBVIOUS
<1> QED
  BY <1>1, DataAssumption

\* A command keeps a port in its channel, named, or to be looked at.
LEMMA SendChan ==
  ASSUME Staged, Planned, op = "configure", NEW c \in plan, Due(c),
         NEW take \in BOOLEAN, Send(c, take),
         NEW s \in DOMAIN cfg.links, NEW g \in ChanGroups(cfg, s, FALSE), NEW p \in Range(g),
         ChanOk(s, g, p), plan' = plan \ {c}, UNCHANGED todo
  PROVE  ChanOk(s, g, p)'
<1>1. s \in Switches /\ cfg \in Configs /\ cfg' = cfg /\ c.do # "joined"
  BY DataAssumption, SendIs DEF Staged
<1>2. c.do \notin {"access", "forbid", "novlan", "rm_chan"}
  BY DEF Staged, Planned, WellPlanned, Spelled, Word
<1>3. sw'[s] = IF s = c.sw /\ take THEN Does(sw[s], c) ELSE sw[s]
  BY <1>1, SendIs
<1>4. Joining(s, p) => Joining(s, p)'
  BY <1>1 DEF Joining
<1>5. Named(s, p) => Named(s, p)'
  <2>1. logged \subseteq logged'
    BY SendIs
  <2> QED
    BY <1>1, <2>1 DEF Named
<1>6. <<s, p>> \in logged' => Named(s, p)'
  BY DEF Named, Mates
<1>7. CASE c.do = "leave" /\ c.sw = s /\ c.port = p
  <2>1. Joining(s, p)'
    <3>1. PICK d \in plan : d.do = "joined" /\ d.sw = s /\ p \in d.arg
      BY <1>7 DEF Planned, WellPlanned, Leaving
    <3>2. d \in plan'
      BY <1>7, <3>1
    <3> QED
      BY <3>1, <3>2 DEF Joining
  <2>2. Checks(c, sw'[s]) \/ <<s, p>> \in logged'
    BY <1>7, SendIs
  <2>3. Checks(c, sw'[s]) => ~InChannel(s, p)'
    BY <1>7 DEF Checks, InChannel
  <2> QED
    BY <1>6, <2>1, <2>2, <2>3 DEF ChanOk
<1>8. CASE c.do = "join" /\ c.sw = s /\ c.port = p
  <2>1. PICK h \in ChanGroups(cfg, s, FALSE) : p \in Range(h) /\ c.arg = {ChanNum(h)}
    BY <1>8, JoinedNames
  <2>2. c.arg = {ChanNum(g)}
    BY <1>1, <2>1, OneGroup
  <2>3. sw[s].chan \subseteq sw'[s].chan
    BY <1>3, <1>8 DEF Does
  <2>4. CASE take
    <3>1. <<p, ChanNum(g)>> \in sw'[s].chan
      BY <1>3, <1>8, <2>2, <2>4 DEF Does
    <3> QED
      BY <3>1 DEF ChanOk
  <2>5. CASE ~take
    <3>1. sw'[s] = sw[s]
      BY <1>3, <2>5
    <3>2. InChannel(s, p)' <=> InChannel(s, p)
      BY <3>1 DEF InChannel
    <3>3. Pending("leave", s, p) => Pending("leave", s, p)'
      BY <1>8 DEF Pending
    <3> QED
      BY <1>4, <1>5, <3>1, <3>2, <3>3 DEF ChanOk
  <2> QED
    BY <2>4, <2>5
<1>9. ASSUME ~(c.do \in {"leave", "join"} /\ c.sw = s /\ c.port = p)
      PROVE  ChanOk(s, g, p)'
  <2>1. \A j : j[1] = p => (j \in sw'[s].chan <=> j \in sw[s].chan)
    BY <1>2, <1>3, <1>9 DEF Does, Without
  <2>2. InChannel(s, p)' <=> InChannel(s, p)
    BY <2>1 DEF InChannel
  <2>3. <<p, ChanNum(g)>> \in sw[s].chan => <<p, ChanNum(g)>> \in sw'[s].chan
    BY <2>1
  <2>4. Pending("leave", s, p) => Pending("leave", s, p)'
    BY <1>9 DEF Pending
  <2> QED
    BY <1>4, <1>5, <2>2, <2>3, <2>4 DEF ChanOk
<1> QED
  BY <1>7, <1>8, <1>9

\* A port that is not in its channel after the look is in no channel, so its
\* group is named.
LEMMA VerifyChan ==
  ASSUME Staged, Planned, NEW c \in plan, Due(c), CheckJoined(c), NEW s, NEW g, NEW p, ChanOk(s, g, p)
  PROVE  ChanOk(s, g, p)'
<1>1. /\ UNCHANGED <<cfg, todo, sw>> /\ logged \subseteq logged' /\ plan' = plan \ {c}
      /\ c.do = "joined"
  BY DEF CheckJoined, run
<1>2. /\ InChannel(s, p)' <=> InChannel(s, p)
      /\ Named(s, p) => Named(s, p)'
  BY <1>1 DEF InChannel, Named
<1>3. Pending("leave", s, p) => Pending("leave", s, p)'
  BY <1>1 DEF Pending
<1>4. CASE c.sw = s /\ p \in c.arg
  <2>1. ~Pending("leave", s, p)
    <3>1. SUFFICES ASSUME NEW d \in plan, d.do = "leave"
                   PROVE  FALSE
      BY DEF Pending
    <3>2. d.n = 6 /\ c.n = 8
      BY <1>1, <3>1 DEF Planned, WellPlanned, Spelled
    <3> QED
      BY <3>2 DEF Due
  <2>2. InChannel(s, p) \/ Named(s, p)'
    BY <1>4, VerifyNames
  <2> QED
    BY <1>1, <1>2, <2>1, <2>2 DEF ChanOk
<1>5. ASSUME Joining(s, p), ~(c.sw = s /\ p \in c.arg)
      PROVE  Joining(s, p)'
  BY <1>1, <1>5 DEF Joining
<1> QED
  BY <1>1, <1>2, <1>3, <1>4, <1>5 DEF ChanOk

\* What touches no port's channel keeps ChanOk.
LEMMA QuietChan ==
  ASSUME NEW s, NEW g, NEW p, ChanOk(s, g, p), UNCHANGED <<cfg, todo, sw, logged>>,
         \A d \in plan : d.do \in {"leave", "joined"} => d \in plan'
  PROVE  ChanOk(s, g, p)'
<1>1. /\ Joining(s, p) => Joining(s, p)'
      /\ Pending("leave", s, p) => Pending("leave", s, p)'
  BY DEF Joining, Pending
<1>2. /\ InChannel(s, p)' <=> InChannel(s, p)
      /\ Named(s, p) => Named(s, p)'
  BY DEF InChannel, Named
<1> QED
  BY <1>1, <1>2 DEF ChanOk

\* A group whose task is taken is to be looked at.
LEMMA TakeChan ==
  ASSUME Staged, Take, op = "configure", stage = "channels",
         NEW s, NEW g, NEW p \in Range(g), ChanOk(s, g, p)
  PROVE  ChanOk(s, g, p)'
<1>1. PICK t \in todo : todo' = todo \ {t} /\ plan' \in Plans(t)
  BY DEF Take
<1>2. plan = {} /\ UNCHANGED <<cfg, stage, sw, logged>>
  BY DEF Take, run
<1>3. CASE t = <<s, g, FALSE>>
  <2>1. t[1] = s /\ t[2] = g /\ t[3] = FALSE
    BY <1>3
  <2>2. plan' = LagPlan(s, g)
    BY <1>1, <1>3, <2>1 DEF Plans
  <2>3. Cmd(6, "leave", s, p, {}) \in plan' /\ Cmd(8, "joined", s, 0, Range(g)) \in plan'
    BY <2>2 DEF LagPlan
  <2>4. Pending("leave", s, p)' /\ Joining(s, p)'
    BY <2>3 DEF Pending, Joining, Cmd
  <2> QED
    BY <2>4 DEF ChanOk
<1>4. CASE t # <<s, g, FALSE>>
  <2>1. ~Joining(s, p)
    BY <1>2 DEF Joining
  <2>2. Named(s, p) => Named(s, p)'
    BY <1>2 DEF Named
  <2>3. <<s, g, FALSE>> \in todo => <<s, g, FALSE>> \in todo'
    BY <1>1, <1>4
  <2> QED
    BY <1>2, <2>1, <2>2, <2>3 DEF ChanOk
<1> QED
  BY <1>3, <1>4

\* Every step keeps ChanInv.
LEMMA ChanStep ==
  ASSUME Staged, Planned, ChanInv, [DataNext]_dataVars
  PROVE  ChanInv'
<1>1. ASSUME op' # "configure" \/ stage' # "channels"
      PROVE  ChanInv'
  BY <1>1 DEF ChanInv
<1>2. ASSUME Stop("failed")
      PROVE  ChanInv'
  BY <1>1, <1>2 DEF Stop
<1>3. CASE Start
  <2>1. op' = "configure" => stage' = "vlans"
    BY <1>3, StartIs
  <2> QED
    BY <1>1, <2>1
<1> DEFINE Kept == \A s \in DOMAIN cfg.links : \A g \in ChanGroups(cfg, s, FALSE) : \A p \in Range(g) :
                     ChanOk(s, g, p) => ChanOk(s, g, p)'
<1>4. ASSUME UNCHANGED <<cfg, op, stage>>, op = "configure" /\ stage = "channels" => Kept
      PROVE  ChanInv'
  BY <1>4 DEF ChanInv
<1>5. CASE Take
  <2>1. UNCHANGED <<cfg, op, stage>>
    BY <1>5 DEF Take, run
  <2>2. op = "configure" /\ stage = "channels" => Kept
    BY <1>5, TakeChan
  <2> QED
    BY <1>4, <2>1, <2>2
<1>6. CASE NextStage
  <2>1. SUFFICES ASSUME op' = "configure", stage' = "channels",
                        NEW s \in DOMAIN cfg'.links, NEW g \in ChanGroups(cfg', s, FALSE)
                 PROVE  <<s, g, FALSE>> \in todo'
    BY DEF ChanInv, ChanOk
  <2>2. cfg' = cfg /\ todo' = Tasks(cfg, "channels")
    BY <1>6, <2>1, NextStageIs DEF Stop, NextStage
  <2> QED
    BY <2>1, <2>2, ChanTasks
<1>7. ASSUME NEW c \in plan, Ask(c)
      PROVE  ChanInv'
  <2>1. UNCHANGED <<cfg, op, stage, todo, sw, logged>>
    BY <1>7 DEF Ask, run
  <2>2. \A d \in plan : d.do \in {"leave", "joined"} => d \in plan'
    BY <1>7 DEF Ask
  <2>3. Kept
    BY <2>1, <2>2, QuietChan
  <2> QED
    BY <1>4, <2>1, <2>3
<1>8. ASSUME NEW c \in plan, Skip(c)
      PROVE  ChanInv'
  <2>1. UNCHANGED <<cfg, op, stage, todo, sw, logged>>
    BY <1>8 DEF Skip, run
  <2>2. \A d \in plan : d.do \in {"leave", "joined"} => d \in plan'
    BY <1>8 DEF Skip, Skipped
  <2>3. Kept
    BY <2>1, <2>2, QuietChan
  <2> QED
    BY <1>4, <2>1, <2>3
<1>9. ASSUME NEW c \in plan, Break(c)
      PROVE  ChanInv'
  BY <1>2, <1>9 DEF Break
<1>10. ASSUME NEW c \in plan, Due(c), CheckJoined(c)
       PROVE  ChanInv'
  <2>1. UNCHANGED <<cfg, op, stage>>
    BY <1>10 DEF CheckJoined, run
  <2>2. Kept
    BY <1>10, VerifyChan
  <2> QED
    BY <1>4, <2>1, <2>2
<1>11. ASSUME NEW c \in plan, Due(c), NEW take \in BOOLEAN, Send(c, take)
       PROVE  ChanInv'
  <2>1. CASE Stop("failed")
    BY <1>2, <2>1
  <2>2. CASE plan' = plan \ {c} /\ UNCHANGED <<op, stage, todo>>
    <3>1. cfg' = cfg
      BY <1>11, SendIs
    <3>2. op = "configure" => Kept
      BY <1>11, <2>2, SendChan
    <3> QED
      BY <1>4, <2>2, <3>1, <3>2
  <2> QED
    BY <1>11, <2>1, <2>2, SendIs
<1>12. CASE Kill
  BY <1>2, <1>12 DEF Kill
<1>13. CASE UNCHANGED dataVars
  <2>1. UNCHANGED <<cfg, op, stage, todo, sw, logged, plan>>
    BY <1>13 DEF dataVars, run
  <2>2. Kept
    BY <2>1, QuietChan
  <2> QED
    BY <1>4, <2>1, <2>2
<1> QED
  BY <1>3, <1>5, <1>6, <1>7, <1>8, <1>9, <1>10, <1>11, <1>12, <1>13 DEF DataNext, Command

\* Every step keeps PairInv: an index is never sent, it breaks the run.
LEMMA PairStep ==
  ASSUME Staged, Planned, PairInv, [DataNext]_dataVars
  PROVE  PairInv'
<1>1. ASSUME op' # "configure" \/ stage' # "channels"
      PROVE  PairInv'
  BY <1>1 DEF PairInv
<1>2. ASSUME Stop("failed")
      PROVE  PairInv'
  BY <1>1, <1>2 DEF Stop
<1>3. CASE Start
  <2>1. op' = "configure" => stage' = "vlans"
    BY <1>3, StartIs
  <2> QED
    BY <1>1, <2>1
<1>4. ASSUME UNCHANGED <<cfg, op, stage, todo>>, \A c \in plan : c.do = "index" => c \in plan'
      PROVE  PairInv'
  BY <1>4 DEF PairInv
<1>5. CASE Take
  <2>1. PICK t \in todo : todo' = todo \ {t} /\ plan' \in Plans(t)
    BY <1>5 DEF Take
  <2>2. plan = {} /\ UNCHANGED <<cfg, op, stage>>
    BY <1>5 DEF Take, run
  <2>3. SUFFICES ASSUME op = "configure", stage = "channels",
                        NEW s \in DOMAIN cfg.links, NEW g \in ChanGroups(cfg, s, TRUE)
                 PROVE  <<s, g, TRUE>> \in todo' \/ \E c \in plan' : c.do = "index"
    BY <2>2 DEF PairInv
  <2>4. <<s, g, TRUE>> \in todo
    BY <2>2, <2>3 DEF PairInv
  <2>5. CASE t = <<s, g, TRUE>>
    <3>1. t[1] = s /\ t[2] = g /\ t[3] = TRUE
      BY <2>5
    <3>2. plan' = MlagChannelPlan(s, g)
      BY <2>1, <2>3, <3>1 DEF Plans
    <3>3. Cmd(3, "index", s, 0, {}) \in plan'
      BY <3>2 DEF MlagChannelPlan
    <3> QED
      BY <3>3 DEF Cmd
  <2> QED
    BY <2>1, <2>4, <2>5
<1>6. CASE NextStage
  <2>1. SUFFICES ASSUME op' = "configure", stage' = "channels",
                        NEW s \in DOMAIN cfg'.links, NEW g \in ChanGroups(cfg', s, TRUE)
                 PROVE  <<s, g, TRUE>> \in todo'
    BY DEF PairInv
  <2>2. cfg' = cfg /\ todo' = Tasks(cfg, "channels")
    BY <1>6, <2>1, NextStageIs DEF Stop, NextStage
  <2> QED
    BY <2>1, <2>2, ChanTasks
<1>7. ASSUME NEW c \in plan, Ask(c)
      PROVE  PairInv'
  BY <1>4, <1>7 DEF Ask, run
<1>8. ASSUME NEW c \in plan, Skip(c)
      PROVE  PairInv'
  BY <1>4, <1>8 DEF Skip, Skipped, run
<1>9. ASSUME NEW c \in plan, Break(c)
      PROVE  PairInv'
  BY <1>2, <1>9 DEF Break
<1>10. ASSUME NEW c \in plan, CheckJoined(c)
       PROVE  PairInv'
  BY <1>4, <1>10 DEF CheckJoined, run
<1>11. ASSUME NEW c \in plan, NEW take \in BOOLEAN, Send(c, take)
       PROVE  PairInv'
  <2>1. CASE Stop("failed")
    BY <1>2, <2>1
  <2>2. CASE plan' = plan \ {c} /\ UNCHANGED <<op, stage, todo>>
    <3>1. cfg' = cfg /\ c.do # "index"
      BY <1>11, SendIs
    <3> QED
      BY <1>4, <2>2, <3>1
  <2> QED
    BY <1>11, <2>1, <2>2, SendIs
<1>12. CASE Kill
  BY <1>2, <1>12 DEF Kill
<1>13. CASE UNCHANGED dataVars
  BY <1>4, <1>13 DEF dataVars, run
<1> QED
  BY <1>3, <1>5, <1>6, <1>7, <1>8, <1>9, <1>10, <1>11, <1>12, <1>13 DEF DataNext, Command

\* A run that has ended with a configure stays as it ended.
LEMMA SilentStep ==
  ASSUME Staged, Planned, VlanInv, ChanInv, PairInv, NothingSilent, [DataNext]_dataVars
  PROVE  NothingSilent'
<1>1. ASSUME end' # "configure"
      PROVE  NothingSilent'
  BY <1>1 DEF NothingSilent
<1>2. ASSUME op # "none", UNCHANGED end
      PROVE  NothingSilent'
  BY <1>1, <1>2 DEF Staged
<1>3. CASE Start
  BY <1>1, <1>3, StartIs
<1>4. CASE Take
  BY <1>2, <1>4 DEF Take
<1>5. CASE NextStage
  <2>1. UNCHANGED <<cfg, sw, logged>> /\ plan = {} /\ todo = {} /\ op # "none"
    BY <1>5 DEF NextStage
  <2>2. CASE end' = end
    BY <1>2, <2>1, <2>2
  <2>3. CASE end' # end /\ end' = "configure"
    <3>1. op = "configure" /\ stage = "channels"
      BY <1>5, <2>3, NextStageIs DEF Stop
    <3>2. ASSUME NEW s \in DOMAIN cfg.links, NEW p \in VlanPorts(cfg, s)
          PROVE  (InChannel(s, p) \/ Named(s, p)
                  \/ (p \in sw[s].trunk /\ {p} \X VlansOn(cfg, s, p) \subseteq sw[s].allowed))'
      <4>1. TrunkDone(s, p) /\ AllowDone(s, p)
        BY <2>1, <3>1, <3>2 DEF VlanInv, VlanOk, Joining, Pending
      <4> QED
        BY <2>1, <4>1 DEF TrunkDone, AllowDone, InChannel, Named
    <3>3. ASSUME NEW s \in DOMAIN cfg.links, NEW paired \in BOOLEAN,
                 NEW g \in ChanGroups(cfg, s, paired), NEW p \in Range(g)
          PROVE  (<<p, ChanNum(g)>> \in sw[s].chan \/ Named(s, p))'
      <4>1. paired = FALSE
        BY <2>1, <3>1, <3>3 DEF PairInv
      <4>2. ChanOk(s, g, p)
        BY <3>1, <3>3, <4>1 DEF ChanInv
      <4>3. <<p, ChanNum(g)>> \in sw[s].chan \/ Named(s, p)
        BY <2>1, <4>2 DEF ChanOk, Joining
      <4> QED
        BY <2>1, <4>3 DEF Named
    <3> QED
      BY <2>1, <3>2, <3>3 DEF NothingSilent
  <2> QED
    BY <1>1, <2>2, <2>3
<1>6. CASE Command
  <2>1. op # "none"
    BY <1>6 DEF Command, Staged
  <2>2. UNCHANGED end \/ end' = "failed"
    BY <1>6 DEF Command, Ask, Skip, Break, CheckJoined, Send, Stop, run
  <2> QED
    BY <1>1, <1>2, <2>1, <2>2
<1>7. CASE Kill
  BY <1>1, <1>7 DEF Kill, Stop
<1>8. CASE UNCHANGED dataVars
  BY <1>8 DEF dataVars, run, NothingSilent, InChannel, Named
<1> QED
  BY <1>3, <1>4, <1>5, <1>6, <1>7, <1>8 DEF DataNext

\* MLAG of a switch: all of its steps, and a question that is ahead.
AllSteps == Range(MlagSteps)
Asking(s) == \E c \in plan : c.do = "ask" /\ c.sw = s

\* The steps of the set-up, or of the removal, that are left.
Steps(do, s) == {x \in AllSteps : \E c \in plan : c.do = do /\ c.sw = s /\ c.arg = {x}}

\* MLAG is there whole, or not at all.
Settled(s) == sw[s].mlag = AllSteps \/ (sw[s].mlag = {} /\ ~sw[s].enabled)

\* MLAG of a switch is whole or absent, but while its set-up or removal is
\* under way; then what is set up is what has been done, or not yet undone.
MlagOk(s) ==
  /\ sw[s].mlag \subseteq AllSteps
  /\ s \notin torn =>
       /\ Asking(s) \/ (Steps("mlag", s) = {} /\ Steps("undo", s) = {}) => Settled(s)
       /\ ~Asking(s) /\ Steps("mlag", s) # {} =>
            sw[s].mlag = AllSteps \ Steps("mlag", s) /\ ~sw[s].enabled
       /\ ~Asking(s) /\ Steps("undo", s) # {} =>
            sw[s].mlag = Steps("undo", s) /\ (sw[s].enabled => sw[s].mlag = AllSteps)

MlagInv == \A s \in Switches : MlagOk(s)

\* A set-up or removal begins with a question.
LEMMA AskComesFirst ==
  ASSUME Staged, op # "none", NEW t \in Tasks(cfg, stage), NEW P \in Plans(t), NEW d \in P,
         d.do \in {"mlag", "undo"}
  PROVE  \E e \in P : e.do = "ask" /\ e.sw = d.sw
<1>1. WellPlanned(P)
  BY PlansOk
<1>2. stage \in {"mlag", "unmlag"}
  BY <1>1 DEF WellPlanned, Spelled, Word
<1>3. CASE stage = "mlag"
  <2>1. PICK a, b : P = MlagPlan(a, b)
    BY <1>3 DEF Plans
  <2>2. d.sw \in {a, b}
    BY <2>1 DEF MlagPlan, MlagOne, Cmd
  <2>3. Cmd(0, "ask", a, 0, {}) \in P /\ Cmd(20, "ask", b, 0, {}) \in P
    BY <2>1 DEF MlagPlan, MlagOne
  <2> QED
    BY <2>2, <2>3 DEF Cmd
<1>4. CASE stage = "unmlag"
  <2>1. PICK a, b : P = UnmlagPlan(a, b)
    BY <1>4 DEF Plans
  <2>2. d.sw \in {a, b}
    BY <2>1 DEF UnmlagPlan, UnmlagOne, Cmd
  <2>3. Cmd(0, "ask", a, 0, {}) \in P /\ Cmd(20, "ask", b, 0, {}) \in P
    BY <2>1 DEF UnmlagPlan, UnmlagOne
  <2> QED
    BY <2>2, <2>3 DEF Cmd
<1> QED
  BY <1>2, <1>3, <1>4

\* What touches no MLAG command or state keeps MlagOk.
LEMMA QuietMlag ==
  ASSUME NEW s, MlagOk(s), sw'[s].mlag = sw[s].mlag, sw'[s].enabled = sw[s].enabled,
         torn \subseteq torn',
         \A d : d.do \in {"ask", "mlag", "undo"} /\ d.sw = s => (d \in plan' <=> d \in plan)
  PROVE  MlagOk(s)'
<1>1. Asking(s)' <=> Asking(s)
  BY DEF Asking
<1>2. Steps("mlag", s)' = Steps("mlag", s)
  BY DEF Steps
<1>3. Steps("undo", s)' = Steps("undo", s)
  BY DEF Steps
<1>4. Settled(s)' <=> Settled(s)
  BY DEF Settled
<1> QED
  BY <1>1, <1>2, <1>3, <1>4 DEF MlagOk

\* A run that stops leaves MLAG settled where it is not under way.
LEMMA StopMlag ==
  ASSUME Planned, NEW s, MlagOk(s), UNCHANGED sw, torn \cup Midway \subseteq torn', plan' = {}
  PROVE  MlagOk(s)'
<1>1. ASSUME s \notin torn'
      PROVE  Settled(s)
  <2>1. CASE Asking(s) \/ (Steps("mlag", s) = {} /\ Steps("undo", s) = {})
    BY <1>1, <2>1 DEF MlagOk
  <2>2. CASE ~Asking(s) /\ (Steps("mlag", s) # {} \/ Steps("undo", s) # {})
    <3>1. PICK d \in plan : d.do \in {"mlag", "undo"} /\ d.sw = s
      BY <2>2 DEF Steps
    <3>2. PICK e \in plan : e.sw = s /\ e.do \in {"ask", "unmlag"}
      <4>1. SUFFICES ASSUME \A e \in plan : e.sw = d.sw => e.do \notin {"ask", "unmlag"}
                     PROVE  s \in Midway
        BY <1>1, <3>1
      <4>2. s \in Cut(d)
        BY <3>1 DEF Cut
      <4> QED
        BY <4>1, <4>2 DEF Midway
    <3>3. e.do = "unmlag"
      BY <2>2, <3>2 DEF Asking
    <3>4. Steps("undo", s) = AllSteps
      BY <3>2, <3>3 DEF Planned, WellPlanned, Full, Steps, AllSteps
    <3>5. AllSteps # {}
      BY StepsAre DEF AllSteps
    <3> QED
      BY <1>1, <2>2, <3>4, <3>5 DEF MlagOk, Settled
  <2> QED
    BY <2>1, <2>2
<1>2. Settled(s)' <=> Settled(s)
  BY DEF Settled
<1>3. ~Asking(s)' /\ Steps("mlag", s)' = {} /\ Steps("undo", s)' = {}
  BY DEF Asking, Steps
<1>4. torn \subseteq torn' /\ sw'[s].mlag \subseteq AllSteps
  BY DEF MlagOk
<1> QED
  BY <1>1, <1>2, <1>3, <1>4 DEF MlagOk

\* A task that is taken begins with its questions.
LEMMA TakeMlag ==
  ASSUME Staged, Take, NEW s, MlagOk(s)
  PROVE  MlagOk(s)'
<1>1. PICK t \in todo : plan' \in Plans(t)
  BY DEF Take
<1>2. plan = {} /\ op # "none" /\ UNCHANGED <<sw, torn>>
  BY DEF Take, run
<1>3. ~Asking(s) /\ Steps("mlag", s) = {} /\ Steps("undo", s) = {}
  BY <1>2 DEF Asking, Steps
<1>4. s \notin torn' => Settled(s)'
  BY <1>2, <1>3 DEF MlagOk, Settled
<1>5. \A d \in plan' : d.do \in {"mlag", "undo"} => \E e \in plan' : e.do = "ask" /\ e.sw = d.sw
  BY <1>1, <1>2, AskComesFirst DEF Staged
<1>6. Steps("mlag", s)' # {} \/ Steps("undo", s)' # {} => Asking(s)'
  BY <1>5 DEF Steps, Asking
<1>7. sw'[s].mlag \subseteq AllSteps
  BY <1>2 DEF MlagOk
<1> QED
  BY <1>4, <1>6, <1>7 DEF MlagOk

\* Set-up and removal are not of one stage.
LEMMA OneKind ==
  ASSUME Planned, NEW s
  PROVE  /\ stage # "mlag" => Steps("mlag", s) = {} /\ \A d \in plan : d.do \notin {"mlag", "enable"}
         /\ stage # "unmlag" => Steps("undo", s) = {} /\ \A d \in plan : d.do # "undo"
<1>1. \A d \in plan : /\ d.do \in {"mlag", "enable"} => stage = "mlag"
                      /\ d.do = "undo" => stage = "unmlag"
  BY DEF Planned, WellPlanned, Spelled, Word
<1> QED
  BY <1>1 DEF Steps

\* An answer leaves all of the set-up or removal, or none of it.
LEMMA AskMlag ==
  ASSUME Staged, Planned, NEW c \in plan, Ask(c), NEW s \in Switches, MlagOk(s)
  PROVE  MlagOk(s)'
<1>1. PICK has \in BOOLEAN :
        /\ has => "mlag" \in sw[c.sw].mlag
        /\ ~has => "mlag" \notin sw[c.sw].mlag \/ stage = "unmlag"
        /\ plan' = {d \in plan \ {c} :
                      d.sw = c.sw => d.do \notin IF has THEN {"mlag"} ELSE {"unmlag", "undo", "rm_own"}}
  BY DEF Ask
<1>2. c.do = "ask" /\ UNCHANGED <<stage, sw, torn>>
  BY DEF Ask, run
<1>3. CASE s # c.sw
  <2>1. \A d : d.sw = s => (d \in plan' <=> d \in plan)
    BY <1>1, <1>3
  <2> QED
    BY <1>2, <2>1, QuietMlag
<1>4. CASE s = c.sw
  <2>1. Asking(s) /\ (s \notin torn => Settled(s))
    BY <1>2, <1>4 DEF Asking, MlagOk
  <2>2. ~Asking(s)'
    BY <1>1, <1>2, <1>4 DEF Asking, Planned, WellPlanned, Arranged
  <2>3. "mlag" \in AllSteps
    BY StepsAre DEF AllSteps
  <2>4. CASE has
    <3>1. s \notin torn => sw[s].mlag = AllSteps
      BY <1>1, <1>4, <2>1, <2>4 DEF Settled
    <3>2. Steps("mlag", s)' = {}
      BY <1>1, <1>4, <2>4 DEF Steps
    <3>3. CASE Steps("undo", s)' = {}
      BY <1>2, <2>2, <3>1, <3>2, <3>3 DEF MlagOk, Settled
    <3>4. CASE Steps("undo", s)' # {}
      <4>1. stage = "unmlag"
        <5>1. Steps("undo", s) # {}
          BY <1>1, <3>4 DEF Steps
        <5> QED
          BY <5>1, OneKind
      <4>2. ASSUME NEW x \in AllSteps
            PROVE  \E d \in plan' : d.do = "undo" /\ d.sw = s /\ d.arg = {x}
        <5>1. PICK d \in plan : d.do = "undo" /\ d.sw = s /\ d.arg = {x}
          BY <1>2, <1>4, <4>1 DEF Planned, WellPlanned, Full, AllSteps
        <5> QED
          BY <1>1, <1>2, <2>4, <5>1
      <4>3. Steps("undo", s)' = AllSteps
        BY <4>2 DEF Steps
      <4> QED
        BY <1>2, <2>2, <3>1, <3>2, <3>4, <4>3 DEF MlagOk
    <3> QED
      BY <3>3, <3>4
  <2>5. CASE ~has
    <3>1. Steps("undo", s)' = {}
      BY <1>1, <1>4, <2>5 DEF Steps
    <3>2. CASE Steps("mlag", s)' = {}
      BY <1>2, <2>1, <2>2, <3>1, <3>2 DEF MlagOk, Settled
    <3>3. CASE Steps("mlag", s)' # {}
      <4>1. stage = "mlag"
        <5>1. Steps("mlag", s) # {}
          BY <1>1, <3>3 DEF Steps
        <5> QED
          BY <5>1, OneKind
      <4>2. s \notin torn => sw[s].mlag = {} /\ ~sw[s].enabled
        BY <1>1, <1>4, <2>1, <2>3, <2>5, <4>1 DEF Settled
      <4>3. ASSUME NEW x \in AllSteps
            PROVE  \E d \in plan' : d.do = "mlag" /\ d.sw = s /\ d.arg = {x}
        <5>1. PICK d \in plan : d.do = "mlag" /\ d.sw = s /\ d.arg = {x}
          BY <1>2, <1>4, <4>1 DEF Planned, WellPlanned, Full, AllSteps
        <5> QED
          BY <1>1, <1>2, <2>5, <5>1
      <4>4. Steps("mlag", s)' = AllSteps
        BY <4>3 DEF Steps
      <4> QED
        BY <1>2, <2>2, <3>1, <3>3, <4>2, <4>4 DEF MlagOk
    <3> QED
      BY <3>2, <3>3
  <2> QED
    BY <2>4, <2>5
<1> QED
  BY <1>3, <1>4

\* One step done, or the switch torn; it is enabled when all are done.
LEMMA SendMlag ==
  ASSUME Staged, Planned, NEW c \in plan, Due(c), NEW take \in BOOLEAN, Send(c, take),
         plan' = plan \ {c}, torn' = IF take THEN torn ELSE torn \cup Cut(c),
         NEW s \in Switches, MlagOk(s)
  PROVE  MlagOk(s)'
<1>1. sw'[s] = IF s = c.sw /\ take THEN Does(sw[s], c) ELSE sw[s]
  BY SendIs
<1>2. torn \subseteq torn' /\ c.do # "ask" /\ (s = c.sw /\ ~take /\ c.do \in {"mlag", "undo"} => s \in torn')
  BY SendIs DEF Cut
<1>3. \A d \in plan : c.n <= d.n /\ c.n \in Nat /\ d.n \in Nat
  BY DEF Due, Planned, WellPlanned, Spelled
<1>4. CASE c.sw # s \/ c.do \notin {"mlag", "undo", "enable"}
  <2>1. sw'[s].mlag = sw[s].mlag /\ sw'[s].enabled = sw[s].enabled
    <3>1. CASE c.sw # s \/ ~take
      BY <1>1, <3>1
    <3>2. CASE c.sw = s /\ take
      <4>1. sw'[s] = Does(sw[s], c)
        BY <1>1, <3>2
      <4>2. c.do \notin {"mlag", "undo", "enable"}
        BY <1>4, <3>2
      <4>3. Does(sw[s], c).mlag = sw[s].mlag
        BY <4>2 DEF Does
      <4>4. Does(sw[s], c).enabled = sw[s].enabled
        BY <4>2 DEF Does
      <4> QED
        BY <4>1, <4>3, <4>4
    <3> QED
      BY <3>1, <3>2
  <2>2. ASSUME NEW d, d.do \in {"ask", "mlag", "undo"}, d.sw = s
        PROVE  d \in plan' <=> d \in plan
    BY <1>2, <1>4, <2>2
  <2> QED
    BY <1>2, <2>1, <2>2, QuietMlag
<1>5. CASE c.sw = s /\ c.do = "enable"
  <2>1. "mlag" \in sw[s].mlag
    BY <1>5 DEF Send, Skipped
  <2>2. \A d \in plan : d.do \notin {"ask", "mlag"}
    <3>1. ASSUME NEW d \in plan, d.do \in {"ask", "mlag"}
          PROVE  FALSE
      <4>1. d.n < c.n
        BY <1>5, <3>1 DEF Planned, WellPlanned, Arranged
      <4> QED
        BY <1>3, <4>1
    <3> QED
      BY <3>1
  <2>3. ~Asking(s) /\ Steps("mlag", s) = {} /\ Steps("undo", s) = {}
    <3>1. stage = "mlag"
      BY <1>5, OneKind
    <3> QED
      BY <2>2, <3>1, OneKind DEF Asking, Steps
  <2>4. s \notin torn => sw[s].mlag = AllSteps
    BY <2>1, <2>3 DEF MlagOk, Settled
  <2>5. sw'[s].mlag = sw[s].mlag
    BY <1>1, <1>5 DEF Does
  <2>6. ~Asking(s)' /\ Steps("mlag", s)' = {} /\ Steps("undo", s)' = {}
    BY <2>3 DEF Asking, Steps
  <2> QED
    BY <1>2, <2>4, <2>5, <2>6 DEF MlagOk, Settled
<1>6. CASE c.sw = s /\ c.do \in {"mlag", "undo"}
  <2>1. PICK x \in AllSteps : c.arg = {x}
    BY <1>6 DEF Planned, WellPlanned, Spelled, AllSteps
  <2>2. ~Asking(s) /\ ~Asking(s)'
    <3>1. ASSUME NEW d \in plan, d.do = "ask", d.sw = s
          PROVE  FALSE
      <4>1. d.n < c.n
        BY <1>6, <3>1 DEF Planned, WellPlanned, Arranged
      <4> QED
        BY <1>3, <4>1
    <3> QED
      BY <3>1 DEF Asking
  <2>3. x \in Steps(c.do, s)
    BY <1>6, <2>1 DEF Steps
  <2>4. \A d \in plan : d.do = c.do /\ d.sw = s /\ d.arg = {x} => d = c
    BY <1>6, <2>1 DEF Planned, WellPlanned, Arranged
  <2>5. CASE c.do = "mlag"
    <3>1. Steps("mlag", s)' = Steps("mlag", s) \ {x}
      <4>1. ASSUME NEW y \in AllSteps
            PROVE  y \in Steps("mlag", s)' <=> y \in Steps("mlag", s) \ {x}
        BY <1>6, <2>1, <2>4, <2>5, <4>1 DEF Steps
      <4>2. Steps("mlag", s)' \subseteq AllSteps /\ Steps("mlag", s) \subseteq AllSteps
        BY DEF Steps
      <4> QED
        BY <4>1, <4>2
    <3>2. Steps("undo", s)' = {}
      <4>1. stage = "mlag"
        BY <2>5, OneKind
      <4>2. Steps("undo", s) = {}
        BY <4>1, OneKind
      <4> QED
        BY <4>2 DEF Steps
    <3>3. CASE take
      <4>1. sw'[s].mlag = sw[s].mlag \cup {x} /\ sw'[s].enabled = sw[s].enabled
        BY <1>1, <1>6, <2>1, <2>5, <3>3 DEF Does
      <4>2. s \notin torn => sw[s].mlag = AllSteps \ Steps("mlag", s) /\ ~sw[s].enabled
        BY <2>2, <2>3, <2>5 DEF MlagOk
      <4>3. s \notin torn' => sw'[s].mlag = AllSteps \ Steps("mlag", s)' /\ ~sw'[s].enabled
        BY <1>2, <2>1, <3>1, <4>1, <4>2
      <4>4. sw'[s].mlag \subseteq AllSteps
        BY <2>1, <4>1 DEF MlagOk
      <4>5. Steps("mlag", s)' = {} => AllSteps \ Steps("mlag", s)' = AllSteps
        OBVIOUS
      <4> QED
        BY <2>2, <3>2, <4>3, <4>4, <4>5 DEF MlagOk, Settled
    <3>4. CASE ~take
      <4>1. s \in torn' /\ sw'[s].mlag \subseteq AllSteps
        BY <1>1, <1>2, <1>6, <3>4 DEF MlagOk
      <4> QED
        BY <4>1 DEF MlagOk
    <3> QED
      BY <3>3, <3>4
  <2>6. CASE c.do = "undo"
    <3>1. Steps("undo", s)' = Steps("undo", s) \ {x}
      <4>1. ASSUME NEW y \in AllSteps
            PROVE  y \in Steps("undo", s)' <=> y \in Steps("undo", s) \ {x}
        BY <1>6, <2>1, <2>4, <2>6, <4>1 DEF Steps
      <4>2. Steps("undo", s)' \subseteq AllSteps /\ Steps("undo", s) \subseteq AllSteps
        BY DEF Steps
      <4> QED
        BY <4>1, <4>2
    <3>2. Steps("mlag", s)' = {}
      <4>1. stage = "unmlag"
        BY <2>6, OneKind
      <4>2. Steps("mlag", s) = {}
        BY <4>1, OneKind
      <4> QED
        BY <4>2 DEF Steps
    <3>3. CASE take
      <4>1. sw'[s].mlag = sw[s].mlag \ {x} /\ ~sw'[s].enabled
        BY <1>1, <1>6, <2>1, <2>6, <3>3 DEF Does
      <4>2. s \notin torn => sw[s].mlag = Steps("undo", s)
        BY <2>2, <2>3, <2>6 DEF MlagOk
      <4>3. s \notin torn' => sw'[s].mlag = Steps("undo", s)'
        BY <1>2, <3>1, <4>1, <4>2
      <4>4. sw'[s].mlag \subseteq AllSteps
        BY <4>1 DEF MlagOk
      <4> QED
        BY <2>2, <3>2, <4>1, <4>3, <4>4 DEF MlagOk, Settled
    <3>4. CASE ~take
      <4>1. s \in torn' /\ sw'[s].mlag \subseteq AllSteps
        BY <1>1, <1>2, <1>6, <3>4 DEF MlagOk
      <4> QED
        BY <4>1 DEF MlagOk
    <3> QED
      BY <3>3, <3>4
  <2> QED
    BY <1>6, <2>5, <2>6
<1> QED
  BY <1>4, <1>5, <1>6

\* Every step keeps MlagInv.
LEMMA MlagStep ==
  ASSUME Staged, Planned, MlagInv, [DataNext]_dataVars
  PROVE  MlagInv'
<1> SUFFICES ASSUME NEW s \in Switches
             PROVE  MlagOk(s)'
  BY DEF MlagInv
<1>0. MlagOk(s)
  BY DEF MlagInv
<1>1. CASE Start
  <2>1. UNCHANGED <<plan, sw, torn>>
    BY <1>1, StartIs
  <2> QED
    BY <1>0, <2>1, QuietMlag
<1>2. CASE Take
  BY <1>0, <1>2, TakeMlag
<1>3. CASE NextStage
  <2>1. UNCHANGED <<plan, sw, torn>>
    <3>1. plan = {} /\ UNCHANGED <<sw, torn>>
      BY <1>3 DEF NextStage
    <3>2. plan' = plan \/ plan' = {}
      BY <1>3, NextStageIs DEF Stop
    <3> QED
      BY <3>1, <3>2
  <2> QED
    BY <1>0, <2>1, QuietMlag
<1>4. ASSUME NEW c \in plan, Ask(c)
      PROVE  MlagOk(s)'
  BY <1>0, <1>4, AskMlag
<1>5. ASSUME NEW c \in plan, Skip(c)
      PROVE  MlagOk(s)'
  <2>1. UNCHANGED <<sw, torn>> /\ plan' = plan \ {c} /\ c.do = "enable"
    BY <1>5 DEF Skip, Skipped
  <2>2. \A d : d.do \in {"ask", "mlag", "undo"} => (d \in plan' <=> d \in plan)
    BY <2>1
  <2> QED
    BY <1>0, <2>1, <2>2, QuietMlag
<1>6. ASSUME NEW c \in plan, Break(c)
      PROVE  MlagOk(s)'
  <2>1. UNCHANGED sw /\ torn' = torn \cup Midway /\ plan' = {}
    BY <1>6 DEF Break, Stop
  <2> QED
    BY <1>0, <2>1, StopMlag
<1>7. ASSUME NEW c \in plan, CheckJoined(c)
      PROVE  MlagOk(s)'
  <2>1. UNCHANGED <<sw, torn>> /\ plan' = plan \ {c} /\ c.do = "joined"
    BY <1>7 DEF CheckJoined
  <2>2. \A d : d.do \in {"ask", "mlag", "undo"} => (d \in plan' <=> d \in plan)
    BY <2>1
  <2> QED
    BY <1>0, <2>1, <2>2, QuietMlag
<1>8. ASSUME NEW c \in plan, Due(c), NEW take \in BOOLEAN, Send(c, take)
      PROVE  MlagOk(s)'
  <2>1. CASE plan' = plan \ {c} /\ torn' = IF take THEN torn ELSE torn \cup Cut(c)
    BY <1>0, <1>8, <2>1, SendMlag
  <2>2. CASE Stop("failed") /\ Fatal(c) /\ torn' = torn \cup Midway /\ ~Checks(c, sw'[c.sw])
    <3>1. c.do \in {"vlan", "novlan", "access", "mlag"} /\ plan' = {}
      BY <2>2 DEF Fatal, IpLinkVlan, Stop
    <3>2. sw'[s] = IF s = c.sw /\ take THEN Does(sw[s], c) ELSE sw[s]
      BY <1>8, SendIs
    <3>3. CASE c.do # "mlag"
      <4>1. \A d \in plan : d.do \notin {"ask", "mlag", "undo"}
        BY <1>8, <3>1, <3>3 DEF Planned, WellPlanned, Spelled, Word
      <4>2. sw'[s].mlag = sw[s].mlag
        BY <3>1, <3>2, <3>3 DEF Does
      <4>3. sw'[s].enabled = sw[s].enabled
        <5>1. Does(sw[s], c).enabled = sw[s].enabled
          BY <3>1, <3>3 DEF Does
        <5> QED
          BY <3>2, <5>1
      <4>4. torn \subseteq torn'
        BY <2>2
      <4> QED
        BY <1>0, <3>1, <4>1, <4>2, <4>3, <4>4, QuietMlag
    <3>4. CASE c.do = "mlag"
      <4>1. c.arg = {"mlagvlan"} /\ c.sw \in Switches
        BY <1>8, <2>2, <3>4, SendIs DEF Fatal, IpLinkVlan
      <4>2. "mlagvlan" \notin sw'[c.sw].mlag
        BY <2>2, <3>4, <4>1 DEF Checks, IpLinkVlan
      <4>3. \A r \in Switches : sw'[r] = IF r = c.sw /\ take THEN Does(sw[r], c) ELSE sw[r]
        BY <1>8, SendIs
      <4>4. ~take
        <5>1. Does(sw[c.sw], c).mlag = sw[c.sw].mlag \cup {"mlagvlan"}
          BY <3>4, <4>1 DEF Does
        <5> QED
          BY <4>1, <4>2, <4>3, <5>1
      <4>5. sw' = sw
        <5>1. sw' = [r \in Switches |-> sw'[r]]
          BY <1>8 DEF Send, Staged
        <5> QED
          BY <4>3, <4>4, <5>1 DEF Staged
      <4> QED
        BY <1>0, <2>2, <3>1, <4>5, StopMlag
    <3> QED
      BY <3>3, <3>4
  <2> QED
    BY <1>8, <2>1, <2>2, SendIs
<1>9. CASE Kill
  <2>1. UNCHANGED sw /\ torn' = torn \cup Midway /\ plan' = {}
    BY <1>9 DEF Kill, Stop
  <2> QED
    BY <1>0, <2>1, StopMlag
<1>10. CASE UNCHANGED dataVars
  <2>1. UNCHANGED <<plan, sw, torn>>
    BY <1>10 DEF dataVars
  <2> QED
    BY <1>0, <2>1, QuietMlag
<1> QED
  BY <1>1, <1>2, <1>3, <1>4, <1>5, <1>6, <1>7, <1>8, <1>9, <1>10 DEF DataNext, Command

\* MlagInv is more than MlagWhole.
LEMMA MlagInvWhole ==
  ASSUME MlagInv
  PROVE  MlagWhole
<1> SUFFICES ASSUME NEW s \in Switches \ torn, sw[s].enabled
             PROVE  sw[s].mlag = AllSteps
  BY DEF MlagWhole, AllSteps
<1>1. MlagOk(s)
  BY DEF MlagInv
<1> QED
  BY <1>1 DEF MlagOk, Settled

\* A deconfigure that nothing was refused to.
Unrefused == op = "deconfigure" /\ left.refusals = Refusals

\* A vlan of a port, its mode, a channel and MLAG: gone, or about to go.
VlanGone(s, p, v) ==
  \/ stage = "delete" /\ <<s, v>> \in todo
  \/ \E c \in plan : c.do = "novlan" /\ c.sw = s /\ v \in c.arg
  \/ v \notin sw[s].vlans

TrunkGone(s, p) ==
  \/ stage = "unvlan" /\ <<s, p>> \in todo
  \/ Pending("access", s, p) \/ InChannel(s, p) \/ p \notin sw[s].trunk

ChannelGone(s, g) ==
  \/ stage = "unchannel" /\ <<s, g, FALSE>> \in todo
  \/ Pending("rm_chan", s, ChanNum(g)) \/ ChanNum(g) \notin sw[s].chans

MlagGone(s) ==
  \/ stage = "unmlag" /\ {s} \cup Peer(cfg, s) \in todo
  \/ Asking(s)
  \/ s \in configured => /\ sw[s].mlag \subseteq Steps("undo", s)
                         /\ sw[s].enabled => Steps("undo", s) = AllSteps

\* What a deconfigure has been through is gone, or about to go.
VlanGoneInv ==
  Unrefused /\ stage \in {"delete", "unmtu"} =>
    \A s \in DOMAIN cfg.links : \A p \in VlanPorts(cfg, s) : \A v \in VlansOn(cfg, s, p) :
      VlanGone(s, p, v)

TrunkGoneInv ==
  Unrefused /\ stage \in {"unvlan", "delete", "unmtu"} =>
    \A s \in DOMAIN cfg.links : \A p \in VlanPorts(cfg, s) : TrunkGone(s, p)

ChannelGoneInv ==
  Unrefused => \A s \in DOMAIN cfg.links : \A g \in ChanGroups(cfg, s, FALSE) : ChannelGone(s, g)

MlagGoneInv ==
  Unrefused /\ stage # "unchannel" =>
    \A s \in DOMAIN cfg.links : Peer(cfg, s) # {} => MlagGone(s)

GoneInv == VlanGoneInv /\ TrunkGoneInv /\ ChannelGoneInv /\ MlagGoneInv

\* Each port, vlan and pair is a task of its own.
LEMMA DeconfigureTasks ==
  ASSUME NEW c, NEW s \in DOMAIN c.links
  PROVE  /\ \A p \in VlanPorts(c, s) : <<s, p>> \in Tasks(c, "unvlan")
         /\ \A p \in VlanPorts(c, s) : \A v \in VlansOn(c, s, p) : <<s, v>> \in Tasks(c, "delete")
         /\ Peer(c, s) # {} => {s} \cup Peer(c, s) \in Tasks(c, "unmlag")
<1>1. \A p \in VlanPorts(c, s) : <<s, p>> \in Tasks(c, "unvlan")
  BY DEF Tasks
<1>2. ASSUME NEW p \in VlanPorts(c, s), NEW v \in VlansOn(c, s, p)
      PROVE  <<s, v>> \in Tasks(c, "delete")
  <2> DEFINE all(r) == {<<r, w>> : w \in UNION {VlansOn(c, r, q) : q \in VlanPorts(c, r)}}
  <2>1. Tasks(c, "delete") = UNION {all(r) : r \in DOMAIN c.links}
    BY DEF Tasks
  <2>2. v \in UNION {VlansOn(c, s, q) : q \in VlanPorts(c, s)}
    OBVIOUS
  <2>3. <<s, v>> \in all(s)
    BY <2>2 DEF all
  <2> HIDE DEF all
  <2> QED
    BY <2>1, <2>3
<1>3. ASSUME Peer(c, s) # {}
      PROVE  {s} \cup Peer(c, s) \in Tasks(c, "unmlag")
  <2> DEFINE all(r) == {pair \in Pairs(c) : r \in pair}
  <2>1. Tasks(c, "unmlag") = UNION {all(r) : r \in DOMAIN c.links}
    BY DEF Tasks
  <2>2. {s} \cup Peer(c, s) \in Pairs(c)
    BY <1>3 DEF Pairs
  <2>3. {s} \cup Peer(c, s) \in all(s)
    BY <2>2 DEF all
  <2> HIDE DEF all
  <2> QED
    BY <2>1, <2>3
<1> QED
  BY <1>1, <1>2, <1>3

\* A deconfigure sends no commands of a configure.
LEMMA UnrefusedWords ==
  ASSUME Staged, Planned, op = "deconfigure", NEW c \in plan
  PROVE  /\ c.do \in {"ask", "rm_own", "rm_chan", "unmlag", "undo", "forbid", "access", "novlan",
                       "down", "mtu", "up"}
         /\ c.do = "ask" => stage \in {"unchannel", "unmlag"}
         /\ c.do = "rm_chan" => stage = "unchannel"
  BY DEF Staged, Planned, WellPlanned, Spelled, Word

\* What removes no vlan, mode or channel keeps the parts about them.
LEMMA QuietPorts ==
  ASSUME GoneInv, UNCHANGED <<cfg, op, stage, todo, sw>>, left'.refusals = left.refusals,
         \A d : d.do \in {"novlan", "access", "rm_chan"} => (d \in plan' <=> d \in plan)
  PROVE  VlanGoneInv' /\ TrunkGoneInv' /\ ChannelGoneInv'
<1>0. Unrefused' <=> Unrefused
  BY DEF Unrefused
<1>1. VlanGoneInv'
  <2>1. ASSUME NEW s, NEW p, NEW v, VlanGone(s, p, v)
        PROVE  VlanGone(s, p, v)'
    BY <2>1 DEF VlanGone
  <2> QED
    BY <1>0, <2>1 DEF GoneInv, VlanGoneInv
<1>2. TrunkGoneInv'
  <2>1. ASSUME NEW s, NEW p, TrunkGone(s, p)
        PROVE  TrunkGone(s, p)'
    <3>1. (Pending("access", s, p)' <=> Pending("access", s, p)) /\ (InChannel(s, p)' <=> InChannel(s, p))
      BY DEF Pending, InChannel
    <3> QED
      BY <2>1, <3>1 DEF TrunkGone
  <2> QED
    BY <1>0, <2>1 DEF GoneInv, TrunkGoneInv
<1>3. ChannelGoneInv'
  <2>1. ASSUME NEW s, NEW g, ChannelGone(s, g)
        PROVE  ChannelGone(s, g)'
    <3>1. Pending("rm_chan", s, ChanNum(g))' <=> Pending("rm_chan", s, ChanNum(g))
      BY DEF Pending
    <3> QED
      BY <2>1, <3>1 DEF ChannelGone
  <2> QED
    BY <1>0, <2>1 DEF GoneInv, ChannelGoneInv
<1> QED
  BY <1>1, <1>2, <1>3

\* What touches no command of a removal keeps GoneInv.
LEMMA QuietGone ==
  ASSUME GoneInv, UNCHANGED <<cfg, op, stage, todo, sw, configured>>,
         left'.refusals = left.refusals,
         \A d : d.do \in {"novlan", "access", "rm_chan", "ask", "undo"} => (d \in plan' <=> d \in plan)
  PROVE  GoneInv'
<1>0. Unrefused' <=> Unrefused
  BY DEF Unrefused
<1>1. VlanGoneInv' /\ TrunkGoneInv' /\ ChannelGoneInv'
  BY QuietPorts
<1>4. MlagGoneInv'
  <2>1. ASSUME NEW s, MlagGone(s)
        PROVE  MlagGone(s)'
    <3>1. Asking(s)' <=> Asking(s)
      BY DEF Asking
    <3>2. Steps("undo", s)' = Steps("undo", s)
      BY DEF Steps
    <3> QED
      BY <2>1, <3>1, <3>2 DEF MlagGone
  <2> QED
    BY <1>0, <2>1 DEF GoneInv, MlagGoneInv
<1> QED
  BY <1>1, <1>4 DEF GoneInv

\* A task that is taken has its command pending.
LEMMA TakeGone ==
  ASSUME Staged, Take, GoneInv
  PROVE  GoneInv'
<1>1. PICK t \in todo : todo' = todo \ {t} /\ plan' \in Plans(t)
  BY DEF Take
<1>2. plan = {} /\ UNCHANGED <<cfg, op, stage, sw, configured, left>>
  BY DEF Take, run
<1>0. Unrefused' <=> Unrefused
  BY <1>2 DEF Unrefused
<1>3. VlanGoneInv'
  <2>1. ASSUME NEW s, NEW p, NEW v, VlanGone(s, p, v)
        PROVE  VlanGone(s, p, v)'
    <3>1. CASE stage = "delete" /\ t = <<s, v>>
      <4>1. plan' = {Cmd(1, "novlan", s, 0, {v})}
        BY <1>1, <3>1 DEF Plans
      <4> QED
        BY <4>1 DEF VlanGone, Cmd
    <3>2. CASE ~(stage = "delete" /\ t = <<s, v>>)
      BY <1>1, <1>2, <2>1, <3>2 DEF VlanGone
    <3> QED
      BY <3>1, <3>2
  <2> QED
    BY <1>0, <1>2, <2>1 DEF GoneInv, VlanGoneInv
<1>4. TrunkGoneInv'
  <2>1. ASSUME NEW s, NEW p, TrunkGone(s, p)
        PROVE  TrunkGone(s, p)'
    <3>1. CASE stage = "unvlan" /\ t = <<s, p>>
      <4>1. plan' = UnvlanPlan(s, p)
        BY <1>1, <3>1 DEF Plans
      <4>2. Cmd(2, "access", s, p, {}) \in plan'
        BY <4>1 DEF UnvlanPlan
      <4>3. Pending("access", s, p)'
        BY <4>2 DEF Pending, Cmd
      <4> QED
        BY <4>3 DEF TrunkGone
    <3>2. CASE ~(stage = "unvlan" /\ t = <<s, p>>)
      <4>1. ~Pending("access", s, p) /\ (InChannel(s, p)' <=> InChannel(s, p))
        BY <1>2 DEF Pending, InChannel
      <4> QED
        BY <1>1, <1>2, <2>1, <3>2, <4>1 DEF TrunkGone
    <3> QED
      BY <3>1, <3>2
  <2> QED
    BY <1>0, <1>2, <2>1 DEF GoneInv, TrunkGoneInv
<1>5. ChannelGoneInv'
  <2>1. ASSUME NEW s, NEW g, ChannelGone(s, g)
        PROVE  ChannelGone(s, g)'
    <3>1. CASE stage = "unchannel" /\ t = <<s, g, FALSE>>
      <4>1. t[1] = s /\ t[2] = g /\ t[3] = FALSE
        BY <3>1
      <4>2. plan' = {Cmd(1, "rm_chan", s, ChanNum(g), {})}
        BY <1>1, <3>1, <4>1 DEF Plans, UnchannelPlan
      <4>3. Pending("rm_chan", s, ChanNum(g))'
        BY <4>2 DEF Pending, Cmd
      <4> QED
        BY <4>3 DEF ChannelGone
    <3>2. CASE ~(stage = "unchannel" /\ t = <<s, g, FALSE>>)
      <4>1. ~Pending("rm_chan", s, ChanNum(g))
        BY <1>2 DEF Pending
      <4> QED
        BY <1>1, <1>2, <2>1, <3>2, <4>1 DEF ChannelGone
    <3> QED
      BY <3>1, <3>2
  <2> QED
    BY <1>0, <1>2, <2>1 DEF GoneInv, ChannelGoneInv
<1>6. MlagGoneInv'
  <2>1. ASSUME NEW s, Peer(cfg, s) # {}, MlagGone(s)
        PROVE  MlagGone(s)'
    <3>1. CASE stage = "unmlag" /\ t = {s} \cup Peer(cfg, s)
      <4>1. PICK a, b : a \in t /\ b \in t \ {a} /\ plan' = UnmlagPlan(a, b)
        BY <1>1, <3>1 DEF Plans
      <4>2. PICK x : Peer(cfg, s) = {x}
        BY <2>1 DEF Peer
      <4>3. s \in {a, b}
        BY <3>1, <4>1, <4>2
      <4>4. Cmd(0, "ask", a, 0, {}) \in plan' /\ Cmd(20, "ask", b, 0, {}) \in plan'
        BY <4>1 DEF UnmlagPlan, UnmlagOne
      <4>5. Asking(s)'
        BY <4>3, <4>4 DEF Asking, Cmd
      <4> QED
        BY <4>5 DEF MlagGone
    <3>2. CASE ~(stage = "unmlag" /\ t = {s} \cup Peer(cfg, s))
      <4>1. ~Asking(s) /\ Steps("undo", s) = {}
        BY <1>2 DEF Asking, Steps
      <4>2. AllSteps # {}
        BY StepsAre DEF AllSteps
      <4>3. stage = "unmlag" /\ {s} \cup Peer(cfg, s) \in todo =>
              stage' = "unmlag" /\ {s} \cup Peer(cfg', s) \in todo'
        BY <1>1, <1>2, <3>2
      <4>4. CASE s \in configured => sw[s].mlag = {} /\ ~sw[s].enabled
        <5>1. s \in configured' => sw'[s].mlag = {} /\ ~sw'[s].enabled
          BY <1>2, <4>4
        <5> QED
          BY <5>1 DEF MlagGone
      <4>5. CASE stage = "unmlag" /\ {s} \cup Peer(cfg, s) \in todo
        BY <4>3, <4>5 DEF MlagGone
      <4> QED
        BY <2>1, <4>1, <4>2, <4>4, <4>5 DEF MlagGone
    <3> QED
      BY <3>1, <3>2
  <2> QED
    BY <1>0, <1>2, <2>1 DEF GoneInv, MlagGoneInv
<1> QED
  BY <1>3, <1>4, <1>5, <1>6 DEF GoneInv

\* A stage begins with all of its tasks, and what earlier ones removed is gone.
LEMMA NextStageGone ==
  ASSUME Staged, NextStage, GoneInv
  PROVE  GoneInv'
<1>1. plan = {} /\ todo = {} /\ UNCHANGED <<cfg, sw, configured, left>>
  BY DEF NextStage
<1>2. CASE ~Unrefused'
  BY <1>2 DEF GoneInv, VlanGoneInv, TrunkGoneInv, ChannelGoneInv, MlagGoneInv
<1>3. CASE Unrefused'
  <2>1. Unrefused /\ plan' = {} /\ todo' = Tasks(cfg, stage')
    BY <1>1, <1>3, NextStageIs DEF Unrefused, Stop
  <2>2. \/ stage = "unchannel" /\ stage' = "unmlag"
        \/ stage = "unmlag" /\ stage' = "unvlan"
        \/ stage = "unvlan" /\ stage' = "delete"
        \/ stage = "delete" /\ stage' = "unmtu"
    BY <1>3, <2>1, NextStageIs DEF Unrefused, Stop
  <2>3. VlanGoneInv'
    <3>1. ASSUME NEW s \in DOMAIN cfg.links, NEW p \in VlanPorts(cfg, s), NEW v \in VlansOn(cfg, s, p),
                 stage' \in {"delete", "unmtu"}
          PROVE  VlanGone(s, p, v)'
      <4>1. CASE stage' = "delete"
        <5>1. <<s, v>> \in todo'
          BY <2>1, <4>1, DeconfigureTasks
        <5> QED
          BY <4>1, <5>1 DEF VlanGone
      <4>2. CASE stage' = "unmtu"
        <5>1. VlanGone(s, p, v)
          BY <2>1, <2>2, <4>2 DEF GoneInv, VlanGoneInv
        <5> QED
          BY <1>1, <5>1 DEF VlanGone
      <4> QED
        BY <3>1, <4>1, <4>2
    <3> QED
      BY <1>1, <3>1 DEF VlanGoneInv
  <2>4. TrunkGoneInv'
    <3>1. ASSUME NEW s \in DOMAIN cfg.links, NEW p \in VlanPorts(cfg, s),
                 stage' \in {"unvlan", "delete", "unmtu"}
          PROVE  TrunkGone(s, p)'
      <4>1. CASE stage' = "unvlan"
        <5>1. <<s, p>> \in todo'
          BY <2>1, <4>1, DeconfigureTasks
        <5> QED
          BY <4>1, <5>1 DEF TrunkGone
      <4>2. CASE stage' \in {"delete", "unmtu"}
        <5>1. TrunkGone(s, p)
          BY <2>1, <2>2, <4>2 DEF GoneInv, TrunkGoneInv
        <5>2. InChannel(s, p) \/ p \notin sw[s].trunk
          BY <1>1, <5>1 DEF TrunkGone, Pending
        <5>3. InChannel(s, p)' \/ p \notin sw'[s].trunk
          BY <1>1, <5>2 DEF InChannel
        <5> QED
          BY <5>3 DEF TrunkGone
      <4> QED
        BY <3>1, <4>1, <4>2
    <3> QED
      BY <1>1, <3>1 DEF TrunkGoneInv
  <2>5. ChannelGoneInv'
    <3>1. ASSUME NEW s \in DOMAIN cfg.links, NEW g \in ChanGroups(cfg, s, FALSE)
          PROVE  ChannelGone(s, g)'
      <4>1. ChannelGone(s, g)
        BY <2>1 DEF GoneInv, ChannelGoneInv
      <4>2. ChanNum(g) \notin sw'[s].chans
        BY <1>1, <4>1 DEF ChannelGone, Pending
      <4> QED
        BY <4>2 DEF ChannelGone
    <3> QED
      BY <1>1, <3>1 DEF ChannelGoneInv
  <2>6. MlagGoneInv'
    <3>1. ASSUME NEW s \in DOMAIN cfg.links, Peer(cfg, s) # {}
          PROVE  MlagGone(s)'
      <4>1. CASE stage' = "unmlag"
        <5>1. {s} \cup Peer(cfg, s) \in todo'
          BY <2>1, <3>1, <4>1, DeconfigureTasks
        <5> QED
          BY <1>1, <4>1, <5>1 DEF MlagGone
      <4>2. CASE stage' # "unmlag"
        <5>1. MlagGone(s)
          BY <2>1, <2>2, <3>1, <4>2 DEF GoneInv, MlagGoneInv
        <5>2. s \in configured => sw[s].mlag = {} /\ ~sw[s].enabled
          <6>1. ~Asking(s) /\ Steps("undo", s) = {}
            BY <1>1 DEF Asking, Steps
          <6>2. AllSteps # {}
            BY StepsAre DEF AllSteps
          <6> QED
            BY <1>1, <5>1, <6>1, <6>2 DEF MlagGone
        <5>3. s \in configured' => sw'[s].mlag = {} /\ ~sw'[s].enabled
          BY <1>1, <5>2
        <5> QED
          BY <5>3 DEF MlagGone
      <4> QED
        BY <4>1, <4>2
    <3> QED
      BY <1>1, <3>1 DEF MlagGoneInv
  <2> QED
    BY <2>3, <2>4, <2>5, <2>6 DEF GoneInv
<1> QED
  BY <1>2, <1>3

\* With nothing refused, a command that is sent removes what it is to remove.
LEMMA SendGone ==
  ASSUME Staged, Planned, NEW c \in plan, NEW take \in BOOLEAN, Send(c, take),
         plan' = plan \ {c}, UNCHANGED <<op, stage, todo>>, GoneInv
  PROVE  GoneInv'
<1>1. UNCHANGED <<cfg, configured>> /\ c.do # "ask" /\ c.sw \in Switches
  BY SendIs
<1>2. \A s \in Switches : sw'[s] = IF s = c.sw /\ take THEN Does(sw[s], c) ELSE sw[s]
  BY SendIs
<1>3. CASE ~Unrefused'
  BY <1>3 DEF GoneInv, VlanGoneInv, TrunkGoneInv, ChannelGoneInv, MlagGoneInv
<1>4. CASE Unrefused'
  <2>1. Unrefused /\ (take <=> Takes(c))
    <3>1. /\ take => Takes(c)
          /\ ~take /\ Takes(c) => left'.refusals < left.refusals
          /\ left'.refusals <= left.refusals
      BY SendIs
    <3>2. left.refusals <= Refusals /\ left.refusals \in Nat /\ left'.refusals = Refusals
      BY <1>4 DEF Unrefused, Staged
    <3> QED
      BY <1>4, <3>1, <3>2, DataAssumption DEF Unrefused
  <2>2. /\ c.do \in {"rm_own", "rm_chan", "unmlag", "undo", "forbid", "access", "novlan", "down", "mtu", "up"}
        /\ c.do = "rm_chan" => stage = "unchannel"
    BY <1>1, <2>1, UnrefusedWords DEF Unrefused
  <2>3. c.do \in {"novlan", "rm_chan", "undo"} => take
    BY <2>1 DEF Takes
  <2>4. \A s \in DOMAIN cfg.links : s \in Switches
    BY DataAssumption DEF Staged
  <2>5. ASSUME NEW s \in Switches
        PROVE  /\ sw'[s].vlans = IF s = c.sw /\ take /\ c.do = "novlan" THEN sw[s].vlans \ c.arg ELSE sw[s].vlans
               /\ sw'[s].trunk = IF s = c.sw /\ take /\ c.do = "access" THEN sw[s].trunk \ {c.port} ELSE sw[s].trunk
               /\ c.do # "rm_chan" => sw'[s].chan = sw[s].chan
               /\ sw'[s].chans = IF s = c.sw /\ take /\ c.do = "rm_chan" THEN sw[s].chans \ {c.port} ELSE sw[s].chans
               /\ sw'[s].mlag = IF s = c.sw /\ take /\ c.do = "undo" THEN sw[s].mlag \ c.arg ELSE sw[s].mlag
    <3>1. CASE s = c.sw /\ take
      <4>1. sw'[s] = Does(sw[s], c)
        BY <1>2, <3>1
      <4>2. Does(sw[s], c).vlans = IF c.do = "novlan" THEN sw[s].vlans \ c.arg ELSE sw[s].vlans
        BY <2>2 DEF Does
      <4>3. Does(sw[s], c).trunk = IF c.do = "access" THEN sw[s].trunk \ {c.port} ELSE sw[s].trunk
        BY <2>2 DEF Does
      <4>4. c.do # "rm_chan" => Does(sw[s], c).chan = sw[s].chan
        BY <2>2 DEF Does
      <4>5. Does(sw[s], c).chans = IF c.do = "rm_chan" THEN sw[s].chans \ {c.port} ELSE sw[s].chans
        BY <2>2 DEF Does
      <4>6. Does(sw[s], c).mlag = IF c.do = "undo" THEN sw[s].mlag \ c.arg ELSE sw[s].mlag
        BY <2>2 DEF Does
      <4> QED
        BY <3>1, <4>1, <4>2, <4>3, <4>4, <4>5, <4>6
    <3>2. CASE ~(s = c.sw /\ take)
      <4>1. sw'[s] = sw[s]
        BY <1>2, <3>2
      <4> QED
        BY <3>2, <4>1
    <3> QED
      BY <3>1, <3>2
  <2>6. VlanGoneInv'
    <3>1. ASSUME NEW s \in Switches, NEW p, NEW v, VlanGone(s, p, v)
          PROVE  VlanGone(s, p, v)'
      <4>1. CASE c.do = "novlan" /\ c.sw = s /\ v \in c.arg
        <5>1. sw'[s].vlans = sw[s].vlans \ c.arg
          BY <2>3, <2>5, <4>1
        <5> QED
          BY <4>1, <5>1 DEF VlanGone
      <4>2. CASE ~(c.do = "novlan" /\ c.sw = s /\ v \in c.arg)
        <5>1. sw'[s].vlans \subseteq sw[s].vlans
          BY <2>5
        <5> QED
          BY <3>1, <4>2, <5>1 DEF VlanGone
      <4> QED
        BY <4>1, <4>2
    <3> QED
      BY <1>1, <2>1, <2>4, <3>1 DEF GoneInv, VlanGoneInv
  <2>7. TrunkGoneInv'
    <3>1. ASSUME NEW s \in Switches, NEW p, TrunkGone(s, p), stage \in {"unvlan", "delete", "unmtu"}
          PROVE  TrunkGone(s, p)'
      <4>1. sw'[s].chan = sw[s].chan /\ sw'[s].trunk \subseteq sw[s].trunk
        BY <2>2, <2>5, <3>1
      <4>2. InChannel(s, p)' <=> InChannel(s, p)
        BY <4>1 DEF InChannel
      <4>3. CASE c.do = "access" /\ c.sw = s /\ c.port = p
        <5>1. CASE InChannel(s, p)
          BY <4>2, <5>1 DEF TrunkGone
        <5>2. CASE ~InChannel(s, p)
          <6>1. take
            BY <2>1, <4>3, <5>2 DEF Takes
          <6>2. sw'[s].trunk = sw[s].trunk \ {p}
            BY <2>5, <4>3, <6>1
          <6> QED
            BY <6>2 DEF TrunkGone
        <5> QED
          BY <5>1, <5>2
      <4>4. CASE ~(c.do = "access" /\ c.sw = s /\ c.port = p)
        <5>1. Pending("access", s, p) => Pending("access", s, p)'
          BY <4>4 DEF Pending
        <5> QED
          BY <3>1, <4>1, <4>2, <5>1 DEF TrunkGone
      <4> QED
        BY <4>3, <4>4
    <3> QED
      BY <1>1, <2>1, <2>4, <3>1 DEF GoneInv, TrunkGoneInv
  <2>8. ChannelGoneInv'
    <3>1. ASSUME NEW s \in Switches, NEW g, ChannelGone(s, g)
          PROVE  ChannelGone(s, g)'
      <4>1. CASE c.do = "rm_chan" /\ c.sw = s /\ c.port = ChanNum(g)
        <5>1. sw'[s].chans = sw[s].chans \ {ChanNum(g)}
          BY <2>3, <2>5, <4>1
        <5> QED
          BY <5>1 DEF ChannelGone
      <4>2. CASE ~(c.do = "rm_chan" /\ c.sw = s /\ c.port = ChanNum(g))
        <5>1. Pending("rm_chan", s, ChanNum(g)) => Pending("rm_chan", s, ChanNum(g))'
          BY <4>2 DEF Pending
        <5>2. sw'[s].chans \subseteq sw[s].chans
          BY <2>5
        <5> QED
          BY <3>1, <5>1, <5>2 DEF ChannelGone
      <4> QED
        BY <4>1, <4>2
    <3> QED
      BY <1>1, <2>1, <2>4, <3>1 DEF GoneInv, ChannelGoneInv
  <2>9. MlagGoneInv'
    <3>1. ASSUME NEW s \in Switches, MlagGone(s)
          PROVE  MlagGone(s)'
      <4>1. Asking(s)' <=> Asking(s)
        BY <1>1 DEF Asking
      <4>2. CASE c.do = "undo" /\ c.sw = s
        <5>1. PICK x \in AllSteps : c.arg = {x}
          BY <4>2 DEF Planned, WellPlanned, Spelled, AllSteps
        <5>2. sw'[s].mlag = sw[s].mlag \ {x} /\ ~sw'[s].enabled
          <6>1. sw'[s].mlag = sw[s].mlag \ {x}
            BY <2>3, <2>5, <4>2, <5>1
          <6>2. ~Does(sw[s], c).enabled
            BY <4>2 DEF Does
          <6> QED
            BY <1>2, <2>3, <4>2, <6>1, <6>2
        <5>3. \A y \in Steps("undo", s) : y # x => y \in Steps("undo", s)'
          BY <5>1 DEF Steps
        <5>4. CASE s \in configured => sw[s].mlag \subseteq Steps("undo", s)
          <6>1. s \in configured' => sw'[s].mlag \subseteq Steps("undo", s)'
            BY <1>1, <5>2, <5>3, <5>4
          <6> QED
            BY <5>2, <6>1 DEF MlagGone
        <5>5. CASE Asking(s) \/ (stage = "unmlag" /\ {s} \cup Peer(cfg, s) \in todo)
          BY <1>1, <4>1, <5>5 DEF MlagGone
        <5> QED
          BY <3>1, <5>4, <5>5 DEF MlagGone
      <4>3. CASE ~(c.do = "undo" /\ c.sw = s)
        <5>1. sw'[s].mlag = sw[s].mlag
          BY <2>5, <4>3
        <5>2. sw'[s].enabled = sw[s].enabled
          <6>1. CASE s = c.sw /\ take
            <7>1. Does(sw[s], c).enabled = sw[s].enabled
              BY <2>2, <4>3, <6>1 DEF Does
            <7> QED
              BY <1>2, <6>1, <7>1
          <6>2. CASE ~(s = c.sw /\ take)
            BY <1>2, <6>2
          <6> QED
            BY <6>1, <6>2
        <5>3. Steps("undo", s)' = Steps("undo", s)
          BY <4>3 DEF Steps
        <5> QED
          BY <1>1, <3>1, <4>1, <5>1, <5>2, <5>3 DEF MlagGone
      <4> QED
        BY <4>2, <4>3
    <3> QED
      BY <1>1, <2>1, <2>4, <3>1 DEF GoneInv, MlagGoneInv
  <2> QED
    BY <2>6, <2>7, <2>8, <2>9 DEF GoneInv
<1> QED
  BY <1>3, <1>4

\* A switch that has MLAG has all of its removal ahead; one that says no is
\* not counted as configured.
LEMMA AskGone ==
  ASSUME Staged, Planned, MlagInv, NEW c \in plan, Ask(c), GoneInv
  PROVE  GoneInv'
<1>1. PICK has \in BOOLEAN :
        /\ configured' = IF has THEN configured \cup {c.sw} ELSE configured \ {c.sw}
        /\ plan' = {d \in plan \ {c} :
                      d.sw = c.sw => d.do \notin IF has THEN {"mlag"} ELSE {"unmlag", "undo", "rm_own"}}
  BY DEF Ask
<1>2. UNCHANGED <<cfg, op, stage, todo, sw, left>> /\ c.do = "ask"
  BY DEF Ask, run
<1>3. \A d : d.do \in {"novlan", "access", "rm_chan"} => (d \in plan' <=> d \in plan)
  BY <1>1, <1>2
<1>4. VlanGoneInv' /\ TrunkGoneInv' /\ ChannelGoneInv'
  BY <1>2, <1>3, QuietPorts
<1>5. MlagGoneInv'
  <2>1. ASSUME NEW s \in Switches, Unrefused, stage # "unchannel", MlagGone(s)
        PROVE  MlagGone(s)'
    <3>1. CASE s # c.sw
      <4>1. \A d : d.sw = s => (d \in plan' <=> d \in plan)
        BY <1>1, <3>1
      <4>2. (Asking(s)' <=> Asking(s)) /\ Steps("undo", s)' = Steps("undo", s)
        BY <4>1 DEF Asking, Steps
      <4>3. s \in configured' <=> s \in configured
        BY <1>1, <3>1
      <4> QED
        BY <1>2, <2>1, <4>2, <4>3 DEF MlagGone
    <3>2. CASE s = c.sw /\ ~has
      <4>1. s \notin configured'
        BY <1>1, <3>2
      <4> QED
        BY <4>1 DEF MlagGone
    <3>3. CASE s = c.sw /\ has
      <4>1. stage = "unmlag"
        BY <1>2, <2>1, UnrefusedWords DEF Unrefused
      <4>2. ASSUME NEW x \in AllSteps
            PROVE  \E d \in plan' : d.do = "undo" /\ d.sw = s /\ d.arg = {x}
        <5>1. PICK d \in plan : d.do = "undo" /\ d.sw = s /\ d.arg = {x}
          BY <1>2, <3>3, <4>1 DEF Planned, WellPlanned, Full, AllSteps
        <5> QED
          BY <1>1, <1>2, <3>3, <5>1
      <4>3. Steps("undo", s)' = AllSteps
        BY <4>2 DEF Steps
      <4>4. sw'[s].mlag \subseteq AllSteps
        BY <1>2 DEF MlagInv, MlagOk
      <4> QED
        BY <4>3, <4>4 DEF MlagGone
    <3> QED
      BY <3>1, <3>2, <3>3
  <2>2. \A s \in DOMAIN cfg.links : s \in Switches
    BY DataAssumption DEF Staged
  <2>3. Unrefused' <=> Unrefused
    BY <1>2 DEF Unrefused
  <2> QED
    BY <1>2, <2>1, <2>2, <2>3 DEF GoneInv, MlagGoneInv
<1> QED
  BY <1>4, <1>5 DEF GoneInv

\* Every step keeps GoneInv.
LEMMA GoneStep ==
  ASSUME Staged, Planned, MlagInv, GoneInv, [DataNext]_dataVars
  PROVE  GoneInv'
<1>0. ASSUME op' = "none"
      PROVE  GoneInv'
  BY <1>0 DEF GoneInv, VlanGoneInv, TrunkGoneInv, ChannelGoneInv, MlagGoneInv, Unrefused
<1>1. CASE Start
  <2>1. todo' = Tasks(cfg', stage') /\ stage' \in {"vlans", "unchannel"}
        /\ (op' = "deconfigure" => stage' = "unchannel")
    BY <1>1, StartIs
  <2>2. VlanGoneInv' /\ TrunkGoneInv' /\ MlagGoneInv'
    BY <2>1 DEF VlanGoneInv, TrunkGoneInv, MlagGoneInv, Unrefused
  <2>3. ChannelGoneInv'
    <3>1. ASSUME op' = "deconfigure", NEW s \in DOMAIN cfg'.links, NEW g \in ChanGroups(cfg', s, FALSE)
          PROVE  stage' = "unchannel" /\ <<s, g, FALSE>> \in todo'
      BY <2>1, <3>1, ChanTasks
    <3> QED
      BY <3>1 DEF ChannelGoneInv, ChannelGone, Unrefused
  <2> QED
    BY <2>2, <2>3 DEF GoneInv
<1>2. CASE Take
  BY <1>2, TakeGone
<1>3. CASE NextStage
  BY <1>3, NextStageGone
<1>4. ASSUME NEW c \in plan, Ask(c)
      PROVE  GoneInv'
  BY <1>4, AskGone
<1>5. ASSUME NEW c \in plan, Skip(c)
      PROVE  GoneInv'
  <2>1. /\ UNCHANGED <<cfg, op, stage, todo, sw, configured, left>>
        /\ plan' = plan \ {c} /\ c.do = "enable"
    BY <1>5 DEF Skip, Skipped, run
  <2> QED
    BY <2>1, QuietGone
<1>6. ASSUME NEW c \in plan, Break(c)
      PROVE  GoneInv'
  BY <1>0, <1>6 DEF Break, Stop
<1>7. ASSUME NEW c \in plan, CheckJoined(c)
      PROVE  GoneInv'
  <2>1. /\ UNCHANGED <<cfg, op, stage, todo, sw, configured, left>>
        /\ plan' = plan \ {c} /\ c.do = "joined"
    BY <1>7 DEF CheckJoined, run
  <2> QED
    BY <2>1, QuietGone
<1>8. ASSUME NEW c \in plan, NEW take \in BOOLEAN, Send(c, take)
      PROVE  GoneInv'
  <2>1. CASE Stop("failed")
    BY <1>0, <2>1 DEF Stop
  <2>2. CASE plan' = plan \ {c} /\ UNCHANGED <<op, stage, todo, end>>
    BY <1>8, <2>2, SendGone
  <2> QED
    BY <1>8, <2>1, <2>2, SendIs
<1>9. CASE Kill
  BY <1>0, <1>9 DEF Kill, Stop
<1>10. CASE UNCHANGED dataVars
  <2>1. UNCHANGED <<cfg, op, stage, todo, sw, configured, left, plan>>
    BY <1>10 DEF dataVars, run
  <2> QED
    BY <2>1, QuietGone
<1> QED
  BY <1>1, <1>2, <1>3, <1>4, <1>5, <1>6, <1>7, <1>8, <1>9, <1>10 DEF DataNext, Command

\* A run that has ended with a deconfigure stays as it ended.
LEMMA CleanStep ==
  ASSUME Staged, GoneInv, DeconfigureClean, [DataNext]_dataVars
  PROVE  DeconfigureClean'
<1>1. ASSUME end' # "deconfigure"
      PROVE  DeconfigureClean'
  BY <1>1 DEF DeconfigureClean
<1>2. ASSUME op # "none", UNCHANGED end
      PROVE  DeconfigureClean'
  BY <1>1, <1>2 DEF Staged
<1>3. CASE Start
  BY <1>1, <1>3, StartIs
<1>4. CASE Take
  BY <1>2, <1>4 DEF Take
<1>5. CASE NextStage
  <2>1. UNCHANGED <<cfg, sw, configured, left>> /\ plan = {} /\ todo = {} /\ op # "none"
    BY <1>5 DEF NextStage
  <2>2. CASE end' = end
    BY <1>2, <2>1, <2>2
  <2>3. CASE end' # end /\ end' = "deconfigure" /\ left.refusals = Refusals
    <3>1. Unrefused /\ stage = "unmtu"
      BY <1>5, <2>3, NextStageIs DEF Stop, Unrefused
    <3>2. ASSUME NEW s \in DOMAIN cfg.links, NEW p \in VlanPorts(cfg, s)
          PROVE  /\ VlansOn(cfg, s, p) \cap sw[s].vlans = {}
                 /\ ~InChannel(s, p) => p \notin sw[s].trunk
      <4>1. TrunkGone(s, p)
        BY <3>1 DEF GoneInv, TrunkGoneInv
      <4>2. ASSUME NEW v \in VlansOn(cfg, s, p)
            PROVE  v \notin sw[s].vlans
        <5>1. VlanGone(s, p, v)
          BY <3>1 DEF GoneInv, VlanGoneInv
        <5> QED
          BY <2>1, <5>1 DEF VlanGone
      <4>3. ~Pending("access", s, p)
        BY <2>1 DEF Pending
      <4> QED
        BY <2>1, <4>1, <4>2, <4>3 DEF TrunkGone
    <3>3. ASSUME NEW s \in DOMAIN cfg.links, NEW g \in ChanGroups(cfg, s, FALSE)
          PROVE  ChanNum(g) \notin sw[s].chans
      <4>1. ChannelGone(s, g)
        BY <3>1 DEF GoneInv, ChannelGoneInv
      <4> QED
        BY <2>1, <4>1 DEF ChannelGone, Pending
    <3>4. ASSUME NEW s \in DOMAIN cfg.links, Peer(cfg, s) # {}, s \in configured
          PROVE  sw[s].mlag = {} /\ ~sw[s].enabled
      <4>1. MlagGone(s)
        BY <3>1, <3>4 DEF GoneInv, MlagGoneInv
      <4>2. ~Asking(s) /\ Steps("undo", s) = {}
        BY <2>1 DEF Asking, Steps
      <4>3. AllSteps # {}
        BY StepsAre DEF AllSteps
      <4> QED
        BY <2>1, <3>4, <4>1, <4>2, <4>3 DEF MlagGone
    <3> QED
      BY <2>1, <3>2, <3>3, <3>4 DEF DeconfigureClean, InChannel
  <2> QED
    BY <1>1, <2>1, <2>2, <2>3 DEF DeconfigureClean
<1>6. CASE Command
  <2>1. op # "none"
    BY <1>6 DEF Command, Staged
  <2>2. UNCHANGED end \/ end' = "failed"
    BY <1>6 DEF Command, Ask, Skip, Break, CheckJoined, Send, Stop, run
  <2> QED
    BY <1>1, <1>2, <2>1, <2>2
<1>7. CASE Kill
  BY <1>1, <1>7 DEF Kill, Stop
<1>8. CASE UNCHANGED dataVars
  BY <1>8 DEF dataVars, run, DeconfigureClean, InChannel
<1> QED
  BY <1>3, <1>4, <1>5, <1>6, <1>7, <1>8 DEF DataNext

\* What holds between two commands: the plan is well formed, what the run has
\* been through is as it should be, or named, or about to be.
DataInvariant ==
  /\ Staged /\ Planned
  /\ VlanInv /\ ChanInv /\ PairInv /\ MlagInv /\ GoneInv
  /\ NothingSilent /\ DeconfigureClean

\* Before the first run there is nothing to keep.
LEMMA DataStarts ==
  ASSUME DataInit
  PROVE  DataInvariant
<1>1. Staged
  BY DataAssumption DEF DataInit, Staged
<1>2. Planned
  BY DEF DataInit, Planned, WellPlanned, Spelled, Arranged, Full, Leaving
<1>3. op = "none" /\ end = "none" /\ plan = {}
  BY DEF DataInit
<1>4. VlanInv /\ ChanInv /\ PairInv
  BY <1>3 DEF VlanInv, ChanInv, PairInv
<1>5. MlagInv
  <2> SUFFICES ASSUME NEW s \in Switches
               PROVE  MlagOk(s)
    BY DEF MlagInv
  <2>1. sw[s].mlag = {}
    BY DEF DataInit, Blank
  <2>2. ~sw[s].enabled
    BY DEF DataInit, Blank
  <2>3. ~Asking(s) /\ Steps("mlag", s) = {} /\ Steps("undo", s) = {}
    BY <1>3 DEF Asking, Steps
  <2> QED
    BY <2>1, <2>2, <2>3 DEF MlagOk, Settled
<1>6. GoneInv
  BY <1>3 DEF GoneInv, VlanGoneInv, TrunkGoneInv, ChannelGoneInv, MlagGoneInv, Unrefused
<1>7. NothingSilent /\ DeconfigureClean
  BY <1>3 DEF NothingSilent, DeconfigureClean
<1> QED
  BY <1>1, <1>2, <1>4, <1>5, <1>6, <1>7 DEF DataInvariant

\* Every step keeps all of it.
LEMMA DataKeeps ==
  ASSUME DataInvariant, [DataNext]_dataVars
  PROVE  DataInvariant'
<1> USE DEF DataInvariant
<1>1. Staged'
  BY StagedStep
<1>2. Planned'
  BY PlannedStep
<1>3. VlanInv'
  BY VlanStep
<1>4. ChanInv'
  BY ChanStep
<1>5. PairInv'
  BY PairStep
<1>6. MlagInv'
  BY MlagStep
<1>7. GoneInv'
  BY GoneStep
<1>8. NothingSilent'
  BY SilentStep
<1>9. DeconfigureClean'
  BY CleanStep
<1> QED
  BY <1>1, <1>2, <1>3, <1>4, <1>5, <1>6, <1>7, <1>8, <1>9

\* Between any two commands of any number of runs, killed and refused as they
\* may be, the invariant holds.
THEOREM DataInvariantHolds == DataSpec => []DataInvariant
<1>1. DataInit => DataInvariant
  BY DataStarts
<1>2. DataInvariant /\ [DataNext]_dataVars => DataInvariant'
  BY DataKeeps
<1> QED
  BY <1>1, <1>2, PTL DEF DataSpec

\* configure_data_switches(): a run that ends has named in the log what is not
\* as the configuration wants it.
THEOREM NothingIsSilent == DataSpec => []NothingSilent
<1>1. DataInvariant => NothingSilent
  BY DEF DataInvariant
<1> QED
  BY <1>1, DataInvariantHolds, PTL

\* configure_mlag(), deconfigure_mlag(): what is_mlag_configured() lets a later
\* run skip is really there.
THEOREM MlagStaysWhole == DataSpec => []MlagWhole
<1>1. DataInvariant => MlagWhole
  BY MlagInvWhole DEF DataInvariant
<1> QED
  BY <1>1, DataInvariantHolds, PTL

\* deconfigure_data_switch(): reverse order removes all of it.
THEOREM DeconfigureLeavesNothing == DataSpec => []DeconfigureClean
<1>1. DataInvariant => DeconfigureClean
  BY DEF DataInvariant
<1> QED
  BY <1>1, DataInvariantHolds, PTL
=============================================================================
