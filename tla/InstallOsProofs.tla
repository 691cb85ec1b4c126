--------------------------- MODULE InstallOsProofs ---------------------------
(***************************************************************************)
(* Theorems about the calls of BmcClients, for any set of nodes and any    *)
(* max_attempts, about InstallOs, which is composed of them, and about     *)
(* Osinstall.  Those about the calls rest on what clients_left, bmc_dict   *)
(* and clients_set have to do with each other at each point of the loop    *)
(* (LoopInv); PollInv adds what the polling loop hands to the calls.  That *)
(* of Osinstall counts installations (CountInv).                           *)
(***************************************************************************)
EXTENDS InstallOs, Osinstall, TLAPS, FiniteSetTheorems

Running == {"attempt", "login", "set", "check"}

LoopInv ==
  /\ phase \in Phases
  /\ left \subseteq Nodes
  /\ phase \in Running => Meant \subseteq left \cup seen
  /\ phase \in {"attempt", "login", "set"} => seen \cap left = {}
  /\ phase \in {"login", "set", "check"} => todo \subseteq left /\ conn \subseteq left
  /\ phase \in {"login", "set"} => set = {}
  /\ phase = "check" => seen \cap left \subseteq set /\ set \subseteq seen

LEMMA LoopInit == BmcInit => LoopInv
BY DEF BmcInit, LoopInv, Phases, Running

LEMMA TargetsAreNodes ==
  ASSUME NEW o, NEW list
  PROVE  Targets(o, list) \subseteq Nodes
BY DEF Targets, Known

LEMMA BeginKeeps ==
  ASSUME LoopInv, NEW o, NEW w, NEW list, Begin(o, w, list)
  PROVE  LoopInv'
<1>1. Meant' \subseteq Targets(o, list)
  BY DEF Begin, Meant, Targets, Known
<1> QED BY <1>1, TargetsAreNodes DEF Begin, LoopInv, Phases, Running

LEMMA CallKeeps == LoopInv /\ CallStep => LoopInv'
<1> SUFFICES ASSUME LoopInv, CallStep PROVE LoopInv'
  OBVIOUS
<1> USE DEF LoopInv, Phases, Running, Meant, Known, call, loop, machine
<1>1. CASE NextAttempt
  BY <1>1 DEF NextAttempt
<1>2. CASE EndLogins
  BY <1>2 DEF EndLogins
<1>3. CASE EndCommands
  BY <1>3 DEF EndCommands
<1>4. CASE EndChecks
  BY <1>4 DEF EndChecks
<1>5. CASE Return
  BY <1>5 DEF Return
<1>6. ASSUME NEW n \in Nodes, Login(n) PROVE LoopInv'
  BY <1>6 DEF Login
<1>7. ASSUME NEW n \in Nodes, Command(n) PROVE LoopInv'
  BY <1>7 DEF Command
<1>8. ASSUME NEW n \in Nodes, Check(n) PROVE LoopInv'
  BY <1>8 DEF Check
<1> QED BY <1>1, <1>2, <1>3, <1>4, <1>5, <1>6, <1>7, <1>8 DEF CallStep

(* The environment changes the machines, never the call.                   *)
LEMMA MachinesKeep ==
  ASSUME LoopInv, UNCHANGED <<phase, call, loop, todo, seen>>
  PROVE  LoopInv'
BY DEF LoopInv, Meant, Known, Running, Phases, call, loop

LEMMA LoopStep == LoopInv /\ [BmcNext]_bmcVars => LoopInv'
<1> SUFFICES ASSUME LoopInv, [BmcNext]_bmcVars PROVE LoopInv'
  OBVIOUS
<1>1. ASSUME NEW n \in Nodes, TakesEffect(n) \/ Flap(n) PROVE LoopInv'
  BY <1>1, MachinesKeep DEF TakesEffect, Flap
<1>2. CASE UNCHANGED bmcVars
  BY <1>2, MachinesKeep DEF bmcVars, call, loop
<1> QED BY <1>1, <1>2, BeginKeeps, CallKeeps DEF BmcNext

(* A call that reports success has read the wanted state back from every   *)
(* client it was asked to handle, for any number of clients and attempts.  *)
THEOREM SuccessVerified == BmcSpec => []SuccessIsVerified
<1>1. LoopInv => SuccessIsVerified
  BY DEF LoopInv, SuccessIsVerified, Succeeded, Running
<1> QED BY <1>1, LoopInit, LoopStep, PTL DEF BmcSpec

(* No client is commanded again once its state was verified.               *)
THEOREM VerifiedNotRepeated == BmcSpec => VerifiedLeftAlone
<1>1. LoopInv /\ [BmcNext]_bmcVars =>
        [\A n \in Nodes : Command(n) => n \notin seen]_bmcVars
  BY DEF LoopInv, Command
<1> QED BY <1>1, LoopInit, LoopStep, PTL DEF BmcSpec, VerifiedLeftAlone
-----------------------------------------------------------------------------

(* A call made while polling works on nodes that are installing.           *)
PollInv ==
  /\ LoopInv
  /\ handled \subseteq installing
  /\ installing \subseteq Nodes \cup Strangers
  /\ pc = "poll" => phase = "idle"
  /\ pc = "count" /\ phase \in Running /\ Known(asked) # {} => left \subseteq installing

LEMMA PollInit == Init => PollInv
BY LoopInit DEF Init, PollInv

LEMMA PollStep == PollInv /\ [Next]_vars => PollInv'
<1> SUFFICES ASSUME PollInv, [Next]_vars PROVE PollInv'
  OBVIOUS
<1> USE DEF PollInv
<1>1. CASE PowerOff \/ BootNetwork \/ PowerOn
  <2>1. PICK o, w : Begin(o, w, {})
    BY <1>1 DEF PowerOff, BootNetwork, PowerOn
  <2>2. LoopInv'
    BY <2>1, BeginKeeps
  <2> QED BY <1>1, <2>2 DEF PowerOff, BootNetwork, PowerOn
<1>2. CASE StartPolling
  BY <1>2, MachinesKeep DEF StartPolling, bmcVars, call, loop, Running
<1>3. CASE Poll
  <2>1. NewList \subseteq installing
    BY DEF NewList
  <2>2. CASE NewList # {}
    <3>1. Begin("boot", "default", NewList)
      BY <1>3, <2>2 DEF Poll
    <3>2. LoopInv'
      BY <3>1, BeginKeeps
    <3>3. Known(asked)' # {} => left' \subseteq NewList
      BY <2>2, <3>1 DEF Begin, Targets, Known
    <3> QED BY <1>3, <2>1, <3>2, <3>3 DEF Poll
  <2>3. CASE NewList = {}
    <3>1. UNCHANGED bmcVars /\ handled' = handled
      BY <1>3, <2>3 DEF Poll
    <3>2. LoopInv'
      BY <3>1, MachinesKeep DEF bmcVars, call, loop
    <3>3. phase = "idle"
      BY <1>3 DEF Poll
    <3> QED BY <1>3, <3>1, <3>2, <3>3 DEF Poll, bmcVars, Running
  <2> QED BY <2>2, <2>3
<1>4. CASE Count
  <2>1. LoopInv'
    BY <1>4, MachinesKeep DEF Count, bmcVars, call, loop
  <2> QED BY <1>4, <2>1 DEF Count, bmcVars, Running
<1>5. CASE Die
  <2>1. LoopInv'
    BY <1>5, MachinesKeep DEF Die, bmcVars, call, loop
  <2> QED BY <1>5, <2>1 DEF Die
<1>6. CASE InCall
  <2>1. LoopInv'
    BY <1>6, CallKeeps DEF InCall
  <2>2. /\ phase # "idle" /\ phase \in Running
        /\ left' \subseteq left /\ asked' = asked
    BY <1>6
    DEF InCall, call, CallStep, NextAttempt, EndLogins, EndCommands, EndChecks, Return,
        Login, Command, Check, loop, Running
  <2> QED BY <1>6, <2>1, <2>2 DEF InCall, mine, Running, Known
<1>7. CASE Environment
  <2>1. /\ UNCHANGED <<phase, call, loop, todo, seen>>
        /\ pc' = pc /\ handled' = handled
        /\ installing \subseteq installing' /\ installing' \subseteq Nodes \cup Strangers
    BY <1>7 DEF Environment, Boot, TakesEffect, Flap, StrangerInstalls, mine, bmcVars,
                call, loop
  <2>2. LoopInv'
    BY <2>1, MachinesKeep
  <2> QED BY <2>1, <2>2 DEF loop, call, Known
<1>8. CASE UNCHANGED vars
  <2>1. LoopInv'
    BY <1>8, MachinesKeep DEF vars, bmcVars, call, loop
  <2> QED BY <1>8, <2>1 DEF vars, bmcVars, mine, call, Known
<1> QED BY <1>1, <1>2, <1>3, <1>4, <1>5, <1>6, <1>7, <1>8 DEF Next, Script

(* While the script polls, the boot source is set back only of nodes that  *)
(* have begun to install, whatever calls failed or were retried, if the    *)
(* call was made for at least one node of the inventory.                   *)
THEOREM ResetsOnlyInstalling == Spec => KnownResetsOnly
<1>1. PollInv /\ [Next]_vars =>
        [pc = "count" /\ Known(asked) # {} =>
           \A n \in Nodes : Command(n) => n \in installing]_vars
  BY DEF PollInv, LoopInv, Command, Running
<1> QED BY <1>1, PollInit, PollStep, PTL DEF Spec, KnownResetsOnly

(* The count that ends the polling early means that all nodes install.     *)
THEOREM CompleteIsAll == Spec => []CompleteMeansAll
<1>1. PollInv => CompleteMeansAll
  <2> SUFFICES ASSUME PollInv, Complete, handled \subseteq Nodes PROVE Nodes \subseteq installing
    BY DEF CompleteMeansAll
  <2>1. IsFiniteSet(Nodes)
    BY BmcClientsAssumption
  <2>2. handled = Nodes
    BY <2>1, FS_Subset DEF Complete
  <2> QED BY <2>2 DEF PollInv
<1> QED BY <1>1, PollInit, PollStep, PTL DEF Spec

-----------------------------------------------------------------------------
(* osinstall: the machines that count as finished, or will after a poll,   *)
(* are no more than the installations completed since it was begun         *)
(* (CountInv), given that reports name their machines (NamedInv) and that  *)
(* a start of before does not count (StartedInv).                          *)

\* What is known of a machine: if selected, as a node; else by its address.
RecOf(n, m) == IF m \in n.sel THEN n.rec[m] ELSE n.other[m]

\* The times of a machine's reports of a kind that count: as recorded, and of
\* the report of this installation that a poll would read.
Sent(m, k) == IF Fresh(<<m, k>>) THEN {files[<<m, k>>].time} ELSE {}
Times(m, k) == ({RecOf(nodes, m)[k]} \ {0}) \cup Sent(m, k)

\* Machines that count as finished, or would after some polls.
Completed ==
  {m \in Machines : \E s \in Times(m, "start"), t \in Times(m, "finish") : s < t}

\* The installation that was begun is that of the nodes selected.
Live == nodes # None /\ at.form # "exit" /\ ~Does("NODE", "files")

OsShape ==
  /\ at = [form |-> at.form, step |-> at.step]
  /\ nodes \in Selections \cup {None}
  /\ clock \in Nat
  /\ DOMAIN files = Machines \X Kinds
  /\ \A m \in Machines, k \in Kinds : files[<<m, k>>] # None =>
       files[<<m, k>>].time \in Nat /\ files[<<m, k>>].named \in BOOLEAN
  /\ mc = [m \in Machines |-> [st |-> mc[m].st, boot |-> mc[m].boot]]
  /\ hist = [rounds |-> hist.rounds, restarts |-> hist.restarts, started |-> hist.started,
             count |-> hist.count, anon |-> hist.anon]
  /\ hist.count \in Nat /\ hist.anon \in BOOLEAN

\* Before its files are written nothing is known of a selection; it is there
\* when a poll goes on.
SelectedInv ==
  /\ Does("STATUS", "poll") => nodes # None
  /\ Does("NODE", "files") =>
       /\ nodes # None
       /\ \A m \in Machines, k \in Kinds : RecOf(nodes, m)[k] = 0
       /\ \A m \in nodes.sel : nodes.other[m] = NoRec

\* No report is of the future.
ClockInv ==
  \A m \in Machines, k \in Kinds :
    /\ nodes # None => RecOf(nodes, m)[k] <= clock
    /\ files[<<m, k>>] # None => files[<<m, k>>].time <= clock

\* With names in all reports, nothing is kept of a node by its address.
NamedInv ==
  Live /\ ~hist.anon =>
    /\ \A m \in Machines, k \in Kinds : Fresh(<<m, k>>) => files[<<m, k>>].named
    /\ \A m \in nodes.sel : nodes.other[m] = NoRec

\* A machine about to send a finish whose start was before this installation
\* has no start that counts.
StartedInv ==
  Live /\ ~hist.anon =>
    \A m \in Machines : mc[m].st = "reported" /\ m \notin hist.started => Times(m, "start") = {}

CountInv == Live /\ ~hist.anon => Cardinality(Completed) <= hist.count

OsInv ==
  OsShape /\ SelectedInv /\ ClockInv /\ NamedInv /\ StartedInv /\ CountInv
-----------------------------------------------------------------------------
\* A record s is r after a report of kind k and time t.
Noted(r, k, t, s) ==
  s \in Records /\ \A j \in Kinds : s[j] \in {r[j], 0} \/ (j = k /\ s[j] = t)

LEMMA TimedEffect ==
  ASSUME NEW r \in Records, NEW k \in Kinds, NEW t \in Nat
  PROVE  Noted(r, k, t, Timed(r, k, t)) /\ Noted(r, k, t, TimedOther(r, k, t))
<1> DEFINE s == [r EXCEPT !.known = TRUE, ![k] = t]
<1>1. s \in Records /\ \A j \in Kinds : s[j] = r[j] \/ (j = k /\ s[j] = t)
  BY DEF Records, Kinds
<1>2. \A u \in Records : /\ [u EXCEPT !.finish = 0] \in Records
                         /\ [u EXCEPT !.finish = 0].start = u.start
                         /\ [u EXCEPT !.finish = 0].finish = 0
  BY DEF Records
<1>3. Timed(r, k, t) \in {s, [s EXCEPT !.finish = 0]}
  BY DEF Timed
<1>4. Timed(r, k, t) \in Records
  BY <1>1, <1>2, <1>3
<1>5. \A j \in Kinds : Timed(r, k, t)[j] \in {s[j], 0}
  BY <1>1, <1>2, <1>3 DEF Kinds
<1>6. TimedOther(r, k, t) \in {Timed(r, k, t), [Timed(r, k, t) EXCEPT !.finish = 0]}
  BY DEF TimedOther
<1>7. TimedOther(r, k, t) \in Records
  BY <1>2, <1>4, <1>6
<1>8. \A j \in Kinds : TimedOther(r, k, t)[j] \in {Timed(r, k, t)[j], 0}
  BY <1>2, <1>4, <1>6 DEF Kinds
<1> HIDE DEF s
<1> QED
  BY <1>1, <1>4, <1>5, <1>7, <1>8 DEF Noted

LEMMA RecordedEffect ==
  ASSUME NEW n \in Selections, NEW m \in Machines, NEW k \in Kinds, NEW rep,
         rep.time \in Nat, rep.named \in BOOLEAN
  PROVE  /\ Recorded(n, m, k, rep) \in Selections
         /\ Recorded(n, m, k, rep).sel = n.sel
         /\ \A q \in Machines, j \in Kinds :
              \/ RecOf(Recorded(n, m, k, rep), q)[j] \in {RecOf(n, q)[j], 0}
              \/ q = m /\ j = k /\ RecOf(Recorded(n, m, k, rep), q)[j] = rep.time
         /\ rep.named => \A q \in n.sel : Recorded(n, m, k, rep).other[q] = n.other[q]
<1>1. PICK t \in Nat : t = rep.time
  OBVIOUS
<1> DEFINE a == Timed(n.rec[m], k, t)
           b == TimedOther(n.other[m], k, t)
<1>2. Noted(n.rec[m], k, t, a) /\ Noted(n.other[m], k, t, b)
  <2>1. n.rec[m] \in Records /\ n.other[m] \in Records
    BY DEF Selections
  <2> QED
    BY <2>1, TimedEffect
<1>3. CASE AssociatePxeToBmc(n, m, rep)
  <2>1. Recorded(n, m, k, rep) = [n EXCEPT !.rec = [n.rec EXCEPT ![m] = a]]
    BY <1>1, <1>3 DEF Recorded
  <2> HIDE DEF a, b
  <2>2. /\ Recorded(n, m, k, rep) \in Selections
        /\ Recorded(n, m, k, rep).sel = n.sel /\ Recorded(n, m, k, rep).other = n.other
        /\ Recorded(n, m, k, rep).rec = [n.rec EXCEPT ![m] = a]
    BY <2>1, <1>2 DEF Selections, Noted
  <2> QED
    BY <1>1, <2>2, <1>2 DEF RecOf, Selections, Noted
<1>4. CASE ~AssociatePxeToBmc(n, m, rep)
  <2>1. Recorded(n, m, k, rep) = [n EXCEPT !.other = [n.other EXCEPT ![m] = b]]
    BY <1>1, <1>4 DEF Recorded
  <2> HIDE DEF a, b
  <2>2. /\ Recorded(n, m, k, rep) \in Selections
        /\ Recorded(n, m, k, rep).sel = n.sel /\ Recorded(n, m, k, rep).rec = n.rec
        /\ Recorded(n, m, k, rep).other = [n.other EXCEPT ![m] = b]
    BY <2>1, <1>2 DEF Selections, Noted
  <2>3. rep.named => m \notin n.sel
    BY <1>4 DEF AssociatePxeToBmc
  <2> QED
    BY <1>1, <2>2, <2>3, <1>2 DEF RecOf, Selections, Noted
<1> QED
  BY <1>3, <1>4

LEMMA CompletedFinite ==
  /\ IsFiniteSet(Completed) /\ Cardinality(Completed) \in Nat
  /\ \A S : S \subseteq Completed => IsFiniteSet(S) /\ Cardinality(S) <= Cardinality(Completed)
<1>1. IsFiniteSet(Completed)
  BY OsinstallAssumption, FS_Subset DEF Completed
<1> QED
  BY <1>1, FS_Subset, FS_CardinalityType

LEMMA TimesBounded ==
  ASSUME OsShape, ClockInv, nodes # None, NEW m \in Machines, NEW k \in Kinds
  PROVE  Times(m, k) \subseteq 0..clock
<1>1. RecOf(nodes, m)[k] \in Nat
  BY DEF OsShape, Selections, Records, RecOf, Kinds
<1>2. Sent(m, k) \subseteq 0..clock
  BY DEF Sent, Fresh, OsShape, ClockInv
<1>3. RecOf(nodes, m)[k] <= clock
  BY DEF ClockInv
<1>4. RecOf(nodes, m)[k] \in 0..clock
  BY <1>1, <1>3 DEF OsShape
<1> QED
  BY <1>2, <1>4 DEF Times

\* The sets of times can only lose members: no more machines are completed.
LEMMA FewerTimes ==
  ASSUME \A m \in Machines, k \in Kinds : Times(m, k)' \subseteq Times(m, k)
  PROVE  /\ Completed' \subseteq Completed
         /\ Cardinality(Completed) \in Nat /\ Cardinality(Completed)' \in Nat
         /\ Cardinality(Completed)' <= Cardinality(Completed)
<1>1. "start" \in Kinds /\ "finish" \in Kinds
  BY DEF Kinds
<1>2. Completed' \subseteq Completed
  BY <1>1 DEF Completed
<1> QED
  BY <1>2, CompletedFinite, FS_CardinalityType

\* No call to the BMCs brings a machine to where its finish is sent.
Calls == {[m \in Machines |-> SwitchOff(mc[m])], [m \in Machines |-> SetNetwork(mc[m])],
          [m \in Machines |-> SwitchOn(mc[m])], [m \in Machines |-> SetDisk(mc[m])]}
NoneReports ==
  /\ mc' = [m \in Machines |-> [st |-> mc'[m].st, boot |-> mc'[m].boot]]
  /\ \A m \in Machines : mc'[m].st = "reported" => mc[m].st = "reported"

\* Steps of the forms and machines that leave reports and records alone.
Onward ==
  \/ at' = at
  \/ /\ at' = [form |-> at'.form, step |-> at'.step]
     /\ at' # [form |-> "NODE", step |-> "files"]
     /\ at' = [form |-> "STATUS", step |-> "poll"] => nodes # None
     /\ at'.form # "exit" => at.form # "exit" /\ at # [form |-> "NODE", step |-> "files"]
Aside == UNCHANGED <<nodes, begun, files, clock, hist>> /\ NoneReports /\ Onward

LEMMA AsideKeeps == OsInv /\ Aside => OsInv'
<1> SUFFICES ASSUME OsInv, Aside PROVE OsInv'
  OBVIOUS
<1>1. OsShape'
  BY DEF OsInv, OsShape, Aside, NoneReports, Onward
<1>2. SelectedInv'
  BY DEF OsInv, SelectedInv, Aside, Onward, Does
<1>3. ClockInv'
  BY DEF OsInv, ClockInv, Aside
<1>4. /\ Live' => Live
      /\ \A m \in Machines, k \in Kinds : /\ Times(m, k)' = Times(m, k)
                                          /\ Fresh(<<m, k>>)' = Fresh(<<m, k>>)
  BY DEF Aside, Onward, Live, Does, Times, Sent, Fresh
<1>5. NamedInv'
  BY <1>4 DEF OsInv, NamedInv, Aside
<1>6. StartedInv'
  BY <1>4 DEF OsInv, StartedInv, Aside, NoneReports, Kinds
<1>7. CountInv'
  <2>1. /\ Cardinality(Completed) \in Nat /\ Cardinality(Completed)' \in Nat
        /\ Cardinality(Completed)' <= Cardinality(Completed)
    BY <1>4, FewerTimes
  <2> QED
    BY <1>4, <2>1 DEF OsInv, CountInv, Aside, OsShape
<1> QED
  BY <1>1, <1>2, <1>3, <1>5, <1>6, <1>7 DEF OsInv

LEMMA LaunchKeeps == OsInv /\ Launch => OsInv'
<1> SUFFICES ASSUME OsInv, Launch PROVE OsInv'
  OBVIOUS
<1>1. nodes' = None /\ at' = [form |-> "MAIN", step |-> "edit"] /\ begun' = 0
      /\ UNCHANGED <<files, clock, mc, hist>>
  BY DEF Launch, Begins, world
<1>2. OsShape' /\ SelectedInv' /\ ClockInv'
  BY <1>1 DEF OsInv, OsShape, SelectedInv, ClockInv, Does
<1>3. ~Live'
  BY <1>1 DEF Live
<1> QED
  BY <1>2, <1>3 DEF OsInv, NamedInv, StartedInv, CountInv

LEMMA SelectKeeps ==
  ASSUME OsInv, NEW s \in SUBSET Machines,
         nodes' = [sel |-> s, rec |-> Unknown, other |-> Unknown],
         Begins("NODE", "files"),
         UNCHANGED <<begun, files, clock, mc, hist>>
  PROVE  OsInv'
<1>1. at' = [form |-> "NODE", step |-> "files"]
  BY DEF Begins
<1>2. Unknown \in [Machines -> Records] /\ \A m \in Machines : Unknown[m] = NoRec
  BY DEF Unknown, Records, NoRec
<1>3. nodes' \in Selections /\ nodes' # None
  BY <1>2, OsinstallAssumption DEF Selections
<1>4. \A m \in Machines, k \in Kinds : RecOf(nodes, m)'[k] = 0
  BY <1>2 DEF RecOf, NoRec, Kinds
<1>5. OsShape'
  BY <1>1, <1>3 DEF OsInv, OsShape
<1>6. SelectedInv'
  BY <1>1, <1>2, <1>3, <1>4 DEF SelectedInv, Does
<1>7. ClockInv'
  <2>1. clock' = clock /\ files' = files /\ clock \in Nat /\ ClockInv
    BY DEF OsInv, OsShape
  <2>2. \A m \in Machines, k \in Kinds : RecOf(nodes, m)'[k] <= clock'
    BY <1>4, <2>1
  <2> QED
    BY <2>1, <2>2 DEF ClockInv
<1>8. ~Live'
  BY <1>1 DEF Live, Does
<1> QED
  BY <1>5, <1>6, <1>7, <1>8 DEF OsInv, NamedInv, StartedInv, CountInv

\* Nothing is known when the installation begins, and no report is fresh.
LEMMA WriteFilesKeeps == OsInv /\ WriteFiles => OsInv'
<1> SUFFICES ASSUME OsInv, WriteFiles PROVE OsInv'
  OBVIOUS
<1>1. /\ at' = [form |-> "NODE", step |-> "off"] /\ begun' = clock
      /\ UNCHANGED <<nodes, files, clock, mc>>
      /\ hist' = [hist EXCEPT !.rounds = @ + 1, !.started = {}, !.count = 0, !.anon = FALSE]
  BY DEF WriteFiles, Begins, world
<1>2. /\ hist'.count = 0 /\ hist'.anon = FALSE
      /\ hist' = [rounds |-> hist'.rounds, restarts |-> hist'.restarts, started |-> hist'.started,
                  count |-> hist'.count, anon |-> hist'.anon]
  BY <1>1 DEF OsInv, OsShape
<1>3. OsShape'
  BY <1>1, <1>2 DEF OsInv, OsShape
<1>4. SelectedInv' /\ ClockInv'
  BY <1>1 DEF OsInv, SelectedInv, ClockInv, Does
<1>5. /\ \A m \in Machines, k \in Kinds : RecOf(nodes, m)[k] = 0
      /\ \A m \in nodes.sel : nodes.other[m] = NoRec
  BY DEF WriteFiles, OsInv, SelectedInv
<1>6. \A m \in Machines, k \in Kinds : ~Fresh(<<m, k>>)'
  <2> SUFFICES ASSUME NEW m \in Machines, NEW k \in Kinds, files[<<m, k>>] # None
               PROVE  ~(files[<<m, k>>].time > clock)
    BY <1>1 DEF Fresh
  <2>1. files[<<m, k>>].time \in Nat /\ clock \in Nat
    BY DEF OsInv, OsShape
  <2>2. files[<<m, k>>].time <= clock
    BY DEF OsInv, ClockInv
  <2> QED
    BY <2>1, <2>2
<1>7. \A m \in Machines, k \in Kinds : Times(m, k)' = {}
  BY <1>1, <1>5, <1>6 DEF Times, Sent
<1>8. NamedInv'
  BY <1>1, <1>5, <1>6 DEF NamedInv
<1>9. StartedInv'
  BY <1>7 DEF StartedInv, Kinds
<1>10. Completed' = {}
  BY <1>7 DEF Completed, Kinds
<1>11. CountInv'
  BY <1>2, <1>10, FS_EmptySet DEF CountInv
<1> QED
  BY <1>3, <1>4, <1>8, <1>9, <1>11 DEF OsInv

\* A report read moves from those that count to the record, or replaces one.
LEMMA ReadReportKeeps == ASSUME OsInv, NEW f \in DOMAIN files, ReadReport(f) PROVE OsInv'
<1>1. /\ at = [form |-> "STATUS", step |-> "poll"] /\ nodes # None /\ nodes \in Selections
      /\ UNCHANGED <<at, begun, files, clock, mc, hist>>
  BY DEF ReadReport, form, world, OsInv, SelectedInv, OsShape, Does
<1>2. PICK m \in Machines, k \in Kinds : f = <<m, k>>
  BY DEF OsInv, OsShape
<1>3. CASE ~Fresh(f)
  <2>1. nodes' = nodes
    BY <1>3 DEF ReadReport
  <2>2. Aside
    BY <1>1, <2>1 DEF Aside, NoneReports, Onward, OsInv, OsShape
  <2> QED
    BY <2>2, AsideKeeps
<1>4. CASE Fresh(f)
  <2> DEFINE rep == files[<<m, k>>]
  <2>1. nodes' = Recorded(nodes, m, k, rep)
    BY <1>2, <1>4 DEF ReadReport
  <2>2. rep.time \in Nat /\ rep.named \in BOOLEAN
    BY <1>2, <1>4 DEF Fresh, OsInv, OsShape
  <2> HIDE DEF rep
  <2>3. /\ nodes' \in Selections /\ nodes'.sel = nodes.sel
        /\ \A q \in Machines, j \in Kinds :
             \/ RecOf(nodes', q)[j] \in {RecOf(nodes, q)[j], 0}
             \/ q = m /\ j = k /\ RecOf(nodes', q)[j] = rep.time
        /\ rep.named => \A q \in nodes.sel : nodes'.other[q] = nodes.other[q]
    BY <1>1, <2>1, <2>2, RecordedEffect
  <2>4. nodes' # None
    BY <2>3, OsinstallAssumption
  <2>5. Live /\ Live'
    BY <1>1, <2>4 DEF Live, Does
  <2>6. \A q \in Machines, j \in Kinds : Sent(q, j)' = Sent(q, j) /\ Fresh(<<q, j>>)' = Fresh(<<q, j>>)
    BY <1>1 DEF Sent, Fresh
  <2>7. Sent(m, k) = {rep.time}
    BY <1>2, <1>4 DEF Sent, rep
  <2>8. \A q \in Machines, j \in Kinds : Times(q, j)' \subseteq Times(q, j)
    BY <2>3, <2>6, <2>7 DEF Times
  <2>9. OsShape'
    BY <1>1, <2>3 DEF OsInv, OsShape
  <2>10. SelectedInv'
    BY <1>1, <2>4 DEF SelectedInv, Does
  <2>11. ClockInv'
    <3>1. rep.time <= clock
      BY <1>2, <1>4 DEF rep, Fresh, OsInv, ClockInv
    <3>2. \A q \in Machines, j \in Kinds : RecOf(nodes', q)[j] <= clock
      <4>1. \A q \in Machines, j \in Kinds : RecOf(nodes, q)[j] <= clock
        BY <1>1 DEF OsInv, ClockInv
      <4>2. 0 <= clock
        BY DEF OsInv, OsShape
      <4> QED
        BY <2>3, <3>1, <4>1, <4>2
    <3> QED
      BY <1>1, <3>2 DEF OsInv, ClockInv
  <2>12. NamedInv'
    <3> SUFFICES ASSUME ~hist.anon PROVE NamedInv'
      BY <1>1 DEF NamedInv
    <3>1. rep.named
      BY <1>2, <1>4, <2>5 DEF rep, OsInv, NamedInv
    <3> QED
      BY <1>1, <2>3, <2>5, <2>6, <3>1 DEF OsInv, NamedInv
  <2>13. StartedInv'
    <3> SUFFICES ASSUME ~hist.anon PROVE StartedInv'
      BY <1>1 DEF StartedInv
    <3> QED
      BY <1>1, <2>5, <2>8 DEF OsInv, StartedInv, Kinds
  <2>14. CountInv'
    BY <1>1, <2>5, <2>8, FewerTimes DEF OsInv, OsShape, CountInv
  <2> QED
    BY <2>9, <2>10, <2>11, <2>12, <2>13, <2>14 DEF OsInv
<1> QED
  BY <1>3, <1>4

LEMMA RestartKeeps == ASSUME OsInv, NEW m \in Machines, Restart(m) PROVE OsInv'
<1>1. /\ UNCHANGED <<at, nodes, begun, files, clock>>
      /\ mc' = [mc EXCEPT ![m].st = "booting"]
      /\ hist' = [hist EXCEPT !.restarts = @ + 1, !.started = @ \ {m}]
  BY DEF Restart, form, data
<1>2. /\ mc' = [q \in Machines |-> [st |-> mc'[q].st, boot |-> mc'[q].boot]]
      /\ mc'[m].st = "booting" /\ \A q \in Machines \ {m} : mc'[q] = mc[q]
  BY <1>1 DEF OsInv, OsShape
<1>3. /\ hist' = [rounds |-> hist'.rounds, restarts |-> hist'.restarts, started |-> hist'.started,
                  count |-> hist'.count, anon |-> hist'.anon]
      /\ hist'.count = hist.count /\ hist'.anon = hist.anon /\ hist'.started = hist.started \ {m}
  BY <1>1 DEF OsInv, OsShape
<1>4. OsShape'
  BY <1>1, <1>2, <1>3 DEF OsInv, OsShape
<1>5. SelectedInv' /\ ClockInv'
  BY <1>1 DEF OsInv, SelectedInv, ClockInv, Does
<1>6. /\ Live' <=> Live
      /\ \A q \in Machines, j \in Kinds : /\ Times(q, j)' = Times(q, j)
                                          /\ Fresh(<<q, j>>)' = Fresh(<<q, j>>)
  BY <1>1 DEF Live, Does, Times, Sent, Fresh
<1>7. NamedInv'
  BY <1>1, <1>3, <1>6 DEF OsInv, NamedInv
<1>8. StartedInv'
  BY <1>2, <1>3, <1>6 DEF OsInv, StartedInv, Kinds
<1>9. CountInv'
  <2>1. /\ Cardinality(Completed) \in Nat /\ Cardinality(Completed)' \in Nat
        /\ Cardinality(Completed)' <= Cardinality(Completed)
    BY <1>6, FewerTimes
  <2> QED
    BY <1>3, <1>6, <2>1 DEF OsInv, OsShape, CountInv
<1> QED
  BY <1>4, <1>5, <1>7, <1>8, <1>9 DEF OsInv

\* What a report changes.
Sending(m, k, named) ==
  /\ UNCHANGED <<at, nodes, begun>> /\ clock' = clock + 1
  /\ mc'[m].st = (IF k = "start" THEN "reported" ELSE "booting")
  /\ \A q \in Machines \ {m} : mc'[q] = mc[q]
  /\ hist'.started = IF k = "start" THEN hist.started \cup {m} ELSE hist.started \ {m}
  /\ hist'.count = IF k = "finish" /\ m \in hist.started THEN hist.count + 1 ELSE hist.count
  /\ ~hist'.anon => ~hist.anon /\ named
  /\ \A q \in Machines, j \in Kinds :
       \/ files'[<<q, j>>] = files[<<q, j>>]
       \/ q = m /\ j = k /\ files'[<<q, j>>] = [time |-> clock + 1, named |-> named]

LEMMA ReportEffect ==
  ASSUME OsInv, NEW m \in Machines, NEW k \in Kinds, NEW named \in BOOLEAN, Report(m, k, named)
  PROVE  OsShape' /\ Sending(m, k, named)
<1>1. /\ UNCHANGED <<at, nodes, begun>> /\ clock' = clock + 1
      /\ mc' = [mc EXCEPT ![m].st = IF k = "start" THEN "reported" ELSE "booting"]
      /\ hist' = [hist EXCEPT !.started = IF k = "start" THEN @ \cup {m} ELSE @ \ {m},
                     !.count = IF k = "finish" /\ m \in hist.started THEN @ + 1 ELSE @,
                     !.anon = @ \/ ~named]
  BY DEF Report, form, data
<1>2. files' = [files EXCEPT ![<<m, k>>] = [time |-> clock + 1, named |-> named]] \/ files' = files
  BY <1>1 DEF Report
<1>3. /\ mc' = [q \in Machines |-> [st |-> mc'[q].st, boot |-> mc'[q].boot]]
      /\ mc'[m].st = (IF k = "start" THEN "reported" ELSE "booting")
      /\ \A q \in Machines \ {m} : mc'[q] = mc[q]
  BY <1>1 DEF OsInv, OsShape
<1>4. /\ hist' = [rounds |-> hist'.rounds, restarts |-> hist'.restarts, started |-> hist'.started,
                  count |-> hist'.count, anon |-> hist'.anon]
      /\ hist'.started = IF k = "start" THEN hist.started \cup {m} ELSE hist.started \ {m}
      /\ hist'.count = IF k = "finish" /\ m \in hist.started THEN hist.count + 1 ELSE hist.count
  BY <1>1 DEF OsInv, OsShape
<1>5. hist'.anon = (hist.anon \/ ~named)
  BY <1>1, Zenon DEF OsInv, OsShape
<1>6. hist'.count \in Nat /\ hist'.anon \in BOOLEAN
  BY <1>4, <1>5 DEF OsInv, OsShape
<1>7. /\ DOMAIN files' = Machines \X Kinds
      /\ \A q \in Machines, j \in Kinds :
           \/ files'[<<q, j>>] = files[<<q, j>>]
           \/ q = m /\ j = k /\ files'[<<q, j>>] = [time |-> clock + 1, named |-> named]
  BY <1>2 DEF OsInv, OsShape
<1>8. \A q \in Machines, j \in Kinds : files'[<<q, j>>] # None =>
        files'[<<q, j>>].time \in Nat /\ files'[<<q, j>>].named \in BOOLEAN
  BY <1>7 DEF OsInv, OsShape
<1>9. OsShape'
  BY <1>1, <1>3, <1>4, <1>6, <1>7, <1>8 DEF OsInv, OsShape
<1> QED
  BY <1>1, <1>3, <1>4, <1>5, <1>7, <1>9 DEF Sending

\* A start counts for nothing that was finished before; a finish counts once,
\* if the machine's start was in this installation.
LEMMA ReportKeeps ==
  ASSUME OsInv, NEW m \in Machines, NEW k \in Kinds, NEW named \in BOOLEAN, Report(m, k, named)
  PROVE  OsInv'
<1>0. OsShape' /\ Sending(m, k, named)
  BY ReportEffect
<1>1. /\ UNCHANGED <<at, nodes, begun>> /\ clock' = clock + 1
      /\ OsShape' /\ clock \in Nat
      /\ mc'[m].st = (IF k = "start" THEN "reported" ELSE "booting")
      /\ mc[m].st = (IF k = "start" THEN "installer" ELSE "reported")
      /\ \A q \in Machines \ {m} : mc'[q] = mc[q]
  BY <1>0 DEF OsInv, OsShape, Report, Sending
<1>2. /\ hist'.started = IF k = "start" THEN hist.started \cup {m} ELSE hist.started \ {m}
      /\ hist'.count = IF k = "finish" /\ m \in hist.started THEN hist.count + 1 ELSE hist.count
      /\ ~hist'.anon => ~hist.anon /\ named
  BY <1>0 DEF Sending
<1>3. \A q \in Machines, j \in Kinds :
           \/ files'[<<q, j>>] = files[<<q, j>>]
           \/ q = m /\ j = k /\ files'[<<q, j>>] = [time |-> clock + 1, named |-> named]
  BY <1>0 DEF Sending
<1>4. SelectedInv'
  BY <1>1 DEF OsInv, SelectedInv, Does
<1>5. ClockInv'
  <2> SUFFICES ASSUME NEW q \in Machines, NEW j \in Kinds
               PROVE  /\ nodes # None => RecOf(nodes, q)[j] <= clock + 1
                      /\ files'[<<q, j>>] # None => files'[<<q, j>>].time <= clock + 1
    BY <1>1 DEF ClockInv
  <2>1. /\ nodes # None => RecOf(nodes, q)[j] <= clock
        /\ files[<<q, j>>] # None => files[<<q, j>>].time <= clock
    BY DEF OsInv, ClockInv
  <2>2. nodes # None => RecOf(nodes, q)[j] \in Nat
    BY DEF OsInv, OsShape, Selections, Records, RecOf, Kinds
  <2>3. files[<<q, j>>] # None => files[<<q, j>>].time \in Nat
    BY DEF OsInv, OsShape
  <2> QED
    BY <1>1, <1>3, <2>1, <2>2, <2>3
<1>6. Live' <=> Live
  BY <1>1 DEF Live, Does
<1>7. \A q \in Machines, j \in Kinds :
        Times(q, j)' \subseteq Times(q, j) \cup (IF q = m /\ j = k THEN {clock + 1} ELSE {})
  <2> SUFFICES ASSUME NEW q \in Machines, NEW j \in Kinds
               PROVE  Sent(q, j)' \subseteq Sent(q, j) \cup (IF q = m /\ j = k THEN {clock + 1} ELSE {})
    BY <1>1 DEF Times
  <2>1. CASE files'[<<q, j>>] = files[<<q, j>>]
    BY <1>1, <2>1 DEF Sent, Fresh
  <2>2. CASE q = m /\ j = k /\ files'[<<q, j>>] = [time |-> clock + 1, named |-> named]
    BY <1>1, <2>2 DEF Sent
  <2> QED
    BY <1>3, <2>1, <2>2
<1> SUFFICES ASSUME Live, ~hist.anon, named PROVE NamedInv' /\ StartedInv' /\ CountInv'
  BY <1>1, <1>2, <1>4, <1>5, <1>6 DEF OsInv, NamedInv, StartedInv, CountInv
<1>8. NamedInv'
  <2>1. \A q \in Machines, j \in Kinds : Fresh(<<q, j>>)' => files'[<<q, j>>].named
    BY <1>1, <1>3 DEF Fresh, OsInv, NamedInv
  <2> QED
    BY <1>1, <2>1 DEF OsInv, NamedInv
<1>9. StartedInv'
  <2> SUFFICES ASSUME NEW q \in Machines, mc'[q].st = "reported", q \notin hist'.started
               PROVE  Times(q, "start")' = {}
    BY DEF StartedInv
  <2>1. q # m
    BY <1>1, <1>2
  <2>2. Times(q, "start") = {}
    BY <1>1, <1>2, <2>1 DEF OsInv, StartedInv
  <2> QED
    BY <1>7, <2>1, <2>2 DEF Kinds
<1>10. CountInv'
  <2>1. \A q \in Machines, j \in Kinds : Times(q, j) \subseteq 0..clock
    BY TimesBounded DEF OsInv, Live
  <2>2. Cardinality(Completed) \in Nat /\ Cardinality(Completed) <= hist.count /\ hist.count \in Nat
    BY CompletedFinite DEF OsInv, OsShape, CountInv
  <2>3. IsFiniteSet(Completed)
    BY CompletedFinite
  <2>4. CASE k = "start"
    <3>1. Completed' \subseteq Completed
      <4> SUFFICES ASSUME NEW q \in Machines, NEW s \in Times(q, "start")', NEW t \in Times(q, "finish")', s < t
                   PROVE  s \in Times(q, "start") /\ t \in Times(q, "finish")
        BY DEF Completed
      <4>1. t \in Times(q, "finish") /\ t \in 0..clock
        BY <1>7, <2>1, <2>4 DEF Kinds
      <4>2. s # clock + 1
        BY <1>1, <4>1
      <4> QED
        BY <1>7, <4>1, <4>2 DEF Kinds
    <3>2. Cardinality(Completed') <= Cardinality(Completed) /\ Cardinality(Completed') \in Nat
      BY <2>3, <3>1, FS_Subset, FS_CardinalityType
    <3> QED
      BY <1>2, <2>2, <2>4, <3>2 DEF CountInv
  <2>5. CASE k = "finish" /\ m \in hist.started
    <3>1. Completed' \subseteq Completed \cup {m}
      BY <1>7, <2>5 DEF Completed, Kinds
    <3>2. /\ IsFiniteSet(Completed \cup {m}) /\ Cardinality(Completed \cup {m}) \in Nat
          /\ Cardinality(Completed \cup {m}) <= Cardinality(Completed) + 1
      <4>1. /\ IsFiniteSet(Completed \cup {m})
            /\ Cardinality(Completed \cup {m}) \in {Cardinality(Completed), Cardinality(Completed) + 1}
        BY <2>3, FS_AddElement
      <4> QED
        BY <2>2, <4>1
    <3>3. Cardinality(Completed') <= Cardinality(Completed \cup {m}) /\ Cardinality(Completed') \in Nat
      BY <3>1, <3>2, FS_Subset, FS_CardinalityType
    <3> QED
      BY <1>2, <2>2, <2>5, <3>2, <3>3 DEF CountInv
  <2>6. CASE k = "finish" /\ m \notin hist.started
    <3>1. Times(m, "start") = {}
      BY <1>1, <2>6 DEF OsInv, StartedInv
    <3>2. Completed' \subseteq Completed
      BY <1>7, <2>6, <3>1 DEF Completed, Kinds
    <3>3. Cardinality(Completed') <= Cardinality(Completed) /\ Cardinality(Completed') \in Nat
      BY <2>3, <3>2, FS_Subset, FS_CardinalityType
    <3> QED
      BY <1>2, <2>2, <2>6, <3>3 DEF CountInv
  <2> QED
    BY <2>4, <2>5, <2>6 DEF Kinds
<1> QED
  BY <1>8, <1>9, <1>10

LEMMA CallEffect ==
  ASSUME OsInv, NEW S, NEW after \in Calls, CallBmcs(S, after)
  PROVE  NoneReports
<1>1. \A m \in Machines : mc[m] = [st |-> mc[m].st, boot |-> mc[m].boot]
  BY DEF OsInv, OsShape
<1> DEFINE Fine(c, d) == d = [st |-> d.st, boot |-> d.boot] /\ (d.st = "reported" => c.st = "reported")
<1>2. ASSUME NEW c, c = [st |-> c.st, boot |-> c.boot]
      PROVE  Fine(c, SwitchOff(c)) /\ Fine(c, SetNetwork(c)) /\ Fine(c, SwitchOn(c)) /\ Fine(c, SetDisk(c))
  <2>1. Fine(c, SwitchOff(c))
    BY <1>2 DEF SwitchOff
  <2>2. Fine(c, SetNetwork(c))
    BY <1>2 DEF SetNetwork
  <2>3. Fine(c, SwitchOn(c))
    BY <1>2 DEF SwitchOn
  <2>4. Fine(c, SetDisk(c))
    BY <1>2 DEF SetDisk
  <2> QED
    BY <2>1, <2>2, <2>3, <2>4
<1> HIDE DEF Fine
<1>3. \A m \in Machines : Fine(mc[m], after[m])
  BY <1>1, <1>2 DEF Calls
<1>4. PICK ok \in SUBSET S : mc' = [m \in Machines |-> IF m \in ok THEN after[m] ELSE mc[m]]
  BY DEF CallBmcs
<1> QED
  BY <1>1, <1>3, <1>4 DEF Fine, NoneReports

LEMMA BootEffect == ASSUME OsInv, NEW m \in Machines, BootMachine(m) PROVE NoneReports
<1>1. PICK st \in {"up", "installer"} : mc' = [mc EXCEPT ![m] = [st |-> st, boot |-> "none"]]
  BY DEF BootMachine
<1> QED
  BY <1>1 DEF OsInv, OsShape, NoneReports

LEMMA GotoOnward ==
  ASSUME NEW f, Goto(f), f = "exit" \/ (at.form # "exit" /\ at # [form |-> "NODE", step |-> "files"])
  PROVE  Onward
BY DEF Goto, Onward

LEMMA EditOnward == ASSUME NEW f, NEW g, Shows(f), f # "exit", Goto(g) PROVE Onward
BY GotoOnward DEF Shows

LEMMA StillNobody == ASSUME OsInv, UNCHANGED mc PROVE NoneReports
BY DEF OsInv, OsShape, NoneReports

\* Everything an operator does but Launch, the selection and WriteFiles.
LEMMA FormsAside ==
  ASSUME OsInv,
         \/ OkMain \/ EditNetworkConfig \/ NoImage \/ InitiatePxeboot \/ OkStatus
         \/ \E f \in Forms : Cancel(f)
  PROVE  Aside
<1>1. CASE OkMain
  <2>1. \E f : Goto(f)
    BY <1>1 DEF OkMain
  <2>2. Shows("MAIN") /\ UNCHANGED <<nodes, begun, files, clock, hist, mc>>
    BY <1>1 DEF OkMain, data, world
  <2> QED
    BY <2>1, <2>2, EditOnward, StillNobody DEF Aside
<1>2. CASE EditNetworkConfig
  <2>1. Shows("NODE") /\ Goto("MAIN") /\ UNCHANGED <<nodes, begun, files, clock, hist, mc>>
    BY <1>2 DEF EditNetworkConfig, data, world
  <2> QED
    BY <2>1, EditOnward, StillNobody DEF Aside
<1>3. CASE NoImage
  <2>1. Goto("exit") /\ UNCHANGED <<nodes, begun, files, clock, hist, mc>>
    BY <1>3 DEF NoImage, data, world
  <2> QED
    BY <2>1, GotoOnward, StillNobody DEF Aside
<1>4. CASE InitiatePxeboot
  <2>1. UNCHANGED <<nodes, begun, files, clock, hist>>
    BY <1>4 DEF InitiatePxeboot, data
  <2>2. PICK after \in Calls : CallBmcs(nodes.sel, after)
    BY <1>4 DEF InitiatePxeboot, Calls
  <2>3. /\ at.form = "NODE" /\ at # [form |-> "NODE", step |-> "files"]
        /\ at' \in {[form |-> "NODE", step |-> "boot"], [form |-> "NODE", step |-> "on"],
                    [form |-> "STATUS", step |-> "edit"], [form |-> "exit", step |-> "edit"]}
    BY <1>4 DEF InitiatePxeboot, Does, Begins, Goto
  <2> QED
    BY <2>1, <2>2, <2>3, CallEffect DEF Aside, Onward
<1>5. CASE OkStatus
  <2>1. Shows("STATUS") /\ Goto("exit") /\ UNCHANGED <<nodes, begun, files, clock, hist, mc>>
    BY <1>5 DEF OkStatus, data, world
  <2> QED
    BY <2>1, EditOnward, StillNobody DEF Aside
<1>6. ASSUME NEW f \in Forms, Cancel(f) PROVE Aside
  <2>1. Shows(f) /\ f # "exit" /\ UNCHANGED <<nodes, begun, files, clock, hist, mc>>
    BY <1>6 DEF Cancel, Forms, data, world
  <2>2. \E g : Goto(g)
    BY <1>6 DEF Cancel
  <2> QED
    BY <2>1, <2>2, EditOnward, StillNobody DEF Aside
<1> QED
  BY <1>1, <1>2, <1>3, <1>4, <1>5, <1>6

LEMMA PollAside == ASSUME OsInv, StartPoll \/ EndPoll PROVE Aside
<1>1. CASE StartPoll
  <2>1. /\ at = [form |-> "STATUS", step |-> "edit"] /\ nodes # None
        /\ at' \in {[form |-> "STATUS", step |-> "poll"], [form |-> "exit", step |-> "edit"]}
        /\ UNCHANGED <<nodes, begun, files, clock, hist, mc>>
    BY <1>1 DEF StartPoll, Shows, Begins, Goto, world
  <2> QED
    BY <2>1, StillNobody DEF Aside, Onward
<1>2. CASE EndPoll
  <2>1. /\ at = [form |-> "STATUS", step |-> "poll"]
        /\ at' \in {[form |-> "STATUS", step |-> "edit"], [form |-> "exit", step |-> "edit"]}
        /\ UNCHANGED <<nodes, begun, files, clock, hist>>
    BY <1>2 DEF EndPoll, Does, Begins, Goto
  <2>2. \E S : CallBmcs(S, [m \in Machines |-> SetDisk(mc[m])])
    BY <1>2 DEF EndPoll
  <2>3. [m \in Machines |-> SetDisk(mc[m])] \in Calls
    BY DEF Calls
  <2> QED
    BY <2>1, <2>2, <2>3, CallEffect DEF Aside, Onward
<1> QED
  BY <1>1, <1>2

\* All of it holds from the start of the program and through its restarts.
THEOREM OsInstallInvariant == OsSpec => []OsInv
<1>1. OsInit => OsInv
  <2> SUFFICES ASSUME OsInit PROVE OsInv
    OBVIOUS
  <2>1. /\ at = [form |-> "exit", step |-> "edit"] /\ nodes = None /\ begun = 0 /\ clock = 0
        /\ files = [f \in Machines \X Kinds |-> None]
        /\ mc = [m \in Machines |-> [st |-> "up", boot |-> "none"]]
        /\ hist = [rounds |-> 0, restarts |-> 0, started |-> {}, count |-> 0, anon |-> FALSE]
    BY DEF OsInit, Shows
  <2>2. OsShape
    BY <2>1 DEF OsShape
  <2>3. SelectedInv /\ ClockInv /\ ~Live
    BY <2>1 DEF SelectedInv, ClockInv, Does, Live
  <2> QED
    BY <2>1, <2>2, <2>3 DEF OsInv, NamedInv, StartedInv, CountInv
<1>2. OsInv /\ [OsNext]_osVars => OsInv'
  <2> SUFFICES ASSUME OsInv, [OsNext]_osVars PROVE OsInv'
    OBVIOUS
  <2>1. CASE UNCHANGED osVars
    <3>1. UNCHANGED <<at, nodes, begun, files, clock, hist, mc>>
      BY <2>1 DEF osVars
    <3> QED
      BY <3>1, StillNobody, AsideKeeps DEF Aside, Onward
  <2>2. CASE Operator
    <3>1. CASE OkNode
      <4>1. UNCHANGED <<begun, files, clock, mc, hist>>
        BY <3>1 DEF OkNode, world
      <4>2. CASE (Goto("exit") \/ Goto("NODE")) /\ UNCHANGED nodes
        <5>1. Shows("NODE")
          BY <3>1 DEF OkNode
        <5> QED
          BY <4>1, <4>2, <5>1, EditOnward, StillNobody, AsideKeeps DEF Aside
      <4>3. ASSUME NEW list \in Listed, NEW s \in SUBSET list \ {{}}, Begins("NODE", "files"),
                   nodes' = [sel |-> s, rec |-> Unknown, other |-> Unknown]
            PROVE  OsInv'
        BY <4>1, <4>3, SelectKeeps DEF Listed, Responding
      <4> QED
        BY <3>1, <4>2, <4>3 DEF OkNode
    <3> QED
      BY <2>2, <3>1, FormsAside, AsideKeeps, LaunchKeeps, WriteFilesKeeps DEF Operator
  <2>3. CASE StatusPoll
    BY <2>3, PollAside, AsideKeeps, ReadReportKeeps DEF StatusPoll
  <2>4. ASSUME NEW m \in Machines, BootMachine(m) PROVE OsInv'
    <3>1. UNCHANGED <<at, nodes, begun, files, clock, hist>>
      BY <2>4 DEF BootMachine, form, data
    <3> QED
      BY <2>4, <3>1, BootEffect, AsideKeeps DEF Aside, Onward
  <2>5. CASE World
    BY <2>4, <2>5, RestartKeeps, ReportKeeps DEF World
  <2> QED
    BY <2>1, <2>2, <2>3, <2>5 DEF OsNext
<1> QED
  BY <1>1, <1>2, PTL DEF OsSpec

\* Who counts as finished is completed, and nobody counts twice.
LEMMA FinishedAreCompleted ==
  ASSUME OsInv, Live, ~hist.anon
  PROVE  TotalFinished(nodes) \in Nat /\ TotalFinished(nodes) <= Cardinality(Completed)
<1> DEFINE A == FinishedNodes(nodes)
           B == {m \in Machines : Finished(nodes.other[m])}
<1>1. nodes \in Selections
  BY DEF OsInv, OsShape, Live
<1>2. \A m \in nodes.sel : nodes.other[m] = NoRec
  BY DEF OsInv, NamedInv
<1>3. B \cap nodes.sel = {}
  BY <1>2 DEF Finished, NoRec
<1>4. ASSUME NEW m \in Machines, Finished(RecOf(nodes, m)) PROVE m \in Completed
  <2>1. RecOf(nodes, m) \in Records
    BY <1>1 DEF RecOf, Selections
  <2>2. RecOf(nodes, m).start \in Times(m, "start") /\ RecOf(nodes, m).finish \in Times(m, "finish")
    BY <1>4, <2>1 DEF Times, Finished, Records
  <2> QED
    BY <1>4, <2>2 DEF Completed, Finished
<1>5. A \subseteq Completed /\ B \subseteq Completed /\ A \cap B = {}
  BY <1>1, <1>3, <1>4 DEF FinishedNodes, RecOf, Selections
<1> HIDE DEF A, B
<1>6. /\ IsFiniteSet(A) /\ IsFiniteSet(B) /\ A \cup B \subseteq Completed
  BY <1>5, CompletedFinite
<1>7. /\ Cardinality(A \cup B) = Cardinality(A) + Cardinality(B)
      /\ Cardinality(A) \in Nat /\ Cardinality(B) \in Nat
  <2>1. Cardinality(A \cup B) = Cardinality(A) + Cardinality(B) - Cardinality(A \cap B)
    BY <1>6, FS_Union
  <2>2. Cardinality(A \cap B) = 0
    BY <1>5, FS_EmptySet
  <2>3. Cardinality(A) \in Nat /\ Cardinality(B) \in Nat
    BY <1>6, FS_CardinalityType
  <2> QED
    BY <2>1, <2>2, <2>3
<1>8. Cardinality(A \cup B) <= Cardinality(Completed)
  BY <1>6, CompletedFinite
<1> QED
  BY <1>7, <1>8 DEF TotalFinished, A, B

\* If reports name their machines, network installation is switched off only
\* when as many installations as nodes were selected have been started and
\* completed since it was begun.
THEOREM LocalBootWhenAllDone == OsSpec => LocalBootWhenDone
<1>1. OsInv /\ [OsNext]_osVars => (pxe /\ ~pxe' /\ ~hist.anon => hist.count >= Cardinality(nodes.sel))
  <2> SUFFICES ASSUME OsInv, [OsNext]_osVars, pxe, ~pxe', ~hist.anon
               PROVE  hist.count >= Cardinality(nodes.sel)
    OBVIOUS
  <2>1. EndPoll
    <3>1. ~UNCHANGED pxe
      OBVIOUS
    <3> QED
      BY <3>1 DEF osVars, OsNext, Operator, StatusPoll, World, Launch, OkMain, EditNetworkConfig,
         OkNode, NoImage, WriteFiles, InitiatePxeboot, OkStatus, Cancel, StartPoll, ReadReport,
         BootMachine, Restart, Report
  <2>2. Live
    BY <2>1 DEF EndPoll, OsInv, SelectedInv, Live, Does
  <2>3. TotalFinished(nodes) >= Cardinality(nodes.sel)
    BY <2>1 DEF EndPoll
  <2>4. IsFiniteSet(nodes.sel)
    BY <2>2, OsinstallAssumption, FS_Subset DEF Live, OsInv, OsShape, Selections
  <2>5. /\ Cardinality(nodes.sel) \in Nat /\ Cardinality(Completed) \in Nat /\ hist.count \in Nat
        /\ Cardinality(Completed) <= hist.count
    BY <2>2, <2>4, FS_CardinalityType, CompletedFinite DEF OsInv, OsShape, CountInv
  <2> QED
    BY <2>2, <2>3, <2>5, FinishedAreCompleted
<1> QED
  BY <1>1, OsInstallInvariant, PTL DEF OsSpec, LocalBootWhenDone
=============================================================================
