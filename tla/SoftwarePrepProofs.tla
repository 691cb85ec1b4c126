------------------------- MODULE SoftwarePrepProofs -------------------------
(***************************************************************************)
(* Theorems about SoftwarePrep, for any number of items worked on, of      *)
(* commands and of kills.  What is said at the end of a command is said of *)
(* variables read from the server a moment before, which no later step of  *)
(* that command changes and whose save is complete by then (Invariant).    *)
(***************************************************************************)
EXTENDS SoftwarePrep, TLAPS

\* Variables that agree with the server, as a rescan leaves them.
Agree(srv, v) ==
  /\ Detected(srv) \subseteq v.rec
  /\ \A p \in v.rec \ Detected(srv) : p[1] \in Files /\ "bad" \in srv[p[1]]
  /\ v.chan = Channels(srv)

Rescanning == {StatusAt, InstallAt}
Invariant ==
  /\ pc \in 0 .. 32
  /\ pc \in {0, CheckAt} => io = "no"
  /\ pc \in Rescanning /\ io # "no" => Agree(mem.srv, mem)
  /\ pc = CheckAt => Agree(mem.srv, mem) /\ file.rec = mem.rec /\ file.chan = mem.chan
  /\ shown # "none" => /\ pc = 0 /\ Agree(mem.srv, file)
                       /\ shown = "complete" => InstallReady(file)
                       /\ shown = "ready" => InstallReady(file)
-----------------------------------------------------------------------------
LEMMA ScanAgrees == ASSUME NEW s, NEW t \in Rescan(s) PROVE Agree(t.srv, t)
<1>1. PICK extra \in {{}, BadSums(s)} : t = Scanned(s, extra)
  BY DEF Rescan, UpdateSoftwareVars120, UpdateSoftwareVars121
<1>2. \A p \in extra : p[1] \in Files /\ "bad" \in s.srv[p[1]]
  BY DEF BadSums
<1> QED
  BY <1>1, <1>2 DEF Scanned, Agree

\* The summary and _install_ready look at the same records when they agree
\* with the server: a complete preparation is one that can be installed.
LEMMA CompleteIsReady ==
  ASSUME NEW v, Agree(v.srv, v), Summary(v) = "complete"
  PROVE  InstallReady(v)
<1>1. /\ \A i \in Items : StatusPrep(v, i)
      /\ \A i \in {"conductor", "dli"} : "ent" \in v.srv[i]
      /\ \A i \in Files : <<i, "file">> \in v.rec
  BY DEF Summary
<1>2. \A i \in {"conductor", "dli"} : <<i, "ent">> \in Detected(v.srv)
  BY <1>1 DEF Detected, Items, Files, Lead
<1>3. \A i \in Yum : <<i, "meta">> \in Detected(v.srv)
  <2>1. \A i \in Yum : i \in Items /\ i \notin Files \cup Conda
    BY DEF Items, Yum, Files, Conda
  <2>2. \A i \in Yum : YumStatus(v, i)
    BY <1>1, <2>1 DEF StatusPrep
  <2> QED
    BY <2>1, <2>2 DEF YumStatus, Detected, Lead
<1>4. \A i \in Conda : "linux" \in v.srv[i]
  BY <1>1 DEF Items, StatusPrep, CondaStatus, Yum, Files, Conda
<1>5. NoDir \notin v.chan
  BY <1>4 DEF Agree, Channels, NoDir, Conda
<1> QED
  BY <1>1, <1>2, <1>3, <1>5 DEF InstallReady, Agree

LEMMA InvariantInit == Init => Invariant
BY DEF Init, Invariant, Rescanning, StatusAt, InstallAt, CheckAt

LEMMA RescanOutcomes ==
  ASSUME pc \in Rescanning, NEW o \in Outcomes
  PROVE  o.end = "died" \/ \E t \in Rescan(mem) : o = Save(t)
<1>1. CASE pc = InstallAt
  <2>1. Outcomes = {Save(t) : t \in Rescan(mem)}
    BY <1>1 DEF Outcomes, PrepAt, InstallAt, StatusAt, ChosenAt, InterruptedAt
  <2> QED
    BY <2>1
<1>2. CASE pc = StatusAt
  <2>1. Outcomes = {Save(t) : t \in Rescan(mem)} \cup StatusDies(mem)
    BY <1>2 DEF Outcomes, PrepAt, InstallAt, StatusAt, ChosenAt, InterruptedAt
  <2>2. \A d \in StatusDies(mem) : d.end = "died"
    BY DEF StatusDies
  <2> QED
    BY <2>1, <2>2
<1> QED
  BY <1>1, <1>2 DEF Rescanning

\* The steps of a command: a rescan leaves variables that agree and is saved,
\* no other step leads to the status or to the check of an installation.
LEMMA StepKeeps == ASSUME Invariant, Step PROVE Invariant'
<1>1. io = "no" /\ UNCHANGED <<rel, file, shown>> /\ pc \in 0 .. 32
  BY DEF Step, Invariant
<1>2. PICK o \in Outcomes :
        \/ o.end = "save" /\ mem' = o.s /\ io' = "open" /\ UNCHANGED pc
        \/ o.end = "next" /\ mem' = o.s /\ pc' \in Follow /\ UNCHANGED io
        \/ o.end = "died" /\ Gone(o.s.srv)
  BY DEF Step
<1>3. pc # 0 /\ pc # CheckAt /\ shown = "none"
  <2>1. pc # 0 /\ pc # CheckAt
    BY <1>2 DEF Outcomes, PrepAt, InstallAt, StatusAt, ChosenAt, InterruptedAt, CheckAt
  <2> QED
    BY <2>1 DEF Invariant
<1>4. CASE o.end = "died" /\ Gone(o.s.srv)
  BY <1>1, <1>3, <1>4 DEF Gone, Invariant, Rescanning, StatusAt, InstallAt, CheckAt
<1>5. CASE o.end = "next" /\ mem' = o.s /\ pc' \in Follow /\ UNCHANGED io
  <2>1. pc # InstallAt
    BY <1>2, <1>5, RescanOutcomes DEF Rescanning, Save
  <2>2. pc' \in 0 .. 32 /\ pc' # CheckAt
    BY <1>1, <1>5, <2>1, <1>3 DEF Follow, ChosenAt, InterruptedAt, InstallAt, CheckAt
  <2> QED
    BY <1>1, <1>3, <1>5, <2>2 DEF Invariant
<1>6. CASE o.end = "save" /\ mem' = o.s /\ io' = "open" /\ UNCHANGED pc
  <2>1. pc \in Rescanning => o.s \in Rescan(mem)
    BY <1>2, <1>6, RescanOutcomes DEF Save
  <2>2. pc \in Rescanning => Agree(mem.srv, mem)'
    BY <1>6, <2>1, ScanAgrees
  <2> QED
    BY <1>1, <1>3, <1>6, <2>2 DEF Invariant
<1> QED
  BY <1>2, <1>4, <1>5, <1>6

LEMMA DumpKeeps == ASSUME Invariant, Dump PROVE Invariant'
<1>1. /\ io = "dump" /\ pc \in 0 .. 32 /\ file'.rec = mem.rec /\ file'.chan = mem.chan
      /\ InstallReady(file)' <=> InstallReady(mem)
      /\ Agree(mem.srv, file)' <=> Agree(mem'.srv, mem)
  BY DEF Dump, Invariant, InstallReady, Agree
<1>2. CASE pc = StatusAt
  <2>1. pc' = 0 /\ mem'.srv = mem.srv /\ Agree(mem.srv, mem) /\ Shown(mem)
    BY <1>1, <1>2 DEF Dump, Gone, Invariant, Rescanning
  <2>2. shown' = "complete" => Summary(mem) = "complete"
    BY <2>1 DEF Shown, Says
  <2>3. shown' # "ready"
    BY <2>1 DEF Shown, Says, Summary
  <2>4. Agree(mem.srv, file)'
    BY <1>1, <2>1
  <2>5. shown' = "complete" => InstallReady(file)'
    BY <1>1, <2>1, <2>2, CompleteIsReady
  <2>6. io' = "no"
    BY <1>2 DEF Dump, Gone
  <2> QED
    BY <2>1, <2>3, <2>4, <2>5, <2>6 DEF Invariant, Rescanning, StatusAt, InstallAt, CheckAt
<1>3. CASE pc = InterruptedAt
  BY <1>3 DEF Dump, Gone, Invariant, Rescanning, StatusAt, InterruptedAt, InstallAt, CheckAt
<1>4. CASE pc \notin {StatusAt, InterruptedAt}
  <2>1. /\ pc' \in Follow /\ io' = "no" /\ mem' = mem /\ shown' = shown
    BY <1>4 DEF Dump
  <2>2. pc # 0 /\ shown = "none"
    BY <1>1 DEF Invariant
  <2>3. pc' \in 0 .. 32 /\ (pc' = CheckAt => pc = InstallAt)
    BY <1>1, <2>1 DEF Follow, ChosenAt, InterruptedAt, CheckAt, InstallAt
  <2> QED
    BY <1>1, <2>1, <2>2, <2>3 DEF Invariant, Rescanning
<1> QED
  BY <1>2, <1>3, <1>4

\* A command starts with what the file holds and has said nothing yet.
LEMMA StartKeeps ==
  ASSUME Invariant, NEW at \in {PrepAt, ChosenAt, StatusAt, InstallAt}, Start(at)
  PROVE  Invariant'
<1>1. /\ io = "no" /\ UNCHANGED io /\ shown' = "none"
      /\ pc' \in 1 .. 32 /\ pc' # CheckAt
  BY DEF Start, Invariant, PrepAt, ChosenAt, StatusAt, InstallAt, CheckAt
<1> QED
  BY <1>1 DEF Invariant

LEMMA TruncateKeeps == ASSUME Invariant, Truncate PROVE Invariant'
<1>1. /\ io = "open" /\ UNCHANGED <<mem, pc, shown>>
      /\ pc \notin {0, CheckAt} /\ shown = "none"
  BY DEF Truncate, Invariant
<1> QED
  BY <1>1 DEF Invariant

LEMMA CheckReadyKeeps == ASSUME Invariant, CheckReady PROVE Invariant'
<1>1. /\ Agree(mem.srv, mem) /\ UNCHANGED file
      /\ file.rec = mem.rec /\ file.chan = mem.chan
  BY DEF CheckReady, Invariant
<1>2. pc' = 0 /\ io' = "no" /\ mem'.srv = mem.srv
  BY DEF CheckReady, Gone
<1>3. Agree(mem.srv, file)'
  BY <1>1, <1>2 DEF Agree
<1>4. shown' # "complete" /\ (shown' = "ready" => InstallReady(file)')
  BY <1>1 DEF CheckReady, InstallReady
<1> QED
  BY <1>2, <1>3, <1>4 DEF Invariant, Rescanning, StatusAt, InstallAt, CheckAt

\* A command that is interrupted or killed says nothing.
LEMMA InterruptKeeps == ASSUME Invariant, Interrupt PROVE Invariant'
BY DEF Interrupt, Invariant, Rescanning, InterruptedAt, StatusAt, InstallAt, CheckAt

LEMMA KillKeeps == ASSUME Invariant, Kill PROVE Invariant'
<1>1. shown' = "none" /\ pc' = 0 /\ io' = "no"
  BY DEF Kill, Gone, Invariant
<1> QED
  BY <1>1 DEF Invariant, Rescanning, StatusAt, InstallAt, CheckAt

LEMMA InvariantStep == Invariant /\ [Next]_vars => Invariant'
<1> SUFFICES ASSUME Invariant, [Next]_vars PROVE Invariant'
  OBVIOUS
<1>1. CASE UNCHANGED vars
  BY <1>1 DEF vars, Invariant, Agree, InstallReady
<1>2. CASE Next
  BY <1>2, StartKeeps, StepKeeps, TruncateKeeps, DumpKeeps, CheckReadyKeeps,
     InterruptKeeps, KillKeeps DEF Next
<1> QED
  BY <1>1, <1>2

LEMMA AlwaysInvariant == Spec => []Invariant
BY InvariantInit, InvariantStep, PTL DEF Spec
-----------------------------------------------------------------------------
\* The channels that are recorded are those the server has.
LEMMA ChannelsServed ==
  ASSUME NEW srv, NEW c \in Conda
  PROVE  /\ c \in Channels(srv) <=> "linux" \in srv[c]
         /\ NoDir \notin Channels(srv) => "linux" \in srv[c]
<1>1. c # NoDir /\ NoDir \notin Conda
  BY DEF Conda, NoDir
<1> QED
  BY <1>1 DEF Channels

\* Whatever steps failed or were interrupted or killed before, at the end of a
\* command that says something the file and the server agree.
THEOREM SaidIsTrue == Spec => []SavedTrue
<1>1. ASSUME Invariant PROVE SavedTrue
  <2> SUFFICES ASSUME pc = 0, shown # "none" PROVE
         /\ Detected(mem.srv) \subseteq file.rec
         /\ \A p \in file.rec \ Detected(mem.srv) : "bad" \in mem.srv[p[1]]
         /\ \A c \in Conda : c \in file.chan <=> "linux" \in mem.srv[c]
    BY DEF SavedTrue
  <2>1. Agree(mem.srv, file)
    BY <1>1 DEF Invariant
  <2> QED
    BY <2>1, ChannelsServed DEF Agree
<1> QED
  BY <1>1, AlwaysInvariant, PTL

\* A preparation that is reported complete is one an installation accepts.
THEOREM CompleteCanBeInstalled == Spec => []CompleteMeansReady
<1>1. Invariant => CompleteMeansReady
  BY DEF Invariant, CompleteMeansReady
<1> QED
  BY <1>1, AlwaysInvariant, PTL

\* The clients are pointed at nothing the server does not have.
THEOREM InstalledIsServed == Spec => []ReadyIsServed
<1>1. ASSUME Invariant PROVE ReadyIsServed
  <2> SUFFICES ASSUME pc = 0, shown = "ready" PROVE
         /\ \A i \in Files : mem.srv[i] \cap {"file", "bad"} # {}
         /\ \A i \in Yum : "meta" \in mem.srv[i]
         /\ \A i \in Conda : "linux" \in mem.srv[i]
    BY DEF ReadyIsServed
  <2>1. Agree(mem.srv, file) /\ InstallReady(file)
    BY <1>1 DEF Invariant
  <2>2. \A p \in Detected(mem.srv) : p[2] \in mem.srv[p[1]]
    BY DEF Detected
  <2>3. ASSUME NEW i \in Files PROVE mem.srv[i] \cap {"file", "bad"} # {}
    <3>1. <<i, "file">> \in file.rec
      BY <2>1 DEF InstallReady
    <3> QED
      BY <2>1, <2>2, <3>1 DEF Agree
  <2>4. ASSUME NEW i \in Yum PROVE "meta" \in mem.srv[i]
    <3>1. <<i, "meta">> \in file.rec /\ i \notin Files
      BY <2>1 DEF InstallReady, Yum, Files
    <3> QED
      BY <2>1, <2>2, <3>1 DEF Agree
  <2>5. \A i \in Conda : "linux" \in mem.srv[i]
    BY <2>1, ChannelsServed DEF Agree, InstallReady
  <2> QED
    BY <2>3, <2>4, <2>5
<1> QED
  BY <1>1, AlwaysInvariant, PTL
=============================================================================
