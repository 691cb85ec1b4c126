---------------------------- MODULE SoftwarePrep ----------------------------
(***************************************************************************)
(* "pup software --prep" and "--status" of the wmla120 and wmla121         *)
(* modules: the content of the POWER-Up software server, the software      *)
(* variables held in memory (sw_vars) and their copy in software-vars.yml, *)
(* written after almost every step by two separate opens.                  *)
(*                                                                         *)
(* An item of content is the set of its parts that are on the server.      *)
(* A step of the preparation is the set of outcomes it may have: what the  *)
(* server and the variables become, and whether the step saves, returns    *)
(* without saving, or dies of an exception nobody catches.  The alternate  *)
(* sources the variables remember for the prompts, and the order prep_post *)
(* gives to the channels, are left out.                                    *)
(***************************************************************************)
EXTENDS Naturals, Sequences, FiniteSets

CONSTANTS Releases,    \* the software modules in use
          MaxVaried,   \* items the operator works on in one behaviour
          Crashes,     \* times the process may be killed
          Runs         \* commands an operator gives

ASSUME PrepAssumption == Releases \subseteq {"wmla120", "wmla121"}

VARIABLES rel,     \* the software module, fixed in Init
          varied,  \* the items the operator works on, fixed in Init
          mem,     \* [srv, rec, chan]: server content and sw_vars
          file,    \* software-vars.yml: [rec, chan], empty when lost
          pc,      \* 0, or the step of the command the process is at
          io,      \* "no", or how far a save has come: "open", "dump"
          shown,   \* what the last command printed at its end
          left     \* [runs, crashes] still to come
vars == <<rel, varied, mem, file, pc, io, shown, left>>
---------------------------------------------------------------------------
(* Content: the parts of each kind of item.  "file" is a usable file and   *)
(* "bad" one whose md5sum is wrong; a conda repository is its linux        *)
(* directory and its packages; a yum repository is packages and metadata.  *)
Conda == {"ibmai", "free", "main"}
Yum   == {"cuda_driver", "dependent_packages", "epel"}
Files == {"wmla_license", "conductor", "dli", "anaconda"}
Items == Conda \cup Yum \cup Files \cup {"pypi"}
Parts(i) == CASE i \in Conda            -> {"linux", "pkgs"}
              [] i \in Yum              -> {"meta", "pkgs"}
              [] i = "pypi"             -> {"simple", "pkgs"}
              [] i \in {"conductor", "dli"} -> {"file", "ent"}
              [] OTHER                  -> {"file"}
Lead == {"linux", "meta", "simple", "file", "ent"}

(* The channel entry of a repository that is not there: ''. *)
NoDir == "''"
Lost  == [rec |-> {}, chan |-> {}]

Having(s, i, ps) == [s EXCEPT !.srv[i] = @ \cup ps]

(* What the server holds, as the rescan of its directories reads it. *)
Detected(srv) == {d \in Items \X Lead : d[2] \in srv[d[1]]}

(* verify_pkgs of the three kinds of repository: no package of the list is *)
(* missing.  The versions are compared too, for the summary; without its   *)
(* directory a conda repository has a list of no packages.                 *)
VerifyYumPkgs(s, i)   == "pkgs" \in s.srv[i]
VerifyCondaPkgs(s, i) == "linux" \in s.srv[i] => "pkgs" \in s.srv[i]
VerifyPypiPkgs(s)     == "pkgs" \in s.srv["pypi"]

(* status_prep of one item. *)
ContentStatus(s, i) == s.srv[i] \cap {"file", "bad"} # {}
YumStatus(s, i)     == "meta" \in s.srv[i] /\ VerifyYumPkgs(s, i)
CondaStatus(s, i)   == /\ <<i, "linux">> \in s.rec
                       /\ "linux" \in s.srv[i] /\ VerifyCondaPkgs(s, i)
                       /\ i \in s.chan
PypiStatus(s)       == VerifyPypiPkgs(s)
StatusPrep(s, i) == CASE i \in Files -> ContentStatus(s, i)
                      [] i \in Yum   -> YumStatus(s, i)
                      [] i \in Conda -> CondaStatus(s, i)
                      [] OTHER       -> PypiStatus(s)

(* The line the summary ends with: an item that is missing, or one whose   *)
(* file is not the recorded one, keeps it from "Preparation complete".     *)
SummaryOfPresent(s) ==
    IF \A i \in Items : StatusPrep(s, i) THEN "complete" ELSE "incomplete"
Summary(s) ==
    IF /\ \A i \in Items : StatusPrep(s, i)
       /\ \A i \in {"conductor", "dli"} : "ent" \in s.srv[i]
       /\ "simple" \in s.srv["pypi"]
       /\ \A i \in Files : <<i, "file">> \in s.rec
    THEN "complete" ELSE "incomplete"

(* _update_software_vars: everything is read again from the server. *)
Channels(srv) ==
    LET there == {i \in Conda : "linux" \in srv[i]}
    IN  there \cup (IF there = Conda THEN {} ELSE {NoDir})
Scanned(s, extra) == [srv |-> s.srv, rec |-> Detected(s.srv) \cup extra, chan |-> Channels(s.srv)]
BadSums(s) == {<<i, "file">> : i \in {j \in Files : "bad" \in s.srv[j]}}

(* wmla121 asks about a file with a wrong sum, wmla120 takes any.          *)
ScanKeepsRecord(s) == {Scanned(s, s.rec)}
UpdateSoftwareVars121(s) == {Scanned(s, b) : b \in {{}, BadSums(s)}}
UpdateSoftwareVars120(s) == {Scanned(s, BadSums(s))}
Rescan(s) == IF rel = "wmla121" THEN UpdateSoftwareVars121(s) ELSE UpdateSoftwareVars120(s)
---------------------------------------------------------------------------
(* Outcomes of a step. *)
Save(s) == [s |-> s, end |-> "save"]
Skip(s) == [s |-> s, end |-> "next"]
Dies(s) == [s |-> s, end |-> "died"]

(* get_url: URLs are tried until one has the file or the operator stops;   *)
(* the file and its entitlement are then downloaded one by one.            *)
(* get_src_path: a file of the local disk is chosen, or none.              *)
Wanted(i)   == {"file"} \cup (Parts(i) \cap {"ent"})
FromUrl(i)  == SUBSET Wanted(i)
FromDisk(i) == {{}, Wanted(i)}
CopyCut(i)  == {{}} \cup {{"file"} : e \in Parts(i) \cap {"ent"}}

(* setup_source_file asks until all is there or the operator gives up; a   *)
(* file found before is returned when nothing is copied, and a file of the *)
(* disk that cannot be read ends the command, the other maybe copied.      *)
SetupSourceFile(s, i) ==
    LET had == s.srv[i] \cap {"file", "bad"}
    IN  {[s |-> Having(s, i, g), dest |-> had \cup (g \cap {"file"}) # {},
          state |-> g = Wanted(i), ok |-> TRUE] : g \in FromUrl(i) \cup FromDisk(i)}
        \cup {[s |-> Having(s, i, g), dest |-> TRUE, state |-> FALSE, ok |-> FALSE] :
                 g \in CopyCut(i)}

(* The three files that come with the product (and their entitlement). *)
ContentStep(s, i) ==
    (IF StatusPrep(s, i) THEN {Skip(s)} ELSE {})
    \cup {IF ~o.ok THEN Dies(o.s)
          ELSE Save([o.s EXCEPT
                     !.rec = @ \cup (IF o.dest THEN {<<i, "file">>} ELSE {})
                               \cup (IF o.state /\ "ent" \in Parts(i)
                                     THEN {<<i, "ent">>} ELSE {})]) :
             o \in SetupSourceFile(s, i)}

(* copy_dirs: the old repository is removed, with the operator's consent,  *)
(* before the directory to copy from has been asked for.                   *)
CopyDirs(s, i) ==
    {s} \cup {[s EXCEPT !.srv[i] = ps] : ps \in SUBSET Parts(i)}

(* write_yum_dot_repo_file: a source that has changed takes the metadata   *)
(* of the repository away.                                                 *)
WriteDotRepo(s, i) == {s, [s EXCEPT !.srv[i] = @ \ {"meta"}]}

(* _add_dependent_packages and create_meta: errors are logged and passed.  *)
AddPackages(s, i) == {Having(s, i, ps) : ps \in SUBSET {"pkgs"}}
CreateMeta(S, i)  == S \cup {Having(t, i, {"meta"}) : t \in S}
SyncYum(S, i)     == CreateMeta(UNION {AddPackages(t, i) : t \in S}, i)

(* PowerupRepoFromRpm: no file chosen, or one that is no rpm, ends the     *)
(* command, and so does one without metadata of its own, when its packages *)
(* are there already.                                                      *)
FromRpm(s, i) ==
    {Dies(s)} \cup {Dies(t) : t \in CreateMeta({Having(s, i, {"pkgs"})}, i)}
    \cup {Save(Having(s, i, {"meta"} \cup ps)) : ps \in SUBSET {"pkgs"}}

(* A yum repository: E the enabled repos, P the public one, D a directory, *)
(* A an alternate repository, rpm a local rpm, S nothing.                  *)
YumStep(s, i, choices) ==
    LET from(c) ==
          CASE c = "S"          -> {Skip(s)}
            [] c = "E"          -> {Save(t) : t \in SyncYum({s}, i)}
            [] c \in {"P", "A"} -> {Save(t) : t \in SyncYum(WriteDotRepo(s, i), i)}
            [] c = "D"          -> {Save(t) : t \in CopyDirs(s, i)}
            [] c = "rpm"        -> FromRpm(s, i)
    IN  UNION {from(c) : c \in choices}

(* get_repo_url: the public site or another one, or none. *)
GetRepoUrl == {"public", "other", "none"}

(* sync_ana: the directory and what of the packages could be downloaded;   *)
(* None without a list of packages; without one to rewrite it dies.        *)
SyncAna(s, i) ==
    {[s |-> Having(s, i, ps), end |-> e] :
        ps \in {{}, {"linux"}}, e \in {"None", "died"}}
    \cup {[s |-> Having(s, i, {"linux"} \cup ps), end |-> "dir"] : ps \in SUBSET {"pkgs"}}

(* A conda repository: the linux directory, then the noarch one.  Only the *)
(* ibmai step looks at what sync_ana returned; the others take the         *)
(* position of a substring of None.  None, once, of noarch is passed over. *)
CondaStep(s, i, checked) ==
    LET none(t)  == IF checked THEN Skip(t) ELSE Dies(t)
        after(o) == CASE o.end = "died" -> {Dies(o.s)}
                      [] o.end = "None" -> {none(o.s)}
                      [] OTHER          -> {Save([o.s EXCEPT !.chan = @ \cup {i}]), Dies(o.s)}
    IN  {Skip(s)} \cup UNION {IF u = "none" THEN {Save(s)}
                              ELSE UNION {after(o) : o \in SyncAna(s, i)} : u \in GetRepoUrl}

(* PowerupPypiRepoFromRepo.sync: a repository that has no parent directory *)
(* and an alternate site that is not http end the command; packages that   *)
(* could not be downloaded are logged.                                     *)
PypiStep(s) ==
    {Skip(s), Save(s)} \cup {Dies(Having(s, "pypi", ps)) : ps \in SUBSET Parts("pypi")}
    \cup {Save(Having(s, "pypi", {"simple"} \cup ps)) : ps \in SUBSET {"pkgs"}}

(* Engineering mode only; every source asks for a repository object the    *)
(* class cannot build without the base directory, so only "no" and "N"     *)
(* come back.                                                              *)
CustomStep(s) == {Skip(s), Dies(s)}
---------------------------------------------------------------------------
(* The steps of the two modules.  wmla121 checks the sum of the Anaconda   *)
(* installer and returns without recording, or saving, one that is wrong.  *)
WrongSum(s) == Having(s, "anaconda", {"bad"})

CreateIbmaiRepo121(s)         == CondaStep(s, "ibmai", TRUE)
CreateWmlaLicense121(s)       == ContentStep(s, "wmla_license")
CreateSpectrumConductor121(s) == ContentStep(s, "conductor")
CreateSpectrumDli121(s)       == ContentStep(s, "dli")
CreateCudaDrvRepo121(s)       == YumStep(s, "cuda_driver", {"P", "rpm", "A", "S"})
CreateDependencyRepo121(s)    == YumStep(s, "dependent_packages", {"E", "D", "A", "S"})
CreateCondaContent121(s)      == ContentStep(s, "anaconda") \cup {Skip(WrongSum(s))}
CreateCondaFreeRepo121(s)     == CondaStep(s, "free", FALSE)
CreateCondaMainRepo121(s)     == CondaStep(s, "main", FALSE)
CreatePypiRepo121(s)          == PypiStep(s)
CreateEpelRepo121(s)          == YumStep(s, "epel", {"E", "D", "A", "S"})
CreateCustomRepo121(s)        == CustomStep(s)

CreateIbmaiRepo120(s)         == CondaStep(s, "ibmai", TRUE)
CreateWmlaLicense120(s)       == ContentStep(s, "wmla_license")
CreateSpectrumConductor120(s) == ContentStep(s, "conductor")
CreateSpectrumDli120(s)       == ContentStep(s, "dli")
CreateCudaDrvRepo120(s)       == YumStep(s, "cuda_driver", {"P", "rpm", "A", "S"})
CreateDependencyRepo120(s)    == YumStep(s, "dependent_packages", {"E", "D", "A", "S"})
CreateCondaContent120(s)      ==
    ContentStep(s, "anaconda")
    \cup {Save([WrongSum(s) EXCEPT !.rec = @ \cup {<<"anaconda", "file">>}])}
CreateCondaFreeRepo120(s)     == CondaStep(s, "free", FALSE)
CreateCondaMainRepo120(s)     == CondaStep(s, "main", FALSE)
CreatePypiRepo120(s)          == PypiStep(s)
CreateEpelRepo120(s)          == YumStep(s, "epel", {"E", "D", "A", "S"})
CreateCustomRepo120(s)        == CustomStep(s)

(* The order of prep: the item of each create step. *)
PrepOrder == <<"ibmai", "wmla_license", "conductor", "dli", "cuda_driver",
               "dependent_packages", "anaconda", "free", "main", "pypi", "epel", "custom">>
Create121(i, s) ==
    CASE i = "ibmai" -> CreateIbmaiRepo121(s)
      [] i = "wmla_license" -> CreateWmlaLicense121(s)
      [] i = "conductor" -> CreateSpectrumConductor121(s)
      [] i = "dli" -> CreateSpectrumDli121(s)
      [] i = "cuda_driver" -> CreateCudaDrvRepo121(s)
      [] i = "dependent_packages" -> CreateDependencyRepo121(s)
      [] i = "anaconda" -> CreateCondaContent121(s)
      [] i = "free" -> CreateCondaFreeRepo121(s)
      [] i = "main" -> CreateCondaMainRepo121(s)
      [] i = "pypi" -> CreatePypiRepo121(s)
      [] i = "epel" -> CreateEpelRepo121(s)
      [] i = "custom" -> CreateCustomRepo121(s)
Create120(i, s) ==
    CASE i = "ibmai" -> CreateIbmaiRepo120(s)
      [] i = "wmla_license" -> CreateWmlaLicense120(s)
      [] i = "conductor" -> CreateSpectrumConductor120(s)
      [] i = "dli" -> CreateSpectrumDli120(s)
      [] i = "cuda_driver" -> CreateCudaDrvRepo120(s)
      [] i = "dependent_packages" -> CreateDependencyRepo120(s)
      [] i = "anaconda" -> CreateCondaContent120(s)
      [] i = "free" -> CreateCondaFreeRepo120(s)
      [] i = "main" -> CreateCondaMainRepo120(s)
      [] i = "pypi" -> CreatePypiRepo120(s)
      [] i = "epel" -> CreateEpelRepo120(s)
      [] i = "custom" -> CreateCustomRepo120(s)
Create(i, s) == IF rel = "wmla121" THEN Create121(i, s) ELSE Create120(i, s)

(* Step numbers: 1 rescan, 2 checks of prep_init, 3..14 the create steps,  *)
(* 15 chcon_srv, 16 status; 17 the save after a keyboard interrupt;        *)
(* 18 the rescan and 19 the check an installation starts with; 20 the      *)
(* checks of "--prep --step", 21..32 the step asked for, after which the   *)
(* variables are saved (17) without a rescan.                              *)
PrepAt == 1
StatusAt == 16
InterruptedAt == 17
InstallAt == 18
CheckAt == 19
ChosenAt == 20
Follow == CASE pc = ChosenAt  -> 21..32
            [] pc \in 21..32 -> {InterruptedAt}
            [] OTHER         -> {pc + 1}

(* The two services are looked at anew each time; what is found is shown,  *)
(* or, where no branch is taken, nothing is noted at all ("unset").        *)
FirewallStatus == {"up", "down", "unset"}
NginxStatus121 == {"up", "down", "-"}
NginxStatus120 == {"up", "unset", "-"}
NginxStatus    == IF rel = "wmla121" THEN NginxStatus121 ELSE NginxStatus120

(* prep_init, the services and chcon_srv change nothing here and may end   *)
(* the command: no yum, no firewall wanted, no answer from nginx.          *)
SetupFirewall(s)    == {Skip(s), Dies(s)}
SetupNginxServer(s) == {IF n = "up" THEN Skip(s) ELSE Dies(s) : n \in NginxStatus}
PrepInit(s) == {Dies(s)} \cup SetupFirewall(s) \cup SetupNginxServer(s)

(* status of wmla121 sets nginx up once more before it reads anything. *)
StatusDies(s) == {o \in SetupNginxServer(s) : rel = "wmla121" /\ o.end = "died"}

(* What status prints in the end, after the save: nothing when a service   *)
(* has no state (KeyError).                                                *)
Says(s, firewall, nginx) ==
    IF "unset" \in {firewall, nginx} THEN "none"
    ELSE IF nginx = "-" THEN "incomplete" ELSE Summary(s)
Shown(s) == \E f \in FirewallStatus, n \in NginxStatus : shown' = Says(s, f, n)
ChconSrv(s) == IF rel = "wmla121" THEN {Skip(s), Dies(s)} ELSE {Skip(s)}

Outcomes ==
    CASE pc \in {PrepAt, InstallAt} -> {Save(t) : t \in Rescan(mem)}
      [] pc = StatusAt -> {Save(t) : t \in Rescan(mem)} \cup StatusDies(mem)
      [] pc \in {2, ChosenAt}                 -> PrepInit(mem)
      [] pc \in 3..14 \cup 21..32 ->
                         LET i == PrepOrder[IF pc > 20 THEN pc - 20 ELSE pc - 2]
                         IN  IF i \in varied \cup {"custom"} THEN Create(i, mem) ELSE {Skip(mem)}
      [] pc = 15      -> ChconSrv(mem)
      [] pc = InterruptedAt -> {Save(mem)}
      [] OTHER              -> {}

(* _install_ready: every content file and yum repo file has a value and no *)
(* channel is empty.  The Python package repository is not looked at.      *)
ReadyWithoutRepos(m) == /\ \A i \in Files : <<i, "file">> \in m.rec
                        /\ NoDir \notin m.chan
InstallReady(m) ==
    /\ \A i \in Files : <<i, "file">> \in m.rec
    /\ \A i \in {"conductor", "dli"} : <<i, "ent">> \in m.rec
    /\ \A i \in Yum : <<i, "meta">> \in m.rec
    /\ NoDir \notin m.chan
---------------------------------------------------------------------------
Init ==
    /\ rel \in Releases
    /\ varied \in {w \in SUBSET Items : Cardinality(w) <= MaxVaried}
    /\ mem = [srv  |-> [i \in Items |-> IF i \in varied THEN {} ELSE Parts(i)],
              rec  |-> {}, chan |-> {}]
    /\ file = Lost
    /\ pc = 0 /\ io = "no" /\ shown = "none"
    /\ left = [runs |-> Runs, crashes |-> Crashes]

(* The process starts: the variables are what the file holds. *)
Loaded == [srv |-> mem.srv, rec |-> file.rec, chan |-> file.chan]
Start(at) ==
    /\ pc = 0 /\ left.runs > 0
    /\ left' = [left EXCEPT !.runs = @ - 1]
    /\ mem' = Loaded
    /\ pc' = at /\ shown' = "none"
    /\ UNCHANGED <<rel, varied, file, io>>

(* The process is gone, and its variables with it. *)
Gone(srv) ==
    /\ mem' = [srv |-> srv, rec |-> {}, chan |-> {}]
    /\ pc' = 0 /\ io' = "no"

Step ==
    /\ io = "no"
    /\ \E o \in Outcomes :
         \/ o.end = "save" /\ mem' = o.s /\ io' = "open" /\ UNCHANGED pc
         \/ o.end = "next" /\ mem' = o.s /\ pc' \in Follow /\ UNCHANGED io
         \/ o.end = "died" /\ Gone(o.s.srv)
    /\ UNCHANGED <<rel, varied, file, shown, left>>

(* write_sw_vars_to_file: open for writing, then open to append. *)
Truncate ==
    /\ io = "open" /\ io' = "dump"
    /\ file' = Lost
    /\ UNCHANGED <<rel, varied, mem, pc, shown, left>>

Dump ==
    /\ io = "dump"
    /\ file' = [rec |-> mem.rec, chan |-> mem.chan]
    /\ IF pc \in {StatusAt, InterruptedAt}
       THEN Gone(mem.srv) /\ IF pc = StatusAt THEN Shown(mem) ELSE shown' = "none"
       ELSE pc' \in Follow /\ io' = "no" /\ UNCHANGED <<mem, shown>>
    /\ UNCHANGED <<rel, varied, left>>

(* install: not ready ends the command; ready goes on to the clients. *)
CheckReady ==
    /\ pc = CheckAt
    /\ shown' = IF InstallReady(mem) THEN "ready" ELSE "not ready"
    /\ Gone(mem.srv)
    /\ UNCHANGED <<rel, varied, file, left>>

(* gen.py catches a keyboard interrupt of prep and saves what there is. *)
Interrupt ==
    /\ pc \in 1..15 \cup 20..32 /\ io = "no"
    /\ pc' = InterruptedAt
    /\ UNCHANGED <<rel, varied, mem, file, io, shown, left>>

Kill ==
    /\ pc # 0 /\ left.crashes > 0
    /\ left' = [left EXCEPT !.crashes = @ - 1]
    /\ Gone(mem.srv)
    /\ UNCHANGED <<rel, varied, file, shown>>

Next ==
    \/ Start(PrepAt) \/ Start(ChosenAt) \/ Start(StatusAt) \/ Start(InstallAt)
    \/ Step \/ Truncate \/ Dump \/ CheckReady \/ Interrupt \/ Kill

Spec == Init /\ [][Next]_vars
---------------------------------------------------------------------------
TypeOK ==
    /\ rel \in Releases /\ varied \subseteq Items
    /\ \A i \in Items : mem.srv[i] \subseteq Parts(i) \cup {"bad"}
    /\ mem.rec \cup file.rec \subseteq Items \X Lead
    /\ pc \in 0..32 /\ io \in {"no", "open", "dump"}
    /\ shown \in {"none", "complete", "incomplete", "ready", "not ready"}

(* What prep, status or install last said was said of a file that agrees   *)
(* with the server: whatever steps failed, were interrupted or killed      *)
(* before, and whatever repository was removed to be replaced.  Only an    *)
(* installer with a wrong sum may be recorded besides.                     *)
SavedTrue ==
    pc = 0 /\ shown # "none" =>
        /\ Detected(mem.srv) \subseteq file.rec
        /\ \A p \in file.rec \ Detected(mem.srv) : "bad" \in mem.srv[p[1]]
        /\ \A c \in Conda : c \in file.chan <=> "linux" \in mem.srv[c]

(* "Preparation complete" is never printed over content _install_ready     *)
(* would turn away: the two use different checks of different records.     *)
CompleteMeansReady == pc = 0 /\ shown = "complete" => InstallReady(file)

(* An installation that is let through finds on the server each file,      *)
(* repository and channel it points the clients at, even when the file was *)
(* left by a preparation that was interrupted after it removed one.        *)
ReadyIsServed ==
    pc = 0 /\ shown = "ready" =>
        /\ \A i \in Files : mem.srv[i] \cap {"file", "bad"} # {}
        /\ \A i \in Yum : "meta" \in mem.srv[i]
        /\ \A i \in Conda : "linux" \in mem.srv[i]

=============================================================================
