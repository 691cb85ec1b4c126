----------------------- MODULE SoftwareInstallProofs -----------------------
(***************************************************************************)
(* Theorems about SoftwareInstall, for any architectures, processor        *)
(* families and number of commands, kills and other commands.  They relate *)
(* what is saved, what the process holds and what has happened, at each    *)
(* point of the two commands.                                              *)
(***************************************************************************)
EXTENDS SoftwareInstall, TLAPS

\* pc by what the process has behind it.
Validating == {"count", "net", "master", "known", "ping", "names", "reboot",
               "keys", "copy", "choose", "menu"}
Ready      == {"sudo", "unlock", "try", "env", "facts", "play"}
Procedure  == {"begin", "tasks", "run", "ansible"}
Chosen     == Ready \cup Procedure

\* The fields of the records: all that the proofs need of their types.
AtShape == /\ at = [pc |-> at.pc, back |-> at.back, kback |-> at.kback,
                    valid |-> at.valid, pw |-> at.pw, part |-> at.part]
           /\ at.valid \in BOOLEAN
VarsShape(v) == v = [init |-> v.init, arch |-> v.arch, proc |-> v.proc,
                     pass |-> v.pass, final |-> v.final, inv |-> v.inv]
InvOf(i) == /\ i = [is |-> i.is, self |-> i.self, names |-> i.names,
                    glob |-> i.glob, own |-> i.own, key |-> i.key]
            /\ i.own = [one |-> i.own.one, two |-> i.own.two, far |-> i.own.far]
            /\ i.own.one \in Said /\ i.own.two \in Said /\ i.own.far \in Said
InvShape  == InvOf(inv)
HistShape == hist = [tried |-> hist.tried, proc |-> hist.proc, agreed |-> hist.agreed,
                     asis |-> hist.asis, reached |-> hist.reached,
                     paused |-> hist.paused, cut |-> hist.cut, miss |-> hist.miss]
Shape == AtShape /\ InvShape /\ HistShape /\ VarsShape(mem) /\ VarsShape(disk)

\* The installer is not rebooted, as long as nobody edits the inventory: its line
\* says so, or holds a True that cannot be removed.
Spared == inv.self => Effective(inv.own) = "False" \/ OutOfReach(inv.own)
SafeInv ==
    /\ at.pc \in {"keys", "copy"} => at.kback \in {"ping", "choose"}
    /\ at.valid => at.pc = "menu" /\ Spared
    /\ at.pc \in Chosen => hist.asis \/ Spared

\* The records of the initialisation, and that an installation is let through
\* only if it fits them.
FitInv ==
    /\ disk.init # None => disk.init = hist.tried
    /\ disk.proc # None => disk.proc = hist.proc
    /\ mem.init # None => mem.init = hist.tried
    /\ mem.proc # None => mem.proc = hist.proc
    /\ at.pc # "none" => cmd.proc # None /\ cmd.name \in {"init", "install"}
    /\ at.pc = "init" => cmd.name = "init"
    /\ at.pc \in Procedure => cmd.name = "install"
    /\ cmd.name = "install" /\ at.pc \in Validating \cup Chosen =>
         /\ hist.proc = cmd.proc
         /\ hist.tried # RepoName => hist.agreed

\* A pause is on disk, or noted by the process whose next step is to save it, or
\* a kill cut it off.
PauseInv ==
    /\ hist.paused \in BOOLEAN /\ mem.final \in BOOLEAN /\ disk.final \in BOOLEAN
    /\ disk.final => hist.reached
    /\ mem.final => hist.reached
    /\ at.pc \notin {"none"} \cup Procedure => mem.final = disk.final
    /\ hist.paused => disk.final \/ hist.cut
                      \/ (mem.final /\ at.pc = "tasks" /\ todo = <<>> /\ cmd.rel = "wmla121")

Invariant == Shape /\ SafeInv /\ FitInv /\ PauseInv
-----------------------------------------------------------------------------
\* What is left of the process that ends, of one that is killed while it saves,
\* and of an inventory that was edited.
LEMMA GoneAt == Gone => AtShape' /\ at'.pc = "none" /\ at'.valid = FALSE
BY DEF Gone, Idle, AtShape

LEMMA GoneMem ==
  Gone => VarsShape(mem') /\ mem'.init = None /\ mem'.proc = None /\ mem'.final = FALSE
BY DEF Gone, Nothing, VarsShape

LEMMA GoneCmd == Gone => cmd'.name = "none"
BY DEF Gone, NoCmd

LEMMA ExitFit == ASSUME Exit, FitInv PROVE FitInv'
BY GoneAt, GoneMem, GoneCmd DEF Exit, FitInv, Procedure

LEMMA NothingShape == VarsShape(Nothing) /\ Nothing.init = None /\ Nothing.proc = None
                      /\ Nothing.final = FALSE
BY DEF Nothing, VarsShape

LEMMA EditedShape == ASSUME InvShape, NEW i \in Edited PROVE InvOf(i)
<1>1. \A own \in {inv.own} \cup Lines :
        /\ own = [one |-> own.one, two |-> own.two, far |-> own.far]
        /\ own.one \in Said /\ own.two \in Said /\ own.far \in Said
  BY DEF InvShape, InvOf, Lines, Unsaid, Said
<1> QED
  BY <1>1 DEF Edited, InvOf

\* What SetPupReboot leaves on the installer's line.
LEMMA SpareSpares ==
  ASSUME InvShape
  PROVE  LET own == Spare(inv.own) IN
         /\ own = [one |-> own.one, two |-> own.two, far |-> own.far]
         /\ own.one \in Said /\ own.two \in Said /\ own.far \in Said
         /\ Effective(own) = "False" \/ OutOfReach(own)
<1> DEFINE o   == inv.own
           own == Spare(inv.own)
<1>1. /\ o = [one |-> o.one, two |-> o.two, far |-> o.far]
      /\ o.one \in Said /\ o.two \in Said /\ o.far \in Said
  BY DEF InvShape, InvOf
<1>2. own = [one |-> "False", two |-> IF o.two = "no" THEN "no" ELSE o.one, far |-> o.far]
  BY <1>1 DEF Spare
<1> HIDE DEF own, o
<1>3. /\ own = [one |-> own.one, two |-> own.two, far |-> own.far]
      /\ own.one = "False" /\ own.two \in {"no", o.one} /\ own.far = o.far
  BY <1>2
<1>4. own.one \in Said /\ own.two \in Said /\ own.far \in Said
  BY <1>1, <1>3 DEF Said
<1>5. Effective(own) = "False" \/ OutOfReach(own)
  BY <1>3, <1>4 DEF Effective, OutOfReach, Said
<1> QED
  BY <1>3, <1>4, <1>5 DEF own

LEMMA InvariantInit == Init => Invariant
<1> SUFFICES ASSUME Init PROVE Invariant
  OBVIOUS
<1>1. Shape
  BY DEF Init, Shape, AtShape, InvShape, InvOf, HistShape, VarsShape, Nothing, Idle, Unsaid, Said
<1>2. SafeInv /\ PauseInv
  BY DEF Init, SafeInv, PauseInv, Nothing, Idle, Chosen, Ready, Procedure
<1>3. FitInv
  BY DEF Init, FitInv, Nothing, Idle, NoCmd, Procedure
<1> QED
  BY <1>1, <1>2, <1>3 DEF Invariant

LEMMA AtStep ==
  ASSUME AtShape, [Next]_vars
  PROVE  AtShape'
<1> USE DEF AtShape
<1>1. CASE \E n \in {"init", "install"}, r \in Releases, a \in Archs, p \in Procs :
              Start(n, r, a, p)
  BY <1>1 DEF Start, Loaded, Go
<1>2. CASE InitClients
  BY <1>2 DEF InitClients, Go
<1>3. CASE InitClientsCheck
  BY <1>3, GoneAt DEF InitClientsCheck, Fits
<1>4. CASE ValidateInventoryCount
  <2>1. CASE HostCheck("count", "net")
    BY <1>4, <2>1 DEF HostCheck, Failed, Idle, Go
  <2> QED
    BY <1>4, <2>1, GoneAt DEF ValidateInventoryCount, Exit
<1>5. CASE ValidateHostListNetwork \/ ValidateMasterNodeCount \/ ValidateClientHostnames
  BY <1>5 DEF ValidateHostListNetwork, ValidateMasterNodeCount, ValidateClientHostnames,
                HostCheck, Failed, Idle, Go, ValidationOnly
<1>6. CASE CheckKnownHosts
  BY <1>6 DEF CheckKnownHosts, Go, ValidationOnly
<1>7. CASE ValidateAnsiblePing
  BY <1>7 DEF ValidateAnsiblePing, Failed, Go, Idle, ValidationOnly
<1>8. CASE SetPupReboot
  BY <1>8 DEF SetPupReboot, Passed, Idle, ValidationOnly
<1>9. CASE CreateNewSoftwareInventory \/ GetAnsibleInventory
  BY <1>9 DEF CreateNewSoftwareInventory, GetAnsibleInventory, ValidationOnly
<1>10. CASE Menu
  <2>1. CASE at' = [Idle EXCEPT !.pc = AfterInventory] \/ at' = [Idle EXCEPT !.pc = "choose"]
    BY <2>1 DEF Idle
  <2>2. CASE at' = [Idle EXCEPT !.pc = "keys", !.kback = "choose"]
    BY <2>2 DEF Idle
  <2> QED
    BY <1>10, <2>1, <2>2, GoneAt DEF Menu, Exit
<1>11. CASE ConfigureSshKeys
  BY <1>11 DEF ConfigureSshKeys, Failed, Go, Idle, ValidationOnly
<1>12. CASE CopySshKeyPairToHosts
  BY <1>12, GoneAt DEF CopySshKeyPairToHosts, Exit, ValidationOnly
<1>13. CASE CacheSudoPass
  BY <1>13 DEF CacheSudoPass, AfterPassword, Keeps
<1>14. CASE UnlockVault
  BY <1>14 DEF UnlockVault, AfterPassword, Go, Keeps
<1>15. CASE ValidateBecomePass
  BY <1>15, GoneAt DEF ValidateBecomePass, AfterPassword, Go, Keeps, Exit
<1>16. CASE SetInstallEnv
  BY <1>16 DEF SetInstallEnv, Go, Keeps
<1>17. CASE GatherFacts
  BY <1>17, GoneAt DEF GatherFacts, Go, Keeps, Exit
<1>18. CASE InitPlaybook
  BY <1>18, GoneAt DEF InitPlaybook, Exit
<1>19. CASE BeginInstall121
  BY <1>19 DEF BeginInstall121, Marked, Go
<1>20. CASE BeginInstall120
  BY <1>20 DEF BeginInstall120, Go, Keeps
<1>21. CASE Pause121
  BY <1>21 DEF Pause121
<1>22. CASE Pause120 \/ NextTask
  BY <1>22 DEF Pause120, NextTask, Go, Keeps
<1>23. CASE LicenseAccept \/ CheckClientsNeedsRestarting \/ EndInstall120
  BY <1>23, GoneAt DEF LicenseAccept, CheckClientsNeedsRestarting, EndInstall120, Exit
<1>24. CASE RunTask
  BY <1>24 DEF RunTask, Go, Keeps
<1>25. CASE AnsibleTasks
  BY <1>25, GoneAt DEF AnsibleTasks, Go
<1>26. CASE EndInstall121
  BY <1>26, GoneAt DEF EndInstall121
<1>27. CASE Kill
  BY <1>27 DEF Kill, Idle
<1>28. CASE OtherEnds \/ UNCHANGED vars
  BY <1>28 DEF OtherEnds, vars
<1> QED
  BY <1>1, <1>2, <1>3, <1>4, <1>5, <1>6, <1>7, <1>8, <1>9, <1>10, <1>11, <1>12, <1>13, <1>14,
     <1>15, <1>16, <1>17, <1>18, <1>19, <1>20, <1>21, <1>22, <1>23, <1>24, <1>25, <1>26, <1>27, <1>28
     DEF Next, Process, ValidateSoftwareInventory, ChooseInventory

LEMMA InvStep ==
  ASSUME InvShape, [Next]_vars
  PROVE  InvShape'
<1> USE DEF InvShape, InvOf
<1>1. CASE \E n \in {"init", "install"}, r \in Releases, a \in Archs, p \in Procs :
              Start(n, r, a, p)
  BY <1>1 DEF Start, Loaded, Go
<1>2. CASE InitClients
  BY <1>2 DEF InitClients, Go
<1>3. CASE InitClientsCheck
  BY <1>3 DEF InitClientsCheck, Fits
<1>4. CASE ValidateInventoryCount
  BY <1>4 DEF ValidateInventoryCount, HostCheck, Failed, Go, Exit, ValidationOnly
<1>5. CASE ValidateHostListNetwork \/ ValidateMasterNodeCount \/ ValidateClientHostnames
  BY <1>5 DEF ValidateHostListNetwork, ValidateMasterNodeCount, ValidateClientHostnames,
                HostCheck, Failed, Idle, Go, ValidationOnly
<1>6. CASE CheckKnownHosts
  BY <1>6 DEF CheckKnownHosts, Go, ValidationOnly
<1>7. CASE ValidateAnsiblePing
  BY <1>7 DEF ValidateAnsiblePing, Failed, Go, Idle, ValidationOnly
<1>8. CASE SetPupReboot
  <2>1. inv' = [inv EXCEPT !.glob = TRUE, !.own = IF inv.self THEN Spare(@) ELSE @]
    BY <1>8 DEF SetPupReboot
  <2> QED
    BY <2>1, SpareSpares
<1>9. CASE CreateNewSoftwareInventory \/ GetAnsibleInventory
  BY <1>9, EditedShape DEF CreateNewSoftwareInventory, GetAnsibleInventory, ValidationOnly
<1>10. CASE Menu
  <2>1. CASE inv' \in Edited
    BY <2>1, EditedShape
  <2> QED
    BY <1>10, <2>1 DEF Menu, Exit
<1>11. CASE ConfigureSshKeys
  BY <1>11 DEF ConfigureSshKeys, Failed, Go, Idle, ValidationOnly
<1>12. CASE CopySshKeyPairToHosts
  BY <1>12 DEF CopySshKeyPairToHosts, Exit, ValidationOnly
<1>13. CASE CacheSudoPass
  BY <1>13 DEF CacheSudoPass, AfterPassword, Keeps
<1>14. CASE UnlockVault
  BY <1>14 DEF UnlockVault, AfterPassword, Go, Keeps
<1>15. CASE ValidateBecomePass
  BY <1>15 DEF ValidateBecomePass, AfterPassword, Go, Keeps, Exit
<1>16. CASE SetInstallEnv
  BY <1>16 DEF SetInstallEnv, Go, Keeps
<1>17. CASE GatherFacts
  BY <1>17 DEF GatherFacts, Go, Keeps, Exit
<1>18. CASE InitPlaybook
  BY <1>18 DEF InitPlaybook, Exit
<1>19. CASE BeginInstall121
  BY <1>19 DEF BeginInstall121, Marked, Go
<1>20. CASE BeginInstall120
  BY <1>20 DEF BeginInstall120, Go, Keeps
<1>21. CASE Pause121
  BY <1>21 DEF Pause121
<1>22. CASE Pause120 \/ NextTask
  BY <1>22 DEF Pause120, NextTask, Go, Keeps
<1>23. CASE LicenseAccept \/ CheckClientsNeedsRestarting \/ EndInstall120
  BY <1>23 DEF LicenseAccept, CheckClientsNeedsRestarting, EndInstall120, Exit
<1>24. CASE RunTask
  BY <1>24 DEF RunTask, Go, Keeps
<1>25. CASE AnsibleTasks
  BY <1>25 DEF AnsibleTasks, Go
<1>26. CASE EndInstall121
  BY <1>26 DEF EndInstall121
<1>27. CASE Kill
  BY <1>27 DEF Kill, Idle
<1>28. CASE OtherEnds \/ UNCHANGED vars
  BY <1>28 DEF OtherEnds, vars
<1> QED
  BY <1>1, <1>2, <1>3, <1>4, <1>5, <1>6, <1>7, <1>8, <1>9, <1>10, <1>11, <1>12, <1>13, <1>14,
     <1>15, <1>16, <1>17, <1>18, <1>19, <1>20, <1>21, <1>22, <1>23, <1>24, <1>25, <1>26, <1>27, <1>28
     DEF Next, Process, ValidateSoftwareInventory, ChooseInventory

LEMMA HistStep ==
  ASSUME HistShape, [Next]_vars
  PROVE  HistShape'
<1> USE DEF HistShape
<1>1. CASE \E n \in {"init", "install"}, r \in Releases, a \in Archs, p \in Procs :
              Start(n, r, a, p)
  BY <1>1 DEF Start, Loaded, Go
<1>2. CASE InitClients
  BY <1>2 DEF InitClients, Go
<1>3. CASE InitClientsCheck
  BY <1>3 DEF InitClientsCheck, Fits
<1>4. CASE ValidateInventoryCount
  BY <1>4 DEF ValidateInventoryCount, HostCheck, Failed, Go, Exit, ValidationOnly
<1>5. CASE ValidateHostListNetwork \/ ValidateMasterNodeCount \/ ValidateClientHostnames
  BY <1>5 DEF ValidateHostListNetwork, ValidateMasterNodeCount, ValidateClientHostnames,
                HostCheck, Failed, Idle, Go, ValidationOnly
<1>6. CASE CheckKnownHosts
  BY <1>6 DEF CheckKnownHosts, Go, ValidationOnly
<1>7. CASE ValidateAnsiblePing
  BY <1>7 DEF ValidateAnsiblePing, Failed, Go, Idle, ValidationOnly
<1>8. CASE SetPupReboot
  BY <1>8 DEF SetPupReboot, Passed, Idle, ValidationOnly
<1>9. CASE CreateNewSoftwareInventory \/ GetAnsibleInventory
  BY <1>9 DEF CreateNewSoftwareInventory, GetAnsibleInventory, ValidationOnly
<1>10. CASE Menu
  BY <1>10 DEF Menu, AfterInventory, Exit, ValidationOnly
<1>11. CASE ConfigureSshKeys
  BY <1>11 DEF ConfigureSshKeys, Failed, Go, Idle, ValidationOnly
<1>12. CASE CopySshKeyPairToHosts
  BY <1>12 DEF CopySshKeyPairToHosts, Exit, ValidationOnly
<1>13. CASE CacheSudoPass
  BY <1>13 DEF CacheSudoPass, AfterPassword, Keeps
<1>14. CASE UnlockVault
  BY <1>14 DEF UnlockVault, AfterPassword, Go, Keeps
<1>15. CASE ValidateBecomePass
  BY <1>15 DEF ValidateBecomePass, AfterPassword, Go, Keeps, Exit
<1>16. CASE SetInstallEnv
  BY <1>16 DEF SetInstallEnv, Go, Keeps
<1>17. CASE GatherFacts
  BY <1>17 DEF GatherFacts, Go, Keeps, Exit
<1>18. CASE InitPlaybook
  BY <1>18 DEF InitPlaybook, Exit
<1>19. CASE BeginInstall121
  BY <1>19 DEF BeginInstall121, Marked, Go
<1>20. CASE BeginInstall120
  BY <1>20 DEF BeginInstall120, Go, Keeps
<1>21. CASE Pause121
  BY <1>21 DEF Pause121
<1>22. CASE Pause120 \/ NextTask
  BY <1>22 DEF Pause120, NextTask, Go, Keeps
<1>23. CASE LicenseAccept \/ CheckClientsNeedsRestarting \/ EndInstall120
  BY <1>23 DEF LicenseAccept, CheckClientsNeedsRestarting, EndInstall120, Exit
<1>24. CASE RunTask
  BY <1>24 DEF RunTask, Go, Keeps
<1>25. CASE AnsibleTasks
  BY <1>25 DEF AnsibleTasks, Go
<1>26. CASE EndInstall121
  BY <1>26 DEF EndInstall121
<1>27. CASE Kill
  BY <1>27 DEF Kill, Idle
<1>28. CASE OtherEnds \/ UNCHANGED vars
  BY <1>28 DEF OtherEnds, vars
<1> QED
  BY <1>1, <1>2, <1>3, <1>4, <1>5, <1>6, <1>7, <1>8, <1>9, <1>10, <1>11, <1>12, <1>13, <1>14,
     <1>15, <1>16, <1>17, <1>18, <1>19, <1>20, <1>21, <1>22, <1>23, <1>24, <1>25, <1>26, <1>27, <1>28
     DEF Next, Process, ValidateSoftwareInventory, ChooseInventory

LEMMA VarsStep ==
  ASSUME VarsShape(mem), VarsShape(disk), [Next]_vars
  PROVE  VarsShape(mem') /\ VarsShape(disk')
<1> USE DEF VarsShape
<1>1. CASE \E n \in {"init", "install"}, r \in Releases, a \in Archs, p \in Procs :
              Start(n, r, a, p)
  BY <1>1 DEF Start, Loaded, Go
<1>2. CASE InitClients
  BY <1>2 DEF InitClients, Go
<1>3. CASE InitClientsCheck
  BY <1>3, GoneMem DEF InitClientsCheck, Fits
<1>4. CASE ValidateInventoryCount
  BY <1>4, GoneMem DEF ValidateInventoryCount, HostCheck, Failed, Go, Exit, ValidationOnly
<1>5. CASE ValidateHostListNetwork \/ ValidateMasterNodeCount \/ ValidateClientHostnames
  BY <1>5 DEF ValidateHostListNetwork, ValidateMasterNodeCount, ValidateClientHostnames,
                HostCheck, Failed, Idle, Go, ValidationOnly
<1>6. CASE CheckKnownHosts
  BY <1>6 DEF CheckKnownHosts, Go, ValidationOnly
<1>7. CASE ValidateAnsiblePing
  BY <1>7 DEF ValidateAnsiblePing, Failed, Go, Idle, ValidationOnly
<1>8. CASE SetPupReboot
  BY <1>8 DEF SetPupReboot, Passed, Idle, ValidationOnly
<1>9. CASE CreateNewSoftwareInventory \/ GetAnsibleInventory
  BY <1>9 DEF CreateNewSoftwareInventory, GetAnsibleInventory, ValidationOnly
<1>10. CASE Menu
  BY <1>10, GoneMem DEF Menu, AfterInventory, Exit, ValidationOnly
<1>11. CASE ConfigureSshKeys
  BY <1>11 DEF ConfigureSshKeys, Failed, Go, Idle, ValidationOnly
<1>12. CASE CopySshKeyPairToHosts
  BY <1>12, GoneMem DEF CopySshKeyPairToHosts, Exit, ValidationOnly
<1>13. CASE CacheSudoPass
  BY <1>13 DEF CacheSudoPass, AfterPassword, Keeps
<1>14. CASE UnlockVault
  BY <1>14 DEF UnlockVault, AfterPassword, Go, Keeps
<1>15. CASE ValidateBecomePass
  BY <1>15, GoneMem DEF ValidateBecomePass, AfterPassword, Go, Keeps, Exit
<1>16. CASE SetInstallEnv
  BY <1>16 DEF SetInstallEnv, Go, Keeps
<1>17. CASE GatherFacts
  BY <1>17, GoneMem DEF GatherFacts, Go, Keeps, Exit
<1>18. CASE InitPlaybook
  BY <1>18, GoneMem DEF InitPlaybook, Exit
<1>19. CASE BeginInstall121
  BY <1>19 DEF BeginInstall121, Marked, Go
<1>20. CASE BeginInstall120
  BY <1>20 DEF BeginInstall120, Go, Keeps
<1>21. CASE Pause121
  BY <1>21 DEF Pause121
<1>22. CASE Pause120 \/ NextTask
  BY <1>22 DEF Pause120, NextTask, Go, Keeps
<1>23. CASE LicenseAccept \/ CheckClientsNeedsRestarting \/ EndInstall120
  BY <1>23, GoneMem DEF LicenseAccept, CheckClientsNeedsRestarting, EndInstall120, Exit
<1>24. CASE RunTask
  BY <1>24 DEF RunTask, Go, Keeps
<1>25. CASE AnsibleTasks
  BY <1>25, GoneMem DEF AnsibleTasks, Go
<1>26. CASE EndInstall121
  BY <1>26, GoneMem DEF EndInstall121
<1>27. CASE Kill
  BY <1>27, NothingShape DEF Kill, Idle
<1>28. CASE OtherEnds \/ UNCHANGED vars
  BY <1>28 DEF OtherEnds, vars
<1> QED
  BY <1>1, <1>2, <1>3, <1>4, <1>5, <1>6, <1>7, <1>8, <1>9, <1>10, <1>11, <1>12, <1>13, <1>14,
     <1>15, <1>16, <1>17, <1>18, <1>19, <1>20, <1>21, <1>22, <1>23, <1>24, <1>25, <1>26, <1>27, <1>28
     DEF Next, Process, ValidateSoftwareInventory, ChooseInventory

LEMMA SafeStep ==
  ASSUME AtShape, InvShape, HistShape, SafeInv, [Next]_vars
  PROVE  SafeInv'
<1>0. inv' = inv => (Spared' <=> Spared)
  BY DEF Spared
<1> USE DEF AtShape, HistShape, SafeInv, Chosen, Ready, Procedure
<1> USE <1>0
<1>1. CASE \E n \in {"init", "install"}, r \in Releases, a \in Archs, p \in Procs :
              Start(n, r, a, p)
  BY <1>1 DEF Start, Loaded, Go
<1>2. CASE InitClients
  BY <1>2 DEF InitClients, Go
<1>3. CASE InitClientsCheck
  BY <1>3, GoneAt DEF InitClientsCheck, Fits
<1>4. CASE ValidateInventoryCount
  <2>1. CASE HostCheck("count", "net")
    BY <1>4, <2>1 DEF HostCheck, Failed, Idle, Go
  <2> QED
    BY <1>4, <2>1, GoneAt DEF ValidateInventoryCount, Exit
<1>5. CASE ValidateHostListNetwork \/ ValidateMasterNodeCount \/ ValidateClientHostnames
  BY <1>5 DEF ValidateHostListNetwork, ValidateMasterNodeCount, ValidateClientHostnames,
                HostCheck, Failed, Idle, Go, ValidationOnly
<1>6. CASE CheckKnownHosts
  BY <1>6 DEF CheckKnownHosts, Go, ValidationOnly
<1>7. CASE ValidateAnsiblePing
  BY <1>7 DEF ValidateAnsiblePing, Failed, Go, Idle, ValidationOnly
<1>8. CASE SetPupReboot
  <2>1. inv'.self = inv.self /\ (inv.self => inv'.own = Spare(inv.own))
    <3>1. inv' = [inv EXCEPT !.glob = TRUE, !.own = IF inv.self THEN Spare(@) ELSE @]
      BY <1>8 DEF SetPupReboot
    <3>2. inv = [is |-> inv.is, self |-> inv.self, names |-> inv.names,
                 glob |-> inv.glob, own |-> inv.own, key |-> inv.key]
      BY DEF InvShape, InvOf
    <3> QED
      BY <3>1, <3>2
  <2>2. Spared'
    BY <2>1, SpareSpares DEF Spared
  <2>3. at'.pc \in {"unlock", "menu"} /\ (at'.valid => at'.pc = "menu")
    BY <1>8 DEF SetPupReboot, Passed, Idle
  <2> QED
    BY <2>2, <2>3
<1>9. CASE CreateNewSoftwareInventory \/ GetAnsibleInventory
  BY <1>9 DEF CreateNewSoftwareInventory, GetAnsibleInventory, ValidationOnly
<1>10. CASE Menu
  <2>1. CASE /\ at' = [Idle EXCEPT !.pc = AfterInventory]
             /\ hist' = [hist EXCEPT !.asis = ~at.valid] /\ UNCHANGED inv
    BY <1>10, <2>1 DEF Idle, AfterInventory
  <2>2. CASE at' = [Idle EXCEPT !.pc = "choose"] \/ at' = [Idle EXCEPT !.pc = "keys", !.kback = "choose"]
    BY <2>2 DEF Idle
  <2> QED
    BY <1>10, <2>1, <2>2, GoneAt DEF Menu, Exit
<1>11. CASE ConfigureSshKeys
  BY <1>11 DEF ConfigureSshKeys, Failed, Go, Idle, ValidationOnly
<1>12. CASE CopySshKeyPairToHosts
  BY <1>12, GoneAt DEF CopySshKeyPairToHosts, Exit, ValidationOnly
<1>13. CASE CacheSudoPass
  BY <1>13 DEF CacheSudoPass, AfterPassword, Keeps
<1>14. CASE UnlockVault
  BY <1>14 DEF UnlockVault, AfterPassword, Go, Keeps
<1>15. CASE ValidateBecomePass
  BY <1>15, GoneAt DEF ValidateBecomePass, AfterPassword, Go, Keeps, Exit
<1>16. CASE SetInstallEnv
  BY <1>16 DEF SetInstallEnv, Go, Keeps
<1>17. CASE GatherFacts
  BY <1>17, GoneAt DEF GatherFacts, Go, Keeps, Exit
<1>18. CASE InitPlaybook
  BY <1>18, GoneAt DEF InitPlaybook, Exit
<1>19. CASE BeginInstall121
  BY <1>19 DEF BeginInstall121, Marked, Go
<1>20. CASE BeginInstall120
  BY <1>20 DEF BeginInstall120, Go, Keeps
<1>21. CASE Pause121
  BY <1>21 DEF Pause121
<1>22. CASE Pause120 \/ NextTask
  BY <1>22 DEF Pause120, NextTask, Go, Keeps
<1>23. CASE LicenseAccept \/ CheckClientsNeedsRestarting \/ EndInstall120
  BY <1>23, GoneAt DEF LicenseAccept, CheckClientsNeedsRestarting, EndInstall120, Exit
<1>24. CASE RunTask
  BY <1>24 DEF RunTask, Go, Keeps
<1>25. CASE AnsibleTasks
  BY <1>25, GoneAt DEF AnsibleTasks, Go
<1>26. CASE EndInstall121
  BY <1>26, GoneAt DEF EndInstall121
<1>27. CASE Kill
  BY <1>27 DEF Kill, Idle
<1>28. CASE OtherEnds \/ UNCHANGED vars
  BY <1>28 DEF OtherEnds, vars
<1> QED
  BY <1>1, <1>2, <1>3, <1>4, <1>5, <1>6, <1>7, <1>8, <1>9, <1>10, <1>11, <1>12, <1>13, <1>14,
     <1>15, <1>16, <1>17, <1>18, <1>19, <1>20, <1>21, <1>22, <1>23, <1>24, <1>25, <1>26, <1>27, <1>28
     DEF Next, Process, ValidateSoftwareInventory, ChooseInventory

LEMMA FitStep ==
  ASSUME AtShape, HistShape, VarsShape(mem), VarsShape(disk),
         SafeInv, FitInv, [Next]_vars
  PROVE  FitInv'
<1> USE DEF AtShape, HistShape, VarsShape, FitInv, Procedure, Validating, Chosen, Ready, RepoName
<1>1. CASE \E n \in {"init", "install"}, r \in Releases, a \in Archs, p \in Procs :
              Start(n, r, a, p)
  BY <1>1, SoftwareAssumption DEF Start, Loaded, Go
<1>2. CASE InitClients
  BY <1>2 DEF InitClients, Go
<1>3. CASE InitClientsCheck
  <2>1. CASE Gone
    BY <1>3, <2>1, GoneAt, GoneMem, GoneCmd DEF InitClientsCheck
  <2>2. CASE /\ disk' = mem /\ UNCHANGED <<mem, cmd>>
             /\ at'.pc \in {"count", "choose"}
             /\ mem.init # None /\ mem.proc = cmd.proc
             /\ hist' = [hist EXCEPT !.agreed = mem.init # RepoName]
    BY <1>3, <2>2 DEF InitClientsCheck
  <2> QED
    BY <1>3, <2>1, <2>2 DEF InitClientsCheck, Fits
<1>4. CASE ValidateInventoryCount
  <2>1. CASE Exit
    BY <2>1, ExitFit
  <2> QED
    BY <1>4, <2>1 DEF ValidateInventoryCount, HostCheck, Failed, Go, Idle, ValidationOnly
<1>5. CASE ValidateHostListNetwork \/ ValidateMasterNodeCount \/ ValidateClientHostnames
  BY <1>5 DEF ValidateHostListNetwork, ValidateMasterNodeCount, ValidateClientHostnames,
                HostCheck, Failed, Idle, Go, ValidationOnly
<1>6. CASE CheckKnownHosts
  BY <1>6 DEF CheckKnownHosts, Go, ValidationOnly
<1>7. CASE ValidateAnsiblePing
  BY <1>7 DEF ValidateAnsiblePing, Failed, Go, Idle, ValidationOnly
<1>8. CASE SetPupReboot
  BY <1>8 DEF SetPupReboot, Passed, Idle, ValidationOnly
<1>9. CASE CreateNewSoftwareInventory \/ GetAnsibleInventory
  BY <1>9 DEF CreateNewSoftwareInventory, GetAnsibleInventory, ValidationOnly
<1>10. CASE Menu
  <2>1. CASE Exit
    BY <2>1, ExitFit
  <2> QED
    BY <1>10, <2>1 DEF Menu, AfterInventory, Idle, ValidationOnly
<1>11. CASE ConfigureSshKeys
  BY <1>11 DEF ConfigureSshKeys, Failed, Go, Idle, ValidationOnly
<1>12. CASE CopySshKeyPairToHosts
  <2>1. CASE Exit
    BY <2>1, ExitFit
  <2> QED
    BY <1>12, <2>1 DEF CopySshKeyPairToHosts, SafeInv, ValidationOnly
<1>13. CASE CacheSudoPass
  BY <1>13 DEF CacheSudoPass, AfterPassword, Keeps
<1>14. CASE UnlockVault
  BY <1>14 DEF UnlockVault, AfterPassword, Go, Keeps
<1>15. CASE ValidateBecomePass
  BY <1>15, ExitFit DEF ValidateBecomePass, AfterPassword, Go, Keeps
<1>16. CASE SetInstallEnv
  BY <1>16 DEF SetInstallEnv, Go, Keeps
<1>17. CASE GatherFacts
  <2>1. CASE Exit
    BY <2>1, ExitFit
  <2> QED
    BY <1>17, <2>1 DEF GatherFacts, Go, Keeps
<1>18. CASE InitPlaybook
  BY <1>18, ExitFit, GoneAt, GoneMem, GoneCmd DEF InitPlaybook
<1>19. CASE BeginInstall121
  BY <1>19 DEF BeginInstall121, Marked, Go
<1>20. CASE BeginInstall120
  BY <1>20 DEF BeginInstall120, Go, Keeps
<1>21. CASE Pause121
  BY <1>21 DEF Pause121
<1>22. CASE Pause120 \/ NextTask
  BY <1>22 DEF Pause120, NextTask, Go, Keeps
<1>23. CASE LicenseAccept \/ CheckClientsNeedsRestarting \/ EndInstall120
  BY <1>23, ExitFit DEF LicenseAccept, CheckClientsNeedsRestarting, EndInstall120
<1>24. CASE RunTask
  BY <1>24 DEF RunTask, Go, Keeps
<1>25. CASE AnsibleTasks
  BY <1>25, ExitFit, GoneAt, GoneMem, GoneCmd DEF AnsibleTasks, Go
<1>26. CASE EndInstall121
  BY <1>26, ExitFit, GoneAt, GoneMem, GoneCmd DEF EndInstall121
<1>27. CASE Kill
  BY <1>27, NothingShape, SoftwareAssumption DEF Kill, Idle, NoCmd
<1>28. CASE OtherEnds \/ UNCHANGED vars
  BY <1>28 DEF OtherEnds, vars
<1> QED
  BY <1>1, <1>2, <1>3, <1>4, <1>5, <1>6, <1>7, <1>8, <1>9, <1>10, <1>11, <1>12, <1>13, <1>14,
     <1>15, <1>16, <1>17, <1>18, <1>19, <1>20, <1>21, <1>22, <1>23, <1>24, <1>25, <1>26, <1>27, <1>28
     DEF Next, Process, ValidateSoftwareInventory, ChooseInventory

LEMMA PauseStep ==
  ASSUME AtShape, HistShape, VarsShape(mem), VarsShape(disk), PauseInv, [Next]_vars
  PROVE  PauseInv'
<1> USE DEF AtShape, HistShape, VarsShape, PauseInv, Procedure
<1>1. CASE \E n \in {"init", "install"}, r \in Releases, a \in Archs, p \in Procs :
              Start(n, r, a, p)
  BY <1>1 DEF Start, Loaded, Go
<1>2. CASE InitClients
  BY <1>2 DEF InitClients, Go
<1>3. CASE InitClientsCheck
  BY <1>3, GoneAt, GoneMem DEF InitClientsCheck, Fits
<1>4. CASE ValidateInventoryCount
  BY <1>4, GoneAt, GoneMem DEF ValidateInventoryCount, HostCheck, Failed, Go, Exit, ValidationOnly
<1>5. CASE ValidateHostListNetwork \/ ValidateMasterNodeCount \/ ValidateClientHostnames
  BY <1>5 DEF ValidateHostListNetwork, ValidateMasterNodeCount, ValidateClientHostnames,
                HostCheck, Failed, Idle, Go, ValidationOnly
<1>6. CASE CheckKnownHosts
  BY <1>6 DEF CheckKnownHosts, Go, ValidationOnly
<1>7. CASE ValidateAnsiblePing
  BY <1>7 DEF ValidateAnsiblePing, Failed, Go, Idle, ValidationOnly
<1>8. CASE SetPupReboot
  BY <1>8 DEF SetPupReboot, Passed, Idle, ValidationOnly
<1>9. CASE CreateNewSoftwareInventory \/ GetAnsibleInventory
  BY <1>9 DEF CreateNewSoftwareInventory, GetAnsibleInventory, ValidationOnly
<1>10. CASE Menu
  BY <1>10, GoneAt, GoneMem DEF Menu, AfterInventory, Exit, ValidationOnly
<1>11. CASE ConfigureSshKeys
  BY <1>11 DEF ConfigureSshKeys, Failed, Go, Idle, ValidationOnly
<1>12. CASE CopySshKeyPairToHosts
  BY <1>12, GoneAt, GoneMem DEF CopySshKeyPairToHosts, Exit, ValidationOnly
<1>13. CASE CacheSudoPass
  BY <1>13 DEF CacheSudoPass, AfterPassword, Keeps
<1>14. CASE UnlockVault
  BY <1>14 DEF UnlockVault, AfterPassword, Go, Keeps
<1>15. CASE ValidateBecomePass
  BY <1>15, GoneAt, GoneMem DEF ValidateBecomePass, AfterPassword, Go, Keeps, Exit
<1>16. CASE SetInstallEnv
  BY <1>16 DEF SetInstallEnv, Go, Keeps
<1>17. CASE GatherFacts
  BY <1>17, GoneAt, GoneMem DEF GatherFacts, Go, Keeps, Exit
<1>18. CASE InitPlaybook
  BY <1>18, GoneAt, GoneMem DEF InitPlaybook, Exit
<1>19. CASE BeginInstall121
  BY <1>19 DEF BeginInstall121, Marked, Go
<1>20. CASE BeginInstall120
  BY <1>20 DEF BeginInstall120, Go, Keeps
<1>21. CASE Pause121
  BY <1>21 DEF Pause121
<1>22. CASE Pause120 \/ NextTask
  BY <1>22 DEF Pause120, NextTask, Go, Keeps
<1>23. CASE LicenseAccept \/ CheckClientsNeedsRestarting \/ EndInstall120
  BY <1>23, GoneAt, GoneMem DEF LicenseAccept, CheckClientsNeedsRestarting, EndInstall120, Exit
<1>24. CASE RunTask
  BY <1>24 DEF RunTask, Go, Keeps
<1>25. CASE AnsibleTasks
  BY <1>25, GoneAt, GoneMem DEF AnsibleTasks, Go
<1>26. CASE EndInstall121
  BY <1>26, GoneAt, GoneMem DEF EndInstall121
<1>27. CASE Kill
  BY <1>27, NothingShape DEF Kill, Idle
<1>28. CASE OtherEnds \/ UNCHANGED vars
  BY <1>28 DEF OtherEnds, vars
<1> QED
  BY <1>1, <1>2, <1>3, <1>4, <1>5, <1>6, <1>7, <1>8, <1>9, <1>10, <1>11, <1>12, <1>13, <1>14,
     <1>15, <1>16, <1>17, <1>18, <1>19, <1>20, <1>21, <1>22, <1>23, <1>24, <1>25, <1>26, <1>27, <1>28
     DEF Next, Process, ValidateSoftwareInventory, ChooseInventory
LEMMA InvariantStep == Invariant /\ [Next]_vars => Invariant'
BY AtStep, InvStep, HistStep, VarsStep, SafeStep, FitStep, PauseStep
   DEF Invariant, Shape

LEMMA Invariance == Spec => []Invariant
BY InvariantInit, InvariantStep, PTL DEF Spec
-----------------------------------------------------------------------------
\* No task that reboots the clients runs while the machine pup runs on is one
\* of them and the last value on its line allows it, unless the operator went
\* on with an inventory that failed or wrote a True there that SetPupReboot
\* does not reach: every path to the tasks leads through SetPupReboot, and
\* nothing edits the inventory after it.
THEOREM InstallerNotRebooted == Spec => []InstallerSafe
<1>1. Invariant => InstallerSafe
  BY DEF Invariant, SafeInv, Spared, Chosen, Procedure, InstallerSafe
<1> QED
  BY <1>1, Invariance, PTL

\* The tasks run for what the clients were initialised for, though the record
\* is saved in two steps, loaded by other commands and lost by killed ones:
\* what is saved is never newer than what was done, and may only be missing.
THEOREM InstallsWhatWasInitialised == Spec => []InstallFitsInit
<1>1. Invariant => InstallFitsInit
  BY DEF Invariant, FitInv, Chosen, Procedure, InstallFitsInit
<1> QED
  BY <1>1, Invariance, PTL

\* Between commands a paused self-installation is on disk, unless a kill tore
\* the file or came between the pause and its save, and what is on disk was
\* reached: until the save only the process that paused knows of it.
THEOREM PauseKept == Spec => []PauseRemembered
<1>1. Invariant => PauseRemembered
  BY DEF Invariant, PauseInv, PauseRemembered
<1> QED
  BY <1>1, Invariance, PTL
=============================================================================
