--------------------------- MODULE SoftwareInstall ---------------------------
(***************************************************************************)
(* "pup software --init-clients" and "--install" of the wmla120 and        *)
(* wmla121 modules: the inventory of the client nodes and its validation,  *)
(* the ssh keys, the cached sudo password and the file .vault it is handed *)
(* to Ansible in, the record of the last initialisation of the clients,    *)
(* the install procedure and, for a self-installation, its second part.    *)
(*                                                                         *)
(* Other pup commands may end at any time: the destructor of their         *)
(* software object removes .vault.  The content of the software server is  *)
(* that of SoftwarePrep, and the two-step save of the variables too: here a*)
(* save is one step, and a process killed at it may leave an empty file.   *)
(***************************************************************************)
EXTENDS Naturals, Sequences

CONSTANTS Releases,  \* the software modules
          Archs,     \* --arch
          Procs,     \* --proc-family and --eval, which are checked alike
          Commands, Kills, Others,  \* bounds: commands, kills, other commands
          None

ASSUME SoftwareAssumption ==
    /\ Releases \subseteq {"wmla120", "wmla121"}
    /\ None \notin Procs \cup Archs

VARIABLES disk,   \* software-vars.yml
          mem,    \* sw_vars of the process
          cmd,    \* the command line: [name, rel, arch, proc]
          at,     \* [pc, back, kback, valid, pw, part]: where the process is
          inv,    \* software_hosts: [is, self, names, glob, own, key]
          hosts,  \* the clients: [known, auth], host keys and authorized key
          vault,  \* whether the file .vault exists
          todo,   \* tasks left of the procedure
          hist,   \* history: what was begun, done, shown, agreed
          left    \* [cmds, kills, others]
vars == <<disk, mem, cmd, at, inv, hosts, vault, todo, hist, left>>
---------------------------------------------------------------------------
(* Tasks by what the installer does about them: tasks that reboot clients, *)
(* tasks it does something before, and the last one.                       *)
Tasks == {"reboot", "cuda", "license", "add", "tuning"}
Full == IF cmd.rel = "wmla121" THEN <<"reboot", "cuda", "license", "add", "tuning">>
                               ELSE <<"reboot", "license", "add", "tuning">>
Finish == <<"add", "tuning">>

Nothing == [init |-> None, arch |-> None, proc |-> None,
            pass |-> FALSE, final |-> FALSE, inv |-> FALSE]
NoCmd == [name |-> "none", rel |-> None, arch |-> None, proc |-> None]
Idle  == [pc |-> "none", back |-> "none", kback |-> "none",
          valid |-> FALSE, pw |-> "none", part |-> "full"]

(* repo_shortname, when no other directory is asked for. *)
RepoName == <<cmd.rel, cmd.arch>>

(* The values of pup_reboot on the installer's line of the inventory: one  *)
(* or two in reach of the expression that removes them, and one behind a   *)
(* '.' or so that it does not reach.  Ansible takes the last on the line.  *)
Said == {"no", "True", "False"}
Unsaid == [one |-> "no", two |-> "no", far |-> "no"]
Lines  == {Unsaid} \cup [one : {"True"}, two : {"no", "True"}, far : {"no"}]
                   \cup [one : {"no"}, two : {"no"}, far : {"True"}]
Effective(own) == IF own.far # "no" THEN own.far
                  ELSE IF own.two # "no" THEN own.two ELSE own.one
OutOfReach(own) == own.far = "True" \/ own.two = "True"

NoReboot == inv.self /\ Effective(inv.own) = "False"
Go(p) == at' = [at EXCEPT !.pc = p]
AfterInventory == IF cmd.name = "init" THEN "sudo" ELSE "unlock"

(* The process ends: .vault goes with the software object. *)
Gone ==
    /\ mem' = Nothing /\ cmd' = NoCmd /\ at' = Idle /\ todo' = <<>>
    /\ vault' = FALSE
Exit == Gone /\ UNCHANGED <<disk, inv, hosts, hist, left>>

Init ==
    /\ disk = Nothing /\ mem = Nothing /\ cmd = NoCmd /\ at = Idle
    /\ inv = [is |-> FALSE, self |-> FALSE, names |-> FALSE,
              glob |-> FALSE, own |-> Unsaid, key |-> FALSE]
    /\ hosts \in [known : {"no", "right", "old"}, auth : BOOLEAN]
    /\ vault = FALSE /\ todo = <<>>
    /\ hist = [tried |-> None, proc |-> None, agreed |-> FALSE,
               asis |-> FALSE, reached |-> FALSE, paused |-> FALSE,
               cut |-> FALSE, miss |-> FALSE]
    /\ left = [cmds |-> Commands, kills |-> Kills, others |-> Others]

(* __init__: the variables are loaded, and arch is overwritten: the        *)
(* architecture of the last initialisation is gone when it is checked.     *)
Loaded(a) == [disk EXCEPT !.arch = a]
Start(name, rel, arch, proc) ==
    /\ at.pc = "none" /\ left.cmds > 0
    /\ cmd' = [name |-> name, rel |-> rel, arch |-> arch, proc |-> proc]
    /\ mem' = Loaded(arch)
    /\ Go(name)
    /\ hist' = [hist EXCEPT !.agreed = FALSE, !.asis = FALSE]
    /\ left' = [left EXCEPT !.cmds = @ - 1]
    /\ UNCHANGED <<disk, inv, hosts, vault, todo>>
---------------------------------------------------------------------------
(* init_clients up to the inventory: the name of the repository is noted   *)
(* and saved before anything is done to a client.                          *)
InitClients ==
    /\ at.pc = "init"
    /\ mem' = [mem EXCEPT !.init = RepoName]
    /\ disk' = mem'
    /\ hist' = [hist EXCEPT !.tried = RepoName]
    /\ Go("choose")
    /\ UNCHANGED <<cmd, inv, hosts, vault, todo, left>>

(* install up to the inventory: the rescan is saved; not ready, never      *)
(* initialised, or initialised otherwise ends the command.                 *)
Fits == mem.proc = cmd.proc /\ mem.arch = cmd.arch
InitClientsCheck ==
    /\ at.pc = "install"
    /\ disk' = mem
    /\ \/ Gone /\ UNCHANGED hist
       \/ /\ mem.init # None /\ Fits
          /\ hist' = [hist EXCEPT !.agreed = mem.init # RepoName]
          /\ at' = IF mem.inv THEN [at EXCEPT !.pc = "count", !.back = "install"]
                              ELSE [at EXCEPT !.pc = "choose"]
          /\ UNCHANGED <<mem, cmd, vault, todo>>
    /\ UNCHANGED <<inv, hosts, left>>
---------------------------------------------------------------------------
(* validate_software_inventory, for the menu or for the installation.      *)
Passed == IF at.back = "install"
          THEN at' = [Idle EXCEPT !.pc = "unlock"]
          ELSE at' = [at EXCEPT !.pc = "menu", !.valid = TRUE]
Failed == IF at.back = "install"
          THEN at' = [Idle EXCEPT !.pc = "choose"]
          ELSE at' = [Idle EXCEPT !.pc = "menu"]
ValidationOnly == UNCHANGED <<disk, mem, cmd, vault, todo, left>>

HostCheck(here, next) ==
    /\ at.pc = here
    /\ (inv.names /\ Go(next)) \/ Failed
    /\ UNCHANGED <<inv, hosts, hist>> /\ ValidationOnly

(* At least one host, which Ansible must be able to count: it may not. *)
ValidateInventoryCount ==
    HostCheck("count", "net") \/ (at.pc = "count" /\ Exit)
ValidateHostListNetwork == HostCheck("net", "master")
ValidateMasterNodeCount == HostCheck("master", "known")
ValidateClientHostnames == HostCheck("names", "reboot")

CheckKnownHosts ==
    /\ at.pc = "known" /\ Go("ping")
    /\ hosts' = [hosts EXCEPT !.known = IF @ = "no" THEN "right" ELSE @]
    /\ UNCHANGED <<inv, hist>> /\ ValidationOnly

(* A changed host key or a refused login is repaired, with the operator's  *)
(* consent, and tried again.                                               *)
Login == hosts.known = "right" /\ hosts.auth /\ inv.key
ValidateAnsiblePing ==
    /\ at.pc = "ping"
    /\ \/ Login /\ Go("names") /\ UNCHANGED hosts
       \/ Failed /\ UNCHANGED hosts
       \/ hosts.known = "old" /\ hosts' = [hosts EXCEPT !.known = "right"] /\ UNCHANGED at
       \/ /\ hosts.known = "right" /\ ~Login
          /\ at' = [at EXCEPT !.pc = "keys", !.kback = "ping"]
          /\ UNCHANGED hosts
    /\ UNCHANGED <<inv, hist>> /\ ValidationOnly

(* _set_pup_reboot: pup_reboot is true for all.  On the installer's line   *)
(* the last value in reach is removed and false put behind the name, before*)
(* what else the line says.                                                *)
Spare(own) == [one |-> "False", two |-> IF own.two = "no" THEN "no" ELSE own.one,
               far |-> own.far]
SetPupRebootAll ==
    /\ at.pc = "reboot" /\ Passed
    /\ inv' = [inv EXCEPT !.glob = TRUE]
    /\ hist' = [hist EXCEPT !.asis = FALSE]
    /\ UNCHANGED hosts /\ ValidationOnly
SetPupReboot ==
    /\ at.pc = "reboot" /\ Passed
    /\ inv' = [inv EXCEPT !.glob = TRUE, !.own = IF inv.self THEN Spare(@) ELSE @]
    /\ hist' = [hist EXCEPT !.asis = FALSE]
    /\ UNCHANGED hosts /\ ValidationOnly

ValidateSoftwareInventory ==
    \/ ValidateInventoryCount \/ ValidateHostListNetwork \/ ValidateMasterNodeCount
    \/ CheckKnownHosts \/ ValidateAnsiblePing \/ ValidateClientHostnames \/ SetPupReboot
---------------------------------------------------------------------------
(* configure_ssh_keys: the key of the inventory is cleared first, and set  *)
(* again when the key chosen has been copied.                              *)
ConfigureSshKeys ==
    /\ at.pc = "keys"
    /\ \/ inv' = [inv EXCEPT !.key = FALSE] /\ Go("copy")
       \/ at.kback = "ping" /\ Failed /\ UNCHANGED inv
    /\ UNCHANGED <<hosts, hist>> /\ ValidationOnly

CopySshKeyPairToHosts ==
    /\ at.pc = "copy"
    /\ \/ \E all \in BOOLEAN :
            /\ hosts' = [hosts EXCEPT !.auth = @ \/ all]
            /\ inv' = [inv EXCEPT !.key = TRUE]
            /\ at' = [at EXCEPT !.pc = at.kback, !.kback = "none"]
            /\ UNCHANGED hist /\ ValidationOnly
       \/ Exit

(* The inventory as the operator leaves it in the editor: hosts come and   *)
(* go, and what pup has put into the file stays.                           *)
Edited == {i \in [is : {TRUE}, self : BOOLEAN, names : BOOLEAN, own : {inv.own} \cup Lines,
                   glob : {inv.glob}, key : {inv.key}] : ~i.self => i.own = Unsaid}

CreateNewSoftwareInventory ==
    /\ at.pc = "choose" /\ ~inv.is
    /\ inv' \in {i \in Edited : i.own = Unsaid}
    /\ UNCHANGED <<at, hosts, hist>> /\ ValidationOnly

(* get_ansible_inventory: validate and ask, until the operator goes on. *)
GetAnsibleInventory ==
    /\ at.pc = "choose" /\ inv.is
    /\ at' = [at EXCEPT !.pc = "count", !.back = "menu"]
    /\ UNCHANGED <<inv, hosts, hist>> /\ ValidationOnly

Menu ==
    /\ at.pc = "menu"
    /\ \/ /\ mem' = [mem EXCEPT !.inv = TRUE]
          /\ hist' = [hist EXCEPT !.asis = ~at.valid]
          /\ at' = [Idle EXCEPT !.pc = AfterInventory]
          /\ UNCHANGED <<disk, cmd, vault, todo, left, inv, hosts>>
       \/ /\ inv' \in Edited /\ at' = [Idle EXCEPT !.pc = "choose"]
          /\ UNCHANGED <<hosts, hist>> /\ ValidationOnly
       \/ /\ ~at.valid
          /\ at' = [Idle EXCEPT !.pc = "keys", !.kback = "choose"]
          /\ UNCHANGED <<inv, hosts, hist>> /\ ValidationOnly
       \/ Exit

ChooseInventory ==
    \/ CreateNewSoftwareInventory \/ GetAnsibleInventory \/ Menu
    \/ ConfigureSshKeys \/ CopySshKeyPairToHosts
---------------------------------------------------------------------------
Keeps == UNCHANGED <<disk, cmd, inv, hosts, hist, left>>

(* Where the environment variables are asked for: in init_clients by       *)
(* wmla120, by wmla121 in an installation that is not the second part.     *)
AsksEnv120 == cmd.name = "init"
AsksEnv121 == cmd.name = "install" /\ ~mem.final
AfterPassword ==
    IF (cmd.rel = "wmla120" /\ AsksEnv120) \/ (cmd.rel = "wmla121" /\ AsksEnv121)
    THEN "env" ELSE "facts"

(* _cache_sudo_pass: asked and tried on all clients until it is right, or  *)
(* until the operator goes on without.                                     *)
CacheSudoPass ==
    /\ at.pc = "sudo" /\ ~mem.pass
    /\ \/ /\ mem' = [mem EXCEPT !.pass = TRUE]
          /\ at' = [at EXCEPT !.pc = AfterPassword, !.pw = "given"]
       \/ mem' = mem /\ at' = [at EXCEPT !.pc = AfterPassword]
    /\ Keeps /\ UNCHANGED <<vault, todo>>

(* _unlock_vault: the password goes to .vault and is tried from there. *)
UnlockVault ==
    /\ at.pc = "unlock" \/ (at.pc = "sudo" /\ mem.pass)
    /\ vault' = (vault \/ mem.pass)
    /\ IF mem.pass THEN \E p \in IF at.pw = "none" THEN {"right", "wrong"} ELSE {at.pw} :
                          at' = [at EXCEPT !.pc = "try", !.pw = p]
                   ELSE Go(AfterPassword)
    /\ Keeps /\ UNCHANGED <<mem, todo>>

ValidateBecomePass ==
    /\ at.pc = "try"
    /\ \/ vault /\ at.pw = "right" /\ Go(AfterPassword) /\ Keeps /\ UNCHANGED <<mem, vault, todo>>
       \/ at' = [at EXCEPT !.pc = "unlock", !.pw = "none"] /\ Keeps /\ UNCHANGED <<mem, vault, todo>>
       \/ Exit

(* The variables of Spectrum Conductor are edited until none is missing; a *)
(* finished installation (wmla121) does not ask again.                     *)
SetInstallEnv ==
    /\ at.pc = "env"
    /\ Go("facts")
    /\ Keeps /\ UNCHANGED <<mem, vault, todo>>

GatherFacts ==
    /\ at.pc = "facts"
    /\ \/ Go(IF cmd.name = "init" THEN "play" ELSE "begin") /\ Keeps /\ UNCHANGED <<mem, vault, todo>>
       \/ Exit

(* init_clients.yml: only its success records what the clients were set    *)
(* up for.  The password file is not written again for a retry.            *)
HasPassword == at.pw = "given" \/ ~mem.pass \/ vault
InitPlaybookEither ==
    /\ at.pc = "play"
    /\ disk' = [mem EXCEPT !.proc = cmd.proc, !.arch = cmd.arch]
    /\ \E ok \in {TRUE, FALSE} :
         hist' = IF ok THEN [hist EXCEPT !.proc = cmd.proc] ELSE hist
    /\ Gone /\ UNCHANGED <<inv, hosts, left>>
InitPlaybook ==
    /\ at.pc = "play"
    /\ \/ HasPassword
          /\ disk' = [mem EXCEPT !.proc = cmd.proc, !.arch = cmd.arch]
          /\ hist' = [hist EXCEPT !.proc = cmd.proc]
          /\ Gone /\ UNCHANGED <<inv, hosts, left>>
       \/ Exit
---------------------------------------------------------------------------
(* install of wmla121 with the second part of a self-installation due:     *)
(* finish it, or mark it as done and maybe start over, or leave it.        *)
Marked == [hist EXCEPT !.paused = FALSE]
BeginInstall121 ==
    /\ at.pc = "begin" /\ cmd.rel = "wmla121"
    /\ \/ ~mem.final /\ Go("tasks") /\ todo' = Full /\ UNCHANGED <<mem, hist>>
       \/ /\ mem.final
          /\ at' = [at EXCEPT !.pc = "tasks", !.part = "finish"]
          /\ todo' = Finish /\ UNCHANGED <<mem, hist>>
       \/ /\ mem.final /\ Go("tasks") /\ todo' \in {<<>>, Full}
          /\ mem' = [mem EXCEPT !.final = FALSE]
          /\ hist' = Marked
       \/ mem.final /\ Go("tasks") /\ todo' = <<>> /\ UNCHANGED <<mem, hist>>
    /\ UNCHANGED <<disk, cmd, inv, hosts, vault, left>>

(* install of wmla120 knows no second part. *)
BeginInstall120 ==
    /\ at.pc = "begin" /\ cmd.rel = "wmla120"
    /\ Go("tasks") /\ todo' = Full
    /\ Keeps /\ UNCHANGED <<mem, vault>>

(* run_ansible_task: the next task.  A procedure stops short of the tuning *)
(* while there is a client it must not reboot; wmla121 notes that the rest *)
(* is due, and does not stop again once it was, wmla120 just ends.         *)
Due120 == todo # <<>> /\ Head(todo) = "tuning" /\ NoReboot
Due121 == Due120 /\ ~mem.final
Due    == IF cmd.rel = "wmla121" THEN Due121 ELSE Due120
Pause121 ==
    /\ at.pc = "tasks" /\ cmd.rel = "wmla121" /\ Due121
    /\ todo' = <<>>
    /\ mem' = [mem EXCEPT !.final = TRUE]
    /\ hist' = [hist EXCEPT !.reached = TRUE, !.paused = TRUE, !.cut = FALSE]
    /\ UNCHANGED <<disk, cmd, at, inv, hosts, vault, left>>
Pause120 ==
    /\ at.pc = "tasks" /\ cmd.rel = "wmla120" /\ Due120
    /\ todo' = <<>>
    /\ Keeps /\ UNCHANGED <<mem, at, vault>>

NextTask ==
    /\ at.pc = "tasks" /\ todo # <<>> /\ ~Due
    /\ Go("run")
    /\ Keeps /\ UNCHANGED <<mem, vault, todo>>

(* Licences that are not accepted, and clients that want to be restarted   *)
(* before CUDA, may end the command.                                       *)
LicenseAccept ==
    at.pc = "tasks" /\ todo # <<>> /\ Head(todo) = "license" /\ Exit
CheckClientsNeedsRestarting ==
    at.pc = "tasks" /\ todo # <<>> /\ Head(todo) = "cuda" /\ Exit

(* _run_ansible_tasks: the password file is written again before each try. *)
RunTaskOnly ==
    /\ at.pc = "run" /\ Go("ansible")
    /\ Keeps /\ UNCHANGED <<mem, vault, todo>>
RunTask ==
    /\ at.pc = "run" /\ Go("ansible")
    /\ vault' = (vault \/ mem.pass)
    /\ Keeps /\ UNCHANGED <<mem, todo>>

(* A missing password file is tried again without a question; what else    *)
(* fails is tried again, passed over, or the end.                          *)
AnsibleTasks ==
    /\ at.pc = "ansible"
    /\ LET missing == mem.pass /\ ~vault
       IN  /\ hist' = [hist EXCEPT !.miss = missing]
           /\ IF missing
              THEN Go("run") /\ UNCHANGED <<mem, cmd, vault, todo>>
              ELSE \/ Go("tasks") /\ todo' = Tail(todo) /\ UNCHANGED <<mem, cmd, vault>>
                   \/ Go("run") /\ UNCHANGED <<mem, cmd, vault, todo>>
                   \/ Gone
    /\ UNCHANGED <<disk, inv, hosts, left>>

(* The end of install: wmla121 saves whether the second part is due. *)
EndInstallUnsaved ==
    /\ at.pc = "tasks" /\ todo = <<>> /\ cmd.rel = "wmla121"
    /\ Exit
EndInstall121 ==
    /\ at.pc = "tasks" /\ todo = <<>> /\ cmd.rel = "wmla121"
    /\ LET due == mem.final /\ at.part # "finish"
       IN  /\ disk' = [mem EXCEPT !.final = due]
           /\ hist' = [hist EXCEPT !.reached = due, !.paused = @ /\ due]
    /\ Gone /\ UNCHANGED <<inv, hosts, left>>
EndInstall120 ==
    /\ at.pc = "tasks" /\ todo = <<>> /\ cmd.rel = "wmla120"
    /\ Exit
---------------------------------------------------------------------------
(* The process is killed, maybe while it saves: .vault stays.  The history *)
(* notes a kill that tears the file, or falls between the pause and its    *)
(* save.                                                                   *)
Saving == at.pc \in {"init", "install", "play"} \/ (at.pc = "tasks" /\ todo = <<>>)
Kill ==
    /\ at.pc # "none" /\ left.kills > 0
    /\ left' = [left EXCEPT !.kills = @ - 1]
    /\ \E torn \in {FALSE, Saving} :
         /\ disk' = IF torn THEN Nothing ELSE disk
         /\ hist' = [hist EXCEPT !.cut = @ \/ torn \/ (mem.final /\ ~disk.final), !.miss = FALSE]
    /\ mem' = Nothing /\ cmd' = NoCmd /\ at' = Idle /\ todo' = <<>>
    /\ UNCHANGED <<inv, hosts, vault>>

(* Another pup command, --README say, ends. *)
OtherEnds ==
    /\ vault /\ left.others > 0
    /\ left' = [left EXCEPT !.others = @ - 1]
    /\ vault' = FALSE
    /\ UNCHANGED <<disk, mem, cmd, at, inv, hosts, todo, hist>>

Process ==
    \/ InitClients \/ InitClientsCheck \/ ValidateSoftwareInventory \/ ChooseInventory
    \/ CacheSudoPass \/ UnlockVault \/ ValidateBecomePass \/ SetInstallEnv
    \/ GatherFacts \/ InitPlaybook \/ BeginInstall121 \/ BeginInstall120
    \/ Pause121 \/ Pause120 \/ NextTask
    \/ LicenseAccept \/ CheckClientsNeedsRestarting
    \/ RunTask \/ AnsibleTasks \/ EndInstall121 \/ EndInstall120

Next ==
    \/ \E n \in {"init", "install"}, r \in Releases, a \in Archs, p \in Procs : Start(n, r, a, p)
    \/ Process \/ Kill \/ OtherEnds

Spec == Init /\ [][Next]_vars /\ WF_vars(Process)
---------------------------------------------------------------------------
VarsType == [init : (Releases \X Archs) \cup {None}, arch : Archs \cup {None}, proc : Procs \cup {None},
             pass : BOOLEAN, final : BOOLEAN, inv : BOOLEAN]
TypeOK ==
    /\ disk \in VarsType /\ mem \in VarsType
    /\ inv \in [is : BOOLEAN, self : BOOLEAN, names : BOOLEAN,
                glob : BOOLEAN, own : [one : Said, two : Said, far : Said], key : BOOLEAN]
    /\ \A k \in DOMAIN todo : todo[k] \in Tasks
    /\ (at.pc = "none") = (cmd = NoCmd)

(* The machine pup runs on is not rebooted by a task when it is one of the *)
(* clients, whatever edits and repairs the inventory went through, unless  *)
(* the operator went on with an inventory that failed validation, or wrote *)
(* a True on its line that _set_pup_reboot does not remove: a second one,  *)
(* or one with a '.' between the name and it.                              *)
InstallerSafe ==
    at.pc = "ansible" /\ Head(todo) \in {"reboot", "cuda"} /\ inv.self /\ ~hist.asis
        => Effective(inv.own) = "False" \/ OutOfReach(inv.own)

(* Tasks run only for the processor family (and kind of licence) of the    *)
(* last initialisation that succeeded, and for another repository than that*)
(* last begun only if the operator agreed.                                 *)
InstallFitsInit ==
    at.pc = "ansible" =>
        /\ hist.proc = cmd.proc
        /\ hist.tried # RepoName => hist.agreed

(* A paused self-installation is offered for completion by every later     *)
(* installation, whatever ends early or is initialised in between, and the *)
(* short second part only after a first that came to its last task.  Only a*)
(* kill loses a pause: one between the message and the save that follows   *)
(* it, or one that tears the file in this or a later save; a full          *)
(* installation then starts over.                                          *)
PauseRemembered ==
    at.pc = "none" => /\ hist.paused => disk.final \/ hist.cut
                      /\ disk.final => hist.reached

(* A task that finds its password file gone finds it later: the retry that *)
(* asks nobody does not go on for ever.                                    *)
RetryEnds == hist.miss ~> ~hist.miss

=============================================================================
