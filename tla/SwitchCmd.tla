------------------------------ MODULE SwitchCmd ------------------------------
(***************************************************************************)
(* SwitchCommon.send_cmd: one command sent to a switch by one of several   *)
(* processes.  A lock file per switch keeps the ssh sessions apart: it is  *)
(* made when missing, locked (five waits of five seconds), and unlocked    *)
(* after the session.  The lock belongs to a file, so the operating system *)
(* frees it when the call is left by an exception.                         *)
(***************************************************************************)
EXTENDS Integers

CONSTANTS
  Procs,      \* processes that talk to the switch
  MaxTries    \* waits for the lock before giving up

ASSUME SwitchCmdAssumption == MaxTries \in Nat \ {0}

VARIABLES
  st,        \* where each process is in send_cmd
  cnt,       \* cnt of each process
  lockfile,  \* whether the lock file exists
  holder     \* the processes that have the lock

cmdVars == <<st, cnt, lockfile, holder>>

CmdInit(exists) ==
  /\ st = [p \in Procs |-> "idle"]
  /\ cnt = [p \in Procs |-> 0]
  /\ lockfile = exists
  /\ holder = {}

(* os.path.isfile.                                                         *)
Open(p) ==
  /\ st[p] = "idle"
  /\ st' = [st EXCEPT ![p] = IF lockfile THEN "wait" ELSE "mknod"]
  /\ cnt' = [cnt EXCEPT ![p] = 0]
  /\ UNCHANGED <<lockfile, holder>>

(* os.mknod raises if the file has come into being since.                  *)
Mknod(p) ==
  /\ st[p] = "mknod"
  /\ st' = [st EXCEPT ![p] = IF lockfile THEN "crashed" ELSE "wait"]
  /\ lockfile' = TRUE
  /\ UNCHANGED <<cnt, holder>>

AcquireShared(p) ==      \* a bug: the lock is not exclusive
  /\ st[p] = "wait"
  /\ holder' = holder \cup {p}
  /\ st' = [st EXCEPT ![p] = "session"]
  /\ UNCHANGED <<cnt, lockfile>>

(* fcntl.lockf, exclusive and without waiting; then the session begins.    *)
Acquire(p) ==
  /\ st[p] = "wait" /\ holder = {}
  /\ holder' = {p}
  /\ st' = [st EXCEPT ![p] = "session"]
  /\ UNCHANGED <<cnt, lockfile>>

(* Five seconds have passed with the lock taken.                           *)
WaitOver(p) ==
  /\ st[p] = "wait" /\ holder # {}
  /\ cnt' = [cnt EXCEPT ![p] = cnt[p] + 1]
  /\ st' = [st EXCEPT ![p] = IF cnt[p] + 1 = MaxTries THEN "nolock" ELSE "wait"]
  /\ UNCHANGED <<lockfile, holder>>

(* The session is over, or the connection could not be made.               *)
Release(p) ==
  /\ st[p] = "session"
  /\ holder' = holder \ {p}
  /\ st' = [st EXCEPT ![p] = "idle"]
  /\ UNCHANGED <<cnt, lockfile>>

NoConnection(p) ==
  /\ st[p] = "session"
  /\ holder' = holder \ {p}
  /\ st' = [st EXCEPT ![p] = "noconn"]
  /\ UNCHANGED <<cnt, lockfile>>

LockStep(p) == Open(p) \/ Mknod(p) \/ Acquire(p) \/ WaitOver(p)

-----------------------------------------------------------------------------
States == {"idle", "mknod", "wait", "session", "nolock", "noconn", "crashed"}

CmdTypeOK ==
  /\ st \in [Procs -> States]
  /\ cnt \in [Procs -> 0 .. MaxTries]
  /\ lockfile \in BOOLEAN
  /\ holder \subseteq Procs

(* Sessions of different processes with a switch do not overlap.           *)
OneSession ==
  \A p, q \in Procs : st[p] = "session" /\ st[q] = "session" => p = q
=============================================================================
