----------------------------- MODULE BmcClients -----------------------------
(***************************************************************************)
(* set_power_clients and set_bootdev_clients: command a set of BMCs, read  *)
(* the result back, and try again the ones that do not show it.            *)
(*                                                                         *)
(* The two functions have the same loop: log in to every client left, send *)
(* the command to those that answered, wait, read the state back, take the *)
(* clients that show it off the list.  They differ in how the argument is  *)
(* turned into a client list, and in what a lost connection does.          *)
(*                                                                         *)
(* A node stands for its BMC and for its PXE address in the inventory; an  *)
(* address of Strangers belongs to no node of the inventory.               *)
(***************************************************************************)
EXTENDS Integers, FiniteSets

CONSTANTS
  Nodes,        \* nodes of the inventory
  Strangers,    \* addresses the inventory does not know
  OpenBmc,      \* nodes whose BMC is of type openbmc
  MaxAttempts   \* max_attempts

ASSUME BmcClientsAssumption ==
  /\ IsFiniteSet(Nodes)
  /\ Nodes \cap Strangers = {}
  /\ OpenBmc \subseteq Nodes
  /\ MaxAttempts \in Nat

Ops == {"power", "boot"}
Wants(o) == IF o = "power" THEN {"on", "off"} ELSE {"network", "default"}

VARIABLES
  phase,    \* where the call is
  op,       \* which of the two functions runs
  want,     \* state or bootdev asked for
  asked,    \* the clients argument; {} stands for None and for []
  left,     \* clients_left
  todo,     \* clients the current for loop has not visited
  conn,     \* keys of bmc_dict
  set,      \* clients_set
  attempt,  \* attempt
  seen,     \* clients whose state was read back as wanted, in this call
  dev,      \* what each BMC really has: power state and boot source
  late,     \* nodes whose BMC has accepted a power command not yet done
  reach     \* BMCs that answer

call    == <<op, want, asked>>
loop    == <<left, conn, set, attempt>>
machine == <<dev, late, reach>>
bmcVars == <<phase, op, want, asked, left, todo, conn, set, attempt, seen,
             dev, late, reach>>

-----------------------------------------------------------------------------
(* The client list.  For power the argument holds BMC addresses.  For boot *)
(* it holds PXE addresses, which are looked up in the inventory; when none *)
(* is found the list of BMCs is empty, and _get_cred_list takes an empty   *)
(* list for every node.                                                    *)
Known(list) == list \cap Nodes

TargetsAll(o, list) == Nodes      \* a bug: the list is not passed on
Targets(o, list) ==
  IF list = {} \/ (o = "boot" /\ Known(list) = {}) THEN Nodes ELSE Known(list)

BmcInit ==
  /\ phase = "idle"
  /\ op = "power" /\ want = "off" /\ asked = {}
  /\ left = {} /\ todo = {} /\ conn = {} /\ set = {} /\ attempt = 0 /\ seen = {}
  /\ dev \in [power : [Nodes -> {"on", "off"}], boot : {[n \in Nodes |-> "default"]}]
  /\ late = {}
  /\ reach = Nodes

Begin(o, w, list) ==
  /\ phase = "idle"
  /\ phase' = "attempt"
  /\ op' = o /\ want' = w /\ asked' = list
  /\ left' = Targets(o, list)
  /\ todo' = {} /\ conn' = {} /\ set' = {} /\ attempt' = 0 /\ seen' = {}
  /\ UNCHANGED machine

(* The while condition.                                                    *)
More == left # {} /\ attempt < MaxAttempts

(* One more attempt for the clients left.                                  *)
NextAttempt ==
  /\ phase = "attempt" /\ More
  /\ attempt' = attempt + 1
  /\ phase' = "login"
  /\ todo' = left
  /\ conn' = {} /\ set' = {}
  /\ UNCHANGED <<call, left, seen, machine>>

(* Up to three login attempts to one client.                               *)
Login(n) ==
  /\ phase = "login" /\ n \in todo
  /\ todo' = todo \ {n}
  /\ conn' = IF n \in reach THEN conn \cup {n} ELSE conn
  /\ UNCHANGED <<phase, call, left, set, attempt, seen, machine>>

EndLogins ==
  /\ phase = "login" /\ todo = {}
  /\ phase' = "set"
  /\ todo' = conn
  /\ UNCHANGED <<call, loop, seen, machine>>

(* Only the boot source functions of openbmc let a lost connection through *)
(* as an exception, which ends the call.                                   *)
Raises(n) == op = "boot" /\ n \in OpenBmc \ reach

(* The command to one client: done at once, accepted and done later (a     *)
(* power command), or refused or unanswered, which is only logged.         *)
Command(n) ==
  /\ phase = "set" /\ n \in todo
  /\ \/ /\ n \in reach
        /\ dev' = [dev EXCEPT ![op] = [dev[op] EXCEPT ![n] = want]]
        /\ late' \in IF dev[op][n] = want THEN {late, late \ {n}} ELSE {late \ {n}}
        /\ UNCHANGED phase
     \/ /\ n \in reach /\ op = "power" /\ dev.power[n] # want
        /\ late' = late \cup {n}
        /\ UNCHANGED <<dev, phase>>
     \/ UNCHANGED <<dev, late, phase>>
     \/ /\ Raises(n)
        /\ phase' = "raised"
        /\ UNCHANGED <<dev, late>>
  /\ todo' = todo \ {n}
  /\ UNCHANGED <<call, loop, seen, reach>>

EndCommands ==
  /\ phase = "set" /\ todo = {}
  /\ phase' = "check"
  /\ todo' = conn
  /\ UNCHANGED <<call, loop, seen, machine>>

(* The state read back from one client.                                    *)
Check(n) ==
  /\ phase = "check" /\ n \in todo
  /\ todo' = todo \ {n}
  /\ \/ /\ n \in reach /\ dev[op][n] = want
        /\ set' = set \cup {n}
        /\ seen' = seen \cup {n}
        /\ UNCHANGED phase
     \/ /\ n \notin reach \/ dev[op][n] # want
        /\ UNCHANGED <<set, seen, phase>>
     \/ /\ Raises(n)
        /\ phase' = "raised"
        /\ UNCHANGED <<set, seen>>
  /\ UNCHANGED <<call, left, conn, attempt, machine>>

EndChecksConnected ==      \* a bug: clients that answered count as set
  /\ phase = "check" /\ todo = {}
  /\ left' = left \ conn
  /\ phase' = "attempt"
  /\ UNCHANGED <<call, todo, conn, set, attempt, seen, machine>>

EndChecksAll ==      \* a bug: clients that are set stay on the list
  /\ phase = "check" /\ todo = {}
  /\ phase' = "attempt"
  /\ UNCHANGED <<call, left, todo, conn, set, attempt, seen, machine>>

(* Clients that show the wanted state are taken off the list.              *)
EndChecks ==
  /\ phase = "check" /\ todo = {}
  /\ left' = left \ set
  /\ phase' = "attempt"
  /\ UNCHANGED <<call, todo, conn, set, attempt, seen, machine>>

(* set_power_clients returns whether clients_left is empty.                *)
Succeeded == left = {}

Return ==
  /\ phase = "attempt" /\ ~More
  /\ phase' = "idle"
  /\ UNCHANGED <<call, loop, todo, seen, machine>>

CallStep ==
  \/ NextAttempt \/ EndLogins \/ EndCommands \/ EndChecks \/ Return
  \/ \E n \in Nodes : Login(n) \/ Command(n) \/ Check(n)

-----------------------------------------------------------------------------
(* The environment: a power command accepted earlier takes effect, a BMC   *)
(* stops answering or answers again.                                       *)
TakesEffect(n) ==
  /\ n \in late
  /\ late' = late \ {n}
  /\ dev' = [dev EXCEPT !.power = [dev.power EXCEPT ![n] =
                                     IF dev.power[n] = "on" THEN "off" ELSE "on"]]
  /\ UNCHANGED <<phase, call, loop, todo, seen, reach>>

Flap(n) ==
  /\ reach' = IF n \in reach THEN reach \ {n} ELSE reach \cup {n}
  /\ UNCHANGED <<phase, call, loop, todo, seen, dev, late>>

-----------------------------------------------------------------------------
(* A caller that makes any call the code makes of it.                      *)
BmcNext ==
  \/ \E o \in Ops, list \in SUBSET (Nodes \cup Strangers) :
        \E w \in Wants(o) : Begin(o, w, list)
  \/ CallStep
  \/ \E n \in Nodes : TakesEffect(n) \/ Flap(n)

BmcSpec == BmcInit /\ [][BmcNext]_bmcVars

-----------------------------------------------------------------------------
Phases == {"idle", "attempt", "login", "set", "check", "raised"}

(* The value every variable may take, attempts within max_attempts.        *)
BmcTypeOK ==
  /\ phase \in Phases
  /\ op \in Ops /\ want \in {"on", "off", "network", "default"}
  /\ asked \subseteq Nodes \cup Strangers
  /\ left \subseteq Nodes /\ todo \subseteq Nodes /\ conn \subseteq Nodes
  /\ set \subseteq Nodes /\ seen \subseteq Nodes
  /\ attempt \in 0 .. MaxAttempts
  /\ dev \in [power : [Nodes -> {"on", "off"}], boot : [Nodes -> {"network", "default"}]]
  /\ late \subseteq Nodes /\ reach \subseteq Nodes

(* The nodes the caller means: those in the list, all if there is none.    *)
Meant == IF asked = {} THEN Nodes ELSE Known(asked)

(* A call that reports success has read the wanted state back from every   *)
(* client the caller meant, whatever attempts, refusals and silent BMCs    *)
(* came before.                                                            *)
SuccessIsVerified ==
  phase = "attempt" /\ Succeeded => Meant \subseteq seen

(* A client whose state was read back as wanted gets no further command in *)
(* the same call: a node is not powered on a second time.                  *)
VerifiedLeftAlone ==
  [][\A n \in Nodes : Command(n) => n \notin seen]_bmcVars

=============================================================================
