------------------------------ MODULE Service ------------------------------
(***************************************************************************)
(* vadgr start, stop and restart: the processes of a machine, the pid and  *)
(* the port file they are found by, and the port they answer on.  What a   *)
(* daemon does between its spawn and its serving is Consolidation's.       *)
(*                                                                         *)
(* A daemon's name is its pid, which a stranger may take once the daemon   *)
(* is gone; the files survive a reboot, the processes do not.              *)
(***************************************************************************)
EXTENDS Consolidation, Integers, FiniteSetsExt

CONSTANTS
  Callers,     \* command lines at once
  Ports,       \* 0.. : the default port and those above it
  Nobody,      \* listens on a port
  Stranger,    \* a process of somebody else
  TakenPorts,  \* bound: ports a stranger may listen on
  MayInterrupt \* a command line can be stopped half-way

ASSUME ServiceAssumption ==
  /\ Ports # {} /\ Ports \subseteq Nat /\ TakenPorts \subseteq Ports /\ MayInterrupt \in BOOLEAN
  /\ Nobody \notin Daemons /\ Stranger \notin Daemons /\ Nobody # Stranger
  /\ Absent \notin Daemons \cup Ports

VARIABLES
  pidfile, portfile,
  port,       \* --port of each daemon
  listener,   \* of each port
  cli,        \* where each command line is
  child,      \* the daemon it spawned
  target,     \* the port it has chosen, or would stop
  abandoned   \* history: <<d, "pid">>, <<d, "port">>: the command line that
              \* spawned d ended before it had written its pid, its port

nameFiles == <<pidfile, portfile>>
os        == <<port, listener>>
mine      == <<child, target>>
serviceVars == <<disk, daemonVars, history, nameFiles, os, cli, mine, abandoned>>

Live(d) == boot[d] \notin {"unborn", "gone"}
DefaultPort == Min(Ports)
CallerSteps == {"idle", "starting", "choosing", "spawned", "writing", "watching",
                "stopping", "killing", "removing"}

ServiceTypeOK ==
  /\ ConsolidationTypeOK
  /\ pidfile \in Daemons \cup {Absent} /\ portfile \in Ports \cup {Absent}
  /\ port \in [Daemons -> Ports]
  /\ listener \in [Ports -> Daemons \cup {Nobody, Stranger}]
  /\ \A p \in Ports : listener[p] \in Daemons => boot[listener[p]] = "serving"
  /\ cli \in [Callers -> CallerSteps]
  /\ child \in [Callers -> Daemons \cup {Absent}] /\ target \in [Callers -> Ports]
  /\ abandoned \subseteq Daemons \X {"pid", "port"}

ServiceInit ==
  /\ ConsolidationInit
  /\ pidfile = Absent /\ portfile = Absent
  /\ port = [d \in Daemons |-> DefaultPort]
  /\ listener = [p \in Ports |-> Nobody]
  /\ cli = [c \in Callers |-> "idle"]
  /\ child = [c \in Callers |-> Absent] /\ target = [c \in Callers |-> DefaultPort]
  /\ abandoned = {}

Enter(c, there) == cli' = [cli EXCEPT ![c] = there]

(* A command line ends; what it knew goes with it.                         *)
End(c) ==
  /\ Enter(c, "idle")
  /\ child' = [child EXCEPT ![c] = Absent]
  /\ target' = [target EXCEPT ![c] = DefaultPort]
---------------------------------------------------------------------------
(* pid_alive: of a process that is gone, somebody else may have the pid.   *)
Alive(pid) == IF Live(pid) THEN {TRUE} ELSE BOOLEAN

(* read_pid: the pid of a process that is alive, whoever it is; the file   *)
(* is removed when it names a dead one.                                    *)
ReadPid == IF pidfile = Absent THEN {Absent}
           ELSE {IF alive THEN pidfile ELSE Absent : alive \in Alive(pidfile)}

(* kill_tree: the process is gone, and nobody listens where it did.        *)
KillTree(gone) ==
  /\ boot' = [d \in Daemons |-> IF d \in gone THEN "gone" ELSE boot[d]]
  /\ plan' = [d \in Daemons |-> IF d \in gone THEN {} ELSE plan[d]]
  /\ listener' = [p \in Ports |-> IF listener[p] \in gone THEN Nobody ELSE listener[p]]
---------------------------------------------------------------------------
(* A restart is a stop, and then a start.                                  *)
Call(c) ==
  /\ cli[c] = "idle"
  /\ \E first \in {"starting", "stopping"} : Enter(c, first)
  /\ UNCHANGED <<disk, daemonVars, history, nameFiles, os, mine, abandoned>>

\* Variant: the gate asks for a serving daemon.
CheckServing(c) ==
  /\ cli[c] = "starting"
  /\ LET serving == pidfile # Absent /\ boot[pidfile] = "serving"
     IN /\ pidfile' = IF serving THEN pidfile ELSE Absent
        /\ IF serving THEN End(c) ELSE Enter(c, "choosing") /\ UNCHANGED mine
  /\ UNCHANGED <<disk, daemonVars, history, portfile, os, abandoned>>

(* start: refuses when the file names a process.                           *)
CheckPid(c) ==
  /\ cli[c] = "starting"
  /\ pidfile' \in ReadPid
  /\ IF pidfile' = Absent THEN Enter(c, "choosing") /\ UNCHANGED mine ELSE End(c)
  /\ UNCHANGED <<disk, daemonVars, history, portfile, os, abandoned>>

(* find_free_port: the first one, from the default on, that can be bound.  *)
Bindable(p) == listener[p] = Nobody

FindFreePort ==
  LET free == {p \in Ports : Bindable(p)} IN IF free = {} THEN Absent ELSE Min(free)

Choose(c) ==
  /\ cli[c] = "choosing"
  /\ \/ /\ FindFreePort # Absent
        /\ target' = [target EXCEPT ![c] = FindFreePort]
        /\ \E d \in Daemons :
             /\ boot[d] = "unborn"
             /\ Go(d, "started")
             /\ child' = [child EXCEPT ![c] = d]
             /\ port' = [port EXCEPT ![d] = FindFreePort]
        /\ Enter(c, "spawned")
     \/ FindFreePort = Absent /\ End(c) /\ UNCHANGED <<boot, port>>
  /\ UNCHANGED <<disk, plan, history, nameFiles, listener, abandoned>>

(* write_pid, write_port: an error ends the command, not the daemon.       *)
WritePid(c) ==
  /\ cli[c] = "spawned"
  /\ pidfile' = child[c] /\ Enter(c, "writing")
  /\ UNCHANGED <<disk, daemonVars, history, portfile, os, mine, abandoned>>

WritePort(c) ==
  /\ cli[c] = "writing"
  /\ portfile' = target[c] /\ Enter(c, "watching")
  /\ UNCHANGED <<disk, daemonVars, history, pidfile, os, mine, abandoned>>

(* After a second: a child that has exited takes its files with it.  Else  *)
(* wait_for_api, until somebody answers or half a minute has passed.       *)
Watch(c) ==
  /\ cli[c] = "watching" /\ End(c)
  /\ IF Live(child[c]) THEN UNCHANGED nameFiles ELSE pidfile' = Absent /\ portfile' = Absent
  /\ UNCHANGED <<disk, daemonVars, history, os, abandoned>>
---------------------------------------------------------------------------
(* stop: read_active_port believes the port file only if the pid file      *)
(* names a process.                                                        *)
ReadActivePort(c) ==
  /\ cli[c] = "stopping"
  /\ IF portfile = Absent THEN UNCHANGED nameFiles
     ELSE /\ pidfile' \in ReadPid
          /\ portfile' = IF pidfile' = Absent THEN Absent ELSE portfile
  /\ target' = [target EXCEPT ![c] = IF portfile' = Absent THEN DefaultPort ELSE portfile]
  /\ Enter(c, "killing")
  /\ UNCHANGED <<disk, daemonVars, history, os, child, abandoned>>

PortInUse(p) == listener[p] # Nobody

(* kill_port: whoever it is.                                               *)
KillPort(p) ==
  IF listener[p] \in Daemons THEN KillTree({listener[p]})
  ELSE listener' = [listener EXCEPT ![p] = Nobody] /\ UNCHANGED daemonVars

Kill(c) ==
  /\ cli[c] = "killing"
  /\ pidfile' \in ReadPid
  /\ \/ /\ pidfile' # Absent
        /\ KillTree({pidfile} \cap {d \in Daemons : Live(d)})
        /\ Enter(c, "removing") /\ UNCHANGED mine
     \/ /\ pidfile' = Absent /\ PortInUse(target[c])
        /\ KillPort(target[c]) /\ Enter(c, "removing") /\ UNCHANGED mine
     \/ /\ pidfile' = Absent /\ ~PortInUse(target[c])
        /\ End(c) /\ UNCHANGED <<daemonVars, listener>>
  /\ UNCHANGED <<disk, history, portfile, port, abandoned>>

RemoveFiles(c) ==
  /\ cli[c] = "removing"
  /\ pidfile' = Absent /\ portfile' = Absent
  /\ End(c)
  /\ UNCHANGED <<disk, daemonVars, history, os, abandoned>>

(* status reads the pid file, which may remove it.                         *)
Status(c) ==
  /\ cli[c] = "idle" /\ pidfile' \in ReadPid
  /\ UNCHANGED <<disk, daemonVars, history, portfile, os, cli, mine, abandoned>>

(* Its owner, or a full disk, ends a command line where it is.             *)
Interrupt(c) ==
  /\ MayInterrupt /\ cli[c] # "idle"
  /\ abandoned' = abandoned
       \cup (IF cli[c] = "spawned" THEN {<<child[c], "pid">>} ELSE {})
       \cup (IF cli[c] \in {"spawned", "writing"} THEN {<<child[c], "port">>} ELSE {})
  /\ End(c)
  /\ UNCHANGED <<disk, daemonVars, history, nameFiles, os>>
---------------------------------------------------------------------------
(* A daemon that cannot bind its port may live on with the other           *)
(* transports.                                                             *)
Serve(d) ==
  /\ boot[d] = "recovering"
  /\ IF listener[port[d]] = Nobody
       THEN Go(d, "serving") /\ listener' = [listener EXCEPT ![port[d]] = d]
       ELSE Go(d, "deaf") /\ UNCHANGED listener
  /\ UNCHANGED <<disk, plan, history, nameFiles, port, cli, mine, abandoned>>

LookAround(d) ==
  /\ \E here \in BOOLEAN : Look(d, here)
  /\ UNCHANGED <<nameFiles, os, cli, mine, abandoned>>

Prepare(d) == Consolidate(d) /\ UNCHANGED <<nameFiles, os, cli, mine, abandoned>>

Die(d) ==
  /\ Live(d) /\ KillTree({d})
  /\ UNCHANGED <<disk, history, nameFiles, port, cli, mine, abandoned>>

(* Somebody else's process takes the port, or leaves it.  A reboot is the  *)
(* death of all that runs: the files stay.                                 *)
TakePort(p) ==
  /\ p \in TakenPorts /\ listener[p] \in {Nobody, Stranger}
  /\ \E who \in {Nobody, Stranger} : listener' = [listener EXCEPT ![p] = who]
  /\ UNCHANGED <<disk, daemonVars, history, nameFiles, port, cli, mine, abandoned>>
---------------------------------------------------------------------------
Start(c) == CheckPid(c) \/ Choose(c) \/ WritePid(c) \/ WritePort(c) \/ Watch(c)
Stop(c)  == ReadActivePort(c) \/ Kill(c) \/ RemoveFiles(c)
Work(c)  == Start(c) \/ Stop(c)
Bring(d) == LookAround(d) \/ Prepare(d) \/ Serve(d)

ServiceNext ==
  \/ \E c \in Callers : Call(c) \/ Work(c) \/ Status(c) \/ Interrupt(c)
  \/ \E d \in Daemons : Bring(d) \/ Die(d)
  \/ \E p \in Ports : TakePort(p)

ServiceSpec == ServiceInit /\ [][ServiceNext]_serviceVars

---------------------------------------------------------------------------
(* Properties, for one command line at a time.                             *)

(* A daemon is found by its pid file and its port file, unless its command *)
(* line ended before they were written; and no second one runs on the same *)
(* state beside it.                                                        *)
Named(d)   == <<d, "pid">> \notin abandoned
Writing(d) == \E c \in Callers : child[c] = d /\ cli[c] \in {"spawned", "writing"}

DaemonsAreNamed ==
  \A d \in Daemons : Live(d) /\ Named(d) =>
    /\ pidfile = d \/ Writing(d)
    /\ portfile = port[d] \/ Writing(d) \/ <<d, "port">> \in abandoned
    /\ \A e \in Daemons : Live(e) /\ Named(e) => e = d

(* As long as no daemon was lost that way, the old rows and journals are   *)
(* kept, the root is never half of them, and no death of a daemon makes a  *)
(* machine refuse to start.  Of a loss of power nothing is said (see       *)
(* Consolidation).                                                         *)
HistoryIsKept ==
  (\A d \in Daemons : Named(d)) => NothingIsLost /\ TargetIsWhole /\ RefusalsHaveAReason
=============================================================================
