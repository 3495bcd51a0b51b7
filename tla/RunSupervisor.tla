--------------------------- MODULE RunSupervisor ---------------------------
(***************************************************************************)
(* The life of a run: the row in SQLite, the driver task that executes it, *)
(* the map of active runs, the HTTP handlers that create, resume and       *)
(* cancel it, and the scan that recovers rows after a restart.             *)
(*                                                                         *)
(* Every await of the Rust code at which another task can run is a step    *)
(* boundary here.  The engine's loop is reduced to the places where it     *)
(* looks at the cancellation token; RunLoop models its calls and journal.  *)
(*                                                                         *)
(* Simplifications: read_recovery fails or succeeds freely; the agent_* and*)
(* run_* events of one moment are one frame; a driver's generation is its  *)
(* name in Tasks, used once.  A call of SQLite that fails has written      *)
(* nothing, so those that fail a handler are left out: they change nothing.*)
(***************************************************************************)
EXTENDS Naturals, Sequences

CONSTANTS
  Runs,           \* run ids
  Tasks,          \* driver generations; their number bounds the launches
  Callers,        \* HTTP handlers in progress at the same time
  None,           \* no task, no run
  MaxCrashes,     \* bound: how often the process dies
  MayDisconnect,  \* whether a client may drop its request half way
  StorageFails    \* whether SQLite may fail a driver or the boot scan

ASSUME SupervisorAssumption ==
  /\ None \notin Tasks \cup Runs
  /\ MaxCrashes \in Nat
  /\ MayDisconnect \in BOOLEAN
  /\ StorageFails \in BOOLEAN

VARIABLES
  row,       \* row[r]: the status column of runs, durable
  ask,       \* ask[r]: the journal holds an await_user record nobody closed
  active,    \* active[r]: the driver registered for r, or None
  pc,        \* pc[t]: where driver t is
  run,       \* run[t]: the run driver t works for
  launch,    \* launch[t]: New, Manual or Boot
  token,     \* token[t]: its CancellationToken is cancelled
  outcome,   \* outcome[t]: what Engine::execute returned to drive
  handler,   \* handler[c]: where the HTTP handler c is
  target,    \* target[c]: the run and the new driver the handler works on
  frames,    \* frames[r]: what the run's stream has carried since boot
  phase,     \* of the process: down, scanning or serving
  scan,      \* what recover_on_boot still has to look at
  crashes,   \* how often the process has died
  accepted,  \* history: runs whose cancel this process accepted
  dropped,   \* history: runs a dropped request left between two steps
  unsettled  \* history: runs whose row a failing call left as it was

vars == <<row, ask, active, pc, run, launch, token, outcome, handler, target,
          frames, phase, scan, crashes, accepted, dropped, unsettled>>

store    == <<row, ask>>
drivers  == <<pc, run, launch, token, outcome>>
requests == <<handler, target>>
process  == <<phase, scan, crashes>>
history  == <<accepted, dropped, unsettled>>
---------------------------------------------------------------------------
ActiveStatus   == {"queued", "running", "awaiting_approval"}
TerminalStatus == {"completed", "failed", "cancelled"}
Status         == {"absent"} \cup ActiveStatus \cup TerminalStatus
Frame          == {"started", "resumed", "awaiting"} \cup TerminalStatus

\* The driver is in the body of drive, before it settles the row.
Driving == {"ready", "opening", "looping", "completing", "calling", "asking",
            "parked", "closing"}
\* Some task answers for the row: it is about to drive, drives, or holds it.
Owning  == Driving \cup {"waiting", "held"}
Live    == Owning \cup {"announcing", "leaving"}

(* db::runs::update_status: writes whatever the row holds.                 *)
UpdateStatus(r, status) == [row EXCEPT ![r] = status]

(* db::runs::finish_if_active: the only conditional write of the status.   *)
FinishIfActive(r, status) ==
  IF row[r] \in ActiveStatus THEN [row EXCEPT ![r] = status] ELSE row

Emit(r, frame) == [frames EXCEPT ![r] = Append(@, frame)]
Goto(t, place) == pc' = [pc EXCEPT ![t] = place]

(* tokio::spawn in RunSupervisor::spawn: the task exists and waits for the *)
(* start signal, which it gets once it is in the map.                      *)
SpawnTask(t, r, how, place) ==
  /\ pc[t] = "free"
  /\ pc'     = [pc EXCEPT ![t] = place]
  /\ run'    = [run EXCEPT ![t] = r]
  /\ launch' = [launch EXCEPT ![t] = how]
  /\ UNCHANGED <<token, outcome>>
---------------------------------------------------------------------------
TypeOK ==
  /\ row \in [Runs -> Status]
  /\ ask \in [Runs -> BOOLEAN]
  /\ active \in [Runs -> Tasks \cup {None}]
  /\ pc \in [Tasks -> Live \cup {"free", "gone"}]
  /\ run \in [Tasks -> Runs \cup {None}]
  /\ launch \in [Tasks -> {"New", "Manual", "Boot"}]
  /\ token \in [Tasks -> BOOLEAN]
  /\ outcome \in [Tasks -> TerminalStatus]
  /\ handler \in [Callers -> {"idle", "recovering", "registering", "cancelling"}]
  /\ target \in [Callers -> [run : Runs \cup {None}, task : Tasks \cup {None}]]
  /\ \A c \in Callers : handler[c] # "idle" => target[c].run \in Runs
  /\ frames \in [Runs -> Seq(Frame)]
  /\ phase \in {"down", "scanning", "serving"}
  /\ scan \in SUBSET Runs
  /\ crashes \in 0..MaxCrashes
  /\ accepted \in SUBSET Runs
  /\ dropped \in SUBSET Runs
  /\ unsettled \in SUBSET Runs

Init ==
  /\ row = [r \in Runs |-> "absent"]
  /\ ask = [r \in Runs |-> FALSE]
  /\ active = [r \in Runs |-> None]
  /\ pc = [t \in Tasks |-> "free"]
  /\ run = [t \in Tasks |-> None]
  /\ launch = [t \in Tasks |-> "New"]
  /\ token = [t \in Tasks |-> FALSE]
  /\ outcome = [t \in Tasks |-> "failed"]
  /\ handler = [c \in Callers |-> "idle"]
  /\ target = [c \in Callers |-> [run |-> None, task |-> None]]
  /\ frames = [r \in Runs |-> <<>>]
  /\ phase = "serving"
  /\ scan = {}
  /\ crashes = 0
  /\ accepted = {}
  /\ dropped = {}
  /\ unsettled = {}
---------------------------------------------------------------------------
(* HTTP handlers.                                                          *)

(* RunSupervisor::create up to the lock of the map: the row is inserted    *)
(* and the task spawned.                                                   *)
Create(c, r, t) ==
  /\ phase = "serving" /\ handler[c] = "idle" /\ row[r] = "absent"
  /\ row' = [row EXCEPT ![r] = "queued"]
  /\ SpawnTask(t, r, "New", "waiting")
  /\ handler' = [handler EXCEPT ![c] = "registering"]
  /\ target' = [target EXCEPT ![c] = [run |-> r, task |-> t]]
  /\ UNCHANGED <<ask, active, frames, process, history>>

\* Variant: resume checks only that the run is over.
ResumeCheckTerminal(c, r) ==
  /\ phase = "serving" /\ handler[c] = "idle"
  /\ row[r] \in TerminalStatus
  /\ handler' = [handler EXCEPT ![c] = "recovering"]
  /\ target' = [target EXCEPT ![c] = [run |-> r, task |-> None]]
  /\ UNCHANGED <<store, active, drivers, frames, process, history>>

(* RunSupervisor::resume, the status check before read_recovery is awaited.*)
ResumeCheck(c, r) ==
  /\ phase = "serving" /\ handler[c] = "idle"
  /\ row[r] = "failed"
  /\ handler' = [handler EXCEPT ![c] = "recovering"]
  /\ target' = [target EXCEPT ![c] = [run |-> r, task |-> None]]
  /\ UNCHANGED <<store, active, drivers, frames, process, history>>

(* RunSupervisor::resume after the await: the row is written without a     *)
(* second look, and the task spawned.                                      *)
ResumeWrite(c, t) ==
  LET r == target[c].run IN
  /\ handler[c] = "recovering"
  /\ row' = UpdateStatus(r, "running")
  /\ SpawnTask(t, r, "Manual", "waiting")
  /\ handler' = [handler EXCEPT ![c] = "registering"]
  /\ target' = [target EXCEPT ![c] = [run |-> r, task |-> t]]
  /\ UNCHANGED <<ask, active, frames, process, history>>

ResumeUnreadable(c) ==
  /\ handler[c] = "recovering"
  /\ handler' = [handler EXCEPT ![c] = "idle"]
  /\ UNCHANGED <<store, active, drivers, target, frames, process, history>>

\* Variant: the start signal is never sent.
RegisterUnstarted(c) ==
  LET r == target[c].run  t == target[c].task IN
  /\ handler[c] = "registering"
  /\ active' = [active EXCEPT ![r] = t]
  /\ handler' = [handler EXCEPT ![c] = "idle"]
  /\ UNCHANGED <<store, drivers, target, frames, process, history>>

(* The rest of spawn: insert under the lock, then the start signal.        *)
Register(c) ==
  LET r == target[c].run  t == target[c].task IN
  /\ handler[c] = "registering"
  /\ active' = [active EXCEPT ![r] = t]
  /\ Goto(t, "ready")
  /\ handler' = [handler EXCEPT ![c] = "idle"]
  /\ UNCHANGED <<store, run, launch, token, outcome, target, frames, process,
                 history>>

(* RunSupervisor::cancel: the row first ...                                *)
CancelRow(c, r) ==
  /\ phase = "serving" /\ handler[c] = "idle"
  /\ row[r] \in ActiveStatus
  /\ row' = FinishIfActive(r, "cancelled")
  /\ handler' = [handler EXCEPT ![c] = "cancelling"]
  /\ target' = [target EXCEPT ![c] = [run |-> r, task |-> None]]
  /\ accepted' = accepted \cup {r}
  /\ UNCHANGED <<ask, active, drivers, frames, process, dropped, unsettled>>

(* ... then, under the lock, the token of whichever driver is registered.  *)
CancelToken(c) ==
  LET t == active[target[c].run] IN
  /\ handler[c] = "cancelling"
  /\ token' = [u \in Tasks |-> token[u] \/ u = t]
  /\ handler' = [handler EXCEPT ![c] = "idle"]
  /\ UNCHANGED <<store, active, pc, run, launch, outcome, target, frames,
                 process, history>>

(* The server drops the handler's future when its client goes away; it can *)
(* only be dropped where it waits.  A spawned task that never gets its     *)
(* start signal returns at once.                                           *)
Disconnect(c) ==
  LET r == target[c].run  t == target[c].task IN
  /\ MayDisconnect /\ handler[c] # "idle"
  /\ handler' = [handler EXCEPT ![c] = "idle"]
  /\ pc' = [u \in Tasks |->
              IF handler[c] = "registering" /\ u = t THEN "gone" ELSE pc[u]]
  /\ dropped' = IF handler[c] = "recovering" THEN dropped ELSE dropped \cup {r}
  /\ UNCHANGED <<store, active, run, launch, token, outcome, target, frames,
                 process, accepted, unsettled>>
---------------------------------------------------------------------------
(* The driver task: RunSupervisor::drive around Engine::execute.           *)

(* prepare_record succeeds and the first frame goes out.                   *)
Prepare(t) ==
  LET r == run[t] IN
  /\ pc[t] = "ready"
  /\ row' = UpdateStatus(r, "running")
  /\ frames' = Emit(r, IF launch[t] = "New" THEN "started" ELSE "resumed")
  /\ Goto(t, "opening")
  /\ UNCHANGED <<ask, active, run, launch, token, outcome, requests, process,
                 history>>

Return(t, result) ==
  /\ pc' = [pc EXCEPT ![t] = "closing"]
  /\ outcome' = [outcome EXCEPT ![t] = result]
  /\ UNCHANGED <<store, active, run, launch, token, requests, frames, process,
                 history>>

(* The row cannot be read or written, no model is connected, the journal   *)
(* cannot be opened or written, the host does not connect, the provider or *)
(* the model's answer is no good.                                          *)
ExecuteFails(t) ==
  /\ pc[t] \in {"ready", "opening", "completing", "calling"}
  /\ Return(t, "failed")

(* Journal, model and host are built without a look at the token.          *)
EnterLoop(t) ==
  /\ pc[t] = "opening"
  /\ Goto(t, "looping")
  /\ UNCHANGED <<store, active, run, launch, token, outcome, requests, frames,
                 process, history>>

(* The check at the head of an iteration of run_loop.                      *)
NextTurn(t) ==
  /\ pc[t] = "looping" /\ ~token[t]
  /\ Goto(t, "completing")
  /\ UNCHANGED <<store, active, run, launch, token, outcome, requests, frames,
                 process, history>>

\* Variant: the token is looked at only while the model answers.
SeeCancelInModelOnly(t) ==
  /\ pc[t] = "completing" /\ token[t]
  /\ Return(t, "cancelled")

(* run_loop sees the token: at the head of an iteration, or in the select! *)
(* around the model and around a dispatch.                                 *)
SeeCancel(t) ==
  /\ pc[t] \in {"looping", "completing", "calling", "asking", "parked"}
  /\ token[t]
  /\ Return(t, "cancelled")

(* The model ends its turn after a call that counted.                      *)
EndTurn(t) ==
  /\ pc[t] = "completing"
  /\ Return(t, "completed")

UseTools(t) ==
  /\ pc[t] = "completing"
  /\ Goto(t, "calling")
  /\ UNCHANGED <<store, active, run, launch, token, outcome, requests, frames,
                 process, history>>

(* Two drivers that racing resumes launched number their calls from the    *)
(* same sequence, so the record that closes a call of one may close an ask *)
(* of the other.                                                           *)
Rival(t) == \E u \in Tasks \ {t} : run[u] = run[t]

(* The turn's calls are done and the loop comes round.                     *)
FinishCalls(t) ==
  /\ pc[t] = "calling"
  /\ \E kept \in {TRUE, ~Rival(t)} : ask' = [ask EXCEPT ![run[t]] = @ /\ kept]
  /\ Goto(t, "looping")
  /\ UNCHANGED <<row, active, run, launch, token, outcome, requests, frames,
                 process, history>>

(* RunContext::park: the await_user record first.  A call dispatched after *)
(* the cancel hands its record to the writer, has to wait for it, and      *)
(* select! takes the cancelled branch ...                                  *)
Ask(t) ==
  /\ pc[t] = "calling" /\ ~token[t]
  /\ ask' = [ask EXCEPT ![run[t]] = TRUE]
  /\ Goto(t, "asking")
  /\ UNCHANGED <<row, active, run, launch, token, outcome, requests, frames,
                 process, history>>

AskTooLate(t) ==
  /\ pc[t] = "calling" /\ token[t]
  /\ ask' = [ask EXCEPT ![run[t]] = TRUE]
  /\ pc' = [pc EXCEPT ![t] = "closing"]
  /\ outcome' = [outcome EXCEPT ![t] = "cancelled"]
  /\ UNCHANGED <<row, active, run, launch, token, requests, frames, process,
                 history>>

(* ... then the row, whatever it holds by now, and the frame.              *)
Park(t) ==
  LET r == run[t] IN
  /\ pc[t] = "asking"
  /\ row' = UpdateStatus(r, "awaiting_approval")
  /\ frames' = Emit(r, "awaiting")
  /\ Goto(t, "parked")
  /\ UNCHANGED <<ask, active, run, launch, token, outcome, requests, process,
                 history>>

(* PendingChannel::park returns only on a cancel, as an error of the call, *)
(* and its record closes the ask unless the pending one is a rival's.      *)
AskRefused(t) ==
  /\ pc[t] = "parked" /\ token[t]
  /\ \E kept \in {FALSE, Rival(t)} : ask' = [ask EXCEPT ![run[t]] = @ /\ kept]
  /\ Goto(t, "calling")
  /\ UNCHANGED <<row, active, run, launch, token, outcome, requests, frames,
                 process, history>>

(* park's write of the row fails: no frame, and an error of the call,      *)
(* whose record closes the ask.                                            *)
ParkFails(t) ==
  /\ StorageFails /\ pc[t] = "asking"
  /\ \E kept \in {FALSE, Rival(t)} : ask' = [ask EXCEPT ![run[t]] = @ /\ kept]
  /\ Goto(t, "calling")
  /\ UNCHANGED <<row, active, run, launch, token, outcome, requests, frames,
                 process, history>>

(* After host.close: drive settles the row, unless the loop was cancelled, *)
(* and has something to announce only if the write changed the row.        *)
Settle(t) ==
  LET r == run[t]  result == outcome[t] IN
  /\ pc[t] = "closing"
  /\ IF result = "cancelled"
       THEN row' = row /\ Goto(t, "announcing")
       ELSE /\ row' = FinishIfActive(r, result)
            /\ Goto(t, IF row[r] \in ActiveStatus THEN "announcing" ELSE "leaving")
  /\ UNCHANGED <<ask, active, run, launch, token, outcome, requests, frames,
                 process, history>>

(* drive and fail swallow an error of finish_if_active: the row stays live *)
(* without a driver, and nothing is announced.                             *)
SettleFails(t) ==
  /\ StorageFails /\ pc[t] = "closing" /\ outcome[t] # "cancelled"
  /\ unsettled' = unsettled \cup {run[t]}
  /\ Goto(t, "leaving")
  /\ UNCHANGED <<store, active, run, launch, token, outcome, requests, frames,
                 process, accepted, dropped>>

Announce(t) ==
  /\ pc[t] = "announcing"
  /\ frames' = Emit(run[t], outcome[t])
  /\ Goto(t, "leaving")
  /\ UNCHANGED <<store, active, run, launch, token, outcome, requests, process,
                 history>>

\* Variant: the driver removes whatever is registered for its run.
LeaveAnyGeneration(t) ==
  /\ pc[t] = "leaving"
  /\ active' = [active EXCEPT ![run[t]] = None]
  /\ Goto(t, "gone")
  /\ UNCHANGED <<store, run, launch, token, outcome, requests, frames, process,
                 history>>

(* remove_if_current compares generations under the lock.                  *)
Leave(t) ==
  LET r == run[t] IN
  /\ pc[t] = "leaving"
  /\ active' = [active EXCEPT ![r] = IF @ = t THEN None ELSE @]
  /\ Goto(t, "gone")
  /\ UNCHANGED <<store, run, launch, token, outcome, requests, frames, process,
                 history>>

(* The task of spawn_parked waits for the token and does nothing else.     *)
ReleaseHeld(t) ==
  /\ pc[t] = "held" /\ token[t]
  /\ Goto(t, "leaving")
  /\ UNCHANGED <<store, active, run, launch, token, outcome, requests, frames,
                 process, history>>
---------------------------------------------------------------------------
(* Death and restart.                                                      *)

(* Rows and journals survive; tasks, map, handlers and replay buffers      *)
(* do not.                                                                 *)
Crash ==
  /\ phase # "down" /\ crashes < MaxCrashes
  /\ phase' = "down" /\ crashes' = crashes + 1 /\ scan' = {}
  /\ active' = [r \in Runs |-> None]
  /\ pc' = [t \in Tasks |-> IF pc[t] = "free" THEN "free" ELSE "gone"]
  /\ handler' = [c \in Callers |-> "idle"]
  /\ frames' = [r \in Runs |-> <<>>]
  /\ accepted' = {} /\ dropped' = {} /\ unsettled' = {}
  /\ UNCHANGED <<store, run, launch, token, outcome, target>>

\* Variant: the scan misses rows whose driver never started.
BootWithoutQueued ==
  /\ phase = "down"
  /\ phase' = "scanning"
  /\ scan' = {r \in Runs : row[r] \in {"running", "awaiting_approval"}}
  /\ UNCHANGED <<store, active, drivers, requests, frames, crashes, history>>

\* Variant: the scan takes failed rows too.
BootWithFailed ==
  /\ phase = "down"
  /\ phase' = "scanning"
  /\ scan' = {r \in Runs : row[r] \in ActiveStatus \cup {"failed"}}
  /\ UNCHANGED <<store, active, drivers, requests, frames, crashes, history>>

(* serve calls recover_on_boot before it accepts a request; the rows are   *)
(* read once.                                                              *)
Boot ==
  /\ phase = "down"
  /\ phase' = "scanning"
  /\ scan' = {r \in Runs : row[r] \in ActiveStatus}
  /\ UNCHANGED <<store, active, drivers, requests, frames, crashes, history>>

(* The scan cannot read the rows, and recover_on_boot returns an empty     *)
(* report.                                                                 *)
BootUnread ==
  /\ StorageFails /\ phase = "down"
  /\ phase' = "scanning"
  /\ unsettled' = {r \in Runs : row[r] \in ActiveStatus}
  /\ UNCHANGED <<store, active, drivers, requests, frames, scan, crashes,
                 accepted, dropped>>

\* Variant: the recovered task is not put in the map.
RecoverUnregistered(r, t, how, place) ==
  /\ SpawnTask(t, r, how, place)
  /\ UNCHANGED <<row, active>>

Recover(r, t, how, place) ==
  /\ SpawnTask(t, r, how, place)
  /\ active' = [active EXCEPT ![r] = t]
  /\ UNCHANGED row

(* One round of the loop in recover_on_boot: an unreadable journal or a    *)
(* parked run without its ask fails the row, if the write does not fail, a *)
(* parked run is held, every other run is driven again.                    *)
RecoverRow(r) ==
  /\ phase = "scanning" /\ r \in scan
  /\ scan' = scan \ {r}
  /\ \/ /\ row' = FinishIfActive(r, "failed")
        /\ UNCHANGED <<active, drivers, unsettled>>
     \/ /\ StorageFails /\ unsettled' = unsettled \cup {r}
        /\ UNCHANGED <<row, active, drivers>>
     \/ /\ \E t \in Tasks :
             \/ row[r] = "awaiting_approval" /\ ask[r] /\ Recover(r, t, "Boot", "held")
             \/ row[r] # "awaiting_approval" /\ Recover(r, t, "Boot", "ready")
        /\ UNCHANGED unsettled
  /\ UNCHANGED <<ask, requests, frames, phase, crashes, accepted, dropped>>

Serve ==
  /\ phase = "scanning" /\ scan = {}
  /\ phase' = "serving"
  /\ UNCHANGED <<store, active, drivers, requests, frames, scan, crashes, history>>
---------------------------------------------------------------------------
DriverStep(t) ==
  \/ Prepare(t) \/ ExecuteFails(t) \/ EnterLoop(t)
  \/ NextTurn(t) \/ SeeCancel(t) \/ EndTurn(t) \/ UseTools(t) \/ FinishCalls(t)
  \/ Ask(t) \/ AskTooLate(t) \/ Park(t) \/ ParkFails(t) \/ AskRefused(t)
  \/ Settle(t) \/ SettleFails(t) \/ Announce(t) \/ Leave(t) \/ ReleaseHeld(t)

HandlerStep(c) ==
  \/ \E t \in Tasks : ResumeWrite(c, t)
  \/ ResumeUnreadable(c) \/ Register(c) \/ CancelToken(c)

Request(c) ==
  \/ \E r \in Runs, t \in Tasks : Create(c, r, t)
  \/ \E r \in Runs : ResumeCheck(c, r) \/ CancelRow(c, r)

BootStep == Boot \/ BootUnread \/ (\E r \in Runs : RecoverRow(r)) \/ Serve

Next ==
  \/ \E c \in Callers : Request(c) \/ HandlerStep(c) \/ Disconnect(c)
  \/ \E t \in Tasks : DriverStep(t)
  \/ Crash
  \/ BootStep

Spec == Init /\ [][Next]_vars

(* Tasks and handlers are scheduled by tokio and the boot sequence by the  *)
(* main task; requests, disconnects and crashes are nobody's duty.  A      *)
(* driver that opens its tools waits for a handshake that has no timeout,  *)
(* so nothing promises that it ever gets beyond opening.                   *)
Fairness ==
  /\ \A t \in Tasks : WF_vars(pc[t] # "opening" /\ DriverStep(t))
  /\ \A c \in Callers : WF_vars(HandlerStep(c))
  /\ WF_vars(BootStep)

FairSpec == Spec /\ Fairness
---------------------------------------------------------------------------
(* Properties.                                                             *)

Orphaned(r) ==
  /\ phase # "down" /\ r \notin scan
  /\ row[r] \in ActiveStatus
  /\ ~\E t \in Tasks : run[t] = r /\ pc[t] \in Owning

(* A row that reads queued, running or awaiting_approval has a task that   *)
(* will settle it, or the boot scan still has to look at it.  Only three   *)
(* things break that: a cancel whose row a driver overwrote (prepare_record*)
(* and park write without a condition), a request dropped between its row  *)
(* and its registration, and a verdict or a scan that SQLite failed.       *)
OrphansHaveACause ==
  \A r \in Runs : Orphaned(r) => r \in accepted \cup dropped \cup unsettled

(* The active map never names a task that is not alive and working for     *)
(* that run: insert, overwrite and remove_if_current keep it exact.        *)
RegisteredIsAlive ==
  \A r \in Runs : active[r] # None =>
    /\ run[active[r]] = r
    /\ pc[active[r]] \in Live \ {"waiting"}

(* Rows, map and tasks agree, however many requests there are at once.     *)
DriversAreAccountedFor == OrphansHaveACause /\ RegisteredIsAlive

(* With one request at a time a run has at most one task that may still    *)
(* write its row: nothing launches a second driver beside a live one.      *)
SoleOwner ==
  \A t, u \in Tasks :
    (pc[t] \in Owning /\ pc[u] \in Owning /\ run[t] = run[u]) => t = u

(* With one request at a time every task that can still act is the one a   *)
(* cancel finds: a driver that leaves late never takes its successor's     *)
(* registration with it.                                                   *)
OwnerIsCancellable ==
  \A t \in Tasks : pc[t] \in Owning \ {"waiting"} => active[run[t]] = t

(* A run held after a restart stays awaiting until it is cancelled.        *)
HeldStaysAwaiting ==
  \A t \in Tasks :
    (pc[t] = "held" /\ run[t] \notin accepted) => row[run[t]] = "awaiting_approval"

(* With one request at a time a run has one owner, a cancel can find it,   *)
(* and a run that waits for its person goes on waiting.                    *)
OwnershipIsSound == SoleOwner /\ OwnerIsCancellable /\ HeldStaysAwaiting

(* The first verdict wins: a terminal row is never overwritten by another  *)
(* terminal status, whoever loses the race between a cancel and a result.  *)
FirstVerdictWins ==
  [][\A r \in Runs : (row[r] \in TerminalStatus /\ row'[r] \in TerminalStatus)
       => row'[r] = row[r]]_row

(* When the cancel handler returns, every task that still acts for the run *)
(* has its token cancelled.                                                *)
CancelReachesEveryOwner ==
  [][\A c \in Callers : (handler[c] = "cancelling" /\ CancelToken(c)) =>
       \A t \in Tasks : (run[t] = target[c].run /\ pc[t] \in Owning) => token'[t]]_vars

(* A completed row is never written again.                                 *)
CompletedIsFinal ==
  [][\A r \in Runs : row[r] = "completed" => row'[r] = "completed"]_row

(* A failed row leaves that status by a resume and by nothing else.        *)
FailedOnlyResumes ==
  [][\A r \in Runs : (row[r] = "failed" /\ row'[r] # "failed") =>
       \E c \in Callers : handler[c] = "recovering" /\ target[c].run = r]_row

(* A verdict stands, whatever its owner, a cancel, a resume or the boot     *)
(* scan do afterwards, except that a failed run may be resumed.            *)
VerdictsStand == FirstVerdictWins /\ CompletedIsFinal /\ FailedOnlyResumes

(* After run_completed a stream carries at most the late run_failed of a   *)
(* driver that had failed before the resume: fail writes the row, a resume *)
(* sees it, and only then fail emits.                                      *)
OnlyLateFailuresFollowCompletion ==
  \A r \in Runs : \A i, j \in 1..Len(frames[r]) :
    (frames[r][i] = "completed" /\ i < j) => frames[r][j] = "failed"

(* An accepted run does not stay queued: it is launched, or settled, unless*)
(* SQLite fails the scan that should do it.                                *)
QueuedIsLaunched ==
  \A r \in Runs : (row[r] = "queued") ~> (row[r] # "queued" \/ r \in unsettled)

(* A driver whose token is cancelled stops acting, even parked on a human  *)
(* who never answers; but the handshake with its tools looks at no token   *)
(* and has no timeout, and may hold it for ever.                           *)
CancelledDriverStops ==
  \A t \in Tasks :
    (pc[t] \in Owning /\ token[t]) ~> (pc[t] \notin Owning \/ pc[t] = "opening")
=============================================================================
