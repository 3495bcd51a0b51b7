------------------------ MODULE RunSupervisorProofs ------------------------
(* Theorems about RunSupervisor, for any runs, tasks, callers and crashes. *)
EXTENDS RunSupervisor, TLAPS

(***************************************************************************)
(* The inductive invariant.  OrphansHaveACause and RegisteredIsAlive are   *)
(* not inductive: they rest on what a handler between two steps holds, on  *)
(* where a cancelled token can come from, and on what a restart leaves.    *)
(***************************************************************************)

(* A handler that has spawned a task is the only one to hold it, and the   *)
(* task waits for it.                                                      *)
HandlersHoldTheirTasks ==
  /\ \A c \in Callers : handler[c] = "registering" =>
       /\ target[c].task \in Tasks
       /\ pc[target[c].task] = "waiting"
       /\ run[target[c].task] = target[c].run
  /\ \A c, d \in Callers :
       (/\ handler[c] = "registering" /\ handler[d] = "registering"
        /\ target[c].task = target[d].task) => c = d

(* Only an accepted cancel cancels a token, and only a cancelled token     *)
(* makes the loop return Cancelled.                                        *)
CancelsAreAccepted ==
  /\ \A c \in Callers : handler[c] = "cancelling" => target[c].run \in accepted
  /\ \A t \in Tasks : (pc[t] \in Live /\ token[t]) => run[t] \in accepted
  /\ \A t \in Tasks : pc[t] = "free" => ~token[t]
  /\ \A t \in Tasks : (pc[t] \in {"closing", "announcing"} /\ outcome[t] = "cancelled")
                        => run[t] \in accepted

(* A task that is alive works for a run; before the process serves there   *)
(* are no handlers, and while it is down there are no tasks.               *)
ProcessOwnsItsTasks ==
  /\ \A t \in Tasks : pc[t] \in Live => run[t] \in Runs
  /\ phase # "serving" => \A c \in Callers : handler[c] = "idle"
  /\ phase = "down" => /\ \A t \in Tasks : pc[t] \in {"free", "gone"}
                       /\ scan = {}

IndInv ==
  /\ TypeOK
  /\ HandlersHoldTheirTasks
  /\ CancelsAreAccepted
  /\ ProcessOwnsItsTasks
  /\ RegisteredIsAlive
  /\ OrphansHaveACause
---------------------------------------------------------------------------
(* Types.                                                                  *)

(* What the two writers of the status column return is a status column.    *)
LEMMA WritersType ==
  ASSUME TypeOK, NEW r, NEW s \in Status
  PROVE  /\ UpdateStatus(r, s) \in [Runs -> Status]
         /\ FinishIfActive(r, s) \in [Runs -> Status]
  BY DEF TypeOK, UpdateStatus, FinishIfActive

(* A frame may be added to any stream.                                     *)
LEMMA EmitType ==
  ASSUME TypeOK, NEW r, NEW f \in Frame
  PROVE  Emit(r, f) \in [Runs -> Seq(Frame)]
<1>1. CASE r \in Runs
  <2>1. Append(frames[r], f) \in Seq(Frame)
    BY <1>1 DEF TypeOK
  <2> QED
    BY <2>1 DEF TypeOK, Emit
<1>2. CASE r \notin Runs
  BY <1>2 DEF TypeOK, Emit
<1> QED
  BY <1>1, <1>2

(* Every step keeps the types.                                             *)
LEMMA TypeStep ==
  IndInv /\ [Next]_vars => TypeOK'
<1> SUFFICES ASSUME TypeOK, ProcessOwnsItsTasks, [Next]_vars
             PROVE  TypeOK'
  BY DEF IndInv
<1> USE DEF TypeOK, store, drivers, requests, process, history
<1>1. ASSUME NEW c \in Callers, Request(c)
      PROVE  TypeOK'
  <2>1. ASSUME NEW r \in Runs, NEW t \in Tasks, Create(c, r, t)
        PROVE  TypeOK'
    BY <2>1 DEF Create, SpawnTask, Status, ActiveStatus, Live, Owning
  <2>2. ASSUME NEW r \in Runs, ResumeCheck(c, r)
        PROVE  TypeOK'
    BY <2>2 DEF ResumeCheck
  <2>3. ASSUME NEW r \in Runs, CancelRow(c, r)
        PROVE  TypeOK'
    <3>1. row' \in [Runs -> Status]
      BY <2>3, WritersType DEF CancelRow, Status, TerminalStatus
    <3> QED
      BY <2>3, <3>1 DEF CancelRow
  <2> QED
    BY <1>1, <2>1, <2>2, <2>3 DEF Request
<1>2. ASSUME NEW c \in Callers, HandlerStep(c)
      PROVE  TypeOK'
  <2>1. ASSUME NEW t \in Tasks, ResumeWrite(c, t)
        PROVE  TypeOK'
    <3>1. row' \in [Runs -> Status]
      BY <2>1, WritersType DEF ResumeWrite, Status, ActiveStatus
    <3> QED
      BY <2>1, <3>1 DEF ResumeWrite, SpawnTask, Live, Owning
  <2>2. CASE ResumeUnreadable(c)
    BY <2>2 DEF ResumeUnreadable
  <2>3. CASE Register(c)
    BY <2>3 DEF Register, Goto, Live, Owning, Driving
  <2>4. CASE CancelToken(c)
    BY <2>4 DEF CancelToken
  <2> QED
    BY <1>2, <2>1, <2>2, <2>3, <2>4 DEF HandlerStep
<1>3. ASSUME NEW c \in Callers, Disconnect(c)
      PROVE  TypeOK'
  BY <1>3 DEF Disconnect
<1>4. ASSUME NEW t \in Tasks, DriverStep(t)
      PROVE  TypeOK'
  <2> USE DEF Goto, Live, Owning, Driving
  <2>1. CASE Prepare(t)
    <3>1. row' \in [Runs -> Status]
      BY <2>1, WritersType DEF Prepare, Status, ActiveStatus
    <3>2. frames' \in [Runs -> Seq(Frame)]
      BY <2>1, EmitType DEF Prepare, Frame
    <3> QED
      BY <2>1, <3>1, <3>2 DEF Prepare
  <2>2. CASE ExecuteFails(t)
    BY <2>2 DEF ExecuteFails, Return, TerminalStatus
  <2>3. CASE EnterLoop(t) \/ NextTurn(t) \/ UseTools(t) \/ ReleaseHeld(t)
    BY <2>3 DEF EnterLoop, NextTurn, UseTools, ReleaseHeld
  <2>4. CASE SeeCancel(t) \/ EndTurn(t)
    BY <2>4 DEF SeeCancel, EndTurn, Return, TerminalStatus
  <2>5. CASE FinishCalls(t) \/ Ask(t) \/ AskTooLate(t) \/ AskRefused(t) \/ ParkFails(t)
    BY <2>5 DEF FinishCalls, Ask, AskTooLate, AskRefused, ParkFails, Rival, TerminalStatus
  <2>6. CASE Park(t)
    <3>1. row' \in [Runs -> Status]
      BY <2>6, WritersType DEF Park, Status, ActiveStatus
    <3>2. frames' \in [Runs -> Seq(Frame)]
      BY <2>6, EmitType DEF Park, Frame
    <3> QED
      BY <2>6, <3>1, <3>2 DEF Park
  <2>7. CASE Settle(t)
    <3>1. FinishIfActive(run[t], outcome[t]) \in [Runs -> Status]
      BY WritersType DEF Status
    <3>2. row' \in [Runs -> Status]
      BY <2>7, <3>1 DEF Settle
    <3> QED
      BY <2>7, <3>2 DEF Settle
  <2>8. CASE Announce(t)
    <3>1. frames' \in [Runs -> Seq(Frame)]
      BY <2>8, EmitType DEF Announce, Frame, TerminalStatus
    <3> QED
      BY <2>8, <3>1 DEF Announce
  <2>9. CASE Leave(t)
    BY <2>9 DEF Leave
  <2>10. CASE SettleFails(t)
    BY <2>10 DEF SettleFails, ProcessOwnsItsTasks
  <2> QED
    BY <1>4, <2>1, <2>2, <2>3, <2>4, <2>5, <2>6, <2>7, <2>8, <2>9, <2>10 DEF DriverStep
<1>5. CASE Crash
  BY <1>5, SupervisorAssumption DEF Crash
<1>6. CASE BootStep
  <2>1. CASE Boot \/ BootUnread
    BY <2>1 DEF Boot, BootUnread
  <2>2. ASSUME NEW r \in Runs, RecoverRow(r)
        PROVE  TypeOK'
    <3>1. FinishIfActive(r, "failed") \in [Runs -> Status]
      BY WritersType DEF Status, TerminalStatus
    <3>2. row' \in [Runs -> Status]
      BY <2>2, <3>1 DEF RecoverRow, Recover
    <3>3. CASE UNCHANGED <<active, drivers>>
      BY <2>2, <3>2, <3>3 DEF RecoverRow
    <3>4. ASSUME NEW t \in Tasks, NEW place \in {"held", "ready"},
                 Recover(r, t, "Boot", place)
          PROVE  TypeOK'
      BY <2>2, <3>2, <3>4 DEF RecoverRow, Recover, SpawnTask, Live, Owning, Driving
    <3> QED
      BY <2>2, <3>3, <3>4 DEF RecoverRow
  <2>3. CASE Serve
    BY <2>3 DEF Serve
  <2> QED
    BY <1>6, <2>1, <2>2, <2>3 DEF BootStep
<1>7. CASE UNCHANGED vars
  BY <1>7 DEF vars
<1> QED
  BY <1>1, <1>2, <1>3, <1>4, <1>5, <1>6, <1>7 DEF Next
---------------------------------------------------------------------------
(* The parts of the invariant, one lemma each.                             *)

(* What the steps of a driver have in common: it is started and alive, it  *)
(* moves itself alone, it unregisters itself when it goes, and it leaves   *)
(* the handlers and the process alone.                                     *)
LEMMA DriverMoves ==
  ASSUME TypeOK, NEW t \in Tasks, DriverStep(t)
  PROVE  /\ pc[t] \in Live \ {"waiting"}
         /\ \/ \E place \in Live \ {"waiting"} : Goto(t, place) /\ active' = active
            \/ Leave(t)
         /\ UNCHANGED <<run, launch, token, requests, process, accepted, dropped>>
         /\ unsettled \subseteq unsettled'
<1> USE DEF Live, Owning, Driving, Goto, Return, history
<1>1. CASE Prepare(t) \/ Park(t) \/ Announce(t)
  BY <1>1 DEF Prepare, Park, Announce
<1>2. CASE ExecuteFails(t) \/ SeeCancel(t) \/ EndTurn(t)
  BY <1>2 DEF ExecuteFails, SeeCancel, EndTurn
<1>3. CASE EnterLoop(t) \/ NextTurn(t) \/ UseTools(t) \/ ReleaseHeld(t)
  BY <1>3 DEF EnterLoop, NextTurn, UseTools, ReleaseHeld
<1>4. CASE FinishCalls(t) \/ Ask(t) \/ AskTooLate(t) \/ AskRefused(t) \/ ParkFails(t)
  BY <1>4 DEF FinishCalls, Ask, AskTooLate, AskRefused, ParkFails
<1>5. CASE Settle(t) \/ SettleFails(t)
  BY <1>5 DEF Settle, SettleFails
<1>6. CASE Leave(t)
  BY <1>6 DEF Leave
<1> QED
  BY <1>1, <1>2, <1>3, <1>4, <1>5, <1>6 DEF DriverStep

(* A spawned task stays with its handler until it is registered.          *)
LEMMA HandlersStep ==
  IndInv /\ [Next]_vars => HandlersHoldTheirTasks'
<1> SUFFICES ASSUME IndInv, [Next]_vars
             PROVE  HandlersHoldTheirTasks'
  OBVIOUS
<1> USE DEF IndInv, TypeOK, HandlersHoldTheirTasks, ProcessOwnsItsTasks, store, drivers, requests, process,
            history, Live, Owning, Driving
<1>1. ASSUME NEW c \in Callers, NEW r \in Runs, NEW t \in Tasks, Create(c, r, t)
      PROVE  HandlersHoldTheirTasks'
  BY <1>1 DEF Create, SpawnTask
<1>2. ASSUME NEW c \in Callers, NEW r \in Runs, ResumeCheck(c, r)
      PROVE  HandlersHoldTheirTasks'
  BY <1>2 DEF ResumeCheck
<1>3. ASSUME NEW c \in Callers, NEW r \in Runs, CancelRow(c, r)
      PROVE  HandlersHoldTheirTasks'
  BY <1>3 DEF CancelRow
<1>4. ASSUME NEW c \in Callers, NEW t \in Tasks, ResumeWrite(c, t)
      PROVE  HandlersHoldTheirTasks'
  BY <1>4 DEF ResumeWrite, SpawnTask
<1>5. ASSUME NEW c \in Callers, ResumeUnreadable(c)
      PROVE  HandlersHoldTheirTasks'
  BY <1>5 DEF ResumeUnreadable
<1>6. ASSUME NEW c \in Callers, Register(c)
      PROVE  HandlersHoldTheirTasks'
  BY <1>6 DEF Register, Goto
<1>7. ASSUME NEW c \in Callers, CancelToken(c)
      PROVE  HandlersHoldTheirTasks'
  BY <1>7 DEF CancelToken
<1>8. ASSUME NEW c \in Callers, Disconnect(c)
      PROVE  HandlersHoldTheirTasks'
  BY <1>8 DEF Disconnect
<1>9. ASSUME NEW t \in Tasks, DriverStep(t)
      PROVE  HandlersHoldTheirTasks'
  <2>1. ASSUME NEW place \in Live \ {"waiting"}, Goto(t, place), active' = active
        PROVE  HandlersHoldTheirTasks'
    BY <1>9, <2>1, DriverMoves DEF Goto
  <2>2. CASE Leave(t)
    BY <1>9, <2>2, DriverMoves DEF Leave, Goto
  <2> QED
    BY <1>9, <2>1, <2>2, DriverMoves
<1>10. CASE Crash
  BY <1>10 DEF Crash
<1>11. CASE Boot \/ BootUnread
  BY <1>11 DEF Boot, BootUnread
<1>12. ASSUME NEW r \in Runs, RecoverRow(r)
       PROVE  HandlersHoldTheirTasks'
  BY <1>12 DEF RecoverRow, Recover, SpawnTask
<1>13. CASE Serve
  BY <1>13 DEF Serve
<1>14. CASE UNCHANGED vars
  BY <1>14 DEF vars
<1> QED
  BY <1>1, <1>2, <1>3, <1>4, <1>5, <1>6, <1>7, <1>8, <1>9, <1>10, <1>11, <1>12,
     <1>13, <1>14 DEF Next, Request, HandlerStep, BootStep

(* Tokens and cancelled outcomes come from accepted cancels.              *)
LEMMA CancelsStep ==
  IndInv /\ [Next]_vars => CancelsAreAccepted'
<1> SUFFICES ASSUME IndInv, [Next]_vars
             PROVE  CancelsAreAccepted'
  OBVIOUS
<1> USE DEF IndInv, TypeOK, HandlersHoldTheirTasks, CancelsAreAccepted, ProcessOwnsItsTasks, RegisteredIsAlive, store, drivers, requests, process,
            history, Live, Owning, Driving
<1>1. ASSUME NEW c \in Callers, NEW r \in Runs, NEW t \in Tasks, Create(c, r, t)
      PROVE  CancelsAreAccepted'
  BY <1>1 DEF Create, SpawnTask
<1>2. ASSUME NEW c \in Callers, NEW r \in Runs, ResumeCheck(c, r)
      PROVE  CancelsAreAccepted'
  BY <1>2 DEF ResumeCheck
<1>3. ASSUME NEW c \in Callers, NEW r \in Runs, CancelRow(c, r)
      PROVE  CancelsAreAccepted'
  BY <1>3 DEF CancelRow
<1>4. ASSUME NEW c \in Callers, NEW t \in Tasks, ResumeWrite(c, t)
      PROVE  CancelsAreAccepted'
  BY <1>4 DEF ResumeWrite, SpawnTask
<1>5. ASSUME NEW c \in Callers, ResumeUnreadable(c)
      PROVE  CancelsAreAccepted'
  BY <1>5 DEF ResumeUnreadable
<1>6. ASSUME NEW c \in Callers, Register(c)
      PROVE  CancelsAreAccepted'
  BY <1>6 DEF Register, Goto
<1>7. ASSUME NEW c \in Callers, CancelToken(c)
      PROVE  CancelsAreAccepted'
  <2> DEFINE r == target[c].run
  <2>1. /\ r \in Runs \cap accepted
        /\ token' = [u \in Tasks |-> token[u] \/ u = active[r]]
        /\ UNCHANGED <<pc, run, outcome, target, accepted>>
        /\ handler' = [handler EXCEPT ![c] = "idle"]
    BY <1>7 DEF CancelToken
  <2>2. ASSUME NEW u \in Tasks, u = active[r]
        PROVE  run[u] \in accepted /\ pc[u] # "free"
    <3> HIDE DEF r
    <3>1. active[r] # None
      BY <2>2, SupervisorAssumption
    <3>2. run[u] = r /\ pc[u] \in Live
      BY <2>1, <2>2, <3>1
    <3> QED
      BY <2>1, <3>2
  <2> QED
    BY <2>1, <2>2
<1>8. ASSUME NEW c \in Callers, Disconnect(c)
      PROVE  CancelsAreAccepted'
  BY <1>8 DEF Disconnect
<1>9. ASSUME NEW t \in Tasks, DriverStep(t)
      PROVE  CancelsAreAccepted'
  <2> USE DEF Goto, Return
  <2>1. CASE Prepare(t)
    BY <2>1 DEF Prepare
  <2>2. CASE ExecuteFails(t) \/ SeeCancel(t) \/ EndTurn(t)
    <3>1. CASE ExecuteFails(t)
      BY <3>1 DEF ExecuteFails
    <3>2. CASE SeeCancel(t)
      BY <3>2 DEF SeeCancel
    <3>3. CASE EndTurn(t)
      BY <3>3 DEF EndTurn
    <3> QED
      BY <2>2, <3>1, <3>2, <3>3
  <2>3. CASE EnterLoop(t) \/ NextTurn(t) \/ UseTools(t)
    BY <2>3 DEF EnterLoop, NextTurn, UseTools
  <2>4. CASE FinishCalls(t) \/ Ask(t) \/ AskTooLate(t) \/ AskRefused(t)
    BY <2>4 DEF FinishCalls, Ask, AskTooLate, AskRefused
  <2>5. CASE Park(t) \/ ParkFails(t)
    BY <2>5 DEF Park, ParkFails
  <2>6. CASE Settle(t) \/ SettleFails(t)
    BY <2>6 DEF Settle, SettleFails
  <2>7. CASE Announce(t)
    BY <2>7 DEF Announce
  <2>8. CASE Leave(t)
    BY <2>8 DEF Leave
  <2>9. CASE ReleaseHeld(t)
    BY <2>9 DEF ReleaseHeld
  <2> QED
    BY <1>9, <2>1, <2>2, <2>3, <2>4, <2>5, <2>6, <2>7, <2>8, <2>9 DEF DriverStep
<1>10. CASE Crash
  BY <1>10 DEF Crash
<1>11. CASE Boot \/ BootUnread
  BY <1>11 DEF Boot, BootUnread
<1>12. ASSUME NEW r \in Runs, RecoverRow(r)
       PROVE  CancelsAreAccepted'
  <2>1. CASE UNCHANGED <<active, drivers>>
    BY <1>12, <2>1 DEF RecoverRow
  <2>2. ASSUME NEW t \in Tasks, NEW place \in {"held", "ready"},
               Recover(r, t, "Boot", place)
        PROVE  CancelsAreAccepted'
    <3>1. UNCHANGED <<handler, target, accepted>>
      BY <1>12 DEF RecoverRow
    <3> QED
      BY <2>2, <3>1 DEF Recover, SpawnTask
  <2> QED
    BY <1>12, <2>1, <2>2 DEF RecoverRow
<1>13. CASE Serve
  BY <1>13 DEF Serve
<1>14. CASE UNCHANGED vars
  BY <1>14 DEF vars
<1> QED
  BY <1>1, <1>2, <1>3, <1>4, <1>5, <1>6, <1>7, <1>8, <1>9, <1>10, <1>11, <1>12,
     <1>13, <1>14 DEF Next, Request, HandlerStep, BootStep

(* Tasks have runs, and restarts leave neither tasks nor handlers.        *)
LEMMA ProcessStep ==
  IndInv /\ [Next]_vars => ProcessOwnsItsTasks'
<1> SUFFICES ASSUME IndInv, [Next]_vars
             PROVE  ProcessOwnsItsTasks'
  OBVIOUS
<1> USE DEF IndInv, TypeOK, HandlersHoldTheirTasks, ProcessOwnsItsTasks, store, drivers, requests, process,
            history, Live, Owning, Driving
<1>1. ASSUME NEW c \in Callers, NEW r \in Runs, NEW t \in Tasks, Create(c, r, t)
      PROVE  ProcessOwnsItsTasks'
  BY <1>1 DEF Create, SpawnTask
<1>2. ASSUME NEW c \in Callers, NEW r \in Runs, ResumeCheck(c, r)
      PROVE  ProcessOwnsItsTasks'
  BY <1>2 DEF ResumeCheck
<1>3. ASSUME NEW c \in Callers, NEW r \in Runs, CancelRow(c, r)
      PROVE  ProcessOwnsItsTasks'
  BY <1>3 DEF CancelRow
<1>4. ASSUME NEW c \in Callers, NEW t \in Tasks, ResumeWrite(c, t)
      PROVE  ProcessOwnsItsTasks'
  BY <1>4 DEF ResumeWrite, SpawnTask
<1>5. ASSUME NEW c \in Callers, ResumeUnreadable(c)
      PROVE  ProcessOwnsItsTasks'
  BY <1>5 DEF ResumeUnreadable
<1>6. ASSUME NEW c \in Callers, Register(c)
      PROVE  ProcessOwnsItsTasks'
  BY <1>6 DEF Register, Goto
<1>7. ASSUME NEW c \in Callers, CancelToken(c)
      PROVE  ProcessOwnsItsTasks'
  BY <1>7 DEF CancelToken
<1>8. ASSUME NEW c \in Callers, Disconnect(c)
      PROVE  ProcessOwnsItsTasks'
  BY <1>8 DEF Disconnect
<1>9. ASSUME NEW t \in Tasks, DriverStep(t)
      PROVE  ProcessOwnsItsTasks'
  <2>1. ASSUME NEW place \in Live \ {"waiting"}, Goto(t, place), active' = active
        PROVE  ProcessOwnsItsTasks'
    BY <1>9, <2>1, DriverMoves DEF Goto
  <2>2. CASE Leave(t)
    BY <1>9, <2>2, DriverMoves DEF Leave, Goto
  <2> QED
    BY <1>9, <2>1, <2>2, DriverMoves
<1>10. CASE Crash
  BY <1>10 DEF Crash
<1>11. CASE Boot \/ BootUnread
  BY <1>11 DEF Boot, BootUnread
<1>12. ASSUME NEW r \in Runs, RecoverRow(r)
       PROVE  ProcessOwnsItsTasks'
  BY <1>12 DEF RecoverRow, Recover, SpawnTask
<1>13. CASE Serve
  BY <1>13 DEF Serve
<1>14. CASE UNCHANGED vars
  BY <1>14 DEF vars
<1> QED
  BY <1>1, <1>2, <1>3, <1>4, <1>5, <1>6, <1>7, <1>8, <1>9, <1>10, <1>11, <1>12,
     <1>13, <1>14 DEF Next, Request, HandlerStep, BootStep

(* The map stays exact.                                                   *)
LEMMA RegisteredStep ==
  IndInv /\ [Next]_vars => RegisteredIsAlive'
<1> SUFFICES ASSUME IndInv, [Next]_vars
             PROVE  RegisteredIsAlive'
  OBVIOUS
<1> USE DEF IndInv, TypeOK, HandlersHoldTheirTasks, ProcessOwnsItsTasks, RegisteredIsAlive, store, drivers, requests, process,
            history, Live, Owning, Driving
<1>1. ASSUME NEW c \in Callers, NEW r \in Runs, NEW t \in Tasks, Create(c, r, t)
      PROVE  RegisteredIsAlive'
  BY <1>1 DEF Create, SpawnTask
<1>2. ASSUME NEW c \in Callers, NEW r \in Runs, ResumeCheck(c, r)
      PROVE  RegisteredIsAlive'
  BY <1>2 DEF ResumeCheck
<1>3. ASSUME NEW c \in Callers, NEW r \in Runs, CancelRow(c, r)
      PROVE  RegisteredIsAlive'
  BY <1>3 DEF CancelRow
<1>4. ASSUME NEW c \in Callers, NEW t \in Tasks, ResumeWrite(c, t)
      PROVE  RegisteredIsAlive'
  BY <1>4 DEF ResumeWrite, SpawnTask
<1>5. ASSUME NEW c \in Callers, ResumeUnreadable(c)
      PROVE  RegisteredIsAlive'
  BY <1>5 DEF ResumeUnreadable
<1>6. ASSUME NEW c \in Callers, Register(c)
      PROVE  RegisteredIsAlive'
  BY <1>6 DEF Register, Goto
<1>7. ASSUME NEW c \in Callers, CancelToken(c)
      PROVE  RegisteredIsAlive'
  BY <1>7 DEF CancelToken
<1>8. ASSUME NEW c \in Callers, Disconnect(c)
      PROVE  RegisteredIsAlive'
  BY <1>8 DEF Disconnect
<1>9. ASSUME NEW t \in Tasks, DriverStep(t)
      PROVE  RegisteredIsAlive'
  <2>1. ASSUME NEW place \in Live \ {"waiting"}, Goto(t, place), active' = active
        PROVE  RegisteredIsAlive'
    BY <1>9, <2>1, DriverMoves DEF Goto
  <2>2. CASE Leave(t)
    BY <1>9, <2>2, DriverMoves DEF Leave, Goto
  <2> QED
    BY <1>9, <2>1, <2>2, DriverMoves
<1>10. CASE Crash
  BY <1>10 DEF Crash
<1>11. CASE Boot \/ BootUnread
  BY <1>11 DEF Boot, BootUnread
<1>12. ASSUME NEW r \in Runs, RecoverRow(r)
       PROVE  RegisteredIsAlive'
  <2>1. CASE UNCHANGED <<active, drivers>>
    BY <1>12, <2>1 DEF RecoverRow
  <2>2. ASSUME NEW t \in Tasks, NEW place \in {"held", "ready"},
               Recover(r, t, "Boot", place)
        PROVE  RegisteredIsAlive'
    <3>1. UNCHANGED <<handler, target, accepted>>
      BY <1>12 DEF RecoverRow
    <3> QED
      BY <2>2, <3>1 DEF Recover, SpawnTask
  <2> QED
    BY <1>12, <2>1, <2>2 DEF RecoverRow
<1>13. CASE Serve
  BY <1>13 DEF Serve
<1>14. CASE UNCHANGED vars
  BY <1>14 DEF vars
<1> QED
  BY <1>1, <1>2, <1>3, <1>4, <1>5, <1>6, <1>7, <1>8, <1>9, <1>10, <1>11, <1>12,
     <1>13, <1>14 DEF Next, Request, HandlerStep, BootStep

(* A step that takes no owner away from a live run and leaves its row      *)
(* alive and the scan's interest in it alone makes no new orphan.          *)
LEMMA OwnedStaysOwned ==
  ASSUME OrphansHaveACause, NEW r \in Runs,
         phase # "down", r \notin scan, row[r] \in ActiveStatus,
         \A t \in Tasks : (run[t] = r /\ pc[t] \in Owning) =>
           (run'[t] = r /\ pc'[t] \in Owning),
         accepted \subseteq accepted', dropped \subseteq dropped',
         unsettled \subseteq unsettled',
         Orphaned(r)'
  PROVE  r \in accepted' \cup dropped' \cup unsettled'
  BY DEF OrphansHaveACause, Orphaned

(* An orphaned row always has one of the three known causes.               *)
LEMMA OrphansStep ==
  IndInv /\ [Next]_vars => OrphansHaveACause'
<1> SUFFICES ASSUME IndInv, [Next]_vars, NEW r \in Runs, Orphaned(r)'
             PROVE  r \in accepted' \cup dropped' \cup unsettled'
  BY DEF OrphansHaveACause
<1> USE DEF IndInv, TypeOK, store, drivers, requests, process, history, Owning, Driving
<1>1. ASSUME NEW c \in Callers, NEW q \in Runs, NEW t \in Tasks, Create(c, q, t)
      PROVE  r \in accepted' \cup dropped' \cup unsettled'
  <2>1. CASE q = r
    BY <1>1, <2>1 DEF Create, SpawnTask, Orphaned
  <2>2. CASE q # r
    BY <1>1, <2>2, OwnedStaysOwned DEF Create, SpawnTask, Orphaned
  <2> QED
    BY <2>1, <2>2
<1>2. ASSUME NEW c \in Callers, NEW q \in Runs, ResumeCheck(c, q)
      PROVE  r \in accepted' \cup dropped' \cup unsettled'
  BY <1>2, OwnedStaysOwned DEF ResumeCheck, Orphaned
<1>3. ASSUME NEW c \in Callers, NEW q \in Runs, CancelRow(c, q)
      PROVE  r \in accepted' \cup dropped' \cup unsettled'
  BY <1>3, OwnedStaysOwned DEF CancelRow, Orphaned, FinishIfActive
<1>4. ASSUME NEW c \in Callers, NEW t \in Tasks, ResumeWrite(c, t)
      PROVE  r \in accepted' \cup dropped' \cup unsettled'
  <2>1. CASE target[c].run = r
    BY <1>4, <2>1 DEF ResumeWrite, SpawnTask, Orphaned
  <2>2. CASE target[c].run # r
    BY <1>4, <2>2, OwnedStaysOwned DEF ResumeWrite, SpawnTask, UpdateStatus, Orphaned
  <2> QED
    BY <2>1, <2>2
<1>5. ASSUME NEW c \in Callers, ResumeUnreadable(c) \/ CancelToken(c)
      PROVE  r \in accepted' \cup dropped' \cup unsettled'
  BY <1>5, OwnedStaysOwned DEF ResumeUnreadable, CancelToken, Orphaned
<1>6. ASSUME NEW c \in Callers, Register(c)
      PROVE  r \in accepted' \cup dropped' \cup unsettled'
  BY <1>6, OwnedStaysOwned DEF Register, Goto, Orphaned
<1>7. ASSUME NEW c \in Callers, Disconnect(c)
      PROVE  r \in accepted' \cup dropped' \cup unsettled'
  <2>1. CASE handler[c] = "registering" /\ target[c].run = r
    BY <1>7, <2>1 DEF Disconnect
  <2>2. CASE handler[c] = "registering" /\ target[c].run # r
    BY <1>7, <2>2, OwnedStaysOwned DEF Disconnect, Orphaned, HandlersHoldTheirTasks
  <2>3. CASE handler[c] # "registering"
    BY <1>7, <2>3, OwnedStaysOwned DEF Disconnect, Orphaned
  <2> QED
    BY <2>1, <2>2, <2>3
<1>8. ASSUME NEW t \in Tasks, DriverStep(t)
      PROVE  r \in accepted' \cup dropped' \cup unsettled'
  <2> USE DEF Goto, Return
  <2>1. CASE Prepare(t) \/ Park(t)
    <3>1. CASE run[t] = r
      BY <2>1, <3>1 DEF Prepare, Park, Orphaned
    <3>2. CASE run[t] # r
      BY <2>1, <3>2, OwnedStaysOwned DEF Prepare, Park, UpdateStatus, Orphaned
    <3> QED
      BY <3>1, <3>2
  <2>2. CASE ExecuteFails(t) \/ SeeCancel(t) \/ EndTurn(t)
    BY <2>2, OwnedStaysOwned DEF ExecuteFails, SeeCancel, EndTurn, Orphaned
  <2>3. CASE EnterLoop(t) \/ NextTurn(t) \/ UseTools(t)
    BY <2>3, OwnedStaysOwned DEF EnterLoop, NextTurn, UseTools, Orphaned
  <2>4. CASE FinishCalls(t) \/ Ask(t) \/ AskTooLate(t) \/ AskRefused(t) \/ ParkFails(t)
    BY <2>4, OwnedStaysOwned
       DEF FinishCalls, Ask, AskTooLate, AskRefused, ParkFails, Orphaned
  <2>5. CASE Settle(t)
    <3>1. CASE outcome[t] = "cancelled" /\ run[t] = r
      BY <2>5, <3>1 DEF Settle, CancelsAreAccepted
    <3>2. CASE outcome[t] # "cancelled" /\ run[t] = r
      BY <2>5, <3>2 DEF Settle, FinishIfActive, Orphaned, ActiveStatus, TerminalStatus
    <3>3. CASE run[t] # r
      BY <2>5, <3>3, OwnedStaysOwned DEF Settle, FinishIfActive, Orphaned
    <3> QED
      BY <3>1, <3>2, <3>3
  <2>6. CASE Announce(t) \/ Leave(t)
    BY <2>6, OwnedStaysOwned DEF Announce, Leave, Orphaned
  <2>7. CASE ReleaseHeld(t)
    <3>1. CASE run[t] = r
      BY <2>7, <3>1 DEF ReleaseHeld, CancelsAreAccepted, Live
    <3>2. CASE run[t] # r
      BY <2>7, <3>2, OwnedStaysOwned DEF ReleaseHeld, Orphaned
    <3> QED
      BY <3>1, <3>2
  <2>8. CASE SettleFails(t)
    <3>1. CASE run[t] = r
      BY <2>8, <3>1 DEF SettleFails
    <3>2. CASE run[t] # r
      BY <2>8, <3>2, OwnedStaysOwned DEF SettleFails, Orphaned
    <3> QED
      BY <3>1, <3>2
  <2> QED
    BY <1>8, <2>1, <2>2, <2>3, <2>4, <2>5, <2>6, <2>7, <2>8 DEF DriverStep
<1>9. CASE Crash \/ Boot \/ BootUnread
  BY <1>9 DEF Crash, Boot, BootUnread, Orphaned
<1>10. ASSUME NEW q \in Runs, RecoverRow(q)
       PROVE  r \in accepted' \cup dropped' \cup unsettled'
  <2>0. CASE UNCHANGED <<row, active, drivers>> /\ unsettled' = unsettled \cup {q}
    BY <1>10, <2>0, OwnedStaysOwned DEF RecoverRow, Orphaned
  <2>1. CASE row' = FinishIfActive(q, "failed") /\ UNCHANGED <<active, drivers, unsettled>>
    <3>1. CASE q = r
      BY <1>10, <2>1, <3>1 DEF RecoverRow, FinishIfActive, Orphaned, ActiveStatus
    <3>2. CASE q # r
      BY <1>10, <2>1, <3>2, OwnedStaysOwned DEF RecoverRow, FinishIfActive, Orphaned
    <3> QED
      BY <3>1, <3>2
  <2>2. ASSUME NEW t \in Tasks, NEW place \in {"held", "ready"},
               Recover(q, t, "Boot", place), unsettled' = unsettled
        PROVE  r \in accepted' \cup dropped' \cup unsettled'
    <3>1. phase = "scanning" /\ scan' = scan \ {q} /\ UNCHANGED <<accepted, dropped>>
      BY <1>10 DEF RecoverRow
    <3>2. CASE q = r
      BY <2>2, <3>2 DEF Recover, SpawnTask, Orphaned
    <3>3. CASE q # r
      BY <2>2, <3>1, <3>3, OwnedStaysOwned DEF Recover, SpawnTask, Orphaned
    <3> QED
      BY <3>2, <3>3
  <2> QED
    BY <1>10, <2>0, <2>1, <2>2 DEF RecoverRow
<1>11. CASE Serve \/ UNCHANGED vars
  BY <1>11, OwnedStaysOwned DEF Serve, vars, Orphaned
<1> QED
  BY <1>1, <1>2, <1>3, <1>4, <1>5, <1>6, <1>7, <1>8, <1>9, <1>10, <1>11
     DEF Next, Request, HandlerStep, BootStep

(* The invariant holds initially and every step keeps it.                  *)
LEMMA Inductive == Spec => []IndInv
<1>1. Init => IndInv
  BY SupervisorAssumption
     DEF Init, IndInv, TypeOK, HandlersHoldTheirTasks, CancelsAreAccepted,
         ProcessOwnsItsTasks, RegisteredIsAlive, OrphansHaveACause, Orphaned,
         Status, ActiveStatus, TerminalStatus, Live, Owning, Driving, Frame
<1>2. IndInv /\ [Next]_vars => IndInv'
  BY TypeStep, HandlersStep, CancelsStep, ProcessStep, RegisteredStep, OrphansStep
     DEF IndInv
<1> QED
  BY <1>1, <1>2, PTL DEF Spec

(* Every state the supervisor reaches is well typed.                       *)
THEOREM TypeCorrect == Spec => []TypeOK
<1>1. IndInv => TypeOK
  BY DEF IndInv
<1> QED
  BY <1>1, Inductive, PTL

(* However many handlers, crashes and dropped requests there are, a live   *)
(* row without a task had its cancel overwritten, its request dropped, or  *)
(* its verdict lost by SQLite.                                             *)
THEOREM OrphansAlwaysHaveACause == Spec => []OrphansHaveACause
<1>1. IndInv => OrphansHaveACause
  BY DEF IndInv
<1> QED
  BY <1>1, Inductive, PTL

(* The map of active runs never names a dead task or another run's.        *)
THEOREM MapIsExact == Spec => []RegisteredIsAlive
<1>1. IndInv => RegisteredIsAlive
  BY DEF IndInv
<1> QED
  BY <1>1, Inductive, PTL

(* The rows, the map of active runs and the tasks agree, up to the three   *)
(* causes by which the supervisor can lose a run.                          *)
THEOREM DriversAreAlwaysAccountedFor == Spec => []DriversAreAccountedFor
  BY OrphansAlwaysHaveACause, MapIsExact, PTL DEF DriversAreAccountedFor

(* Neither writer of the status column changes one verdict into another:   *)
(* the unconditional one writes live states, the conditional one skips     *)
(* rows that are over.                                                     *)
LEMMA WritersKeepVerdicts ==
  ASSUME TypeOK, NEW q \in Runs, NEW r \in Runs, row[r] \in TerminalStatus
  PROVE  /\ \A s \in ActiveStatus : UpdateStatus(q, s)[r] \in {row[r], s}
         /\ \A s \in TerminalStatus : FinishIfActive(q, s)[r] = row[r]
  BY DEF TypeOK, UpdateStatus, FinishIfActive, TerminalStatus, ActiveStatus

(* Whoever loses the race between a cancel, a result and a failure leaves  *)
(* the winner's verdict in the row.                                        *)
THEOREM VerdictsAreFirstCome == Spec => FirstVerdictWins
<1>1. ASSUME TypeOK, [Next]_vars, NEW r \in Runs,
             row[r] \in TerminalStatus, row'[r] \in TerminalStatus
      PROVE  row'[r] = row[r]
  <2> USE <1>1 DEF TypeOK, store
  <2>1. CASE row' = row
    BY <2>1
  <2>2. ASSUME NEW q \in Runs, NEW s \in ActiveStatus, row' = UpdateStatus(q, s)
        PROVE  row'[r] = row[r]
    BY <2>2, WritersKeepVerdicts DEF ActiveStatus, TerminalStatus
  <2>3. ASSUME NEW q \in Runs, NEW s \in TerminalStatus, row' = FinishIfActive(q, s)
        PROVE  row'[r] = row[r]
    BY <2>3, WritersKeepVerdicts
  <2>4. ASSUME NEW c \in Callers, NEW q \in Runs, NEW t \in Tasks, Create(c, q, t)
        PROVE  row'[r] = row[r]
    BY <2>4 DEF Create, TerminalStatus
  <2>5. ASSUME NEW c \in Callers, NEW q \in Runs, ResumeCheck(c, q) \/ CancelRow(c, q)
        PROVE  row'[r] = row[r]
    BY <2>1, <2>3, <2>5 DEF ResumeCheck, CancelRow, TerminalStatus
  <2>6. ASSUME NEW c \in Callers, NEW t \in Tasks, ResumeWrite(c, t)
        PROVE  row'[r] = row[r]
    BY <2>2, <2>6 DEF ResumeWrite, ActiveStatus
  <2>7. ASSUME NEW c \in Callers,
               ResumeUnreadable(c) \/ Register(c) \/ CancelToken(c) \/ Disconnect(c)
        PROVE  row'[r] = row[r]
    BY <2>1, <2>7 DEF ResumeUnreadable, Register, CancelToken, Disconnect
  <2>8. ASSUME NEW t \in Tasks, DriverStep(t), run[t] \in Runs
        PROVE  row'[r] = row[r]
    <3>1. CASE Prepare(t) \/ Park(t)
      BY <2>2, <2>8, <3>1 DEF Prepare, Park, ActiveStatus
    <3>2. CASE Settle(t)
      BY <2>1, <2>3, <2>8, <3>2 DEF Settle
    <3>3. CASE ExecuteFails(t) \/ SeeCancel(t) \/ EndTurn(t)
      BY <2>1, <3>3 DEF ExecuteFails, SeeCancel, EndTurn, Return
    <3> QED
      BY <2>1, <2>8, <3>1, <3>2, <3>3
         DEF DriverStep, EnterLoop, NextTurn, UseTools, FinishCalls, Ask,
             AskTooLate, ParkFails, AskRefused, SettleFails, Announce, Leave,
             ReleaseHeld
  <2>9. ASSUME NEW t \in Tasks, DriverStep(t), run[t] \notin Runs
        PROVE  row'[r] = row[r]
    BY <2>9
       DEF DriverStep, Prepare, ExecuteFails, SeeCancel, EndTurn, Return,
           EnterLoop, NextTurn, UseTools, FinishCalls, Ask, AskTooLate, Park,
           ParkFails, AskRefused, Settle, SettleFails, Announce, Leave,
           ReleaseHeld, UpdateStatus, FinishIfActive
  <2>10. ASSUME NEW q \in Runs, RecoverRow(q)
         PROVE  row'[r] = row[r]
    BY <2>1, <2>3, <2>10 DEF RecoverRow, Recover, TerminalStatus
  <2>11. CASE Crash \/ Boot \/ BootUnread \/ Serve \/ UNCHANGED vars
    BY <2>1, <2>11 DEF Crash, Boot, BootUnread, Serve, vars
  <2> QED
    BY <2>4, <2>5, <2>6, <2>7, <2>8, <2>9, <2>10, <2>11
       DEF Next, Request, HandlerStep, BootStep
<1>2. TypeOK /\ [Next]_vars =>
        [\A r \in Runs : (row[r] \in TerminalStatus /\ row'[r] \in TerminalStatus)
           => row'[r] = row[r]]_row
  BY <1>1
<1> QED
  BY <1>2, TypeCorrect, PTL DEF Spec, FirstVerdictWins
---------------------------------------------------------------------------
(***************************************************************************)
(* One resume at a time.                                                   *)
(*                                                                         *)
(* OwnershipIsSound, VerdictsStand and OnlyLateFailuresFollowCompletion    *)
(* hold while no two resumes of one run overlap: the status resume reads   *)
(* before it awaits read_recovery is then still true when it writes.  They *)
(* need no other bound on the callers, who may create, cancel, disconnect  *)
(* and resume different runs at the same time.                             *)
(***************************************************************************)
ResumesDoNotOverlap ==
  \A c, d \in Callers :
    (/\ handler[c] = "recovering" /\ handler[d] = "recovering"
     /\ target[c].run = target[d].run) => c = d

(* The status a resume has read still stands.                              *)
ResumesSeeFailedRows ==
  \A c \in Callers : handler[c] = "recovering" => row[target[c].run] = "failed"

(* A task that still acts never does so for a row with a verdict of its    *)
(* own: only a cancel may have settled it.                                 *)
OwnersHaveOpenRows ==
  \A t \in Tasks : pc[t] \in Owning => row[run[t]] \in ActiveStatus \cup {"cancelled"}

(* What the scan still has to look at is as the crash left it.             *)
ScanIsUntouched ==
  /\ scan # {} => phase = "scanning"
  /\ \A r \in scan : row[r] \in ActiveStatus
  /\ \A t \in Tasks : pc[t] \in Live => run[t] \notin scan

(* A driver about to announce a cancel or a completion is the last that    *)
(* acted for its run, and the row will not be settled again.               *)
AnnouncersCameLast ==
  /\ \A t \in Tasks : (pc[t] = "announcing" /\ outcome[t] = "cancelled") =>
       /\ row[run[t]] \in ActiveStatus \cup {"cancelled"}
       /\ \A u \in Tasks : run[u] = run[t] => pc[u] \notin Owning
  /\ \A t \in Tasks : (pc[t] = "announcing" /\ outcome[t] = "completed") =>
       row[run[t]] = "completed"
  /\ \A t, u \in Tasks :
       (/\ pc[t] = "announcing" /\ outcome[t] = "completed"
        /\ pc[u] = "announcing" /\ outcome[u] = "completed"
        /\ run[t] = run[u]) => t = u

(* Once a stream has carried run_completed the row is completed, and all   *)
(* that is left to announce are failures.                                  *)
CompletedStreamsAreOver ==
  \A r \in Runs : \A i \in 1..Len(frames[r]) : frames[r][i] = "completed" =>
    /\ row[r] = "completed"
    /\ \A t \in Tasks : (run[t] = r /\ pc[t] = "announcing") => outcome[t] = "failed"

SequentialInv ==
  /\ ResumesSeeFailedRows
  /\ OwnersHaveOpenRows
  /\ ScanIsUntouched
  /\ OwnershipIsSound
  /\ AnnouncersCameLast
  /\ CompletedStreamsAreOver
  /\ OnlyLateFailuresFollowCompletion


(* The steps of a driver, told apart by what they do to the row and to the *)
(* driver's claim on it.                                                   *)
DriverWrites(t) ==
  /\ pc[t] \in Driving
  /\ \E s \in {"running", "awaiting_approval"}, f \in {"started", "resumed", "awaiting"},
        place \in Driving :
       /\ row' = UpdateStatus(run[t], s)
       /\ frames' = Emit(run[t], f)
       /\ Goto(t, place)
  /\ UNCHANGED <<active, outcome>>

DriverWorks(t) ==
  /\ pc[t] \in Driving
  /\ \E place \in Driving : Goto(t, place)
  /\ \A u \in Tasks \ {t} : outcome'[u] = outcome[u]
  /\ UNCHANGED <<row, active, frames>>

LEMMA DriverKinds ==
  ASSUME TypeOK, NEW t \in Tasks, DriverStep(t)
  PROVE  \/ DriverWrites(t) \/ DriverWorks(t) \/ Settle(t) \/ SettleFails(t)
         \/ Announce(t) \/ Leave(t) \/ ReleaseHeld(t)
<1> USE DEF TypeOK, Driving, Goto, Return, store
<1>1. CASE Prepare(t) \/ Park(t)
  BY <1>1 DEF Prepare, Park, DriverWrites
<1>2. CASE ExecuteFails(t) \/ SeeCancel(t) \/ EndTurn(t)
  BY <1>2 DEF ExecuteFails, SeeCancel, EndTurn, DriverWorks
<1>3. CASE EnterLoop(t) \/ NextTurn(t) \/ UseTools(t)
  BY <1>3 DEF EnterLoop, NextTurn, UseTools, DriverWorks
<1>4. CASE FinishCalls(t) \/ Ask(t) \/ AskTooLate(t) \/ AskRefused(t) \/ ParkFails(t)
  BY <1>4 DEF FinishCalls, Ask, AskTooLate, AskRefused, ParkFails, DriverWorks
<1> QED
  BY <1>1, <1>2, <1>3, <1>4 DEF DriverStep


(* What a stream carries after one more frame.                             *)
LEMMA EmittedFrames ==
  ASSUME TypeOK, NEW r \in Runs, NEW f \in Frame
  PROVE  /\ \A q \in Runs \ {r} : Emit(r, f)[q] = frames[q]
         /\ Len(Emit(r, f)[r]) = Len(frames[r]) + 1
         /\ \A i \in 1..Len(frames[r]) : Emit(r, f)[r][i] = frames[r][i]
         /\ Emit(r, f)[r][Len(frames[r]) + 1] = f
<1>1. frames[r] \in Seq(Frame) /\ Emit(r, f)[r] = Append(frames[r], f)
  BY DEF TypeOK, Emit
<1>2. \A q \in Runs \ {r} : Emit(r, f)[q] = frames[q]
  BY DEF TypeOK, Emit
<1> QED
  BY <1>1, <1>2

(* A driver that writes its row carries its stream on, and announces no    *)
(* verdict.                                                                *)
LEMMA WritersAnnounceNothing ==
  ASSUME TypeOK, NEW t \in Tasks, run[t] \in Runs, DriverWrites(t),
         \A i \in 1..Len(frames[run[t]]) : frames[run[t]][i] # "completed"
  PROVE  /\ \A q \in Runs : q # run[t] => row'[q] = row[q] /\ frames'[q] = frames[q]
         /\ \A i \in 1..Len(frames'[run[t]]) : frames'[run[t]][i] # "completed"
<1> DEFINE r == run[t]
<1>1. PICK s \in {"running", "awaiting_approval"}, f \in {"started", "resumed", "awaiting"} :
        row' = UpdateStatus(r, s) /\ frames' = Emit(r, f)
  BY DEF DriverWrites
<1>2. f \in Frame /\ f # "completed" /\ Len(frames[r]) \in Nat
  BY DEF Frame, TypeOK
<1>3. /\ \A q \in Runs : q # r => row'[q] = row[q] /\ frames'[q] = frames[q]
      /\ Len(frames'[r]) = Len(frames[r]) + 1
      /\ \A i \in 1..Len(frames[r]) : frames'[r][i] = frames[r][i]
      /\ frames'[r][Len(frames[r]) + 1] = f
  BY <1>1, <1>2, EmittedFrames DEF UpdateStatus, TypeOK
<1>4. ASSUME NEW i \in 1..Len(frames'[r])
      PROVE  frames'[r][i] # "completed"
  <2>1. i \in 1..Len(frames[r]) \/ i = Len(frames[r]) + 1
    BY <1>2, <1>3
  <2> QED
    BY <1>2, <1>3, <2>1
<1> QED
  BY <1>3, <1>4


(* A free task that starts to work for a run nobody works for.             *)
LEMMA NewOwnerIsSole ==
  ASSUME TypeOK, SoleOwner, NEW t \in Tasks, NEW r, NEW place,
         \A u \in Tasks : pc[u] \in Owning => run[u] # r,
         pc' = [pc EXCEPT ![t] = place], run' = [run EXCEPT ![t] = r]
  PROVE  SoleOwner'
  BY DEF TypeOK, SoleOwner

(* No one writes a failed row but its resume.                              *)
LEMMA ResumesSeeFailedRowsStep ==
  ASSUME IndInv, SequentialInv, ResumesDoNotOverlap, [Next]_vars
  PROVE  ResumesSeeFailedRows'
<1> USE DEF IndInv, TypeOK, SequentialInv, OwnershipIsSound, store, drivers, requests, process,
            history, Live, Owning, Driving,
            HandlersHoldTheirTasks, ProcessOwnsItsTasks, ResumesSeeFailedRows, OwnersHaveOpenRows, ScanIsUntouched, ResumesDoNotOverlap, ActiveStatus
<1>1. ASSUME NEW c \in Callers, NEW r \in Runs, NEW t \in Tasks, Create(c, r, t)
      PROVE  ResumesSeeFailedRows'
  BY <1>1 DEF Create, SpawnTask
<1>2. ASSUME NEW c \in Callers, NEW r \in Runs, ResumeCheck(c, r)
      PROVE  ResumesSeeFailedRows'
  BY <1>2 DEF ResumeCheck
<1>3. ASSUME NEW c \in Callers, NEW r \in Runs, CancelRow(c, r)
      PROVE  ResumesSeeFailedRows'
  BY <1>3 DEF CancelRow, FinishIfActive
<1>4. ASSUME NEW c \in Callers, NEW t \in Tasks, ResumeWrite(c, t)
      PROVE  ResumesSeeFailedRows'
  BY <1>4 DEF ResumeWrite, SpawnTask, UpdateStatus
<1>5. ASSUME NEW c \in Callers, ResumeUnreadable(c) \/ CancelToken(c)
      PROVE  ResumesSeeFailedRows'
  BY <1>5 DEF ResumeUnreadable, CancelToken
<1>6. ASSUME NEW c \in Callers, Register(c)
      PROVE  ResumesSeeFailedRows'
  BY <1>6 DEF Register, Goto
<1>7. ASSUME NEW c \in Callers, Disconnect(c)
      PROVE  ResumesSeeFailedRows'
  BY <1>7 DEF Disconnect
<1>8. ASSUME NEW t \in Tasks, DriverStep(t)
      PROVE  ResumesSeeFailedRows'
  <2>0. UNCHANGED <<run, launch, token, requests, process, accepted, dropped>>
    BY <1>8, DriverMoves
  <2>1. CASE DriverWrites(t)
    <3>1. \A q \in Runs : q # run[t] => row'[q] = row[q]
      BY <2>1 DEF DriverWrites, UpdateStatus
    <3>2. row[run[t]] # "failed"
      BY <2>1 DEF DriverWrites
    <3> QED
      BY <2>0, <3>1, <3>2
  <2>2. CASE DriverWorks(t)
    BY <2>0, <2>2 DEF DriverWorks, Goto
  <2>3. CASE Settle(t)
    BY <2>0, <2>3 DEF Settle, FinishIfActive, Goto
  <2>4. CASE Announce(t)
    BY <2>0, <2>4 DEF Announce, Goto
  <2>5. CASE Leave(t)
    BY <2>0, <2>5 DEF Leave, Goto
  <2>6. CASE ReleaseHeld(t)
    BY <2>0, <2>6 DEF ReleaseHeld, Goto
  <2>7. CASE SettleFails(t)
    BY <2>0, <2>7 DEF SettleFails, Goto
  <2> QED
    BY <1>8, <2>1, <2>2, <2>3, <2>4, <2>5, <2>6, <2>7, DriverKinds
<1>9. CASE Crash
  BY <1>9 DEF Crash
<1>10. CASE Boot \/ BootUnread
  BY <1>10 DEF Boot, BootUnread
<1>11. ASSUME NEW r \in Runs, RecoverRow(r)
      PROVE  ResumesSeeFailedRows'
  <2>0. /\ r \in scan /\ phase = "scanning" /\ scan' = scan \ {r}
        /\ UNCHANGED <<ask, requests, frames, phase, crashes, accepted, dropped>>
    BY <1>11 DEF RecoverRow
  <2>1. CASE row' \in {row, FinishIfActive(r, "failed")} /\ UNCHANGED <<active, drivers>>
    BY <2>0, <2>1 DEF FinishIfActive
  <2>2. ASSUME NEW t \in Tasks, Recover(r, t, "Boot", "held"), row[r] = "awaiting_approval"
        PROVE  ResumesSeeFailedRows'
    BY <2>0, <2>2 DEF Recover, SpawnTask
  <2>3. ASSUME NEW t \in Tasks, Recover(r, t, "Boot", "ready")
        PROVE  ResumesSeeFailedRows'
    BY <2>0, <2>3 DEF Recover, SpawnTask
  <2> QED
    BY <1>11, <2>1, <2>2, <2>3 DEF RecoverRow
<1>12. CASE Serve
  BY <1>12 DEF Serve
<1>13. CASE UNCHANGED vars
  BY <1>13 DEF vars
<1> QED
  BY <1>1, <1>2, <1>3, <1>4, <1>5, <1>6, <1>7, <1>8, <1>9, <1>10, <1>11, <1>12, <1>13
     DEF Next, Request, HandlerStep, BootStep

(* A driver loses its claim on a row with its verdict.                     *)
LEMMA OwnersHaveOpenRowsStep ==
  ASSUME IndInv, SequentialInv, ResumesDoNotOverlap, [Next]_vars
  PROVE  OwnersHaveOpenRows'
<1> USE DEF IndInv, TypeOK, SequentialInv, OwnershipIsSound, store, drivers, requests, process,
            history, Live, Owning, Driving,
            HandlersHoldTheirTasks, ProcessOwnsItsTasks, ResumesSeeFailedRows, OwnersHaveOpenRows, ScanIsUntouched, SoleOwner, ActiveStatus
<1>1. ASSUME NEW c \in Callers, NEW r \in Runs, NEW t \in Tasks, Create(c, r, t)
      PROVE  OwnersHaveOpenRows'
  BY <1>1 DEF Create, SpawnTask
<1>2. ASSUME NEW c \in Callers, NEW r \in Runs, ResumeCheck(c, r)
      PROVE  OwnersHaveOpenRows'
  BY <1>2 DEF ResumeCheck
<1>3. ASSUME NEW c \in Callers, NEW r \in Runs, CancelRow(c, r)
      PROVE  OwnersHaveOpenRows'
  BY <1>3 DEF CancelRow, FinishIfActive
<1>4. ASSUME NEW c \in Callers, NEW t \in Tasks, ResumeWrite(c, t)
      PROVE  OwnersHaveOpenRows'
  BY <1>4 DEF ResumeWrite, SpawnTask, UpdateStatus
<1>5. ASSUME NEW c \in Callers, ResumeUnreadable(c) \/ CancelToken(c)
      PROVE  OwnersHaveOpenRows'
  BY <1>5 DEF ResumeUnreadable, CancelToken
<1>6. ASSUME NEW c \in Callers, Register(c)
      PROVE  OwnersHaveOpenRows'
  BY <1>6 DEF Register, Goto
<1>7. ASSUME NEW c \in Callers, Disconnect(c)
      PROVE  OwnersHaveOpenRows'
  BY <1>7 DEF Disconnect
<1>8. ASSUME NEW t \in Tasks, DriverStep(t)
      PROVE  OwnersHaveOpenRows'
  <2>0. UNCHANGED <<run, launch, token, requests, process, accepted, dropped>>
    BY <1>8, DriverMoves
  <2>1. CASE DriverWrites(t)
    BY <2>0, <2>1 DEF DriverWrites, UpdateStatus, Goto
  <2>2. CASE DriverWorks(t)
    BY <2>0, <2>2 DEF DriverWorks, Goto
  <2>3. CASE Settle(t)
    BY <2>0, <2>3 DEF Settle, FinishIfActive, Goto
  <2>4. CASE Announce(t)
    BY <2>0, <2>4 DEF Announce, Goto
  <2>5. CASE Leave(t)
    BY <2>0, <2>5 DEF Leave, Goto
  <2>6. CASE ReleaseHeld(t)
    BY <2>0, <2>6 DEF ReleaseHeld, Goto
  <2>7. CASE SettleFails(t)
    BY <2>0, <2>7 DEF SettleFails, Goto
  <2> QED
    BY <1>8, <2>1, <2>2, <2>3, <2>4, <2>5, <2>6, <2>7, DriverKinds
<1>9. CASE Crash
  BY <1>9 DEF Crash
<1>10. CASE Boot \/ BootUnread
  BY <1>10 DEF Boot, BootUnread
<1>11. ASSUME NEW r \in Runs, RecoverRow(r)
      PROVE  OwnersHaveOpenRows'
  <2>0. /\ r \in scan /\ phase = "scanning" /\ scan' = scan \ {r}
        /\ UNCHANGED <<ask, requests, frames, phase, crashes, accepted, dropped>>
    BY <1>11 DEF RecoverRow
  <2>1. CASE row' \in {row, FinishIfActive(r, "failed")} /\ UNCHANGED <<active, drivers>>
    BY <2>0, <2>1 DEF FinishIfActive
  <2>2. ASSUME NEW t \in Tasks, Recover(r, t, "Boot", "held"), row[r] = "awaiting_approval"
        PROVE  OwnersHaveOpenRows'
    BY <2>0, <2>2 DEF Recover, SpawnTask
  <2>3. ASSUME NEW t \in Tasks, Recover(r, t, "Boot", "ready")
        PROVE  OwnersHaveOpenRows'
    BY <2>0, <2>3 DEF Recover, SpawnTask
  <2> QED
    BY <1>11, <2>1, <2>2, <2>3 DEF RecoverRow
<1>12. CASE Serve
  BY <1>12 DEF Serve
<1>13. CASE UNCHANGED vars
  BY <1>13 DEF vars
<1> QED
  BY <1>1, <1>2, <1>3, <1>4, <1>5, <1>6, <1>7, <1>8, <1>9, <1>10, <1>11, <1>12, <1>13
     DEF Next, Request, HandlerStep, BootStep

(* Nothing touches a row before the scan does.                             *)
LEMMA ScanStep ==
  ASSUME IndInv, SequentialInv, ResumesDoNotOverlap, [Next]_vars
  PROVE  ScanIsUntouched'
<1> USE DEF IndInv, TypeOK, SequentialInv, OwnershipIsSound, store, drivers, requests, process,
            history, Live, Owning, Driving,
            ProcessOwnsItsTasks, ScanIsUntouched, ActiveStatus, ResumesSeeFailedRows
<1>1. ASSUME NEW c \in Callers, NEW r \in Runs, NEW t \in Tasks, Create(c, r, t)
      PROVE  ScanIsUntouched'
  BY <1>1 DEF Create, SpawnTask
<1>2. ASSUME NEW c \in Callers, NEW r \in Runs, ResumeCheck(c, r)
      PROVE  ScanIsUntouched'
  BY <1>2 DEF ResumeCheck
<1>3. ASSUME NEW c \in Callers, NEW r \in Runs, CancelRow(c, r)
      PROVE  ScanIsUntouched'
  BY <1>3 DEF CancelRow, FinishIfActive
<1>4. ASSUME NEW c \in Callers, NEW t \in Tasks, ResumeWrite(c, t)
      PROVE  ScanIsUntouched'
  BY <1>4 DEF ResumeWrite, SpawnTask, UpdateStatus
<1>5. ASSUME NEW c \in Callers, ResumeUnreadable(c) \/ CancelToken(c)
      PROVE  ScanIsUntouched'
  BY <1>5 DEF ResumeUnreadable, CancelToken
<1>6. ASSUME NEW c \in Callers, Register(c)
      PROVE  ScanIsUntouched'
  BY <1>6 DEF Register, Goto
<1>7. ASSUME NEW c \in Callers, Disconnect(c)
      PROVE  ScanIsUntouched'
  BY <1>7 DEF Disconnect
<1>8. ASSUME NEW t \in Tasks, DriverStep(t)
      PROVE  ScanIsUntouched'
  <2>0. UNCHANGED <<run, launch, token, requests, process, accepted, dropped>>
    BY <1>8, DriverMoves
  <2>1. CASE DriverWrites(t)
    BY <2>0, <2>1 DEF DriverWrites, UpdateStatus, Goto
  <2>2. CASE DriverWorks(t)
    BY <2>0, <2>2 DEF DriverWorks, Goto
  <2>3. CASE Settle(t)
    <3>1. /\ pc[t] \in Live
          /\ \A q \in Runs : q # run[t] => row'[q] = row[q]
      BY <2>3 DEF Settle, FinishIfActive
    <3>2. \A u \in Tasks : pc'[u] \in Live => pc[u] \in Live
      BY <2>3 DEF Settle, Goto
    <3>3. run[t] \notin scan /\ scan' = scan /\ phase' = phase /\ run' = run
      BY <2>0, <3>1
    <3>4. \A q \in scan' : row'[q] \in ActiveStatus
      BY <3>1, <3>3
    <3>5. \A u \in Tasks : pc'[u] \in Live => run'[u] \notin scan'
      BY <3>2, <3>3
    <3> QED
      BY <3>3, <3>4, <3>5
  <2>4. CASE Announce(t)
    BY <2>0, <2>4 DEF Announce, Goto
  <2>5. CASE Leave(t)
    BY <2>0, <2>5 DEF Leave, Goto
  <2>6. CASE ReleaseHeld(t)
    BY <2>0, <2>6 DEF ReleaseHeld, Goto
  <2>7. CASE SettleFails(t)
    BY <2>0, <2>7 DEF SettleFails, Goto
  <2> QED
    BY <1>8, <2>1, <2>2, <2>3, <2>4, <2>5, <2>6, <2>7, DriverKinds
<1>9. CASE Crash
  BY <1>9 DEF Crash
<1>10. CASE Boot \/ BootUnread
  BY <1>10 DEF Boot, BootUnread
<1>11. ASSUME NEW r \in Runs, RecoverRow(r)
      PROVE  ScanIsUntouched'
  <2>0. /\ r \in scan /\ phase = "scanning" /\ scan' = scan \ {r}
        /\ UNCHANGED <<ask, requests, frames, phase, crashes, accepted, dropped>>
    BY <1>11 DEF RecoverRow
  <2>1. CASE row' \in {row, FinishIfActive(r, "failed")} /\ UNCHANGED <<active, drivers>>
    BY <2>0, <2>1 DEF FinishIfActive
  <2>2. ASSUME NEW t \in Tasks, Recover(r, t, "Boot", "held"), row[r] = "awaiting_approval"
        PROVE  ScanIsUntouched'
    BY <2>0, <2>2 DEF Recover, SpawnTask
  <2>3. ASSUME NEW t \in Tasks, Recover(r, t, "Boot", "ready")
        PROVE  ScanIsUntouched'
    BY <2>0, <2>3 DEF Recover, SpawnTask
  <2> QED
    BY <1>11, <2>1, <2>2, <2>3 DEF RecoverRow
<1>12. CASE Serve
  BY <1>12 DEF Serve
<1>13. CASE UNCHANGED vars
  BY <1>13 DEF vars
<1> QED
  BY <1>1, <1>2, <1>3, <1>4, <1>5, <1>6, <1>7, <1>8, <1>9, <1>10, <1>11, <1>12, <1>13
     DEF Next, Request, HandlerStep, BootStep

(* Nothing launches a second driver beside a live one.                     *)
LEMMA SoleOwnerStep ==
  ASSUME IndInv, SequentialInv, ResumesDoNotOverlap, [Next]_vars
  PROVE  SoleOwner'
<1> USE DEF IndInv, TypeOK, SequentialInv, OwnershipIsSound, store, drivers, requests, process,
            history, Live, Owning, Driving,
            HandlersHoldTheirTasks, ProcessOwnsItsTasks, ResumesSeeFailedRows, OwnersHaveOpenRows, ScanIsUntouched, SoleOwner, ActiveStatus
<1>1. ASSUME NEW c \in Callers, NEW r \in Runs, NEW t \in Tasks, Create(c, r, t)
      PROVE  SoleOwner'
  <2>1. \A u \in Tasks : pc[u] \in Owning => run[u] # r
    BY <1>1 DEF Create
  <2>2. pc' = [pc EXCEPT ![t] = "waiting"] /\ run' = [run EXCEPT ![t] = r]
    BY <1>1 DEF Create, SpawnTask
  <2> QED
    BY <2>1, <2>2, NewOwnerIsSole
<1>2. ASSUME NEW c \in Callers, NEW r \in Runs, ResumeCheck(c, r)
      PROVE  SoleOwner'
  BY <1>2 DEF ResumeCheck
<1>3. ASSUME NEW c \in Callers, NEW r \in Runs, CancelRow(c, r)
      PROVE  SoleOwner'
  BY <1>3 DEF CancelRow, FinishIfActive
<1>4. ASSUME NEW c \in Callers, NEW t \in Tasks, ResumeWrite(c, t)
      PROVE  SoleOwner'
  <2>1. \A u \in Tasks : pc[u] \in Owning => run[u] # target[c].run
    BY <1>4 DEF ResumeWrite
  <2>2. pc' = [pc EXCEPT ![t] = "waiting"] /\ run' = [run EXCEPT ![t] = target[c].run]
    BY <1>4 DEF ResumeWrite, SpawnTask
  <2> QED
    BY <2>1, <2>2, NewOwnerIsSole
<1>5. ASSUME NEW c \in Callers, ResumeUnreadable(c) \/ CancelToken(c)
      PROVE  SoleOwner'
  BY <1>5 DEF ResumeUnreadable, CancelToken
<1>6. ASSUME NEW c \in Callers, Register(c)
      PROVE  SoleOwner'
  BY <1>6 DEF Register, Goto
<1>7. ASSUME NEW c \in Callers, Disconnect(c)
      PROVE  SoleOwner'
  BY <1>7 DEF Disconnect
<1>8. ASSUME NEW t \in Tasks, DriverStep(t)
      PROVE  SoleOwner'
  <2>0. UNCHANGED <<run, launch, token, requests, process, accepted, dropped>>
    BY <1>8, DriverMoves
  <2>1. CASE DriverWrites(t)
    BY <2>0, <2>1 DEF DriverWrites, UpdateStatus, Goto
  <2>2. CASE DriverWorks(t)
    BY <2>0, <2>2 DEF DriverWorks, Goto
  <2>3. CASE Settle(t)
    BY <2>0, <2>3 DEF Settle, FinishIfActive, Goto
  <2>4. CASE Announce(t)
    BY <2>0, <2>4 DEF Announce, Goto
  <2>5. CASE Leave(t)
    BY <2>0, <2>5 DEF Leave, Goto
  <2>6. CASE ReleaseHeld(t)
    BY <2>0, <2>6 DEF ReleaseHeld, Goto
  <2>7. CASE SettleFails(t)
    BY <2>0, <2>7 DEF SettleFails, Goto
  <2> QED
    BY <1>8, <2>1, <2>2, <2>3, <2>4, <2>5, <2>6, <2>7, DriverKinds
<1>9. CASE Crash
  BY <1>9 DEF Crash
<1>10. CASE Boot \/ BootUnread
  BY <1>10 DEF Boot, BootUnread
<1>11. ASSUME NEW r \in Runs, RecoverRow(r)
      PROVE  SoleOwner'
  <2>0. /\ r \in scan /\ phase = "scanning" /\ scan' = scan \ {r}
        /\ UNCHANGED <<ask, requests, frames, phase, crashes, accepted, dropped>>
    BY <1>11 DEF RecoverRow
  <2>1. CASE row' \in {row, FinishIfActive(r, "failed")} /\ UNCHANGED <<active, drivers>>
    BY <2>0, <2>1 DEF FinishIfActive
  <2>2. ASSUME NEW t \in Tasks, Recover(r, t, "Boot", "held"), row[r] = "awaiting_approval"
        PROVE  SoleOwner'
    BY <2>0, <2>2, NewOwnerIsSole DEF Recover, SpawnTask
  <2>3. ASSUME NEW t \in Tasks, Recover(r, t, "Boot", "ready")
        PROVE  SoleOwner'
    BY <2>0, <2>3, NewOwnerIsSole DEF Recover, SpawnTask
  <2> QED
    BY <1>11, <2>1, <2>2, <2>3 DEF RecoverRow
<1>12. CASE Serve
  BY <1>12 DEF Serve
<1>13. CASE UNCHANGED vars
  BY <1>13 DEF vars
<1> QED
  BY <1>1, <1>2, <1>3, <1>4, <1>5, <1>6, <1>7, <1>8, <1>9, <1>10, <1>11, <1>12, <1>13
     DEF Next, Request, HandlerStep, BootStep

(* The map names the owner.                                                *)
LEMMA CancellableStep ==
  ASSUME IndInv, SequentialInv, ResumesDoNotOverlap, [Next]_vars
  PROVE  OwnerIsCancellable'
<1> USE DEF IndInv, TypeOK, SequentialInv, OwnershipIsSound, store, drivers, requests, process,
            history, Live, Owning, Driving,
            HandlersHoldTheirTasks, ProcessOwnsItsTasks, ResumesSeeFailedRows, OwnersHaveOpenRows, ScanIsUntouched, SoleOwner, OwnerIsCancellable, ActiveStatus
<1>1. ASSUME NEW c \in Callers, NEW r \in Runs, NEW t \in Tasks, Create(c, r, t)
      PROVE  OwnerIsCancellable'
  BY <1>1 DEF Create, SpawnTask
<1>2. ASSUME NEW c \in Callers, NEW r \in Runs, ResumeCheck(c, r)
      PROVE  OwnerIsCancellable'
  BY <1>2 DEF ResumeCheck
<1>3. ASSUME NEW c \in Callers, NEW r \in Runs, CancelRow(c, r)
      PROVE  OwnerIsCancellable'
  BY <1>3 DEF CancelRow, FinishIfActive
<1>4. ASSUME NEW c \in Callers, NEW t \in Tasks, ResumeWrite(c, t)
      PROVE  OwnerIsCancellable'
  BY <1>4 DEF ResumeWrite, SpawnTask, UpdateStatus
<1>5. ASSUME NEW c \in Callers, ResumeUnreadable(c) \/ CancelToken(c)
      PROVE  OwnerIsCancellable'
  BY <1>5 DEF ResumeUnreadable, CancelToken
<1>6. ASSUME NEW c \in Callers, Register(c)
      PROVE  OwnerIsCancellable'
  BY <1>6 DEF Register, Goto
<1>7. ASSUME NEW c \in Callers, Disconnect(c)
      PROVE  OwnerIsCancellable'
  BY <1>7 DEF Disconnect
<1>8. ASSUME NEW t \in Tasks, DriverStep(t)
      PROVE  OwnerIsCancellable'
  <2>0. UNCHANGED <<run, launch, token, requests, process, accepted, dropped>>
    BY <1>8, DriverMoves
  <2>1. CASE DriverWrites(t)
    BY <2>0, <2>1 DEF DriverWrites, UpdateStatus, Goto
  <2>2. CASE DriverWorks(t)
    BY <2>0, <2>2 DEF DriverWorks, Goto
  <2>3. CASE Settle(t)
    BY <2>0, <2>3 DEF Settle, FinishIfActive, Goto
  <2>4. CASE Announce(t)
    BY <2>0, <2>4 DEF Announce, Goto
  <2>5. CASE Leave(t)
    BY <2>0, <2>5 DEF Leave, Goto
  <2>6. CASE ReleaseHeld(t)
    BY <2>0, <2>6 DEF ReleaseHeld, Goto
  <2>7. CASE SettleFails(t)
    BY <2>0, <2>7 DEF SettleFails, Goto
  <2> QED
    BY <1>8, <2>1, <2>2, <2>3, <2>4, <2>5, <2>6, <2>7, DriverKinds
<1>9. CASE Crash
  BY <1>9 DEF Crash
<1>10. CASE Boot \/ BootUnread
  BY <1>10 DEF Boot, BootUnread
<1>11. ASSUME NEW r \in Runs, RecoverRow(r)
      PROVE  OwnerIsCancellable'
  <2>0. /\ r \in scan /\ phase = "scanning" /\ scan' = scan \ {r}
        /\ UNCHANGED <<ask, requests, frames, phase, crashes, accepted, dropped>>
    BY <1>11 DEF RecoverRow
  <2>1. CASE row' \in {row, FinishIfActive(r, "failed")} /\ UNCHANGED <<active, drivers>>
    BY <2>0, <2>1 DEF FinishIfActive
  <2>2. ASSUME NEW t \in Tasks, Recover(r, t, "Boot", "held"), row[r] = "awaiting_approval"
        PROVE  OwnerIsCancellable'
    BY <2>0, <2>2 DEF Recover, SpawnTask
  <2>3. ASSUME NEW t \in Tasks, Recover(r, t, "Boot", "ready")
        PROVE  OwnerIsCancellable'
    BY <2>0, <2>3 DEF Recover, SpawnTask
  <2> QED
    BY <1>11, <2>1, <2>2, <2>3 DEF RecoverRow
<1>12. CASE Serve
  BY <1>12 DEF Serve
<1>13. CASE UNCHANGED vars
  BY <1>13 DEF vars
<1> QED
  BY <1>1, <1>2, <1>3, <1>4, <1>5, <1>6, <1>7, <1>8, <1>9, <1>10, <1>11, <1>12, <1>13
     DEF Next, Request, HandlerStep, BootStep

(* A held row has no writer but a cancel.                                  *)
LEMMA HeldStep ==
  ASSUME IndInv, SequentialInv, ResumesDoNotOverlap, [Next]_vars
  PROVE  HeldStaysAwaiting'
<1> USE DEF IndInv, TypeOK, SequentialInv, OwnershipIsSound, store, drivers, requests, process,
            history, Live, Owning, Driving,
            ProcessOwnsItsTasks, ResumesSeeFailedRows, OwnersHaveOpenRows, ScanIsUntouched, SoleOwner, HeldStaysAwaiting, ActiveStatus
<1>1. ASSUME NEW c \in Callers, NEW r \in Runs, NEW t \in Tasks, Create(c, r, t)
      PROVE  HeldStaysAwaiting'
  BY <1>1 DEF Create, SpawnTask
<1>2. ASSUME NEW c \in Callers, NEW r \in Runs, ResumeCheck(c, r)
      PROVE  HeldStaysAwaiting'
  BY <1>2 DEF ResumeCheck
<1>3. ASSUME NEW c \in Callers, NEW r \in Runs, CancelRow(c, r)
      PROVE  HeldStaysAwaiting'
  BY <1>3 DEF CancelRow, FinishIfActive
<1>4. ASSUME NEW c \in Callers, NEW t \in Tasks, ResumeWrite(c, t)
      PROVE  HeldStaysAwaiting'
  BY <1>4 DEF ResumeWrite, SpawnTask, UpdateStatus
<1>5. ASSUME NEW c \in Callers, ResumeUnreadable(c) \/ CancelToken(c)
      PROVE  HeldStaysAwaiting'
  BY <1>5 DEF ResumeUnreadable, CancelToken
<1>6. ASSUME NEW c \in Callers, Register(c)
      PROVE  HeldStaysAwaiting'
  BY <1>6 DEF Register, Goto
<1>7. ASSUME NEW c \in Callers, Disconnect(c)
      PROVE  HeldStaysAwaiting'
  BY <1>7 DEF Disconnect
<1>8. ASSUME NEW t \in Tasks, DriverStep(t)
      PROVE  HeldStaysAwaiting'
  <2>0. UNCHANGED <<run, launch, token, requests, process, accepted, dropped>>
    BY <1>8, DriverMoves
  <2>1. CASE DriverWrites(t)
    BY <2>0, <2>1 DEF DriverWrites, UpdateStatus, Goto
  <2>2. CASE DriverWorks(t)
    BY <2>0, <2>2 DEF DriverWorks, Goto
  <2>3. CASE Settle(t)
    BY <2>0, <2>3 DEF Settle, FinishIfActive, Goto
  <2>4. CASE Announce(t)
    BY <2>0, <2>4 DEF Announce, Goto
  <2>5. CASE Leave(t)
    BY <2>0, <2>5 DEF Leave, Goto
  <2>6. CASE ReleaseHeld(t)
    BY <2>0, <2>6 DEF ReleaseHeld, Goto
  <2>7. CASE SettleFails(t)
    BY <2>0, <2>7 DEF SettleFails, Goto
  <2> QED
    BY <1>8, <2>1, <2>2, <2>3, <2>4, <2>5, <2>6, <2>7, DriverKinds
<1>9. CASE Crash
  BY <1>9 DEF Crash
<1>10. CASE Boot \/ BootUnread
  BY <1>10 DEF Boot, BootUnread
<1>11. ASSUME NEW r \in Runs, RecoverRow(r)
      PROVE  HeldStaysAwaiting'
  <2>0. /\ r \in scan /\ phase = "scanning" /\ scan' = scan \ {r}
        /\ UNCHANGED <<ask, requests, frames, phase, crashes, accepted, dropped>>
    BY <1>11 DEF RecoverRow
  <2>1. CASE row' \in {row, FinishIfActive(r, "failed")} /\ UNCHANGED <<active, drivers>>
    BY <2>0, <2>1 DEF FinishIfActive
  <2>2. ASSUME NEW t \in Tasks, Recover(r, t, "Boot", "held"), row[r] = "awaiting_approval"
        PROVE  HeldStaysAwaiting'
    BY <2>0, <2>2 DEF Recover, SpawnTask
  <2>3. ASSUME NEW t \in Tasks, Recover(r, t, "Boot", "ready")
        PROVE  HeldStaysAwaiting'
    BY <2>0, <2>3 DEF Recover, SpawnTask
  <2> QED
    BY <1>11, <2>1, <2>2, <2>3 DEF RecoverRow
<1>12. CASE Serve
  BY <1>12 DEF Serve
<1>13. CASE UNCHANGED vars
  BY <1>13 DEF vars
<1> QED
  BY <1>1, <1>2, <1>3, <1>4, <1>5, <1>6, <1>7, <1>8, <1>9, <1>10, <1>11, <1>12, <1>13
     DEF Next, Request, HandlerStep, BootStep

(* A stream that has carried run_completed carries failures alone.         *)
LEMMA StreamsStep ==
  ASSUME IndInv, SequentialInv, ResumesDoNotOverlap, [Next]_vars
  PROVE  CompletedStreamsAreOver'
<1> USE DEF IndInv, TypeOK, SequentialInv, OwnershipIsSound, store, drivers, requests, process,
            history, Live, Owning, Driving,
            HandlersHoldTheirTasks, ProcessOwnsItsTasks, ResumesSeeFailedRows, OwnersHaveOpenRows, AnnouncersCameLast, CompletedStreamsAreOver, ActiveStatus
<1>1. ASSUME NEW c \in Callers, NEW r \in Runs, NEW t \in Tasks, Create(c, r, t)
      PROVE  CompletedStreamsAreOver'
  BY <1>1 DEF Create, SpawnTask
<1>2. ASSUME NEW c \in Callers, NEW r \in Runs, ResumeCheck(c, r)
      PROVE  CompletedStreamsAreOver'
  BY <1>2 DEF ResumeCheck
<1>3. ASSUME NEW c \in Callers, NEW r \in Runs, CancelRow(c, r)
      PROVE  CompletedStreamsAreOver'
  BY <1>3 DEF CancelRow, FinishIfActive
<1>4. ASSUME NEW c \in Callers, NEW t \in Tasks, ResumeWrite(c, t)
      PROVE  CompletedStreamsAreOver'
  BY <1>4 DEF ResumeWrite, SpawnTask, UpdateStatus
<1>5. ASSUME NEW c \in Callers, ResumeUnreadable(c) \/ CancelToken(c)
      PROVE  CompletedStreamsAreOver'
  BY <1>5 DEF ResumeUnreadable, CancelToken
<1>6. ASSUME NEW c \in Callers, Register(c)
      PROVE  CompletedStreamsAreOver'
  BY <1>6 DEF Register, Goto
<1>7. ASSUME NEW c \in Callers, Disconnect(c)
      PROVE  CompletedStreamsAreOver'
  BY <1>7 DEF Disconnect
<1>8. ASSUME NEW t \in Tasks, DriverStep(t)
      PROVE  CompletedStreamsAreOver'
  <2>0. UNCHANGED <<run, launch, token, requests, process, accepted, dropped>>
    BY <1>8, DriverMoves
  <2>1. CASE DriverWrites(t)
    <3>1. run[t] \in Runs /\ \A i \in 1..Len(frames[run[t]]) : frames[run[t]][i] # "completed"
      <4>1. run[t] \in Runs /\ row[run[t]] # "completed"
        BY <2>1 DEF DriverWrites
      <4> QED
        BY <4>1
    <3>2. /\ \A q \in Runs : q # run[t] => row'[q] = row[q] /\ frames'[q] = frames[q]
          /\ \A i \in 1..Len(frames'[run[t]]) : frames'[run[t]][i] # "completed"
      <4>1. TypeOK
        OBVIOUS
      <4> HIDE DEF IndInv, TypeOK, SequentialInv, OwnershipIsSound, ProcessOwnsItsTasks,
                   OwnersHaveOpenRows, AnnouncersCameLast, CompletedStreamsAreOver,
                   OnlyLateFailuresFollowCompletion
      <4> QED
        BY <2>1, <3>1, <4>1, WritersAnnounceNothing
    <3>3. \A u \in Tasks : pc'[u] = "announcing" => pc[u] = "announcing"
      BY <2>1 DEF DriverWrites, Goto
    <3>4. CompletedStreamsAreOver /\ run' = run /\ outcome' = outcome
      BY <2>0, <2>1 DEF DriverWrites
    <3> HIDE DEF IndInv, TypeOK, SequentialInv, OwnershipIsSound, HandlersHoldTheirTasks,
                 ProcessOwnsItsTasks, ResumesSeeFailedRows, OwnersHaveOpenRows,
                 AnnouncersCameLast, CompletedStreamsAreOver
    <3>5. ASSUME NEW q \in Runs, NEW i \in 1..Len(frames'[q]), frames'[q][i] = "completed"
          PROVE  /\ row'[q] = "completed"
                 /\ \A u \in Tasks :
                      (run'[u] = q /\ pc'[u] = "announcing") => outcome'[u] = "failed"
      <4>1. q # run[t] /\ row'[q] = row[q] /\ frames'[q] = frames[q]
        BY <3>2, <3>5
      <4>2. /\ row[q] = "completed"
            /\ \A u \in Tasks : (run[u] = q /\ pc[u] = "announcing") => outcome[u] = "failed"
        BY <3>4, <3>5, <4>1 DEF CompletedStreamsAreOver
      <4> QED
        BY <3>3, <3>4, <4>1, <4>2
    <3> QED
      BY <3>5 DEF CompletedStreamsAreOver
  <2>2. CASE DriverWorks(t)
    BY <2>0, <2>2 DEF DriverWorks, Goto
  <2>3. CASE Settle(t)
    BY <2>0, <2>3 DEF Settle, FinishIfActive, Goto
  <2>4. CASE Announce(t)
    <3>1. /\ pc[t] = "announcing" /\ frames' = Emit(run[t], outcome[t])
          /\ \A u \in Tasks : pc'[u] = "announcing" => u # t /\ pc[u] = "announcing"
          /\ UNCHANGED <<row, run, outcome>>
      BY <2>0, <2>4 DEF Announce, Goto
    <3>2. run[t] \in Runs /\ outcome[t] \in Frame /\ Len(frames[run[t]]) \in Nat
      BY <3>1 DEF Frame
    <3>3. \A q \in Runs : q # run[t] => frames'[q] = frames[q]
      BY <3>1, <3>2, EmittedFrames
    <3>4. \A i \in 1..Len(frames'[run[t]]) : frames'[run[t]][i] = "completed" =>
            \/ i \in 1..Len(frames[run[t]]) /\ frames[run[t]][i] = "completed"
            \/ outcome[t] = "completed"
      BY <3>1, <3>2, EmittedFrames
    <3>5. CompletedStreamsAreOver /\ AnnouncersCameLast /\ outcome \in [Tasks -> TerminalStatus]
      OBVIOUS
    <3> HIDE DEF IndInv, TypeOK, SequentialInv, HandlersHoldTheirTasks, ProcessOwnsItsTasks
    <3>6. ASSUME outcome[t] = "completed", NEW u \in Tasks, run[u] = run[t], pc'[u] = "announcing"
          PROVE  outcome[u] = "failed"
      <4>1. outcome[u] # "completed"
        BY <3>1, <3>5, <3>6
      <4>2. outcome[u] # "cancelled"
        BY <3>1, <3>5, <3>6
      <4> QED
        BY <3>5, <4>1, <4>2 DEF TerminalStatus
    <3>7. outcome[t] = "completed" => row[run[t]] = "completed"
      BY <3>1, <3>5
    <3> QED
      BY <3>1, <3>3, <3>4, <3>5, <3>6, <3>7
  <2>5. CASE Leave(t)
    BY <2>0, <2>5 DEF Leave, Goto
  <2>6. CASE ReleaseHeld(t)
    BY <2>0, <2>6 DEF ReleaseHeld, Goto
  <2>7. CASE SettleFails(t)
    BY <2>0, <2>7 DEF SettleFails, Goto
  <2> QED
    BY <1>8, <2>1, <2>2, <2>3, <2>4, <2>5, <2>6, <2>7, DriverKinds
<1>9. CASE Crash
  BY <1>9 DEF Crash
<1>10. CASE Boot \/ BootUnread
  BY <1>10 DEF Boot, BootUnread
<1>11. ASSUME NEW r \in Runs, RecoverRow(r)
      PROVE  CompletedStreamsAreOver'
  <2>0. /\ r \in scan /\ phase = "scanning" /\ scan' = scan \ {r}
        /\ UNCHANGED <<ask, requests, frames, phase, crashes, accepted, dropped>>
    BY <1>11 DEF RecoverRow
  <2>1. CASE row' \in {row, FinishIfActive(r, "failed")} /\ UNCHANGED <<active, drivers>>
    BY <2>0, <2>1 DEF FinishIfActive
  <2>2. ASSUME NEW t \in Tasks, Recover(r, t, "Boot", "held"), row[r] = "awaiting_approval"
        PROVE  CompletedStreamsAreOver'
    BY <2>0, <2>2 DEF Recover, SpawnTask
  <2>3. ASSUME NEW t \in Tasks, Recover(r, t, "Boot", "ready")
        PROVE  CompletedStreamsAreOver'
    BY <2>0, <2>3 DEF Recover, SpawnTask
  <2> QED
    BY <1>11, <2>1, <2>2, <2>3 DEF RecoverRow
<1>12. CASE Serve
  BY <1>12 DEF Serve
<1>13. CASE UNCHANGED vars
  BY <1>13 DEF vars
<1> QED
  BY <1>1, <1>2, <1>3, <1>4, <1>5, <1>6, <1>7, <1>8, <1>9, <1>10, <1>11, <1>12, <1>13
     DEF Next, Request, HandlerStep, BootStep

(* What follows run_completed is a failure.                                *)
LEMMA LateFailuresStep ==
  ASSUME IndInv, SequentialInv, ResumesDoNotOverlap, [Next]_vars
  PROVE  OnlyLateFailuresFollowCompletion'
<1> USE DEF IndInv, TypeOK, SequentialInv, OwnershipIsSound, store, drivers, requests, process,
            history, Live, Owning, Driving,
            ProcessOwnsItsTasks, OwnersHaveOpenRows, AnnouncersCameLast, CompletedStreamsAreOver, OnlyLateFailuresFollowCompletion, ActiveStatus
<1>1. ASSUME NEW c \in Callers, NEW r \in Runs, NEW t \in Tasks, Create(c, r, t)
      PROVE  OnlyLateFailuresFollowCompletion'
  BY <1>1 DEF Create, SpawnTask
<1>2. ASSUME NEW c \in Callers, NEW r \in Runs, ResumeCheck(c, r)
      PROVE  OnlyLateFailuresFollowCompletion'
  BY <1>2 DEF ResumeCheck
<1>3. ASSUME NEW c \in Callers, NEW r \in Runs, CancelRow(c, r)
      PROVE  OnlyLateFailuresFollowCompletion'
  BY <1>3 DEF CancelRow, FinishIfActive
<1>4. ASSUME NEW c \in Callers, NEW t \in Tasks, ResumeWrite(c, t)
      PROVE  OnlyLateFailuresFollowCompletion'
  BY <1>4 DEF ResumeWrite, SpawnTask, UpdateStatus
<1>5. ASSUME NEW c \in Callers, ResumeUnreadable(c) \/ CancelToken(c)
      PROVE  OnlyLateFailuresFollowCompletion'
  BY <1>5 DEF ResumeUnreadable, CancelToken
<1>6. ASSUME NEW c \in Callers, Register(c)
      PROVE  OnlyLateFailuresFollowCompletion'
  BY <1>6 DEF Register, Goto
<1>7. ASSUME NEW c \in Callers, Disconnect(c)
      PROVE  OnlyLateFailuresFollowCompletion'
  BY <1>7 DEF Disconnect
<1>8. ASSUME NEW t \in Tasks, DriverStep(t)
      PROVE  OnlyLateFailuresFollowCompletion'
  <2>0. UNCHANGED <<run, launch, token, requests, process, accepted, dropped>>
    BY <1>8, DriverMoves
  <2>1. CASE DriverWrites(t)
    <3>1. run[t] \in Runs /\ \A i \in 1..Len(frames[run[t]]) : frames[run[t]][i] # "completed"
      <4>1. run[t] \in Runs /\ row[run[t]] # "completed"
        BY <2>1 DEF DriverWrites
      <4> QED
        BY <4>1
    <3>2. /\ \A q \in Runs : q # run[t] => frames'[q] = frames[q]
          /\ \A i \in 1..Len(frames'[run[t]]) : frames'[run[t]][i] # "completed"
      <4>1. TypeOK
        OBVIOUS
      <4> HIDE DEF IndInv, TypeOK, SequentialInv, OwnershipIsSound, ProcessOwnsItsTasks,
                   OwnersHaveOpenRows, AnnouncersCameLast, CompletedStreamsAreOver,
                   OnlyLateFailuresFollowCompletion
      <4> QED
        BY <2>1, <3>1, <4>1, WritersAnnounceNothing
    <3>3. OnlyLateFailuresFollowCompletion
      OBVIOUS
    <3> HIDE DEF IndInv, TypeOK, SequentialInv, HandlersHoldTheirTasks, ProcessOwnsItsTasks
    <3> QED
      BY <3>2, <3>3
  <2>2. CASE DriverWorks(t)
    BY <2>0, <2>2 DEF DriverWorks, Goto
  <2>3. CASE Settle(t)
    BY <2>0, <2>3 DEF Settle, FinishIfActive, Goto
  <2>4. CASE Announce(t)
    <3>1. pc[t] = "announcing" /\ frames' = Emit(run[t], outcome[t])
      BY <2>4 DEF Announce
    <3>2. run[t] \in Runs /\ outcome[t] \in Frame /\ Len(frames[run[t]]) \in Nat
      BY <3>1 DEF Frame
    <3>3. \A q \in Runs : q # run[t] => frames'[q] = frames[q]
      BY <3>1, <3>2, EmittedFrames
    <3>4. \A i \in 1..Len(frames[run[t]]) : frames[run[t]][i] = "completed" => outcome[t] = "failed"
      BY <3>1, <3>2
    <3>5. \A i, j \in 1..Len(frames'[run[t]]) :
            (frames'[run[t]][i] = "completed" /\ i < j) => frames'[run[t]][j] = "failed"
      <4> SUFFICES ASSUME NEW i \in 1..Len(frames'[run[t]]), NEW j \in 1..Len(frames'[run[t]]),
                          frames'[run[t]][i] = "completed", i < j
                   PROVE  frames'[run[t]][j] = "failed"
        OBVIOUS
      <4>1. i \in 1..Len(frames[run[t]]) /\ frames[run[t]][i] = "completed"
        BY <3>1, <3>2, EmittedFrames
      <4>2. CASE j \in 1..Len(frames[run[t]])
        <5>1. frames'[run[t]][j] = frames[run[t]][j]
          BY <3>1, <3>2, <4>2, EmittedFrames
        <5>2. frames[run[t]][j] = "failed"
          BY <3>2, <4>1, <4>2
        <5> QED
          BY <5>1, <5>2
      <4>3. CASE j = Len(frames[run[t]]) + 1
        BY <3>1, <3>2, <3>4, <4>1, <4>3, EmittedFrames
      <4> QED
        BY <3>1, <3>2, <4>2, <4>3, EmittedFrames
    <3> QED
      BY <3>3, <3>5
  <2>5. CASE Leave(t)
    BY <2>0, <2>5 DEF Leave, Goto
  <2>6. CASE ReleaseHeld(t)
    BY <2>0, <2>6 DEF ReleaseHeld, Goto
  <2>7. CASE SettleFails(t)
    BY <2>0, <2>7 DEF SettleFails, Goto
  <2> QED
    BY <1>8, <2>1, <2>2, <2>3, <2>4, <2>5, <2>6, <2>7, DriverKinds
<1>9. CASE Crash
  BY <1>9 DEF Crash
<1>10. CASE Boot \/ BootUnread
  BY <1>10 DEF Boot, BootUnread
<1>11. ASSUME NEW r \in Runs, RecoverRow(r)
      PROVE  OnlyLateFailuresFollowCompletion'
  <2>0. /\ r \in scan /\ phase = "scanning" /\ scan' = scan \ {r}
        /\ UNCHANGED <<ask, requests, frames, phase, crashes, accepted, dropped>>
    BY <1>11 DEF RecoverRow
  <2>1. CASE row' \in {row, FinishIfActive(r, "failed")} /\ UNCHANGED <<active, drivers>>
    BY <2>0, <2>1 DEF FinishIfActive
  <2>2. ASSUME NEW t \in Tasks, Recover(r, t, "Boot", "held"), row[r] = "awaiting_approval"
        PROVE  OnlyLateFailuresFollowCompletion'
    BY <2>0, <2>2 DEF Recover, SpawnTask
  <2>3. ASSUME NEW t \in Tasks, Recover(r, t, "Boot", "ready")
        PROVE  OnlyLateFailuresFollowCompletion'
    BY <2>0, <2>3 DEF Recover, SpawnTask
  <2> QED
    BY <1>11, <2>1, <2>2, <2>3 DEF RecoverRow
<1>12. CASE Serve
  BY <1>12 DEF Serve
<1>13. CASE UNCHANGED vars
  BY <1>13 DEF vars
<1> QED
  BY <1>1, <1>2, <1>3, <1>4, <1>5, <1>6, <1>7, <1>8, <1>9, <1>10, <1>11, <1>12, <1>13
     DEF Next, Request, HandlerStep, BootStep

(* Verdicts are announced once.                                            *)
LEMMA AnnouncersStep ==
  ASSUME IndInv, SequentialInv, ResumesDoNotOverlap, [Next]_vars
  PROVE  AnnouncersCameLast'
<1> USE DEF IndInv, TypeOK, SequentialInv, OwnershipIsSound, store, drivers, requests, process,
            history, Live, Owning, Driving,
            HandlersHoldTheirTasks, ProcessOwnsItsTasks, ResumesSeeFailedRows, OwnersHaveOpenRows, ScanIsUntouched, SoleOwner, AnnouncersCameLast, ActiveStatus
<1>1. ASSUME NEW c \in Callers, NEW r \in Runs, NEW t \in Tasks, Create(c, r, t)
      PROVE  AnnouncersCameLast'
  BY <1>1 DEF Create, SpawnTask
<1>2. ASSUME NEW c \in Callers, NEW r \in Runs, ResumeCheck(c, r)
      PROVE  AnnouncersCameLast'
  BY <1>2 DEF ResumeCheck
<1>3. ASSUME NEW c \in Callers, NEW r \in Runs, CancelRow(c, r)
      PROVE  AnnouncersCameLast'
  BY <1>3 DEF CancelRow, FinishIfActive
<1>4. ASSUME NEW c \in Callers, NEW t \in Tasks, ResumeWrite(c, t)
      PROVE  AnnouncersCameLast'
  BY <1>4 DEF ResumeWrite, SpawnTask, UpdateStatus
<1>5. ASSUME NEW c \in Callers, ResumeUnreadable(c) \/ CancelToken(c)
      PROVE  AnnouncersCameLast'
  BY <1>5 DEF ResumeUnreadable, CancelToken
<1>6. ASSUME NEW c \in Callers, Register(c)
      PROVE  AnnouncersCameLast'
  BY <1>6 DEF Register, Goto
<1>7. ASSUME NEW c \in Callers, Disconnect(c)
      PROVE  AnnouncersCameLast'
  BY <1>7 DEF Disconnect
<1>8. ASSUME NEW t \in Tasks, DriverStep(t)
      PROVE  AnnouncersCameLast'
  <2>0. UNCHANGED <<run, launch, token, requests, process, accepted, dropped>>
    BY <1>8, DriverMoves
  <2>1. CASE DriverWrites(t)
    <3>1. row[run[t]] # "completed" /\ pc[t] \in Owning
      BY <2>1 DEF DriverWrites
    <3>2. \A u \in Tasks : (pc[u] = "announcing" /\ outcome[u] = "cancelled") => run[u] # run[t]
      BY <3>1
    <3>3. \A u \in Tasks : (pc[u] = "announcing" /\ outcome[u] = "completed") => run[u] # run[t]
      BY <3>1
    <3>4. \A q \in Runs : q # run[t] => row'[q] = row[q]
      BY <2>1 DEF DriverWrites, UpdateStatus
    <3>5. \A u \in Tasks : /\ pc'[u] = "announcing" => pc[u] = "announcing"
                           /\ pc'[u] \in Owning => pc[u] \in Owning
      BY <2>1 DEF DriverWrites, Goto
    <3>6. outcome' = outcome /\ run' = run
      BY <2>0, <2>1 DEF DriverWrites
    <3>7. \A u \in Tasks : pc[u] = "announcing" => run[u] \in Runs
      OBVIOUS
    <3> QED
      BY <3>2, <3>3, <3>4, <3>5, <3>6, <3>7
  <2>2. CASE DriverWorks(t)
    BY <2>0, <2>2 DEF DriverWorks, Goto
  <2>3. CASE Settle(t)
    <3>1. /\ pc[t] = "closing" /\ outcome' = outcome /\ run' = run
          /\ \A u \in Tasks \ {t} : pc'[u] = pc[u]
          /\ pc'[t] \in {"announcing", "leaving"}
      BY <2>0, <2>3 DEF Settle, Goto
    <3>2. \A u \in Tasks : (pc[u] = "announcing" /\ outcome[u] \in {"cancelled", "completed"})
            => run[u] # run[t] /\ run[u] \in Runs
      BY <3>1
    <3>3. \A q \in Runs : q # run[t] => row'[q] = row[q]
      BY <2>3 DEF Settle, FinishIfActive
    <3>4. \A u \in Tasks : (u # t /\ run[u] = run[t]) => pc[u] \notin Owning
      BY <3>1
    <3>5. pc'[t] = "announcing" =>
            /\ outcome[t] = "cancelled" => row' = row
            /\ outcome[t] = "completed" => row'[run[t]] = "completed"
      BY <2>3, <3>1 DEF Settle, FinishIfActive, Goto
    <3>6. row[run[t]] \in ActiveStatus \cup {"cancelled"}
      BY <3>1
    <3>0. AnnouncersCameLast
      OBVIOUS
    <3> HIDE DEF IndInv, SoleOwner, OwnersHaveOpenRows,  TypeOK, SequentialInv, HandlersHoldTheirTasks, ProcessOwnsItsTasks
    <3>7. ASSUME NEW u \in Tasks, pc'[u] = "announcing", outcome[u] = "cancelled"
          PROVE  /\ row'[run[u]] \in ActiveStatus \cup {"cancelled"}
                 /\ \A v \in Tasks : run[v] = run[u] => pc'[v] \notin Owning
      <4>1. CASE u = t
        BY <3>1, <3>4, <3>5, <3>6, <3>7, <4>1
      <4>2. CASE u # t
        BY <3>0, <3>1, <3>2, <3>3, <3>7, <4>2
      <4> QED
        BY <4>1, <4>2
    <3>8. ASSUME NEW u \in Tasks, pc'[u] = "announcing", outcome[u] = "completed"
          PROVE  row'[run[u]] = "completed"
      BY <3>0, <3>1, <3>2, <3>3, <3>5, <3>8
    <3>9. \A u, v \in Tasks :
            (/\ pc'[u] = "announcing" /\ outcome[u] = "completed"
             /\ pc'[v] = "announcing" /\ outcome[v] = "completed"
             /\ run[u] = run[v]) => u = v
      BY <3>0, <3>1, <3>2
    <3> QED
      BY <3>1, <3>7, <3>8, <3>9
  <2>4. CASE Announce(t)
    BY <2>0, <2>4 DEF Announce, Goto
  <2>5. CASE Leave(t)
    BY <2>0, <2>5 DEF Leave, Goto
  <2>6. CASE ReleaseHeld(t)
    BY <2>0, <2>6 DEF ReleaseHeld, Goto
  <2>7. CASE SettleFails(t)
    BY <2>0, <2>7 DEF SettleFails, Goto
  <2> QED
    BY <1>8, <2>1, <2>2, <2>3, <2>4, <2>5, <2>6, <2>7, DriverKinds
<1>9. CASE Crash
  BY <1>9 DEF Crash
<1>10. CASE Boot \/ BootUnread
  BY <1>10 DEF Boot, BootUnread
<1>11. ASSUME NEW r \in Runs, RecoverRow(r)
      PROVE  AnnouncersCameLast'
  <2>0. /\ r \in scan /\ phase = "scanning" /\ scan' = scan \ {r}
        /\ UNCHANGED <<ask, requests, frames, phase, crashes, accepted, dropped>>
    BY <1>11 DEF RecoverRow
  <2>1. CASE row' \in {row, FinishIfActive(r, "failed")} /\ UNCHANGED <<active, drivers>>
    <3>1. \A q \in Runs : q # r => row'[q] = row[q]
      BY <2>1 DEF FinishIfActive
    <3>2. \A u \in Tasks : pc[u] = "announcing" => run[u] \in Runs /\ run[u] # r
      BY <2>0
    <3>3. AnnouncersCameLast /\ UNCHANGED <<pc, run, outcome>>
      BY <2>1
    <3> HIDE DEF IndInv, TypeOK, SequentialInv, OwnersHaveOpenRows, SoleOwner
    <3> QED
      BY <3>1, <3>2, <3>3
  <2>2. ASSUME NEW t \in Tasks, Recover(r, t, "Boot", "held"), row[r] = "awaiting_approval"
        PROVE  AnnouncersCameLast'
    BY <2>0, <2>2 DEF Recover, SpawnTask
  <2>3. ASSUME NEW t \in Tasks, Recover(r, t, "Boot", "ready")
        PROVE  AnnouncersCameLast'
    BY <2>0, <2>3 DEF Recover, SpawnTask
  <2> QED
    BY <1>11, <2>1, <2>2, <2>3 DEF RecoverRow
<1>12. CASE Serve
  BY <1>12 DEF Serve
<1>13. CASE UNCHANGED vars
  BY <1>13 DEF vars
<1> QED
  BY <1>1, <1>2, <1>3, <1>4, <1>5, <1>6, <1>7, <1>8, <1>9, <1>10, <1>11, <1>12, <1>13
     DEF Next, Request, HandlerStep, BootStep

(* One resume at a time keeps every part.                                  *)
LEMMA SequentialStep ==
  IndInv /\ SequentialInv /\ ResumesDoNotOverlap /\ [Next]_vars => SequentialInv'
  BY ResumesSeeFailedRowsStep, OwnersHaveOpenRowsStep, ScanStep, SoleOwnerStep,
     CancellableStep, HeldStep, AnnouncersStep, StreamsStep, LateFailuresStep
     DEF SequentialInv, OwnershipIsSound

LEMMA SequentialInductive ==
  Spec /\ []ResumesDoNotOverlap => []SequentialInv
<1>1. Init => SequentialInv
  BY DEF Init, SequentialInv, ResumesSeeFailedRows, OwnersHaveOpenRows, ScanIsUntouched,
         OwnershipIsSound, SoleOwner, OwnerIsCancellable, HeldStaysAwaiting,
         AnnouncersCameLast, CompletedStreamsAreOver, OnlyLateFailuresFollowCompletion,
         Live, Owning, Driving
<1> QED
  BY <1>1, SequentialStep, Inductive, PTL DEF Spec

(* While no two resumes of one run overlap, a run has one owner, a cancel  *)
(* finds it, and a run held for its person stays so: whatever is created,  *)
(* cancelled, disconnected or killed meanwhile.                            *)
THEOREM OneResumeKeepsOwnershipSound ==
  Spec /\ []ResumesDoNotOverlap => []OwnershipIsSound
<1>1. SequentialInv => OwnershipIsSound
  BY DEF SequentialInv
<1> QED
  BY <1>1, SequentialInductive, PTL

(* Under the same condition nothing but a late failure follows             *)
(* run_completed on a stream.                                              *)
THEOREM OneResumeKeepsCompletionLast ==
  Spec /\ []ResumesDoNotOverlap => []OnlyLateFailuresFollowCompletion
<1>1. SequentialInv => OnlyLateFailuresFollowCompletion
  BY DEF SequentialInv
<1> QED
  BY <1>1, SequentialInductive, PTL

(* No step takes a row out of completed, nor out of failed but for its     *)
(* resume.                                                                 *)
LEMMA VerdictSteps ==
  ASSUME IndInv, SequentialInv, [Next]_vars, NEW r \in Runs
  PROVE  /\ row[r] = "completed" => row'[r] = "completed"
         /\ row[r] = "failed" /\ row'[r] # "failed" =>
              \E c \in Callers : handler[c] = "recovering" /\ target[c].run = r
<1> SUFFICES ASSUME row[r] \in {"completed", "failed"}, row'[r] # row[r]
             PROVE  /\ row[r] = "failed"
                    /\ \E c \in Callers : handler[c] = "recovering" /\ target[c].run = r
  OBVIOUS
<1> DEFINE Goal == /\ row[r] = "failed"
                   /\ \E c \in Callers : handler[c] = "recovering" /\ target[c].run = r
<1> USE DEF IndInv, TypeOK, SequentialInv, store
<1>1. ASSUME NEW c \in Callers, NEW q \in Runs, NEW t \in Tasks, Create(c, q, t)
      PROVE  Goal
  BY <1>1 DEF Create
<1>2. ASSUME NEW c \in Callers, NEW q \in Runs, ResumeCheck(c, q) \/ CancelRow(c, q)
      PROVE  Goal
  BY <1>2 DEF ResumeCheck, CancelRow, FinishIfActive, ActiveStatus
<1>3. ASSUME NEW c \in Callers, NEW t \in Tasks, ResumeWrite(c, t)
      PROVE  Goal
  BY <1>3 DEF ResumeWrite, UpdateStatus, ResumesSeeFailedRows
<1>4. ASSUME NEW c \in Callers,
             ResumeUnreadable(c) \/ Register(c) \/ CancelToken(c) \/ Disconnect(c)
      PROVE  Goal
  BY <1>4 DEF ResumeUnreadable, Register, CancelToken, Disconnect
<1>5. ASSUME NEW t \in Tasks, DriverStep(t)
      PROVE  Goal
  <2>1. CASE DriverWrites(t)
    <3>1. pc[t] \in Owning
      BY <2>1 DEF DriverWrites, Owning
    <3>2. row[run[t]] # row[r]
      BY <3>1 DEF OwnersHaveOpenRows, ActiveStatus
    <3> QED
      BY <2>1, <3>2 DEF DriverWrites, UpdateStatus
  <2>2. CASE Settle(t)
    BY <2>2 DEF Settle, FinishIfActive, ActiveStatus
  <2> QED
    BY <1>5, <2>1, <2>2, DriverKinds DEF DriverWorks, SettleFails, Announce, Leave, ReleaseHeld
<1>6. ASSUME NEW q \in Runs, RecoverRow(q)
      PROVE  Goal
  BY <1>6 DEF RecoverRow, Recover, FinishIfActive, ActiveStatus
<1>7. CASE Crash \/ Boot \/ BootUnread \/ Serve \/ UNCHANGED vars
  BY <1>7 DEF Crash, Boot, BootUnread, Serve, vars
<1> QED
  BY <1>1, <1>2, <1>3, <1>4, <1>5, <1>6, <1>7 DEF Next, Request, HandlerStep, BootStep

(* While no two resumes of one run overlap, a verdict stands until the     *)
(* run that failed is resumed.                                             *)
THEOREM OneResumeLetsVerdictsStand ==
  Spec /\ []ResumesDoNotOverlap => VerdictsStand
<1>1. IndInv /\ SequentialInv /\ [Next]_vars =>
        [\A r \in Runs : row[r] = "completed" => row'[r] = "completed"]_row
  BY VerdictSteps
<1>2. IndInv /\ SequentialInv /\ [Next]_vars =>
        [\A r \in Runs : (row[r] = "failed" /\ row'[r] # "failed") =>
           \E c \in Callers : handler[c] = "recovering" /\ target[c].run = r]_row
  BY VerdictSteps
<1>3. Spec /\ []ResumesDoNotOverlap => CompletedIsFinal
  BY <1>1, Inductive, SequentialInductive, PTL DEF Spec, CompletedIsFinal
<1>4. Spec /\ []ResumesDoNotOverlap => FailedOnlyResumes
  BY <1>2, Inductive, SequentialInductive, PTL DEF Spec, FailedOnlyResumes
<1> QED
  BY <1>3, <1>4, VerdictsAreFirstCome DEF VerdictsStand

---------------------------------------------------------------------------
(* One request at a time for each run.                                     *)

RequestsDoNotOverlap ==
  \A c, d \in Callers :
    (/\ handler[c] # "idle" /\ handler[d] # "idle"
     /\ target[c].run = target[d].run) => c = d

(* Every task that waits for its start signal is held by a handler.        *)
WaitersAreHeld ==
  \A t \in Tasks : pc[t] = "waiting" =>
    \E c \in Callers : handler[c] = "registering" /\ target[c].task = t

(* Tasks that wait come and go with their handlers.                        *)
LEMMA WaitersStep ==
  ASSUME IndInv, WaitersAreHeld, [Next]_vars
  PROVE  WaitersAreHeld'
<1> USE DEF IndInv, TypeOK, WaitersAreHeld, HandlersHoldTheirTasks, ProcessOwnsItsTasks, store, drivers, requests, process,
            history, Live, Owning, Driving
<1>1. ASSUME NEW c \in Callers, NEW r \in Runs, NEW t \in Tasks, Create(c, r, t)
      PROVE  WaitersAreHeld'
  BY <1>1 DEF Create, SpawnTask
<1>2. ASSUME NEW c \in Callers, NEW r \in Runs, ResumeCheck(c, r)
      PROVE  WaitersAreHeld'
  BY <1>2 DEF ResumeCheck
<1>3. ASSUME NEW c \in Callers, NEW r \in Runs, CancelRow(c, r)
      PROVE  WaitersAreHeld'
  BY <1>3 DEF CancelRow, FinishIfActive
<1>4. ASSUME NEW c \in Callers, NEW t \in Tasks, ResumeWrite(c, t)
      PROVE  WaitersAreHeld'
  BY <1>4 DEF ResumeWrite, SpawnTask, UpdateStatus
<1>5. ASSUME NEW c \in Callers, ResumeUnreadable(c) \/ CancelToken(c)
      PROVE  WaitersAreHeld'
  BY <1>5 DEF ResumeUnreadable, CancelToken
<1>6. ASSUME NEW c \in Callers, Register(c)
      PROVE  WaitersAreHeld'
  BY <1>6 DEF Register, Goto
<1>7. ASSUME NEW c \in Callers, Disconnect(c)
      PROVE  WaitersAreHeld'
  BY <1>7 DEF Disconnect
<1>8. ASSUME NEW t \in Tasks, DriverStep(t)
      PROVE  WaitersAreHeld'
  <2>0. UNCHANGED <<run, launch, token, requests, process, accepted, dropped>>
    BY <1>8, DriverMoves
  <2>1. CASE DriverWrites(t)
    BY <2>0, <2>1 DEF DriverWrites, UpdateStatus, Goto
  <2>2. CASE DriverWorks(t)
    BY <2>0, <2>2 DEF DriverWorks, Goto
  <2>3. CASE Settle(t)
    BY <2>0, <2>3 DEF Settle, FinishIfActive, Goto
  <2>4. CASE Announce(t)
    BY <2>0, <2>4 DEF Announce, Goto
  <2>5. CASE Leave(t)
    BY <2>0, <2>5 DEF Leave, Goto
  <2>6. CASE ReleaseHeld(t)
    BY <2>0, <2>6 DEF ReleaseHeld, Goto
  <2>7. CASE SettleFails(t)
    BY <2>0, <2>7 DEF SettleFails, Goto
  <2> QED
    BY <1>8, <2>1, <2>2, <2>3, <2>4, <2>5, <2>6, <2>7, DriverKinds
<1>9. CASE Crash
  BY <1>9 DEF Crash
<1>10. CASE Boot \/ BootUnread
  BY <1>10 DEF Boot, BootUnread
<1>11. ASSUME NEW r \in Runs, RecoverRow(r)
      PROVE  WaitersAreHeld'
  <2>0. /\ r \in scan /\ phase = "scanning" /\ scan' = scan \ {r}
        /\ UNCHANGED <<ask, requests, frames, phase, crashes, accepted, dropped>>
    BY <1>11 DEF RecoverRow
  <2>1. CASE row' \in {row, FinishIfActive(r, "failed")} /\ UNCHANGED <<active, drivers>>
    BY <2>0, <2>1 DEF FinishIfActive
  <2>2. ASSUME NEW t \in Tasks, Recover(r, t, "Boot", "held"), row[r] = "awaiting_approval"
        PROVE  WaitersAreHeld'
    BY <2>0, <2>2 DEF Recover, SpawnTask
  <2>3. ASSUME NEW t \in Tasks, Recover(r, t, "Boot", "ready")
        PROVE  WaitersAreHeld'
    BY <2>0, <2>3 DEF Recover, SpawnTask
  <2> QED
    BY <1>11, <2>1, <2>2, <2>3 DEF RecoverRow
<1>12. CASE Serve
  BY <1>12 DEF Serve
<1>13. CASE UNCHANGED vars
  BY <1>13 DEF vars
<1> QED
  BY <1>1, <1>2, <1>3, <1>4, <1>5, <1>6, <1>7, <1>8, <1>9, <1>10, <1>11, <1>12, <1>13
     DEF Next, Request, HandlerStep, BootStep

LEMMA WaitersHeld == Spec => []WaitersAreHeld
<1>1. Init => WaitersAreHeld
  BY DEF Init, WaitersAreHeld
<1>2. IndInv /\ WaitersAreHeld /\ [Next]_vars => WaitersAreHeld'
  BY WaitersStep
<1> QED
  BY <1>1, <1>2, Inductive, PTL DEF Spec

(* While no two requests on one run overlap, the handler of a cancel does  *)
(* not return before every task that still acts for the run has been told. *)
(* A cancel that overtakes the registration of a run finds nobody to tell. *)
THEOREM OneRequestLetsCancelsReachOwners ==
  Spec /\ []RequestsDoNotOverlap => CancelReachesEveryOwner
<1>1. RequestsDoNotOverlap => ResumesDoNotOverlap
  BY DEF RequestsDoNotOverlap, ResumesDoNotOverlap
<1>2. ASSUME IndInv, SequentialInv, WaitersAreHeld, RequestsDoNotOverlap,
             NEW c \in Callers, handler[c] = "cancelling", CancelToken(c),
             NEW t \in Tasks, run[t] = target[c].run, pc[t] \in Owning
      PROVE  token'[t]
  <2>1. CASE pc[t] = "waiting"
    <3>1. PICK d \in Callers : handler[d] = "registering" /\ target[d].task = t
      BY <1>2, <2>1 DEF WaitersAreHeld
    <3>2. target[d].run = target[c].run
      BY <1>2, <3>1 DEF IndInv, HandlersHoldTheirTasks
    <3> QED
      BY <1>2, <3>1, <3>2 DEF RequestsDoNotOverlap
  <2>2. CASE pc[t] # "waiting"
    <3>1. active[target[c].run] = t
      BY <1>2, <2>2 DEF SequentialInv, OwnershipIsSound, OwnerIsCancellable
    <3> QED
      BY <1>2, <3>1 DEF CancelToken
  <2> QED
    BY <2>1, <2>2
<1>3. IndInv /\ SequentialInv /\ WaitersAreHeld /\ RequestsDoNotOverlap =>
        [\A c \in Callers : (handler[c] = "cancelling" /\ CancelToken(c)) =>
           \A t \in Tasks : (run[t] = target[c].run /\ pc[t] \in Owning) => token'[t]]_vars
  BY <1>2
<1> QED
  BY <1>1, <1>3, Inductive, SequentialInductive, WaitersHeld, PTL DEF CancelReachesEveryOwner

(* A server that takes one request at a time has all four properties.      *)
COROLLARY OneCallerAtATime ==
  ASSUME \A c, d \in Callers : c = d
  PROVE  Spec => /\ []OwnershipIsSound
                 /\ []OnlyLateFailuresFollowCompletion
                 /\ VerdictsStand
                 /\ CancelReachesEveryOwner
<1>1. ResumesDoNotOverlap /\ RequestsDoNotOverlap
  BY DEF ResumesDoNotOverlap, RequestsDoNotOverlap
<1> QED
  BY <1>1, OneResumeKeepsOwnershipSound, OneResumeKeepsCompletionLast,
     OneResumeLetsVerdictsStand, OneRequestLetsCancelsReachOwners, PTL

=============================================================================
