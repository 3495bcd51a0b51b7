------------------------------ MODULE RunLoop ------------------------------
(***************************************************************************)
(* One run: the agent loop with its model and tools, the journal it writes *)
(* before and after every call, and the sessions in which it is taken up   *)
(* again after it failed or the process died.                              *)
(*                                                                         *)
(* The model and the tools are free: any stop reason, any calls, any       *)
(* outcome.  The journal's writer is an actor of its own: the loop hands   *)
(* it a record and waits for the acknowledgement.                          *)
(*                                                                         *)
(* Simplifications: one session at a time (RunSupervisor shows when that   *)
(* holds); messages are reduced to what recovery told the model; a tool    *)
(* acts once, between its dispatch and its answer.                         *)
(***************************************************************************)
EXTENDS Journal

CONSTANTS
  MachineTools,   \* tools that act on the machine; the others are control's
  AskTools,       \* control tools that wait for the owner
  MaxIterations,  \* LoopLimits::max_iterations
  MaxCalls,       \* bound: calls in one answer of the model
  MaxSessions     \* bound: how often the run is taken up

ASSUME RunLoopAssumption ==
  /\ MachineTools \subseteq Tools /\ AskTools \subseteq Tools \ MachineTools
  /\ MaxIterations \in Nat /\ MaxCalls \in Nat /\ MaxSessions \in Nat

VARIABLES
  file,       \* the trajectory, durable
  pending,    \* the record handed to the writer and not acknowledged
  place,      \* where the session is
  session,    \* how many sessions have begun
  connected,  \* the tool server of MachineTools is there
  next_seq,   \* Journal::seq
  iteration,
  stop,       \* stop reason of the answer at hand
  calls,      \* its calls that are still to be done
  succeeded,  \* succeeded_tool_count
  usage,
  told,       \* what opening_messages told the model: the dangling calls
  cancelled,  \* the session's token
  verdict,    \* how the last session ended
  executed    \* history: calls that acted, by number, with their session

vars == <<file, pending, place, session, connected, next_seq, iteration, stop,
          calls, succeeded, usage, told, cancelled, verdict, executed>>

answer   == <<stop, calls>>
counts   == <<next_seq, iteration, succeeded, usage>>
opening  == <<session, connected, told>>
outcome  == <<cancelled, verdict>>
---------------------------------------------------------------------------
Places == {"idle", "connecting", "turn", "completing", "answered", "next",
           "calling", "acting", "asking", "parked", "closing"}
StopReasons == {"tool_use", "end_turn", "max_tokens", "unknown"}
Answers == UNION {[1..n -> Tools] : n \in 0..MaxCalls}

TypeOK ==
  /\ file \in Files
  /\ pending \in Records \cup {Nothing}
  /\ place \in Places
  /\ session \in 0..MaxSessions
  /\ connected \in BOOLEAN
  /\ next_seq \in Int
  /\ iteration \in 0..MaxIterations
  /\ stop \in StopReasons
  /\ calls \in Seq(Tools)
  /\ succeeded \in Nat
  /\ usage \in Nat
  /\ told \subseteq Records
  /\ cancelled \in BOOLEAN
  /\ verdict \in {"none", "completed", "failed", "cancelled", "crashed", "held"}
  /\ executed \subseteq [seq : Int, session : 1..MaxSessions]

Init ==
  /\ file = NewFile /\ pending = Nothing /\ place = "idle" /\ session = 0
  /\ connected = FALSE /\ next_seq = -1 /\ iteration = 0 /\ stop = "unknown"
  /\ calls = <<>> /\ succeeded = 0 /\ usage = 0 /\ told = {}
  /\ cancelled = FALSE /\ verdict = "none" /\ executed = {}

Goto(there) == pending = Nothing /\ place' = there
Return(how) == place' = "idle" /\ verdict' = how
---------------------------------------------------------------------------
(* Sessions.                                                               *)

\* Variant: the session counts its calls and its usage from nothing.
BeginAnew ==
  /\ place = "idle" /\ pending = Nothing
  /\ session < MaxSessions /\ verdict \in {"none", "failed", "crashed"}
  /\ Readable(file)
  /\ place' = "connecting" /\ session' = session + 1
  /\ next_seq' = -1 /\ succeeded' = 0 /\ usage' = 0 /\ told' = {}
  /\ iteration' = 0 /\ cancelled' = FALSE /\ verdict' = "none"
  /\ UNCHANGED <<file, pending, connected, answer, executed>>

(* Engine::execute: a new run has no recovery; a failed one, or one whose  *)
(* process died, is taken up from its journal.                             *)
Begin ==
  LET recovery == IF session = 0 THEN NothingRecovered ELSE Recovery(file) IN
  /\ place = "idle" /\ pending = Nothing
  /\ session < MaxSessions /\ verdict \in {"none", "failed", "crashed"}
  /\ Readable(file)
  /\ place' = "connecting" /\ session' = session + 1
  /\ next_seq' = recovery.last_seq
  /\ succeeded' = recovery.succeeded /\ usage' = recovery.usage
  /\ told' = Dangling(recovery)
  /\ iteration' = 0 /\ cancelled' = FALSE /\ verdict' = "none"
  /\ UNCHANGED <<file, pending, connected, answer, executed>>

(* recover_on_boot fails a run whose journal cannot be read.               *)
Refuse ==
  /\ place = "idle" /\ verdict \in {"crashed", "held"} /\ ~Readable(file)
  /\ verdict' = "failed"
  /\ UNCHANGED <<file, pending, place, opening, counts, answer, cancelled, executed>>

(* host.connect: a tool server that fails is dropped and recorded.         *)
Connect ==
  /\ place = "connecting" /\ Goto("turn")
  /\ \/ connected' = TRUE /\ UNCHANGED pending
     \/ connected' = FALSE /\ pending' = Record("server_failed", -1, NoTool)
  /\ UNCHANGED <<file, session, told, counts, answer, outcome, executed>>

Cancel ==
  /\ place # "idle" /\ ~cancelled
  /\ cancelled' = TRUE
  /\ UNCHANGED <<file, pending, place, opening, counts, answer, verdict, executed>>

\* Variant: a call of a tool is not given up.
SeeCancelBetweenCalls ==
  /\ cancelled /\ pending = Nothing /\ place \in {"turn", "completing", "calling"}
  /\ Return("cancelled")
  /\ UNCHANGED <<file, pending, opening, counts, answer, cancelled, executed>>

(* The head of an iteration, and both select!s.  A record on its way to    *)
(* the writer is written all the same.                                     *)
SeeCancel ==
  /\ cancelled
  /\ \/ place \in {"turn", "completing", "calling", "acting", "parked"} /\ pending = Nothing
     \/ place = "asking"
  /\ Return("cancelled")
  /\ file' = IF pending = Nothing THEN file ELSE Written(file, pending)
  /\ pending' = Nothing
  /\ UNCHANGED <<opening, counts, answer, cancelled, executed>>

(* A session ends in error: the model or the host is not there, or the     *)
(* arguments of a call are no object.                                      *)
Fail ==
  /\ place \in {"connecting", "completing", "next"} /\ pending = Nothing
  /\ Return("failed")
  /\ UNCHANGED <<file, pending, opening, counts, answer, cancelled, executed>>

(* The process dies, in the middle of a write or not.  A run that waits    *)
(* for its owner is held after the restart; every other one is taken up,   *)
(* unless its row says cancelled.                                          *)
Crash ==
  /\ place # "idle"
  /\ file' \in IF pending = Nothing THEN {file} ELSE Interrupted(file, pending)
  /\ pending' = Nothing
  /\ Return(CASE cancelled -> "cancelled"
              [] place = "parked" /\ ~cancelled -> "held"
              [] OTHER -> "crashed")
  /\ UNCHANGED <<opening, counts, answer, cancelled, executed>>
---------------------------------------------------------------------------
(* The writer.                                                             *)
Write ==
  /\ pending # Nothing
  /\ file' = Written(file, pending) /\ pending' = Nothing
  /\ UNCHANGED <<place, opening, counts, answer, outcome, executed>>

(* The disk is full, say: part of the record may be there, the loop gets   *)
(* an error.  Only the call of a gate turns that into a result.            *)
WriteFails ==
  /\ pending # Nothing /\ place # "asking"
  /\ file' \in Interrupted(file, pending) /\ pending' = Nothing
  /\ Return("failed")
  /\ UNCHANGED <<opening, counts, answer, cancelled, executed>>

AskWriteFails ==
  /\ pending # Nothing /\ place = "asking"
  /\ file' \in Interrupted(file, pending)
  /\ pending' = Record("error", next_seq, NoTool)
  /\ place' = "closing"
  /\ UNCHANGED <<opening, counts, answer, outcome, executed>>
---------------------------------------------------------------------------
(* run_loop.                                                               *)

Turn ==
  /\ place = "turn" /\ ~cancelled /\ iteration < MaxIterations
  /\ Goto("completing") /\ iteration' = iteration + 1
  /\ UNCHANGED <<file, pending, opening, next_seq, succeeded, usage, answer,
                 outcome, executed>>

TurnsUsedUp ==
  /\ place = "turn" /\ pending = Nothing /\ iteration = MaxIterations
  /\ Return("failed")
  /\ UNCHANGED <<file, pending, opening, counts, answer, cancelled, executed>>

(* The model answers; its answer is counted and goes to the journal.  Only *)
(* an answer that stops for tool use has its calls looked at.              *)
Complete ==
  /\ place = "completing" /\ Goto("answered")
  /\ \/ stop' = "tool_use" /\ calls' \in Answers
     \/ stop' \in StopReasons \ {"tool_use"} /\ calls' = <<>>
  /\ usage' = usage + 1
  /\ pending' = Record("response", -1, NoTool)
  /\ UNCHANGED <<file, opening, next_seq, iteration, succeeded, outcome, executed>>

(* What the stop reason makes of the answer.                               *)
UseTools ==
  /\ place = "answered" /\ stop = "tool_use" /\ calls # <<>> /\ Goto("next")
  /\ UNCHANGED <<file, pending, opening, counts, answer, outcome, executed>>

EndTurn ==
  /\ place = "answered" /\ pending = Nothing /\ stop = "end_turn"
  /\ Return(IF succeeded = 0 THEN "failed" ELSE "completed")
  /\ UNCHANGED <<file, pending, opening, counts, answer, cancelled, executed>>

BadAnswer ==
  /\ place = "answered" /\ pending = Nothing
  /\ \/ stop \in {"max_tokens", "unknown"}
     \/ stop = "tool_use" /\ calls = <<>>
  /\ Return("failed")
  /\ UNCHANGED <<file, pending, opening, counts, answer, cancelled, executed>>

(* append_in_flight takes a number and waits for the synced record.        *)
Open ==
  /\ place = "next" /\ calls # <<>> /\ Goto("calling")
  /\ next_seq' = next_seq + 1
  /\ pending' = Record("in_flight", next_seq + 1, Head(calls))
  /\ UNCHANGED <<file, opening, iteration, succeeded, usage, answer, outcome, executed>>

(* The turn's calls are done: the loop comes round.                        *)
TurnDone ==
  /\ place = "next" /\ calls = <<>> /\ Goto("turn")
  /\ UNCHANGED <<file, pending, opening, counts, answer, outcome, executed>>

\* Variant: the call is dispatched while its record is on the way.
DispatchEarly ==
  /\ place = "calling" /\ Head(calls) \notin AskTools
  /\ place' = "acting"
  /\ executed' = IF Head(calls) \in MachineTools /\ connected
                   THEN executed \cup {[seq |-> next_seq, session |-> session]}
                   ELSE executed
  /\ UNCHANGED <<file, pending, opening, counts, answer, outcome>>

(* host.dispatch, up to the moment the tool has acted.                     *)
Dispatch ==
  /\ place = "calling" /\ Head(calls) \notin AskTools /\ Goto("acting")
  /\ executed' = IF Head(calls) \in MachineTools /\ connected
                   THEN executed \cup {[seq |-> next_seq, session |-> session]}
                   ELSE executed
  /\ UNCHANGED <<file, pending, opening, counts, answer, outcome>>

(* Its result, or its error, goes to the journal; a tool of a server that  *)
(* was dropped is unknown.  acts_on_the_machine: what a control tool did   *)
(* does not count.  (The code counts once the record is there; when it is  *)
(* not, the session ends and with it the count.)                           *)
Answer ==
  LET acts == Head(calls) \in MachineTools IN
  /\ place = "acting" /\ Goto("closing")
  /\ \E phase \in IF acts /\ ~connected THEN {"error"} ELSE {"done", "error"} :
       /\ pending' = Record(phase, next_seq, NoTool)
       /\ succeeded' = succeeded + One(phase = "done" /\ acts)
  /\ UNCHANGED <<file, opening, next_seq, iteration, usage, answer, outcome, executed>>

Close ==
  /\ place = "closing" /\ Goto("next")
  /\ calls' = Tail(calls)
  /\ UNCHANGED <<file, pending, opening, counts, stop, outcome, executed>>

(* RunContext::park: the ask goes to the journal, then the row says        *)
(* awaiting_approval, and only a cancel ends the wait.                     *)
Ask ==
  /\ place = "calling" /\ Head(calls) \in AskTools /\ Goto("asking")
  /\ pending' = Record("await_user", next_seq, NoTool)
  /\ UNCHANGED <<file, opening, counts, answer, outcome, executed>>

Park ==
  /\ place = "asking" /\ Goto("parked")
  /\ UNCHANGED <<file, pending, opening, counts, answer, outcome, executed>>

AskRefused ==
  /\ place = "parked" /\ cancelled /\ Goto("closing")
  /\ pending' = Record("error", next_seq, NoTool)
  /\ UNCHANGED <<file, opening, counts, answer, outcome, executed>>
---------------------------------------------------------------------------
(* The steps that need nobody but the daemon and the model.                *)
LoopStep ==
  \/ SeeCancel \/ Turn \/ TurnsUsedUp \/ Complete \/ UseTools \/ EndTurn \/ BadAnswer
  \/ Open \/ TurnDone \/ Dispatch \/ Close \/ Ask \/ Park \/ AskRefused

(* The steps that wait for the tool server.                                *)
HostStep == Connect \/ Answer

WriterStep == Write \/ WriteFails \/ AskWriteFails

Next == Begin \/ Refuse \/ Cancel \/ Fail \/ Crash \/ LoopStep \/ HostStep \/ WriterStep

Spec == Init /\ [][Next]_vars

(* The session's task and the writer's thread are scheduled and the model  *)
(* answers in the end, for its clients have a timeout.  Calls of the tool  *)
(* server have none: nothing is assumed of HostStep.                       *)
FairSpec == Spec /\ WF_vars(LoopStep) /\ WF_vars(WriterStep)
---------------------------------------------------------------------------
(* Properties.                                                             *)

InFlight(log) == {log[i].seq : i \in Indices(log, {"in_flight"})}

(* "Synced writes before tool side effects": whenever a tool has acted,    *)
(* the call can be read from the file, whatever was cut short before.      *)
EffectsAreWrittenAhead ==
  \A call \in executed : call.seq \in InFlight(RecordsOf(file))

(* The run implements CallLog: no step of it, crash, write cut short or new *)
(* session lets a call act twice, act off the record, or loses the record  *)
(* of one that acted.                                                      *)
Calls == INSTANCE CallLog WITH
  recorded <- InFlight(RecordsOf(file)),
  acts     <- executed

CallsActOnRecord == Calls!Spec

(* A number names one call of the run, across all its sessions: what       *)
(* closes a call never closes another one.                                 *)
SeqNamesOneCall ==
  LET log == RecordsOf(file)  opened == Indices(log, {"in_flight"}) IN
  /\ \A i, j \in opened : log[i].seq = log[j].seq => i = j
  /\ \A a, b \in executed : a.seq = b.seq => a = b

(* The call the last session left open after it may have acted is the one  *)
(* the next session is told not to replay.  (A line that was cut short can *)
(* become garbage when the session writes on; that file is never read      *)
(* again.)                                                                 *)
LastOpenCallIsTold ==
  \A call \in executed :
    (/\ place # "idle" /\ Readable(file) /\ call.session = session - 1
     /\ call.seq \in {o.seq : o \in OpenCalls(RecordsOf(file))})
    => call.seq \in {o.seq : o \in told}

(* A run that is held for its owner has the ask the owner owes an answer   *)
(* to, so the boot scan never fails it for want of one.                    *)
HeldRunHasItsAsk ==
  verdict = "held" /\ Readable(file) => Recovery(file).pending_ask = next_seq

(* A call that acts is on record before it does, under a number of its own. *)
CallsAreOnRecord == EffectsAreWrittenAhead /\ SeqNamesOneCall

(* What read_recovery_sync makes of any file the sessions can leave is     *)
(* what the records say.                                                   *)
RecoveryIsTheLog == RecoveryIsRight(file)

(* What a session has counted is what the next one would read: no tokens   *)
(* are lost or counted twice over crashes, failures and resumes.           *)
UsageIsOnRecord ==
  place # "idle" /\ pending = Nothing /\ Readable(file) => usage = Recovery(file).usage

(* What a session is told of the ones before is what they did: the call    *)
(* left open, the ask its owner still owes an answer to, the tokens spent. *)
SessionsAreToldTheTruth == LastOpenCallIsTold /\ HeldRunHasItsAsk /\ UsageIsOnRecord

(* No session goes on for ever: it ends, or it waits in one place, for its *)
(* owner or for one answer of the tool server.                             *)
SessionEnds == <>[](place \in {"idle", "connecting", "acting", "parked"})

(* A cancelled session ends, even if the tool server or the owner never    *)
(* answers; only the connection to the tool server is not given up.        *)
CancelEndsSession == (cancelled /\ place # "connecting") ~> (place = "idle")

(* No session spends the owner's machine and tokens for ever, and none      *)
(* survives the owner's cancel.                                            *)
SessionsAreFinite == SessionEnds /\ CancelEndsSession

(* "A killed machine resumes rather than restarts": what a session leaves  *)
(* can be read by the next one.                                            *)
JournalStaysReadable == Readable(file)
=============================================================================
