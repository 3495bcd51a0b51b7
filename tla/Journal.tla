------------------------------ MODULE Journal ------------------------------
(***************************************************************************)
(* The trajectory file of a run: lines that are appended and synced, a     *)
(* last line that a crash or a full disk may leave unfinished, and the     *)
(* pass over the lines from which a run is recovered.                      *)
(*                                                                         *)
(* A line holds one record.  Of a record the model keeps the phase, the    *)
(* sequence number (-1 when it has none) and the tool of a call; of the    *)
(* bytes of an unfinished line, only that they are no JSON.                *)
(***************************************************************************)
EXTENDS Integers, Sequences, FiniteSets

CONSTANTS
  Tools,          \* names of tools
  NoTool,         \* the tool of a record that names none
  RecentResults   \* RECENT_RESULTS: how many calls recovery shows again

ASSUME JournalAssumption == NoTool \notin Tools /\ RecentResults \in Nat

Phase == {"response", "in_flight", "done", "error", "await_user", "server_failed"}
Record(phase, seq, tool) == [phase |-> phase, seq |-> seq, tool |-> tool]
Records == [phase : Phase, seq : Int, tool : Tools \cup {NoTool}]

Nothing == Record("nothing", -1, NoTool)
Torn    == Record("torn", -1, NoTool)
---------------------------------------------------------------------------
(* The file: complete lines, and what follows the last newline.            *)
Files == [lines : Seq(Records \cup {Torn}), tail : Records \cup {Nothing, Torn}]

NewFile == [lines |-> <<>>, tail |-> Nothing]

(* Journal::open appends to whatever is there, so the first record of a    *)
(* session continues an unfinished line.                                   *)
Continued(file, record) == IF file.tail = Nothing THEN record ELSE Torn

(* The writer: the record, a newline, flush, sync_data.                    *)
Written(file, record) ==
  [lines |-> Append(file.lines, Continued(file, record)), tail |-> Nothing]

(* The same, cut short anywhere by a crash or an error.                    *)
Interrupted(file, record) ==
  {file, [file EXCEPT !.tail = Torn],
   [file EXCEPT !.tail = Continued(file, record)], Written(file, record)}

(* read_recovery_sync tolerates one line that is no JSON: the last one,    *)
(* when no newline follows it.                                             *)
Readable(file) == \A i \in DOMAIN file.lines : file.lines[i] # Torn

RecordsOf(file) ==
  IF file.tail \in {Nothing, Torn} THEN file.lines ELSE Append(file.lines, file.tail)
---------------------------------------------------------------------------
(* The pass over the records.                                              *)
Recoveries ==
  [last_seq : Int, open : SUBSET Records, completed : SUBSET Int, succeeded : Nat,
   recent : Seq(Int), pending_ask : Int, usage : Nat]

Larger(a, b) == IF a < b THEN b ELSE a
One(condition) == IF condition THEN 1 ELSE 0

NothingRecovered ==
  [last_seq |-> -1, open |-> {}, completed |-> {}, succeeded |-> 0,
   recent |-> <<>>, pending_ask |-> -1, usage |-> 0]

\* Variant: any call that closes clears the pending ask.
ReplayClearsAsk(state, record) ==
  LET closes == record.phase \in {"done", "error"}
      call   == {o \in state.open : o.seq = record.seq}
  IN [last_seq    |-> Larger(state.last_seq, record.seq),
      open        |-> (state.open \ IF closes THEN call ELSE {})
                        \cup IF record.phase = "in_flight" THEN {record} ELSE {},
      completed   |-> state.completed \cup IF closes THEN {record.seq} ELSE {},
      succeeded   |-> state.succeeded + One(record.phase = "done"),
      recent      |-> state.recent,
      pending_ask |-> IF record.phase = "await_user" THEN record.seq ELSE -1,
      usage       |-> state.usage + One(record.phase = "response")]

(* One round of the loop in read_recovery_sync; usage counts responses.    *)
Replay(state, record) ==
  LET closes == record.phase \in {"done", "error"}
      call   == {o \in state.open : o.seq = record.seq}
      shown  == IF record.phase = "done" /\ call # {}
                  THEN Append(state.recent, record.seq) ELSE state.recent
  IN [last_seq    |-> Larger(state.last_seq, record.seq),
      open        |-> CASE record.phase = "in_flight" -> (state.open \ call) \cup {record}
                        [] closes -> state.open \ call
                        [] OTHER -> state.open,
      completed   |-> state.completed \cup IF closes THEN {record.seq} ELSE {},
      succeeded   |-> state.succeeded + One(record.phase = "done"),
      recent      |-> IF Len(shown) > RecentResults THEN Tail(shown) ELSE shown,
      pending_ask |-> CASE record.phase = "await_user" -> record.seq
                        [] closes /\ state.pending_ask = record.seq -> -1
                        [] OTHER -> state.pending_ask,
      usage       |-> state.usage + One(record.phase = "response")]

(* The state of the pass after each record.                                *)
Pass(log) ==
  LET state[i \in 0..Len(log)] ==
        IF i = 0 THEN NothingRecovered ELSE Replay(state[i - 1], log[i])
  IN state

Recovery(file) == LET log == RecordsOf(file) IN Pass(log)[Len(log)]

\* Variant: the first of the open calls.
DanglingFirst(recovery) ==
  {o \in recovery.open : \A p \in recovery.open : o.seq <= p.seq}

(* Of the open calls recovery reports the one with the highest number.     *)
Dangling(recovery) ==
  {o \in recovery.open : \A p \in recovery.open : p.seq <= o.seq}
---------------------------------------------------------------------------
(* What the pass ought to find, said of the records themselves.            *)
Indices(log, phases) == {i \in DOMAIN log : log[i].phase \in phases}

ClosedAfter(log, i) ==
  \E j \in Indices(log, {"done", "error"}) : j > i /\ log[j].seq = log[i].seq

OpenCalls(log) ==
  {log[i] : i \in {j \in Indices(log, {"in_flight"}) : ~ClosedAfter(log, j)}}

(* The owner still owes an answer to the last ask, or to none.             *)
PendingAsk(log) ==
  {log[i].seq : i \in {j \in Indices(log, {"await_user"}) :
     /\ ~ClosedAfter(log, j)
     /\ \A k \in Indices(log, {"await_user"}) : k <= j}}

RecoveryIsRight(file) ==
  LET log == RecordsOf(file)  found == Recovery(file) IN
  /\ found.open = OpenCalls(log)
  /\ found.usage = Cardinality(Indices(log, {"response"}))
  /\ found.completed = {log[i].seq : i \in Indices(log, {"done", "error"})}
  /\ found.succeeded = Cardinality(Indices(log, {"done"}))
  /\ found.last_seq \in {-1} \cup {log[i].seq : i \in DOMAIN log}
  /\ \A i \in DOMAIN log : log[i].seq <= found.last_seq
  /\ PendingAsk(log) = IF found.pending_ask = -1 THEN {} ELSE {found.pending_ask}
  /\ \A i \in DOMAIN found.recent :
       found.recent[i] \in found.completed \ {o.seq : o \in found.open}
=============================================================================
