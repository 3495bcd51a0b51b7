--------------------------- MODULE RunLoopProofs ---------------------------
(***************************************************************************)
(* Proofs about RunLoop: what the pass over a journal of any length makes  *)
(* of it, what a run's journal holds over any number of sessions, crashes  *)
(* and failed writes, and what the next session is told.                   *)
(***************************************************************************)
EXTENDS RunLoop, SequenceTheorems, FiniteSetTheorems, WellFoundedInduction, TLAPS

(* A set of numbers that is not empty has a first one: induction, said so  *)
(* that no theorem with an operator parameter is needed.                   *)
LEMMA FirstOf ==
  ASSUME NEW X, X \subseteq Nat, X # {}
  PROVE  \E n \in X : \A m \in X : n <= m
<1> DEFINE R == OpToRel(<, Nat)
<1>1. IsWellFoundedOn(R, Nat)
  BY NatLessThanWellFounded
<1>2. PICK n \in X : \A m \in X : <<m, n>> \notin R
  BY <1>1, WFMin
<1>3. n \in X /\ \A m \in X : ~(m < n)
  BY <1>2 DEF OpToRel
<1> HIDE DEF R
<1>4. \A m \in X : n \in Int /\ m \in Int
  BY <1>3
<1> QED
  BY <1>3, <1>4

(* Induction over the first n numbers, for a set of them.                  *)
LEMMA UpTo ==
  ASSUME NEW n \in Nat, NEW Good, 0 \in Good,
         \A k \in 1..n : k - 1 \in Good => k \in Good
  PROVE  \A k \in 0..n : k \in Good
<1> DEFINE Bad == {k \in Nat : k <= n /\ k \notin Good}
<1>1. SUFFICES ASSUME Bad # {} PROVE FALSE
  OBVIOUS
<1>2. PICK k \in Bad : \A m \in Bad : k <= m
  BY <1>1, FirstOf
<1>3. k - 1 \in Nat /\ k - 1 \notin Bad /\ k \in 1..n
  BY <1>2
<1> QED
  BY <1>2, <1>3

(* The recursive definition of Pass defines what it says.                  *)
Rounds(log, n, f) ==
  f = [i \in 0..n |-> IF i = 0 THEN NothingRecovered ELSE Replay(f[i - 1], log[i])]

LEMMA RoundsExist ==
  ASSUME NEW log, NEW n \in Nat
  PROVE  \E f : Rounds(log, n, f)
<1> DEFINE Bad == {k \in Nat : ~ \E f : Rounds(log, k, f)}
<1>1. SUFFICES ASSUME Bad # {} PROVE FALSE
  OBVIOUS
<1>2. PICK k \in Bad : \A m \in Bad : k <= m
  BY <1>1, FirstOf
<1>3. k # 0
  <2>1. Rounds(log, 0, [i \in 0..0 |-> NothingRecovered])
    BY DEF Rounds
  <2> QED BY <2>1
<1>4. k - 1 \in Nat /\ k - 1 \notin Bad
  BY <1>2, <1>3
<1>5. PICK f : Rounds(log, k - 1, f)
  BY <1>4
<1> DEFINE g == [i \in 0..k |-> IF i = k THEN Replay(f[k - 1], log[k]) ELSE f[i]]
<1>6. Rounds(log, k, g)
  <2>1. f = [i \in 0..(k - 1) |-> IF i = 0 THEN NothingRecovered ELSE Replay(f[i - 1], log[i])]
    BY <1>5 DEF Rounds
  <2>2. ASSUME NEW i \in 0..k
        PROVE  g[i] = IF i = 0 THEN NothingRecovered ELSE Replay(g[i - 1], log[i])
    <3>1. CASE i = 0
      BY <2>1, <3>1, <1>3, <1>2
    <3>2. CASE i = k
      BY <3>2, <1>3, <1>2
    <3>3. CASE i # 0 /\ i # k
      <4>1. i \in 0..(k - 1) /\ i - 1 \in 0..(k - 1) /\ i - 1 # k /\ i - 1 \in 0..k
        BY <3>3, <1>2
      <4>2. g[i] = f[i] /\ g[i - 1] = f[i - 1]
        BY <4>1, <3>3
      <4> QED BY <2>1, <4>1, <4>2, <3>3
    <3> QED BY <3>1, <3>2, <3>3
  <2>3. g = [i \in 0..k |-> IF i = 0 THEN NothingRecovered ELSE Replay(g[i - 1], log[i])]
    BY <2>2
  <2> QED BY <2>3 DEF Rounds
<1> QED
  BY <1>2, <1>6

LEMMA PassUnfolds ==
  ASSUME NEW log, Len(log) \in Nat
  PROVE  Rounds(log, Len(log), Pass(log))
<1>1. PICK f : Rounds(log, Len(log), f)
  BY RoundsExist
<1>2. Pass(log) = CHOOSE g : Rounds(log, Len(log), g)
  BY DEF Pass, Rounds
<1> QED
  BY <1>1, <1>2

LEMMA PassSteps ==
  ASSUME NEW S, NEW log \in Seq(S)
  PROVE  /\ Len(log) \in Nat
         /\ Pass(log)[0] = NothingRecovered
         /\ \A j \in 1..Len(log) : Pass(log)[j] = Replay(Pass(log)[j - 1], log[j])
<1>1. Len(log) \in Nat
  BY LenProperties
<1> DEFINE P == Pass(log)
<1>2. Rounds(log, Len(log), P)
  BY <1>1, PassUnfolds
<1>3. P = [i \in 0..Len(log) |-> IF i = 0 THEN NothingRecovered ELSE Replay(P[i - 1], log[i])]
  BY <1>2 DEF Rounds
<1> HIDE DEF P
<1>4. \A j \in 0..Len(log) : P[j] = IF j = 0 THEN NothingRecovered ELSE Replay(P[j - 1], log[j])
  BY <1>3
<1>5. P[0] = NothingRecovered
  BY <1>4, <1>1
<1>6. ASSUME NEW j \in 1..Len(log) PROVE P[j] = Replay(P[j - 1], log[j])
  BY <1>4, <1>1
<1> QED
  BY <1>1, <1>5, <1>6 DEF P
---------------------------------------------------------------------------
(* Types.                                                                  *)
LEMMA NoRecords ==
  /\ Nothing \notin Records /\ Torn \notin Records /\ Nothing # Torn
  /\ Nothing.seq = -1 /\ Torn.seq = -1
  /\ Nothing.phase = "nothing" /\ Torn.phase = "torn"
BY DEF Nothing, Torn, Records, Record, Phase

(* What a line may hold: a record, or what is left of one.                 *)
Entries == Records \cup {Torn}

LEMMA EntriesAreTyped ==
  ASSUME NEW record \in Entries
  PROVE  record.seq \in Int /\ (record.phase = "in_flight" => record \in Records)
BY NoRecords DEF Entries, Records

LEMMA ReplayType ==
  ASSUME NEW state \in Recoveries, NEW record \in Entries
  PROVE  Replay(state, record) \in Recoveries
<1> DEFINE closes == record.phase \in {"done", "error"}
           call   == {o \in state.open : o.seq = record.seq}
           shown  == IF record.phase = "done" /\ call # {}
                       THEN Append(state.recent, record.seq) ELSE state.recent
           open   == CASE record.phase = "in_flight" -> (state.open \ call) \cup {record}
                       [] closes -> state.open \ call
                       [] OTHER -> state.open
           recent == IF Len(shown) > RecentResults THEN Tail(shown) ELSE shown
           ask    == CASE record.phase = "await_user" -> record.seq
                       [] closes /\ state.pending_ask = record.seq -> -1
                       [] OTHER -> state.pending_ask
<1>0. /\ state.open \subseteq Records /\ state.recent \in Seq(Int) /\ state.pending_ask \in Int
      /\ record.seq \in Int /\ state.last_seq \in Int /\ state.succeeded \in Nat
      /\ state.usage \in Nat /\ state.completed \subseteq Int
      /\ (record.phase = "in_flight" => record \in Records)
  BY EntriesAreTyped DEF Recoveries
<1>1. Larger(state.last_seq, record.seq) \in Int
  BY <1>0 DEF Larger
<1>2. open \in SUBSET Records
  BY <1>0
<1>3. state.completed \cup (IF closes THEN {record.seq} ELSE {}) \in SUBSET Int
  BY <1>0
<1>4. /\ state.succeeded + One(record.phase = "done") \in Nat
      /\ state.usage + One(record.phase = "response") \in Nat
  BY <1>0 DEF One
<1>5. recent \in Seq(Int)
  <2>1. shown \in Seq(Int)
    BY <1>0
  <2> HIDE DEF shown
  <2>2. Len(shown) > RecentResults => shown # <<>>
    <3>1. Len(shown) \in Nat /\ RecentResults \in Nat
      BY <2>1, LenProperties, JournalAssumption
    <3>2. shown = <<>> => Len(shown) = 0
      BY EmptySeq
    <3> QED
      BY <3>1, <3>2
  <2>3. shown # <<>> => Tail(shown) \in Seq(Int)
    BY <2>1
  <2> QED
    BY <2>1, <2>2, <2>3
<1>6. ask \in Int
  BY <1>0
<1>7. Replay(state, record) =
        [last_seq |-> Larger(state.last_seq, record.seq), open |-> open,
         completed |-> state.completed \cup (IF closes THEN {record.seq} ELSE {}),
         succeeded |-> state.succeeded + One(record.phase = "done"), recent |-> recent,
         pending_ask |-> ask, usage |-> state.usage + One(record.phase = "response")]
  BY DEF Replay
<1> HIDE DEF open, recent, ask, closes
<1> QED
  BY <1>1, <1>2, <1>3, <1>4, <1>5, <1>6, <1>7 DEF Recoveries

LEMMA NothingRecoveredType == NothingRecovered \in Recoveries
<1>1. <<>> \in Seq(Int)
  BY EmptySeq
<1> QED
  BY <1>1 DEF NothingRecovered, Recoveries

LEMMA PassType ==
  ASSUME NEW log \in Seq(Entries)
  PROVE  \A j \in 0..Len(log) : Pass(log)[j] \in Recoveries
<1> DEFINE P == Pass(log)
           Bad == {j \in Nat : j <= Len(log) /\ P[j] \notin Recoveries}
<1>0. /\ Len(log) \in Nat /\ P[0] = NothingRecovered
      /\ \A j \in 1..Len(log) : P[j] = Replay(P[j - 1], log[j])
  BY PassSteps
<1> HIDE DEF P
<1>1. SUFFICES ASSUME Bad # {} PROVE FALSE
  BY <1>0 DEF P
<1>2. PICK k \in Bad : \A m \in Bad : k <= m
  BY <1>1, FirstOf
<1>3. k # 0
  BY <1>0, <1>2, NothingRecoveredType
<1>4. k - 1 \in Nat /\ k - 1 \notin Bad /\ k \in 1..Len(log)
  BY <1>0, <1>2, <1>3
<1>5. P[k - 1] \in Recoveries /\ log[k] \in Entries
  BY <1>0, <1>4, ElementOfSeq
<1>6. P[k] \in Recoveries
  BY <1>0, <1>4, <1>5, ReplayType
<1> QED
  BY <1>2, <1>6

LEMMA ReadableRecords ==
  ASSUME NEW f \in Files, Readable(f)
  PROVE  RecordsOf(f) \in Seq(Records)
<1>1. f.lines \in Seq(Records \cup {Torn}) /\ f.tail \in Records \cup {Nothing, Torn}
  BY DEF Files
<1>2. \A i \in 1..Len(f.lines) : f.lines[i] \in Records
  BY <1>1, ElementOfSeq, LenProperties DEF Readable
<1>3. f.lines \in Seq(Records)
  <2>1. f.lines \in [1..Len(f.lines) -> Records] /\ Len(f.lines) \in Nat
    BY <1>1, <1>2, LenProperties
  <2> QED
    BY <2>1, SeqDef
<1> QED
  BY <1>1, <1>3 DEF RecordsOf

LEMMA LogEntries ==
  ASSUME NEW f \in Files
  PROVE  RecordsOf(f) \in Seq(Entries)
BY DEF Files, RecordsOf, Entries

LEMMA RecoveryType ==
  ASSUME NEW f \in Files
  PROVE  Recovery(f) \in Recoveries
<1>1. RecordsOf(f) \in Seq(Entries)
  BY LogEntries
<1>2. Len(RecordsOf(f)) \in 0..Len(RecordsOf(f))
  BY <1>1, LenProperties
<1> QED
  BY <1>1, <1>2, PassType DEF Recovery

LEMMA WritingType ==
  ASSUME NEW f \in Files, NEW record \in Records
  PROVE  /\ Written(f, record) \in Files
         /\ Interrupted(f, record) \subseteq Files
<1>1. Continued(f, record) \in Records \cup {Torn}
  BY DEF Continued
<1>2. Written(f, record) \in Files
  BY <1>1 DEF Written, Files
<1>3. [f EXCEPT !.tail = Torn] \in Files /\ [f EXCEPT !.tail = Continued(f, record)] \in Files
  BY <1>1 DEF Files
<1> QED
  BY <1>2, <1>3 DEF Interrupted
---------------------------------------------------------------------------
(* What one round does to the fields that count.                           *)
LEMMA ReplayFields ==
  ASSUME NEW state, NEW record
  PROVE  /\ Replay(state, record).last_seq = Larger(state.last_seq, record.seq)
         /\ Replay(state, record).usage = state.usage + One(record.phase = "response")
         /\ Replay(state, record).succeeded = state.succeeded + One(record.phase = "done")
         /\ Replay(state, record).completed =
              state.completed \cup IF record.phase \in {"done", "error"} THEN {record.seq} ELSE {}
         /\ record.phase = "await_user" => Replay(state, record).pending_ask = record.seq
BY DEF Replay

(* What the pass knows of the numbers: last_seq is one of them, or -1, and *)
(* none is above it.                                                       *)
LEMMA LastSeqIsTheLast ==
  ASSUME NEW log \in Seq(Entries)
  PROVE  \A j \in 0..Len(log) :
           /\ -1 <= Pass(log)[j].last_seq
           /\ \A i \in 1..j : log[i].seq <= Pass(log)[j].last_seq
           /\ Pass(log)[j].last_seq \in {-1} \cup {log[i].seq : i \in 1..j}
<1> DEFINE n == Len(log)
           P == Pass(log)
           Known(j) == /\ -1 <= P[j].last_seq
                       /\ \A i \in 1..j : log[i].seq <= P[j].last_seq
                       /\ P[j].last_seq \in {-1} \cup {log[i].seq : i \in 1..j}
           Good == {j \in 0..n : Known(j)}
<1>1. /\ n \in Nat /\ P[0] = NothingRecovered
      /\ \A j \in 1..n : P[j] = Replay(P[j - 1], log[j])
      /\ \A j \in 0..n : P[j].last_seq \in Int
  BY PassSteps, PassType DEF Recoveries
<1>2. \A i \in 1..n : log[i].seq \in Int
  BY <1>1, ElementOfSeq, EntriesAreTyped
<1> HIDE DEF n, P
<1>3. 0 \in Good
  BY <1>1 DEF NothingRecovered
<1>4. ASSUME NEW k \in 1..n, k - 1 \in Good PROVE k \in Good
  <2>1. /\ k \in 0..n /\ k - 1 \in 0..n /\ 1..k = 1..(k - 1) \cup {k}
        /\ \A i \in 1..k : i \in 1..n
    BY <1>1
  <2>2. P[k].last_seq = Larger(P[k - 1].last_seq, log[k].seq)
    BY <1>1, ReplayFields
  <2>3. P[k].last_seq \in Int /\ P[k - 1].last_seq \in Int /\ log[k].seq \in Int
    BY <1>1, <1>2, <2>1
  <2>4. P[k - 1].last_seq <= P[k].last_seq /\ log[k].seq <= P[k].last_seq
    BY <2>2, <2>3 DEF Larger
  <2>5. Known(k - 1)
    BY <1>4
  <2>6. -1 <= P[k].last_seq
    BY <2>3, <2>4, <2>5
  <2>7. \A i \in 1..k : log[i].seq <= P[k].last_seq
    BY <1>2, <2>1, <2>3, <2>4, <2>5
  <2>8. P[k].last_seq \in {-1} \cup {log[i].seq : i \in 1..k}
    BY <2>1, <2>2, <2>5 DEF Larger
  <2> QED
    BY <2>1, <2>6, <2>7, <2>8
<1> HIDE DEF Good
<1>5. \A k \in 0..n : k \in Good
  BY <1>1, <1>3, <1>4, UpTo
<1> QED
  BY <1>5 DEF Good, n, P
---------------------------------------------------------------------------
(* One more record is one more round.                                      *)
LEMMA PassOfAppend ==
  ASSUME NEW S, NEW log \in Seq(S), NEW record \in S
  PROVE  /\ Append(log, record) \in Seq(S)
         /\ Len(Append(log, record)) = Len(log) + 1
         /\ Pass(Append(log, record))[Len(log) + 1] = Replay(Pass(log)[Len(log)], record)
<1> DEFINE longer == Append(log, record)
           P == Pass(log)
           Q == Pass(longer)
           Bad == {j \in Nat : j <= Len(log) /\ P[j] # Q[j]}
<1>0. /\ longer \in Seq(S) /\ Len(longer) = Len(log) + 1 /\ Len(log) \in Nat
      /\ longer[Len(log) + 1] = record /\ \A j \in 1..Len(log) : longer[j] = log[j]
  BY LenProperties
<1> HIDE DEF longer
<1>1. /\ P[0] = NothingRecovered /\ \A j \in 1..Len(log) : P[j] = Replay(P[j - 1], log[j])
      /\ Q[0] = NothingRecovered /\ \A j \in 1..(Len(log) + 1) : Q[j] = Replay(Q[j - 1], longer[j])
  BY <1>0, PassSteps
<1> HIDE DEF P, Q
<1>2. Bad = {}
  <2>1. SUFFICES ASSUME Bad # {} PROVE FALSE
    OBVIOUS
  <2>2. PICK k \in Bad : \A m \in Bad : k <= m
    BY <2>1, FirstOf
  <2>3. k - 1 \in Nat /\ k - 1 \notin Bad /\ k \in 1..Len(log)
    BY <1>0, <1>1, <2>2
  <2>4. P[k - 1] = Q[k - 1]
    BY <1>0, <2>3
  <2>5. k \in 1..(Len(log) + 1)
    BY <1>0, <2>3
  <2>6. P[k] = Replay(P[k - 1], log[k]) /\ Q[k] = Replay(Q[k - 1], log[k])
    BY <1>0, <1>1, <2>3, <2>5
  <2> QED
    BY <2>2, <2>4, <2>6
<1>3. P[Len(log)] = Q[Len(log)]
  BY <1>0, <1>2
<1>4. Q[Len(log) + 1] = Replay(Q[Len(log)], record)
  <2>1. Len(log) + 1 \in 1..(Len(log) + 1) /\ (Len(log) + 1) - 1 = Len(log)
    BY <1>0
  <2> QED
    BY <1>0, <1>1, <2>1
<1> QED
  BY <1>0, <1>3, <1>4 DEF longer, P, Q
---------------------------------------------------------------------------
(* The rounds of the pass, as they are used below.                         *)
LEMMA Round ==
  ASSUME NEW log \in Seq(Entries)
  PROVE  /\ Len(log) \in Nat /\ DOMAIN log = 1..Len(log)
         /\ Pass(log)[0] = NothingRecovered
         /\ \A j \in 0..Len(log) : Pass(log)[j] \in Recoveries
         /\ \A j \in 1..Len(log) :
              /\ log[j] \in Entries
              /\ Pass(log)[j - 1] \in Recoveries
              /\ Pass(log)[j] = Replay(Pass(log)[j - 1], log[j])
<1>1. Len(log) \in Nat /\ DOMAIN log = 1..Len(log)
  BY LenProperties
<1>2. \A j \in 1..Len(log) : log[j] \in Entries /\ j - 1 \in 0..Len(log)
  BY <1>1, ElementOfSeq
<1> QED
  BY <1>1, <1>2, PassSteps, PassType
---------------------------------------------------------------------------
(* Record i opens a call, closes one, or asks the owner.                   *)
Opens(log, i)  == log[i].phase = "in_flight"
Closes(log, i) == log[i].phase \in {"done", "error"}
Asks(log, i)   == log[i].phase = "await_user"

(* Call i is closed by one of the first j records.                         *)
ClosedBy(log, i, j) == \E k \in (i + 1)..j : Closes(log, k) /\ log[k].seq = log[i].seq

OpenBy(log, j) == {log[i] : i \in {i \in 1..j : Opens(log, i) /\ ~ClosedBy(log, i, j)}}

(* No number opens two calls.                                              *)
NumbersOpenOnce(log) ==
  \A i, j \in DOMAIN log : Opens(log, i) /\ Opens(log, j) /\ log[i].seq = log[j].seq => i = j

LEMMA ClosedByNext ==
  ASSUME NEW log, NEW k \in Nat, NEW i \in 1..k
  PROVE  ClosedBy(log, i, k + 1) <=>
           \/ ClosedBy(log, i, k)
           \/ Closes(log, k + 1) /\ log[k + 1].seq = log[i].seq
<1>1. (i + 1)..(k + 1) = ((i + 1)..k) \cup {k + 1}
  OBVIOUS
<1> QED
  BY <1>1 DEF ClosedBy

(* What a round does to the open calls.                                    *)
LEMMA ReplayOpen ==
  ASSUME NEW state, NEW record
  PROVE  LET call == {o \in state.open : o.seq = record.seq} IN
         /\ record.phase = "in_flight" => Replay(state, record).open = (state.open \ call) \cup {record}
         /\ record.phase \in {"done", "error"} => Replay(state, record).open = state.open \ call
         /\ record.phase \notin {"in_flight", "done", "error"} => Replay(state, record).open = state.open
BY DEF Replay

(* The open calls of the pass are those the records have not closed.       *)
LEMMA OpenIsRight ==
  ASSUME NEW log \in Seq(Entries), NumbersOpenOnce(log)
  PROVE  \A j \in 0..Len(log) : Pass(log)[j].open = OpenBy(log, j)
<1> DEFINE n == Len(log)
           P == Pass(log)
           Good == {j \in 0..n : P[j].open = OpenBy(log, j)}
<1>1. /\ n \in Nat /\ DOMAIN log = 1..n
      /\ P[0] = NothingRecovered
      /\ \A j \in 1..n : P[j] = Replay(P[j - 1], log[j])
  BY Round
<1> HIDE DEF n, P
<1>2. 0 \in Good
  BY <1>1 DEF NothingRecovered, OpenBy
<1>3. ASSUME NEW k \in 1..n, k - 1 \in Good PROVE k \in Good
  <2> DEFINE j == k - 1
             r == log[k]
             call == {o \in P[j].open : o.seq = r.seq}
  <2>1. j \in Nat /\ j + 1 = k /\ k \in DOMAIN log /\ 1..k = 1..j \cup {k}
    BY <1>1
  <2>2. P[j].open = OpenBy(log, j)
    BY <1>3
  <2>3. P[k] = Replay(P[j], r)
    BY <1>1
  <2>4. \A i \in 1..j : ClosedBy(log, i, k) <=>
          ClosedBy(log, i, j) \/ (Closes(log, k) /\ r.seq = log[i].seq)
    BY <2>1, ClosedByNext
  <2>5. ~ClosedBy(log, k, k)
    BY DEF ClosedBy
  <2>6. \A i \in 1..j : i \in DOMAIN log /\ i # k
    BY <1>1, <2>1
  <2> HIDE DEF j
  <2>7. CASE r.phase = "in_flight"
    <3>1. P[k].open = (P[j].open \ call) \cup {r}
      BY <2>3, <2>7, ReplayOpen
    <3>2. call = {}
      BY <2>1, <2>2, <2>6, <2>7 DEF OpenBy, NumbersOpenOnce, Opens
    <3>3. OpenBy(log, k) = OpenBy(log, j) \cup {r}
      BY <2>1, <2>4, <2>5, <2>7 DEF OpenBy, Opens, Closes
    <3>4. P[k].open = OpenBy(log, k)
      BY <2>2, <3>1, <3>2, <3>3
    <3> QED
      BY <3>4
  <2>8. CASE r.phase \in {"done", "error"}
    <3>1. P[k].open = P[j].open \ call
      BY <2>3, <2>8, ReplayOpen
    <3>2. OpenBy(log, k) = {o \in OpenBy(log, j) : o.seq # r.seq}
      BY <2>1, <2>4, <2>8 DEF OpenBy, Opens, Closes
    <3>3. P[k].open = OpenBy(log, k)
      BY <2>2, <3>1, <3>2
    <3> QED
      BY <3>3
  <2>9. CASE r.phase \notin {"in_flight", "done", "error"}
    <3>1. P[k].open = P[j].open
      BY <2>3, <2>9, ReplayOpen
    <3>2. OpenBy(log, k) = OpenBy(log, j)
      BY <2>1, <2>4, <2>9 DEF OpenBy, Opens, Closes
    <3> QED
      BY <2>2, <3>1, <3>2
  <2> QED
    BY <2>7, <2>8, <2>9
<1> HIDE DEF Good
<1>4. \A k \in 0..n : k \in Good
  BY <1>1, <1>2, <1>3, UpTo
<1> QED
  BY <1>4 DEF Good, n, P
---------------------------------------------------------------------------
(* The records that close a call, and the answers that were counted.       *)
LEMMA CompletedIsRight ==
  ASSUME NEW log \in Seq(Entries)
  PROVE  \A j \in 0..Len(log) :
           Pass(log)[j].completed = {log[i].seq : i \in {i \in 1..j : Closes(log, i)}}
<1> DEFINE n == Len(log)
           P == Pass(log)
           Seen(j) == {log[i].seq : i \in {i \in 1..j : Closes(log, i)}}
           Good == {j \in 0..n : P[j].completed = Seen(j)}
<1>1. /\ n \in Nat /\ P[0] = NothingRecovered
      /\ \A j \in 1..n : P[j] = Replay(P[j - 1], log[j])
  BY Round
<1> HIDE DEF n, P
<1>2. 0 \in Good
  BY <1>1 DEF NothingRecovered
<1>3. ASSUME NEW k \in 1..n, k - 1 \in Good PROVE k \in Good
  <2>1. 1..k = 1..(k - 1) \cup {k}
    BY <1>1
  <2>2. Seen(k) = Seen(k - 1) \cup IF Closes(log, k) THEN {log[k].seq} ELSE {}
    BY <2>1
  <2>3. P[k].completed = P[k - 1].completed \cup IF Closes(log, k) THEN {log[k].seq} ELSE {}
    BY <1>1, ReplayFields DEF Closes
  <2> QED
    BY <1>3, <2>2, <2>3
<1> HIDE DEF Good
<1>4. \A k \in 0..n : k \in Good
  BY <1>1, <1>2, <1>3, UpTo
<1> QED
  BY <1>4 DEF Good, n, P

LEMMA CountsAreRight ==
  ASSUME NEW log \in Seq(Entries)
  PROVE  \A j \in 0..Len(log) :
           /\ Pass(log)[j].usage = Cardinality({i \in 1..j : log[i].phase = "response"})
           /\ Pass(log)[j].succeeded = Cardinality({i \in 1..j : log[i].phase = "done"})
<1> DEFINE n == Len(log)
           P == Pass(log)
           Of(phase, j) == {i \in 1..j : log[i].phase = phase}
           Good == {j \in 0..n : /\ IsFiniteSet(Of("response", j)) /\ IsFiniteSet(Of("done", j))
                                 /\ P[j].usage = Cardinality(Of("response", j))
                                 /\ P[j].succeeded = Cardinality(Of("done", j))}
<1>1. /\ n \in Nat /\ P[0] = NothingRecovered
      /\ \A j \in 1..n : P[j] = Replay(P[j - 1], log[j])
  BY Round
<1> HIDE DEF n, P
<1>2. 0 \in Good
  <2>1. Of("response", 0) = {} /\ Of("done", 0) = {}
    OBVIOUS
  <2> QED
    BY <1>1, <2>1, FS_EmptySet DEF NothingRecovered
<1>3. ASSUME NEW k \in 1..n, NEW phase, IsFiniteSet(Of(phase, k - 1))
      PROVE  /\ IsFiniteSet(Of(phase, k))
             /\ Cardinality(Of(phase, k)) = Cardinality(Of(phase, k - 1)) + One(log[k].phase = phase)
  <2>1. 1..k = 1..(k - 1) \cup {k} /\ k \notin 1..(k - 1)
    BY <1>1
  <2>2. CASE log[k].phase = phase
    <3>1. Of(phase, k) = Of(phase, k - 1) \cup {k} /\ k \notin Of(phase, k - 1)
      BY <2>1, <2>2
    <3> HIDE DEF Of
    <3>2. ASSUME NEW S, IsFiniteSet(S), k \notin S
          PROVE  IsFiniteSet(S \cup {k}) /\ Cardinality(S \cup {k}) = Cardinality(S) + 1
      BY <3>2, FS_AddElement
    <3>3. IsFiniteSet(Of(phase, k)) /\ Cardinality(Of(phase, k)) = Cardinality(Of(phase, k - 1)) + 1
      BY <1>3, <3>1, <3>2
    <3> QED
      BY <2>2, <3>3 DEF One
  <2>3. CASE log[k].phase # phase
    <3>1. Of(phase, k) = Of(phase, k - 1)
      BY <2>1, <2>3
    <3> HIDE DEF Of
    <3>2. Cardinality(Of(phase, k - 1)) \in Nat
      BY <1>3, FS_CardinalityType
    <3> QED
      BY <1>3, <2>3, <3>1, <3>2 DEF One
  <2> QED
    BY <2>2, <2>3
<1>4. ASSUME NEW k \in 1..n, k - 1 \in Good PROVE k \in Good
  <2>1. /\ P[k].usage = P[k - 1].usage + One(log[k].phase = "response")
        /\ P[k].succeeded = P[k - 1].succeeded + One(log[k].phase = "done")
    BY <1>1, ReplayFields
  <2> HIDE DEF Of
  <2>2. /\ IsFiniteSet(Of("response", k - 1)) /\ P[k - 1].usage = Cardinality(Of("response", k - 1))
        /\ IsFiniteSet(Of("done", k - 1)) /\ P[k - 1].succeeded = Cardinality(Of("done", k - 1))
    BY <1>4
  <2>3. k \in 0..n
    BY <1>1
  <2> QED
    BY <1>3, <2>1, <2>2, <2>3
<1> HIDE DEF Good
<1>5. \A k \in 0..n : k \in Good
  BY <1>1, <1>2, <1>4, UpTo
<1> QED
  BY <1>5 DEF Good, n, P
---------------------------------------------------------------------------
(* The ask the owner owes an answer to.                                    *)
AsksNumbered(log) == \A i \in DOMAIN log : Asks(log, i) => log[i].seq # -1

(* Among the first j records, call i is the last that asks, and is open.   *)
OwedBy(log, i, j) ==
  /\ i \in 1..j /\ Asks(log, i) /\ ~ClosedBy(log, i, j)
  /\ \A m \in 1..j : Asks(log, m) => m <= i

AskFound(log, j, ask) ==
  /\ ask = -1 => \A i \in 1..j : ~OwedBy(log, i, j)
  /\ ask # -1 => \E i \in 1..j : OwedBy(log, i, j) /\ log[i].seq = ask

LEMMA ReplayAsk ==
  ASSUME NEW state, NEW record
  PROVE  Replay(state, record).pending_ask =
           IF record.phase = "await_user" THEN record.seq
           ELSE IF record.phase \in {"done", "error"} /\ state.pending_ask = record.seq
             THEN -1 ELSE state.pending_ask
BY DEF Replay

LEMMA AskIsRight ==
  ASSUME NEW log \in Seq(Entries), AsksNumbered(log)
  PROVE  \A j \in 0..Len(log) : AskFound(log, j, Pass(log)[j].pending_ask)
<1> DEFINE n == Len(log)
           P == Pass(log)
           Good == {j \in 0..n : AskFound(log, j, P[j].pending_ask)}
<1>1. /\ n \in Nat /\ DOMAIN log = 1..n /\ P[0] = NothingRecovered
      /\ \A j \in 1..n : P[j] = Replay(P[j - 1], log[j])
  BY Round
<1> HIDE DEF n, P
<1>2. 0 \in Good
  BY <1>1 DEF NothingRecovered, AskFound
<1>3. ASSUME NEW k \in 1..n, k - 1 \in Good PROVE k \in Good
  <2> DEFINE j == k - 1
             r == log[k]
             ask == P[j].pending_ask
  <2>1. j \in Nat /\ j + 1 = k /\ k \in DOMAIN log /\ 1..k = 1..j \cup {k}
        /\ \A i \in 1..j : i < k
    BY <1>1
  <2>2. AskFound(log, j, ask)
    BY <1>3
  <2>3. P[k].pending_ask = IF r.phase = "await_user" THEN r.seq
           ELSE IF r.phase \in {"done", "error"} /\ ask = r.seq THEN -1 ELSE ask
    BY <1>1, ReplayAsk
  <2>4. \A i \in 1..j : ClosedBy(log, i, k) <=>
          ClosedBy(log, i, j) \/ (Closes(log, k) /\ r.seq = log[i].seq)
    BY <2>1, ClosedByNext
  <2>5. ~ClosedBy(log, k, k)
    BY DEF ClosedBy
  <2> HIDE DEF j, ask
  <2>6. CASE r.phase = "await_user"
    <3>1. OwedBy(log, k, k) /\ P[k].pending_ask = r.seq /\ r.seq # -1
      BY <2>1, <2>3, <2>5, <2>6 DEF OwedBy, Asks, AsksNumbered
    <3>2. k \in 1..k
      BY <2>1
    <3> QED
      BY <3>1, <3>2 DEF AskFound
  <2>7. CASE r.phase # "await_user"
    <3>1. \A i \in 1..j : OwedBy(log, i, k) <=>
            OwedBy(log, i, j) /\ ~(Closes(log, k) /\ r.seq = log[i].seq)
      BY <2>1, <2>4, <2>7 DEF OwedBy, Asks
    <3>2. ~OwedBy(log, k, k)
      BY <2>7 DEF OwedBy, Asks
    <3>3. CASE ask = -1
      <4>1. P[k].pending_ask = -1
        BY <2>3, <2>7, <3>3
      <4> QED
        BY <2>1, <2>2, <3>1, <3>2, <3>3, <4>1 DEF AskFound
    <3>4. CASE ask # -1
      <4>1. PICK i \in 1..j : OwedBy(log, i, j) /\ log[i].seq = ask
        BY <2>2, <3>4 DEF AskFound
      <4>2. \A m \in 1..j : OwedBy(log, m, j) => m = i
        BY <2>1, <4>1 DEF OwedBy
      <4>3. CASE Closes(log, k) /\ r.seq = ask
        <5>1. P[k].pending_ask = -1
          BY <2>3, <2>7, <4>3 DEF Closes
        <5> QED
          BY <2>1, <3>1, <3>2, <4>1, <4>2, <4>3, <5>1 DEF AskFound
      <4>4. CASE ~(Closes(log, k) /\ r.seq = ask)
        <5>1. P[k].pending_ask = ask
          BY <2>3, <2>7, <4>4 DEF Closes
        <5>2. OwedBy(log, i, k)
          BY <3>1, <4>1, <4>4
        <5> QED
          BY <2>1, <3>4, <4>1, <5>1, <5>2 DEF AskFound
      <4> QED
        BY <4>3, <4>4
    <3> QED
      BY <3>3, <3>4
  <2> QED
    BY <2>6, <2>7
<1> HIDE DEF Good
<1>4. \A k \in 0..n : k \in Good
  BY <1>1, <1>2, <1>3, UpTo
<1> QED
  BY <1>4 DEF Good, n, P
---------------------------------------------------------------------------
(* The results that are shown again.                                       *)

(* What a round shows was shown before, or closes an open call.            *)
LEMMA ReplayRecent ==
  ASSUME NEW state \in Recoveries, NEW record \in Entries
  PROVE  \A i \in DOMAIN Replay(state, record).recent :
           \/ \E m \in DOMAIN state.recent : Replay(state, record).recent[i] = state.recent[m]
           \/ /\ Replay(state, record).recent[i] = record.seq
              /\ record.phase = "done" /\ \E o \in state.open : o.seq = record.seq
<1> DEFINE call  == {o \in state.open : o.seq = record.seq}
           old   == state.recent
           shown == IF record.phase = "done" /\ call # {} THEN Append(old, record.seq) ELSE old
           new   == IF Len(shown) > RecentResults THEN Tail(shown) ELSE shown
           Known(x) == \/ \E m \in DOMAIN old : x = old[m]
                       \/ x = record.seq /\ record.phase = "done" /\ call # {}
<1>1. Replay(state, record).recent = new
  BY DEF Replay
<1>2. old \in Seq(Int) /\ record.seq \in Int
  BY EntriesAreTyped DEF Recoveries
<1>3. shown \in Seq(Int) /\ \A i \in 1..Len(shown) : Known(shown[i])
  <2>1. CASE record.phase = "done" /\ call # {}
    <3>1. shown = Append(old, record.seq)
      BY <2>1
    <3>2. shown \in Seq(Int) /\ Len(shown) = Len(old) + 1 /\ Len(old) \in Nat
          /\ DOMAIN old = 1..Len(old)
          /\ shown[Len(old) + 1] = record.seq /\ \A i \in 1..Len(old) : shown[i] = old[i]
      BY <1>2, <3>1, LenProperties
    <3> HIDE DEF shown, old, call
    <3> QED
      BY <2>1, <3>2
  <2>2. CASE ~(record.phase = "done" /\ call # {})
    <3>1. shown = old /\ DOMAIN old = 1..Len(old)
      BY <1>2, <2>2, LenProperties
    <3> HIDE DEF shown, old, call
    <3> QED
      BY <1>2, <3>1
  <2> QED
    BY <2>1, <2>2
<1> HIDE DEF shown, old, Known
<1>4. new \in Seq(Int) /\ \A i \in 1..Len(new) : \E m \in 1..Len(shown) : new[i] = shown[m]
  <2>1. CASE Len(shown) > RecentResults
    <3>1. shown # <<>> /\ Len(shown) \in Nat
      BY <1>3, <2>1, EmptySeq, LenProperties, JournalAssumption
    <3>2. /\ Tail(shown) \in Seq(Int) /\ Len(Tail(shown)) = Len(shown) - 1
          /\ \A i \in 1..Len(Tail(shown)) : Tail(shown)[i] = shown[i + 1]
      BY <1>3, <3>1, HeadTailProperties
    <3> QED
      BY <2>1, <3>1, <3>2
  <2>2. CASE ~(Len(shown) > RecentResults)
    BY <1>3, <2>2
  <2> QED
    BY <2>1, <2>2
<1> HIDE DEF new
<1>5. \A i \in DOMAIN new : Known(new[i])
  BY <1>3, <1>4, LenProperties
<1> QED
  BY <1>1, <1>5 DEF Known, old

(* A call whose result is shown was begun, is closed, and stays so.        *)
Shown(log, j, state) ==
  \A i \in DOMAIN state.recent :
    /\ state.recent[i] \in state.completed
    /\ \A o \in state.open : o.seq # state.recent[i]
    /\ \E m \in 1..j : Opens(log, m) /\ log[m].seq = state.recent[i]

LEMMA RecentIsRight ==
  ASSUME NEW log \in Seq(Entries), NumbersOpenOnce(log)
  PROVE  \A j \in 0..Len(log) : Shown(log, j, Pass(log)[j])
<1> DEFINE n == Len(log)
           P == Pass(log)
           Good == {j \in 0..n : Shown(log, j, P[j])}
<1>1. /\ n \in Nat /\ DOMAIN log = 1..n /\ P[0] = NothingRecovered
      /\ \A j \in 1..n : /\ P[j] = Replay(P[j - 1], log[j]) /\ P[j - 1] \in Recoveries
                         /\ log[j] \in Entries
      /\ \A j \in 0..n : P[j].open = OpenBy(log, j)
  BY Round, OpenIsRight
<1> HIDE DEF n, P
<1>2. 0 \in Good
  <2>1. DOMAIN NothingRecovered.recent = {}
    BY EmptySeq DEF NothingRecovered
  <2> QED
    BY <1>1, <2>1 DEF Shown
<1>3. ASSUME NEW k \in 1..n, k - 1 \in Good PROVE k \in Good
  <2> DEFINE j == k - 1
             r == log[k]
             old == P[j]
             new == P[k]
  <2>1. j \in 0..n /\ j + 1 = k /\ k \in DOMAIN log /\ 1..k = 1..j \cup {k}
        /\ \A i \in 1..j : i \in DOMAIN log /\ i # k
    BY <1>1
  <2>2. Shown(log, j, old) /\ old.open = OpenBy(log, j) /\ old \in Recoveries
    BY <1>1, <1>3, <2>1
  <2>3. new = Replay(old, r) /\ r \in Entries
    BY <1>1
  <2> HIDE DEF j, old, new
  <2>4. new.completed = old.completed \cup IF Closes(log, k) THEN {r.seq} ELSE {}
    BY <2>3, ReplayFields DEF Closes
  <2>5. /\ \A o \in new.open : o \in old.open \/ (o = r /\ Opens(log, k))
        /\ Closes(log, k) => \A o \in new.open : o \in old.open /\ o.seq # r.seq
    BY <2>3, ReplayOpen DEF Opens, Closes
  <2>6. ASSUME NEW i \in DOMAIN new.recent
        PROVE  /\ new.recent[i] \in new.completed
               /\ \A o \in new.open : o.seq # new.recent[i]
               /\ \E m \in 1..k : Opens(log, m) /\ log[m].seq = new.recent[i]
    <3> DEFINE s == new.recent[i]
    <3>1. CASE \E m \in DOMAIN old.recent : s = old.recent[m]
      <4>1. /\ s \in old.completed /\ \A o \in old.open : o.seq # s
            /\ \E m \in 1..j : Opens(log, m) /\ log[m].seq = s
        BY <2>2, <3>1 DEF Shown
      <4> HIDE DEF s
      <4>2. Opens(log, k) => r.seq # s
        BY <2>1, <4>1 DEF NumbersOpenOnce
      <4> QED
        BY <2>1, <2>4, <2>5, <4>1, <4>2 DEF s
    <3>2. CASE s = r.seq /\ r.phase = "done" /\ \E o \in old.open : o.seq = r.seq
      <4>1. Closes(log, k)
        BY <3>2 DEF Closes
      <4>2. \E m \in 1..j : Opens(log, m) /\ log[m].seq = r.seq
        BY <2>2, <3>2 DEF OpenBy
      <4> QED
        BY <2>1, <2>4, <2>5, <3>2, <4>1, <4>2
    <3> QED
      BY <2>2, <2>3, <3>1, <3>2, ReplayRecent
  <2>7. Shown(log, k, new)
    BY <2>6 DEF Shown
  <2> QED
    BY <2>7 DEF new
<1> HIDE DEF Good
<1>4. \A k \in 0..n : k \in Good
  BY <1>1, <1>2, <1>3, UpTo
<1> QED
  BY <1>4 DEF Good, n, P
---------------------------------------------------------------------------
(* read_recovery_sync finds what the records say, however many there are,  *)
(* if no number opens two calls and every ask has one: the last number,    *)
(* the calls that closed and those that did so without an error, the open  *)
(* ones, the answers, and the ask that is owed.                            *)
THEOREM RecoveryReadsTheLog ==
  ASSUME NEW f \in Files, NumbersOpenOnce(RecordsOf(f)), AsksNumbered(RecordsOf(f))
  PROVE  RecoveryIsRight(f)
<1> DEFINE log == RecordsOf(f)
           n == Len(log)
           found == Pass(log)[n]
<1>1. log \in Seq(Entries)
  BY LogEntries
<1>2. n \in Nat /\ DOMAIN log = 1..n /\ n \in 0..n
  BY <1>1, Round
<1>3. found = Recovery(f)
  BY DEF Recovery
<1> HIDE DEF log
<1>4. \A i \in 1..n : ClosedAfter(log, i) <=> ClosedBy(log, i, n)
  BY <1>2 DEF ClosedAfter, ClosedBy, Indices, Closes
<1>5. found.open = OpenCalls(log)
  <2>1. found.open = OpenBy(log, n)
    BY <1>1, <1>2, OpenIsRight DEF log
  <2> QED
    BY <1>2, <1>4, <2>1 DEF OpenCalls, OpenBy, Indices, Opens
<1>6. /\ found.usage = Cardinality(Indices(log, {"response"}))
      /\ found.succeeded = Cardinality(Indices(log, {"done"}))
  <2>1. /\ Indices(log, {"response"}) = {i \in 1..n : log[i].phase = "response"}
        /\ Indices(log, {"done"}) = {i \in 1..n : log[i].phase = "done"}
    BY <1>2 DEF Indices
  <2> QED
    BY <1>1, <1>2, <2>1, CountsAreRight
<1>7. found.completed = {log[i].seq : i \in Indices(log, {"done", "error"})}
  <2>1. Indices(log, {"done", "error"}) = {i \in 1..n : Closes(log, i)}
    BY <1>2 DEF Indices, Closes
  <2> QED
    BY <1>1, <1>2, <2>1, CompletedIsRight
<1>8. /\ \A i \in DOMAIN log : log[i].seq <= found.last_seq
      /\ found.last_seq \in {-1} \cup {log[i].seq : i \in DOMAIN log}
  BY <1>1, <1>2, LastSeqIsTheLast
<1>9. PendingAsk(log) = IF found.pending_ask = -1 THEN {} ELSE {found.pending_ask}
  <2>1. AskFound(log, n, found.pending_ask)
    BY <1>1, <1>2, AskIsRight DEF log
  <2>2. PendingAsk(log) = {log[i].seq : i \in {i \in 1..n : OwedBy(log, i, n)}}
    BY <1>2, <1>4 DEF PendingAsk, OwedBy, Indices, Asks
  <2>3. \A i, j \in 1..n : OwedBy(log, i, n) /\ OwedBy(log, j, n) => i = j
    BY <1>2 DEF OwedBy
  <2> HIDE DEF found, n
  <2> QED
    BY <2>1, <2>2, <2>3 DEF AskFound
<1>10. \A i \in DOMAIN found.recent :
         found.recent[i] \in found.completed \ {o.seq : o \in found.open}
  <2>1. Shown(log, n, found)
    BY <1>1, <1>2, RecentIsRight DEF log
  <2> HIDE DEF found
  <2> QED
    BY <2>1 DEF Shown
<1> QED
  BY <1>3, <1>5, <1>6, <1>7, <1>8, <1>9, <1>10 DEF RecoveryIsRight, log
---------------------------------------------------------------------------
(* The inductive invariant.  Its parts over the file are operators of      *)
(* their own, so that a step which leaves the file alone leaves them alone.*)

(* No record has a number above n.                                         *)
NumbersKnown(f, n) ==
  /\ -1 <= n
  /\ \A i \in DOMAIN f.lines : f.lines[i].seq <= n
  /\ f.tail.seq <= n

(* A record with number n can open a call, and will be a line of its own.  *)
Unopened(f, n) == f.tail = Nothing /\ n \notin InFlight(f.lines)

(* What acted is a whole line, which nothing written later can spoil.      *)
Ahead(f, acted) == \A call \in acted : call.seq \in InFlight(f.lines)

OpenedOnce(f) ==
  LET log == RecordsOf(f)  opened == Indices(log, {"in_flight"}) IN
  \A i, j \in opened : log[i].seq = log[j].seq => i = j

ActedOnce(acted) == \A a, b \in acted : a.seq = b.seq => a = b

NotActed(n, acted) == \A call \in acted : call.seq # n

(* The last line is the ask of call n.                                     *)
Asked(f, n) ==
  /\ f.tail = Nothing /\ f.lines # <<>>
  /\ f.lines[Len(f.lines)] = Record("await_user", n, NoTool)

Counted(f, tokens) == Readable(f) => Recovery(f).usage = tokens

(* Which record is on its way, where.                                      *)
PendingFits ==
  pending # Nothing =>
    \/ place = "turn" /\ pending = Record("server_failed", -1, NoTool)
    \/ place = "answered" /\ pending = Record("response", -1, NoTool)
    \/ place = "calling" /\ pending = Record("in_flight", next_seq, Head(calls))
    \/ place = "asking" /\ pending = Record("await_user", next_seq, NoTool)
    \/ /\ place = "closing"
       /\ pending \in {Record(phase, next_seq, NoTool) : phase \in {"done", "error"}}

(* A session's first record may continue a line that was cut short, but    *)
(* never the record of a call.                                             *)
TailIsClean ==
  \/ place \in {"next", "calling", "acting", "asking", "parked"}
  \/ place \in {"answered", "closing"} /\ pending = Nothing
  => file.tail = Nothing

Control ==
  /\ place # "idle" => session >= 1 /\ verdict = "none"
  /\ session = 0 => file = NewFile
  /\ place \in {"calling", "acting", "asking", "parked", "closing"} => calls # <<>>
  /\ PendingFits
  /\ TailIsClean

Data ==
  /\ NumbersKnown(file, next_seq)
  /\ Ahead(file, executed)
  /\ OpenedOnce(file)
  /\ ActedOnce(executed)
  /\ place = "calling" /\ pending # Nothing => Unopened(file, next_seq)
  /\ place = "calling" /\ pending = Nothing => next_seq \in InFlight(file.lines)
  /\ place = "calling" => NotActed(next_seq, executed)
  /\ (place \in {"asking", "parked"} /\ pending = Nothing) \/ verdict = "held"
       => Asked(file, next_seq)
  /\ place # "idle" => Counted(file, usage - One(pending.phase = "response"))

IndInv == TypeOK /\ Control /\ Data
---------------------------------------------------------------------------
(* What writing does to the file.                                          *)
LEMMA LinesOf ==
  ASSUME NEW f \in Files
  PROVE  /\ f.lines \in Seq(Records \cup {Torn}) /\ Len(f.lines) \in Nat
         /\ DOMAIN f.lines = 1..Len(f.lines)
         /\ \A i \in DOMAIN f.lines : f.lines[i] \in Records \cup {Torn}
         /\ f.tail \in Records \cup {Nothing, Torn}
<1>1. f.lines \in Seq(Records \cup {Torn}) /\ f.tail \in Records \cup {Nothing, Torn}
  BY DEF Files
<1> QED
  BY <1>1, LenProperties, ElementOfSeq

LEMMA LinesWritten ==
  ASSUME NEW f \in Files, NEW record \in Records
  PROVE  LET g == Written(f, record) IN
         /\ g.tail = Nothing /\ Len(g.lines) = Len(f.lines) + 1
         /\ DOMAIN g.lines = 1..(Len(f.lines) + 1)
         /\ \A i \in DOMAIN f.lines : g.lines[i] = f.lines[i]
         /\ g.lines[Len(f.lines) + 1] = Continued(f, record)
<1>1. Continued(f, record) \in Records \cup {Torn}
  BY DEF Continued
<1>2. f.lines \in Seq(Records \cup {Torn}) /\ Len(f.lines) \in Nat
      /\ DOMAIN f.lines = 1..Len(f.lines)
  BY LinesOf
<1> HIDE DEF Continued
<1> DEFINE longer == Append(f.lines, Continued(f, record))
<1>3. longer \in Seq(Records \cup {Torn}) /\ Len(longer) = Len(f.lines) + 1
      /\ longer[Len(f.lines) + 1] = Continued(f, record)
      /\ \A i \in 1..Len(f.lines) : longer[i] = f.lines[i]
  BY <1>1, <1>2
<1>4. DOMAIN longer = 1..(Len(f.lines) + 1)
  BY <1>3, LenProperties
<1> HIDE DEF longer
<1>5. Written(f, record) = [lines |-> longer, tail |-> Nothing]
  BY DEF Written, longer
<1> QED
  BY <1>2, <1>3, <1>4, <1>5

(* The four outcomes of a write, seen from the lines.                      *)
LEMMA Outcomes ==
  ASSUME NEW f \in Files, NEW record \in Records, NEW g \in Interrupted(f, record)
  PROVE  \/ g = Written(f, record)
         \/ g.lines = f.lines /\ g.tail \in {f.tail, Torn, Continued(f, record)}
BY DEF Interrupted, Files

LEMMA NumbersStayKnown ==
  ASSUME NEW f \in Files, NEW record \in Records, NEW g \in Interrupted(f, record),
         NEW n \in Int, NumbersKnown(f, n), record.seq <= n
  PROVE  NumbersKnown(g, n)
<1>1. Continued(f, record).seq <= n
  BY NoRecords DEF Continued, NumbersKnown
<1>2. CASE g = Written(f, record)
  <2>1. Nothing.seq <= n
    BY NoRecords DEF NumbersKnown
  <2>2. ASSUME NEW i \in DOMAIN g.lines PROVE g.lines[i].seq <= n
    <3>1. i \in DOMAIN f.lines \/ i = Len(f.lines) + 1
      BY <1>2, LinesOf, LinesWritten
    <3> QED
      BY <1>1, <1>2, <3>1, LinesWritten DEF NumbersKnown
  <2> QED
    BY <1>2, <2>1, <2>2, LinesWritten DEF NumbersKnown
<1>3. CASE g.lines = f.lines /\ g.tail \in {f.tail, Torn, Continued(f, record)}
  BY <1>1, <1>3, NoRecords DEF NumbersKnown
<1> QED
  BY <1>2, <1>3, Outcomes

LEMMA InFlightGrows ==
  ASSUME NEW f \in Files, NEW record \in Records, NEW g \in Interrupted(f, record)
  PROVE  InFlight(f.lines) \subseteq InFlight(g.lines)
<1>1. CASE g = Written(f, record)
  <2>1. \A i \in DOMAIN f.lines : i \in DOMAIN g.lines /\ g.lines[i] = f.lines[i]
    BY <1>1, LinesOf, LinesWritten
  <2> QED
    BY <2>1 DEF InFlight, Indices
<1> QED
  BY <1>1, Outcomes

LEMMA StaysAhead ==
  ASSUME NEW f \in Files, NEW record \in Records, NEW g \in Interrupted(f, record),
         NEW acted, Ahead(f, acted)
  PROVE  Ahead(g, acted)
BY InFlightGrows DEF Ahead

LEMMA CallIsOnRecord ==
  ASSUME NEW f \in Files, NEW record \in Records, f.tail = Nothing,
         record.phase = "in_flight"
  PROVE  record.seq \in InFlight(Written(f, record).lines)
<1>1. Len(f.lines) + 1 \in DOMAIN Written(f, record).lines
  BY LinesOf, LinesWritten
<1>2. Written(f, record).lines[Len(f.lines) + 1] = record
  BY LinesWritten DEF Continued
<1> QED
  BY <1>1, <1>2 DEF InFlight, Indices

LEMMA RecordsOfLines ==
  ASSUME NEW f \in Files
  PROVE  /\ f.tail \in {Nothing, Torn} => RecordsOf(f) = f.lines
         /\ f.tail \notin {Nothing, Torn} =>
              /\ DOMAIN RecordsOf(f) = 1..(Len(f.lines) + 1)
              /\ \A i \in DOMAIN f.lines : RecordsOf(f)[i] = f.lines[i]
              /\ RecordsOf(f)[Len(f.lines) + 1] = f.tail
<1>1. f.lines \in Seq(Records \cup {Torn}) /\ Len(f.lines) \in Nat
      /\ DOMAIN f.lines = 1..Len(f.lines) /\ f.tail \in Records \cup {Nothing, Torn}
  BY LinesOf
<1>2. ASSUME f.tail \notin {Nothing, Torn}
      PROVE  /\ DOMAIN RecordsOf(f) = 1..(Len(f.lines) + 1)
             /\ \A i \in DOMAIN f.lines : RecordsOf(f)[i] = f.lines[i]
             /\ RecordsOf(f)[Len(f.lines) + 1] = f.tail
  <2> DEFINE longer == Append(f.lines, f.tail)
  <2>1. longer \in Seq(Records \cup {Torn}) /\ Len(longer) = Len(f.lines) + 1
        /\ longer[Len(f.lines) + 1] = f.tail
        /\ \A i \in 1..Len(f.lines) : longer[i] = f.lines[i]
    BY <1>1, <1>2
  <2>2. DOMAIN longer = 1..(Len(f.lines) + 1)
    BY <2>1, LenProperties
  <2>3. RecordsOf(f) = longer
    BY <1>2 DEF RecordsOf
  <2> HIDE DEF longer
  <2> QED
    BY <1>1, <2>1, <2>2, <2>3
<1> QED
  BY <1>2 DEF RecordsOf

LEMMA StaysOpenedOnce ==
  ASSUME NEW f \in Files, NEW record \in Records, NEW g \in Interrupted(f, record),
         OpenedOnce(f), record.phase = "in_flight" => Unopened(f, record.seq)
  PROVE  OpenedOnce(g)
<1> DEFINE old == f.lines
           end == Len(f.lines) + 1
           log == RecordsOf(g)
<1>0. g \in Files
  BY WritingType
<1>1. DOMAIN old = 1..Len(old) /\ Len(old) \in Nat
  BY LinesOf
<1>2. \A i, j \in Indices(old, {"in_flight"}) : old[i].seq = old[j].seq => i = j
  <2>1. CASE f.tail \in {Nothing, Torn}
    BY <2>1, RecordsOfLines DEF OpenedOnce
  <2>2. CASE f.tail \notin {Nothing, Torn}
    <3>1. \A i \in Indices(old, {"in_flight"}) :
            i \in Indices(RecordsOf(f), {"in_flight"}) /\ RecordsOf(f)[i] = old[i]
      BY <2>2, <1>1, RecordsOfLines DEF Indices
    <3> QED
      BY <3>1 DEF OpenedOnce
  <2> QED
    BY <2>1, <2>2
<1>3. \/ log = RecordsOf(f)
      \/ /\ DOMAIN log \subseteq DOMAIN old \cup {end}
         /\ \A i \in DOMAIN old : i \in DOMAIN log => log[i] = old[i]
         /\ end \in DOMAIN log => log[end] \in {record, Torn}
  <2>1. CASE g = Written(f, record)
    <3>1. log = g.lines
      BY <2>1, <1>0, RecordsOfLines, LinesWritten
    <3> QED
      BY <2>1, <3>1, <1>1, LinesWritten DEF Continued
  <2>2. CASE g.lines = old /\ g.tail = f.tail
    BY <2>2 DEF RecordsOf
  <2>3. CASE g.lines = old /\ g.tail = Torn
    BY <2>3, <1>0, <1>1, RecordsOfLines
  <2>4. CASE g.lines = old /\ g.tail = Continued(f, record)
    <3>1. CASE f.tail = Nothing
      <4>1. g.tail = record /\ record \notin {Nothing, Torn}
        BY <2>4, <3>1, NoRecords DEF Continued
      <4> QED
        BY <4>1, <2>4, <1>0, <1>1, RecordsOfLines
    <3>2. CASE f.tail # Nothing
      BY <2>4, <3>2, <1>0, <1>1, RecordsOfLines DEF Continued
    <3> QED
      BY <3>1, <3>2
  <2> QED
    BY <2>1, <2>2, <2>3, <2>4, Outcomes
<1>4. CASE log = RecordsOf(f)
  BY <1>4 DEF OpenedOnce
<1>5. CASE /\ DOMAIN log \subseteq DOMAIN old \cup {end}
           /\ \A i \in DOMAIN old : i \in DOMAIN log => log[i] = old[i]
           /\ end \in DOMAIN log => log[end] \in {record, Torn}
  <2> HIDE DEF log, old, end
  <2>1. ASSUME NEW i \in Indices(log, {"in_flight"})
        PROVE  \/ i \in Indices(old, {"in_flight"}) /\ log[i] = old[i]
               \/ i = end /\ log[i] = record /\ record.phase = "in_flight"
    <3>1. i \in DOMAIN log /\ log[i].phase = "in_flight"
      BY DEF Indices
    <3>2. CASE i \in DOMAIN old
      BY <3>1, <3>2, <1>5 DEF Indices
    <3>3. CASE i = end
      BY <3>1, <3>3, <1>5, NoRecords
    <3> QED
      BY <3>1, <3>2, <3>3, <1>5
  <2>2. ASSUME record.phase = "in_flight", NEW i \in Indices(old, {"in_flight"})
        PROVE  old[i].seq # record.seq
    BY <2>2 DEF Unopened, InFlight, old
  <2>3. ASSUME NEW i \in Indices(log, {"in_flight"}), NEW j \in Indices(log, {"in_flight"}),
               log[i].seq = log[j].seq
        PROVE  i = j
    BY <2>1, <2>2, <2>3, <1>2
  <2> QED
    BY <2>3 DEF OpenedOnce, log
<1> QED
  BY <1>3, <1>4, <1>5

LEMMA LogIsTyped ==
  ASSUME NEW f \in Files, f.tail = Nothing, Readable(f)
  PROVE  f.lines \in Seq(Records) /\ RecordsOf(f) = f.lines
         /\ Recovery(f) = Pass(f.lines)[Len(f.lines)]
BY ReadableRecords DEF RecordsOf, Recovery

LEMMA CountGrows ==
  ASSUME NEW f \in Files, NEW record \in Records, NEW tokens \in Int, Counted(f, tokens)
  PROVE  Counted(Written(f, record), tokens + One(record.phase = "response"))
<1> DEFINE g == Written(f, record)
<1>1. SUFFICES ASSUME Readable(g)
               PROVE  Recovery(g).usage = tokens + One(record.phase = "response")
  BY DEF Counted
<1>2. g \in Files /\ g.tail = Nothing
  BY WritingType, LinesWritten
<1>3. g.lines = Append(f.lines, Continued(f, record))
  BY DEF Written
<1>4. f.tail = Nothing
  <2>1. Len(f.lines) + 1 \in DOMAIN g.lines /\ g.lines[Len(f.lines) + 1] = Continued(f, record)
    BY LinesOf, LinesWritten
  <2> QED
    BY <1>1, <2>1 DEF Readable, Continued
<1>5. Readable(f)
  <2>1. \A i \in DOMAIN f.lines : i \in DOMAIN g.lines /\ g.lines[i] = f.lines[i]
    BY LinesOf, LinesWritten
  <2> QED
    BY <1>1, <2>1 DEF Readable
<1>6. f.lines \in Seq(Records) /\ Recovery(f) = Pass(f.lines)[Len(f.lines)]
  BY <1>4, <1>5, LogIsTyped
<1>7. g.lines = Append(f.lines, record)
  BY <1>3, <1>4 DEF Continued
<1>8. Recovery(g) = Pass(g.lines)[Len(g.lines)]
  BY <1>1, <1>2, LogIsTyped
<1> HIDE DEF g
<1>9. Recovery(g) = Replay(Recovery(f), record)
  BY <1>6, <1>7, <1>8, PassOfAppend
<1>10. Recovery(f).usage = tokens
  BY <1>5 DEF Counted
<1> QED
  BY <1>9, <1>10, ReplayFields

LEMMA CountStays ==
  ASSUME NEW f \in Files, NEW record \in Records, NEW g \in Interrupted(f, record),
         f.tail = Nothing, record.phase # "response", NEW tokens \in Int, Counted(f, tokens)
  PROVE  Counted(g, tokens)
<1>1. SUFFICES ASSUME Readable(g) PROVE Recovery(g).usage = tokens
  BY DEF Counted
<1>2. CASE g = Written(f, record)
  <2>1. Counted(g, tokens + 0)
    BY <1>2, CountGrows DEF One
  <2> QED
    BY <1>1, <2>1 DEF Counted
<1>3. CASE g.lines = f.lines
  <2>1. Readable(f) /\ f.lines \in Seq(Records) /\ Recovery(f) = Pass(f.lines)[Len(f.lines)]
    BY <1>1, <1>3, LogIsTyped DEF Readable
  <2>2. Recovery(f).usage = tokens
    BY <2>1 DEF Counted
  <2>3. RecordsOf(g) = f.lines \/ RecordsOf(g) = Append(f.lines, record)
    BY <1>3, Outcomes, NoRecords DEF RecordsOf, Continued, Written
  <2>4. CASE RecordsOf(g) = f.lines
    BY <2>1, <2>2, <2>4 DEF Recovery
  <2>5. CASE RecordsOf(g) = Append(f.lines, record)
    <3>1. Recovery(g) = Replay(Recovery(f), record)
      BY <2>1, <2>5, PassOfAppend DEF Recovery
    <3>2. Recovery(g).usage = tokens + 0
      BY <2>2, <3>1, ReplayFields DEF One
    <3> QED
      BY <3>2
  <2> QED
    BY <2>3, <2>4, <2>5
<1> QED
  BY <1>2, <1>3, Outcomes

LEMMA AskIsOnRecord ==
  ASSUME NEW f \in Files, NEW n \in Int, f.tail = Nothing,
         Record("await_user", n, NoTool) \in Records
  PROVE  Asked(Written(f, Record("await_user", n, NoTool)), n)
<1> DEFINE record == Record("await_user", n, NoTool)
           g == Written(f, record)
<1>1. g.tail = Nothing /\ Len(g.lines) = Len(f.lines) + 1
      /\ g.lines[Len(f.lines) + 1] = record /\ Len(f.lines) \in Nat
  BY LinesOf, LinesWritten DEF Continued
<1> HIDE DEF record, g
<1>2. g.lines # <<>>
  BY <1>1, EmptySeq
<1> QED
  BY <1>1, <1>2 DEF Asked, record, g

LEMMA AskIsRecovered ==
  ASSUME NEW f \in Files, NEW n \in Int, Asked(f, n), Readable(f)
  PROVE  Recovery(f).pending_ask = n
<1>1. f.lines \in Seq(Records) /\ Recovery(f) = Pass(f.lines)[Len(f.lines)]
  BY LogIsTyped DEF Asked
<1>2. Len(f.lines) \in 1..Len(f.lines)
  BY <1>1, EmptySeq DEF Asked
<1>3. Recovery(f) = Replay(Pass(f.lines)[Len(f.lines) - 1], Record("await_user", n, NoTool))
  BY <1>1, <1>2, PassSteps DEF Asked
<1>4. Record("await_user", n, NoTool).phase = "await_user"
      /\ Record("await_user", n, NoTool).seq = n
  BY DEF Record
<1> QED
  BY <1>3, <1>4, ReplayFields

LEMMA NumbersAreRecovered ==
  ASSUME NEW f \in Files
  PROVE  NumbersKnown(f, Recovery(f).last_seq)
<1> DEFINE log == RecordsOf(f)
           n == Recovery(f).last_seq
<1>1. log \in Seq(Entries) /\ Len(log) \in Nat /\ DOMAIN log = 1..Len(log)
  BY LogEntries, LenProperties
<1>2. -1 <= n /\ \A i \in 1..Len(log) : log[i].seq <= n
  BY <1>1, LastSeqIsTheLast DEF Recovery
<1>3. \A i \in DOMAIN f.lines : i \in DOMAIN log /\ log[i] = f.lines[i]
  BY LinesOf, RecordsOfLines
<1>4. f.tail.seq <= n
  <2>1. CASE f.tail \in {Nothing, Torn}
    BY <1>2, <2>1, NoRecords
  <2>2. CASE f.tail \notin {Nothing, Torn}
    <3>1. Len(f.lines) + 1 \in DOMAIN log /\ log[Len(f.lines) + 1] = f.tail
      BY <2>2, LinesOf, RecordsOfLines
    <3> QED
      BY <1>1, <1>2, <3>1
  <2> QED
    BY <2>1, <2>2
<1> QED
  BY <1>1, <1>2, <1>3, <1>4 DEF NumbersKnown

LEMMA NothingIsRecovered ==
  /\ NewFile \in Files /\ NewFile.tail = Nothing /\ NewFile.lines = <<>>
  /\ Readable(NewFile) /\ Recovery(NewFile) = NothingRecovered
<1>1. <<>> \in Seq(Records) /\ <<>> \in Seq(Records \cup {Torn}) /\ Len(<<>>) = 0
  BY EmptySeq
<1>2. NewFile \in Files /\ NewFile.tail = Nothing /\ NewFile.lines = <<>>
  BY <1>1 DEF NewFile, Files
<1>3. DOMAIN NewFile.lines = 1..0
  BY <1>1, <1>2, LenProperties
<1>4. Readable(NewFile)
  BY <1>3 DEF Readable
<1>5. Recovery(NewFile) = Pass(<<>>)[0]
  BY <1>1, <1>2, <1>4, LogIsTyped
<1> QED
  BY <1>1, <1>2, <1>4, <1>5, PassSteps
---------------------------------------------------------------------------
(* The steps, by what they do to the journal.                              *)

(* Nothing: the file, the record on its way and the counters stay.         *)
Quiet ==
  \/ Refuse \/ Cancel \/ Fail \/ Turn \/ TurnsUsedUp \/ UseTools \/ EndTurn
  \/ BadAnswer \/ TurnDone \/ Close \/ Park

(* The loop hands a record to the writer.                                  *)
HandOver == Connect \/ Complete \/ Open \/ Answer \/ Ask \/ AskRefused

(* The record is written, wholly or in part, or lost.                      *)
Filing == SeeCancel \/ Crash \/ Write \/ WriteFails \/ AskWriteFails

LEMMA Steps == Next => Quiet \/ HandOver \/ Filing \/ Begin \/ Dispatch
BY DEF Next, LoopStep, HostStep, WriterStep, Quiet, HandOver, Filing

LEMMA FilingMoves ==
  ASSUME TypeOK, Filing
  PROVE  /\ \/ pending = Nothing /\ file' = file
            \/ pending \in Records /\ file' \in Interrupted(file, pending)
         /\ \/ pending' = Nothing
            \/ /\ place = "asking" /\ place' = "closing"
               /\ pending' = Record("error", next_seq, NoTool)
         /\ UNCHANGED <<next_seq, iteration, succeeded, usage, stop, calls,
                        session, connected, told, executed>>
<1>1. pending # Nothing => pending \in Records
  BY DEF TypeOK
<1>2. pending # Nothing => Written(file, pending) \in Interrupted(file, pending)
  BY DEF Interrupted
<1> QED
  BY <1>1, <1>2
     DEF Filing, SeeCancel, Crash, Write, WriteFails, AskWriteFails, Return, opening,
         counts, answer, outcome

LEMMA RecordType ==
  ASSUME NEW phase \in Phase, NEW n \in Int, NEW tool \in Tools \cup {NoTool}
  PROVE  /\ Record(phase, n, tool) \in Records /\ Record(phase, n, tool) # Nothing
         /\ Record(phase, n, tool).phase = phase /\ Record(phase, n, tool).seq = n
<1>1. Record(phase, n, tool) \in Records
  BY DEF Record, Records
<1> QED
  BY <1>1, NoRecords DEF Record

LEMMA SessionType ==
  ASSUME TypeOK
  PROVE  /\ session \in Int /\ MaxSessions \in Nat /\ MaxIterations \in Nat
         /\ next_seq \in Int /\ iteration \in Int /\ usage \in Int
BY RunLoopAssumption DEF TypeOK

(* The types.                                                              *)
LEMMA TypeStep ==
  ASSUME TypeOK, Control, Next
  PROVE  TypeOK'
<1> USE RunLoopAssumption
<1>1. CASE Begin
  <2> DEFINE recovery == IF session = 0 THEN NothingRecovered ELSE Recovery(file)
  <2>1. recovery \in Recoveries
    BY <1>1, RecoveryType, NothingRecoveredType DEF Begin, TypeOK
  <2>2. recovery.last_seq \in Int /\ recovery.succeeded \in Nat /\ recovery.usage \in Nat
        /\ recovery.open \subseteq Records
    BY <2>1 DEF Recoveries
  <2>3. Dangling(recovery) \subseteq Records
    BY <2>2 DEF Dangling
  <2>4. /\ next_seq' = recovery.last_seq /\ succeeded' = recovery.succeeded
        /\ usage' = recovery.usage /\ told' = Dangling(recovery)
        /\ place' = "connecting" /\ session' = session + 1 /\ session < MaxSessions
        /\ iteration' = 0 /\ cancelled' = FALSE /\ verdict' = "none"
        /\ UNCHANGED <<file, pending, connected, stop, calls, executed>>
    BY <1>1 DEF Begin, answer
  <2> HIDE DEF recovery
  <2>5. session' \in 0..MaxSessions
    BY <2>4, SessionType DEF TypeOK
  <2>6. next_seq' \in Int /\ succeeded' \in Nat /\ usage' \in Nat /\ told' \subseteq Records
    BY <2>2, <2>3, <2>4
  <2>7. iteration' \in 0..MaxIterations /\ place' \in Places
    BY <2>4, SessionType DEF Places
  <2> QED
    BY <2>4, <2>5, <2>6, <2>7 DEF TypeOK
<1>2. CASE Quiet
  <2>1. /\ UNCHANGED <<file, pending, session, connected, told, next_seq, succeeded,
                       usage, stop, executed>>
        /\ place' \in Places
        /\ verdict' \in {"none", "completed", "failed", "cancelled", "crashed", "held"}
        /\ cancelled' \in BOOLEAN
        /\ iteration' = iteration \/ (iteration < MaxIterations /\ iteration' = iteration + 1)
        /\ calls' = calls \/ (place = "closing" /\ calls' = Tail(calls))
    BY <1>2
       DEF Quiet, Refuse, Cancel, Fail, Turn, TurnsUsedUp, UseTools, EndTurn, BadAnswer,
           TurnDone, Close, Park, Goto, Return, opening, counts, answer, outcome, Places,
           TypeOK
  <2>2. iteration' \in 0..MaxIterations
    BY <2>1 DEF TypeOK
  <2>3. calls' \in Seq(Tools)
    BY <2>1, HeadTailProperties DEF TypeOK, Control
  <2> QED
    BY <2>1, <2>2, <2>3 DEF TypeOK
<1>3. CASE HandOver
  <2>1. pending' \in Records \cup {Nothing}
    <3>1. calls # <<>> => Head(calls) \in Tools
      BY HeadTailProperties DEF TypeOK
    <3>2. next_seq \in Int /\ next_seq + 1 \in Int /\ -1 \in Int
      BY SessionType
    <3> QED
      BY <1>3, <3>1, <3>2, RecordType
         DEF HandOver, Connect, Complete, Open, Answer, Ask, AskRefused, Phase, TypeOK
  <2>2. /\ UNCHANGED <<file, session, told, iteration, cancelled, verdict, executed>>
        /\ place' \in Places /\ connected' \in BOOLEAN
    BY <1>3
       DEF HandOver, Connect, Complete, Open, Answer, Ask, AskRefused, Goto, opening,
           counts, answer, outcome, Places, TypeOK
  <2>4. /\ next_seq' \in {next_seq, next_seq + 1} /\ usage' \in {usage, usage + 1}
        /\ succeeded' \in {succeeded, succeeded + 1} \cup {succeeded + 0}
        /\ stop' \in StopReasons
    BY <1>3
       DEF HandOver, Connect, Complete, Open, Answer, Ask, AskRefused, opening, counts,
           answer, One, TypeOK, StopReasons
  <2>5. next_seq' \in Int /\ usage' \in Nat /\ succeeded' \in Nat
    BY <2>4 DEF TypeOK
  <2>3. calls' \in Seq(Tools)
    <3>1. Answers \subseteq Seq(Tools)
      BY SeqDef DEF Answers
    <3>2. <<>> \in Seq(Tools)
      BY EmptySeq
    <3> QED
      BY <1>3, <3>1, <3>2
         DEF HandOver, Connect, Complete, Open, Answer, Ask, AskRefused, answer, TypeOK
  <2> QED
    BY <2>1, <2>2, <2>3, <2>4, <2>5 DEF TypeOK
<1>4. CASE Filing
  <2>1. file' \in Files
    BY <1>4, FilingMoves, WritingType DEF TypeOK
  <2>2. pending' \in Records \cup {Nothing}
    BY <1>4, FilingMoves, RecordType, SessionType DEF Phase
  <2>3. /\ place' \in Places /\ cancelled' \in BOOLEAN
        /\ verdict' \in {"none", "completed", "failed", "cancelled", "crashed", "held"}
    BY <1>4
       DEF Filing, SeeCancel, Crash, Write, WriteFails, AskWriteFails, Return, outcome,
           Places, TypeOK
  <2> QED
    BY <1>4, <2>1, <2>2, <2>3, FilingMoves DEF TypeOK
<1>5. CASE Dispatch
  <2>1. [seq |-> next_seq, session |-> session] \in [seq : Int, session : 1..MaxSessions]
    BY <1>5, SessionType DEF Dispatch, Control, TypeOK
  <2> QED
    BY <1>5, <2>1 DEF Dispatch, Goto, opening, counts, answer, outcome, TypeOK, Places
<1> QED
  BY <1>1, <1>2, <1>3, <1>4, <1>5, Steps

(* The places, the record on its way and the end of the file.              *)
LEMMA ControlStep ==
  ASSUME TypeOK, Control, Next
  PROVE  Control'
<1>0. /\ session \in Nat /\ next_seq \in Int /\ (pending # Nothing => pending \in Records)
      /\ file \in Files
  BY DEF TypeOK
<1>1. CASE Begin
  <2>1. /\ place' = "connecting" /\ session' = session + 1 /\ verdict' = "none"
        /\ pending' = Nothing
    BY <1>1 DEF Begin
  <2> QED
    BY <1>0, <2>1 DEF Control, PendingFits, TailIsClean
<1>2. CASE Quiet
  BY <1>2
     DEF Quiet, Refuse, Cancel, Fail, Turn, TurnsUsedUp, UseTools, EndTurn, BadAnswer,
         TurnDone, Close, Park, Goto, Return, opening, counts, answer, outcome, Control,
         PendingFits, TailIsClean
<1>3. CASE HandOver
  <2>1. CASE Connect
    BY <2>1 DEF Connect, Goto, outcome, Control, PendingFits, TailIsClean
  <2>2. CASE Complete
    <3>1. /\ place' = "answered" /\ place = "completing"
          /\ pending' = Record("response", -1, NoTool)
          /\ stop' = "tool_use" \/ calls' = <<>>
          /\ UNCHANGED <<file, session, verdict, next_seq>>
      BY <2>2 DEF Complete, Goto, opening, outcome
    <3>2. pending' # Nothing
      BY <1>0, <3>1, RecordType DEF Phase
    <3> QED
      BY <3>1, <3>2 DEF Control, PendingFits, TailIsClean
  <2>3. CASE Open
    BY <2>3 DEF Open, Goto, opening, answer, outcome, Control, PendingFits, TailIsClean
  <2>4. CASE Answer
    <3>1. /\ place' = "closing" /\ place = "acting"
          /\ pending' \in {Record(phase, next_seq, NoTool) : phase \in {"done", "error"}}
          /\ UNCHANGED <<file, session, verdict, calls, next_seq>>
      BY <2>4 DEF Answer, Goto, opening, answer, outcome
    <3>2. pending' # Nothing
      <4>1. pending' = Record("done", next_seq, NoTool) \/ pending' = Record("error", next_seq, NoTool)
        BY <3>1
      <4> QED
        BY <1>0, <4>1, RecordType DEF Phase
    <3>3. PendingFits' /\ TailIsClean' /\ calls' # <<>>
      BY <3>1, <3>2 DEF Control, PendingFits, TailIsClean
    <3> QED
      BY <3>1, <3>3 DEF Control
  <2>5. CASE Ask
    BY <2>5 DEF Ask, Goto, opening, counts, answer, outcome, Control, PendingFits, TailIsClean
  <2>6. CASE AskRefused
    <3>1. pending' # Nothing
      BY <2>6, <1>0, RecordType DEF AskRefused, Phase
    <3> QED
      BY <2>6, <3>1
         DEF AskRefused, Goto, opening, counts, answer, outcome, Control, PendingFits, TailIsClean
  <2> QED
    BY <1>3, <2>1, <2>2, <2>3, <2>4, <2>5, <2>6 DEF HandOver
<1>4. CASE Filing
  <2>1. CASE SeeCancel \/ Crash \/ WriteFails
    <3>1. /\ place' = "idle" /\ pending' = Nothing /\ session' = session /\ place # "idle"
      BY <2>1, NoRecords, <1>0
         DEF SeeCancel, Crash, WriteFails, Return, opening, Control, PendingFits
    <3> QED
      BY <1>0, <3>1 DEF Control, PendingFits, TailIsClean
  <2>2. CASE Write
    <3>1. file'.tail = Nothing /\ pending' = Nothing /\ pending # Nothing
      BY <2>2, <1>0, LinesWritten DEF Write
    <3> QED
      BY <2>2, <3>1 DEF Write, opening, counts, answer, outcome, Control, PendingFits, TailIsClean
  <2>3. CASE AskWriteFails
    <3>1. /\ place = "asking" /\ place' = "closing"
          /\ pending' = Record("error", next_seq, NoTool)
          /\ UNCHANGED <<session, verdict, calls, next_seq>>
      BY <2>3 DEF AskWriteFails, opening, counts, answer, outcome
    <3>2. pending' # Nothing
      BY <1>0, <3>1, RecordType DEF Phase
    <3> QED
      BY <1>0, <3>1, <3>2 DEF Control, PendingFits, TailIsClean
  <2> QED
    BY <1>4, <2>1, <2>2, <2>3 DEF Filing
<1>5. CASE Dispatch
  BY <1>5
     DEF Dispatch, Goto, opening, counts, answer, outcome, Control, PendingFits, TailIsClean
<1> QED
  BY <1>1, <1>2, <1>3, <1>4, <1>5, Steps

(* What the file holds.                                                    *)
LEMMA DataStep ==
  ASSUME TypeOK, Control, Data, Next
  PROVE  Data'
<1>0. /\ file \in Files /\ session \in Nat /\ next_seq \in Int /\ usage \in Int
      /\ (pending # Nothing => pending \in Records)
  BY DEF TypeOK
<1>1. CASE Begin
  <2> DEFINE recovery == IF session = 0 THEN NothingRecovered ELSE Recovery(file)
  <2>1. /\ next_seq' = recovery.last_seq /\ usage' = recovery.usage
        /\ place' = "connecting" /\ verdict' = "none" /\ pending = Nothing
        /\ Readable(file) /\ UNCHANGED <<file, pending, executed>>
    BY <1>1 DEF Begin
  <2>2. recovery = Recovery(file)
    BY NothingIsRecovered DEF Control
  <2>3. Recovery(file) \in Recoveries
    BY <1>0, <2>1, RecoveryType
  <2>4. NumbersKnown(file, Recovery(file).last_seq)
    BY <1>0, <2>1, NumbersAreRecovered
  <2>5. Counted(file', usage' - One(pending'.phase = "response"))
    <3>1. One(pending'.phase = "response") = 0
      BY <2>1, NoRecords DEF One
    <3>2. usage' - 0 = Recovery(file).usage
      BY <2>1, <2>2, <2>3 DEF Recoveries
    <3> QED
      BY <2>1, <3>1, <3>2 DEF Counted
  <2> QED
    BY <2>1, <2>2, <2>4, <2>5 DEF Data
<1>2. CASE Quiet
  <2>1. /\ UNCHANGED <<file, pending, next_seq, usage, executed>>
        /\ place' = "calling" => place = "calling"
        /\ place' \in {"asking", "parked"} => place \in {"asking", "parked"}
        /\ verdict' = "held" => verdict = "held"
        /\ place' # "idle" => place # "idle"
    BY <1>2
       DEF Quiet, Refuse, Cancel, Fail, Turn, TurnsUsedUp, UseTools, EndTurn, BadAnswer,
           TurnDone, Close, Park, Goto, Return, opening, counts, answer, outcome, Control
  <2> QED
    BY <2>1 DEF Data
<1>3. CASE HandOver
  <2>1. CASE Open
    <3>1. /\ place = "next" /\ place' = "calling" /\ pending = Nothing
          /\ next_seq' = next_seq + 1
          /\ pending' = Record("in_flight", next_seq + 1, Head(calls))
          /\ UNCHANGED <<file, usage, executed, verdict>>
      BY <2>1 DEF Open, Goto, outcome
    <3>2. \A i \in DOMAIN file.lines : file.lines[i].seq \in Int
      BY <1>0, LinesOf, NoRecords DEF Records
    <3>3. NumbersKnown(file, next_seq + 1)
      <4>1. file.tail.seq \in Int
        BY <1>0, LinesOf, NoRecords DEF Records
      <4> QED
        BY <1>0, <3>2, <4>1 DEF Data, NumbersKnown
    <3>4. next_seq + 1 \notin InFlight(file.lines)
      BY <1>0, <3>2 DEF Data, NumbersKnown, InFlight, Indices
    <3>5. Unopened(file, next_seq + 1)
      BY <3>1, <3>4 DEF Unopened, Control, TailIsClean
    <3>6. NotActed(next_seq + 1, executed)
      BY <3>4 DEF Data, Ahead, NotActed
    <3>7. pending' # Nothing /\ pending'.phase = "in_flight"
      <4>1. Head(calls) \in Tools
        BY <2>1, HeadTailProperties DEF Open, TypeOK
      <4> QED
        BY <1>0, <3>1, <4>1, RecordType DEF Phase
    <3>8. Counted(file', usage' - One(pending'.phase = "response"))
      BY <3>1, <3>7, NoRecords DEF Data, One
    <3> QED
      BY <3>1, <3>3, <3>5, <3>6, <3>7, <3>8, NoRecords DEF Data, Control
  <2>2. CASE Complete
    <3>1. /\ place' = "answered" /\ pending = Nothing /\ place # "idle" /\ usage' = usage + 1
          /\ pending' = Record("response", -1, NoTool)
          /\ UNCHANGED <<file, next_seq, executed, verdict>>
      BY <2>2 DEF Complete, Goto, outcome
    <3>2. pending'.phase = "response"
      BY <3>1 DEF Record
    <3>3. usage' - One(pending'.phase = "response") = usage - One(pending.phase = "response")
      BY <1>0, <3>1, <3>2, NoRecords DEF One
    <3> QED
      BY <3>1, <3>3 DEF Data
  <2>3. CASE Connect \/ Answer \/ Ask \/ AskRefused
    <3>1. /\ place \notin {"idle"} /\ place' \notin {"idle", "calling", "parked"}
          /\ pending = Nothing /\ UNCHANGED <<file, next_seq, usage, executed, verdict>>
          /\ place' = "asking" => pending' # Nothing
          /\ pending'.phase # "response"
      <4>1. \/ pending' = Nothing
            \/ pending' = Record("server_failed", -1, NoTool)
            \/ pending' = Record("done", next_seq, NoTool)
            \/ pending' = Record("error", next_seq, NoTool)
            \/ pending' = Record("await_user", next_seq, NoTool)
        BY <2>3 DEF Connect, Answer, Ask, AskRefused, Goto
      <4>2. pending'.phase # "response"
        BY <4>1, NoRecords DEF Record
      <4>3. CASE Ask
        <5>1. pending' # Nothing
          BY <4>3, <1>0, RecordType DEF Ask, Phase
        <5> QED
          BY <4>2, <4>3, <5>1 DEF Ask, Goto, counts, outcome
      <4>4. CASE Connect \/ Answer \/ AskRefused
        BY <4>2, <4>4 DEF Connect, Answer, AskRefused, Goto, counts, outcome
      <4> QED
        BY <2>3, <4>3, <4>4
    <3>2. One(pending'.phase = "response") = One(pending.phase = "response")
      BY <3>1, NoRecords DEF One
    <3> QED
      BY <3>1, <3>2 DEF Data, Control
  <2> QED
    BY <1>3, <2>1, <2>2, <2>3 DEF HandOver
<1>4. CASE Filing
  <2>0. UNCHANGED <<next_seq, usage, executed>>
    BY <1>4, FilingMoves
  <2>1. CASE pending = Nothing
    <3>1. /\ file' = file /\ pending' = Nothing /\ place' = "idle"
          /\ verdict' = "held" => place = "parked"
      BY <1>4, <2>1, FilingMoves
         DEF Filing, SeeCancel, Crash, Write, WriteFails, AskWriteFails, Return
    <3> QED
      BY <2>0, <2>1, <3>1 DEF Data
  <2>2. CASE pending # Nothing
    <3>1. pending \in Records /\ file' \in Interrupted(file, pending) /\ file' \in Files
      BY <1>0, <1>4, <2>2, FilingMoves, WritingType, NoRecords
    <3>2. /\ pending.seq \in {-1, next_seq}
          /\ pending.phase = "in_flight" => place = "calling" /\ pending.seq = next_seq
      BY <2>2 DEF Control, PendingFits, Record
    <3>3. NumbersKnown(file', next_seq)
      BY <1>0, <3>1, <3>2, NumbersStayKnown DEF Data, NumbersKnown
    <3>4. Ahead(file', executed)
      BY <1>0, <3>1, StaysAhead DEF Data
    <3>5. OpenedOnce(file')
      BY <1>0, <2>2, <3>1, <3>2, StaysOpenedOnce DEF Data
    <3>6. CASE Write
      <4>1. /\ file' = Written(file, pending) /\ pending' = Nothing
            /\ place' = place /\ verdict' = verdict
        BY <3>6 DEF Write, outcome
      <4>2. place = "calling" => next_seq \in InFlight(file'.lines)
        <5>1. SUFFICES ASSUME place = "calling" PROVE next_seq \in InFlight(file'.lines)
          OBVIOUS
        <5>2. file.tail = Nothing /\ pending.phase = "in_flight" /\ pending.seq = next_seq
          BY <2>2, <5>1 DEF Control, PendingFits, TailIsClean, Record
        <5> QED
          BY <1>0, <3>1, <4>1, <5>2, CallIsOnRecord
      <4>3. place \in {"asking", "parked"} => Asked(file', next_seq)
        <5>1. SUFFICES ASSUME place \in {"asking", "parked"} PROVE Asked(file', next_seq)
          OBVIOUS
        <5>2. file.tail = Nothing /\ pending = Record("await_user", next_seq, NoTool)
          BY <2>2, <5>1 DEF Control, PendingFits, TailIsClean
        <5> QED
          BY <1>0, <3>1, <4>1, <5>2, AskIsOnRecord
      <4>4. place # "idle" /\ verdict = "none"
        BY <2>2 DEF Control, PendingFits
      <4>5. Counted(file', usage' - One(pending'.phase = "response"))
        <5> DEFINE tokens == usage - One(pending.phase = "response")
        <5>1. tokens \in Int /\ tokens + One(pending.phase = "response") = usage - 0
          BY <1>0 DEF One
        <5>2. Counted(file, tokens)
          BY <4>4 DEF Data
        <5>3. Counted(file', tokens + One(pending.phase = "response"))
          BY <1>0, <3>1, <4>1, <5>1, <5>2, CountGrows
        <5>4. One(pending'.phase = "response") = 0
          BY <4>1, NoRecords DEF One
        <5> QED
          BY <2>0, <5>1, <5>3, <5>4
      <4> QED
        BY <2>0, <3>3, <3>4, <3>5, <4>1, <4>2, <4>3, <4>4, <4>5 DEF Data
    <3>7. CASE SeeCancel \/ Crash \/ WriteFails
      <4>1. place' = "idle" /\ verdict' # "held"
        BY <2>2, <3>7 DEF SeeCancel, Crash, WriteFails, Return, Control, PendingFits
      <4> QED
        BY <2>0, <3>3, <3>4, <3>5, <4>1 DEF Data
    <3>8. CASE AskWriteFails
      <4>1. place' = "closing" /\ verdict' # "held" /\ place = "asking"
            /\ pending' = Record("error", next_seq, NoTool)
        BY <3>8 DEF AskWriteFails, outcome, Control
      <4>2. Counted(file', usage' - One(pending'.phase = "response"))
        <5>1. pending.phase # "response" /\ pending'.phase # "response"
          BY <2>2, <4>1 DEF Control, PendingFits, Record
        <5>2. file.tail = Nothing
          BY <4>1 DEF Control, TailIsClean
        <5>3. One(pending.phase = "response") = 0 /\ One(pending'.phase = "response") = 0
          BY <5>1 DEF One
        <5>4. Counted(file, usage - 0)
          BY <4>1, <5>3 DEF Data
        <5>5. Counted(file', usage - 0)
          BY <1>0, <3>1, <5>1, <5>2, <5>4, CountStays
        <5> QED
          BY <2>0, <5>3, <5>5
      <4> QED
        BY <2>0, <3>3, <3>4, <3>5, <4>1, <4>2 DEF Data
    <3> QED
      BY <1>4, <3>6, <3>7, <3>8 DEF Filing
  <2> QED
    BY <2>1, <2>2
<1>5. CASE Dispatch
  <2> DEFINE call == [seq |-> next_seq, session |-> session]
  <2>1. /\ place = "calling" /\ place' = "acting" /\ pending = Nothing
        /\ UNCHANGED <<file, pending, next_seq, usage, verdict>>
        /\ executed' \in {executed, executed \cup {call}}
    BY <1>5 DEF Dispatch, Goto, counts, outcome
  <2>2. /\ next_seq \in InFlight(file.lines) /\ NotActed(next_seq, executed)
        /\ Ahead(file, executed) /\ ActedOnce(executed)
    BY <2>1 DEF Data
  <2>3. Ahead(file, executed \cup {call})
    BY <2>2 DEF Ahead
  <2>4. ActedOnce(executed \cup {call})
    BY <2>2 DEF ActedOnce, NotActed
  <2> HIDE DEF call
  <2> QED
    BY <2>1, <2>2, <2>3, <2>4 DEF Data, Control
<1> QED
  BY <1>1, <1>2, <1>3, <1>4, <1>5, Steps
---------------------------------------------------------------------------
(* The invariant, and what follows from it.                                *)
LEMMA Initially == Init => IndInv
<1> SUFFICES ASSUME Init PROVE IndInv
  OBVIOUS
<1> USE RunLoopAssumption
<1>1. TypeOK
  <2>1. NewFile \in Files /\ <<>> \in Seq(Tools)
    BY NothingIsRecovered, EmptySeq
  <2>2. 0 \in 0..MaxIterations /\ 0 \in 0..MaxSessions
    OBVIOUS
  <2>3. /\ place \in Places /\ stop \in StopReasons /\ connected \in BOOLEAN
        /\ verdict \in {"none", "completed", "failed", "cancelled", "crashed", "held"}
        /\ cancelled \in BOOLEAN
    BY DEF Init, Places, StopReasons
  <2>4. /\ told \subseteq Records /\ executed \subseteq [seq : Int, session : 1..MaxSessions]
        /\ pending \in Records \cup {Nothing}
    BY DEF Init
  <2>5. /\ file \in Files /\ calls \in Seq(Tools) /\ iteration \in 0..MaxIterations
        /\ session \in 0..MaxSessions /\ next_seq \in Int /\ succeeded \in Nat /\ usage \in Nat
    BY <2>1, <2>2 DEF Init
  <2> QED
    BY <2>3, <2>4, <2>5 DEF TypeOK
<1>2. Control
  BY NothingIsRecovered DEF Init, Control, PendingFits, TailIsClean
<1>3. NumbersKnown(file, next_seq) /\ OpenedOnce(file)
  <2>1. DOMAIN NewFile.lines = 1..0
    BY NothingIsRecovered, EmptySeq, LenProperties
  <2>2. RecordsOf(NewFile) = NewFile.lines
    BY NothingIsRecovered DEF RecordsOf
  <2> QED
    BY <2>1, <2>2, NothingIsRecovered, NoRecords
       DEF Init, NumbersKnown, OpenedOnce, Indices
<1>4. Data
  BY <1>3 DEF Init, Data, Ahead, ActedOnce
<1> QED
  BY <1>1, <1>2, <1>4 DEF IndInv

LEMMA Inductive == IndInv /\ [Next]_vars => IndInv'
<1> SUFFICES ASSUME IndInv, [Next]_vars PROVE IndInv'
  OBVIOUS
<1>1. CASE Next
  BY <1>1, TypeStep, ControlStep, DataStep DEF IndInv
<1>2. CASE UNCHANGED vars
  <2>1. TypeOK'
    BY <1>2 DEF vars, IndInv, TypeOK
  <2>2. Control'
    BY <1>2 DEF vars, IndInv, Control, PendingFits, TailIsClean
  <2>3. Data'
    BY <1>2 DEF vars, IndInv, Data
  <2> QED
    BY <2>1, <2>2, <2>3 DEF IndInv
<1> QED
  BY <1>1, <1>2

LEMMA Invariant == Spec => []IndInv
BY Initially, Inductive, PTL DEF Spec

(* Every reachable state is well typed, what recovery restores included.   *)
THEOREM TypeCorrect == Spec => []TypeOK
<1>1. IndInv => TypeOK
  BY DEF IndInv
<1> QED
  BY <1>1, Invariant, PTL

(* Journal::append waits for the synced record: whatever acted on the      *)
(* machine can be read from the journal as a call that was begun, over any *)
(* number of crashes and writes cut short.                                 *)
THEOREM EffectsAreOnRecord == Spec => []EffectsAreWrittenAhead
<1>1. IndInv => EffectsAreWrittenAhead
  <2> SUFFICES ASSUME IndInv PROVE EffectsAreWrittenAhead
    OBVIOUS
  <2>1. file \in Files /\ Ahead(file, executed)
    BY DEF IndInv, TypeOK, Data
  <2>2. \A i \in DOMAIN file.lines :
          i \in DOMAIN RecordsOf(file) /\ RecordsOf(file)[i] = file.lines[i]
    BY <2>1, LinesOf, RecordsOfLines
  <2>3. InFlight(file.lines) \subseteq InFlight(RecordsOf(file))
    BY <2>2 DEF InFlight, Indices
  <2> QED
    BY <2>1, <2>3 DEF Ahead, EffectsAreWrittenAhead
<1> QED
  BY <1>1, Invariant, PTL

(* Journal::open goes on from last_seq: no two calls of a run, in whichever*)
(* sessions, share a number, and no call acts twice.                       *)
THEOREM NumbersNameOneCall == Spec => []SeqNamesOneCall
<1>1. IndInv => SeqNamesOneCall
  BY DEF IndInv, Data, OpenedOnce, ActedOnce, SeqNamesOneCall
<1> QED
  BY <1>1, Invariant, PTL

(* Journal::append_in_flight: what acts is on record by then, under a      *)
(* number that no other call of the run has.                               *)
THEOREM CallsStayOnRecord == Spec => []CallsAreOnRecord
  BY EffectsAreOnRecord, NumbersNameOneCall, PTL DEF CallsAreOnRecord

(* RunContext::park writes the ask before the row: recovery finds the ask  *)
(* of every run that a restart holds for its owner.                        *)
THEOREM HeldRunsHaveTheirAsk == Spec => []HeldRunHasItsAsk
<1>1. IndInv => HeldRunHasItsAsk
  BY AskIsRecovered DEF IndInv, TypeOK, Data, HeldRunHasItsAsk
<1> QED
  BY <1>1, Invariant, PTL

(* run_loop counts an answer's tokens and journals them: what a session    *)
(* has counted is what its successor would recover.                        *)
THEOREM UsageIsRecovered == Spec => []UsageIsOnRecord
<1>1. IndInv => UsageIsOnRecord
  <2> SUFFICES ASSUME IndInv, place # "idle", pending = Nothing, Readable(file)
               PROVE  usage = Recovery(file).usage
    BY DEF UsageIsOnRecord
  <2>1. usage \in Int /\ Counted(file, usage - One(pending.phase = "response"))
    BY DEF IndInv, TypeOK, Data
  <2>2. One(pending.phase = "response") = 0
    BY NoRecords DEF One
  <2> QED
    BY <2>1, <2>2 DEF Counted
<1> QED
  BY <1>1, Invariant, PTL
---------------------------------------------------------------------------
(* What the next session reads is what the records say.  NumberedAsks is   *)
(* inductive beside IndInv.                                                *)

AsksHaveNumbers(f) ==
  /\ AsksNumbered(f.lines)
  /\ f.tail.phase = "await_user" => f.tail.seq # -1

NumberedAsks ==
  /\ AsksHaveNumbers(file)
  /\ place \in {"calling", "acting", "asking", "parked", "closing"} => 0 <= next_seq

LEMMA AsksStayNumbered ==
  ASSUME NEW f \in Files, NEW record \in Records, NEW g \in Interrupted(f, record),
         AsksHaveNumbers(f), record.phase = "await_user" => record.seq # -1
  PROVE  AsksHaveNumbers(g)
<1> DEFINE last == Continued(f, record)
<1>1. last.phase = "await_user" => last.seq # -1
  BY NoRecords DEF Continued
<1> HIDE DEF last
<1>2. CASE g = Written(f, record)
  <2>1. /\ g.tail = Nothing /\ DOMAIN g.lines = DOMAIN f.lines \cup {Len(f.lines) + 1}
        /\ \A i \in DOMAIN f.lines : g.lines[i] = f.lines[i]
        /\ g.lines[Len(f.lines) + 1] = last
    BY <1>2, LinesOf, LinesWritten DEF last
  <2> QED
    BY <1>1, <2>1, NoRecords DEF AsksHaveNumbers, AsksNumbered, Asks
<1>3. CASE g.lines = f.lines /\ g.tail \in {f.tail, Torn, last}
  BY <1>1, <1>3, NoRecords DEF AsksHaveNumbers
<1> QED
  BY <1>2, <1>3, Outcomes DEF last

LEMMA LogAsksAreNumbered ==
  ASSUME NEW f \in Files, AsksHaveNumbers(f)
  PROVE  AsksNumbered(RecordsOf(f))
<1>1. CASE f.tail \in {Nothing, Torn}
  BY <1>1, RecordsOfLines DEF AsksHaveNumbers
<1>2. CASE f.tail \notin {Nothing, Torn}
  <2>1. /\ DOMAIN RecordsOf(f) = 1..(Len(f.lines) + 1)
        /\ \A i \in DOMAIN f.lines : RecordsOf(f)[i] = f.lines[i]
        /\ RecordsOf(f)[Len(f.lines) + 1] = f.tail
    BY <1>2, RecordsOfLines
  <2>2. 1..(Len(f.lines) + 1) = DOMAIN f.lines \cup {Len(f.lines) + 1}
    BY LinesOf
  <2> QED
    BY <2>1, <2>2 DEF AsksHaveNumbers, AsksNumbered, Asks
<1> QED
  BY <1>1, <1>2

LEMMA NumberedAsksStep ==
  ASSUME IndInv, NumberedAsks, Next
  PROVE  NumberedAsks'
<1>0. /\ file \in Files /\ next_seq \in Int /\ -1 <= next_seq
      /\ (pending # Nothing => pending \in Records) /\ PendingFits
  BY DEF IndInv, TypeOK, Control, Data, NumbersKnown
<1>1. CASE Quiet
  BY <1>1
     DEF Quiet, Refuse, Cancel, Fail, Turn, TurnsUsedUp, UseTools, EndTurn, BadAnswer,
         TurnDone, Close, Park, Goto, Return, counts, NumberedAsks
<1>2. CASE HandOver
  <2>1. file' = file
    BY <1>2 DEF HandOver, Connect, Complete, Open, Answer, Ask, AskRefused
  <2>2. CASE Open
    BY <1>0, <2>1, <2>2 DEF Open, NumberedAsks
  <2>3. CASE Connect \/ Complete \/ Answer \/ Ask \/ AskRefused
    BY <2>1, <2>3 DEF Connect, Complete, Answer, Ask, AskRefused, Goto, counts, NumberedAsks
  <2> QED
    BY <1>2, <2>2, <2>3 DEF HandOver
<1>3. CASE Begin
  BY <1>3 DEF Begin, NumberedAsks
<1>4. CASE Dispatch
  BY <1>4 DEF Dispatch, Goto, counts, NumberedAsks
<1>5. CASE Filing
  <2>1. /\ \/ pending = Nothing /\ file' = file
           \/ pending \in Records /\ file' \in Interrupted(file, pending)
        /\ next_seq' = next_seq
    BY <1>5, FilingMoves DEF IndInv
  <2>2. place' \in {place, "idle"} \/ (place = "asking" /\ place' = "closing")
    BY <1>5 DEF Filing, SeeCancel, Crash, Write, WriteFails, AskWriteFails, Return
  <2>3. pending # Nothing /\ pending.phase = "await_user" => pending.seq # -1
    BY <1>0 DEF PendingFits, Record, NumberedAsks
  <2>4. AsksHaveNumbers(file')
    BY <1>0, <2>1, <2>3, NoRecords, AsksStayNumbered DEF NumberedAsks
  <2> QED
    BY <2>1, <2>2, <2>4 DEF NumberedAsks
<1> QED
  BY <1>1, <1>2, <1>3, <1>4, <1>5, Steps

LEMMA AsksAreNumbered == Spec => []NumberedAsks
<1>1. Init => NumberedAsks
  <2>1. DOMAIN NewFile.lines = {} /\ NewFile.tail = Nothing
    BY NothingIsRecovered, LinesOf
  <2> QED
    BY <2>1, NoRecords DEF Init, NumberedAsks, AsksHaveNumbers, AsksNumbered
<1>2. IndInv /\ NumberedAsks /\ [Next]_vars => NumberedAsks'
  <2>1. NumberedAsks /\ UNCHANGED vars => NumberedAsks'
    BY DEF NumberedAsks, vars
  <2> QED
    BY <2>1, NumberedAsksStep
<1> QED
  BY <1>1, <1>2, Invariant, PTL DEF Spec

LEMMA RecoveryIsRightHere ==
  ASSUME IndInv, NumberedAsks
  PROVE  RecoveryIsRight(file)
<1>1. file \in Files /\ OpenedOnce(file) /\ AsksNumbered(RecordsOf(file))
  BY LogAsksAreNumbered DEF IndInv, TypeOK, Data, NumberedAsks
<1>2. NumbersOpenOnce(RecordsOf(file))
  BY <1>1 DEF OpenedOnce, NumbersOpenOnce, Indices, Opens
<1> QED
  BY <1>1, <1>2, RecoveryReadsTheLog

(* read_recovery_sync, on whatever any number of sessions, crashes and     *)
(* failed writes have left: the open calls, the closed ones, the answers,  *)
(* the numbers and the ask that is owed are those of the records.          *)
THEOREM RecoveryIsFaithful == Spec => []RecoveryIsTheLog
<1>1. IndInv /\ NumberedAsks => RecoveryIsTheLog
  BY RecoveryIsRightHere DEF RecoveryIsTheLog
<1> QED
  BY <1>1, Invariant, AsksAreNumbered, PTL
---------------------------------------------------------------------------
(* What a session is told of the call the last one left open.  A call of   *)
(* a session is closed on record before the next one is opened, so of the  *)
(* calls that acted at most the last is open.                              *)

(* A record that opens call n is followed by one that closes it.           *)
Settled(log, n) ==
  \E i, j \in DOMAIN log :
    /\ i < j /\ Opens(log, i) /\ log[i].seq = n
    /\ Closes(log, j) /\ log[j].seq = n

AllSettled(f, acted, s) ==
  \A call \in acted : call.session = s => Settled(f.lines, call.seq)

SettledBut(f, acted, s, n) ==
  \A call \in acted : call.session = s => Settled(f.lines, call.seq) \/ call.seq = n

SettledOrTold(f, acted, s, reported) ==
  \A call \in acted :
    call.session = s => Settled(RecordsOf(f), call.seq) \/ \E o \in reported : o.seq = call.seq

(* Nothing is open here: no call was dispatched, or its end is on record.  *)
BetweenCalls ==
  \/ place \notin {"idle", "acting", "closing"}
  \/ place = "closing" /\ (pending = Nothing \/ file.tail # Nothing)

SessionInv ==
  /\ \A call \in executed : call.session <= session
  /\ SettledBut(file, executed, session, next_seq)
  /\ BetweenCalls => AllSettled(file, executed, session)
  /\ place # "idle" /\ Readable(file) => SettledOrTold(file, executed, session - 1, told)

LEMMA StaysSettled ==
  ASSUME NEW f \in Files, NEW record \in Records, NEW g \in Interrupted(f, record),
         NEW n, Settled(f.lines, n)
  PROVE  Settled(g.lines, n)
<1>1. \A i \in DOMAIN f.lines : i \in DOMAIN g.lines /\ g.lines[i] = f.lines[i]
  <2>1. CASE g = Written(f, record)
    BY <2>1, LinesOf, LinesWritten
  <2> QED
    BY <2>1, Outcomes
<1> QED
  BY <1>1 DEF Settled, Opens, Closes

LEMMA IsSettled ==
  ASSUME NEW f \in Files, NEW record \in Records, f.tail = Nothing,
         record.phase \in {"done", "error"}, record.seq \in InFlight(f.lines)
  PROVE  Settled(Written(f, record).lines, record.seq)
<1> DEFINE g == Written(f, record)
           end == Len(f.lines) + 1
<1>1. /\ end \in DOMAIN g.lines /\ g.lines[end] = record
      /\ \A i \in DOMAIN f.lines : i < end /\ i \in DOMAIN g.lines /\ g.lines[i] = f.lines[i]
  BY LinesOf, LinesWritten DEF Continued
<1>2. PICK i \in DOMAIN f.lines : f.lines[i].phase = "in_flight" /\ f.lines[i].seq = record.seq
  BY DEF InFlight, Indices
<1> HIDE DEF g, end
<1>3. Opens(g.lines, i) /\ g.lines[i].seq = record.seq /\ Closes(g.lines, end)
  BY <1>1, <1>2 DEF Opens, Closes
<1> QED
  BY <1>1, <1>2, <1>3 DEF Settled, g

LEMMA SettledOnRecord ==
  ASSUME NEW f \in Files, NEW n, Settled(f.lines, n)
  PROVE  Settled(RecordsOf(f), n)
<1>1. \A i \in DOMAIN f.lines :
        i \in DOMAIN RecordsOf(f) /\ RecordsOf(f)[i] = f.lines[i]
  BY LinesOf, RecordsOfLines
<1> QED
  BY <1>1 DEF Settled, Opens, Closes

(* After a whole line, every outcome of a write leaves the records there.  *)
LEMMA StaysToldAbout ==
  ASSUME NEW f \in Files, NEW record \in Records, NEW g \in Interrupted(f, record),
         f.tail = Nothing, NEW acted, NEW s, NEW reported,
         SettledOrTold(f, acted, s, reported)
  PROVE  SettledOrTold(g, acted, s, reported)
<1>1. RecordsOf(f) = f.lines /\ g \in Files
  BY RecordsOfLines, WritingType
<1>2. \A n : Settled(RecordsOf(f), n) => Settled(RecordsOf(g), n)
  BY <1>1, StaysSettled, SettledOnRecord
<1> QED
  BY <1>2 DEF SettledOrTold

(* A call that was begun and has the highest number is closed, or it is    *)
(* the one that recovery reports.                                          *)
LEMMA LeftOpenIsReported ==
  ASSUME NEW f \in Files, NEW n \in Int, RecoveryIsRight(f), NumbersKnown(f, n),
         n \in InFlight(f.lines)
  PROVE  Settled(RecordsOf(f), n) \/ \E o \in Dangling(Recovery(f)) : o.seq = n
<1> DEFINE log == RecordsOf(f)
<1>1. PICK i \in DOMAIN f.lines : f.lines[i].phase = "in_flight" /\ f.lines[i].seq = n
  BY DEF InFlight, Indices
<1>2. i \in DOMAIN log /\ log[i].phase = "in_flight" /\ log[i].seq = n
  BY <1>1, LinesOf, RecordsOfLines
<1>3. \A k \in DOMAIN log : log[k].seq <= n
  <2>1. ASSUME NEW k \in DOMAIN log
        PROVE  (k \in DOMAIN f.lines /\ log[k] = f.lines[k]) \/ log[k] = f.tail
    BY LinesOf, RecordsOfLines
  <2> QED
    BY <2>1 DEF NumbersKnown
<1> HIDE DEF log
<1>4. Recovery(f).open = OpenCalls(log)
  BY DEF RecoveryIsRight, log
<1>5. CASE ClosedAfter(log, i)
  <2>1. PICK j \in DOMAIN log : j > i /\ log[j].phase \in {"done", "error"} /\ log[j].seq = n
    BY <1>2, <1>5 DEF ClosedAfter, Indices
  <2>2. i < j
    <3>1. DOMAIN log = 1..Len(log) /\ Len(log) \in Nat
      BY LogEntries, Round DEF log
    <3> QED
      BY <1>2, <2>1, <3>1
  <2> QED
    BY <1>2, <2>1, <2>2 DEF Settled, Opens, Closes, log
<1>6. CASE ~ClosedAfter(log, i)
  <2>1. log[i] \in OpenCalls(log)
    BY <1>2, <1>6 DEF OpenCalls, Indices
  <2>2. \A p \in OpenCalls(log) : p.seq <= log[i].seq
    BY <1>2, <1>3 DEF OpenCalls, Indices
  <2>3. log[i] \in Dangling(Recovery(f))
    BY <1>4, <2>1, <2>2 DEF Dangling
  <2> QED
    BY <1>2, <2>3
<1> QED
  BY <1>5, <1>6

LEMMA SessionStep ==
  ASSUME IndInv, NumberedAsks, SessionInv, Next
  PROVE  SessionInv'
<1>0. /\ file \in Files /\ next_seq \in Int /\ session \in Nat
      /\ (pending # Nothing => pending \in Records)
      /\ executed \subseteq [seq : Int, session : 1..MaxSessions]
      /\ MaxSessions \in Nat
      /\ PendingFits /\ TailIsClean /\ Ahead(file, executed) /\ NumbersKnown(file, next_seq)
  BY RunLoopAssumption DEF IndInv, TypeOK, Control, Data
<1>1. CASE Quiet
  <2>1. UNCHANGED <<file, executed, session, next_seq, told, pending>>
    BY <1>1
       DEF Quiet, Refuse, Cancel, Fail, Turn, TurnsUsedUp, UseTools, EndTurn, BadAnswer,
           TurnDone, Close, Park, opening, counts
  <2>2. (place' # "idle" => place # "idle") /\ (BetweenCalls' => BetweenCalls)
    BY <1>1, <2>1
       DEF Quiet, Refuse, Cancel, Fail, Turn, TurnsUsedUp, UseTools, EndTurn, BadAnswer,
           TurnDone, Close, Park, Goto, Return, BetweenCalls
  <2> QED
    BY <2>1, <2>2 DEF SessionInv
<1>2. CASE HandOver
  <2>1. UNCHANGED <<file, executed, session, told>> /\ place # "idle"
    BY <1>2 DEF HandOver, Connect, Complete, Open, Answer, Ask, AskRefused, opening
  <2>2. CASE Open
    <3>1. BetweenCalls
      BY <2>2 DEF Open, BetweenCalls
    <3>2. AllSettled(file, executed, session)
      BY <3>1 DEF SessionInv
    <3>3. SettledBut(file, executed, session, next_seq + 1)
      BY <3>2 DEF AllSettled, SettledBut
    <3> QED
      BY <2>1, <2>2, <3>2, <3>3 DEF Open, SessionInv
  <2>3. CASE Connect \/ Complete \/ Answer \/ Ask \/ AskRefused
    <3>1. next_seq' = next_seq
      BY <2>3 DEF Connect, Complete, Answer, Ask, AskRefused, counts
    <3>2. BetweenCalls' => BetweenCalls
      <4>1. CASE Answer
        <5>1. place = "acting" /\ place' = "closing" /\ pending' # Nothing
          BY <2>1, <4>1, RecordType, <1>0 DEF Answer, Goto, Phase
        <5>2. file.tail = Nothing
          BY <1>0, <5>1 DEF TailIsClean
        <5> QED
          BY <2>1, <5>1, <5>2 DEF BetweenCalls
      <4>2. CASE Connect \/ Complete \/ Ask \/ AskRefused
        BY <4>2 DEF Connect, Complete, Ask, AskRefused, BetweenCalls
      <4> QED
        BY <2>3, <4>1, <4>2
    <3> QED
      BY <2>1, <3>1, <3>2 DEF SessionInv
  <2> QED
    BY <1>2, <2>2, <2>3 DEF HandOver
<1>3. CASE Begin
  <2>1. /\ UNCHANGED <<file, executed>> /\ session' = session + 1 /\ Readable(file)
        /\ told' = Dangling(IF session = 0 THEN NothingRecovered ELSE Recovery(file))
    BY <1>3 DEF Begin
  <2>2. \A call \in executed : call.session \in Nat /\ call.session <= session
                               /\ call.session # session + 1
    BY <1>0 DEF SessionInv
  <2>3. /\ \A call \in executed : call.session <= session'
        /\ SettledBut(file', executed', session', next_seq')
        /\ AllSettled(file', executed', session')
    BY <1>0, <2>1, <2>2 DEF SettledBut, AllSettled
  <2>4. ASSUME NEW call \in executed, call.session = session
        PROVE  Settled(RecordsOf(file), call.seq) \/ \E o \in told' : o.seq = call.seq
    <3>1. session # 0
      BY <1>0, <2>4
    <3>2. CASE Settled(file.lines, call.seq)
      BY <1>0, <3>2, SettledOnRecord
    <3>3. CASE call.seq = next_seq
      <4>1. next_seq \in InFlight(file.lines)
        BY <1>0, <3>3 DEF Ahead
      <4> QED
        BY <1>0, <2>1, <3>1, <3>3, <4>1, RecoveryIsRightHere, LeftOpenIsReported
    <3> QED
      BY <2>4, <3>2, <3>3 DEF SessionInv, SettledBut
  <2>5. SettledOrTold(file', executed', session' - 1, told')
    <3>1. session' - 1 = session
      BY <1>0, <2>1
    <3> QED
      BY <2>1, <2>4, <3>1 DEF SettledOrTold
  <2> QED
    BY <2>1, <2>3, <2>5 DEF SessionInv
<1>4. CASE Dispatch
  <2> DEFINE call == [seq |-> next_seq, session |-> session]
  <2>1. /\ place = "calling" /\ place' = "acting"
        /\ UNCHANGED <<file, session, told, pending, next_seq>>
        /\ executed' \in {executed, executed \cup {call}}
    BY <1>4 DEF Dispatch, Goto, opening, counts
  <2>2. call.session = session /\ call.seq = next_seq /\ session # session - 1
        /\ session <= session
    BY <1>0
  <2> HIDE DEF call
  <2>3. ~BetweenCalls'
    BY <2>1 DEF BetweenCalls
  <2>4. \A c \in executed' : c \in executed \/ c = call
    BY <2>1
  <2>5. /\ \A c \in executed' : c.session <= session'
        /\ SettledBut(file', executed', session', next_seq')
    BY <2>1, <2>2, <2>4 DEF SessionInv, SettledBut
  <2>6. Readable(file') => SettledOrTold(file', executed', session' - 1, told')
    BY <2>1, <2>2, <2>4 DEF SessionInv, SettledOrTold
  <2> QED
    BY <2>3, <2>5, <2>6 DEF SessionInv
<1>5. CASE Filing
  <2>0. UNCHANGED <<next_seq, session, told, executed>>
    BY <1>5, FilingMoves DEF IndInv
  <2>1. (place' # "idle" => place # "idle") /\ (place' # "idle" => Write \/ AskWriteFails \/ UNCHANGED file)
    BY <1>5 DEF Filing, SeeCancel, Crash, Write, WriteFails, AskWriteFails, Return
  <2>2. CASE pending = Nothing /\ file' = file
    <3>1. place' = "idle"
      BY <1>5, <2>2 DEF Filing, SeeCancel, Crash, Write, WriteFails, AskWriteFails, Return
    <3> QED
      BY <2>0, <2>2, <3>1 DEF SessionInv, BetweenCalls
  <2>3. CASE pending \in Records /\ file' \in Interrupted(file, pending)
    <3>1. \A call \in executed : Settled(file.lines, call.seq) => Settled(file'.lines, call.seq)
      BY <1>0, <2>3, StaysSettled
    <3>2. SettledBut(file', executed, session, next_seq)
      BY <3>1 DEF SessionInv, SettledBut
    <3>3. AllSettled(file, executed, session) => AllSettled(file', executed, session)
      BY <3>1 DEF AllSettled
    <3>4. CASE place' = "idle"
      BY <2>0, <3>2, <3>4 DEF SessionInv, BetweenCalls
    <3>5. CASE Write
      <4>1. place' = place /\ pending' = Nothing /\ file' = Written(file, pending)
        BY <3>5 DEF Write
      <4>2. place # "idle" /\ place # "acting"
        BY <1>0, <2>3, NoRecords DEF PendingFits
      <4>3. AllSettled(file', executed, session)
        <5>1. CASE BetweenCalls
          BY <3>3, <5>1 DEF SessionInv
        <5>2. CASE ~BetweenCalls
          <6>1. place = "closing" /\ file.tail = Nothing
            BY <4>2, <5>2 DEF BetweenCalls
          <6>2. pending.phase \in {"done", "error"} /\ pending.seq = next_seq
            BY <1>0, <2>3, <6>1, NoRecords DEF PendingFits, Record
          <6>3. next_seq \in InFlight(file.lines) => Settled(file'.lines, next_seq)
            BY <1>0, <2>3, <4>1, <6>1, <6>2, IsSettled
          <6>4. \A call \in executed : call.seq = next_seq => Settled(file'.lines, call.seq)
            BY <1>0, <6>3 DEF Ahead
          <6> QED
            BY <3>2, <6>4 DEF SettledBut, AllSettled
        <5> QED
          BY <5>1, <5>2
      <4>4. Readable(file') => file.tail = Nothing /\ Readable(file)
        <5>1. /\ Len(file.lines) + 1 \in DOMAIN file'.lines
              /\ file'.lines[Len(file.lines) + 1] = Continued(file, pending)
              /\ \A i \in DOMAIN file.lines : i \in DOMAIN file'.lines /\ file'.lines[i] = file.lines[i]
          BY <1>0, <2>3, <4>1, LinesOf, LinesWritten
        <5> QED
          BY <5>1 DEF Readable, Continued
      <4>5. Readable(file') => SettledOrTold(file', executed, session - 1, told)
        BY <1>0, <2>3, <4>2, <4>4, StaysToldAbout DEF SessionInv
      <4> QED
        BY <2>0, <3>2, <4>3, <4>5 DEF SessionInv
    <3>6. CASE AskWriteFails
      <4>1. place = "asking" /\ place' = "closing"
        BY <3>6 DEF AskWriteFails
      <4>2. file.tail = Nothing
        BY <1>0, <4>1 DEF TailIsClean
      <4>3. BetweenCalls
        BY <4>1 DEF BetweenCalls
      <4>4. AllSettled(file', executed, session)
        BY <3>3, <4>3 DEF SessionInv
      <4>5. Readable(file') => Readable(file)
        <5>1. \A i \in DOMAIN file.lines : i \in DOMAIN file'.lines /\ file'.lines[i] = file.lines[i]
          <6>1. CASE file' = Written(file, pending)
            BY <1>0, <2>3, <6>1, LinesOf, LinesWritten
          <6> QED
            BY <1>0, <2>3, <6>1, Outcomes
        <5> QED
          BY <5>1 DEF Readable
      <4>6. Readable(file') => SettledOrTold(file', executed, session - 1, told)
        BY <1>0, <2>3, <4>1, <4>2, <4>5, StaysToldAbout DEF SessionInv
      <4> QED
        BY <2>0, <3>2, <4>4, <4>6 DEF SessionInv
    <3> QED
      BY <2>3, <3>4, <3>5, <3>6, <1>5
         DEF Filing, SeeCancel, Crash, WriteFails, Return
  <2> QED
    BY <1>5, <2>2, <2>3, FilingMoves DEF IndInv
<1> QED
  BY <1>1, <1>2, <1>3, <1>4, <1>5, Steps

LEMMA SessionInvariant == Spec => []SessionInv
<1>1. Init => SessionInv
  BY DEF Init, SessionInv, SettledBut, AllSettled, SettledOrTold
<1>2. IndInv /\ NumberedAsks /\ SessionInv /\ [Next]_vars => SessionInv'
  <2>1. SessionInv /\ UNCHANGED vars => SessionInv'
    BY DEF SessionInv, BetweenCalls, vars
  <2> QED
    BY <2>1, SessionStep
<1> QED
  BY <1>1, <1>2, Invariant, AsksAreNumbered, PTL DEF Spec

(* opening_messages: a call that acted and has no end on record is the one *)
(* the next session is told not to replay, whatever ended the session.     *)
THEOREM OpenCallsAreTold == Spec => []LastOpenCallIsTold
<1>1. IndInv /\ SessionInv => LastOpenCallIsTold
  <2> SUFFICES ASSUME IndInv, SessionInv, place # "idle", Readable(file),
                      NEW call \in executed, call.session = session - 1,
                      call.seq \in {o.seq : o \in OpenCalls(RecordsOf(file))}
               PROVE  call.seq \in {o.seq : o \in told}
    BY DEF LastOpenCallIsTold
  <2> DEFINE log == RecordsOf(file)
  <2>1. PICK i \in DOMAIN log :
          log[i].phase = "in_flight" /\ ~ClosedAfter(log, i) /\ log[i].seq = call.seq
    BY DEF OpenCalls, Indices
  <2>2. DOMAIN log = 1..Len(log) /\ Len(log) \in Nat
    BY LogEntries, Round DEF IndInv, TypeOK
  <2>3. OpenedOnce(file)
    BY DEF IndInv, Data
  <2> HIDE DEF log
  <2>4. ~Settled(log, call.seq)
    <3> SUFFICES ASSUME NEW k \in DOMAIN log, NEW j \in DOMAIN log, k < j,
                        Opens(log, k), log[k].seq = call.seq,
                        Closes(log, j), log[j].seq = call.seq
                 PROVE  FALSE
      BY DEF Settled
    <3>1. k = i
      BY <2>1, <2>3 DEF OpenedOnce, Indices, Opens, log
    <3>2. j > i
      BY <2>2, <3>1
    <3> QED
      BY <2>1, <3>2 DEF ClosedAfter, Indices, Closes
  <2> QED
    BY <2>4 DEF SessionInv, SettledOrTold, log
<1> QED
  BY <1>1, Invariant, SessionInvariant, PTL

(* recover_on_boot and opening_messages: the call left open, the ask that  *)
(* is owed and the tokens spent reach the next session as they were.       *)
THEOREM WhatIsToldIsTrue == Spec => []SessionsAreToldTheTruth
  BY OpenCallsAreTold, HeldRunsHaveTheirAsk, UsageIsRecovered, PTL DEF SessionsAreToldTheTruth
---------------------------------------------------------------------------
(* The refinement of CallLog.                                              *)

Recorded(f) == InFlight(RecordsOf(f))

LEMMA RecordedSplits ==
  ASSUME NEW f \in Files
  PROVE  Recorded(f) = InFlight(f.lines) \cup
                         IF f.tail.phase = "in_flight" THEN {f.tail.seq} ELSE {}
<1> DEFINE log == RecordsOf(f)
           end == Len(f.lines) + 1
<1>1. DOMAIN f.lines = 1..Len(f.lines) /\ Len(f.lines) \in Nat
  BY LinesOf
<1>2. CASE f.tail \in {Nothing, Torn}
  <2>1. f.tail.phase # "in_flight"
    BY <1>2 DEF Nothing, Torn, Record
  <2> QED
    BY <1>2, <2>1, RecordsOfLines DEF Recorded
<1>3. CASE f.tail \notin {Nothing, Torn}
  <2>1. /\ DOMAIN log = 1..end /\ log[end] = f.tail
        /\ \A i \in DOMAIN f.lines : log[i] = f.lines[i]
    BY <1>3, RecordsOfLines
  <2> HIDE DEF log
  <2>2. DOMAIN log = DOMAIN f.lines \cup {end}
    BY <1>1, <2>1
  <2>3. InFlight(log) = InFlight(f.lines) \cup
                          IF f.tail.phase = "in_flight" THEN {f.tail.seq} ELSE {}
    <3>1. Indices(log, {"in_flight"}) =
            Indices(f.lines, {"in_flight"}) \cup {i \in {end} : f.tail.phase = "in_flight"}
      BY <2>1, <2>2 DEF Indices
    <3>2. \A i \in Indices(f.lines, {"in_flight"}) : log[i].seq = f.lines[i].seq
      BY <2>1 DEF Indices
    <3> QED
      BY <2>1, <3>1, <3>2 DEF InFlight
  <2> QED
    BY <2>3 DEF Recorded, log
<1> QED
  BY <1>2, <1>3

(* A write, cut short or not, adds the number of its record, or spoils the *)
(* one that was cut short before, or neither.                              *)
LEMMA RecordedAfter ==
  ASSUME NEW f \in Files, NEW record \in Records, NEW g \in Interrupted(f, record)
  PROVE  Recorded(g) \in {Recorded(f), InFlight(f.lines), Recorded(f) \cup {record.seq}}
<1> DEFINE next == Continued(f, record)
           Of(r) == IF r.phase = "in_flight" THEN {r.seq} ELSE {}
<1>0. g \in Files
  BY WritingType
<1>1. /\ Recorded(f) = InFlight(f.lines) \cup Of(f.tail)
      /\ Recorded(g) = InFlight(g.lines) \cup Of(g.tail)
  BY <1>0, RecordedSplits
<1>2. Of(Nothing) = {} /\ Of(Torn) = {}
  BY DEF Nothing, Torn, Record
<1>3. /\ f.tail = Nothing => next = record
      /\ f.tail # Nothing => next = Torn
  BY DEF Continued
<1> HIDE DEF next
<1>4. CASE g = Written(f, record)
  <2>1. /\ g.tail = Nothing /\ DOMAIN g.lines = DOMAIN f.lines \cup {Len(f.lines) + 1}
        /\ \A i \in DOMAIN f.lines : g.lines[i] = f.lines[i]
        /\ g.lines[Len(f.lines) + 1] = next
    BY <1>4, LinesOf, LinesWritten DEF next
  <2>2. InFlight(g.lines) = InFlight(f.lines) \cup Of(next)
    BY <2>1 DEF InFlight, Indices
  <2>3. Recorded(g) = InFlight(f.lines) \cup Of(next)
    BY <1>1, <1>2, <2>1, <2>2
  <2> QED
    BY <1>1, <1>2, <1>3, <2>3
<1>5. CASE g.lines = f.lines /\ g.tail \in {f.tail, Torn, next}
  BY <1>1, <1>2, <1>3, <1>5
<1> QED
  BY <1>4, <1>5, Outcomes DEF next

LEMMA CallStep ==
  ASSUME IndInv, [Next]_vars
  PROVE  [Calls!Next]_(Calls!vars)
<1> USE DEF Calls!vars, Calls!Acted
<1>0. /\ file \in Files /\ (pending # Nothing => pending \in Records)
      /\ Control /\ Data
  BY DEF IndInv, TypeOK
<1>1. CASE UNCHANGED <<file, executed>>
  BY <1>1
<1>2. CASE Filing
  <2>1. executed' = executed
    BY <1>2, <1>0, FilingMoves DEF IndInv
  <2>2. CASE file' = file
    BY <2>1, <2>2
  <2>3. CASE pending \in Records /\ file' \in Interrupted(file, pending)
    <3>1. Recorded(file') \in {Recorded(file), InFlight(file.lines),
                               Recorded(file) \cup {pending.seq}}
      BY <1>0, <2>3, RecordedAfter
    <3>2. CASE Recorded(file') = InFlight(file.lines)
      <4>1. \/ Recorded(file') = Recorded(file)
            \/ \E n \in Recorded(file) :
                 Recorded(file') = Recorded(file) \ {n} /\ n \notin InFlight(file.lines)
        <5> DEFINE whole == InFlight(file.lines)
                   rest  == IF file.tail.phase = "in_flight" THEN {file.tail.seq} ELSE {}
        <5>1. Recorded(file) = whole \cup rest /\ Recorded(file') = whole
          BY <1>0, <3>2, RecordedSplits
        <5>2. rest = {} \/ rest = {file.tail.seq}
          OBVIOUS
        <5> HIDE DEF whole, rest
        <5>3. CASE rest \subseteq whole
          BY <5>1, <5>3
        <5>4. CASE rest = {file.tail.seq} /\ file.tail.seq \notin whole
          <6>1. file.tail.seq \in Recorded(file) /\ whole = Recorded(file) \ {file.tail.seq}
            BY <5>1, <5>4
          <6> QED
            BY <5>1, <5>4, <6>1 DEF whole
        <5> QED
          BY <5>2, <5>3, <5>4
      <4>2. {act.seq : act \in executed} \subseteq InFlight(file.lines)
        BY <1>0 DEF Data, Ahead
      <4> QED
        BY <2>1, <4>1, <4>2 DEF Recorded, Calls!Next, Calls!Lose
    <3>3. CASE Recorded(file') = Recorded(file) \cup {pending.seq}
      BY <2>1, <3>3 DEF Recorded, Calls!Next, Calls!Enter
    <3> QED
      BY <2>1, <3>1, <3>2, <3>3 DEF Recorded
  <2> QED
    BY <1>2, <1>0, <2>2, <2>3, FilingMoves DEF IndInv
<1>3. CASE Dispatch
  <2> DEFINE call == [seq |-> next_seq, session |-> session]
  <2>1. /\ place = "calling" /\ pending = Nothing /\ file' = file
        /\ executed' \in {executed, executed \cup {call}}
    BY <1>3 DEF Dispatch, Goto
  <2>2. call.seq \in InFlight(file.lines) /\ \A act \in executed : act.seq # call.seq
    BY <1>0, <2>1 DEF Data, NotActed
  <2>3. call.seq \in Recorded(file) \ {act.seq : act \in executed} /\ call \notin executed
    BY <1>0, <2>2, RecordedSplits
  <2> HIDE DEF call
  <2> QED
    BY <2>1, <2>3 DEF Recorded, Calls!Next, Calls!Act
<1>4. CASE Begin
  BY <1>1, <1>4 DEF Begin
<1>5. CASE Quiet
  BY <1>1, <1>5
     DEF Quiet, Refuse, Cancel, Fail, Turn, TurnsUsedUp, UseTools, EndTurn, BadAnswer,
         TurnDone, Close, Park
<1>6. CASE HandOver
  BY <1>1, <1>6 DEF HandOver, Open, Complete, Connect, Answer, Ask, AskRefused
<1>7. CASE UNCHANGED vars
  BY <1>1, <1>7 DEF vars
<1> QED
  BY <1>2, <1>3, <1>4, <1>5, <1>6, <1>7, Steps

(* The loop journals a call before it dispatches it, and numbers it above  *)
(* everything on record: every run implements CallLog.                     *)
THEOREM RunsKeepCallLog == Spec => CallsActOnRecord
<1>1. Init => Calls!Init
  <2> SUFFICES ASSUME Init PROVE Calls!Init
    OBVIOUS
  <2>1. NewFile \in Files /\ NewFile.tail = Nothing /\ NewFile.lines = <<>>
    BY NothingIsRecovered
  <2>2. DOMAIN NewFile.lines = {}
    BY <2>1, LinesOf
  <2>3. Recorded(NewFile) = {}
    BY <2>1, <2>2, RecordedSplits DEF InFlight, Indices, Nothing, Record
  <2> QED
    BY <2>3 DEF Init, Calls!Init, Recorded
<1>2. IndInv /\ [Next]_vars => [Calls!Next]_(Calls!vars)
  BY CallStep
<1> QED
  BY <1>1, <1>2, Invariant, PTL DEF Spec, Calls!Spec, CallsActOnRecord
=============================================================================
