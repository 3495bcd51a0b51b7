-------------------------- MODULE RunStreamProofs --------------------------
(***************************************************************************)
(* Proofs about RunStream: what the clients of a run's channel get, for    *)
(* any buffer, capacity, number of sockets and length of the run.          *)
(***************************************************************************)
EXTENDS RunStream, SequenceTheorems, TLAPS

Elements(q) == {q[i] : i \in DOMAIN q}
Ordered(q)  == \A i, j \in DOMAIN q : i < j => q[i] < q[j]

(* Sequences of frame numbers.                                             *)
LEMMA Appended ==
  ASSUME NEW q \in Seq(Numbers), NEW n \in Numbers
  PROVE  /\ Append(q, n) \in Seq(Numbers)
         /\ Elements(Append(q, n)) = Elements(q) \cup {n}
         /\ Ordered(q) /\ (\A m \in Elements(q) : m < n) => Ordered(Append(q, n))
<1> DEFINE longer == Append(q, n)
<1>1. /\ longer \in Seq(Numbers) /\ Len(longer) = Len(q) + 1 /\ Len(q) \in Nat
      /\ \A i \in 1..Len(q) : longer[i] = q[i]
      /\ longer[Len(q) + 1] = n
  BY AppendProperties, LenProperties
<1> HIDE DEF longer
<1>2. DOMAIN q = 1..Len(q) /\ DOMAIN longer = 1..(Len(q) + 1)
  BY <1>1, LenProperties
<1>3. Elements(longer) = Elements(q) \cup {n}
  BY <1>1, <1>2 DEF Elements
<1>4. ASSUME Ordered(q), \A m \in Elements(q) : m < n
      PROVE  Ordered(longer)
  <2>1. \A i \in 1..Len(q) : q[i] < n
    BY <1>2, <1>4 DEF Elements
  <2> QED
    BY <1>1, <1>2, <1>4, <2>1 DEF Ordered
<1> QED
  BY <1>1, <1>3, <1>4 DEF longer

LEMMA Behead ==
  ASSUME NEW q \in Seq(Numbers), q # <<>>
  PROVE  /\ Head(q) \in Numbers /\ Tail(q) \in Seq(Numbers)
         /\ Elements(q) = {Head(q)} \cup Elements(Tail(q))
         /\ Ordered(q) => Ordered(Tail(q)) /\ \A m \in Elements(Tail(q)) : Head(q) < m
<1> DEFINE rest == Tail(q)
<1>1. /\ rest \in Seq(Numbers) /\ Len(rest) = Len(q) - 1 /\ Len(q) \in Nat \ {0}
      /\ \A i \in 1..Len(rest) : rest[i] = q[i + 1]
  BY HeadTailProperties, EmptySeq
<1>2. Head(q) = q[1] /\ Head(q) \in Numbers
  BY HeadTailProperties
<1> HIDE DEF rest
<1>3. DOMAIN q = 1..Len(q) /\ DOMAIN rest = 1..(Len(q) - 1)
  BY <1>1, LenProperties
<1>4. \A i \in 1..(Len(q) - 1) : rest[i] = q[i + 1] /\ i + 1 \in 1..Len(q)
  BY <1>1
<1>5. Elements(q) = {Head(q)} \cup Elements(rest)
  <2>1. ASSUME NEW i \in 1..Len(q) PROVE q[i] \in {Head(q)} \cup Elements(rest)
    <3>1. CASE i = 1
      BY <1>2, <3>1, Zenon
    <3>2. CASE i # 1
      <4>1. i - 1 \in 1..(Len(q) - 1) /\ (i - 1) + 1 = i
        BY <1>1, <3>2
      <4>2. rest[i - 1] = q[i]
        BY <1>4, <4>1
      <4> QED
        BY <1>3, <4>1, <4>2 DEF Elements
    <3> QED
      BY <3>1, <3>2
  <2>2. 1 \in DOMAIN q /\ \A i \in DOMAIN rest : i + 1 \in DOMAIN q /\ rest[i] = q[i + 1]
    BY <1>1, <1>3, <1>4
  <2>3. Head(q) \in Elements(q) /\ Elements(rest) \subseteq Elements(q)
    BY <1>2, <2>2 DEF Elements
  <2>4. Elements(q) \subseteq {Head(q)} \cup Elements(rest)
    BY <1>3, <2>1 DEF Elements
  <2> QED
    BY <2>3, <2>4
<1>6. ASSUME Ordered(q)
      PROVE  Ordered(rest) /\ \A m \in Elements(rest) : Head(q) < m
  <2>1. Ordered(rest)
    <3>1. ASSUME NEW i \in DOMAIN rest, NEW j \in DOMAIN rest, i < j
          PROVE  rest[i] < rest[j]
      <4>1. i + 1 \in DOMAIN q /\ j + 1 \in DOMAIN q /\ i + 1 < j + 1
        BY <1>1, <1>3, <3>1
      <4> QED
        BY <1>3, <1>4, <1>6, <4>1 DEF Ordered
    <3> QED
      BY <3>1 DEF Ordered
  <2>2. \A i \in 1..(Len(q) - 1) : q[1] < rest[i]
    BY <1>1, <1>3, <1>4, <1>6 DEF Ordered
  <2> QED
    BY <1>2, <1>3, <2>1, <2>2 DEF Elements
<1> QED
  BY <1>1, <1>2, <1>5, <1>6 DEF rest

LEMMA NoElements == <<>> \in Seq(Numbers) /\ Elements(<<>>) = {} /\ Ordered(<<>>)
<1>1. DOMAIN <<>> = {}
  BY EmptySeq, LenProperties
<1> QED
  BY <1>1, EmptySeq DEF Elements, Ordered

LEMMA ElementsType ==
  ASSUME NEW q \in Seq(Numbers)
  PROVE  Elements(q) \subseteq Numbers
BY LenProperties, ElementOfSeq DEF Elements
---------------------------------------------------------------------------
(* The inductive invariant.                                                *)

(* The buffer is the beginning of what this process has broadcast, all of  *)
(* it until the buffer is full.                                            *)
BufferIsTheBeginning ==
  /\ Ordered(buffer)
  /\ \A n \in Elements(buffer) : since < n /\ n <= Len(frames)
  /\ \A n \in since + 1..since + MaxBuffer : n <= Len(frames) => n \in Elements(buffer)
  /\ Len(buffer) + since <= Len(frames)
  /\ Len(buffer) < MaxBuffer => Len(buffer) + since = Len(frames)

Connected == {"subscribed", "replaying", "live", "sending"}

(* What a socket has sent, what is left of its replay and what its         *)
(* receiver still has to take follow each other.                           *)
Watches(s) ==
  LET sent == Elements(got[s])  due == Elements(replay[s]) IN
  /\ Ordered(got[s]) /\ Ordered(replay[s])
  /\ place[s] \notin Connected => sent = {}
  /\ place[s] \in {"live", "sending"} => due = {}
  /\ place[s] = "sending" => next[s] <= Len(frames)
  /\ place[s] \in Connected =>
       /\ since < next[s] /\ next[s] <= Len(frames) + 1
       /\ \A n \in sent \cup due : since < n /\ n < next[s]
       /\ \A m \in sent, n \in due : m < n
       /\ ~lagged[s] =>
            \A n \in since + 1..since + MaxBuffer :
              n < next[s] /\ Framed(s, n) => n \in sent \cup due

IndInv == TypeOK /\ BufferIsTheBeginning /\ \A s \in Sockets : Watches(s)
---------------------------------------------------------------------------
LEMMA Typed ==
  ASSUME TypeOK
  PROVE  /\ Len(frames) \in Nat /\ Len(frames) <= MaxFrames /\ since \in Nat
         /\ DOMAIN frames = 1..Len(frames) /\ since <= Len(frames)
         /\ MaxFrames \in Nat /\ MaxBuffer \in Nat /\ Capacity \in Nat \ {0}
         /\ Numbers \subseteq Int
         /\ \A s \in Sockets : next[s] \in Int
BY RunStreamAssumption, LenProperties DEF TypeOK, Numbers

(* A socket whose task did not move: the run's frames may have grown.      *)
LEMMA Untouched ==
  ASSUME TypeOK, NEW s \in Sockets, Watches(s),
         place'[s] = place[s], replay'[s] = replay[s], next'[s] = next[s],
         lagged'[s] = lagged[s], got'[s] = got[s], since' = since,
         Len(frames') \in Int, Len(frames) <= Len(frames'),
         \A n \in 1..Len(frames) : frames'[n] = frames[n]
  PROVE  Watches(s)'
<1>1. \A n \in 1..Len(frames) : Framed(s, n)' <=> Framed(s, n)
  BY DEF Framed
<1>2. ASSUME place[s] \in Connected, NEW n \in since + 1..since + MaxBuffer, n < next[s]
      PROVE  n \in 1..Len(frames)
  BY <1>2, Typed DEF Watches
<1> QED
  BY <1>1, <1>2, Typed DEF Watches

(* The task moves on and does nothing else.                                *)
LEMMA Moved ==
  ASSUME TypeOK, NEW s \in Sockets, Watches(s),
         UNCHANGED <<frames, since, replay, next, lagged, got>>,
         \/ place[s] = "out" /\ place'[s] = "admitted"
         \/ place[s] = "subscribed" /\ place'[s] = "replaying"
         \/ place[s] = "replaying" /\ replay[s] = <<>> /\ place'[s] = "live"
         \/ place[s] = "live" /\ next[s] <= Len(frames) /\ place'[s] = "sending"
  PROVE  Watches(s)'
<1>1. \A n : Framed(s, n)' <=> Framed(s, n)
  BY DEF Framed
<1>2. place[s] = "out" => Elements(got[s]) = {}
  BY DEF Watches, Connected
<1> QED
  BY <1>1, <1>2, NoElements DEF Watches, Connected

LEMMA ReplaySends ==
  ASSUME TypeOK, NEW s \in Sockets, Watches(s), Replay(s)
  PROVE  Watches(s)'
<1> DEFINE n == Head(replay[s])
           rest == Tail(replay[s])
           sent == Elements(got[s])
<1>1. /\ place[s] = "replaying" /\ replay[s] # <<>> /\ place' = place /\ next' = next
      /\ lagged' = lagged /\ frames' = frames /\ since' = since /\ replay'[s] = rest
      /\ got'[s] = IF Framed(s, n) THEN Append(got[s], n) ELSE got[s]
  BY DEF Replay, TypeOK, channel
<1>2. got[s] \in Seq(Numbers) /\ replay[s] \in Seq(Numbers)
  BY DEF TypeOK
<1>3. /\ n \in Numbers /\ Elements(replay[s]) = {n} \cup Elements(rest)
      /\ Ordered(rest) /\ \A m \in Elements(rest) : n < m
  BY <1>1, <1>2, Behead DEF Watches
<1>4. /\ since < next[s] /\ next[s] <= Len(frames) + 1 /\ Ordered(got[s])
      /\ \A m \in sent \cup Elements(replay[s]) : since < m /\ m < next[s]
      /\ \A l \in sent, m \in Elements(replay[s]) : l < m
      /\ ~lagged[s] =>
            \A m \in since + 1..since + MaxBuffer :
              m < next[s] /\ Framed(s, m) => m \in sent \cup Elements(replay[s])
  BY <1>1 DEF Watches, Connected
<1>5. Ordered(got'[s])
  BY <1>1, <1>2, <1>3, <1>4, Appended
<1>6. Elements(got'[s]) = IF Framed(s, n) THEN sent \cup {n} ELSE sent
  BY <1>1, <1>2, <1>3, Appended
<1>7. \A m : Framed(s, m)' <=> Framed(s, m)
  BY <1>1 DEF Framed
<1>8. Elements(replay'[s]) = Elements(rest)
  BY <1>1
<1> HIDE DEF n, rest, sent
<1>9. /\ since' < next'[s] /\ next'[s] <= Len(frames') + 1
      /\ \A m \in Elements(got'[s]) \cup Elements(rest) : since < m /\ m < next[s]
      /\ \A l \in Elements(got'[s]), m \in Elements(rest) : l < m
      /\ ~lagged[s] =>
            \A m \in since + 1..since + MaxBuffer :
              m < next[s] /\ Framed(s, m) => m \in Elements(got'[s]) \cup Elements(rest)
  BY <1>1, <1>3, <1>4, <1>6
<1> QED
  BY <1>1, <1>3, <1>5, <1>7, <1>8, <1>9 DEF Watches, Connected, sent, rest

LEMMA SendSends ==
  ASSUME TypeOK, NEW s \in Sockets, Watches(s), Send(s)
  PROVE  Watches(s)' /\ next[s] \in Numbers
<1> DEFINE n == next[s]
           sent == Elements(got[s])
<1>1. /\ place[s] = "sending" /\ place'[s] = "live" /\ next'[s] = n + 1
      /\ UNCHANGED <<lagged, frames, since, replay>>
      /\ got'[s] = IF Framed(s, n) THEN Append(got[s], n) ELSE got[s]
  BY DEF Send, Move, TypeOK, channel
<1>2. got[s] \in Seq(Numbers) /\ next[s] \in Int
  BY Typed DEF TypeOK
<1>3. /\ since < n /\ n <= Len(frames) /\ Ordered(got[s]) /\ Ordered(replay[s])
      /\ Elements(replay[s]) = {}
      /\ \A m \in sent : since < m /\ m < n
      /\ ~lagged[s] =>
            \A m \in since + 1..since + MaxBuffer : m < n /\ Framed(s, m) => m \in sent
  BY <1>1 DEF Watches, Connected
<1>4. n \in Numbers
  BY <1>2, <1>3, Typed DEF Numbers
<1>5. Ordered(got'[s]) /\ Elements(got'[s]) = IF Framed(s, n) THEN sent \cup {n} ELSE sent
  BY <1>1, <1>2, <1>3, <1>4, Appended
<1>6. \A m : Framed(s, m)' <=> Framed(s, m)
  BY <1>1 DEF Framed
<1> HIDE DEF n, sent
<1>7. /\ since' < next'[s] /\ next'[s] <= Len(frames') + 1
      /\ \A m \in Elements(got'[s]) : since < m /\ m < next'[s]
      /\ ~lagged[s] =>
            \A m \in since + 1..since + MaxBuffer :
              m < next'[s] /\ Framed(s, m) => m \in Elements(got'[s])
  <2>1. n \in Int /\ since \in Int /\ sent \subseteq Int /\ Len(frames) \in Int
    BY <1>2, Typed, ElementsType DEF n, sent
  <2>2. /\ Elements(got'[s]) \subseteq sent \cup {n} /\ sent \subseteq Elements(got'[s])
        /\ Framed(s, n) => n \in Elements(got'[s])
    BY <1>5
  <2>3. ASSUME NEW m \in Elements(got'[s]) PROVE since < m /\ m < n + 1
    <3>1. m = n \/ m \in sent
      BY <2>2
    <3>2. since < n /\ (m \in sent => since < m /\ m < n)
      BY <1>3
    <3>3. m \in Int
      BY <2>1, <3>1
    <3> QED
      BY <2>1, <3>1, <3>2, <3>3
  <2>4. ASSUME ~lagged[s], NEW m \in since + 1..since + MaxBuffer, m < n + 1, Framed(s, m)
        PROVE  m \in Elements(got'[s])
    <3>1. m = n \/ m < n
      BY <2>1, <2>4, Typed
    <3>2. m < n => m \in sent
      BY <1>3, <2>4
    <3>3. m \in sent => m \in Elements(got'[s])
      BY <2>2
    <3>4. m = n => m \in Elements(got'[s])
      BY <2>2, <2>4
    <3> QED
      BY <3>1, <3>2, <3>3, <3>4
  <2>5. since' < next'[s] /\ next'[s] <= Len(frames') + 1
    BY <1>1, <1>3, <2>1
  <2> QED
    BY <1>1, <2>3, <2>4, <2>5
<1> QED
  BY <1>1, <1>3, <1>4, <1>5, <1>6, <1>7 DEF Watches, Connected, n

LEMMA LagSkips ==
  ASSUME TypeOK, NEW s \in Sockets, Watches(s), Lag(s)
  PROVE  Watches(s)' /\ next'[s] \in 1..MaxFrames + 1
<1>1. /\ place[s] = "live" /\ place' = place /\ lagged'[s] = TRUE
      /\ next'[s] = Len(frames) + 1 - Capacity /\ Len(frames) + 1 - next[s] > Capacity
      /\ UNCHANGED <<frames, since, replay, got>>
  BY DEF Lag, TypeOK, channel, Behind
<1>2. next[s] < next'[s] /\ next'[s] <= Len(frames) /\ next[s] \in 1..MaxFrames + 1
  <2>1. next[s] \in 1..MaxFrames + 1
    BY DEF TypeOK
  <2>2. Len(frames) \in Nat
    BY DEF TypeOK
  <2> QED
    BY <1>1, <2>1, <2>2, Typed
<1>3. /\ since < next'[s] /\ Ordered(got[s]) /\ Ordered(replay[s])
      /\ \A n \in Elements(got[s]) : since < n /\ n < next'[s]
      /\ Elements(replay[s]) = {}
  <2>1. since < next[s] /\ \A n \in Elements(got[s]) : since < n /\ n < next[s]
    BY <1>1 DEF Watches, Connected
  <2>2. Elements(got[s]) \subseteq Int
    BY Typed, ElementsType DEF TypeOK
  <2> QED
    BY <1>1, <1>2, <2>1, <2>2, Typed DEF Watches, Connected
<1>4. next'[s] <= Len(frames) + 1 /\ next'[s] \in 1..MaxFrames + 1
  BY <1>1, <1>2, Typed
<1> QED
  BY <1>1, <1>3, <1>4 DEF Watches, Connected

LEMMA ConnectCopies ==
  ASSUME TypeOK, BufferIsTheBeginning, NEW s \in Sockets, Watches(s), Connect(s)
  PROVE  Watches(s)'
<1>1. /\ place[s] = "admitted" /\ place'[s] = "subscribed" /\ replay'[s] = buffer
      /\ next'[s] = Len(frames) + 1 /\ UNCHANGED <<frames, since, got>>
  BY DEF Connect, Move, TypeOK, channel
<1>2. Elements(got[s]) = {} /\ Ordered(got[s])
  BY <1>1 DEF Watches, Connected
<1>3. Elements(buffer) \subseteq Int
  BY Typed, ElementsType DEF TypeOK
<1>4. /\ \A n \in Elements(buffer) : since < n /\ n < Len(frames) + 1
      /\ \A n \in since + 1..since + MaxBuffer : n < Len(frames) + 1 => n \in Elements(buffer)
  BY <1>3, Typed DEF BufferIsTheBeginning
<1> QED
  BY <1>1, <1>2, <1>4, Typed DEF Watches, Connected, BufferIsTheBeginning

LEMMA Returned ==
  ASSUME NEW some, Return(some), NEW s \in Sockets, s \in some
  PROVE  Watches(s)'
<1>1. place'[s] = "out" /\ got'[s] = <<>> /\ replay'[s] = <<>>
  BY DEF Return
<1> QED
  BY <1>1, NoElements DEF Watches, Connected
---------------------------------------------------------------------------
(* The steps of sockets, and all others.                                   *)
Moves(s) == Admit(s) \/ Watch(s) \/ GoLive(s) \/ Take(s)
Ends(s)  == CloseRevoked(s) \/ Leave(s) \/ Follow(s)
Turns(s) == Moves(s) \/ Ends(s) \/ Connect(s) \/ Replay(s) \/ Lag(s) \/ Send(s)

LEMMA Steps ==
  Next => \/ Broadcast \/ Restart
          \/ \E s \in Sockets : Turns(s)
          \/ \E d \in Devices : DeleteRow(d) \/ Disconnect(d)
BY DEF Next, Pump, Turns, Moves, Ends

(* A socket's step is its own.                                             *)
LEMMA OthersStay ==
  ASSUME TypeOK, NEW s \in Sockets, Turns(s), NEW u \in Sockets, u # s
  PROVE  /\ place'[u] = place[u] /\ replay'[u] = replay[u] /\ next'[u] = next[u]
         /\ lagged'[u] = lagged[u] /\ got'[u] = got[u]
<1> USE DEF TypeOK, Move, Return
<1>1. CASE Moves(s)
  BY <1>1 DEF Moves, Admit, Watch, GoLive, Take
<1>2. CASE Ends(s)
  <2>1. Return({s})
    BY <1>2 DEF Ends, CloseRevoked, Leave, Follow
  <2> QED
    BY <2>1
<1>3. CASE Connect(s) \/ Replay(s)
  BY <1>3 DEF Connect, Replay
<1>4. CASE Lag(s) \/ Send(s)
  BY <1>4 DEF Lag, Send
<1> QED
  BY <1>1, <1>2, <1>3, <1>4 DEF Turns

LEMMA ChannelStays ==
  ASSUME NEW s \in Sockets, Turns(s)
  PROVE  UNCHANGED <<frames, since, buffer, paired, revoking>>
BY DEF Turns, Moves, Ends, Admit, Watch, GoLive, Take, CloseRevoked, Leave, Follow,
       Connect, Replay, Lag, Send, channel, rows

LEMMA OneTurn ==
  ASSUME TypeOK, BufferIsTheBeginning, NEW s \in Sockets, Watches(s), Turns(s)
  PROVE  Watches(s)'
<1>1. CASE Moves(s)
  <2>1. UNCHANGED <<frames, since, replay, next, lagged, got>>
    BY <1>1 DEF Moves, Admit, Watch, GoLive, Take, channel
  <2>2. \/ place[s] = "out" /\ place'[s] = "admitted"
        \/ place[s] = "subscribed" /\ place'[s] = "replaying"
        \/ place[s] = "replaying" /\ replay[s] = <<>> /\ place'[s] = "live"
        \/ place[s] = "live" /\ next[s] <= Len(frames) /\ place'[s] = "sending"
    <3>1. CASE Take(s)
      <4>1. Len(frames) + 1 - next[s] \in 1..Capacity
        BY <3>1 DEF Take, Behind
      <4>2. next[s] <= Len(frames)
        BY <4>1, Typed
      <4> QED
        BY <3>1, <4>2 DEF Take, Move, TypeOK
    <3>2. CASE Admit(s) \/ Watch(s) \/ GoLive(s)
      BY <3>2 DEF Admit, Watch, GoLive, Move, TypeOK
    <3> QED
      BY <1>1, <3>1, <3>2 DEF Moves
  <2> QED
    BY <2>1, <2>2, Moved
<1>2. CASE Ends(s)
  <2>1. Return({s})
    BY <1>2 DEF Ends, CloseRevoked, Leave, Follow
  <2> QED
    BY <2>1, Returned
<1> QED
  BY <1>1, <1>2, ConnectCopies, ReplaySends, LagSkips, SendSends DEF Turns

LEMMA WatchesStep ==
  ASSUME IndInv, [Next]_vars, NEW u \in Sockets
  PROVE  Watches(u)'
<1>0. TypeOK /\ BufferIsTheBeginning /\ Watches(u)
  BY DEF IndInv
<1>1. CASE Broadcast
  <2>1. PICK kind \in Kinds : frames' = Append(frames, kind)
    BY <1>1 DEF Broadcast
  <2>2. /\ Len(frames') = Len(frames) + 1
        /\ \A n \in 1..Len(frames) : frames'[n] = frames[n]
    BY <1>0, <2>1, AppendProperties DEF TypeOK
  <2> QED
    BY <1>0, <1>1, <2>2, Typed, Untouched DEF Broadcast
<1>2. CASE Restart
  BY <1>2, Returned DEF Restart
<1>3. ASSUME NEW s \in Sockets, Turns(s)
      PROVE  Watches(u)'
  <2>1. CASE s = u
    BY <1>0, <1>3, <2>1, OneTurn
  <2>2. CASE s # u
    BY <1>0, <1>3, <2>2, OthersStay, ChannelStays, Typed, Untouched
  <2> QED
    BY <2>1, <2>2
<1>4. CASE UNCHANGED vars \/ \E d \in Devices : DeleteRow(d) \/ Disconnect(d)
  <2>1. UNCHANGED <<frames, since, place, replay, next, lagged, got>>
    BY <1>4 DEF vars, DeleteRow, Disconnect, channel
  <2> QED
    BY <1>0, <2>1, Typed, Untouched
<1> QED
  BY <1>1, <1>2, <1>3, <1>4, Steps

LEMMA BufferStep ==
  ASSUME IndInv, [Next]_vars
  PROVE  BufferIsTheBeginning'
<1>0. TypeOK /\ BufferIsTheBeginning
  BY DEF IndInv
<1>1. CASE Broadcast
  <2> DEFINE n == Len(frames) + 1
  <2>1. /\ Len(frames') = n /\ since' = since /\ n <= MaxFrames
        /\ buffer' = IF Len(buffer) < MaxBuffer THEN Append(buffer, n) ELSE buffer
    BY <1>0, <1>1, AppendProperties, Typed DEF Broadcast, TypeOK
  <2>2. n \in Numbers /\ buffer \in Seq(Numbers) /\ Len(buffer) \in Nat
    BY <1>0, <2>1, Typed, LenProperties DEF TypeOK, Numbers
  <2>3. /\ Ordered(buffer) /\ Elements(buffer) \subseteq Int
        /\ \A m \in Elements(buffer) : since < m /\ m < n
    BY <1>0, <2>2, ElementsType, Typed DEF BufferIsTheBeginning
  <2>4. CASE Len(buffer) < MaxBuffer
    <3>1. /\ Ordered(buffer') /\ Elements(buffer') = Elements(buffer) \cup {n}
          /\ Len(buffer') = Len(buffer) + 1
      BY <2>1, <2>2, <2>3, <2>4, Appended, AppendProperties
    <3>2. /\ \A m \in Elements(buffer') : since' < m /\ m <= Len(frames')
          /\ \A m \in since' + 1..since' + MaxBuffer : m <= Len(frames') => m \in Elements(buffer')
      <4>1. since < n
        BY <1>0, Typed
      <4>2. \A m \in Int : m <= n => m = n \/ m <= Len(frames)
        BY <1>0, Typed
      <4>3. \A m \in since + 1..since + MaxBuffer : m <= Len(frames) => m \in Elements(buffer)
        BY <1>0 DEF BufferIsTheBeginning
      <4>4. \A m \in Elements(buffer) : m \in Int /\ since < m /\ m < n
        BY <2>3
      <4>5. n \in Int
        BY <1>0, Typed
      <4> HIDE DEF n
      <4>6. \A m \in Elements(buffer') : since' < m /\ m <= Len(frames')
        BY <2>1, <3>1, <4>1, <4>4, <4>5
      <4>7. \A m \in since' + 1..since' + MaxBuffer : m <= Len(frames') => m \in Elements(buffer')
        BY <2>1, <3>1, <4>2, <4>3
      <4> QED
        BY <4>6, <4>7
    <3>3. /\ Len(buffer') + since' <= Len(frames')
          /\ Len(buffer') < MaxBuffer => Len(buffer') + since' = Len(frames')
      BY <1>0, <2>1, <2>2, <2>4, <3>1, Typed DEF BufferIsTheBeginning
    <3> QED
      BY <3>1, <3>2, <3>3 DEF BufferIsTheBeginning
  <2>5. CASE ~(Len(buffer) < MaxBuffer)
    <3>1. buffer' = buffer /\ n > since + MaxBuffer
      BY <1>0, <2>1, <2>2, <2>5, Typed DEF BufferIsTheBeginning
    <3> QED
      BY <1>0, <2>1, <2>2, <2>3, <2>5, <3>1, Typed DEF BufferIsTheBeginning
  <2> QED
    BY <2>4, <2>5
<1>2. CASE Restart
  <2>1. frames' = frames /\ since' = Len(frames) /\ buffer' = <<>>
    BY <1>2 DEF Restart
  <2>2. Len(<<>>) = 0
    BY EmptySeq
  <2> QED
    BY <1>0, <2>1, <2>2, NoElements, Typed DEF BufferIsTheBeginning
<1>3. CASE UNCHANGED <<frames, since, buffer>>
  BY <1>0, <1>3 DEF BufferIsTheBeginning
<1>4. CASE UNCHANGED vars \/ \E d \in Devices : DeleteRow(d) \/ Disconnect(d)
  BY <1>3, <1>4 DEF vars, DeleteRow, Disconnect, channel
<1> QED
  BY <1>1, <1>2, <1>3, <1>4, ChannelStays, Steps

LEMMA TypeStep ==
  ASSUME IndInv, [Next]_vars
  PROVE  TypeOK'
<1>0. TypeOK /\ BufferIsTheBeginning /\ \A s \in Sockets : Watches(s)
  BY DEF IndInv
<1> DEFINE Locals == /\ place' \in [Sockets -> Places]
                     /\ replay' \in [Sockets -> Seq(Numbers)]
                     /\ next' \in [Sockets -> 1..MaxFrames + 1]
                     /\ watching' \in [Sockets -> BOOLEAN]
                     /\ told' \in [Sockets -> BOOLEAN]
                     /\ lagged' \in [Sockets -> BOOLEAN]
                     /\ got' \in [Sockets -> Seq(Numbers)]
<1>1. CASE Broadcast
  <2>1. PICK kind \in Kinds : frames' = Append(frames, kind)
    BY <1>1 DEF Broadcast
  <2>2. frames' \in Seq(Kinds) /\ Len(frames') = Len(frames) + 1 /\ Len(frames) < MaxFrames
    BY <1>0, <1>1, <2>1, AppendProperties DEF TypeOK, Broadcast
  <2>3. buffer' \in Seq(Numbers)
    <3>1. Len(frames) + 1 \in Numbers
      BY <1>0, <2>2, Typed DEF Numbers
    <3> QED
      BY <1>0, <1>1, <3>1, AppendProperties DEF TypeOK, Broadcast
  <2> QED
    BY <1>0, <1>1, <2>2, <2>3, Typed DEF TypeOK, Broadcast, rows, signal
<1>2. ASSUME NEW some, Return(some)
      PROVE  Locals
  <2>1. 1 \in 1..MaxFrames + 1 /\ "out" \in Places
    BY <1>0, Typed DEF Places
  <2> QED
    BY <1>0, <1>2, <2>1, NoElements DEF TypeOK, Return
<1>3. CASE Restart
  BY <1>0, <1>2, <1>3, Typed, NoElements DEF TypeOK, Restart
<1>4. ASSUME NEW s \in Sockets, Turns(s)
      PROVE  TypeOK'
  <2>1. Locals => TypeOK'
    BY <1>0, <1>4, ChannelStays DEF TypeOK
  <2> HIDE DEF Locals
  <2>2. CASE Moves(s)
    <3> USE DEF Locals, Places, Move
    <3>1. UNCHANGED <<replay, next, told, lagged, got>>
      BY <2>2 DEF Moves, Admit, Watch, GoLive, Take, signal
    <3>2. place' \in [Sockets -> Places] /\ watching' \in [Sockets -> BOOLEAN]
      BY <1>0, <2>2 DEF Moves, Admit, Watch, GoLive, Take, signal, TypeOK
    <3> QED
      BY <1>0, <2>1, <3>1, <3>2 DEF TypeOK
  <2>3. CASE Ends(s)
    <3>1. Return({s})
      BY <2>3 DEF Ends, CloseRevoked, Leave, Follow
    <3> QED
      BY <1>2, <2>1, <3>1
  <2>4. CASE Connect(s)
    <3>1. Len(frames) + 1 \in 1..MaxFrames + 1
      BY <1>0, Typed
    <3> QED
      BY <1>0, <2>1, <2>4, <3>1 DEF Locals, Connect, Move, Places, signal, TypeOK
  <2>5. CASE Replay(s)
    <3>1. got[s] \in Seq(Numbers) /\ replay[s] \in Seq(Numbers) /\ replay[s] # <<>>
      BY <1>0, <2>5 DEF TypeOK, Replay
    <3>2. /\ Head(replay[s]) \in Numbers /\ Tail(replay[s]) \in Seq(Numbers)
          /\ Append(got[s], Head(replay[s])) \in Seq(Numbers)
      BY <3>1, Behead, Appended
    <3> QED
      BY <1>0, <2>1, <2>5, <3>1, <3>2 DEF Locals, Replay, signal, TypeOK
  <2>6. CASE Lag(s)
    <3>1. next'[s] \in 1..MaxFrames + 1
      BY <1>0, <2>6, LagSkips
    <3>2. next' = [next EXCEPT ![s] = next'[s]]
      BY <1>0, <2>6 DEF Lag, TypeOK
    <3> QED
      BY <1>0, <2>1, <2>6, <3>1, <3>2 DEF Locals, Lag, signal, TypeOK
  <2>7. CASE Send(s)
    <3>1. next[s] \in Numbers
      BY <1>0, <2>7, SendSends
    <3>2. next[s] + 1 \in 1..MaxFrames + 1 /\ Append(got[s], next[s]) \in Seq(Numbers)
      BY <1>0, <3>1, Typed, Appended DEF TypeOK, Numbers
    <3> QED
      BY <1>0, <2>1, <2>7, <3>2 DEF Locals, Send, Move, Places, signal, TypeOK
  <2> QED
    BY <1>4, <2>2, <2>3, <2>4, <2>5, <2>6, <2>7 DEF Turns
<1>5. CASE \E d \in Devices : DeleteRow(d) \/ Disconnect(d)
  <2>1. PICK d \in Devices : DeleteRow(d) \/ Disconnect(d)
    BY <1>5
  <2>2. UNCHANGED <<frames, since, buffer, place, replay, next, watching, lagged, got>>
    BY <2>1 DEF DeleteRow, Disconnect, channel, signal
  <2>3. CASE DeleteRow(d)
    <3>1. paired' = paired \ {d} /\ revoking' = revoking \cup {d} /\ told' = told
      BY <2>3 DEF DeleteRow, signal
    <3>2. paired' \subseteq Devices /\ revoking' \subseteq Devices \ paired'
      BY <1>0, <3>1 DEF TypeOK
    <3> QED
      BY <1>0, <2>2, <3>1, <3>2, Zenon DEF TypeOK
  <2>4. CASE Disconnect(d)
    <3>1. told' \in [Sockets -> BOOLEAN]
      <4>1. told' = [s \in Sockets |-> told[s] \/ (watching[s] /\ OwnerOf[s] = d)]
        BY <2>4 DEF Disconnect
      <4>2. \A s \in Sockets : told[s] \in BOOLEAN /\ watching[s] \in BOOLEAN
        BY <1>0 DEF TypeOK
      <4>3. \A s \in Sockets :
              (told[s] \/ (watching[s] /\ OwnerOf[s] = d)) \in BOOLEAN
        BY <4>2
      <4> QED
        BY <4>1, <4>3, Zenon
    <3>2. paired' = paired /\ revoking' \subseteq Devices \ paired
      BY <1>0, <2>4 DEF TypeOK, Disconnect
    <3> QED
      BY <1>0, <2>2, <3>1, <3>2, Zenon DEF TypeOK
  <2> QED
    BY <2>1, <2>3, <2>4
<1>6. CASE UNCHANGED vars
  BY <1>0, <1>6 DEF TypeOK, vars
<1> QED
  BY <1>1, <1>3, <1>4, <1>5, <1>6, Steps

LEMMA Invariant == Spec => []IndInv
<1>1. Init => IndInv
  <2> SUFFICES ASSUME Init PROVE IndInv
    OBVIOUS
  <2>1. <<>> \in Seq(Kinds) /\ Len(<<>>) = 0
    BY EmptySeq
  <2>2. TypeOK
    BY <2>1, NoElements, RunStreamAssumption DEF Init, TypeOK, Places
  <2>3. BufferIsTheBeginning
    BY <2>1, NoElements, RunStreamAssumption DEF Init, BufferIsTheBeginning
  <2>4. ASSUME NEW s \in Sockets PROVE Watches(s)
    BY NoElements DEF Init, Watches, Connected
  <2> QED
    BY <2>2, <2>3, <2>4 DEF IndInv
<1>2. IndInv /\ [Next]_vars => IndInv'
  BY TypeStep, BufferStep, WatchesStep DEF IndInv
<1> QED
  BY <1>1, <1>2, PTL DEF Spec
---------------------------------------------------------------------------
(* Every reachable state is well typed: no receiver points beyond the      *)
(* frames, no client holds a number that is none.                          *)
THEOREM TypeCorrect == Spec => []TypeOK
<1>1. IndInv => TypeOK
  BY DEF IndInv
<1> QED
  BY <1>1, Invariant, PTL

(* ConnectionManager::connect copies the buffer and subscribes under one   *)
(* lock, pump sends the copy first: clients get frames in order and once.  *)
THEOREM ClientsReadInOrder == Spec => []InOrderOnce
<1>1. IndInv => InOrderOnce
  BY DEF IndInv, Watches, Ordered, InOrderOnce
<1> QED
  BY <1>1, Invariant, PTL

(* Between the copy of the buffer and the receiver nothing falls through:  *)
(* a client misses a frame only when the buffer was full or it lagged.     *)
THEOREM NothingFallsThrough == Spec => []NothingIsLost
<1>1. IndInv => NothingIsLost
  <2> SUFFICES ASSUME IndInv, NEW s \in Sockets, NEW n \in DOMAIN frames,
                      Missing(s, n), ~lagged[s], ~(n > since + MaxBuffer)
               PROVE  FALSE
    BY DEF NothingIsLost
  <2>1. TypeOK /\ Watches(s)
    BY DEF IndInv
  <2>2. /\ place[s] = "live" /\ n > since /\ n < next[s] /\ Framed(s, n)
        /\ n \notin Elements(got[s])
    BY DEF Missing, Elements
  <2>3. n \in since + 1..since + MaxBuffer
    BY <2>1, <2>2, Typed
  <2>4. n \in Elements(got[s]) \cup Elements(replay[s]) /\ Elements(replay[s]) = {}
    BY <2>1, <2>2, <2>3 DEF Watches, Connected
  <2> QED
    BY <2>2, <2>4
<1> QED
  BY <1>1, Invariant, PTL

(* The two together, what StreamWatchers checks on an instance: replay and *)
(* live frames join without a gap and without a repetition.                *)
THEOREM StreamsStayWhole == Spec => []StreamsAreWhole
  BY ClientsReadInOrder, NothingFallsThrough, PTL DEF StreamsAreWhole
=============================================================================
