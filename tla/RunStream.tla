----------------------------- MODULE RunStream -----------------------------
(***************************************************************************)
(* The channel of one run: its frames, the replay buffer, and the sockets  *)
(* that watch it - phones, whose device can be revoked, and the command    *)
(* line, which follows a run to its end.                                   *)
(*                                                                         *)
(* A frame is its place in the run's stream and a kind; who broadcasts it  *)
(* and why is RunSupervisor's and RunLoop's matter.  A run may go on after *)
(* a terminal frame: it was resumed.                                       *)
(***************************************************************************)
EXTENDS Integers, Sequences

CONSTANTS
  Sockets,
  Devices,
  NoDevice,
  OwnerOf,      \* the device of a socket; NoDevice: the raw route's, the
                \* command line's
  Kinds,        \* of frames
  Quiet,        \* the kinds a phone is told nothing of: run_cancelled, todos ...
  Terminal,     \* the kinds that end a follower's watch: run_cancelled,
                \* run_completed, run_failed
  MaxBuffer,    \* MAX_BUFFER
  Capacity,     \* of the run's broadcast channel
  MaxFrames     \* bound: frames of the run

ASSUME RunStreamAssumption ==
  /\ NoDevice \notin Devices
  /\ OwnerOf \in [Sockets -> Devices \cup {NoDevice}]
  /\ Quiet \subseteq Kinds /\ Terminal \subseteq Kinds
  /\ MaxBuffer \in Nat /\ Capacity \in Nat \ {0} /\ MaxFrames \in Nat

VARIABLES
  frames,     \* history: the kinds of all frames, in order
  since,      \* history: how many of them an earlier process broadcast
  buffer,     \* RunChannel::buffer
  paired,     \* devices with a row
  revoking,   \* devices whose row is gone and whose sockets were not told yet
  place,      \* where the socket's task is
  replay,     \* the frames of the replay it still has to send
  next,       \* the next frame its receiver will take
  watching,   \* it holds a receiver of its device's revocation channel
  told,       \* that receiver has the signal
  lagged,     \* history: the receiver has skipped frames
  got         \* the frames its client was sent

vars == <<frames, since, buffer, paired, revoking, place, replay, next,
          watching, told, lagged, got>>

channel == <<frames, since, buffer>>
rows    == <<paired, revoking>>
signal  == <<watching, told>>
---------------------------------------------------------------------------
Places   == {"out", "admitted", "subscribed", "replaying", "live", "sending"}
Numbers  == 1..MaxFrames

TypeOK ==
  /\ frames \in Seq(Kinds) /\ Len(frames) <= MaxFrames
  /\ since \in 0..Len(frames)
  /\ buffer \in Seq(Numbers)
  /\ paired \subseteq Devices /\ revoking \subseteq Devices \ paired
  /\ place \in [Sockets -> Places]
  /\ replay \in [Sockets -> Seq(Numbers)]
  /\ next \in [Sockets -> 1..MaxFrames + 1]
  /\ watching \in [Sockets -> BOOLEAN]
  /\ told \in [Sockets -> BOOLEAN]
  /\ lagged \in [Sockets -> BOOLEAN]
  /\ got \in [Sockets -> Seq(Numbers)]

Init ==
  /\ frames = <<>> /\ since = 0 /\ buffer = <<>>
  /\ paired = Devices /\ revoking = {}
  /\ place = [s \in Sockets |-> "out"]
  /\ replay = [s \in Sockets |-> <<>>]
  /\ next = [s \in Sockets |-> 1]
  /\ watching = [s \in Sockets |-> FALSE]
  /\ told = [s \in Sockets |-> FALSE]
  /\ lagged = [s \in Sockets |-> FALSE]
  /\ got = [s \in Sockets |-> <<>>]

(* Framing::frame: on the phones' route some kinds have no frame.          *)
Framed(s, n) == OwnerOf[s] = NoDevice \/ frames[n] \notin Quiet

Move(s, there) == place' = [place EXCEPT ![s] = there]

(* The task of a socket returns; its receivers go with it.                 *)
Return(some) ==
  /\ place'    = [s \in Sockets |-> IF s \in some THEN "out" ELSE place[s]]
  /\ replay'   = [s \in Sockets |-> IF s \in some THEN <<>> ELSE replay[s]]
  /\ next'     = [s \in Sockets |-> IF s \in some THEN 1 ELSE next[s]]
  /\ watching' = [s \in Sockets |-> s \notin some /\ watching[s]]
  /\ told'     = [s \in Sockets |-> s \notin some /\ told[s]]
  /\ lagged'   = [s \in Sockets |-> s \notin some /\ lagged[s]]
  /\ got'      = [s \in Sockets |-> IF s \in some THEN <<>> ELSE got[s]]
---------------------------------------------------------------------------
(* The channel.                                                            *)

(* broadcast: buffered while there is room, and sent to every receiver.    *)
Broadcast ==
  /\ Len(frames) < MaxFrames
  /\ \E kind \in Kinds : frames' = Append(frames, kind)
  /\ buffer' = IF Len(buffer) < MaxBuffer
                 THEN Append(buffer, Len(frames) + 1) ELSE buffer
  /\ UNCHANGED <<since, rows, place, replay, next, signal, lagged, got>>

(* The process dies: the channel, the sockets and the revocation that was  *)
(* under way are gone; the rows stay.                                      *)
Restart ==
  /\ since' = Len(frames) /\ buffer' = <<>> /\ revoking' = {}
  /\ Return(Sockets)
  /\ UNCHANGED <<frames, paired>>
---------------------------------------------------------------------------
(* A socket's task.                                                        *)

(* admit: the token of a phone must be that of a row.                      *)
Admit(s) ==
  /\ place[s] = "out" /\ OwnerOf[s] \in paired \cup {NoDevice}
  /\ Move(s, "admitted")
  /\ UNCHANGED <<channel, rows, replay, next, signal, lagged, got>>

\* Variant: the receiver is taken first and the buffer after the lock was let go.
ConnectTwice(s) ==
  /\ place[s] = "admitted" /\ Move(s, "subscribed")
  /\ replay' = [replay EXCEPT ![s] = buffer]
  /\ \E n \in since..Len(frames) : next' = [next EXCEPT ![s] = n + 1]
  /\ UNCHANGED <<channel, rows, signal, lagged, got>>

\* Variant: the buffer is taken first and the receiver after the lock was let go.
ConnectLate(s) ==
  /\ place[s] = "admitted" /\ Move(s, "subscribed")
  /\ \E n \in 0..Len(buffer) : replay' = [replay EXCEPT ![s] = SubSeq(buffer, 1, n)]
  /\ next' = [next EXCEPT ![s] = Len(frames) + 1]
  /\ UNCHANGED <<channel, rows, signal, lagged, got>>

(* connect: the receiver and the buffer, under one lock.                   *)
Connect(s) ==
  /\ place[s] = "admitted" /\ Move(s, "subscribed")
  /\ replay' = [replay EXCEPT ![s] = buffer]
  /\ next' = [next EXCEPT ![s] = Len(frames) + 1]
  /\ UNCHANGED <<channel, rows, signal, lagged, got>>

(* watch_device, another lock: a channel that is new if the device was     *)
(* revoked before.  The command line gets one that never fires.            *)
Watch(s) ==
  /\ place[s] = "subscribed" /\ Move(s, "replaying")
  /\ watching' = [watching EXCEPT ![s] = OwnerOf[s] # NoDevice]
  /\ UNCHANGED <<channel, rows, replay, next, told, lagged, got>>

(* One frame of the replay.                                                *)
Replay(s) ==
  /\ place[s] = "replaying" /\ replay[s] # <<>>
  /\ replay' = [replay EXCEPT ![s] = Tail(replay[s])]
  /\ got' = [got EXCEPT ![s] = IF Framed(s, Head(replay[s]))
                                 THEN Append(got[s], Head(replay[s])) ELSE got[s]]
  /\ UNCHANGED <<channel, rows, place, next, signal, lagged>>

GoLive(s) ==
  /\ place[s] = "replaying" /\ replay[s] = <<>> /\ Move(s, "live")
  /\ UNCHANGED <<channel, rows, replay, next, signal, lagged, got>>

(* The select!: a frame is there.  A receiver that is more than Capacity   *)
(* frames behind is moved to the oldest that is left.                      *)
Behind(s) == Len(frames) + 1 - next[s]

Take(s) ==
  /\ place[s] = "live" /\ Behind(s) \in 1..Capacity /\ Move(s, "sending")
  /\ UNCHANGED <<channel, rows, replay, next, signal, lagged, got>>

Lag(s) ==
  /\ place[s] = "live" /\ Behind(s) > Capacity
  /\ next' = [next EXCEPT ![s] = Len(frames) + 1 - Capacity]
  /\ lagged' = [lagged EXCEPT ![s] = TRUE]
  /\ UNCHANGED <<channel, rows, place, replay, signal, got>>

(* socket.send has taken the frame: until then nothing else is looked at.  *)
Send(s) ==
  /\ place[s] = "sending" /\ Move(s, "live")
  /\ next' = [next EXCEPT ![s] = next[s] + 1]
  /\ got' = [got EXCEPT ![s] = IF Framed(s, next[s])
                                 THEN Append(got[s], next[s]) ELSE got[s]]
  /\ UNCHANGED <<channel, rows, replay, signal, lagged>>

(* The select!: the device was revoked.                                    *)
CloseRevoked(s) ==
  /\ place[s] = "live" /\ told[s] /\ Return({s})
  /\ UNCHANGED <<channel, rows>>

(* The client goes away, at any time: a phone that sleeps, a follower that *)
(* was detached or that timed out.                                         *)
Leave(s) ==
  /\ place[s] # "out" /\ Return({s})
  /\ UNCHANGED <<channel, rows>>

(* follow: the command line returns at the first terminal frame it reads.  *)
Follow(s) ==
  /\ OwnerOf[s] = NoDevice /\ place[s] # "out"
  /\ \E i \in DOMAIN got[s] : frames[got[s][i]] \in Terminal
  /\ Return({s})
  /\ UNCHANGED <<channel, rows>>
---------------------------------------------------------------------------
(* DELETE /api/devices/{id}: the row, and then the sockets.                *)
DeleteRow(d) ==
  /\ d \in paired
  /\ paired' = paired \ {d} /\ revoking' = revoking \cup {d}
  /\ UNCHANGED <<channel, place, replay, next, signal, lagged, got>>

\* Variant: the signal reaches only a task that waits for it.
DisconnectWaiting(d) ==
  /\ d \in revoking /\ revoking' = revoking \ {d}
  /\ told' = [s \in Sockets |-> told[s] \/ (place[s] = "live" /\ OwnerOf[s] = d)]
  /\ UNCHANGED <<channel, paired, place, replay, next, watching, lagged, got>>

Disconnect(d) ==
  /\ d \in revoking /\ revoking' = revoking \ {d}
  /\ told' = [s \in Sockets |-> told[s] \/ (watching[s] /\ OwnerOf[s] = d)]
  /\ UNCHANGED <<channel, paired, place, replay, next, watching, lagged, got>>
---------------------------------------------------------------------------
Pump(s) ==
  \/ Connect(s) \/ Watch(s) \/ Replay(s) \/ GoLive(s) \/ Take(s) \/ Lag(s) \/ Send(s)

Next ==
  \/ Broadcast \/ Restart
  \/ \E s \in Sockets : Admit(s) \/ Pump(s) \/ CloseRevoked(s) \/ Leave(s) \/ Follow(s)
  \/ \E d \in Devices : DeleteRow(d) \/ Disconnect(d)

Spec == Init /\ [][Next]_vars

(* Tasks and handlers are scheduled.  select! looks at its branches in a   *)
(* random order: a signal that stays is seen in the end, however many      *)
(* frames there are.  No send has a timeout: that clients read what they   *)
(* are sent is an assumption about clients.                                *)
FairSpec ==
  /\ Spec
  /\ \A s \in Sockets :
       WF_vars(Pump(s)) /\ SF_vars(CloseRevoked(s)) /\ WF_vars(Follow(s))
  /\ \A d \in Devices : WF_vars(Disconnect(d))
---------------------------------------------------------------------------
(* Properties.                                                             *)

(* "The caller sends them before its first live frame, in order": a client *)
(* reads the frames of the run in their order and none of them twice,      *)
(* whatever is broadcast while its replay is taken and sent.               *)
InOrderOnce ==
  \A s \in Sockets : \A i, j \in DOMAIN got[s] : i < j => got[s][i] < got[s][j]

(* What a client does not get, nobody kept for it: a frame is missing from *)
(* the middle only if the buffer was full when it was broadcast, or the    *)
(* client fell behind the channel, or it is of no interest to a phone.     *)
Missing(s, n) ==
  /\ n > since /\ (\A i \in DOMAIN got[s] : got[s][i] # n) /\ Framed(s, n)
  /\ place[s] = "live" /\ n < next[s]

NothingIsLost ==
  \A s \in Sockets : \A n \in DOMAIN frames :
    Missing(s, n) => lagged[s] \/ n > since + MaxBuffer

(* Replay and live frames join without a gap and without a repetition: the *)
(* buffer and the receiver are taken under one lock.                       *)
StreamsAreWhole == InOrderOnce /\ NothingIsLost

(* A revoked device's socket that was watching is closed in the end, even  *)
(* in the middle of its replay and however busy the run is.                *)
WatchedSocketsClose ==
  \A s \in Sockets :
    (watching[s] /\ OwnerOf[s] \in revoking) ~> (place[s] = "out")

(* A run that ends within the buffer tells every follower that it ended,   *)
(* no matter when the follower connects, unless the follower fell behind.  *)
EndIsBuffered == \E n \in DOMAIN frames :
  n \in since + 1..since + MaxBuffer /\ frames[n] \in Terminal

FollowersHearTheEnd ==
  \A s \in Sockets :
    (place[s] # "out" /\ OwnerOf[s] = NoDevice /\ EndIsBuffered)
      ~> (place[s] = "out" \/ lagged[s])
=============================================================================
