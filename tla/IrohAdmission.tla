---------------------------- MODULE IrohAdmission ----------------------------
(***************************************************************************)
(* The built-in transport: which connections it lets in and what ends      *)
(* them.  A connection of a paired phone is counted and ends when the      *)
(* phone is revoked; any other is on a ledger, for the pairing window it   *)
(* came in or to adopt the transport, and ends with the window, at the     *)
(* hands of the reaper, or with its lifetime.                              *)
(*                                                                         *)
(* Of the pairing (module Pairing) this keeps what the transport sees: the *)
(* window that is open, the end of one, and the claim that writes a device *)
(* and binds it on the way from the one to the news of it.                 *)
(***************************************************************************)
EXTENDS Integers, FiniteSets

CONSTANTS
  Conns,        \* connections, each dialled once
  Peers,
  PeerOf,       \* who dials
  MaxUnbound,   \* MAX_UNBOUND
  MaxAdopting,  \* MAX_ADOPTING
  MaxBound,     \* MAX_BOUND
  MaxWindows    \* bound: pairing windows opened

ASSUME AdmissionAssumption ==
  /\ IsFiniteSet(Conns) /\ PeerOf \in [Conns -> Peers]
  /\ MaxUnbound \in Nat /\ MaxAdopting \in Nat /\ MaxBound \in Nat
  /\ MaxWindows \in Nat

VARIABLES
  slot,         \* the window of the code that is out; 0 for none
  opened,       \* windows opened so far
  lapsed,       \* windows up to this one are past their deadline
  paired,       \* the rows of devices, numbered as they are written
  bound,        \* device_peers: the device of an identity; 0 for none
  telling,      \* revoked devices disconnect_device was not called for yet
  stage,        \* where the task of a connection is
  known,        \* what is_bound answered it before its admission
  admission,    \* the window it was admitted under, Adoption, or 0
  ledger,       \* Shared::unbound
  count,        \* Shared::bound
  target,       \* the device it was found to be; 0 for none
  watch,        \* the device whose revocation it has a receiver for
  signalled,    \* connections with a revocation in that receiver
  clock,        \* UNBOUND_LIFETIME is still running for it
  claim,        \* how far the claim that it carries has come
  reaper,       \* where the reaper is
  armed,        \* the window whose deadline it waits for; 0 for none
  seen,         \* the window it found live
  news,         \* a transition it was not woken for yet
  written,      \* devices written so far
  device,       \* the device that the claim wrote
  disturbed,    \* history: claims into which some other wake-up fell
  late,         \* history: connections that watch a device that was gone by then
  raced         \* history: connections admitted while another was on its way in

pairing == <<slot, opened, lapsed>>
devices == <<paired, bound, telling>>
watches == <<target, watch, signalled, late>>
conn    == <<stage, known, admission, ledger, count, clock>>
claims  == <<claim, written, device>>
reaping == <<reaper, armed, seen>>
vars    == <<pairing, devices, watches, conn, claims, reaping, news, disturbed, raced>>
---------------------------------------------------------------------------
Adoption == -1
Stages   == {"off", "looked", "entering", "admitted", "counted",
             "serving", "knocking", "draining", "closed"}

TypeOK ==
  /\ opened \in Nat /\ slot \in 0..opened /\ lapsed \in 0..opened
  /\ written \in Nat /\ paired \subseteq 1..written /\ telling \subseteq 1..written
  /\ bound \in [Peers -> paired \cup {0}]
  /\ stage \in [Conns -> Stages] /\ known \in [Conns -> BOOLEAN]
  /\ admission \in [Conns -> {Adoption} \cup 0..opened]
  /\ ledger \subseteq Conns /\ count \in Nat
  /\ target \in [Conns -> 0..written] /\ watch \in [Conns -> 0..written]
  /\ signalled \subseteq Conns /\ late \subseteq Conns
  /\ clock \in [Conns -> BOOLEAN]
  /\ claim \in [Conns -> {"none", "redeemed", "written", "bound"}]
  /\ device \in [Conns -> 0..written]
  /\ reaper \in {"arming", "waiting", "woken", "reaping"}
  /\ armed \in 0..opened /\ seen \in 0..opened
  /\ news \in BOOLEAN /\ disturbed \subseteq Conns /\ raced \subseteq Conns
  /\ \A c \in ledger : admission[c] # 0

Init ==
  /\ slot = 0 /\ opened = 0 /\ lapsed = 0
  /\ paired = {} /\ bound = [p \in Peers |-> 0] /\ telling = {}
  /\ stage = [c \in Conns |-> "off"] /\ known = [c \in Conns |-> FALSE]
  /\ admission = [c \in Conns |-> 0]
  /\ ledger = {} /\ count = 0
  /\ clock = [c \in Conns |-> FALSE]
  /\ target = [c \in Conns |-> 0] /\ watch = [c \in Conns |-> 0]
  /\ signalled = {} /\ late = {}
  /\ claim = [c \in Conns |-> "none"] /\ written = 0
  /\ device = [c \in Conns |-> 0]
  /\ reaper = "arming" /\ armed = 0 /\ seen = 0 /\ news = FALSE
  /\ disturbed = {} /\ raced = {}

Live       == IF slot > lapsed THEN slot ELSE 0
Bound(p)     == bound[p] # 0        \* is_bound
AnyDevice    == paired # {}         \* any_devices
Claiming     == {c \in Conns : claim[c] # "none"}
Moves(c, to) == stage' = [stage EXCEPT ![c] = to]
---------------------------------------------------------------------------
(* The pairing, as the transport sees it.                                  *)

(* A new code opens a new window, and everyone is told.                    *)
Mint ==
  /\ opened < MaxWindows
  /\ opened' = opened + 1 /\ slot' = opened + 1 /\ news' = TRUE
  /\ disturbed' = disturbed \cup Claiming
  /\ UNCHANGED <<lapsed, devices, watches, conn, claims, reaping, raced>>

(* The code is burned, or claimed over another transport.                  *)
EndElsewhere ==
  /\ slot # 0 /\ slot' = 0 /\ news' = TRUE
  /\ disturbed' = disturbed \cup Claiming
  /\ UNCHANGED <<opened, lapsed, devices, watches, conn, claims, reaping, raced>>

(* Deadlines pass in the order in which the windows were opened.           *)
Lapse ==
  /\ lapsed < opened /\ lapsed' = lapsed + 1
  /\ UNCHANGED <<slot, opened, devices, watches, conn, claims, reaping, news, disturbed, raced>>

(* stream_may_serve                                                        *)
MayServe(c) ==
  \/ Bound(PeerOf[c])
  \/ admission[c] = Adoption
  \/ admission[c] # 0 /\ admission[c] = Live

Serving(c) == stage[c] \in {"serving", "knocking"} /\ MayServe(c)

Answered(c, to) ==
  /\ claim' = [claim EXCEPT ![c] = to]
  /\ device' = IF to = "none" THEN [device EXCEPT ![c] = 0] ELSE device
  /\ UNCHANGED written

\* Variant: the redemption itself is announced, as it once was.
RedeemAnnounced(c) ==
  /\ Serving(c) /\ claim[c] = "none" /\ Live # 0
  /\ slot' = 0 /\ Answered(c, "redeemed") /\ news' = TRUE
  /\ disturbed' = IF news \/ reaper # "waiting" THEN disturbed \cup {c} ELSE disturbed
  /\ UNCHANGED <<opened, lapsed, devices, watches, conn, reaping, raced>>

(* A claim on a stream of this connection: the code is redeemed, ...       *)
Redeem(c) ==
  /\ Serving(c) /\ claim[c] = "none" /\ Live # 0
  /\ slot' = 0 /\ Answered(c, "redeemed")
  /\ disturbed' = IF news \/ reaper # "waiting" THEN disturbed \cup {c} ELSE disturbed
  /\ UNCHANGED <<opened, lapsed, devices, watches, conn, reaping, news, raced>>

(* ... the device is written, ...                                          *)
CreateRow(c) ==
  /\ claim[c] = "redeemed" /\ claim' = [claim EXCEPT ![c] = "written"]
  /\ written' = written + 1 /\ paired' = paired \cup {written + 1}
  /\ device' = [device EXCEPT ![c] = written + 1]
  /\ UNCHANGED <<pairing, bound, telling, watches, conn, reaping, news, disturbed, raced>>

(* ... the identity is bound to it, ...                                    *)
BindPeer(c) ==
  /\ claim[c] = "written" /\ device[c] \in paired /\ Answered(c, "bound")
  /\ bound' = [bound EXCEPT ![PeerOf[c]] = device[c]]
  /\ UNCHANGED <<pairing, paired, telling, watches, conn, reaping, news, disturbed, raced>>

(* ... unless it was revoked already, ...                                  *)
BindFails(c) ==
  /\ claim[c] = "written" /\ device[c] \notin paired /\ Answered(c, "none")
  /\ disturbed' = disturbed \ {c}
  /\ UNCHANGED <<pairing, devices, watches, conn, reaping, news, raced>>

(* ... and only then is the end of the window announced.                   *)
Settle(c) ==
  /\ claim[c] = "bound" /\ Answered(c, "none") /\ news' = TRUE
  /\ disturbed' = (disturbed \cup Claiming) \ {c}
  /\ UNCHANGED <<pairing, devices, watches, conn, reaping, raced>>

(* POST /api/devices/self/transports over this connection, by a device     *)
(* that has no identity yet.                                               *)
Adopt(c) ==
  /\ Serving(c)
  /\ \E d \in paired : 
       /\ \A x \in Claiming : device[x] # d
       /\ \A p \in Peers : bound[p] # d
       /\ bound' = [bound EXCEPT ![PeerOf[c]] = d]
  /\ UNCHANGED <<pairing, paired, telling, watches, conn, claims, reaping, news, disturbed, raced>>

\* Variant: only the row.
DeleteRowOnly(d) ==
  /\ d \in paired /\ paired' = paired \ {d}
  /\ bound' = [p \in Peers |-> IF bound[p] = d THEN 0 ELSE bound[p]]
  /\ UNCHANGED <<pairing, telling, watches, conn, claims, reaping, news, disturbed, raced>>

(* revoke_device: the row first, ...                                       *)
DeleteRow(d) ==
  /\ d \in paired /\ paired' = paired \ {d}
  /\ bound' = [p \in Peers |-> IF bound[p] = d THEN 0 ELSE bound[p]]
  /\ telling' = telling \cup {d}
  /\ UNCHANGED <<pairing, watches, conn, claims, reaping, news, disturbed, raced>>

(* ... then whoever watches the device.                                    *)
Disconnect(d) ==
  /\ d \in telling /\ telling' = telling \ {d}
  /\ signalled' = signalled \cup {c \in Conns : watch[c] = d}
  /\ UNCHANGED <<pairing, paired, bound, target, watch, late, conn, claims,
                 reaping, news, disturbed, raced>>
---------------------------------------------------------------------------
(* A connection: accepted, looked up, admitted under what was looked up,   *)
(* entered, and served until it ends.                                      *)

(* refuse_before_handshake: on a machine that could admit nobody no        *)
(* handshake ends.  After it, whose identity it was.                       *)
Accept(c) ==
  /\ stage[c] = "off"
  /\ IF Live # 0 \/ AnyDevice
       THEN Moves(c, "looked") /\ known' = [known EXCEPT ![c] = Bound(PeerOf[c])]
       ELSE Moves(c, "closed") /\ UNCHANGED known
  /\ UNCHANGED <<pairing, devices, watches, admission, ledger, count, clock,
                 claims, reaping, news, disturbed, raced>>

Windowed == {c \in ledger : admission[c] # Adoption}

(* admit, on the window, the devices and the counts as they are now.       *)
AdmitBound(c) ==
  /\ known[c] /\ count < MaxBound /\ Moves(c, "admitted") /\ UNCHANGED admission

\* Variant: those of an earlier window are not counted.
AdmitThisWindow(c) ==
  /\ ~known[c] /\ Live # 0
  /\ Cardinality({d \in Windowed : admission[d] = Live}) < MaxUnbound
  /\ Moves(c, "entering") /\ admission' = [admission EXCEPT ![c] = Live]

AdmitWindow(c) ==
  /\ ~known[c] /\ Live # 0 /\ Cardinality(Windowed) < MaxUnbound
  /\ Moves(c, "entering") /\ admission' = [admission EXCEPT ![c] = Live]

AdmitAdoption(c) ==
  /\ ~known[c] /\ Live = 0 /\ AnyDevice
  /\ Cardinality(ledger \ Windowed) < MaxAdopting
  /\ Moves(c, "entering") /\ admission' = [admission EXCEPT ![c] = Adoption]

Refuse(c) ==
  /\ \/ known[c] /\ count >= MaxBound
     \/ ~known[c] /\ Live # 0 /\ Cardinality(Windowed) >= MaxUnbound
     \/ ~known[c] /\ Live = 0 /\ (AnyDevice => Cardinality(ledger \ Windowed) >= MaxAdopting)
  /\ Moves(c, "closed") /\ UNCHANGED admission

(* Those that were admitted and are not counted yet: the counts are read   *)
(* under one lock and a place is taken under another.                      *)
OnTheWay == {d \in Conns : stage[d] \in {"entering", "admitted"}}

Admit(c) ==
  /\ stage[c] = "looked"
  /\ AdmitBound(c) \/ AdmitWindow(c) \/ AdmitAdoption(c) \/ Refuse(c)
  /\ known' = [known EXCEPT ![c] = FALSE]
  /\ raced' = IF OnTheWay = {} THEN raced ELSE raced \cup {c}
  /\ UNCHANGED <<pairing, devices, watches, ledger, count, clock,
                 claims, reaping, news, disturbed>>

(* The count, and the device, if it is there still; then its watch.        *)
ServeBound(c) ==
  /\ stage[c] = "admitted" /\ Moves(c, "counted")
  /\ count' = count + 1
  /\ target' = [target EXCEPT ![c] = bound[PeerOf[c]]]
  /\ UNCHANGED <<pairing, devices, watch, signalled, late, known, admission, ledger, clock,
                 claims, reaping, news, disturbed, raced>>

WatchDevice(c) ==
  /\ stage[c] = "counted" /\ Moves(c, "serving")
  /\ watch' = [watch EXCEPT ![c] = target[c]]
  /\ target' = [target EXCEPT ![c] = 0]
  /\ late' = IF target[c] \in paired \cup telling THEN late ELSE late \cup {c}
  /\ UNCHANGED <<pairing, devices, signalled, known, admission, ledger, count, clock,
                 claims, reaping, news, disturbed, raced>>

(* The ledger, and the lifetime starts.                                    *)
ServeUnbound(c) ==
  /\ stage[c] = "entering" /\ Moves(c, "knocking")
  /\ ledger' = ledger \cup {c} /\ clock' = [clock EXCEPT ![c] = TRUE]
  /\ UNCHANGED <<pairing, devices, watches, known, admission, count, watch,
                 claims, reaping, news, disturbed, raced>>

(* It was revoked: no stream is accepted any more, those that run go on.   *)
HearRevocation(c) ==
  /\ stage[c] = "serving" /\ c \in signalled /\ Moves(c, "draining")
  /\ UNCHANGED <<pairing, devices, watches, known, admission, ledger, count, clock,
                 claims, reaping, news, disturbed, raced>>

(* The phone hangs up.                                                     *)
HangUp(c) ==
  /\ stage[c] \in {"serving", "knocking"} /\ Moves(c, "draining")
  /\ UNCHANGED <<pairing, devices, watches, known, admission, ledger, count, clock,
                 claims, reaping, news, disturbed, raced>>

Forget(c) ==
  ledger' = ledger \ {c} /\ admission' = [admission EXCEPT ![c] = 0]

\* Variant: a connection that ends while it drains is not counted back.
FinishServing(c) ==
  /\ stage[c] = "draining" /\ claim[c] = "none" /\ Moves(c, "closed")
  /\ count' = IF admission[c] = 0 /\ c \notin signalled THEN count - 1 ELSE count
  /\ Forget(c) /\ clock' = [clock EXCEPT ![c] = FALSE]
  /\ watch' = [watch EXCEPT ![c] = 0] /\ signalled' = signalled \ {c} /\ late' = late \ {c}
  /\ UNCHANGED <<pairing, devices, target, known, claims, reaping, news, disturbed, raced>>

(* Its last stream ended: the place is given back.                         *)
Finish(c) ==
  /\ stage[c] = "draining" /\ claim[c] = "none" /\ Moves(c, "closed")
  /\ count' = IF admission[c] = 0 THEN count - 1 ELSE count
  /\ Forget(c) /\ clock' = [clock EXCEPT ![c] = FALSE]
  /\ watch' = [watch EXCEPT ![c] = 0] /\ signalled' = signalled \ {c} /\ late' = late \ {c}
  /\ UNCHANGED <<pairing, devices, target, known, claims, reaping, news, disturbed, raced>>

(* UNBOUND_LIFETIME is over: whoever was not bound by then is cut off, its *)
(* streams with it.  Whoever was is off the clock for good: when its phone *)
(* is revoked later it keeps its place on the ledger until it hangs up or, *)
(* if it came in with a window, the reaper wakes the next time.            *)
Lifetime(c) ==
  /\ stage[c] \in {"knocking", "draining"} /\ clock[c]
  /\ clock' = [clock EXCEPT ![c] = FALSE]
  /\ IF Bound(PeerOf[c])
       THEN UNCHANGED <<stage, ledger, admission, disturbed>>
       ELSE /\ Moves(c, "closed") /\ Forget(c)
            /\ disturbed' = disturbed \cup ({c} \cap Claiming)
  /\ UNCHANGED <<pairing, devices, watches, known, count, claims, reaping, news, raced>>
---------------------------------------------------------------------------
(* The reaper.                                                             *)

Arm ==
  /\ reaper = "arming" /\ reaper' = "waiting" /\ armed' = Live
  /\ UNCHANGED <<pairing, devices, watches, conn, claims, seen, news, disturbed, raced>>

WakeByNews ==
  /\ reaper = "waiting" /\ news /\ news' = FALSE
  /\ reaper' = "woken" /\ armed' = 0
  /\ UNCHANGED <<pairing, devices, watches, conn, claims, seen, disturbed, raced>>

(* The deadline it armed may be that of a code that is gone since.         *)
WakeByDeadline ==
  /\ reaper = "waiting" /\ armed # 0 /\ armed <= lapsed
  /\ reaper' = "woken" /\ armed' = 0
  /\ disturbed' = disturbed \cup Claiming
  /\ UNCHANGED <<pairing, devices, watches, conn, claims, seen, news, raced>>

ReadLive ==
  /\ reaper = "woken" /\ reaper' = "reaping" /\ seen' = Live
  /\ UNCHANGED <<pairing, devices, watches, conn, claims, armed, news, disturbed, raced>>

(* unbound_conn_lives                                                      *)
Lives(c) == Bound(PeerOf[c]) \/ admission[c] \in {Adoption, seen}

(* Closed and off the ledger; its task finishes by itself.                 *)
Reap ==
  /\ reaper = "reaping" /\ reaper' = "arming" /\ seen' = 0
  /\ ledger' = {c \in ledger : Lives(c)}
  /\ stage' = [c \in Conns |-> IF c \in ledger /\ ~Lives(c) /\ stage[c] = "knocking"
                                 THEN "draining" ELSE stage[c]]
  /\ UNCHANGED <<pairing, devices, watches, known, admission, count, clock,
                 claims, armed, news, disturbed, raced>>
---------------------------------------------------------------------------
Claims(c)  == Redeem(c) \/ CreateRow(c) \/ BindPeer(c) \/ BindFails(c) \/ Settle(c)
              \/ Adopt(c)
Admits(c)  == Admit(c) \/ ServeBound(c) \/ WatchDevice(c) \/ ServeUnbound(c)
Ends(c)    == HearRevocation(c) \/ Finish(c) \/ Lifetime(c)
Reaping    == Arm \/ WakeByNews \/ WakeByDeadline \/ ReadLive \/ Reap

Next ==
  \/ Mint \/ EndElsewhere \/ Lapse \/ Reaping
  \/ \E d \in 1..written : DeleteRow(d) \/ Disconnect(d)
  \/ \E c \in Conns : Accept(c) \/ Claims(c) \/ Admits(c) \/ HangUp(c) \/ Ends(c)

Spec == Init /\ [][Next]_vars
---------------------------------------------------------------------------
(* Properties.                                                             *)

(* Whoever ends gives its place back, once, whichever of the four ends it: *)
(* the caps refuse and never evict, so a place that leaks is lost for good.*)
SlotsAreReturned ==
  /\ count = Cardinality({c \in Conns : admission[c] = 0 /\ stage[c] \in {"counted", "serving", "draining"}})
  /\ ledger \subseteq {c \in Conns : admission[c] # 0 /\ stage[c] \in {"knocking", "draining"}}
  /\ \A c \in Conns : stage[c] = "knocking" => c \in ledger

(* The reaper spares "the very connection the claim was answering on": a   *)
(* claim that nothing else fell into is answered, unless the phone hung up.*)
ClaimSurvivesItsOwnEnd ==
  [][Reap => \A c \in Claiming \ disturbed : stage'[c] = stage[c]]_vars

(* "At most this many concurrent connections": of those that found nobody  *)
(* else on the way in there are never more than the cap, each kind by its  *)
(* own cap, whatever windows come and go and however the others end.  Two  *)
(* that look at once can both come in.                                     *)
CapsAreKept ==
  /\ Cardinality(Windowed \ raced) <= MaxUnbound
  /\ Cardinality((ledger \ Windowed) \ raced) <= MaxAdopting
  /\ Cardinality({c \in Conns \ raced :
       admission[c] = 0 /\ stage[c] \in {"counted", "serving", "draining"}}) <= MaxBound

(* "Revocation cuts the network path, not only the token": a connection    *)
(* that watches a device that is gone has been told of it, or will be,     *)
(* unless the device was gone when it began to watch.                      *)
RevokedConnectionsHear ==
  \A c \in Conns : watch[c] \notin paired \cup telling \cup {0} => c \in signalled \cup late
=============================================================================
