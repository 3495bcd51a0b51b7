------------------------------- MODULE Pairing -------------------------------
(***************************************************************************)
(* How a phone becomes a device: the slot that holds the one outstanding   *)
(* code, the handlers that mint and claim it, the rows of the devices and  *)
(* the identities that transports have proved of them.                     *)
(*                                                                         *)
(* A code is known by the number of the window it opened, which is its     *)
(* own.  Handlers run on several threads: they meet at the locks of the    *)
(* slot, of the counter and of the database, and each step of a handler is *)
(* what it does under one of them.  One transport proves identities; a     *)
(* claim that arrives on another one has NoPeer.                           *)
(***************************************************************************)
EXTENDS Integers, FiniteSets, Gate

CONSTANTS
  Handlers,
  Devices,      \* ids that rows can get; each is used once
  Owner,        \* who asks from this machine or from the tailnet
  MaxFailures,  \* PAIRING_MAX_FAILURES
  MaxMints      \* bound: codes minted

ASSUME PairingAssumption ==
  /\ NoPeer \notin Peers /\ NoDevice \notin Devices
  /\ Owner \notin Devices /\ Owner # NoDevice
  /\ MaxFailures \in Nat \ {0} /\ MaxMints \in Nat /\ IsFiniteSet(Handlers)

VARIABLES
  slot,         \* PairingStore::slot; Empty: None
  lapsed,       \* its deadline is past
  transitions,  \* PairingStore::transitions
  paired,       \* the rows of devices
  bound,        \* device_peers: the device an identity belongs to
  known,        \* devices whose token was answered to somebody
  pc,           \* where a handler is
  held,         \* the window or the code it holds
  late,         \* the window that was past its deadline when it read the clock
  peer,         \* who the request is from
  device,       \* the row it works on
  minted,       \* history: codes that were put into the slot
  sold,         \* history: codes that were redeemed
  sponsor,      \* history: who asked for the code of each window
  guesses,      \* history: wrong guesses charged to each code
  price,        \* history: the code a device's row was written for
  owing         \* history: handlers that ended a window nobody was woken for since

code    == <<slot, lapsed>>
rows    == <<paired, bound, known>>
local   == <<pc, held, late, peer, device>>
history == <<minted, sold, sponsor, guesses, price, owing>>
vars    == <<code, transitions, rows, local, history>>
---------------------------------------------------------------------------
Empty   == [window |-> 0, failures |-> 0]
Windows == 1..2 * MaxMints
Held    == 0..2 * MaxMints
Garbage == 2 * MaxMints + 1      \* what could not be any code
Steps   == {"idle", "minting", "announcing", "claiming", "redeemed", "binding",
            "settling", "adopting"}

TypeOK ==
  /\ slot \in [window : Held, failures : 0..MaxFailures - 1]
  /\ lapsed \in BOOLEAN
  /\ transitions \in Nat
  /\ paired \subseteq Devices /\ known \subseteq Devices
  /\ bound \in [Peers -> paired \cup {NoDevice}]
  /\ pc \in [Handlers -> Steps]
  /\ held \in [Handlers -> Nat] /\ late \in [Handlers -> Nat]
  /\ peer \in [Handlers -> Peers \cup {NoPeer}]
  /\ device \in [Handlers -> Devices \cup {NoDevice}]
  /\ minted \subseteq Nat /\ sold \subseteq minted
  /\ sponsor \in [Windows -> Devices \cup {Owner, NoDevice}]
  /\ guesses \in [Windows -> 0..MaxFailures]
  /\ price \in [Devices -> Nat]
  /\ owing \subseteq Handlers

Init ==
  /\ slot = Empty /\ lapsed = FALSE
  /\ transitions = 0
  /\ paired = {} /\ bound = [p \in Peers |-> NoDevice]
  /\ known = {}
  /\ pc = [h \in Handlers |-> "idle"]
  /\ held = [h \in Handlers |-> 0] /\ late = [h \in Handlers |-> 0]
  /\ peer = [h \in Handlers |-> NoPeer]
  /\ device = [h \in Handlers |-> NoDevice]
  /\ minted = {} /\ sold = {}
  /\ sponsor = [w \in Windows |-> NoDevice]
  /\ guesses = [w \in Windows |-> 0]
  /\ price = [d \in Devices |-> 0]
  /\ owing = {}

Goes(h, to) == pc' = [pc EXCEPT ![h] = to]
Ends(h) ==
  /\ Goes(h, "idle")
  /\ held' = [held EXCEPT ![h] = 0] /\ late' = [late EXCEPT ![h] = 0]
  /\ peer' = [peer EXCEPT ![h] = NoPeer]
  /\ device' = [device EXCEPT ![h] = NoDevice]
---------------------------------------------------------------------------
(* The slot.                                                               *)

(* next_window: the number of the window a mint opens, or of a transition  *)
(* that only ends one.                                                     *)
NextWindow(h) ==
  /\ transitions' = transitions + 1
  /\ held' = [held EXCEPT ![h] = transitions + 1]

(* The deadline of the code that is out passes.                            *)
Expire ==
  /\ slot # Empty /\ ~lapsed /\ lapsed' = TRUE
  /\ UNCHANGED <<slot, transitions, rows, local, history>>

(* Whoever asks: the device that a proven identity belongs to, or nobody.  *)
Asker(stamp) == IF stamp.over = "iroh" THEN bound[stamp.id] ELSE Owner

(* POST /api/auth/pair: a number first, then the slot, then the news, each *)
(* under a lock of its own.  A daemon none of whose transports can be      *)
(* dialled refuses before any of it.                                       *)
BeginMint(h) ==
  /\ pc[h] = "idle"
  /\ Cardinality(minted) + Cardinality({g \in Handlers : pc[g] = "minting"}) < MaxMints
  /\ \E stamp \in Stamps :
       /\ Passes("pair", stamp, NoDevice, bound, paired)
       /\ sponsor' = [sponsor EXCEPT ![transitions + 1] = Asker(stamp)]
  /\ NextWindow(h) /\ Goes(h, "minting")
  /\ UNCHANGED <<code, rows, late, peer, device, minted, sold, guesses, price, owing>>

(* The new code replaces the one that is out, live or expired.             *)
WriteSlot(h) ==
  /\ pc[h] = "minting" /\ Goes(h, "announcing")
  /\ slot' = [window |-> held[h], failures |-> 0] /\ lapsed' = FALSE
  /\ minted' = minted \cup {held[h]} /\ owing' = owing \cup {h}
  /\ UNCHANGED <<transitions, rows, held, late, peer, device, sold, sponsor, guesses, price>>

(* transition: everyone who waits on the watch channel is woken.  The      *)
(* handler has nothing left to do but answer, a claim with its token.      *)
Announce(h) ==
  /\ pc[h] = "announcing" /\ Ends(h)
  /\ owing' = {}
  /\ known' = known \cup ({device[h]} \ {NoDevice})
  /\ UNCHANGED <<code, transitions, paired, bound, minted, sold, sponsor, guesses, price>>
---------------------------------------------------------------------------
(* POST /api/auth/claim.                                                   *)

(* The request arrives with a code somebody was shown, with a guess (0) or *)
(* with garbage.  The clock is read before the slot is locked.             *)
Present(h) ==
  /\ pc[h] = "idle" /\ Goes(h, "claiming")
  /\ \E c \in minted \cup {0, Garbage}, stamp \in Stamps :
       /\ Passes("claim", stamp, NoDevice, bound, paired)
       /\ held' = [held EXCEPT ![h] = c]
       /\ peer' = [peer EXCEPT ![h] = BindableIdentity(stamp)]
  /\ late' = [late EXCEPT ![h] = IF lapsed THEN slot.window ELSE 0]
  /\ UNCHANGED <<code, transitions, rows, device, history>>

Matches(h)   == held[h] = slot.window
WrongCode(h) == held[h] \notin {slot.window, Garbage}
TooLate(h)   == late[h] = slot.window

(* The verdicts of redeem_locked, under the slot's lock.                   *)

(* Ok: single use.                                                         *)
Accept(h) ==
  /\ pc[h] = "claiming" /\ slot # Empty /\ Matches(h) /\ ~TooLate(h)
  /\ slot' = Empty /\ lapsed' = FALSE /\ Goes(h, "redeemed")
  /\ sold' = sold \cup {slot.window} /\ owing' = owing \cup {h}
  /\ UNCHANGED <<transitions, rows, held, late, peer, device, minted, sponsor, guesses, price>>

(* Expired: the right code, too late.                                      *)
AnswerExpired(h) ==
  /\ pc[h] = "claiming" /\ slot # Empty /\ Matches(h) /\ TooLate(h)
  /\ slot' = Empty /\ lapsed' = FALSE /\ Goes(h, "settling") /\ owing' = owing \cup {h}
  /\ UNCHANGED <<transitions, rows, held, late, peer, device, minted, sold, sponsor,
                 guesses, price>>

\* Variant: one guess too many.
WrongGuessLate(h) ==
  /\ pc[h] = "claiming" /\ slot # Empty /\ WrongCode(h) /\ ~TooLate(h)
  /\ guesses' = [guesses EXCEPT ![slot.window] = IF @ < MaxFailures THEN @ + 1 ELSE @]
  /\ IF guesses[slot.window] = MaxFailures
       THEN slot' = Empty /\ lapsed' = FALSE /\ Goes(h, "settling") /\ owing' = owing \cup {h}
            /\ UNCHANGED <<held, late, peer, device>>
       ELSE Ends(h) /\ UNCHANGED <<code, owing>>
  /\ UNCHANGED <<transitions, rows, minted, sold, sponsor, price>>

(* Invalid, or RateLimited: a wrong guess at a live code is charged to it, *)
(* and the last one burns it.                                              *)
WrongGuess(h) ==
  /\ pc[h] = "claiming" /\ slot # Empty /\ WrongCode(h) /\ ~TooLate(h)
  /\ guesses' = [guesses EXCEPT ![slot.window] = @ + 1]
  /\ IF slot.failures + 1 < MaxFailures
       THEN /\ slot' = [slot EXCEPT !.failures = @ + 1]
            /\ Ends(h) /\ UNCHANGED <<lapsed, owing>>
       ELSE /\ slot' = Empty /\ lapsed' = FALSE /\ Goes(h, "settling") /\ owing' = owing \cup {h}
            /\ UNCHANGED <<held, late, peer, device>>
  /\ UNCHANGED <<transitions, rows, minted, sold, sponsor, price>>

(* Invalid: nothing is out, it is not a code at all, or what is out is     *)
(* dead already.                                                           *)
AnswerInvalid(h) ==
  /\ pc[h] = "claiming"
  /\ slot = Empty \/ held[h] = Garbage \/ (WrongCode(h) /\ TooLate(h))
  /\ Ends(h)
  /\ UNCHANGED <<code, transitions, rows, history>>

(* The row of the device; its token goes into the answer.                  *)
CreateRow(h) ==
  /\ pc[h] = "redeemed"
  /\ \E d \in Devices :
       /\ price[d] = 0 /\ price' = [price EXCEPT ![d] = held[h]]
       /\ paired' = paired \cup {d}
       /\ device' = [device EXCEPT ![h] = d]
  /\ Goes(h, IF peer[h] = NoPeer THEN "settling" ELSE "binding")
  /\ UNCHANGED <<code, transitions, bound, known, held, late, peer,
                 minted, sold, sponsor, guesses, owing>>

(* An identity belongs to one device: whoever had it before loses it.      *)
Bind(p, d) == bound' = [bound EXCEPT ![p] = d]

(* bind_peer.  The row must still be there: its id is a foreign key.       *)
BindPeer(h) ==
  /\ pc[h] = "binding" /\ device[h] \in paired /\ Bind(peer[h], device[h])
  /\ Goes(h, "settling")
  /\ UNCHANGED <<code, transitions, paired, known, held, late, peer, device, history>>

(* The database fails, or the row was revoked before it was bound: the     *)
(* handler returns its error, and nothing is announced.                    *)
ClaimFails(h) ==
  /\ pc[h] \in {"redeemed", "binding"} /\ Ends(h) /\ owing' = owing \ {h}
  /\ UNCHANGED <<code, transitions, rows, minted, sold, sponsor, guesses, price>>

\* Variant: only the claim that paired announces.
SettleOk(h) ==
  /\ pc[h] = "settling"
  /\ IF device[h] # NoDevice
       THEN NextWindow(h) /\ Goes(h, "announcing") /\ UNCHANGED <<late, peer, device>>
       ELSE Ends(h) /\ UNCHANGED transitions
  /\ UNCHANGED <<code, rows, history>>

(* settled: the last thing a claim does that moved the slot.               *)
Settle(h) ==
  /\ pc[h] = "settling" /\ NextWindow(h) /\ Goes(h, "announcing")
  /\ UNCHANGED <<code, rows, late, peer, device, history>>
---------------------------------------------------------------------------
(* The devices.                                                            *)

(* POST /api/devices/self/transports: the token says which device; the     *)
(* identity is the one the transport proved.                               *)
Authenticate(h) ==
  /\ pc[h] = "idle" /\ Goes(h, "adopting")
  /\ \E d \in known, stamp \in Stamps :
       /\ Passes("adopt", stamp, d, bound, paired) /\ BindableIdentity(stamp) # NoPeer
       /\ device' = [device EXCEPT ![h] = d]
       /\ peer' = [peer EXCEPT ![h] = BindableIdentity(stamp)]
  /\ UNCHANGED <<code, transitions, rows, held, late, history>>

\* Variant: the identities the device already has are not looked at.
AdoptAnother(h) ==
  /\ pc[h] = "adopting" /\ Ends(h)
  /\ IF device[h] \in paired THEN Bind(peer[h], device[h]) ELSE UNCHANGED bound
  /\ UNCHANGED <<code, transitions, paired, known, history>>

(* adopt_peer, one transaction: only a device without an identity gets one,*)
(* and a row that is gone gets none.                                       *)
Adopt(h) ==
  /\ pc[h] = "adopting" /\ Ends(h)
  /\ IF device[h] \in paired /\ \A p \in Peers : bound[p] # device[h]
       THEN Bind(peer[h], device[h]) ELSE UNCHANGED bound
  /\ UNCHANGED <<code, transitions, paired, known, history>>

(* DELETE /api/devices/{id}: the row, and its identities with it.  What it *)
(* tells the device's sockets is modelled where the sockets are.           *)
DeleteRow(h) ==
  /\ pc[h] = "idle"
  /\ \E stamp \in Stamps, token \in known \cup {NoDevice} :
       Passes("devices", stamp, token, bound, paired)
  /\ \E d \in paired :
       /\ paired' = paired \ {d}
       /\ bound' = [p \in Peers |-> IF bound[p] = d THEN NoDevice ELSE bound[p]]
  /\ UNCHANGED <<code, transitions, known, local, history>>
---------------------------------------------------------------------------
Minting(h)  == BeginMint(h) \/ WriteSlot(h)
Verdict(h)  == Accept(h) \/ AnswerExpired(h) \/ WrongGuess(h) \/ AnswerInvalid(h)
Claiming(h) ==
  Present(h) \/ Verdict(h) \/ CreateRow(h) \/ BindPeer(h) \/ ClaimFails(h) \/ Settle(h)
Owning(h)   == Authenticate(h) \/ Adopt(h) \/ DeleteRow(h)

Next ==
  \/ Expire
  \/ \E h \in Handlers :
       Minting(h) \/ Announce(h) \/ Claiming(h) \/ Owning(h)

Spec == Init /\ [][Next]_vars
---------------------------------------------------------------------------
(* Properties.                                                             *)

LifeOf(c) ==
  IF c \in sold THEN "used"
  ELSE IF slot.window = c THEN "live"
  ELSE IF c \in minted THEN "dead" ELSE "unborn"

Codes == INSTANCE PairingCode WITH
  Codes <- Windows, life <- [c \in Windows |-> LifeOf(c)], wrong <- guesses

(* "One slot, not a map": however mints and claims interleave, a code is   *)
(* out alone, is redeemed once, and is dead after its last wrong guess.    *)
CodesAreOneTime == Codes!Spec

(* Every device was paid for with a code of its own, that was redeemed.    *)
OneDevicePerCode ==
  \A d \in Devices : price[d] # 0 =>
    price[d] \in sold /\ \A e \in Devices \ {d} : price[e] # price[d]

(* "Minting is an owner action": every device descends from the owner.  Its*)
(* code was shown to the owner, or to a device that had come by an earlier *)
(* one.                                                                    *)
DescendsFromOwner ==
  \A d \in Devices : price[d] # 0 /\ sponsor[price[d]] # Owner =>
    sponsor[price[d]] \in Devices /\ price[sponsor[price[d]]] \in 1..price[d] - 1

(* "Checked and written in one transaction so two concurrent adopts cannot *)
(* each pass the check": a device has one identity at most, and an         *)
(* identity only a device that is there.                                   *)
OneIdentityPerDevice ==
  \A p \in Peers : bound[p] # NoDevice =>
    bound[p] \in paired /\ \A q \in Peers \ {p} : bound[q] # bound[p]

(* A phone is one device by one code and one identity, and somebody inside *)
(* let it in.                                                              *)
DevicesAreOneToOne == OneDevicePerCode /\ OneIdentityPerDevice /\ DescendsFromOwner

(* "A forgotten call is the bug this exists to stop": a window's end that  *)
(* nobody was woken for has a handler that is still on its way to announce *)
(* it, unless the claim that ended it failed.                              *)
EndsAreAnnounced ==
  \A h \in owing : pc[h] \in {"announcing", "redeemed", "binding", "settling"}
=============================================================================
