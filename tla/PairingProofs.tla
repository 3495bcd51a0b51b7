--------------------------- MODULE PairingProofs ---------------------------
(***************************************************************************)
(* Proofs about Pairing, for any number of handlers, devices, identities,  *)
(* mints and wrong guesses.                                                *)
(***************************************************************************)
EXTENDS Pairing, FiniteSetTheorems, TLAPS

(* Numbers: what was minted or is about to be has one that was given out.  *)
Numbers ==
  /\ transitions \in Nat
  /\ minted \subseteq 1..transitions /\ sold \subseteq minted
  /\ \A h \in Handlers : pc[h] = "minting" =>
       /\ held[h] \in 1..transitions /\ held[h] \notin minted
       /\ \A g \in Handlers \ {h} : pc[g] = "minting" => held[g] # held[h]

(* The slot holds a code that was minted and not yet redeemed, and counts  *)
(* the wrong guesses charged to it.                                        *)
SlotOK ==
  /\ slot = Empty \/ slot.window \in minted \ sold
  /\ slot # Empty => guesses[slot.window] = slot.failures
  /\ \A w \in Windows : w \notin minted => guesses[w] = 0

(* A handler on its way: what it holds is a code, a redeemed one, a row.   *)
Claimer(h) == pc[h] \in {"binding", "settling", "announcing"} /\ device[h] # NoDevice

HandlerOK(h) ==
  /\ pc[h] = "claiming" => held[h] \in minted \cup {0, Garbage}
  /\ pc[h] = "redeemed" =>
       /\ held[h] \in sold /\ \A d \in Devices : price[d] # held[h]
       /\ \A g \in Handlers \ {h} : pc[g] = "redeemed" => held[g] # held[h]
  /\ pc[h] \in {"idle", "minting", "claiming", "redeemed"} => device[h] = NoDevice
  /\ pc[h] = "binding" =>
       device[h] # NoDevice /\ peer[h] \in Peers /\ \A p \in Peers : bound[p] # device[h]
  /\ pc[h] = "adopting" => device[h] \in known /\ peer[h] \in Peers
  /\ Claimer(h) =>
       /\ device[h] \notin known
       /\ \A g \in Handlers \ {h} : device[g] # device[h]
  /\ device[h] # NoDevice => price[device[h]] # 0

(* Whoever is there was paid for.                                          *)
Paid == \A d \in paired \cup known : price[d] # 0

(* Every code was asked for by somebody inside, who came by an earlier one.*)
Sponsored(w) ==
  /\ w \in Windows
  /\ \/ sponsor[w] = Owner
     \/ sponsor[w] \in Devices /\ price[sponsor[w]] \in 1..w - 1

SponsorsOK ==
  /\ \A w \in minted : Sponsored(w)
  /\ \A h \in Handlers : pc[h] = "minting" => Sponsored(held[h])

(* Numbers are enough: a code is given one when it is minted and one when  *)
(* it ends, and an end that is still to come has not had its.              *)
Minters == {h \in Handlers : pc[h] = "minting"}
Enders  == {h \in Handlers : pc[h] \in {"redeemed", "binding", "settling"}}
Out     == IF slot = Empty THEN 0 ELSE 1

NumbersSuffice ==
  /\ Cardinality(minted) + Cardinality(Minters) <= MaxMints
  /\ transitions + Cardinality(Enders) + Out <= 2 * Cardinality(minted) + Cardinality(Minters)

IInv ==
  /\ TypeOK /\ Numbers /\ SlotOK /\ Paid /\ SponsorsOK /\ NumbersSuffice
  /\ \A h \in Handlers : HandlerOK(h)
  /\ OneDevicePerCode /\ OneIdentityPerDevice
---------------------------------------------------------------------------
Others(h) ==
  \A g \in Handlers \ {h} :
    /\ pc'[g] = pc[g] /\ held'[g] = held[g] /\ peer'[g] = peer[g] /\ device'[g] = device[g]

LEMMA Facts ==
  ASSUME IInv
  PROVE  /\ TypeOK /\ Numbers /\ SlotOK /\ Paid /\ SponsorsOK /\ NumbersSuffice
         /\ \A h \in Handlers : HandlerOK(h)
         /\ OneDevicePerCode /\ OneIdentityPerDevice
BY DEF IInv

LocalTypes ==
  /\ pc \in [Handlers -> Steps]
  /\ held \in [Handlers -> Nat] /\ late \in [Handlers -> Nat]
  /\ peer \in [Handlers -> Peers \cup {NoPeer}]
  /\ device \in [Handlers -> Devices \cup {NoDevice}]
SlotTypes ==
  /\ slot \in [window : Held, failures : 0..MaxFailures - 1]
  /\ lapsed \in BOOLEAN /\ transitions \in Nat
RowTypes ==
  /\ paired \subseteq Devices /\ known \subseteq Devices
  /\ bound \in [Peers -> paired \cup {NoDevice}]
HistoryTypes ==
  /\ minted \subseteq Nat /\ sold \subseteq minted
  /\ sponsor \in [Windows -> Devices \cup {Owner, NoDevice}]
  /\ guesses \in [Windows -> 0..MaxFailures]
  /\ price \in [Devices -> Nat]
  /\ owing \subseteq Handlers

LEMMA TypeParts == TypeOK <=> LocalTypes /\ SlotTypes /\ RowTypes /\ HistoryTypes
BY DEF TypeOK, LocalTypes, SlotTypes, RowTypes, HistoryTypes

LEMMA Bounds ==
  /\ MaxMints \in Nat /\ MaxFailures \in Nat \ {0}
  /\ Held = 0..2 * MaxMints /\ Windows = 1..2 * MaxMints
  /\ Garbage \in Nat /\ Garbage > 2 * MaxMints
  /\ Empty \in [window : Held, failures : 0..MaxFailures - 1] /\ Empty.window = 0
  /\ NoPeer \notin Peers /\ NoDevice \notin Devices /\ Owner \notin Devices /\ Owner # NoDevice
BY PairingAssumption DEF Held, Windows, Garbage, Empty

LEMMA StampsProveAnIdentity ==
  ASSUME NEW stamp \in Stamps
  PROVE  BindableIdentity(stamp) \in Peers \cup {NoPeer}
BY DEF Stamps, BindableIdentity

(* Each step keeps every part of the invariant but the count of numbers.   *)

LEMMA WriteSlotIsSafe ==
  ASSUME IInv, NEW h \in Handlers, WriteSlot(h)
  PROVE  TypeOK' /\ Numbers' /\ SlotOK' /\ Paid' /\ SponsorsOK' /\ OneDevicePerCode'
         /\ OneIdentityPerDevice' /\ \A g \in Handlers : HandlerOK(g)'
<1>0. /\ TypeOK /\ Numbers /\ SlotOK /\ Paid /\ SponsorsOK /\ OneDevicePerCode
      /\ OneIdentityPerDevice /\ HandlerOK(h)
  BY DEF IInv
<1>1. Others(h) /\ pc'[h] = "announcing" /\ held'[h] = held[h] /\ peer'[h] = peer[h] /\ device'[h] = device[h]
  BY <1>0 DEF TypeOK, Others, WriteSlot, Goes, rows
<1>2. TypeOK'
  <2>0. LocalTypes /\ SlotTypes /\ RowTypes /\ HistoryTypes
    BY <1>0, TypeParts
  <2>1. LocalTypes'
    BY <1>0, <2>0, Bounds DEF LocalTypes, SlotTypes, Steps, Claimer, WriteSlot, Goes, rows
  <2>2. SlotTypes'
    <3>1. held[h] \in Windows
      BY <1>0 DEF WriteSlot, SponsorsOK, Sponsored
    <3>2. [window |-> held[h], failures |-> 0] \in [window : Held, failures : 0..MaxFailures - 1]
      BY <3>1, Bounds
    <3> QED
      BY <2>0, <3>2 DEF SlotTypes, WriteSlot
  <2>3. RowTypes'
    BY <2>0 DEF RowTypes, LocalTypes, WriteSlot, Goes, rows
  <2>4. HistoryTypes'
    BY <2>0, Bounds DEF HistoryTypes, LocalTypes, WriteSlot, Goes, rows
  <2> QED
    BY <2>1, <2>2, <2>3, <2>4, TypeParts
      DEF TypeOK, LocalTypes, SlotTypes, RowTypes, HistoryTypes
<1>3. Numbers'
  BY <1>0, <1>1 DEF Numbers, Others, HandlerOK, WriteSlot, Goes, rows
<1>4. SlotOK'
  <2>1. held[h] \in Windows /\ held[h] \notin minted /\ sold \subseteq minted
    BY <1>0 DEF WriteSlot, SponsorsOK, Sponsored, Numbers
  <2>2. /\ slot'.window = held[h] /\ slot'.failures = 0 /\ minted' = minted \cup {held[h]}
        /\ UNCHANGED <<sold, guesses>>
    BY DEF WriteSlot
  <2> QED
    BY <1>0, <2>1, <2>2 DEF SlotOK
<1>5. Paid'
  BY <1>0 DEF Paid, HandlerOK, WriteSlot, Goes, rows
<1>6. SponsorsOK'
  BY <1>0, <1>1 DEF SponsorsOK, Sponsored, Others, WriteSlot, Goes, rows
<1>7. OneDevicePerCode'
  BY <1>0 DEF OneDevicePerCode, WriteSlot, Goes, rows
<1>8. OneIdentityPerDevice'
  BY <1>0 DEF OneIdentityPerDevice, TypeOK, WriteSlot, Goes, rows
<1>9. ASSUME NEW g \in Handlers PROVE HandlerOK(g)'
  <2>1. HandlerOK(g)
    BY DEF IInv
  <2> QED
    BY <1>0, <1>1, <2>1 DEF HandlerOK, Claimer, Others, WriteSlot, Goes, rows
<1> QED
  BY <1>2, <1>3, <1>4, <1>5, <1>6, <1>7, <1>8, <1>9

LEMMA AnnounceIsSafe ==
  ASSUME IInv, NEW h \in Handlers, Announce(h)
  PROVE  TypeOK' /\ Numbers' /\ SlotOK' /\ Paid' /\ SponsorsOK' /\ OneDevicePerCode'
         /\ OneIdentityPerDevice' /\ \A g \in Handlers : HandlerOK(g)'
<1>0. /\ TypeOK /\ Numbers /\ SlotOK /\ Paid /\ SponsorsOK /\ OneDevicePerCode
      /\ OneIdentityPerDevice /\ HandlerOK(h)
  BY DEF IInv
<1>1. Others(h) /\ pc'[h] = "idle" /\ device'[h] = NoDevice
  BY <1>0 DEF TypeOK, Others, Announce, Goes, Ends, code
<1>2. TypeOK'
  <2>0. LocalTypes /\ SlotTypes /\ RowTypes /\ HistoryTypes
    BY <1>0, TypeParts
  <2>1. LocalTypes'
    BY <1>0, <2>0, Bounds DEF LocalTypes, SlotTypes, Steps, Claimer, Announce, Goes, Ends, code
  <2>2. SlotTypes'
    BY <2>0, Bounds DEF SlotTypes, Announce, Goes, Ends, code
  <2>3. RowTypes'
    BY <2>0 DEF RowTypes, LocalTypes, Announce, Goes, Ends, code
  <2>4. HistoryTypes'
    BY <2>0, Bounds DEF HistoryTypes, LocalTypes, Announce, Goes, Ends, code
  <2> QED
    BY <2>1, <2>2, <2>3, <2>4, TypeParts
      DEF TypeOK, LocalTypes, SlotTypes, RowTypes, HistoryTypes
<1>3. Numbers'
  BY <1>0, <1>1 DEF Numbers, Others, HandlerOK, Announce, Goes, Ends, code
<1>4. SlotOK'
  BY <1>0 DEF SlotOK, Numbers, Empty, HandlerOK, Announce, Goes, Ends, code
<1>5. Paid'
  BY <1>0 DEF Paid, HandlerOK, Announce, Goes, Ends, code
<1>6. SponsorsOK'
  BY <1>0, <1>1 DEF SponsorsOK, Sponsored, Others, Announce, Goes, Ends, code
<1>7. OneDevicePerCode'
  BY <1>0 DEF OneDevicePerCode, Announce, Goes, Ends, code
<1>8. OneIdentityPerDevice'
  BY <1>0 DEF OneIdentityPerDevice, TypeOK, Announce, Goes, Ends, code
<1>9. ASSUME NEW g \in Handlers PROVE HandlerOK(g)'
  <2>1. HandlerOK(g)
    BY DEF IInv
  <2> QED
    BY <1>0, <1>1, <2>1 DEF HandlerOK, Claimer, Others, Announce, Goes, Ends, code
<1> QED
  BY <1>2, <1>3, <1>4, <1>5, <1>6, <1>7, <1>8, <1>9

LEMMA PresentIsSafe ==
  ASSUME IInv, NEW h \in Handlers, Present(h)
  PROVE  TypeOK' /\ Numbers' /\ SlotOK' /\ Paid' /\ SponsorsOK' /\ OneDevicePerCode'
         /\ OneIdentityPerDevice' /\ \A g \in Handlers : HandlerOK(g)'
<1>0. /\ TypeOK /\ Numbers /\ SlotOK /\ Paid /\ SponsorsOK /\ OneDevicePerCode
      /\ OneIdentityPerDevice /\ HandlerOK(h)
  BY DEF IInv
<1>1. Others(h) /\ pc'[h] = "claiming" /\ held'[h] \in minted \cup {0, Garbage} /\ device'[h] = device[h]
  BY <1>0 DEF TypeOK, Others, Present, Goes, code, rows, history
<1>2. TypeOK'
  <2>0. LocalTypes /\ SlotTypes /\ RowTypes /\ HistoryTypes
    BY <1>0, TypeParts
  <2>1. LocalTypes'
    <3> PICK c \in minted \cup {0, Garbage}, stamp \in Stamps :
          /\ held' = [held EXCEPT ![h] = c]
          /\ peer' = [peer EXCEPT ![h] = BindableIdentity(stamp)]
      BY DEF Present
    <3>1. c \in Nat /\ BindableIdentity(stamp) \in Peers \cup {NoPeer}
      BY <2>0, Bounds, StampsProveAnIdentity DEF HistoryTypes
    <3>2. (IF lapsed THEN slot.window ELSE 0) \in Nat
      BY <2>0, Bounds DEF SlotTypes
    <3>3. "claiming" \in Steps
      BY DEF Steps
    <3> QED
      BY <2>0, <3>1, <3>2, <3>3 DEF LocalTypes, Present, Goes
  <2>2. SlotTypes'
    BY <2>0, Bounds DEF SlotTypes, Present, Goes, code, rows, history
  <2>3. RowTypes'
    BY <2>0 DEF RowTypes, LocalTypes, Present, Goes, code, rows, history
  <2>4. HistoryTypes'
    BY <2>0, Bounds DEF HistoryTypes, LocalTypes, Present, Goes, code, rows, history
  <2> QED
    BY <2>1, <2>2, <2>3, <2>4, TypeParts
      DEF TypeOK, LocalTypes, SlotTypes, RowTypes, HistoryTypes
<1>3. Numbers'
  BY <1>0, <1>1 DEF Numbers, Others, HandlerOK, Present, Goes, code, rows, history
<1>4. SlotOK'
  BY <1>0 DEF SlotOK, Numbers, Empty, HandlerOK, Present, Goes, code, rows, history
<1>5. Paid'
  BY <1>0 DEF Paid, HandlerOK, Present, Goes, code, rows, history
<1>6. SponsorsOK'
  BY <1>0, <1>1 DEF SponsorsOK, Sponsored, Others, Present, Goes, code, rows, history
<1>7. OneDevicePerCode'
  BY <1>0 DEF OneDevicePerCode, Present, Goes, code, rows, history
<1>8. OneIdentityPerDevice'
  BY <1>0 DEF OneIdentityPerDevice, TypeOK, Present, Goes, code, rows, history
<1>9. ASSUME NEW g \in Handlers PROVE HandlerOK(g)'
  <2>1. HandlerOK(g)
    BY DEF IInv
  <2> QED
    BY <1>0, <1>1, <2>1 DEF HandlerOK, Claimer, Others, Present, Goes, code, rows, history
<1> QED
  BY <1>2, <1>3, <1>4, <1>5, <1>6, <1>7, <1>8, <1>9

LEMMA AcceptIsSafe ==
  ASSUME IInv, NEW h \in Handlers, Accept(h)
  PROVE  TypeOK' /\ Numbers' /\ SlotOK' /\ Paid' /\ SponsorsOK' /\ OneDevicePerCode'
         /\ OneIdentityPerDevice' /\ \A g \in Handlers : HandlerOK(g)'
<1>0. /\ TypeOK /\ Numbers /\ SlotOK /\ Paid /\ SponsorsOK /\ OneDevicePerCode
      /\ OneIdentityPerDevice /\ HandlerOK(h)
  BY DEF IInv
<1>1. Others(h) /\ pc'[h] = "redeemed" /\ held'[h] = slot.window /\ peer'[h] = peer[h] /\ device'[h] = device[h]
  BY <1>0 DEF TypeOK, Others, Accept, Goes, Matches, rows
<1>2. TypeOK'
  <2>0. LocalTypes /\ SlotTypes /\ RowTypes /\ HistoryTypes
    BY <1>0, TypeParts
  <2>1. LocalTypes'
    BY <1>0, <2>0, Bounds
      DEF LocalTypes, SlotTypes, Steps, Claimer, Accept, Goes, Matches, rows
  <2>2. SlotTypes'
    BY <2>0, Bounds DEF SlotTypes, Accept, Goes, Matches, rows
  <2>3. RowTypes'
    BY <2>0 DEF RowTypes, LocalTypes, Accept, Goes, Matches, rows
  <2>4. HistoryTypes'
    <3>1. slot.window \in minted
      BY <1>0 DEF Accept, SlotOK
    <3> QED
      BY <2>0, <3>1 DEF HistoryTypes, Accept
  <2> QED
    BY <2>1, <2>2, <2>3, <2>4, TypeParts
      DEF TypeOK, LocalTypes, SlotTypes, RowTypes, HistoryTypes
<1>3. Numbers'
  <2>1. slot.window \in minted
    BY <1>0 DEF Accept, SlotOK
  <2>2. /\ UNCHANGED <<transitions, minted>> /\ sold' = sold \cup {slot.window}
        /\ \A g \in Handlers : pc'[g] = "minting" => pc[g] = "minting" /\ held'[g] = held[g]
    BY <1>1 DEF Accept, Others
  <2> QED
    BY <1>0, <2>1, <2>2 DEF Numbers
<1>4. SlotOK'
  BY <1>0 DEF SlotOK, Numbers, Empty, HandlerOK, Accept, Goes, Matches, rows
<1>5. Paid'
  BY <1>0 DEF Paid, HandlerOK, Accept, Goes, Matches, rows
<1>6. SponsorsOK'
  BY <1>0, <1>1 DEF SponsorsOK, Sponsored, Others, Accept, Goes, Matches, rows
<1>7. OneDevicePerCode'
  BY <1>0 DEF OneDevicePerCode, Accept, Goes, Matches, rows
<1>8. OneIdentityPerDevice'
  BY <1>0 DEF OneIdentityPerDevice, TypeOK, Accept, Goes, Matches, rows
<1>9. ASSUME NEW g \in Handlers PROVE HandlerOK(g)'
  <2>1. HandlerOK(g)
    BY DEF IInv
  <2> QED
    <3>1. slot.window \in minted \ sold /\ slot.window # 0
      BY <1>0 DEF Accept, SlotOK, Numbers
    <3>2. \A d \in Devices : price[d] # slot.window
      BY <1>0, <3>1 DEF OneDevicePerCode
    <3>3. \A f \in Handlers : pc[f] = "redeemed" => held[f] # slot.window
      BY <3>1 DEF IInv, HandlerOK
    <3>4. /\ UNCHANGED <<minted, known, bound, price>> /\ sold' = sold \cup {slot.window}
          /\ pc[h] = "claiming"
      BY DEF Accept, rows
    <3>5. CASE g = h
      BY <1>0, <1>1, <2>1, <3>1, <3>2, <3>3, <3>4, <3>5 DEF HandlerOK, Claimer, Others
    <3>6. CASE g # h
      BY <1>0, <1>1, <2>1, <3>1, <3>2, <3>3, <3>4, <3>6 DEF HandlerOK, Claimer, Others
    <3> QED
      BY <3>5, <3>6
<1> QED
  BY <1>2, <1>3, <1>4, <1>5, <1>6, <1>7, <1>8, <1>9

LEMMA AnswerExpiredIsSafe ==
  ASSUME IInv, NEW h \in Handlers, AnswerExpired(h)
  PROVE  TypeOK' /\ Numbers' /\ SlotOK' /\ Paid' /\ SponsorsOK' /\ OneDevicePerCode'
         /\ OneIdentityPerDevice' /\ \A g \in Handlers : HandlerOK(g)'
<1>0. /\ TypeOK /\ Numbers /\ SlotOK /\ Paid /\ SponsorsOK /\ OneDevicePerCode
      /\ OneIdentityPerDevice /\ HandlerOK(h)
  BY DEF IInv
<1>1. Others(h) /\ pc'[h] = "settling" /\ device'[h] = device[h]
  BY <1>0 DEF TypeOK, Others, AnswerExpired, Goes, Matches, rows
<1>2. TypeOK'
  <2>0. LocalTypes /\ SlotTypes /\ RowTypes /\ HistoryTypes
    BY <1>0, TypeParts
  <2>1. LocalTypes'
    BY <1>0, <2>0, Bounds
      DEF LocalTypes, SlotTypes, Steps, Claimer, AnswerExpired, Goes, Matches, rows
  <2>2. SlotTypes'
    BY <2>0, Bounds DEF SlotTypes, AnswerExpired, Goes, Matches, rows
  <2>3. RowTypes'
    BY <2>0 DEF RowTypes, LocalTypes, AnswerExpired, Goes, Matches, rows
  <2>4. HistoryTypes'
    BY <2>0, Bounds DEF HistoryTypes, LocalTypes, AnswerExpired, Goes, Matches, rows
  <2> QED
    BY <2>1, <2>2, <2>3, <2>4, TypeParts
      DEF TypeOK, LocalTypes, SlotTypes, RowTypes, HistoryTypes
<1>3. Numbers'
  BY <1>0, <1>1 DEF Numbers, Others, HandlerOK, AnswerExpired, Goes, Matches, rows
<1>4. SlotOK'
  BY <1>0 DEF SlotOK, Numbers, Empty, HandlerOK, AnswerExpired, Goes, Matches, rows
<1>5. Paid'
  BY <1>0 DEF Paid, HandlerOK, AnswerExpired, Goes, Matches, rows
<1>6. SponsorsOK'
  BY <1>0, <1>1 DEF SponsorsOK, Sponsored, Others, AnswerExpired, Goes, Matches, rows
<1>7. OneDevicePerCode'
  BY <1>0 DEF OneDevicePerCode, AnswerExpired, Goes, Matches, rows
<1>8. OneIdentityPerDevice'
  BY <1>0 DEF OneIdentityPerDevice, TypeOK, AnswerExpired, Goes, Matches, rows
<1>9. ASSUME NEW g \in Handlers PROVE HandlerOK(g)'
  <2>1. HandlerOK(g)
    BY DEF IInv
  <2> QED
    BY <1>0, <1>1, <2>1 DEF HandlerOK, Claimer, Others, AnswerExpired, Goes, Matches, rows
<1> QED
  BY <1>2, <1>3, <1>4, <1>5, <1>6, <1>7, <1>8, <1>9

LEMMA AnswerInvalidIsSafe ==
  ASSUME IInv, NEW h \in Handlers, AnswerInvalid(h)
  PROVE  TypeOK' /\ Numbers' /\ SlotOK' /\ Paid' /\ SponsorsOK' /\ OneDevicePerCode'
         /\ OneIdentityPerDevice' /\ \A g \in Handlers : HandlerOK(g)'
<1>0. /\ TypeOK /\ Numbers /\ SlotOK /\ Paid /\ SponsorsOK /\ OneDevicePerCode
      /\ OneIdentityPerDevice /\ HandlerOK(h)
  BY DEF IInv
<1>1. Others(h) /\ pc'[h] = "idle" /\ device'[h] = NoDevice
  BY <1>0 DEF TypeOK, Others, AnswerInvalid, Goes, Ends, code, rows, history
<1>2. TypeOK'
  <2>0. LocalTypes /\ SlotTypes /\ RowTypes /\ HistoryTypes
    BY <1>0, TypeParts
  <2>1. LocalTypes'
    BY <1>0, <2>0, Bounds
      DEF LocalTypes, SlotTypes, Steps, Claimer, AnswerInvalid, Goes, Ends, code, rows, history
  <2>2. SlotTypes'
    BY <2>0, Bounds DEF SlotTypes, AnswerInvalid, Goes, Ends, code, rows, history
  <2>3. RowTypes'
    BY <2>0 DEF RowTypes, LocalTypes, AnswerInvalid, Goes, Ends, code, rows, history
  <2>4. HistoryTypes'
    BY <2>0, Bounds
      DEF HistoryTypes, LocalTypes, AnswerInvalid, Goes, Ends, code, rows, history
  <2> QED
    BY <2>1, <2>2, <2>3, <2>4, TypeParts
      DEF TypeOK, LocalTypes, SlotTypes, RowTypes, HistoryTypes
<1>3. Numbers'
  BY <1>0, <1>1 DEF Numbers, Others, HandlerOK, AnswerInvalid, Goes, Ends, code, rows, history
<1>4. SlotOK'
  BY <1>0 DEF SlotOK, Numbers, Empty, HandlerOK, AnswerInvalid, Goes, Ends, code, rows, history
<1>5. Paid'
  BY <1>0 DEF Paid, HandlerOK, AnswerInvalid, Goes, Ends, code, rows, history
<1>6. SponsorsOK'
  BY <1>0, <1>1
    DEF SponsorsOK, Sponsored, Others, AnswerInvalid, Goes, Ends, code, rows, history
<1>7. OneDevicePerCode'
  BY <1>0 DEF OneDevicePerCode, AnswerInvalid, Goes, Ends, code, rows, history
<1>8. OneIdentityPerDevice'
  BY <1>0 DEF OneIdentityPerDevice, TypeOK, AnswerInvalid, Goes, Ends, code, rows, history
<1>9. ASSUME NEW g \in Handlers PROVE HandlerOK(g)'
  <2>1. HandlerOK(g)
    BY DEF IInv
  <2> QED
    BY <1>0, <1>1, <2>1
      DEF HandlerOK, Claimer, Others, AnswerInvalid, Goes, Ends, code, rows, history
<1> QED
  BY <1>2, <1>3, <1>4, <1>5, <1>6, <1>7, <1>8, <1>9

LEMMA ClaimFailsIsSafe ==
  ASSUME IInv, NEW h \in Handlers, ClaimFails(h)
  PROVE  TypeOK' /\ Numbers' /\ SlotOK' /\ Paid' /\ SponsorsOK' /\ OneDevicePerCode'
         /\ OneIdentityPerDevice' /\ \A g \in Handlers : HandlerOK(g)'
<1>0. /\ TypeOK /\ Numbers /\ SlotOK /\ Paid /\ SponsorsOK /\ OneDevicePerCode
      /\ OneIdentityPerDevice /\ HandlerOK(h)
  BY DEF IInv
<1>1. Others(h) /\ pc'[h] = "idle" /\ device'[h] = NoDevice
  BY <1>0 DEF TypeOK, Others, ClaimFails, Goes, Ends, code, rows
<1>2. TypeOK'
  <2>0. LocalTypes /\ SlotTypes /\ RowTypes /\ HistoryTypes
    BY <1>0, TypeParts
  <2>1. LocalTypes'
    BY <1>0, <2>0, Bounds
      DEF LocalTypes, SlotTypes, Steps, Claimer, ClaimFails, Goes, Ends, code, rows
  <2>2. SlotTypes'
    BY <2>0, Bounds DEF SlotTypes, ClaimFails, Goes, Ends, code, rows
  <2>3. RowTypes'
    BY <2>0 DEF RowTypes, LocalTypes, ClaimFails, Goes, Ends, code, rows
  <2>4. HistoryTypes'
    BY <2>0, Bounds DEF HistoryTypes, LocalTypes, ClaimFails, Goes, Ends, code, rows
  <2> QED
    BY <2>1, <2>2, <2>3, <2>4, TypeParts
      DEF TypeOK, LocalTypes, SlotTypes, RowTypes, HistoryTypes
<1>3. Numbers'
  BY <1>0, <1>1 DEF Numbers, Others, HandlerOK, ClaimFails, Goes, Ends, code, rows
<1>4. SlotOK'
  BY <1>0 DEF SlotOK, Numbers, Empty, HandlerOK, ClaimFails, Goes, Ends, code, rows
<1>5. Paid'
  BY <1>0 DEF Paid, HandlerOK, ClaimFails, Goes, Ends, code, rows
<1>6. SponsorsOK'
  BY <1>0, <1>1 DEF SponsorsOK, Sponsored, Others, ClaimFails, Goes, Ends, code, rows
<1>7. OneDevicePerCode'
  BY <1>0 DEF OneDevicePerCode, ClaimFails, Goes, Ends, code, rows
<1>8. OneIdentityPerDevice'
  BY <1>0 DEF OneIdentityPerDevice, TypeOK, ClaimFails, Goes, Ends, code, rows
<1>9. ASSUME NEW g \in Handlers PROVE HandlerOK(g)'
  <2>1. HandlerOK(g)
    BY DEF IInv
  <2> QED
    BY <1>0, <1>1, <2>1 DEF HandlerOK, Claimer, Others, ClaimFails, Goes, Ends, code, rows
<1> QED
  BY <1>2, <1>3, <1>4, <1>5, <1>6, <1>7, <1>8, <1>9

LEMMA SettleIsSafe ==
  ASSUME IInv, NEW h \in Handlers, Settle(h)
  PROVE  TypeOK' /\ Numbers' /\ SlotOK' /\ Paid' /\ SponsorsOK' /\ OneDevicePerCode'
         /\ OneIdentityPerDevice' /\ \A g \in Handlers : HandlerOK(g)'
<1>0. /\ TypeOK /\ Numbers /\ SlotOK /\ Paid /\ SponsorsOK /\ OneDevicePerCode
      /\ OneIdentityPerDevice /\ HandlerOK(h)
  BY DEF IInv
<1>1. Others(h) /\ pc'[h] = "announcing" /\ device'[h] = device[h]
  BY <1>0 DEF TypeOK, Others, Settle, Goes, NextWindow, code, rows, history
<1>2. TypeOK'
  <2>0. LocalTypes /\ SlotTypes /\ RowTypes /\ HistoryTypes
    BY <1>0, TypeParts
  <2>1. LocalTypes'
    BY <1>0, <2>0, Bounds
      DEF LocalTypes, SlotTypes, Steps, Claimer, Settle, Goes, NextWindow, code, rows, history
  <2>2. SlotTypes'
    BY <2>0, Bounds DEF SlotTypes, Settle, Goes, NextWindow, code, rows, history
  <2>3. RowTypes'
    BY <2>0 DEF RowTypes, LocalTypes, Settle, Goes, NextWindow, code, rows, history
  <2>4. HistoryTypes'
    BY <2>0, Bounds DEF HistoryTypes, LocalTypes, Settle, Goes, NextWindow, code, rows, history
  <2> QED
    BY <2>1, <2>2, <2>3, <2>4, TypeParts
      DEF TypeOK, LocalTypes, SlotTypes, RowTypes, HistoryTypes
<1>3. Numbers'
  BY <1>0, <1>1 DEF Numbers, Others, HandlerOK, Settle, Goes, NextWindow, code, rows, history
<1>4. SlotOK'
  BY <1>0 DEF SlotOK, Numbers, Empty, HandlerOK, Settle, Goes, NextWindow, code, rows, history
<1>5. Paid'
  BY <1>0 DEF Paid, HandlerOK, Settle, Goes, NextWindow, code, rows, history
<1>6. SponsorsOK'
  BY <1>0, <1>1
    DEF SponsorsOK, Sponsored, Others, Settle, Goes, NextWindow, code, rows, history
<1>7. OneDevicePerCode'
  BY <1>0 DEF OneDevicePerCode, Settle, Goes, NextWindow, code, rows, history
<1>8. OneIdentityPerDevice'
  BY <1>0 DEF OneIdentityPerDevice, TypeOK, Settle, Goes, NextWindow, code, rows, history
<1>9. ASSUME NEW g \in Handlers PROVE HandlerOK(g)'
  <2>1. HandlerOK(g)
    BY DEF IInv
  <2> QED
    BY <1>0, <1>1, <2>1
      DEF HandlerOK, Claimer, Others, Settle, Goes, NextWindow, code, rows, history
<1> QED
  BY <1>2, <1>3, <1>4, <1>5, <1>6, <1>7, <1>8, <1>9

LEMMA BindPeerIsSafe ==
  ASSUME IInv, NEW h \in Handlers, BindPeer(h)
  PROVE  TypeOK' /\ Numbers' /\ SlotOK' /\ Paid' /\ SponsorsOK' /\ OneDevicePerCode'
         /\ OneIdentityPerDevice' /\ \A g \in Handlers : HandlerOK(g)'
<1>0. /\ TypeOK /\ Numbers /\ SlotOK /\ Paid /\ SponsorsOK /\ OneDevicePerCode
      /\ OneIdentityPerDevice /\ HandlerOK(h)
  BY DEF IInv
<1>1. Others(h) /\ pc'[h] = "settling" /\ device'[h] = device[h]
  BY <1>0 DEF TypeOK, Others, BindPeer, Goes, Bind, code, history
<1>2. TypeOK'
  <2>0. LocalTypes /\ SlotTypes /\ RowTypes /\ HistoryTypes
    BY <1>0, TypeParts
  <2>1. LocalTypes'
    BY <1>0, <2>0, Bounds
      DEF LocalTypes, SlotTypes, Steps, Claimer, BindPeer, Goes, Bind, code, history
  <2>2. SlotTypes'
    BY <2>0, Bounds DEF SlotTypes, BindPeer, Goes, Bind, code, history
  <2>3. RowTypes'
    BY <2>0 DEF RowTypes, LocalTypes, BindPeer, Goes, Bind, code, history
  <2>4. HistoryTypes'
    BY <2>0, Bounds DEF HistoryTypes, LocalTypes, BindPeer, Goes, Bind, code, history
  <2> QED
    BY <2>1, <2>2, <2>3, <2>4, TypeParts
      DEF TypeOK, LocalTypes, SlotTypes, RowTypes, HistoryTypes
<1>3. Numbers'
  BY <1>0, <1>1 DEF Numbers, Others, HandlerOK, BindPeer, Goes, Bind, code, history
<1>4. SlotOK'
  BY <1>0 DEF SlotOK, Numbers, Empty, HandlerOK, BindPeer, Goes, Bind, code, history
<1>5. Paid'
  BY <1>0 DEF Paid, HandlerOK, BindPeer, Goes, Bind, code, history
<1>6. SponsorsOK'
  BY <1>0, <1>1 DEF SponsorsOK, Sponsored, Others, BindPeer, Goes, Bind, code, history
<1>7. OneDevicePerCode'
  BY <1>0 DEF OneDevicePerCode, BindPeer, Goes, Bind, code, history
<1>8. OneIdentityPerDevice'
  <2>1. bound \in [Peers -> paired \cup {NoDevice}] /\ peer[h] \in Peers
    BY <1>0 DEF TypeOK, HandlerOK, BindPeer
  <2>2. \A p \in Peers : bound[p] # device[h]
    BY <1>0 DEF HandlerOK, BindPeer
  <2> QED
    BY <1>0, <2>1, <2>2 DEF OneIdentityPerDevice, BindPeer, Bind
<1>9. ASSUME NEW g \in Handlers PROVE HandlerOK(g)'
  <2>1. HandlerOK(g)
    BY DEF IInv
  <2> QED
    BY <1>0, <1>1, <2>1 DEF HandlerOK, Claimer, Others, BindPeer, Goes, Bind, code, history
<1> QED
  BY <1>2, <1>3, <1>4, <1>5, <1>6, <1>7, <1>8, <1>9

LEMMA AuthenticateIsSafe ==
  ASSUME IInv, NEW h \in Handlers, Authenticate(h)
  PROVE  TypeOK' /\ Numbers' /\ SlotOK' /\ Paid' /\ SponsorsOK' /\ OneDevicePerCode'
         /\ OneIdentityPerDevice' /\ \A g \in Handlers : HandlerOK(g)'
<1>0. /\ TypeOK /\ Numbers /\ SlotOK /\ Paid /\ SponsorsOK /\ OneDevicePerCode
      /\ OneIdentityPerDevice /\ HandlerOK(h)
  BY DEF IInv
<1>1. Others(h) /\ pc'[h] = "adopting" /\ device'[h] \in known /\ peer'[h] \in Peers
      /\ LocalTypes' /\ pc[h] = "idle"
  <2> PICK d \in known, stamp \in Stamps :
        /\ BindableIdentity(stamp) # NoPeer
        /\ device' = [device EXCEPT ![h] = d]
        /\ peer' = [peer EXCEPT ![h] = BindableIdentity(stamp)]
    BY DEF Authenticate
  <2>1. BindableIdentity(stamp) \in Peers /\ d \in Devices /\ "adopting" \in Steps /\ LocalTypes
    BY <1>0, StampsProveAnIdentity, TypeParts DEF TypeOK, Steps
  <2>2. pc' = [pc EXCEPT ![h] = "adopting"] /\ UNCHANGED <<held, late>> /\ pc[h] = "idle"
    BY DEF Authenticate, Goes
  <2> QED
    BY <2>1, <2>2 DEF LocalTypes, Others
<1>2. TypeOK'
  <2>0. LocalTypes /\ SlotTypes /\ RowTypes /\ HistoryTypes
    BY <1>0, TypeParts
  <2>1. LocalTypes'
    BY <1>1
  <2>2. SlotTypes'
    BY <2>0, Bounds DEF SlotTypes, Authenticate, Goes, code, rows, history
  <2>3. RowTypes'
    BY <2>0 DEF RowTypes, LocalTypes, Authenticate, Goes, code, rows, history
  <2>4. HistoryTypes'
    BY <2>0, Bounds DEF HistoryTypes, LocalTypes, Authenticate, Goes, code, rows, history
  <2> QED
    BY <2>1, <2>2, <2>3, <2>4, TypeParts
      DEF TypeOK, LocalTypes, SlotTypes, RowTypes, HistoryTypes
<1>3. Numbers'
  BY <1>0, <1>1 DEF Numbers, Others, HandlerOK, Authenticate, Goes, code, rows, history
<1>4. SlotOK'
  BY <1>0 DEF SlotOK, Numbers, Empty, HandlerOK, Authenticate, Goes, code, rows, history
<1>5. Paid'
  BY <1>0 DEF Paid, HandlerOK, Authenticate, Goes, code, rows, history
<1>6. SponsorsOK'
  BY <1>0, <1>1 DEF SponsorsOK, Sponsored, Others, Authenticate, Goes, code, rows, history
<1>7. OneDevicePerCode'
  BY <1>0 DEF OneDevicePerCode, Authenticate, Goes, code, rows, history
<1>8. OneIdentityPerDevice'
  BY <1>0 DEF OneIdentityPerDevice, TypeOK, Authenticate, Goes, code, rows, history
<1>9. ASSUME NEW g \in Handlers PROVE HandlerOK(g)'
  <2>1. HandlerOK(g)
    BY DEF IInv
  <2> QED
    <3>1. UNCHANGED <<minted, sold, known, bound, price>>
      BY DEF Authenticate, rows, history
    <3>2. Paid /\ (Claimer(g) => device[g] \notin known)
      BY <1>0, <2>1 DEF HandlerOK
    <3>3. CASE g = h
      BY <1>1, <3>1, <3>2, <3>3 DEF HandlerOK, Claimer, Paid
    <3>4. CASE g # h
      BY <1>1, <2>1, <3>1, <3>2, <3>4 DEF HandlerOK, Claimer, Others
    <3> QED
      BY <3>3, <3>4
<1> QED
  BY <1>2, <1>3, <1>4, <1>5, <1>6, <1>7, <1>8, <1>9

LEMMA AdoptIsSafe ==
  ASSUME IInv, NEW h \in Handlers, Adopt(h)
  PROVE  TypeOK' /\ Numbers' /\ SlotOK' /\ Paid' /\ SponsorsOK' /\ OneDevicePerCode'
         /\ OneIdentityPerDevice' /\ \A g \in Handlers : HandlerOK(g)'
<1>0. /\ TypeOK /\ Numbers /\ SlotOK /\ Paid /\ SponsorsOK /\ OneDevicePerCode
      /\ OneIdentityPerDevice /\ HandlerOK(h)
  BY DEF IInv
<1>1. Others(h) /\ pc'[h] = "idle" /\ device'[h] = NoDevice
  BY <1>0 DEF TypeOK, Others, Adopt, Goes, Ends, Bind, code, history
<1>2. TypeOK'
  <2>0. LocalTypes /\ SlotTypes /\ RowTypes /\ HistoryTypes
    BY <1>0, TypeParts
  <2>1. LocalTypes'
    BY <1>0, <2>0, Bounds
      DEF LocalTypes, SlotTypes, Steps, Claimer, Adopt, Goes, Ends, Bind, code, history
  <2>2. SlotTypes'
    BY <2>0, Bounds DEF SlotTypes, Adopt, Goes, Ends, Bind, code, history
  <2>3. RowTypes'
    BY <2>0 DEF RowTypes, LocalTypes, Adopt, Goes, Ends, Bind, code, history
  <2>4. HistoryTypes'
    BY <2>0, Bounds DEF HistoryTypes, LocalTypes, Adopt, Goes, Ends, Bind, code, history
  <2> QED
    BY <2>1, <2>2, <2>3, <2>4, TypeParts
      DEF TypeOK, LocalTypes, SlotTypes, RowTypes, HistoryTypes
<1>3. Numbers'
  BY <1>0, <1>1 DEF Numbers, Others, HandlerOK, Adopt, Goes, Ends, Bind, code, history
<1>4. SlotOK'
  BY <1>0 DEF SlotOK, Numbers, Empty, HandlerOK, Adopt, Goes, Ends, Bind, code, history
<1>5. Paid'
  BY <1>0 DEF Paid, HandlerOK, Adopt, Goes, Ends, Bind, code, history
<1>6. SponsorsOK'
  BY <1>0, <1>1 DEF SponsorsOK, Sponsored, Others, Adopt, Goes, Ends, Bind, code, history
<1>7. OneDevicePerCode'
  BY <1>0 DEF OneDevicePerCode, Adopt, Goes, Ends, Bind, code, history
<1>8. OneIdentityPerDevice'
  BY <1>0 DEF OneIdentityPerDevice, TypeOK, Adopt, Goes, Ends, Bind, code, history
<1>9. ASSUME NEW g \in Handlers PROVE HandlerOK(g)'
  <2>1. HandlerOK(g)
    BY DEF IInv
  <2> QED
    <3>1. UNCHANGED <<minted, sold, known, price>> /\ pc[h] = "adopting"
      BY DEF Adopt, history
    <3>2. device[h] \in known /\ \A p \in Peers : bound'[p] \in {bound[p], device[h]}
      BY <1>0, <3>1 DEF HandlerOK, Adopt, Bind, TypeOK
    <3>3. pc[g] = "binding" => \A p \in Peers : bound'[p] # device[g]
      BY <2>1, <3>2 DEF HandlerOK, Claimer
    <3>4. CASE g = h
      BY <1>1, <3>4 DEF HandlerOK, Claimer
    <3>5. CASE g # h
      BY <1>1, <2>1, <3>1, <3>3, <3>5, Bounds DEF HandlerOK, Claimer, Others
    <3> QED
      BY <3>4, <3>5
<1> QED
  BY <1>2, <1>3, <1>4, <1>5, <1>6, <1>7, <1>8, <1>9

LEMMA DeleteRowIsSafe ==
  ASSUME IInv, NEW h \in Handlers, DeleteRow(h)
  PROVE  TypeOK' /\ Numbers' /\ SlotOK' /\ Paid' /\ SponsorsOK' /\ OneDevicePerCode'
         /\ OneIdentityPerDevice' /\ \A g \in Handlers : HandlerOK(g)'
<1>0. /\ TypeOK /\ Numbers /\ SlotOK /\ Paid /\ SponsorsOK /\ OneDevicePerCode
      /\ OneIdentityPerDevice /\ HandlerOK(h)
  BY DEF IInv
<1>1. Others(h) /\ pc'[h] = pc[h] /\ device'[h] = device[h]
  BY <1>0 DEF TypeOK, Others, DeleteRow, code, local, history
<1>2. TypeOK'
  <2>0. LocalTypes /\ SlotTypes /\ RowTypes /\ HistoryTypes
    BY <1>0, TypeParts
  <2>1. LocalTypes'
    BY <1>0, <2>0, Bounds
      DEF LocalTypes, SlotTypes, Steps, Claimer, DeleteRow, code, local, history
  <2>2. SlotTypes'
    BY <2>0, Bounds DEF SlotTypes, DeleteRow, code, local, history
  <2>3. RowTypes'
    BY <2>0 DEF RowTypes, LocalTypes, DeleteRow, code, local, history
  <2>4. HistoryTypes'
    BY <2>0, Bounds DEF HistoryTypes, LocalTypes, DeleteRow, code, local, history
  <2> QED
    BY <2>1, <2>2, <2>3, <2>4, TypeParts
      DEF TypeOK, LocalTypes, SlotTypes, RowTypes, HistoryTypes
<1>3. Numbers'
  BY <1>0, <1>1 DEF Numbers, Others, HandlerOK, DeleteRow, code, local, history
<1>4. SlotOK'
  BY <1>0 DEF SlotOK, Numbers, Empty, HandlerOK, DeleteRow, code, local, history
<1>5. Paid'
  BY <1>0 DEF Paid, HandlerOK, DeleteRow, code, local, history
<1>6. SponsorsOK'
  BY <1>0, <1>1 DEF SponsorsOK, Sponsored, Others, DeleteRow, code, local, history
<1>7. OneDevicePerCode'
  BY <1>0 DEF OneDevicePerCode, DeleteRow, code, local, history
<1>8. OneIdentityPerDevice'
  BY <1>0 DEF OneIdentityPerDevice, TypeOK, DeleteRow, code, local, history
<1>9. ASSUME NEW g \in Handlers PROVE HandlerOK(g)'
  <2>1. HandlerOK(g)
    BY DEF IInv
  <2> QED
    BY <1>0, <1>1, <2>1 DEF HandlerOK, Claimer, Others, DeleteRow, code, local, history
<1> QED
  BY <1>2, <1>3, <1>4, <1>5, <1>6, <1>7, <1>8, <1>9

LEMMA ExpireIsSafe ==
  ASSUME IInv, Expire
  PROVE  TypeOK' /\ Numbers' /\ SlotOK' /\ Paid' /\ SponsorsOK' /\ OneDevicePerCode'
         /\ OneIdentityPerDevice' /\ \A g \in Handlers : HandlerOK(g)'
<1>1. UNCHANGED <<slot, transitions, rows, local, history>> /\ lapsed' \in BOOLEAN
  BY DEF Expire
<1>2. TypeOK'
  BY <1>1, Facts DEF TypeOK, rows, local, history
<1>3. Numbers' /\ SlotOK' /\ Paid' /\ SponsorsOK'
  BY <1>1, Facts DEF Numbers, SlotOK, Paid, SponsorsOK, Sponsored, rows, local, history
<1>4. OneDevicePerCode' /\ OneIdentityPerDevice'
  BY <1>1, Facts DEF OneDevicePerCode, OneIdentityPerDevice, rows, local, history
<1>5. \A g \in Handlers : HandlerOK(g)'
  BY <1>1, Facts DEF HandlerOK, Claimer, rows, local, history
<1> QED
  BY <1>2, <1>3, <1>4, <1>5

(* Who may mint is here, or a device whose identity is bound.              *)
LEMMA MintersAreInside ==
  ASSUME NEW stamp \in Stamps, Passes("pair", stamp, NoDevice, bound, paired)
  PROVE  Asker(stamp) = Owner \/ (stamp.id \in Peers /\ Asker(stamp) = bound[stamp.id] /\ bound[stamp.id] # NoDevice)
<1>1. /\ "pair" \notin UnauthenticatedPaths /\ "pair" \notin TokenOnlyPaths
      /\ GrantsLocalBypass(stamp) \/ Authorizes(stamp, bound)
  BY DEF Passes, UnauthenticatedPaths, TokenOnlyPaths
<1>2. stamp.over = "iroh" => stamp.id \in Peers
  BY DEF Stamps
<1> QED
  BY <1>1, <1>2 DEF Authorizes, GrantsLocalBypass, InTailnet, IsBound, Asker

LEMMA BeginMintIsSafe ==
  ASSUME IInv, NEW h \in Handlers, BeginMint(h), transitions + 1 \in Windows
  PROVE  TypeOK' /\ Numbers' /\ SlotOK' /\ Paid' /\ SponsorsOK' /\ OneDevicePerCode'
         /\ OneIdentityPerDevice' /\ \A g \in Handlers : HandlerOK(g)'
<1> DEFINE w == transitions + 1
<1>0. /\ LocalTypes /\ SlotTypes /\ RowTypes /\ HistoryTypes /\ Numbers /\ SlotOK /\ Paid
      /\ SponsorsOK /\ OneDevicePerCode /\ OneIdentityPerDevice /\ HandlerOK(h)
  BY Facts, TypeParts
<1>1. /\ pc[h] = "idle" /\ pc' = [pc EXCEPT ![h] = "minting"]
      /\ transitions' = w /\ held' = [held EXCEPT ![h] = w]
      /\ UNCHANGED <<code, rows, late, peer, device, minted, sold, guesses, price, owing>>
  BY DEF BeginMint, NextWindow, Goes
<1>2. PICK stamp \in Stamps :
        Passes("pair", stamp, NoDevice, bound, paired) /\ sponsor' = [sponsor EXCEPT ![w] = Asker(stamp)]
  BY DEF BeginMint
<1> DEFINE a == Asker(stamp)
<1>3. \/ a = Owner
      \/ a \in Devices /\ price[a] \in 1..transitions
  <2>1. CASE a = Owner
    BY <2>1 DEF a
  <2>2. CASE stamp.id \in Peers /\ a = bound[stamp.id] /\ bound[stamp.id] # NoDevice
    <3>1. a \in paired /\ a \in Devices
      BY <1>0, <2>2 DEF RowTypes
    <3>2. price[a] # 0 /\ price[a] \in sold
      BY <1>0, <3>1 DEF Paid, OneDevicePerCode
    <3> QED
      BY <1>0, <3>1, <3>2 DEF Numbers
  <2> QED
    BY <1>2, <2>1, <2>2, MintersAreInside
<1> HIDE DEF a
<1>4. w \in Nat /\ w \in Windows /\ w \notin minted /\ w # 0
  BY <1>0, Bounds DEF Numbers
<1>5. TypeOK'
  <2>1. LocalTypes'
    BY <1>0, <1>1, <1>4 DEF LocalTypes, Steps
  <2>2. SlotTypes' /\ RowTypes'
    BY <1>0, <1>1, <1>4 DEF SlotTypes, RowTypes, code, rows
  <2>3. HistoryTypes'
    BY <1>0, <1>1, <1>2, <1>3, <1>4 DEF HistoryTypes, a
  <2> QED
    BY <2>1, <2>2, <2>3, TypeParts DEF TypeOK, LocalTypes, SlotTypes, RowTypes, HistoryTypes
<1>6. Others(h) /\ pc'[h] = "minting" /\ held'[h] = w /\ device'[h] = device[h]
  BY <1>0, <1>1 DEF LocalTypes, Others
<1>7. Numbers'
  BY <1>0, <1>1, <1>4, <1>6 DEF Numbers, Others
<1>8. SlotOK' /\ Paid'
  BY <1>0, <1>1 DEF SlotOK, Paid, code, rows
<1>9. SponsorsOK'
  <2>1. sponsor'[w] = a /\ \A v \in Windows : v # w => sponsor'[v] = sponsor[v]
    BY <1>0, <1>2, <1>4 DEF HistoryTypes, a
  <2>2. ASSUME NEW v \in Windows, v = w PROVE Sponsored(v)'
    <3>1. v - 1 = transitions /\ sponsor'[v] = a
      BY <1>0, <2>1, <2>2 DEF Numbers
    <3> QED
      BY <1>1, <1>3, <2>1, <2>2, <3>1 DEF Sponsored
  <2>3. ASSUME NEW v, Sponsored(v), v # w PROVE Sponsored(v)'
    BY <1>1, <2>1, <2>3 DEF Sponsored
  <2>4. ASSUME NEW g \in Handlers, pc[g] = "minting" PROVE held[g] # w
    BY <1>0, <1>4, <2>4 DEF Numbers
  <2> QED
    BY <1>0, <1>1, <1>4, <1>6, <2>2, <2>3, <2>4 DEF SponsorsOK, Others
<1>10. OneDevicePerCode' /\ OneIdentityPerDevice'
  BY <1>0, <1>1 DEF OneDevicePerCode, OneIdentityPerDevice, rows
<1>11. ASSUME NEW g \in Handlers PROVE HandlerOK(g)'
  <2>1. HandlerOK(g)
    BY DEF IInv
  <2> QED
    BY <1>0, <1>1, <1>6, <2>1 DEF HandlerOK, Claimer, Others, rows
<1> QED
  BY <1>5, <1>7, <1>8, <1>9, <1>10, <1>11

LEMMA WrongGuessIsSafe ==
  ASSUME IInv, NEW h \in Handlers, WrongGuess(h)
  PROVE  TypeOK' /\ Numbers' /\ SlotOK' /\ Paid' /\ SponsorsOK' /\ OneDevicePerCode'
         /\ OneIdentityPerDevice' /\ \A g \in Handlers : HandlerOK(g)'
<1>0. /\ LocalTypes /\ SlotTypes /\ RowTypes /\ HistoryTypes /\ Numbers /\ SlotOK /\ Paid
      /\ SponsorsOK /\ OneDevicePerCode /\ OneIdentityPerDevice /\ HandlerOK(h)
  BY Facts, TypeParts
<1> DEFINE w == slot.window
<1>1. /\ pc[h] = "claiming" /\ slot # Empty /\ w \in minted \ sold /\ w \in Windows
      /\ guesses[w] = slot.failures /\ slot.failures \in 0..MaxFailures - 1
      /\ guesses' = [guesses EXCEPT ![w] = slot.failures + 1]
      /\ UNCHANGED <<transitions, rows, minted, sold, sponsor, price>>
  BY <1>0 DEF WrongGuess, SlotOK, SponsorsOK, Sponsored, SlotTypes
<1>2. guesses[w] + 1 \in 0..MaxFailures
  BY <1>1, Bounds
<1>3. /\ LocalTypes' /\ Others(h) /\ pc'[h] \in {"idle", "settling"} /\ device'[h] = NoDevice
      /\ lapsed' \in BOOLEAN
      /\ \/ slot' = Empty
         \/ slot' = [slot EXCEPT !.failures = slot.failures + 1] /\ slot.failures + 1 < MaxFailures
      /\ owing' \subseteq Handlers
  <2>1. CASE slot.failures + 1 < MaxFailures
    <3>1. Ends(h) /\ slot' = [slot EXCEPT !.failures = slot.failures + 1] /\ UNCHANGED <<lapsed, owing>>
      BY <2>1 DEF WrongGuess
    <3>2. "idle" \in Steps
      BY DEF Steps
    <3>3. LocalTypes' /\ Others(h) /\ pc'[h] = "idle" /\ device'[h] = NoDevice
      BY <1>0, <3>1, <3>2 DEF LocalTypes, Others, Ends, Goes
    <3> QED
      BY <1>0, <2>1, <3>1, <3>3 DEF SlotTypes, HistoryTypes
  <2>2. CASE ~(slot.failures + 1 < MaxFailures)
    <3>1. /\ slot' = Empty /\ lapsed' = FALSE /\ Goes(h, "settling") /\ owing' = owing \cup {h}
          /\ UNCHANGED <<held, late, peer, device>>
      BY <2>2 DEF WrongGuess
    <3>2. "settling" \in Steps /\ device[h] = NoDevice
      BY <1>0, <1>1 DEF Steps, HandlerOK
    <3> QED
      BY <1>0, <3>1, <3>2 DEF LocalTypes, Others, Goes, HistoryTypes
  <2> QED
    BY <2>1, <2>2
<1>4. TypeOK'
  <2>1. SlotTypes'
    BY <1>0, <1>1, <1>3, Bounds DEF SlotTypes
  <2>2. HistoryTypes'
    BY <1>0, <1>1, <1>2, <1>3 DEF HistoryTypes
  <2>3. RowTypes'
    BY <1>0, <1>1 DEF RowTypes, rows
  <2> QED
    BY <1>3, <2>1, <2>2, <2>3, TypeParts
      DEF TypeOK, LocalTypes, SlotTypes, RowTypes, HistoryTypes
<1>5. Numbers'
  BY <1>0, <1>1, <1>3 DEF Numbers, Others
<1>6. SlotOK'
  <2>1. \A v \in Windows : v \notin minted => guesses'[v] = 0
    BY <1>0, <1>1 DEF SlotOK, HistoryTypes
  <2>2. CASE slot' = Empty
    BY <1>1, <2>1, <2>2 DEF SlotOK
  <2>3. CASE slot' = [slot EXCEPT !.failures = slot.failures + 1]
    <3>1. slot'.window = w /\ slot'.failures = slot.failures + 1 /\ guesses'[w] = slot.failures + 1
      BY <1>0, <1>1, <2>3 DEF SlotTypes, HistoryTypes
    <3> QED
      BY <1>1, <2>1, <3>1 DEF SlotOK
  <2> QED
    BY <1>3, <2>2, <2>3
<1>7. Paid' /\ OneDevicePerCode' /\ OneIdentityPerDevice'
  BY <1>0, <1>1 DEF Paid, OneDevicePerCode, OneIdentityPerDevice, rows
<1>8. SponsorsOK'
  BY <1>0, <1>1, <1>3 DEF SponsorsOK, Sponsored, Others
<1>9. ASSUME NEW g \in Handlers PROVE HandlerOK(g)'
  <2>1. HandlerOK(g)
    BY DEF IInv
  <2> QED
    BY <1>0, <1>1, <1>3, <2>1 DEF HandlerOK, Claimer, Others, rows
<1> QED
  BY <1>4, <1>5, <1>6, <1>7, <1>8, <1>9

LEMMA CreateRowIsSafe ==
  ASSUME IInv, NEW h \in Handlers, CreateRow(h)
  PROVE  TypeOK' /\ Numbers' /\ SlotOK' /\ Paid' /\ SponsorsOK' /\ OneDevicePerCode'
         /\ OneIdentityPerDevice' /\ \A g \in Handlers : HandlerOK(g)'
<1>0. /\ LocalTypes /\ SlotTypes /\ RowTypes /\ HistoryTypes /\ Numbers /\ SlotOK /\ Paid
      /\ SponsorsOK /\ OneDevicePerCode /\ OneIdentityPerDevice /\ HandlerOK(h)
  BY Facts, TypeParts
<1>1. PICK d \in Devices :
        /\ price[d] = 0 /\ price' = [price EXCEPT ![d] = held[h]]
        /\ paired' = paired \cup {d} /\ device' = [device EXCEPT ![h] = d]
  BY DEF CreateRow
<1> DEFINE to == IF peer[h] = NoPeer THEN "settling" ELSE "binding"
<1>2. /\ pc[h] = "redeemed" /\ pc' = [pc EXCEPT ![h] = to]
      /\ UNCHANGED <<code, transitions, bound, known, held, late, peer, minted, sold, sponsor,
                     guesses, owing>>
  BY DEF CreateRow, Goes
<1>3. held[h] \in sold /\ held[h] \in Nat /\ held[h] # 0 /\ \A e \in Devices : price[e] # held[h]
  <2>1. held[h] \in sold /\ \A e \in Devices : price[e] # held[h]
    BY <1>0, <1>2 DEF HandlerOK
  <2>2. held[h] \in 1..transitions
    BY <1>0, <2>1 DEF Numbers
  <2> QED
    BY <1>0, <2>1, <2>2 DEF SlotTypes
<1>4. price'[d] = held[h] /\ \A e \in Devices : e # d => price'[e] = price[e]
  BY <1>0, <1>1 DEF HistoryTypes
<1>5. d \notin paired /\ d \notin known /\ d # NoDevice /\ \A p \in Peers : bound[p] # d
  BY <1>0, <1>1, Bounds DEF Paid, RowTypes
<1>6. Others(h) /\ pc'[h] = to /\ device'[h] = d /\ peer'[h] = peer[h] /\ LocalTypes'
  BY <1>0, <1>1, <1>2 DEF LocalTypes, Others, Steps
<1>7. TypeOK'
  <2>1. SlotTypes' /\ RowTypes'
    BY <1>0, <1>1, <1>2 DEF SlotTypes, RowTypes, code
  <2>2. HistoryTypes'
    BY <1>0, <1>1, <1>2, <1>3 DEF HistoryTypes
  <2> QED
    BY <1>6, <2>1, <2>2, TypeParts DEF TypeOK, LocalTypes, SlotTypes, RowTypes, HistoryTypes
<1>8. Numbers' /\ SlotOK'
  BY <1>0, <1>2, <1>6 DEF Numbers, SlotOK, Others, code
<1>9. Paid'
  BY <1>0, <1>1, <1>2, <1>3, <1>4, <1>5 DEF Paid, RowTypes
<1>10. SponsorsOK'
  <2>1. ASSUME NEW v, Sponsored(v) PROVE Sponsored(v)'
    <3>1. CASE sponsor[v] = Owner
      BY <1>2, <2>1, <3>1 DEF Sponsored
    <3>2. CASE sponsor[v] \in Devices /\ price[sponsor[v]] \in 1..v - 1
      <4>1. sponsor[v] # d
        BY <1>1, <3>2
      <4> QED
        BY <1>2, <1>4, <2>1, <3>2, <4>1 DEF Sponsored
    <3> QED
      BY <2>1, <3>1, <3>2 DEF Sponsored
  <2> QED
    BY <1>0, <1>2, <1>6, <2>1 DEF SponsorsOK, Others
<1>11. OneDevicePerCode'
  BY <1>0, <1>2, <1>3, <1>4 DEF OneDevicePerCode
<1>12. OneIdentityPerDevice'
  BY <1>0, <1>1, <1>2 DEF OneIdentityPerDevice
<1>13. ASSUME NEW g \in Handlers PROVE HandlerOK(g)'
  <2>1. HandlerOK(g) /\ device[g] # d
    BY <1>0, <1>1, <1>5 DEF IInv, HandlerOK
  <2>2. \A f \in Handlers : device[f] # d
    BY <1>0, <1>1, <1>5 DEF IInv, HandlerOK
  <2>3. CASE g = h
    <3>1. to = "binding" => peer[h] \in Peers
      BY <1>0 DEF LocalTypes
    <3> QED
      BY <1>2, <1>3, <1>4, <1>5, <1>6, <2>2, <2>3, <3>1 DEF HandlerOK, Claimer, Others
  <2>4. CASE g # h
    <3>1. device[g] # NoDevice => price'[device[g]] # 0
      BY <1>0, <1>4, <2>1 DEF HandlerOK, LocalTypes
    <3>2. pc[g] = "redeemed" => \A e \in Devices : price'[e] # held[g]
      BY <1>2, <1>4, <2>1, <2>4 DEF HandlerOK
    <3> QED
      BY <1>2, <1>6, <2>1, <2>4, <3>1, <3>2 DEF HandlerOK, Claimer, Others
  <2> QED
    BY <2>3, <2>4
<1> QED
  BY <1>7, <1>8, <1>9, <1>10, <1>11, <1>12, <1>13
---------------------------------------------------------------------------
(* The numbers suffice.                                                    *)

One(b) == IF b THEN 1 ELSE 0

LEMMA CountOf ==
  ASSUME NEW S, IsFiniteSet(S), NEW T, NEW x, T \ {x} = S \ {x}
  PROVE  /\ IsFiniteSet(T) /\ Cardinality(S) \in Nat /\ Cardinality(T) \in Nat
         /\ Cardinality(T) + One(x \in S) = Cardinality(S) + One(x \in T)
<1> DEFINE R == S \ {x}
<1>1. IsFiniteSet(R)
  BY FS_RemoveElement
<1>2. IsFiniteSet(R \cup {x}) /\ Cardinality(R \cup {x}) = Cardinality(R) + 1
  BY <1>1, FS_AddElement
<1>3. S = IF x \in S THEN R \cup {x} ELSE R
  OBVIOUS
<1>4. T = IF x \in T THEN R \cup {x} ELSE R
  OBVIOUS
<1> HIDE DEF R
<1>5. Cardinality(R) \in Nat
  BY <1>1, FS_CardinalityType
<1>6. IsFiniteSet(T) /\ Cardinality(T) = Cardinality(R) + One(x \in T)
  <2>1. CASE x \in T
    BY <1>2, <1>4, <2>1 DEF One
  <2>2. CASE x \notin T
    BY <1>1, <1>4, <1>5, <2>2 DEF One
  <2> QED
    BY <2>1, <2>2
<1>7. Cardinality(S) = Cardinality(R) + One(x \in S)
  <2>1. CASE x \in S
    BY <1>2, <1>3, <2>1 DEF One
  <2>2. CASE x \notin S
    BY <1>3, <1>5, <2>2 DEF One
  <2> QED
    BY <2>1, <2>2
<1> QED
  BY <1>5, <1>6, <1>7 DEF One

Ending == {"redeemed", "binding", "settling"}

(* One handler moves, and the handlers that are minting, or have an end to *)
(* tell, are as many more or less.                                         *)
LEMMA CountOfHandlers ==
  ASSUME IInv, NEW h \in Handlers, NEW to, pc' = [pc EXCEPT ![h] = to]
  PROVE  /\ Cardinality(Minters) \in Nat /\ Cardinality(Minters') \in Nat
         /\ Cardinality(Enders) \in Nat /\ Cardinality(Enders') \in Nat
         /\ Cardinality(Minters') + One(pc[h] = "minting") = Cardinality(Minters) + One(to = "minting")
         /\ Cardinality(Enders') + One(pc[h] \in Ending) = Cardinality(Enders) + One(to \in Ending)
<1>1. pc \in [Handlers -> Steps]
  BY DEF IInv, TypeOK
<1>2. pc'[h] = to /\ \A g \in Handlers \ {h} : pc'[g] = pc[g]
  BY <1>1
<1>3. /\ Minters' \ {h} = Minters \ {h} /\ Enders' \ {h} = Enders \ {h}
      /\ (h \in Minters <=> pc[h] = "minting") /\ (h \in Minters' <=> to = "minting")
      /\ (h \in Enders <=> pc[h] \in Ending) /\ (h \in Enders' <=> to \in Ending)
  BY <1>2 DEF Minters, Enders, Ending
<1>4. IsFiniteSet(Minters) /\ IsFiniteSet(Enders)
  BY PairingAssumption, FS_Subset DEF Minters, Enders
<1>5. Cardinality(Minters') + One(h \in Minters) = Cardinality(Minters) + One(h \in Minters')
      /\ Cardinality(Minters') \in Nat /\ Cardinality(Minters) \in Nat
  BY <1>3, <1>4, CountOf
<1>6. Cardinality(Enders') + One(h \in Enders) = Cardinality(Enders) + One(h \in Enders')
      /\ Cardinality(Enders') \in Nat /\ Cardinality(Enders) \in Nat
  BY <1>3, <1>4, CountOf
<1> QED
  BY <1>3, <1>5, <1>6 DEF One

LEMMA CountOfCodes ==
  ASSUME IInv
  PROVE  IsFiniteSet(minted) /\ Cardinality(minted) \in Nat /\ transitions \in Nat
<1>1. transitions \in Nat /\ minted \subseteq 1..transitions
  BY DEF IInv, Numbers
<1>2. IsFiniteSet(1..transitions)
  BY <1>1, FS_Interval
<1> QED
  BY <1>1, <1>2, FS_Subset, FS_CardinalityType

LEMMA Sums ==
  ASSUME NEW o \in Nat, NEW oo \in Nat, NEW m \in Nat, NEW mm \in Nat, NEW q \in Nat, NEW qq \in Nat,
         NEW e \in Nat, NEW ee \in Nat, NEW t \in Nat, NEW tt \in Nat,
         t + e + o <= 2 * m + q, tt + ee + oo + 2 * m + q <= t + e + o + 2 * mm + qq
  PROVE  tt + ee + oo <= 2 * mm + qq
OBVIOUS

(* What the sums come to, whatever is counted.                             *)
LEMMA Suffices ==
  ASSUME NumbersSuffice, Out \in Nat, Out' \in Nat, transitions \in Nat, transitions' \in Nat,
         Cardinality(minted) \in Nat, Cardinality(minted') \in Nat,
         Cardinality(Minters) \in Nat, Cardinality(Minters') \in Nat,
         Cardinality(Enders) \in Nat, Cardinality(Enders') \in Nat,
         Cardinality(minted') + Cardinality(Minters') <= MaxMints,
         transitions' + Cardinality(Enders') + Out' + 2 * Cardinality(minted) + Cardinality(Minters)
           <= transitions + Cardinality(Enders) + Out + 2 * Cardinality(minted') + Cardinality(Minters')
  PROVE  NumbersSuffice'
<1>1. transitions' + Cardinality(Enders') + Out' <= 2 * Cardinality(minted') + Cardinality(Minters')
  BY Sums DEF NumbersSuffice
<1> QED
  BY <1>1 DEF NumbersSuffice

LEMMA AMintHasANumber ==
  ASSUME IInv, NEW h \in Handlers, BeginMint(h)
  PROVE  transitions + 1 \in Windows /\ NumbersSuffice'
<1>1. /\ Cardinality(minted) + Cardinality(Minters) < MaxMints /\ pc[h] = "idle"
      /\ pc' = [pc EXCEPT ![h] = "minting"] /\ transitions' = transitions + 1
      /\ slot' = slot /\ minted' = minted
  BY DEF BeginMint, Minters, NextWindow, Goes, code
<1>2. NumbersSuffice
  BY DEF IInv
<1>3. /\ Cardinality(Minters) \in Nat /\ Cardinality(Enders) \in Nat
      /\ Cardinality(Minters') \in Nat /\ Cardinality(Enders') \in Nat
      /\ Cardinality(Minters') = Cardinality(Minters) + 1 /\ Cardinality(Enders') = Cardinality(Enders)
  <2>1. /\ Cardinality(Minters) \in Nat /\ Cardinality(Minters') \in Nat
        /\ Cardinality(Enders) \in Nat /\ Cardinality(Enders') \in Nat
        /\ Cardinality(Minters') + One(pc[h] = "minting") = Cardinality(Minters) + One("minting" = "minting")
        /\ Cardinality(Enders') + One(pc[h] \in Ending) = Cardinality(Enders) + One("minting" \in Ending)
    BY <1>1, CountOfHandlers
  <2>2. "idle" \notin Ending /\ "minting" \notin Ending
    BY DEF Ending
  <2> QED
    BY <1>1, <2>1, <2>2 DEF One
<1>4. Cardinality(minted) \in Nat /\ transitions \in Nat /\ Out \in {0, 1} /\ Out' = Out
  BY <1>1, CountOfCodes DEF Out, Empty
<1>5. Cardinality(minted') = Cardinality(minted)
  BY <1>1
<1>6. NumbersSuffice'
  <2>1. Out \in Nat /\ Out' \in Nat /\ transitions' \in Nat /\ Cardinality(minted') \in Nat
    BY <1>1, <1>4, <1>5
  <2>2. Cardinality(minted') + Cardinality(Minters') <= MaxMints
    BY <1>1, <1>3, <1>4, <1>5, Bounds
  <2>3. transitions' + Cardinality(Enders') + Out' + 2 * Cardinality(minted) + Cardinality(Minters)
          <= transitions + Cardinality(Enders) + Out + 2 * Cardinality(minted') + Cardinality(Minters')
    BY <1>1, <1>3, <1>4, <1>5
  <2> QED
    BY <1>2, <1>3, <1>4, <2>1, <2>2, <2>3, Suffices
<1>7. transitions <= 2 * Cardinality(minted) + Cardinality(Minters)
  BY <1>2, <1>3, <1>4 DEF NumbersSuffice
<1>8. transitions + 1 \in Windows
  BY <1>1, <1>3, <1>4, <1>7, Bounds
<1> QED
  BY <1>6, <1>8

(* A step of a handler that takes no more than it gives back.              *)
LEMMA AStepThatPays ==
  ASSUME IInv, NEW h \in Handlers, NEW to, pc' = [pc EXCEPT ![h] = to], to # "minting",
         transitions' \in Nat,
         Cardinality(minted') = Cardinality(minted) + One(pc[h] = "minting"),
         transitions' + One(to \in Ending) + Out'
           <= transitions + One(pc[h] \in Ending) + Out + One(pc[h] = "minting")
  PROVE  NumbersSuffice'
<1> DEFINE paid == One(pc[h] = "minting")  gave == One(pc[h] \in Ending)  took == One(to \in Ending)
<1>1. /\ Cardinality(Minters) \in Nat /\ Cardinality(Minters') \in Nat
      /\ Cardinality(Enders) \in Nat /\ Cardinality(Enders') \in Nat
      /\ Cardinality(Minters') + paid = Cardinality(Minters) + One(to = "minting")
      /\ Cardinality(Enders') + gave = Cardinality(Enders) + took
  BY CountOfHandlers
<1>2. paid \in Nat /\ gave \in Nat /\ took \in Nat /\ One(to = "minting") = 0
  BY DEF One
<1>3. /\ Cardinality(minted') = Cardinality(minted) + paid
      /\ transitions' + took + Out' <= transitions + gave + Out + paid
  OBVIOUS
<1> HIDE DEF paid, gave, took
<1>4. NumbersSuffice /\ Cardinality(minted) \in Nat /\ transitions \in Nat
  BY CountOfCodes DEF IInv
<1>5. Out \in Nat /\ Out' \in Nat
  BY DEF Out
<1>6. Cardinality(minted') \in Nat
  BY <1>2, <1>3, <1>4
<1>7. Cardinality(minted') + Cardinality(Minters') <= MaxMints
  <2>1. Cardinality(minted) + Cardinality(Minters) <= MaxMints
    BY <1>4 DEF NumbersSuffice
  <2>2. Cardinality(Minters') + paid = Cardinality(Minters)
    BY <1>1, <1>2
  <2> QED
    BY <1>1, <1>2, <1>3, <1>4, <2>1, <2>2, Bounds
<1>8. transitions' + Cardinality(Enders') + Out' + 2 * Cardinality(minted) + Cardinality(Minters)
        <= transitions + Cardinality(Enders) + Out + 2 * Cardinality(minted') + Cardinality(Minters')
  <2>1. Cardinality(Minters') + paid = Cardinality(Minters)
    BY <1>1, <1>2
  <2> QED
    <3>1. transitions' \in Nat
      OBVIOUS
    <3>2. /\ Cardinality(minted') = Cardinality(minted) + paid
          /\ transitions' + took + Out' <= transitions + gave + Out + paid
          /\ Cardinality(Enders') + gave = Cardinality(Enders) + took
      BY <1>1, <1>3
    <3> QED
      <4>1. transitions' + Cardinality(Enders') + Out' <= transitions + Cardinality(Enders) + Out + paid
        <5>1. /\ Cardinality(Enders') + gave = Cardinality(Enders) + took
              /\ Cardinality(Enders') \in Nat /\ Cardinality(Enders) \in Nat
              /\ gave \in Nat /\ took \in Nat
          BY <1>1, <1>2, <3>2
        <5>2. took = Cardinality(Enders') + gave - Cardinality(Enders)
          BY <5>1
        <5>3. transitions' + took + Out' <= transitions + gave + Out + paid
          BY <3>2
        <5> QED
          BY <1>2, <1>4, <1>5, <3>1, <5>1, <5>2, <5>3
      <4>2. 2 * Cardinality(minted') + Cardinality(Minters') = 2 * Cardinality(minted) + Cardinality(Minters) + paid
        BY <1>1, <1>2, <1>4, <2>1, <3>2
      <4> QED
        BY <1>1, <1>2, <1>4, <1>5, <1>6, <3>1, <4>1, <4>2
<1> QED
  BY <1>1, <1>4, <1>5, <1>6, <1>7, <1>8, Suffices

(* Where a handler owes the announcement of an end.                        *)
LEMMA Strings ==
  /\ "idle" \notin Ending /\ "minting" \notin Ending /\ "announcing" \notin Ending
  /\ "claiming" \notin Ending /\ "adopting" \notin Ending
  /\ "redeemed" \in Ending /\ "settling" \in Ending /\ "binding" \in Ending
BY DEF Ending

LEMMA WriteSlotPays ==
  ASSUME IInv, NEW h \in Handlers, WriteSlot(h)
  PROVE  NumbersSuffice'
<1>1. /\ pc[h] = "minting" /\ pc' = [pc EXCEPT ![h] = "announcing"] /\ transitions' = transitions
      /\ minted' = minted \cup {held[h]}
  BY DEF WriteSlot, Goes
<1>2. held[h] \notin minted /\ IsFiniteSet(minted) /\ Cardinality(minted) \in Nat /\ transitions \in Nat
  BY <1>1, CountOfCodes DEF IInv, Numbers
<1>3. Cardinality(minted') = Cardinality(minted) + 1
  BY <1>1, <1>2, FS_AddElement
<1>4. Out' <= Out + 1 /\ Out \in Nat /\ Out' \in Nat
  BY DEF Out
<1>5. One(pc[h] = "minting") = 1 /\ One(pc[h] \in Ending) = 0 /\ One("announcing" \in Ending) = 0
  BY <1>1, Strings DEF One
<1>6. transitions' + One("announcing" \in Ending) + Out'
        <= transitions + One(pc[h] \in Ending) + Out + One(pc[h] = "minting")
  BY <1>1, <1>2, <1>3, <1>4, <1>5
<1> QED
  BY <1>1, <1>2, <1>3, <1>5, <1>6, AStepThatPays

LEMMA SettlePays ==
  ASSUME IInv, NEW h \in Handlers, Settle(h)
  PROVE  NumbersSuffice'
<1>1. /\ pc[h] = "settling" /\ pc' = [pc EXCEPT ![h] = "announcing"]
      /\ transitions' = transitions + 1 /\ slot' = slot /\ minted' = minted
  BY DEF Settle, Goes, NextWindow, code, history
<1>2. Cardinality(minted) \in Nat /\ transitions \in Nat /\ Out' = Out /\ Out \in Nat
  BY <1>1, CountOfCodes DEF Out, Empty
<1>3. One(pc[h] = "minting") = 0 /\ One(pc[h] \in Ending) = 1 /\ One("announcing" \in Ending) = 0
  BY <1>1, Strings DEF One
<1>4. transitions' + One("announcing" \in Ending) + Out'
        <= transitions + One(pc[h] \in Ending) + Out + One(pc[h] = "minting")
  BY <1>1, <1>2, <1>3
<1>5. Cardinality(minted') = Cardinality(minted) + One(pc[h] = "minting") /\ transitions' \in Nat
  BY <1>1, <1>2, <1>3
<1> QED
  BY <1>1, <1>4, <1>5, AStepThatPays

(* Whoever empties the slot owes a number; whoever is on its way keeps it. *)
LEMMA TheOthersPay ==
  ASSUME IInv, NEW h \in Handlers, NEW to, pc' = [pc EXCEPT ![h] = to], pc[h] # "minting", to # "minting",
         transitions' = transitions, minted' = minted,
         \/ slot' = slot /\ (to \in Ending => pc[h] \in Ending)
         \/ slot # Empty /\ slot' = Empty
         \/ slot' # Empty /\ slot # Empty /\ to \notin Ending
  PROVE  NumbersSuffice'
<1>1. Cardinality(minted) \in Nat /\ transitions \in Nat /\ Out \in Nat /\ Out' \in Nat
  BY CountOfCodes DEF Out
<1>2. One(pc[h] = "minting") = 0 /\ Cardinality(minted') = Cardinality(minted)
  BY DEF One
<1>3. One(to \in Ending) + Out' <= One(pc[h] \in Ending) + Out
  <2>1. CASE slot' = slot /\ (to \in Ending => pc[h] \in Ending)
    BY <1>1, <2>1 DEF One, Out, Empty
  <2>2. CASE slot # Empty /\ slot' = Empty
    BY <2>2 DEF One, Out, Empty
  <2>3. CASE slot' # Empty /\ slot # Empty /\ to \notin Ending
    BY <2>3 DEF One, Out, Empty
  <2> QED
    BY <2>1, <2>2, <2>3
<1>4. One(to \in Ending) \in Nat /\ One(pc[h] \in Ending) \in Nat
  BY DEF One
<1>5. /\ Cardinality(minted') = Cardinality(minted) + One(pc[h] = "minting")
      /\ transitions' + One(to \in Ending) + Out'
           <= transitions + One(pc[h] \in Ending) + Out + One(pc[h] = "minting")
      /\ transitions' \in Nat
  BY <1>1, <1>2, <1>3, <1>4
<1> QED
  BY <1>5, AStepThatPays

LEMMA AnswersPay ==
  ASSUME IInv, NEW h \in Handlers, Announce(h) \/ Present(h) \/ AnswerInvalid(h)
  PROVE  NumbersSuffice'
<1>1. CASE Announce(h)
  <2>1. /\ pc[h] = "announcing" /\ pc' = [pc EXCEPT ![h] = "idle"]
        /\ transitions' = transitions /\ minted' = minted /\ slot' = slot
    BY <1>1 DEF Announce, Ends, Goes, code
  <2> QED
    BY <2>1, Strings, TheOthersPay
<1>2. CASE Present(h)
  <2>1. /\ pc[h] = "idle" /\ pc' = [pc EXCEPT ![h] = "claiming"]
        /\ transitions' = transitions /\ minted' = minted /\ slot' = slot
    BY <1>2 DEF Present, Goes, code, history
  <2> QED
    BY <2>1, Strings, TheOthersPay
<1>3. CASE AnswerInvalid(h)
  <2>1. /\ pc[h] = "claiming" /\ pc' = [pc EXCEPT ![h] = "idle"]
        /\ transitions' = transitions /\ minted' = minted /\ slot' = slot
    BY <1>3 DEF AnswerInvalid, Ends, Goes, code, history
  <2> QED
    BY <2>1, Strings, TheOthersPay
<1> QED
  BY <1>1, <1>2, <1>3

LEMMA VerdictsPay ==
  ASSUME IInv, NEW h \in Handlers, Accept(h) \/ AnswerExpired(h) \/ WrongGuess(h)
  PROVE  NumbersSuffice'
<1>1. CASE Accept(h)
  <2>1. /\ pc[h] = "claiming" /\ pc' = [pc EXCEPT ![h] = "redeemed"]
        /\ transitions' = transitions /\ minted' = minted /\ slot # Empty /\ slot' = Empty
    BY <1>1 DEF Accept, Goes
  <2> QED
    BY <2>1, Strings, TheOthersPay
<1>2. CASE AnswerExpired(h)
  <2>1. /\ pc[h] = "claiming" /\ pc' = [pc EXCEPT ![h] = "settling"]
        /\ transitions' = transitions /\ minted' = minted /\ slot # Empty /\ slot' = Empty
    BY <1>2 DEF AnswerExpired, Goes
  <2> QED
    BY <2>1, Strings, TheOthersPay
<1>3. CASE WrongGuess(h)
  <2>0. pc[h] = "claiming" /\ transitions' = transitions /\ minted' = minted /\ slot # Empty
    BY <1>3 DEF WrongGuess
  <2>1. CASE slot.failures + 1 < MaxFailures
    <3>1. pc' = [pc EXCEPT ![h] = "idle"] /\ slot' = [slot EXCEPT !.failures = slot.failures + 1]
      BY <1>3, <2>1 DEF WrongGuess, Ends, Goes
    <3>2. slot \in [window : Held, failures : 0..MaxFailures - 1] /\ (slot = Empty \/ slot.window \in minted)
          /\ minted \subseteq 1..transitions /\ transitions \in Nat
      BY DEF IInv, TypeOK, SlotOK, Numbers
    <3>3. slot'.window # 0
      BY <2>0, <3>1, <3>2
    <3>4. slot' # Empty
      BY <3>3 DEF Empty
    <3> QED
      BY <2>0, <3>1, <3>4, Strings, TheOthersPay
  <2>2. CASE ~(slot.failures + 1 < MaxFailures)
    <3>1. pc' = [pc EXCEPT ![h] = "settling"] /\ slot' = Empty
      BY <1>3, <2>2 DEF WrongGuess, Goes
    <3> QED
      BY <2>0, <3>1, Strings, TheOthersPay
  <2> QED
    BY <2>1, <2>2
<1> QED
  BY <1>1, <1>2, <1>3

LEMMA ClaimsPay ==
  ASSUME IInv, NEW h \in Handlers, CreateRow(h) \/ BindPeer(h) \/ ClaimFails(h)
  PROVE  NumbersSuffice'
<1>1. CASE CreateRow(h)
  <2> DEFINE to == IF peer[h] = NoPeer THEN "settling" ELSE "binding"
  <2>1. /\ pc[h] = "redeemed" /\ pc' = [pc EXCEPT ![h] = to]
        /\ transitions' = transitions /\ minted' = minted /\ slot' = slot
    BY <1>1 DEF CreateRow, Goes, code
  <2>2. to \in Ending /\ to # "minting"
    BY DEF Ending
  <2> HIDE DEF to
  <2> QED
    BY <2>1, <2>2, Strings, TheOthersPay
<1>2. CASE BindPeer(h)
  <2>1. /\ pc[h] = "binding" /\ pc' = [pc EXCEPT ![h] = "settling"]
        /\ transitions' = transitions /\ minted' = minted /\ slot' = slot
    BY <1>2 DEF BindPeer, Goes, code, history
  <2> QED
    BY <2>1, Strings, TheOthersPay
<1>3. CASE ClaimFails(h)
  <2>1. /\ pc[h] \in {"redeemed", "binding"} /\ pc' = [pc EXCEPT ![h] = "idle"]
        /\ transitions' = transitions /\ minted' = minted /\ slot' = slot
    BY <1>3 DEF ClaimFails, Ends, Goes, code
  <2> QED
    BY <2>1, Strings, TheOthersPay
<1> QED
  BY <1>1, <1>2, <1>3

LEMMA OwningPays ==
  ASSUME IInv, NEW h \in Handlers, Authenticate(h) \/ Adopt(h)
  PROVE  NumbersSuffice'
<1>1. CASE Authenticate(h)
  <2>1. /\ pc[h] = "idle" /\ pc' = [pc EXCEPT ![h] = "adopting"]
        /\ transitions' = transitions /\ minted' = minted /\ slot' = slot
    BY <1>1 DEF Authenticate, Goes, code, history
  <2> QED
    BY <2>1, Strings, TheOthersPay
<1>2. CASE Adopt(h)
  <2>1. /\ pc[h] = "adopting" /\ pc' = [pc EXCEPT ![h] = "idle"]
        /\ transitions' = transitions /\ minted' = minted /\ slot' = slot
    BY <1>2 DEF Adopt, Ends, Goes, code, history
  <2> QED
    BY <2>1, Strings, TheOthersPay
<1> QED
  BY <1>1, <1>2

LEMMA NothingMovesNothingPays ==
  ASSUME IInv, UNCHANGED <<slot, transitions, minted, pc>>
  PROVE  NumbersSuffice'
<1>1. Minters' = Minters /\ Enders' = Enders /\ Out' = Out /\ minted' = minted /\ transitions' = transitions
  BY DEF Minters, Enders, Out, Empty
<1>2. NumbersSuffice
  BY DEF IInv
<1> QED
  BY <1>1, <1>2 DEF NumbersSuffice
---------------------------------------------------------------------------
(* The invariant is inductive.                                             *)

LEMMA Kept ==
  ASSUME TypeOK', Numbers', SlotOK', Paid', SponsorsOK', OneDevicePerCode', OneIdentityPerDevice',
         \A g \in Handlers : HandlerOK(g)', NumbersSuffice'
  PROVE  IInv'
BY DEF IInv

LEMMA IInvInitially ==
  ASSUME Init
  PROVE  IInv
<1>1. TypeOK
  <2>1. LocalTypes
    BY DEF Init, LocalTypes, Steps
  <2>2. SlotTypes
    BY Bounds DEF Init, SlotTypes
  <2>3. RowTypes
    BY DEF Init, RowTypes
  <2>4. HistoryTypes
    BY Bounds DEF Init, HistoryTypes
  <2> QED
    BY <2>1, <2>2, <2>3, <2>4, TypeParts
<1>2. Numbers /\ SlotOK /\ Paid /\ SponsorsOK /\ OneDevicePerCode /\ OneIdentityPerDevice
  BY DEF Init, Numbers, SlotOK, Paid, SponsorsOK, OneDevicePerCode, OneIdentityPerDevice
<1>3. \A h \in Handlers : HandlerOK(h)
  BY DEF Init, HandlerOK, Claimer
<1>4. NumbersSuffice
  <2>1. Minters = {} /\ Enders = {} /\ minted = {} /\ Out = 0 /\ transitions = 0
    BY DEF Init, Minters, Enders, Out
  <2>2. Cardinality({}) = 0
    BY FS_EmptySet
  <2>3. Cardinality(minted) = 0 /\ Cardinality(Minters) = 0 /\ Cardinality(Enders) = 0
    BY <2>1, <2>2
  <2> QED
    BY <2>1, <2>3, Bounds DEF NumbersSuffice
<1> QED
  BY <1>1, <1>2, <1>3, <1>4 DEF IInv

LEMMA IInvInductive ==
  ASSUME IInv, [Next]_vars
  PROVE  IInv'
<1>1. CASE UNCHANGED vars
  <2>1. UNCHANGED <<slot, transitions, minted, pc>>
    BY <1>1 DEF vars, code, local, history
  <2>2. NumbersSuffice'
    BY <2>1, NothingMovesNothingPays
  <2>3. TypeOK'
    BY <1>1, Facts DEF TypeOK, vars, code, rows, local, history
  <2>4. Numbers' /\ SlotOK' /\ Paid' /\ SponsorsOK'
    BY <1>1, Facts
      DEF Numbers, SlotOK, Paid, SponsorsOK, Sponsored, vars, code, rows, local, history
  <2>5. OneDevicePerCode' /\ OneIdentityPerDevice'
    BY <1>1, Facts DEF OneDevicePerCode, OneIdentityPerDevice, vars, rows, history
  <2>6. \A g \in Handlers : HandlerOK(g)'
    BY <1>1, Facts DEF HandlerOK, Claimer, vars, rows, local, history
  <2> QED
    BY <2>2, <2>3, <2>4, <2>5, <2>6, Kept
<1>2. CASE Expire
  <2>1. UNCHANGED <<slot, transitions, minted, pc>>
    BY <1>2 DEF Expire, local, history
  <2> QED
    BY <1>2, <2>1, NothingMovesNothingPays, ExpireIsSafe, Kept
<1>3. ASSUME NEW h \in Handlers, Minting(h) PROVE IInv'
  <2>1. CASE BeginMint(h)
    BY <2>1, AMintHasANumber, BeginMintIsSafe, Kept
  <2>2. CASE WriteSlot(h)
    BY <2>2, WriteSlotPays, WriteSlotIsSafe, Kept
  <2> QED
    BY <1>3, <2>1, <2>2 DEF Minting
<1>4. ASSUME NEW h \in Handlers, Announce(h) PROVE IInv'
  BY <1>4, AnswersPay, AnnounceIsSafe, Kept
<1>5. ASSUME NEW h \in Handlers, Claiming(h) PROVE IInv'
  <2>1. CASE Present(h)
    BY <2>1, AnswersPay, PresentIsSafe, Kept
  <2>2. CASE Accept(h)
    BY <2>2, VerdictsPay, AcceptIsSafe, Kept
  <2>3. CASE AnswerExpired(h)
    BY <2>3, VerdictsPay, AnswerExpiredIsSafe, Kept
  <2>4. CASE WrongGuess(h)
    BY <2>4, VerdictsPay, WrongGuessIsSafe, Kept
  <2>5. CASE AnswerInvalid(h)
    BY <2>5, AnswersPay, AnswerInvalidIsSafe, Kept
  <2>6. CASE CreateRow(h)
    BY <2>6, ClaimsPay, CreateRowIsSafe, Kept
  <2>7. CASE BindPeer(h)
    BY <2>7, ClaimsPay, BindPeerIsSafe, Kept
  <2>8. CASE ClaimFails(h)
    BY <2>8, ClaimsPay, ClaimFailsIsSafe, Kept
  <2>9. CASE Settle(h)
    BY <2>9, SettlePays, SettleIsSafe, Kept
  <2> QED
    BY <1>5, <2>1, <2>2, <2>3, <2>4, <2>5, <2>6, <2>7, <2>8, <2>9 DEF Claiming, Verdict
<1>6. ASSUME NEW h \in Handlers, Owning(h) PROVE IInv'
  <2>1. CASE Authenticate(h)
    BY <2>1, OwningPays, AuthenticateIsSafe, Kept
  <2>2. CASE Adopt(h)
    BY <2>2, OwningPays, AdoptIsSafe, Kept
  <2>3. CASE DeleteRow(h)
    <3>1. UNCHANGED <<slot, transitions, minted, pc>>
      BY <2>3 DEF DeleteRow, code, local, history
    <3> QED
      BY <2>3, <3>1, NothingMovesNothingPays, DeleteRowIsSafe, Kept
  <2> QED
    BY <1>6, <2>1, <2>2, <2>3 DEF Owning
<1> QED
  BY <1>1, <1>2, <1>3, <1>4, <1>5, <1>6 DEF Next

(* The inductive invariant, of which the others are consequences.          *)
THEOREM InvariantHolds == Spec => []IInv
BY IInvInitially, IInvInductive, PTL DEF Spec

(* Whatever the handlers do, every state is well typed: a handler's window *)
(* never runs out of numbers, a code's wrong guesses stop at the limit.    *)
THEOREM TypeCorrect == Spec => []TypeOK
<1>1. IInv => TypeOK
  BY DEF IInv
<1> QED
  BY <1>1, InvariantHolds, PTL

(* A phone is one device by one code and one identity, however many mints, *)
(* claims and adoptions interleave, and every device descends from the     *)
(* owner through codes shown to devices that were paid for before.         *)
THEOREM DevicesStayOneToOne == Spec => []DevicesAreOneToOne
<1>1. IInv => DevicesAreOneToOne
  <2> SUFFICES ASSUME IInv PROVE DescendsFromOwner
    BY DEF DevicesAreOneToOne, IInv
  <2> SUFFICES ASSUME NEW d \in Devices, price[d] # 0, sponsor[price[d]] # Owner
               PROVE  sponsor[price[d]] \in Devices /\ price[sponsor[price[d]]] \in 1..price[d] - 1
    BY DEF DescendsFromOwner
  <2>1. price[d] \in minted
    BY DEF IInv, OneDevicePerCode, Numbers
  <2>2. Sponsored(price[d])
    BY <2>1 DEF IInv, SponsorsOK
  <2> QED
    BY <2>2 DEF Sponsored
<1> QED
  BY <1>1, InvariantHolds, PTL

(* Every end of a window has a handler that still has to tell of it.       *)
THEOREM EndsStayAnnounced == Spec => []EndsAreAnnounced
<1> DEFINE Busy == {"announcing", "redeemed", "binding", "settling"}
<1> DEFINE OInv == pc \in [Handlers -> Steps] /\ owing \subseteq Handlers /\ EndsAreAnnounced
<1>1. Init => OInv
  BY DEF Init, EndsAreAnnounced, Steps
<1>2. OInv /\ [Next]_vars => OInv'
  <2> SUFFICES ASSUME OInv, [Next]_vars PROVE OInv'
    OBVIOUS
  <2>1. CASE UNCHANGED vars
    BY <2>1 DEF EndsAreAnnounced, vars, local, history
  <2>2. CASE Expire
    BY <2>2 DEF EndsAreAnnounced, Expire, local, history
  <2>3. ASSUME NEW h \in Handlers, Minting(h) PROVE OInv'
    BY <2>3 DEF EndsAreAnnounced, Minting, BeginMint, WriteSlot, Goes, Steps
  <2>4. ASSUME NEW h \in Handlers, Announce(h) PROVE OInv'
    BY <2>4 DEF EndsAreAnnounced, Announce, Ends, Goes, Steps
  <2>5. ASSUME NEW h \in Handlers, Present(h) \/ Accept(h) \/ AnswerExpired(h) \/ AnswerInvalid(h) PROVE OInv'
    BY <2>5
      DEF EndsAreAnnounced, Present, Accept, AnswerExpired, AnswerInvalid, Ends, Goes, Steps,
          history
  <2>6. ASSUME NEW h \in Handlers, WrongGuess(h) PROVE OInv'
    BY <2>6 DEF EndsAreAnnounced, WrongGuess, Ends, Goes, Steps
  <2>7. ASSUME NEW h \in Handlers, CreateRow(h) \/ BindPeer(h) \/ ClaimFails(h) \/ Settle(h) PROVE OInv'
    BY <2>7
      DEF EndsAreAnnounced, CreateRow, BindPeer, ClaimFails, Settle, Ends, Goes, Steps, history
  <2>8. ASSUME NEW h \in Handlers, Owning(h) PROVE OInv'
    BY <2>8
      DEF EndsAreAnnounced, Owning, Authenticate, Adopt, DeleteRow, Ends, Goes, Steps, local,
          history
  <2> QED
    BY <2>1, <2>2, <2>3, <2>4, <2>5, <2>6, <2>7, <2>8 DEF Next, Claiming, Verdict
<1>3. OInv => EndsAreAnnounced
  OBVIOUS
<1> QED
  BY <1>1, <1>2, <1>3, PTL DEF Spec
---------------------------------------------------------------------------
(* Codes are used once.                                                    *)

Life == [c \in Windows |-> LifeOf(c)]

LEMMA LivesOfCodes ==
  ASSUME IInv
  PROVE  /\ \A c \in Windows : Life[c] = LifeOf(c)
         /\ slot.window \notin sold
         /\ slot.window \notin Windows \/ slot.window \in minted
         /\ \A c \in minted : c \in Windows /\ c # 0
         /\ sold \subseteq minted /\ guesses \in [Windows -> 0..MaxFailures]
<1>1. \A c \in minted : c \in Windows /\ c # 0
  BY Bounds DEF IInv, SponsorsOK, Sponsored
<1>2. slot.window = 0 \/ slot.window \in minted \ sold
  BY DEF IInv, SlotOK, Empty
<1>3. 0 \notin Windows
  BY Bounds
<1> QED
  BY <1>1, <1>2, <1>3 DEF Life, IInv, TypeOK

LEMMA WriteSlotIssues ==
  ASSUME IInv, NEW h \in Handlers, WriteSlot(h)
  PROVE  held[h] \in Windows /\ Codes!Issue(held[h])
<1> DEFINE c == held[h]
<1>1. c \in Windows /\ c \notin minted /\ c \notin sold
  BY DEF IInv, SponsorsOK, Sponsored, WriteSlot, Numbers
<1>2. slot'.window = c /\ minted' = minted \cup {c} /\ sold' = sold /\ guesses' = guesses
  BY DEF WriteSlot
<1> HIDE DEF c
<1>3. LifeOf(c) = "unborn"
  BY <1>1, LivesOfCodes DEF LifeOf
<1>4. ASSUME NEW x \in Windows
      PROVE  LifeOf(x)' = IF x = c THEN "live" ELSE IF LifeOf(x) = "live" THEN "dead" ELSE LifeOf(x)
  <2>1. CASE x = c
    BY <1>1, <1>2, <2>1 DEF LifeOf
  <2>2. CASE x # c
    BY <1>2, <2>2, LivesOfCodes DEF LifeOf
  <2> QED
    BY <2>1, <2>2
<1> QED
  BY <1>1, <1>2, <1>3, <1>4 DEF Codes!Issue, c

(* A code leaves the slot, or stays in it: the others stay what they were. *)
LEMMA OneCodeChanges ==
  ASSUME IInv, slot # Empty, minted' = minted,
         NEW to \in {"used", "dead", "live"},
         IF to = "live" THEN slot'.window = slot.window ELSE slot' = Empty,
         IF to = "used" THEN sold' = sold \cup {slot.window} ELSE sold' = sold
  PROVE  /\ slot.window \in Windows /\ Life[slot.window] = "live"
         /\ Life' = [Life EXCEPT ![slot.window] = to]
<1>1. slot.window \in minted \ sold /\ slot.window \in Windows
  BY LivesOfCodes DEF IInv, SlotOK
<1>2. LifeOf(slot.window) = "live"
  BY <1>1 DEF LifeOf
<1>3. ASSUME NEW x \in Windows PROVE LifeOf(x)' = IF x = slot.window THEN to ELSE LifeOf(x)
  <2>1. x # 0 /\ Empty.window = 0
    BY Bounds
  <2> QED
    BY <1>1, <2>1 DEF LifeOf
<1>4. Life' = [x \in Windows |-> LifeOf(x)']
  BY DEF Life, Windows
<1> QED
  BY <1>1, <1>2, <1>3, <1>4 DEF Life

LEMMA AcceptBuys ==
  ASSUME IInv, NEW h \in Handlers, Accept(h)
  PROVE  slot.window \in Windows /\ Codes!Buy(slot.window)
<1>1. /\ slot # Empty /\ minted' = minted /\ slot' = Empty
      /\ sold' = sold \cup {slot.window} /\ guesses' = guesses
  BY DEF Accept
<1>2. /\ slot.window \in Windows /\ Life[slot.window] = "live"
      /\ Life' = [Life EXCEPT ![slot.window] = "used"]
  BY <1>1, OneCodeChanges
<1> QED
  BY <1>1, <1>2 DEF Codes!Buy, Life

LEMMA AnswerExpiredLapses ==
  ASSUME IInv, NEW h \in Handlers, AnswerExpired(h)
  PROVE  slot.window \in Windows /\ Codes!Lapse(slot.window)
<1>1. slot # Empty /\ minted' = minted /\ slot' = Empty /\ sold' = sold /\ guesses' = guesses
  BY DEF AnswerExpired
<1>2. /\ slot.window \in Windows /\ Life[slot.window] = "live"
      /\ Life' = [Life EXCEPT ![slot.window] = "dead"]
  BY <1>1, OneCodeChanges
<1> QED
  BY <1>1, <1>2 DEF Codes!Lapse, Life

LEMMA WrongGuessIsCharged ==
  ASSUME IInv, NEW h \in Handlers, WrongGuess(h)
  PROVE  slot.window \in Windows /\ Codes!Guess(slot.window)
<1> DEFINE w == slot.window
<1>1. /\ slot # Empty /\ minted' = minted /\ sold' = sold
      /\ guesses' = [guesses EXCEPT ![w] = guesses[w] + 1]
  BY DEF WrongGuess
<1>2. guesses[w] = slot.failures /\ slot.failures \in 0..MaxFailures - 1
  BY <1>1 DEF IInv, SlotOK, TypeOK
<1>3. guesses[w] < MaxFailures
  BY <1>2, Bounds
<1>4. CASE slot.failures + 1 < MaxFailures
  <2>1. slot' = [slot EXCEPT !.failures = slot.failures + 1]
    BY <1>4 DEF WrongGuess
  <2>2. slot'.window = w
    BY <2>1 DEF IInv, TypeOK
  <2>3. w \in Windows /\ Life[w] = "live" /\ Life' = [Life EXCEPT ![w] = "live"]
    BY <1>1, <2>2, OneCodeChanges
  <2>4. guesses[w] + 1 # MaxFailures
    BY <1>2, <1>4, Bounds
  <2> QED
    BY <1>1, <1>3, <2>3, <2>4 DEF Codes!Guess, Life
<1>5. CASE ~(slot.failures + 1 < MaxFailures)
  <2>1. slot' = Empty
    BY <1>5 DEF WrongGuess
  <2>2. w \in Windows /\ Life[w] = "live" /\ Life' = [Life EXCEPT ![w] = "dead"]
    BY <1>1, <2>1, OneCodeChanges
  <2>3. guesses[w] + 1 = MaxFailures
    BY <1>2, <1>5, Bounds
  <2> QED
    BY <1>1, <1>3, <2>2, <2>3 DEF Codes!Guess, Life
<1> QED
  BY <1>4, <1>5

LEMMA TheOthersStutter ==
  ASSUME slot' = slot, minted' = minted, sold' = sold, guesses' = guesses
  PROVE  UNCHANGED <<[c \in Windows |-> LifeOf(c)], guesses>>
BY DEF LifeOf, Windows

(* However mints and claims interleave, a code is out alone, buys one      *)
(* device, and is dead after its last wrong guess.                         *)
THEOREM CodesStayOneTime == Spec => CodesAreOneTime
<1>1. Init => Codes!Init
  BY Bounds DEF Init, Codes!Init, LifeOf, Empty
<1>2. IInv /\ [Next]_vars => [Codes!Next]_<<[c \in Windows |-> LifeOf(c)], guesses>>
  <2> SUFFICES ASSUME IInv, [Next]_vars
               PROVE  Codes!Next \/ UNCHANGED <<[c \in Windows |-> LifeOf(c)], guesses>>
    OBVIOUS
  <2>1. CASE UNCHANGED vars
    BY <2>1, TheOthersStutter DEF vars, code, history
  <2>2. CASE Expire
    BY <2>2, TheOthersStutter DEF Expire, history
  <2>3. ASSUME NEW h \in Handlers, WriteSlot(h) PROVE Codes!Next
    BY <2>3, WriteSlotIssues DEF Codes!Next
  <2>4. ASSUME NEW h \in Handlers, Accept(h) PROVE Codes!Next
    BY <2>4, AcceptBuys DEF Codes!Next
  <2>5. ASSUME NEW h \in Handlers, AnswerExpired(h) PROVE Codes!Next
    BY <2>5, AnswerExpiredLapses DEF Codes!Next
  <2>6. ASSUME NEW h \in Handlers, WrongGuess(h) PROVE Codes!Next
    BY <2>6, WrongGuessIsCharged DEF Codes!Next
  <2>7. ASSUME NEW h \in Handlers, BeginMint(h) \/ Announce(h) \/ Present(h) \/ AnswerInvalid(h)
        PROVE  UNCHANGED <<[c \in Windows |-> LifeOf(c)], guesses>>
    BY <2>7, TheOthersStutter DEF BeginMint, Announce, Present, AnswerInvalid, code, history
  <2>8. ASSUME NEW h \in Handlers, CreateRow(h) \/ BindPeer(h) \/ ClaimFails(h) \/ Settle(h)
        PROVE  UNCHANGED <<[c \in Windows |-> LifeOf(c)], guesses>>
    BY <2>8, TheOthersStutter DEF CreateRow, BindPeer, ClaimFails, Settle, code, history
  <2>9. ASSUME NEW h \in Handlers, Owning(h)
        PROVE  UNCHANGED <<[c \in Windows |-> LifeOf(c)], guesses>>
    BY <2>9, TheOthersStutter DEF Owning, Authenticate, Adopt, DeleteRow, code, history
  <2> QED
    BY <2>1, <2>2, <2>3, <2>4, <2>5, <2>6, <2>7, <2>8, <2>9
      DEF Next, Minting, Claiming, Verdict
<1> QED
  BY <1>1, <1>2, InvariantHolds, PTL DEF Spec, CodesAreOneTime, Codes!Spec
=============================================================================
