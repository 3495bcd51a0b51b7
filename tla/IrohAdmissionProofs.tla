------------------------ MODULE IrohAdmissionProofs ------------------------
(***************************************************************************)
(* Proofs about IrohAdmission, for any number of connections, peers and    *)
(* windows and any caps.                                                   *)
(***************************************************************************)
EXTENDS IrohAdmission, FiniteSetTheorems, TLAPS

(* A connection has an admission from the moment it is let in as a         *)
(* stranger until it is gone; one of a paired phone never has.             *)
Stations ==
  \A c \in Conns :
    /\ stage[c] \in {"off", "looked", "admitted", "counted", "serving", "closed"} =>
         admission[c] = 0
    /\ stage[c] \in {"entering", "knocking"} => admission[c] # 0
    /\ clock[c] => admission[c] # 0

(* The two parts of SlotsAreReturned: the count and the ledger.            *)
Served ==
  {c \in Conns : admission[c] = 0 /\ stage[c] \in {"counted", "serving", "draining"}}

Counted == count = Cardinality(Served)

Listed ==
  /\ ledger \subseteq {c \in Conns : admission[c] # 0 /\ stage[c] \in {"knocking", "draining"}}
  /\ \A c \in Conns : stage[c] = "knocking" => c \in ledger

(* Whatever could wake the reaper disturbs the claims it falls into.       *)
Undisturbed ==
  \A c \in Conns : claim[c] # "none" => c \in disturbed \/ (~news /\ reaper = "waiting")

IInv == TypeOK /\ Stations /\ SlotsAreReturned /\ RevokedConnectionsHear /\ Undisturbed
---------------------------------------------------------------------------
LEMMA SlotsAreCountedAndListed == SlotsAreReturned <=> Counted /\ Listed
BY DEF SlotsAreReturned, Counted, Listed, Served

(* The types in three parts.                                               *)
OutsideTypes ==
  /\ opened \in Nat /\ slot \in 0..opened /\ lapsed \in 0..opened
  /\ written \in Nat /\ paired \subseteq 1..written /\ telling \subseteq 1..written
  /\ bound \in [Peers -> paired \cup {0}]
  /\ target \in [Conns -> 0..written] /\ watch \in [Conns -> 0..written]
  /\ signalled \subseteq Conns /\ late \subseteq Conns
ConnTypes ==
  /\ stage \in [Conns -> Stages] /\ known \in [Conns -> BOOLEAN]
  /\ admission \in [Conns -> {Adoption} \cup 0..opened]
  /\ ledger \subseteq Conns /\ count \in Nat
  /\ clock \in [Conns -> BOOLEAN]
  /\ \A c \in ledger : admission[c] # 0
InsideTypes ==
  /\ claim \in [Conns -> {"none", "redeemed", "written", "bound"}]
  /\ device \in [Conns -> 0..written]
  /\ reaper \in {"arming", "waiting", "woken", "reaping"}
  /\ armed \in 0..opened /\ seen \in 0..opened
  /\ news \in BOOLEAN /\ disturbed \subseteq Conns /\ raced \subseteq Conns

(* What an identity is bound to is the number of a device, or none.        *)
LEMMA OneOfMany ==
  ASSUME NEW n \in Nat, NEW S, S \subseteq 1..n, NEW x \in S \cup {0}
  PROVE  x \in 0..n
<1>1. x \in S => x \in 1..n
  OBVIOUS
<1> QED
  BY <1>1

LEMMA TypeParts == TypeOK <=> OutsideTypes /\ ConnTypes /\ InsideTypes
BY DEF TypeOK, OutsideTypes, ConnTypes, InsideTypes

LEMMA InitIsSafe == Init => IInv
<1> SUFFICES ASSUME Init PROVE IInv
  OBVIOUS
<1>1. OutsideTypes
  BY DEF Init, OutsideTypes
<1>2. ConnTypes
  BY DEF Init, ConnTypes, Stages, Adoption
<1>3. InsideTypes
  <2>1. news \in BOOLEAN
    BY DEF Init
  <2> QED
    BY <2>1 DEF Init, InsideTypes
<1>4. Stations /\ RevokedConnectionsHear /\ Undisturbed
  BY DEF Init, Stations, RevokedConnectionsHear, Undisturbed
<1>5. Counted
  <2>1. Served = {}
    BY DEF Init, Served
  <2> QED
    BY <2>1, FS_EmptySet DEF Init, Counted
<1>6. Listed
  BY DEF Init, Listed
<1> QED
  BY <1>1, <1>2, <1>3, <1>4, <1>5, <1>6, TypeParts, SlotsAreCountedAndListed DEF IInv

(* Each part is kept by every step, given the types and the parts it needs.*)

LEMMA StationsAreKept ==
  ASSUME TypeOK, Stations, [Next]_vars
  PROVE  Stations'
<1>1. CASE Mint
  BY <1>1 DEF Stations, Mint, conn
<1>2. CASE EndElsewhere
  BY <1>2 DEF Stations, EndElsewhere, conn
<1>3. CASE Lapse
  BY <1>3 DEF Stations, Lapse, conn
<1>4. CASE Arm
  BY <1>4 DEF Stations, Arm, conn
<1>5. CASE WakeByNews
  BY <1>5 DEF Stations, WakeByNews, conn
<1>6. CASE WakeByDeadline
  BY <1>6 DEF Stations, WakeByDeadline, conn
<1>7. CASE ReadLive
  BY <1>7 DEF Stations, ReadLive, conn
<1>8. CASE Reap
  BY <1>8 DEF Stations, Reap
<1>9. ASSUME NEW d \in 1..written, DeleteRow(d) PROVE Stations'
  BY <1>9 DEF Stations, DeleteRow, conn
<1>10. ASSUME NEW d \in 1..written, Disconnect(d) PROVE Stations'
  BY <1>10 DEF Stations, Disconnect, conn
<1>11. ASSUME NEW c \in Conns, Accept(c) PROVE Stations'
  BY <1>11 DEF TypeOK, Stations, Accept, Moves
<1>12. ASSUME NEW c \in Conns, Redeem(c) PROVE Stations'
  BY <1>12 DEF Stations, Redeem, conn
<1>13. ASSUME NEW c \in Conns, CreateRow(c) PROVE Stations'
  BY <1>13 DEF Stations, CreateRow, conn
<1>14. ASSUME NEW c \in Conns, BindPeer(c) PROVE Stations'
  BY <1>14 DEF Stations, BindPeer, conn
<1>15. ASSUME NEW c \in Conns, BindFails(c) PROVE Stations'
  BY <1>15 DEF Stations, BindFails, conn
<1>16. ASSUME NEW c \in Conns, Settle(c) PROVE Stations'
  BY <1>16 DEF Stations, Settle, conn
<1>17. ASSUME NEW c \in Conns, Adopt(c) PROVE Stations'
  BY <1>17 DEF Stations, Adopt, conn
<1>18. ASSUME NEW c \in Conns, Admit(c) PROVE Stations'
  BY <1>18
     DEF TypeOK, Stations, Admit, Adoption, AdmitBound, AdmitWindow, AdmitAdoption, Refuse, Moves
<1>19. ASSUME NEW c \in Conns, ServeBound(c) PROVE Stations'
  BY <1>19 DEF Stations, ServeBound, Moves
<1>20. ASSUME NEW c \in Conns, WatchDevice(c) PROVE Stations'
  BY <1>20 DEF Stations, WatchDevice, Moves
<1>21. ASSUME NEW c \in Conns, ServeUnbound(c) PROVE Stations'
  BY <1>21 DEF Stations, ServeUnbound, Moves
<1>22. ASSUME NEW c \in Conns, HangUp(c) PROVE Stations'
  BY <1>22 DEF Stations, HangUp, Moves
<1>23. ASSUME NEW c \in Conns, HearRevocation(c) PROVE Stations'
  BY <1>23 DEF Stations, HearRevocation, Moves
<1>24. ASSUME NEW c \in Conns, Finish(c) PROVE Stations'
  BY <1>24 DEF TypeOK, Stations, Finish, Moves, Forget
<1>25. ASSUME NEW c \in Conns, Lifetime(c) PROVE Stations'
  BY <1>25 DEF TypeOK, Stations, Lifetime, Moves, Forget
<1>26. CASE UNCHANGED vars
  BY <1>26 DEF Stations, vars, conn
<1> QED
  BY <1>1, <1>2, <1>3, <1>4, <1>5, <1>6, <1>7, <1>8, <1>9, <1>10, <1>11, <1>12, <1>13, <1>14,
     <1>15, <1>16, <1>17, <1>18, <1>19, <1>20, <1>21, <1>22, <1>23, <1>24, <1>25, <1>26
     DEF Next, Reaping, Claims, Admits, Ends

LEMMA LedgerIsKept ==
  ASSUME TypeOK, Stations, Listed, [Next]_vars
  PROVE  Listed'
<1>1. CASE Mint
  BY <1>1 DEF Listed, Mint, conn
<1>2. CASE EndElsewhere
  BY <1>2 DEF Listed, EndElsewhere, conn
<1>3. CASE Lapse
  BY <1>3 DEF Listed, Lapse, conn
<1>4. CASE Arm
  BY <1>4 DEF Listed, Arm, conn
<1>5. CASE WakeByNews
  BY <1>5 DEF Listed, WakeByNews, conn
<1>6. CASE WakeByDeadline
  BY <1>6 DEF Listed, WakeByDeadline, conn
<1>7. CASE ReadLive
  BY <1>7 DEF Listed, ReadLive, conn
<1>8. CASE Reap
  BY <1>8 DEF Listed, Reap
<1>9. ASSUME NEW d \in 1..written, DeleteRow(d) PROVE Listed'
  BY <1>9 DEF Listed, DeleteRow, conn
<1>10. ASSUME NEW d \in 1..written, Disconnect(d) PROVE Listed'
  BY <1>10 DEF Listed, Disconnect, conn
<1>11. ASSUME NEW c \in Conns, Accept(c) PROVE Listed'
  BY <1>11 DEF TypeOK, Listed, Accept, Moves
<1>12. ASSUME NEW c \in Conns, Redeem(c) PROVE Listed'
  BY <1>12 DEF Listed, Redeem, conn
<1>13. ASSUME NEW c \in Conns, CreateRow(c) PROVE Listed'
  BY <1>13 DEF Listed, CreateRow, conn
<1>14. ASSUME NEW c \in Conns, BindPeer(c) PROVE Listed'
  BY <1>14 DEF Listed, BindPeer, conn
<1>15. ASSUME NEW c \in Conns, BindFails(c) PROVE Listed'
  BY <1>15 DEF Listed, BindFails, conn
<1>16. ASSUME NEW c \in Conns, Settle(c) PROVE Listed'
  BY <1>16 DEF Listed, Settle, conn
<1>17. ASSUME NEW c \in Conns, Adopt(c) PROVE Listed'
  BY <1>17 DEF Listed, Adopt, conn
<1>18. ASSUME NEW c \in Conns, Admit(c) PROVE Listed'
  BY <1>18
     DEF TypeOK, Listed, Admit, AdmitBound, AdmitWindow, AdmitAdoption, Refuse, Moves
<1>19. ASSUME NEW c \in Conns, ServeBound(c) PROVE Listed'
  BY <1>19 DEF Listed, ServeBound, Moves
<1>20. ASSUME NEW c \in Conns, WatchDevice(c) PROVE Listed'
  BY <1>20 DEF Listed, WatchDevice, Moves
<1>21. ASSUME NEW c \in Conns, ServeUnbound(c) PROVE Listed'
  BY <1>21 DEF TypeOK, Stations, Listed, ServeUnbound, Moves
<1>22. ASSUME NEW c \in Conns, HangUp(c) PROVE Listed'
  BY <1>22 DEF Listed, HangUp, Moves
<1>23. ASSUME NEW c \in Conns, HearRevocation(c) PROVE Listed'
  BY <1>23 DEF Listed, HearRevocation, Moves
<1>24. ASSUME NEW c \in Conns, Finish(c) PROVE Listed'
  BY <1>24 DEF Listed, Finish, Moves, Forget
<1>25. ASSUME NEW c \in Conns, Lifetime(c) PROVE Listed'
  BY <1>25 DEF TypeOK, Listed, Lifetime, Moves, Forget
<1>26. CASE UNCHANGED vars
  BY <1>26 DEF Listed, vars, conn
<1> QED
  BY <1>1, <1>2, <1>3, <1>4, <1>5, <1>6, <1>7, <1>8, <1>9, <1>10, <1>11, <1>12, <1>13, <1>14,
     <1>15, <1>16, <1>17, <1>18, <1>19, <1>20, <1>21, <1>22, <1>23, <1>24, <1>25, <1>26
     DEF Next, Reaping, Claims, Admits, Ends

LEMMA ServedIsFinite == IsFiniteSet(Served) /\ Cardinality(Served) \in Nat
<1>1. Served \in SUBSET Conns /\ IsFiniteSet(Conns)
  BY AdmissionAssumption DEF Served
<1> QED
  BY <1>1, FS_Subset, FS_CardinalityType

(* Only two steps move the count, each by the connection that moves.       *)
Level == count' = count /\ Served' = Served

LEMMA CountIsKept ==
  ASSUME TypeOK, Stations, Listed, Counted, [Next]_vars
  PROVE  Counted'
<1>1. ASSUME Mint PROVE Level
  BY <1>1 DEF Level, Served, Mint, conn
<1>2. ASSUME EndElsewhere PROVE Level
  BY <1>2 DEF Level, Served, EndElsewhere, conn
<1>3. ASSUME Lapse PROVE Level
  BY <1>3 DEF Level, Served, Lapse, conn
<1>4. ASSUME Arm PROVE Level
  BY <1>4 DEF Level, Served, Arm, conn
<1>5. ASSUME WakeByNews PROVE Level
  BY <1>5 DEF Level, Served, WakeByNews, conn
<1>6. ASSUME WakeByDeadline PROVE Level
  BY <1>6 DEF Level, Served, WakeByDeadline, conn
<1>7. ASSUME ReadLive PROVE Level
  BY <1>7 DEF Level, Served, ReadLive, conn
<1>8. ASSUME Reap PROVE Level
  BY <1>8 DEF TypeOK, Level, Served, Reap
<1>9. ASSUME NEW d \in 1..written, DeleteRow(d) PROVE Level
  BY <1>9 DEF Level, Served, DeleteRow, conn
<1>10. ASSUME NEW d \in 1..written, Disconnect(d) PROVE Level
  BY <1>10 DEF Level, Served, Disconnect, conn
<1>11. ASSUME NEW c \in Conns, Accept(c) PROVE Level
  BY <1>11 DEF TypeOK, Level, Served, Accept, Moves
<1>12. ASSUME NEW c \in Conns, Redeem(c) PROVE Level
  BY <1>12 DEF Level, Served, Redeem, conn
<1>13. ASSUME NEW c \in Conns, CreateRow(c) PROVE Level
  BY <1>13 DEF Level, Served, CreateRow, conn
<1>14. ASSUME NEW c \in Conns, BindPeer(c) PROVE Level
  BY <1>14 DEF Level, Served, BindPeer, conn
<1>15. ASSUME NEW c \in Conns, BindFails(c) PROVE Level
  BY <1>15 DEF Level, Served, BindFails, conn
<1>16. ASSUME NEW c \in Conns, Settle(c) PROVE Level
  BY <1>16 DEF Level, Served, Settle, conn
<1>17. ASSUME NEW c \in Conns, Adopt(c) PROVE Level
  BY <1>17 DEF Level, Served, Adopt, conn
<1>18. ASSUME NEW c \in Conns, Admit(c) PROVE Level
  BY <1>18
     DEF TypeOK, Level, Served, Admit, AdmitBound, AdmitWindow, AdmitAdoption, Refuse, Moves
<1>19. ASSUME NEW c \in Conns, ServeBound(c) PROVE Counted'
  <2>1. Served' = Served \cup {c} /\ c \notin Served
    BY <1>19 DEF TypeOK, Stations, Served, ServeBound, Moves
  <2>2. Cardinality(Served') = Cardinality(Served) + 1
    BY <2>1, ServedIsFinite, FS_AddElement
  <2> QED
    BY <1>19, <2>2 DEF ServeBound, Counted
<1>20. ASSUME NEW c \in Conns, WatchDevice(c) PROVE Level
  BY <1>20 DEF Level, Served, WatchDevice, Moves
<1>21. ASSUME NEW c \in Conns, ServeUnbound(c) PROVE Level
  BY <1>21 DEF Level, Served, ServeUnbound, Moves
<1>22. ASSUME NEW c \in Conns, HangUp(c) PROVE Level
  BY <1>22 DEF Stations, Level, Served, HangUp, Moves
<1>23. ASSUME NEW c \in Conns, HearRevocation(c) PROVE Level
  BY <1>23 DEF Level, Served, HearRevocation, Moves
<1>24. ASSUME NEW c \in Conns, Finish(c) PROVE Counted'
  <2>1. CASE admission[c] = 0
    <3>1. Served' = Served \ {c} /\ c \in Served /\ count' = count - 1
      BY <1>24, <2>1 DEF TypeOK, Served, Finish, Moves, Forget
    <3>2. Cardinality(Served') = Cardinality(Served) - 1
      BY <3>1, ServedIsFinite, FS_RemoveElement
    <3> QED
      BY <3>1, <3>2 DEF Counted
  <2>2. CASE admission[c] # 0
    <3>1. Served' = Served /\ count' = count
      BY <1>24, <2>2 DEF TypeOK, Served, Finish, Moves, Forget
    <3> QED
      BY <3>1 DEF Counted
  <2> QED
    BY <2>1, <2>2
<1>25. ASSUME NEW c \in Conns, Lifetime(c) PROVE Level
  BY <1>25 DEF TypeOK, Stations, Level, Served, Lifetime, Moves, Forget
<1>26. ASSUME UNCHANGED vars PROVE Level
  BY <1>26 DEF Level, Served, vars, conn
<1> QED
  BY <1>1, <1>2, <1>3, <1>4, <1>5, <1>6, <1>7, <1>8, <1>9, <1>10, <1>11, <1>12, <1>13, <1>14,
     <1>15, <1>16, <1>17, <1>18, <1>19, <1>20, <1>21, <1>22, <1>23, <1>24, <1>25, <1>26
     DEF Next, Reaping, Claims, Admits, Ends, Level, Counted

LEMMA RevocationsAreHeard ==
  ASSUME TypeOK, RevokedConnectionsHear, [Next]_vars
  PROVE  RevokedConnectionsHear'
<1>1. CASE Mint
  BY <1>1 DEF RevokedConnectionsHear, Mint, devices, watches
<1>2. CASE EndElsewhere
  BY <1>2 DEF RevokedConnectionsHear, EndElsewhere, devices, watches
<1>3. CASE Lapse
  BY <1>3 DEF RevokedConnectionsHear, Lapse, devices, watches
<1>4. CASE Arm
  BY <1>4 DEF RevokedConnectionsHear, Arm, devices, watches
<1>5. CASE WakeByNews
  BY <1>5 DEF RevokedConnectionsHear, WakeByNews, devices, watches
<1>6. CASE WakeByDeadline
  BY <1>6 DEF RevokedConnectionsHear, WakeByDeadline, devices, watches
<1>7. CASE ReadLive
  BY <1>7 DEF RevokedConnectionsHear, ReadLive, devices, watches
<1>8. CASE Reap
  BY <1>8 DEF RevokedConnectionsHear, Reap, devices, watches
<1>9. ASSUME NEW d \in 1..written, DeleteRow(d) PROVE RevokedConnectionsHear'
  BY <1>9 DEF RevokedConnectionsHear, DeleteRow, watches
<1>10. ASSUME NEW d \in 1..written, Disconnect(d) PROVE RevokedConnectionsHear'
  BY <1>10 DEF RevokedConnectionsHear, Disconnect
<1>11. ASSUME NEW c \in Conns, Accept(c) PROVE RevokedConnectionsHear'
  BY <1>11 DEF RevokedConnectionsHear, Accept, devices, watches
<1>12. ASSUME NEW c \in Conns, Redeem(c) PROVE RevokedConnectionsHear'
  BY <1>12 DEF RevokedConnectionsHear, Redeem, devices, watches
<1>13. ASSUME NEW c \in Conns, CreateRow(c) PROVE RevokedConnectionsHear'
  BY <1>13 DEF RevokedConnectionsHear, CreateRow, watches
<1>14. ASSUME NEW c \in Conns, BindPeer(c) PROVE RevokedConnectionsHear'
  BY <1>14 DEF RevokedConnectionsHear, BindPeer, watches
<1>15. ASSUME NEW c \in Conns, BindFails(c) PROVE RevokedConnectionsHear'
  BY <1>15 DEF RevokedConnectionsHear, BindFails, devices, watches
<1>16. ASSUME NEW c \in Conns, Settle(c) PROVE RevokedConnectionsHear'
  BY <1>16 DEF RevokedConnectionsHear, Settle, devices, watches
<1>17. ASSUME NEW c \in Conns, Adopt(c) PROVE RevokedConnectionsHear'
  BY <1>17 DEF RevokedConnectionsHear, Adopt, watches
<1>18. ASSUME NEW c \in Conns, Admit(c) PROVE RevokedConnectionsHear'
  BY <1>18 DEF RevokedConnectionsHear, Admit, devices, watches
<1>19. ASSUME NEW c \in Conns, ServeBound(c) PROVE RevokedConnectionsHear'
  BY <1>19 DEF RevokedConnectionsHear, ServeBound, devices
<1>20. ASSUME NEW c \in Conns, WatchDevice(c) PROVE RevokedConnectionsHear'
  BY <1>20 DEF RevokedConnectionsHear, WatchDevice, devices
<1>21. ASSUME NEW c \in Conns, ServeUnbound(c) PROVE RevokedConnectionsHear'
  BY <1>21 DEF RevokedConnectionsHear, ServeUnbound, devices, watches
<1>22. ASSUME NEW c \in Conns, HangUp(c) PROVE RevokedConnectionsHear'
  BY <1>22 DEF RevokedConnectionsHear, HangUp, devices, watches
<1>23. ASSUME NEW c \in Conns, HearRevocation(c) PROVE RevokedConnectionsHear'
  BY <1>23 DEF RevokedConnectionsHear, HearRevocation, devices, watches
<1>24. ASSUME NEW c \in Conns, Finish(c) PROVE RevokedConnectionsHear'
  BY <1>24 DEF TypeOK, RevokedConnectionsHear, Finish, devices
<1>25. ASSUME NEW c \in Conns, Lifetime(c) PROVE RevokedConnectionsHear'
  BY <1>25 DEF RevokedConnectionsHear, Lifetime, devices, watches
<1>26. CASE UNCHANGED vars
  BY <1>26 DEF RevokedConnectionsHear, vars, devices, watches
<1> QED
  BY <1>1, <1>2, <1>3, <1>4, <1>5, <1>6, <1>7, <1>8, <1>9, <1>10, <1>11, <1>12, <1>13, <1>14,
     <1>15, <1>16, <1>17, <1>18, <1>19, <1>20, <1>21, <1>22, <1>23, <1>24, <1>25, <1>26
     DEF Next, Reaping, Claims, Admits, Ends

LEMMA ClaimsAreDisturbed ==
  ASSUME TypeOK, Undisturbed, [Next]_vars
  PROVE  Undisturbed'
<1>1. CASE Mint
  BY <1>1 DEF Undisturbed, Claiming, Mint, claims
<1>2. CASE EndElsewhere
  BY <1>2 DEF Undisturbed, Claiming, EndElsewhere, claims
<1>3. CASE Lapse
  BY <1>3 DEF Undisturbed, Lapse, claims, reaping
<1>4. CASE Arm
  BY <1>4 DEF Undisturbed, Arm, claims
<1>5. CASE WakeByNews
  BY <1>5 DEF Undisturbed, WakeByNews, claims
<1>6. CASE WakeByDeadline
  BY <1>6 DEF Undisturbed, Claiming, WakeByDeadline, claims
<1>7. CASE ReadLive
  BY <1>7 DEF Undisturbed, ReadLive, claims
<1>8. CASE Reap
  BY <1>8 DEF Undisturbed, Reap, claims
<1>9. ASSUME NEW d \in 1..written, DeleteRow(d) PROVE Undisturbed'
  BY <1>9 DEF Undisturbed, DeleteRow, claims, reaping
<1>10. ASSUME NEW d \in 1..written, Disconnect(d) PROVE Undisturbed'
  BY <1>10 DEF Undisturbed, Disconnect, claims, reaping
<1>11. ASSUME NEW c \in Conns, Accept(c) PROVE Undisturbed'
  BY <1>11 DEF Undisturbed, Accept, claims, reaping
<1>12. ASSUME NEW c \in Conns, Redeem(c) PROVE Undisturbed'
  BY <1>12 DEF Undisturbed, Redeem, Answered, reaping
<1>13. ASSUME NEW c \in Conns, CreateRow(c) PROVE Undisturbed'
  BY <1>13 DEF Undisturbed, CreateRow, reaping
<1>14. ASSUME NEW c \in Conns, BindPeer(c) PROVE Undisturbed'
  BY <1>14 DEF Undisturbed, BindPeer, Answered, reaping
<1>15. ASSUME NEW c \in Conns, BindFails(c) PROVE Undisturbed'
  BY <1>15 DEF TypeOK, Undisturbed, BindFails, Answered, reaping
<1>16. ASSUME NEW c \in Conns, Settle(c) PROVE Undisturbed'
  BY <1>16 DEF TypeOK, Undisturbed, Claiming, Settle, Answered
<1>17. ASSUME NEW c \in Conns, Adopt(c) PROVE Undisturbed'
  BY <1>17 DEF Undisturbed, Adopt, claims, reaping
<1>18. ASSUME NEW c \in Conns, Admit(c) PROVE Undisturbed'
  BY <1>18 DEF Undisturbed, Admit, claims, reaping
<1>19. ASSUME NEW c \in Conns, ServeBound(c) PROVE Undisturbed'
  BY <1>19 DEF Undisturbed, ServeBound, claims, reaping
<1>20. ASSUME NEW c \in Conns, WatchDevice(c) PROVE Undisturbed'
  BY <1>20 DEF Undisturbed, WatchDevice, claims, reaping
<1>21. ASSUME NEW c \in Conns, ServeUnbound(c) PROVE Undisturbed'
  BY <1>21 DEF Undisturbed, ServeUnbound, claims, reaping
<1>22. ASSUME NEW c \in Conns, HangUp(c) PROVE Undisturbed'
  BY <1>22 DEF Undisturbed, HangUp, claims, reaping
<1>23. ASSUME NEW c \in Conns, HearRevocation(c) PROVE Undisturbed'
  BY <1>23 DEF Undisturbed, HearRevocation, claims, reaping
<1>24. ASSUME NEW c \in Conns, Finish(c) PROVE Undisturbed'
  BY <1>24 DEF Undisturbed, Finish, claims, reaping
<1>25. ASSUME NEW c \in Conns, Lifetime(c) PROVE Undisturbed'
  BY <1>25 DEF Undisturbed, Lifetime, claims, reaping
<1>26. CASE UNCHANGED vars
  BY <1>26 DEF Undisturbed, vars, claims, reaping
<1> QED
  BY <1>1, <1>2, <1>3, <1>4, <1>5, <1>6, <1>7, <1>8, <1>9, <1>10, <1>11, <1>12, <1>13, <1>14,
     <1>15, <1>16, <1>17, <1>18, <1>19, <1>20, <1>21, <1>22, <1>23, <1>24, <1>25, <1>26
     DEF Next, Reaping, Claims, Admits, Ends

LEMMA TypesAreKept ==
  ASSUME TypeOK, Stations, count' \in Nat, [Next]_vars
  PROVE  TypeOK'
<1>1. CASE Mint
  BY <1>1 DEF TypeOK, Claiming, Mint, devices, watches, conn, claims, reaping
<1>2. CASE EndElsewhere
  BY <1>2 DEF TypeOK, Claiming, EndElsewhere, devices, watches, conn, claims, reaping
<1>3. CASE Lapse
  BY <1>3 DEF TypeOK, Lapse, devices, watches, conn, claims, reaping
<1>4. CASE Arm
  BY <1>4 DEF TypeOK, Arm, Live, pairing, devices, watches, conn, claims
<1>5. CASE WakeByNews
  <2>0. OutsideTypes /\ ConnTypes /\ InsideTypes
    BY TypeParts
  <2>1. OutsideTypes'
    BY <1>5, <2>0 DEF OutsideTypes, WakeByNews, pairing, devices, watches, claims
  <2>2. ConnTypes'
    BY <1>5, <2>0 DEF ConnTypes, WakeByNews, pairing, conn
  <2>3. InsideTypes'
    <3>1. news' \in BOOLEAN
      BY <1>5 DEF WakeByNews
    <3> QED
      BY <1>5, <2>0, <3>1 DEF InsideTypes, OutsideTypes, WakeByNews, pairing, claims
  <2> QED
    BY <2>1, <2>2, <2>3 DEF TypeOK, OutsideTypes, ConnTypes, InsideTypes
<1>6. CASE WakeByDeadline
  BY <1>6 DEF TypeOK, Claiming, WakeByDeadline, pairing, devices, watches, conn, claims
<1>7. CASE ReadLive
  BY <1>7 DEF TypeOK, ReadLive, Live, pairing, devices, watches, conn, claims
<1>8. CASE Reap
  BY <1>8 DEF TypeOK, Stages, Reap, pairing, devices, watches, claims
<1>9. ASSUME NEW d \in 1..written, DeleteRow(d) PROVE TypeOK'
  BY <1>9 DEF TypeOK, DeleteRow, pairing, watches, conn, claims, reaping
<1>10. ASSUME NEW d \in 1..written, Disconnect(d) PROVE TypeOK'
  BY <1>10 DEF TypeOK, Disconnect, pairing, conn, claims, reaping
<1>11. ASSUME NEW c \in Conns, Accept(c) PROVE TypeOK'
  <2>0. OutsideTypes /\ ConnTypes /\ InsideTypes
    BY TypeParts
  <2>1. OutsideTypes'
    BY <1>11, <2>0 DEF OutsideTypes, Accept, pairing, devices, watches, claims
  <2>2. ConnTypes'
    <3>1. known' \in [Conns -> BOOLEAN]
      BY <1>11, <2>0, ZenonT(30) DEF ConnTypes, Accept, Bound
    <3> QED
      BY <1>11, <2>0, <3>1 DEF ConnTypes, Stages, Accept, Moves, pairing
  <2>3. InsideTypes'
    BY <1>11, <2>0 DEF InsideTypes, Accept, pairing, claims, reaping
  <2> QED
    BY <2>1, <2>2, <2>3 DEF TypeOK, OutsideTypes, ConnTypes, InsideTypes
<1>12. ASSUME NEW c \in Conns, Redeem(c) PROVE TypeOK'
  BY <1>12 DEF TypeOK, Redeem, Answered, devices, watches, conn, reaping
<1>13. ASSUME NEW c \in Conns, CreateRow(c) PROVE TypeOK'
  BY <1>13 DEF TypeOK, CreateRow, pairing, watches, conn, reaping
<1>14. ASSUME NEW c \in Conns, BindPeer(c) PROVE TypeOK'
  BY <1>14 DEF TypeOK, BindPeer, Answered, pairing, watches, conn, reaping
<1>15. ASSUME NEW c \in Conns, BindFails(c) PROVE TypeOK'
  BY <1>15 DEF TypeOK, BindFails, Answered, pairing, devices, watches, conn, reaping
<1>16. ASSUME NEW c \in Conns, Settle(c) PROVE TypeOK'
  BY <1>16 DEF TypeOK, Claiming, Settle, Answered, pairing, devices, watches, conn, reaping
<1>17. ASSUME NEW c \in Conns, Adopt(c) PROVE TypeOK'
  BY <1>17 DEF TypeOK, Adopt, pairing, watches, conn, claims, reaping
<1>18. ASSUME NEW c \in Conns, Admit(c) PROVE TypeOK'
  BY <1>18
     DEF TypeOK, Stages, Admit, Adoption, AdmitBound, AdmitWindow, AdmitAdoption, Refuse, Moves,
         Live, pairing, devices, watches, claims, reaping
<1>19. ASSUME NEW c \in Conns, ServeBound(c) PROVE TypeOK'
  <2>0. OutsideTypes /\ ConnTypes /\ InsideTypes
    BY TypeParts
  <2>1. OutsideTypes'
    <3>1. bound[PeerOf[c]] \in paired \cup {0}
      BY <2>0, AdmissionAssumption DEF OutsideTypes
    <3>2. written \in Nat /\ paired \subseteq 1..written
      BY <2>0 DEF OutsideTypes
    <3>3. bound[PeerOf[c]] \in 0..written
      BY <3>1, <3>2, OneOfMany
    <3> QED
      BY <1>19, <2>0, <3>3 DEF OutsideTypes, ServeBound, pairing, devices, claims
  <2>2. ConnTypes'
    BY <1>19, <2>0 DEF ConnTypes, Stages, ServeBound, Moves, pairing
  <2>3. InsideTypes'
    BY <1>19, <2>0 DEF InsideTypes, ServeBound, pairing, claims, reaping
  <2> QED
    BY <2>1, <2>2, <2>3 DEF TypeOK, OutsideTypes, ConnTypes, InsideTypes
<1>20. ASSUME NEW c \in Conns, WatchDevice(c) PROVE TypeOK'
  BY <1>20 DEF TypeOK, Stages, WatchDevice, Moves, pairing, devices, claims, reaping
<1>21. ASSUME NEW c \in Conns, ServeUnbound(c) PROVE TypeOK'
  <2>0. OutsideTypes /\ ConnTypes /\ InsideTypes
    BY TypeParts
  <2>1. OutsideTypes'
    BY <1>21, <2>0 DEF OutsideTypes, ServeUnbound, pairing, devices, watches, claims
  <2>2. ConnTypes'
    <3>1. clock' \in [Conns -> BOOLEAN]
      BY <1>21, <2>0 DEF ConnTypes, ServeUnbound
    <3> QED
      BY <1>21, <2>0, <3>1 DEF ConnTypes, Stations, Stages, ServeUnbound, Moves, pairing
  <2>3. InsideTypes'
    BY <1>21, <2>0 DEF InsideTypes, ServeUnbound, pairing, claims, reaping
  <2> QED
    BY <2>1, <2>2, <2>3 DEF TypeOK, OutsideTypes, ConnTypes, InsideTypes
<1>22. ASSUME NEW c \in Conns, HangUp(c) PROVE TypeOK'
  BY <1>22 DEF TypeOK, Stages, HangUp, Moves, pairing, devices, watches, claims, reaping
<1>23. ASSUME NEW c \in Conns, HearRevocation(c) PROVE TypeOK'
  BY <1>23
     DEF TypeOK, Stages, HearRevocation, Moves, pairing, devices, watches, claims, reaping
<1>24. ASSUME NEW c \in Conns, Finish(c) PROVE TypeOK'
  BY <1>24 DEF TypeOK, Stages, Finish, Moves, Forget, pairing, devices, claims, reaping
<1>25. ASSUME NEW c \in Conns, Lifetime(c) PROVE TypeOK'
  BY <1>25
     DEF TypeOK, Stages, Lifetime, Moves, Forget, pairing, devices, watches, claims, reaping
<1>26. CASE UNCHANGED vars
  BY <1>26 DEF TypeOK, vars, pairing, devices, watches, conn, claims, reaping
<1> QED
  BY <1>1, <1>2, <1>3, <1>4, <1>5, <1>6, <1>7, <1>8, <1>9, <1>10, <1>11, <1>12, <1>13, <1>14,
     <1>15, <1>16, <1>17, <1>18, <1>19, <1>20, <1>21, <1>22, <1>23, <1>24, <1>25, <1>26
     DEF Next, Reaping, Claims, Admits, Ends

LEMMA StepIsSafe == IInv /\ [Next]_vars => IInv'
<1> SUFFICES ASSUME IInv, [Next]_vars PROVE IInv'
  OBVIOUS
<1>0. TypeOK /\ Stations /\ Counted /\ Listed /\ RevokedConnectionsHear /\ Undisturbed
  BY SlotsAreCountedAndListed DEF IInv
<1>1. Stations' /\ Listed' /\ RevokedConnectionsHear' /\ Undisturbed'
  BY <1>0, StationsAreKept, LedgerIsKept, RevocationsAreHeard, ClaimsAreDisturbed
<1>2. Counted'
  BY <1>0, CountIsKept
<1>3. count' \in Nat
  <2>1. (IsFiniteSet(Served) /\ Cardinality(Served) \in Nat)'
    BY ServedIsFinite, PTL
  <2> QED
    BY <1>2, <2>1 DEF Counted
<1>4. TypeOK'
  BY <1>0, <1>3, TypesAreKept
<1>5. SlotsAreReturned'
  BY <1>1, <1>2, SlotsAreCountedAndListed, PTL
<1> QED
  BY <1>1, <1>4, <1>5 DEF IInv

(* The invariant holds of every reachable state.                           *)
THEOREM InvariantHolds == Spec => []IInv
BY InitIsSafe, StepIsSafe, PTL DEF Spec

(* Types: the transport, its connections, the claims, the reaper           *)
(* (src/transport/iroh.rs).                                                *)
THEOREM TypeCorrect == Spec => []TypeOK
<1>1. IInv => TypeOK
  BY DEF IInv
<1> QED
  BY <1>1, InvariantHolds, PTL

(* Whatever the caps and whoever ends first, the phone, the revocation,    *)
(* the reaper or the lifetime: the count is of the connections that are    *)
(* served, and the ledger of those that knock.                             *)
THEOREM SlotsStayReturned == Spec => []SlotsAreReturned
<1>1. IInv => SlotsAreReturned
  BY DEF IInv
<1> QED
  BY <1>1, InvariantHolds, PTL

(* A connection that watches a device that is gone was told, or will be,   *)
(* or began to watch too late (revoke_device, ConnectionManager).          *)
THEOREM RevocationsStayHeard == Spec => []RevokedConnectionsHear
<1>1. IInv => RevokedConnectionsHear
  BY DEF IInv
<1> QED
  BY <1>1, InvariantHolds, PTL

(* The reaper never ends a connection whose claim nothing else fell into:  *)
(* the end of a window is announced once the claim has bound the identity. *)
THEOREM ClaimsSurviveTheirOwnEnd == Spec => ClaimSurvivesItsOwnEnd
<1>1. IInv /\ [Next]_vars =>
        [Reap => \A c \in Claiming \ disturbed : stage'[c] = stage[c]]_vars
  BY DEF IInv, Undisturbed, Reap, Claiming
<1> QED
  BY <1>1, InvariantHolds, PTL DEF Spec, ClaimSurvivesItsOwnEnd
---------------------------------------------------------------------------
(* The caps: a connection counts from the moment it is admitted.           *)
Inside(c) == c \in ledger \/ stage[c] = "entering"

OfWindows  == {c \in Conns \ raced : Inside(c) /\ admission[c] \notin {0, Adoption}}
OfAdoption == {c \in Conns \ raced : Inside(c) /\ admission[c] = Adoption}
OfPhones   == {c \in Conns \ raced :
  admission[c] = 0 /\ stage[c] \in {"admitted", "counted", "serving", "draining"}}

CapsHold ==
  /\ Cardinality(OfWindows) <= MaxUnbound
  /\ Cardinality(OfAdoption) <= MaxAdopting
  /\ Cardinality(OfPhones) <= MaxBound

NoneAdded ==
  OfWindows' \subseteq OfWindows /\ OfAdoption' \subseteq OfAdoption /\ OfPhones' \subseteq OfPhones

LEMMA FewerAreWithin ==
  ASSUME NEW S, NEW T, S \subseteq T, T \subseteq Conns, NEW n \in Nat, Cardinality(T) <= n
  PROVE  Cardinality(S) <= n
<1>1. IsFiniteSet(T)
  BY AdmissionAssumption, FS_Subset
<1>2. IsFiniteSet(S) /\ Cardinality(S) <= Cardinality(T)
  BY <1>1, FS_Subset
<1> QED
  BY <1>1, <1>2, FS_CardinalityType

LEMMA OneMoreIsWithin ==
  ASSUME NEW S, NEW T, T \subseteq Conns, NEW c \in Conns, S \subseteq T \cup {c},
         NEW n \in Nat, Cardinality(T) < n
  PROVE  Cardinality(S) <= n
<1>1. IsFiniteSet(T)
  BY AdmissionAssumption, FS_Subset
<1>2. IsFiniteSet(T \cup {c}) /\ Cardinality(T \cup {c}) <= Cardinality(T) + 1
  BY <1>1, FS_AddElement, FS_CardinalityType
<1>3. IsFiniteSet(S) /\ Cardinality(S) <= Cardinality(T \cup {c})
  BY <1>2, FS_Subset
<1> QED
  BY <1>1, <1>2, <1>3, FS_CardinalityType

LEMMA NoneAddedKeepsCaps ==
  ASSUME CapsHold, NoneAdded
  PROVE  CapsHold'
<1>1. OfWindows \subseteq Conns /\ OfAdoption \subseteq Conns /\ OfPhones \subseteq Conns
  BY DEF OfWindows, OfAdoption, OfPhones
<1>2. Cardinality(OfWindows') <= MaxUnbound
  BY <1>1, FewerAreWithin, AdmissionAssumption DEF CapsHold, NoneAdded
<1>3. Cardinality(OfAdoption') <= MaxAdopting
  BY <1>1, FewerAreWithin, AdmissionAssumption DEF CapsHold, NoneAdded
<1>4. Cardinality(OfPhones') <= MaxBound
  BY <1>1, FewerAreWithin, AdmissionAssumption DEF CapsHold, NoneAdded
<1> QED
  BY <1>2, <1>3, <1>4 DEF CapsHold

(* Who finds nobody on the way in is admitted on counts that are right.    *)
LEMMA AdmittedWithinCaps ==
  ASSUME TypeOK, Stations, Counted, Listed, CapsHold, NEW c \in Conns, Admit(c)
  PROVE  NoneAdded \/ CapsHold'
<1>1. admission[c] = 0 /\ c \notin ledger /\ stage[c] = "looked"
  BY DEF Stations, Listed, Admit
<1>2. CASE OnTheWay # {}
  <2>1. raced' = raced \cup {c}
    BY <1>2 DEF Admit
  <2>2. \A d \in Conns \ {c} : stage'[d] = stage[d] /\ admission'[d] = admission[d]
    BY DEF TypeOK, Admit, AdmitBound, AdmitWindow, AdmitAdoption, Refuse, Moves
  <2>3. ledger' = ledger
    BY DEF Admit
  <2> QED
    BY <2>1, <2>2, <2>3 DEF NoneAdded, OfWindows, OfAdoption, OfPhones, Inside
<1>3. CASE OnTheWay = {}
  <2>1. raced' = raced /\ ledger' = ledger
    BY <1>3 DEF Admit
  <2>2. \A d \in Conns : stage[d] \notin {"entering", "admitted"}
    BY <1>3 DEF OnTheWay
  <2>3. \A d \in Conns \ {c} : stage'[d] = stage[d] /\ admission'[d] = admission[d]
    BY DEF TypeOK, Admit, AdmitBound, AdmitWindow, AdmitAdoption, Refuse, Moves
  <2>4. CASE AdmitBound(c)
    <3>1. OfWindows' \subseteq OfWindows /\ OfAdoption' \subseteq OfAdoption
      BY <1>1, <2>1, <2>3, <2>4
         DEF TypeOK, OfWindows, OfAdoption, Inside, AdmitBound, Moves
    <3>2. OfPhones' \subseteq Served \cup {c}
      BY <2>1, <2>2, <2>3 DEF OfPhones, Served
    <3>3. Cardinality(Served) < MaxBound
      BY <2>4 DEF AdmitBound, Counted
    <3>4. Cardinality(OfPhones') <= MaxBound
      BY <3>2, <3>3, OneMoreIsWithin, AdmissionAssumption DEF Served
    <3>5. Cardinality(OfWindows') <= MaxUnbound /\ Cardinality(OfAdoption') <= MaxAdopting
      BY <3>1, FewerAreWithin, AdmissionAssumption DEF CapsHold, OfWindows, OfAdoption
    <3> QED
      BY <3>4, <3>5 DEF CapsHold
  <2>5. CASE AdmitWindow(c)
    <3>1. OfPhones' \subseteq OfPhones /\ OfAdoption' \subseteq OfAdoption
      <4>1. stage'[c] = "entering" /\ admission'[c] # Adoption
        BY <2>5 DEF TypeOK, AdmitWindow, Moves, Live, Adoption
      <4> QED
        BY <2>1, <2>3, <4>1 DEF OfPhones, OfAdoption, Inside
    <3>2. OfWindows' \subseteq Windowed \cup {c}
      BY <2>1, <2>2, <2>3 DEF OfWindows, Windowed, Inside
    <3>3. Cardinality(Windowed) < MaxUnbound /\ Windowed \subseteq Conns
      BY <2>5 DEF TypeOK, AdmitWindow, Windowed
    <3>4. Cardinality(OfWindows') <= MaxUnbound
      BY <3>2, <3>3, OneMoreIsWithin, AdmissionAssumption
    <3>5. Cardinality(OfPhones') <= MaxBound /\ Cardinality(OfAdoption') <= MaxAdopting
      BY <3>1, FewerAreWithin, AdmissionAssumption DEF CapsHold, OfPhones, OfAdoption
    <3> QED
      BY <3>4, <3>5 DEF CapsHold
  <2>6. CASE AdmitAdoption(c)
    <3>1. OfPhones' \subseteq OfPhones /\ OfWindows' \subseteq OfWindows
      <4>1. stage'[c] = "entering" /\ admission'[c] = Adoption
        BY <2>6 DEF TypeOK, AdmitAdoption, Moves
      <4> QED
        BY <2>1, <2>3, <4>1 DEF OfPhones, OfWindows, Inside
    <3>2. OfAdoption' \subseteq (ledger \ Windowed) \cup {c}
      BY <2>1, <2>2, <2>3 DEF OfAdoption, Windowed, Inside
    <3>3. Cardinality(ledger \ Windowed) < MaxAdopting /\ ledger \subseteq Conns
      BY <2>6 DEF TypeOK, AdmitAdoption
    <3>4. Cardinality(OfAdoption') <= MaxAdopting
      BY <3>2, <3>3, OneMoreIsWithin, AdmissionAssumption
    <3>5. Cardinality(OfPhones') <= MaxBound /\ Cardinality(OfWindows') <= MaxUnbound
      BY <3>1, FewerAreWithin, AdmissionAssumption DEF CapsHold, OfPhones, OfWindows
    <3> QED
      BY <3>4, <3>5 DEF CapsHold
  <2>7. CASE Refuse(c)
    BY <1>1, <2>1, <2>3, <2>7
       DEF TypeOK, NoneAdded, OfWindows, OfAdoption, OfPhones, Inside, Refuse, Moves
  <2> QED
    BY <2>4, <2>5, <2>6, <2>7 DEF Admit
<1> QED
  BY <1>2, <1>3

LEMMA CapsAreHeld ==
  ASSUME TypeOK, Stations, Counted, Listed, CapsHold, [Next]_vars
  PROVE  CapsHold'
<1>1. ASSUME Mint PROVE NoneAdded
  BY <1>1 DEF NoneAdded, OfWindows, OfAdoption, OfPhones, Inside, Mint, conn
<1>2. ASSUME EndElsewhere PROVE NoneAdded
  BY <1>2 DEF NoneAdded, OfWindows, OfAdoption, OfPhones, Inside, EndElsewhere, conn
<1>3. ASSUME Lapse PROVE NoneAdded
  BY <1>3 DEF NoneAdded, OfWindows, OfAdoption, OfPhones, Inside, Lapse, conn
<1>4. ASSUME Arm PROVE NoneAdded
  BY <1>4 DEF NoneAdded, OfWindows, OfAdoption, OfPhones, Inside, Arm, conn
<1>5. ASSUME WakeByNews PROVE NoneAdded
  BY <1>5 DEF NoneAdded, OfWindows, OfAdoption, OfPhones, Inside, WakeByNews, conn
<1>6. ASSUME WakeByDeadline PROVE NoneAdded
  BY <1>6 DEF NoneAdded, OfWindows, OfAdoption, OfPhones, Inside, WakeByDeadline, conn
<1>7. ASSUME ReadLive PROVE NoneAdded
  BY <1>7 DEF NoneAdded, OfWindows, OfAdoption, OfPhones, Inside, ReadLive, conn
<1>8. ASSUME Reap PROVE NoneAdded
  BY <1>8 DEF TypeOK, Stations, NoneAdded, OfWindows, OfAdoption, OfPhones, Inside, Reap
<1>9. ASSUME NEW d \in 1..written, DeleteRow(d) PROVE NoneAdded
  BY <1>9 DEF NoneAdded, OfWindows, OfAdoption, OfPhones, Inside, DeleteRow, conn
<1>10. ASSUME NEW d \in 1..written, Disconnect(d) PROVE NoneAdded
  BY <1>10 DEF NoneAdded, OfWindows, OfAdoption, OfPhones, Inside, Disconnect, conn
<1>11. ASSUME NEW c \in Conns, Accept(c) PROVE NoneAdded
  BY <1>11
     DEF TypeOK, Stations, Listed, NoneAdded, OfWindows, OfAdoption, OfPhones, Inside, Accept, Moves
<1>12. ASSUME NEW c \in Conns, Redeem(c) PROVE NoneAdded
  BY <1>12 DEF NoneAdded, OfWindows, OfAdoption, OfPhones, Inside, Redeem, conn
<1>13. ASSUME NEW c \in Conns, CreateRow(c) PROVE NoneAdded
  BY <1>13 DEF NoneAdded, OfWindows, OfAdoption, OfPhones, Inside, CreateRow, conn
<1>14. ASSUME NEW c \in Conns, BindPeer(c) PROVE NoneAdded
  BY <1>14 DEF NoneAdded, OfWindows, OfAdoption, OfPhones, Inside, BindPeer, conn
<1>15. ASSUME NEW c \in Conns, BindFails(c) PROVE NoneAdded
  BY <1>15 DEF NoneAdded, OfWindows, OfAdoption, OfPhones, Inside, BindFails, conn
<1>16. ASSUME NEW c \in Conns, Settle(c) PROVE NoneAdded
  BY <1>16 DEF NoneAdded, OfWindows, OfAdoption, OfPhones, Inside, Settle, conn
<1>17. ASSUME NEW c \in Conns, Adopt(c) PROVE NoneAdded
  BY <1>17 DEF NoneAdded, OfWindows, OfAdoption, OfPhones, Inside, Adopt, conn
<1>18. ASSUME NEW c \in Conns, Admit(c) PROVE NoneAdded \/ CapsHold'
  BY <1>18, AdmittedWithinCaps
<1>19. ASSUME NEW c \in Conns, ServeBound(c) PROVE NoneAdded
  BY <1>19
     DEF TypeOK, Stations, Listed, NoneAdded, OfWindows, OfAdoption, OfPhones, Inside, ServeBound, Moves
<1>20. ASSUME NEW c \in Conns, WatchDevice(c) PROVE NoneAdded
  BY <1>20
     DEF TypeOK, Stations, Listed, NoneAdded, OfWindows, OfAdoption, OfPhones, Inside, WatchDevice, Moves
<1>21. ASSUME NEW c \in Conns, ServeUnbound(c) PROVE NoneAdded
  BY <1>21
     DEF TypeOK, Stations, Listed, NoneAdded, OfWindows, OfAdoption, OfPhones, Inside, ServeUnbound, Moves
<1>22. ASSUME NEW c \in Conns, HangUp(c) PROVE NoneAdded
  BY <1>22
     DEF TypeOK, Stations, Listed, NoneAdded, OfWindows, OfAdoption, OfPhones, Inside, HangUp, Moves
<1>23. ASSUME NEW c \in Conns, HearRevocation(c) PROVE NoneAdded
  BY <1>23
     DEF TypeOK, Stations, Listed, NoneAdded, OfWindows, OfAdoption, OfPhones, Inside, HearRevocation, Moves
<1>24. ASSUME NEW c \in Conns, Finish(c) PROVE NoneAdded
  BY <1>24
     DEF TypeOK, Stations, Listed, NoneAdded, OfWindows, OfAdoption, OfPhones, Inside, Finish, Moves, Forget
<1>25. ASSUME NEW c \in Conns, Lifetime(c) PROVE NoneAdded
  BY <1>25
     DEF TypeOK, Stations, Listed, NoneAdded, OfWindows, OfAdoption, OfPhones, Inside, Lifetime, Moves, Forget
<1>26. ASSUME UNCHANGED vars PROVE NoneAdded
  BY <1>26 DEF NoneAdded, OfWindows, OfAdoption, OfPhones, Inside, vars, conn
<1> QED
  BY NoneAddedKeepsCaps, <1>1, <1>2, <1>3, <1>4, <1>5, <1>6, <1>7, <1>8, <1>9, <1>10, <1>11,
     <1>12, <1>13, <1>14, <1>15, <1>16, <1>17, <1>18, <1>19, <1>20, <1>21, <1>22, <1>23, <1>24,
     <1>25, <1>26
     DEF Next, Reaping, Claims, Admits, Ends

(* "At most this many concurrent connections" (src/transport/iroh.rs,      *)
(* MAX_UNBOUND, MAX_ADOPTING, MAX_BOUND): true of those that were admitted *)
(* while nobody else was on the way in, for any caps, any number of        *)
(* connections and any windows.                                            *)
THEOREM CapsStayKept == Spec => []CapsAreKept
<1>1. Init => CapsHold
  <2> SUFFICES ASSUME Init PROVE CapsHold
    OBVIOUS
  <2>1. OfWindows = {} /\ OfAdoption = {} /\ OfPhones = {}
    BY DEF Init, OfWindows, OfAdoption, OfPhones, Inside, Adoption
  <2> QED
    BY <2>1, FS_EmptySet, AdmissionAssumption DEF CapsHold
<1>2. IInv /\ CapsHold /\ [Next]_vars => CapsHold'
  BY CapsAreHeld, SlotsAreCountedAndListed DEF IInv
<1>3. IInv /\ CapsHold => CapsAreKept
  <2> SUFFICES ASSUME IInv, CapsHold PROVE CapsAreKept
    OBVIOUS
  <2>1. Windowed \ raced \subseteq OfWindows /\ (ledger \ Windowed) \ raced \subseteq OfAdoption
    BY DEF IInv, TypeOK, OfWindows, OfAdoption, Windowed, Inside
  <2>2. {c \in Conns \ raced :
          admission[c] = 0 /\ stage[c] \in {"counted", "serving", "draining"}} \subseteq OfPhones
    BY DEF OfPhones
  <2>3. OfWindows \subseteq Conns /\ OfAdoption \subseteq Conns /\ OfPhones \subseteq Conns
    BY DEF OfWindows, OfAdoption, OfPhones
  <2> QED
    BY <2>1, <2>2, <2>3, FewerAreWithin, AdmissionAssumption DEF CapsHold, CapsAreKept
<1> QED
  BY <1>1, <1>2, <1>3, InvariantHolds, PTL DEF Spec
=============================================================================
