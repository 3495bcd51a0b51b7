---------------------------- MODULE LoginProofs ----------------------------
(***************************************************************************)
(* Proofs about Login, for any number of attempts, callbacks and clients,  *)
(* on every machine and whatever directory is found.                       *)
(***************************************************************************)
EXTENDS Login, FiniteSetTheorems, TLAPS

(* Every step of the whole, as far as the daemon's attempts see it.        *)
AuthNext ==
  \/ UNCHANGED authVars \/ Listen \/ AuthStop
  \/ \E a \in Attempts : StartApiKey(a) \/ StartOAuth(a) \/ Lapse(a) \/ Timer(a)
  \/ \E a \in Attempts \cup {None} : Poll(a)
  \/ \E k \in Callbacks : Exchanged(k) \/ Abandon(k)
  \/ \E k \in Callbacks, a \in Attempts : Callback(k, a) \/ Cancel(k, a)
  \/ \E u \in Clients : Commit(u) \/ CommitFails(u)
  \/ \E u \in Clients, a \in Attempts \cup {None} : BeginCommit(u, a)

(* An id that was not given out has no attempt and no history, and a code  *)
(* that was sent on is one nobody would send again.                        *)
Unused ==
  \A a \in Attempts : a \notin used => attempt[a] = Gone /\ exchanged[a] = 0
Sent ==
  \A a \in Attempts :
    exchanged[a] <= 1 /\ (exchanged[a] = 1 => attempt[a].status # "pending" \/ attempt[a].busy)

AuthInv == AuthTypeOK /\ Unused /\ Sent

LEMMA GoneIsARecord == Gone \in Records /\ ByKey \in Records /\ ByBrowser \in Records
BY DEF Gone, Records, Statuses, ByKey, ByBrowser

LEMMA StillGone ==
  ASSUME NEW r \in Records, r = Gone
  PROVE  [r EXCEPT !.busy = FALSE, !.state = FALSE] = r
BY DEF Records, Gone

LEMMA ExpiredIsARecord ==
  ASSUME AuthTypeOK, NEW a \in Attempts
  PROVE  /\ Expired(a) \in Records
         /\ Expired(a).status = "pending" => Expired(a) = attempt[a]
         /\ attempt[a] = Gone => Expired(a) = Gone
         /\ Over(attempt[a].status) => Expired(a) = attempt[a]
         /\ Expired(a).busy = attempt[a].busy
<1>1. attempt[a] \in Records
  BY DEF AuthTypeOK
<1>2. Expired(a) \in Records
  BY <1>1 DEF Expired, Records, Statuses
<1>3. Expired(a).status = "pending" => Expired(a) = attempt[a]
  BY <1>1 DEF Expired, Records
<1>4. /\ attempt[a] = Gone => Expired(a) = Gone
      /\ Over(attempt[a].status) => Expired(a) = attempt[a]
  BY <1>1 DEF Expired, Records, Gone, Over
<1>5. Expired(a).busy = attempt[a].busy
  BY <1>1 DEF Expired, Records
<1> QED
  BY <1>2, <1>3, <1>4, <1>5

(* What a step does to one attempt.                                        *)
LEMMA OneAttempt ==
  ASSUME AuthInv, AuthNext, NEW a \in Attempts
  PROVE  /\ attempt'[a] \in Records /\ exchanged'[a] \in Nat
         /\ a \notin used' => a \notin used
         /\ a \notin used' => attempt'[a] = Gone /\ exchanged'[a] = 0
         /\ exchanged'[a] <= 1
         /\ exchanged'[a] = 1 => attempt'[a].status # "pending" \/ attempt'[a].busy
         /\ Over(attempt[a].status) => Over(attempt'[a].status) \/ attempt'[a] = Gone
<1>0. /\ attempt[a] \in Records /\ exchanged[a] \in Nat /\ attempt \in [Attempts -> Records]
      /\ exchanged \in [Attempts -> Nat]
      /\ a \notin used => attempt[a] = Gone /\ exchanged[a] = 0
      /\ exchanged[a] <= 1
      /\ exchanged[a] = 1 => attempt[a].status # "pending" \/ attempt[a].busy
      /\ None \notin Attempts
  BY AuthAssumption DEF AuthInv, AuthTypeOK, Unused, Sent
<1> DEFINE e == Expired(a)
<1>1. /\ e \in Records
      /\ e.status = "pending" => e = attempt[a]
      /\ attempt[a] = Gone => e = Gone
      /\ Over(attempt[a].status) => e = attempt[a]
      /\ e.busy = attempt[a].busy
  BY ExpiredIsARecord DEF AuthInv
<1> HIDE DEF e
<1>2. CASE UNCHANGED <<attempt, exchanged, used>>
  BY <1>0, <1>2
<1>3. CASE attempt'[a] = e /\ UNCHANGED <<exchanged, used>>
  BY <1>0, <1>1, <1>3
<1>4. CASE AuthStop
  BY <1>0, <1>4, GoneIsARecord DEF AuthStop, Gone
<1>5. CASE \E b \in Attempts : StartApiKey(b) \/ StartOAuth(b)
  <2> PICK b \in Attempts : StartApiKey(b) \/ StartOAuth(b)
    BY <1>5
  <2>1. PICK r : Given(b, r) /\ r \in {ByKey, ByBrowser} /\ UNCHANGED exchanged
    BY DEF StartApiKey, StartOAuth
  <2>2. CASE a # b
    BY <1>0, <2>1, <2>2 DEF Given
  <2>3. CASE a = b
    BY <1>0, <2>1, <2>3, GoneIsARecord DEF Given, Gone, Over
  <2> QED
    BY <2>2, <2>3
<1>6. CASE \E b \in Attempts : Lapse(b)
  BY <1>2, <1>6 DEF Lapse
<1>7. CASE \E b \in Attempts : Timer(b)
  BY <1>0, <1>2, <1>3, <1>7 DEF Timer, e
<1>8. CASE \E b \in Attempts \cup {None} : Poll(b)
  BY <1>0, <1>2, <1>3, <1>8 DEF Poll, e
<1>9. CASE \E k \in Callbacks : Exchanged(k)
  <2> PICK k \in Callbacks : Exchanged(k)
    BY <1>9
  <2>1. callback[k] \in Attempts /\ UNCHANGED <<exchanged, used>>
    BY DEF Exchanged, AuthInv, AuthTypeOK
  <2>2. CASE a # callback[k]
    BY <1>0, <2>1, <2>2 DEF Exchanged
  <2>3. CASE a = callback[k] /\ attempt[a].status # "pending"
    <3>1. attempt'[a] = [attempt[a] EXCEPT !.busy = FALSE, !.state = FALSE]
      BY <1>0, <2>3 DEF Exchanged
    <3>2. attempt'[a] \in Records
      BY <1>0, <3>1 DEF Records
    <3>3. attempt'[a].status = attempt[a].status
      BY <1>0, <3>1 DEF Records
    <3>4. attempt[a] = Gone => attempt'[a] = Gone
      BY <1>0, <3>1, StillGone
    <3> QED
      BY <1>0, <2>1, <2>3, <3>2, <3>3, <3>4
  <2>4. CASE a = callback[k] /\ attempt[a].status = "pending"
    <3>1. PICK ok \in BOOLEAN : attempt'[a] =
            [attempt[a] EXCEPT !.busy = FALSE, !.state = FALSE, !.credential = ok,
                               !.status = IF ok THEN "authenticated" ELSE "failed"]
      BY <1>0, <2>4 DEF Exchanged
    <3>2. attempt'[a] \in Records
      BY <1>0, <3>1 DEF Records, Statuses
    <3>3. attempt'[a].status # "pending"
      BY <1>0, <3>1 DEF Records
    <3> QED
      BY <1>0, <2>1, <2>4, <3>2, <3>3 DEF Gone, Over
  <2> QED
    BY <2>2, <2>3, <2>4
<1>10. CASE \E k \in Callbacks : Abandon(k)
  BY <1>2, <1>10 DEF Abandon
<1>11. CASE \E k \in Callbacks, b \in Attempts : Callback(k, b)
  <2> PICK k \in Callbacks, b \in Attempts : Callback(k, b)
    BY <1>11
  <2>1. CASE a # b
    BY <1>0, <1>2, <2>1 DEF Callback
  <2>2. CASE a = b /\ (e.status # "pending" \/ e.busy)
    BY <1>0, <1>3, <2>2 DEF Callback, e
  <2>3. CASE a = b /\ ~(e.status # "pending" \/ e.busy)
    <3>1. attempt'[a] = [e EXCEPT !.busy = TRUE] /\ exchanged'[a] = exchanged[a] + 1
          /\ UNCHANGED used
      BY <1>0, <2>3 DEF Callback, e
    <3>2. attempt'[a] \in Records
      BY <1>1, <3>1 DEF Records
    <3>3. attempt'[a].busy
      BY <1>1, <3>1 DEF Records
    <3>4. exchanged[a] = 0
      BY <1>0, <1>1, <2>3
    <3> QED
      BY <1>0, <1>1, <2>3, <3>1, <3>2, <3>3, <3>4 DEF Gone, Over
  <2> QED
    BY <2>1, <2>2, <2>3
<1>12. CASE \E k \in Callbacks, b \in Attempts : Cancel(k, b)
  <2> PICK k \in Callbacks, b \in Attempts : Cancel(k, b)
    BY <1>12
  <2>1. CASE a # b
    BY <1>0, <1>2, <2>1 DEF Cancel
  <2>2. CASE a = b /\ (e.status # "pending" \/ e.busy)
    BY <1>0, <1>3, <2>2 DEF Cancel, e
  <2>3. CASE a = b /\ ~(e.status # "pending" \/ e.busy)
    <3>1. attempt'[a] = [e EXCEPT !.status = "cancelled", !.state = FALSE]
          /\ UNCHANGED <<used, exchanged>>
      BY <1>0, <2>3 DEF Cancel, e
    <3>2. attempt'[a] \in Records
      BY <1>1, <3>1 DEF Records, Statuses
    <3>3. attempt'[a].status # "pending" /\ Over(attempt'[a].status)
      BY <1>1, <3>1 DEF Records, Over
    <3> QED
      BY <1>0, <1>1, <2>3, <3>1, <3>2, <3>3 DEF Gone
  <2> QED
    BY <2>1, <2>2, <2>3
<1>13. CASE \E u \in Clients : Commit(u)
  <2> PICK u \in Clients : Commit(u)
    BY <1>13
  <2>1. attempt'[a] \in {attempt[a], Gone} /\ UNCHANGED <<used, exchanged>>
    BY <1>0 DEF Commit
  <2>2. Gone \in Records /\ Gone.status # "pending"
    BY GoneIsARecord DEF Gone
  <2>3. CASE attempt'[a] = attempt[a]
    BY <1>2, <1>0, <2>1, <2>3
  <2>4. CASE attempt'[a] = Gone
    BY <1>0, <2>1, <2>2, <2>4
  <2> QED
    BY <2>1, <2>3, <2>4
<1>14. CASE \E u \in Clients : CommitFails(u)
  BY <1>2, <1>14 DEF CommitFails
<1>15. CASE \E u \in Clients, b \in Attempts \cup {None} : BeginCommit(u, b)
  BY <1>0, <1>2, <1>3, <1>15 DEF BeginCommit, e
<1>16. CASE UNCHANGED authVars \/ Listen
  BY <1>2, <1>16 DEF authVars, Listen
<1> QED
  BY <1>4, <1>5, <1>6, <1>7, <1>8, <1>9, <1>10, <1>11, <1>12, <1>13, <1>14, <1>15, <1>16
  DEF AuthNext

(* Everything else an attempt's step changes keeps its type.               *)
LEMMA AuthInvStep ==
  ASSUME AuthInv, AuthNext
  PROVE  AuthInv'
<1> USE DEF AuthInv
<1>1. attempt' \in [Attempts -> Records] /\ exchanged' \in [Attempts -> Nat]
  <2>1. /\ DOMAIN attempt' = Attempts /\ attempt' = [a \in Attempts |-> attempt'[a]]
        /\ DOMAIN exchanged' = Attempts /\ exchanged' = [a \in Attempts |-> exchanged'[a]]
    BY DEF AuthNext, AuthTypeOK, authVars, Listen, AuthStop, StartApiKey, StartOAuth, Lapse,
           Timer, Poll, Exchanged, Abandon, Callback, Cancel, Commit, CommitFails, BeginCommit,
           Given
  <2>2. \A a \in Attempts : attempt'[a] \in Records /\ exchanged'[a] \in Nat
    BY OneAttempt
  <2> QED
    BY <2>1, <2>2
<1>2. /\ port' \in BOOLEAN /\ used' \subseteq Attempts /\ late' \subseteq Attempts
      /\ timer' \subseteq Attempts
  BY DEF AuthNext, AuthTypeOK, authVars, Listen, AuthStop, StartApiKey, StartOAuth, Lapse,
         Timer, Poll, Exchanged, Abandon, Callback, Cancel, Commit, CommitFails, BeginCommit,
         Given
<1>3. /\ callback' \in [Callbacks -> Attempts \cup {None}]
      /\ commit' \in [Clients -> Attempts \cup {None}]
      /\ connected' \subseteq Attempts
  <2> USE DEF AuthTypeOK
  <2>1. CASE UNCHANGED <<callback, commit, connected>>
    BY <2>1
  <2>2. CASE AuthStop
    BY <2>2 DEF AuthStop
  <2>3. CASE \E k \in Callbacks : Exchanged(k) \/ Abandon(k)
    <3>1. PICK k \in Callbacks : callback' = [callback EXCEPT ![k] = None]
                                /\ UNCHANGED <<commit, connected>>
      BY <2>3 DEF Exchanged, Abandon
    <3> QED
      BY <3>1
  <2>4. CASE \E k \in Callbacks, a \in Attempts : Callback(k, a) \/ Cancel(k, a)
    <3>1. PICK k \in Callbacks, a \in Attempts :
            /\ callback' = callback \/ callback' = [callback EXCEPT ![k] = a]
            /\ UNCHANGED <<commit, connected>>
      BY <2>4 DEF Callback, Cancel
    <3> QED
      BY <3>1
  <2>5. CASE \E u \in Clients : Commit(u) \/ CommitFails(u)
    <3>1. PICK u \in Clients :
            /\ commit[u] # None /\ commit' = [commit EXCEPT ![u] = None]
            /\ connected' \subseteq connected \cup {commit[u]} /\ UNCHANGED callback
      BY <2>5 DEF Commit, CommitFails
    <3> QED
      BY <3>1
  <2>6. CASE \E u \in Clients, a \in Attempts \cup {None} : BeginCommit(u, a)
    <3>1. PICK u \in Clients, a \in Attempts \cup {None} :
            /\ commit' = commit \/ commit' = [commit EXCEPT ![u] = a]
            /\ UNCHANGED <<callback, connected>>
      BY <2>6 DEF BeginCommit
    <3> QED
      BY <3>1
  <2> QED
    BY <2>1, <2>2, <2>3, <2>4, <2>5, <2>6
    DEF AuthNext, authVars, Listen, StartApiKey, StartOAuth, Lapse, Timer, Poll
<1>4. AuthTypeOK'
  BY <1>1, <1>2, <1>3 DEF AuthTypeOK
<1>5. Unused' /\ Sent'
  BY OneAttempt DEF Unused, Sent
<1> QED
  BY <1>4, <1>5

(* Which of them a step of Next is.                                        *)
LEMMA NextIsAuth ==
  ASSUME TypeOK, [Next]_vars
  PROVE  AuthNext
<1>1. CASE UNCHANGED vars
  BY <1>1 DEF vars, AuthNext
<1>2. CASE \E u \in Clients : Run(u) \/ Step(u)
  <2> PICK u \in Clients : Run(u) \/ Step(u)
    BY <1>2
  <2>1. login[u].attempt \in Attempts \cup {None}
    BY DEF TypeOK, Logins
  <2>2. CASE PollBrowser(u)
    BY <2>1, <2>2 DEF PollBrowser, AuthNext
  <2>3. CASE \E a \in Attempts : SignInWithKey(u, a) \/ SignInWithBrowser(u, a)
    BY <2>3 DEF SignInWithKey, SignInWithBrowser, AuthNext
  <2> QED
    BY <2>2, <2>3 DEF Run, Step, GivesUp, PollEnds, Put, Unreachable, TimesOut, Replace,
                      Recover, Report, AuthNext
<1>3. CASE \E u \in Clients : Serve(u)
  <2> PICK u \in Clients : Serve(u)
    BY <1>3
  <2>1. login[u].attempt \in Attempts \cup {None}
    BY DEF TypeOK, Logins
  <2> QED
    BY <2>1 DEF Serve, Take, Connect, Refuse, Dropped, AuthNext
<1>4. CASE Boot \/ Restore \/ Stop
  BY <1>4 DEF Boot, Restore, Stop, AuthNext
<1>5. CASE Listen \/ \E k \in Callbacks : Browse(k)
  BY <1>5 DEF Browse, AuthNext
<1>6. CASE \E a \in Attempts : Ages(a)
  BY <1>6 DEF Ages, AuthNext
<1> QED
  BY <1>1, <1>2, <1>3, <1>4, <1>5, <1>6 DEF Next
---------------------------------------------------------------------------
(* The files.                                                              *)

LEMMA MadeIsANode ==
  ASSUME NEW m \in Machines, NEW type \in {"file", "directory"}, NEW hands \in BOOLEAN
  PROVE  Made(m, type, hands) \in Nodes
<1>1. UnixMakes(type, hands) \in Nodes
  BY DEF UnixMakes, Nodes, Ways
<1>2. WindowsMakes(m, type) \in Nodes
  BY DEF WindowsMakes, TokenOwner, OwnerOnlyList, Nodes, Ways
<1> QED
  BY <1>1, <1>2 DEF Made

LEMMA WhatIsThere ==
  ASSUME NEW m \in Machines, NEW d \in Nodes
  PROVE  Ensured(m, d) \in Nodes /\ Written(m, d) \in Nodes
<1>1. m.hands \in BOOLEAN /\ d.hands \in BOOLEAN /\ Absent \in Nodes
  BY DEF Machines, Nodes, Absent, Ways
<1> QED
  BY <1>1, MadeIsANode DEF Ensured, Written

(* A file that write leaves is its owner's alone.                          *)
LEMMA WrittenIsPrivate ==
  ASSUME NEW m \in Machines, NEW d \in Nodes, Written(m, d) # Absent
  PROVE  Readers(m, Written(m, d)) \subseteq Trusted(m)
<1> DEFINE node == Made(m, "file", d.hands)
<1>1. Written(m, d) = node /\ Accepts(m, node, "file")
  BY DEF Written
<1>2. CASE Unix(m)
  <2>1. node = UnixMakes("file", d.hands) /\ UnixAccepts(m, node, "file")
    BY <1>1, <1>2 DEF Made, Accepts
  <2>2. node.owner = "user" /\ "list" \notin node.open
    BY <2>1 DEF UnixAccepts, RejectsList
  <2>3. node.open = {}
    BY <2>1, <2>2 DEF UnixMakes
  <2> QED
    BY <1>1, <1>2, <2>2, <2>3 DEF Readers, Trusted
<1>3. CASE ~Unix(m)
  <2>1. node.owner = TokenOwner(m) /\ node.open = {}
    BY <1>3 DEF Made, WindowsMakes, OwnerOnlyList
  <2> QED
    BY <1>1, <1>3, <2>1 DEF Readers, Trusted
<1> QED
  BY <1>2, <1>3

LEMMA AcceptedIsWritten ==
  ASSUME NEW m, NEW d, NEW node, node = Made(m, "file", d.hands), node.type = "file",
         Accepts(m, d, "directory"), Accepts(m, node, "file")
  PROVE  Written(m, d) # Absent
BY DEF Written, Absent

(* And the store accepts what it has made itself.                          *)
LEMMA OwnIsAccepted ==
  ASSUME NEW m \in Machines
  PROVE  LET own == Made(m, "directory", FALSE)
         IN Accepts(m, own, "directory") /\ Written(m, own) # Absent
<1> DEFINE own == Made(m, "directory", FALSE)
           node == Made(m, "file", FALSE)
<1>0. ASSUME own.hands = FALSE, node.type = "file",
             Accepts(m, own, "directory"), Accepts(m, node, "file")
      PROVE  Accepts(m, own, "directory") /\ Written(m, own) # Absent
  <2>1. Made(m, "file", own.hands) = node
    BY <1>0
  <2> QED
    BY <1>0, <2>1, AcceptedIsWritten
<1>1. CASE Unix(m)
  <2>1. /\ own.type = "directory" /\ own.owner = "user" /\ own.open = {} /\ own.hands = FALSE
        /\ node.type = "file" /\ node.owner = "user" /\ node.open = {}
    BY <1>1 DEF Made, UnixMakes
  <2>2. ~RejectsList(m, own) /\ ~RejectsList(m, node)
    BY <2>1 DEF RejectsList, NoList
  <2>3. Accepts(m, own, "directory") /\ Accepts(m, node, "file")
    BY <1>1, <2>1, <2>2 DEF Accepts, UnixAccepts
  <2> QED
    BY <1>0, <2>1, <2>3
<1>2. CASE ~Unix(m)
  <2>1. /\ own.type = "directory" /\ own.owner = TokenOwner(m) /\ own.open = {}
        /\ own.hands = FALSE
        /\ node.type = "file" /\ node.owner = TokenOwner(m) /\ node.open = {}
    BY <1>2 DEF Made, WindowsMakes, OwnerOnlyList
  <2>2. Accepts(m, own, "directory") /\ Accepts(m, node, "file")
    BY <1>2, <2>1 DEF Accepts, WindowsAccepts, Ours, OwnerOnly, OwnerOnlyList
  <2> QED
    BY <1>0, <2>1, <2>2
<1> QED
  BY <1>1, <1>2

(* Nobody but the machine's owner changes what is on the machine.          *)
LEMMA OnlyConnectWrites ==
  ASSUME [Next]_vars
  PROVE  \/ Boot \/ Restore \/ Stop \/ UNCHANGED machineVars
         \/ \E u \in Clients : Connect(u)
BY DEF Next, vars, machineVars, Run, Step, Serve, SignInWithKey, SignInWithBrowser, GivesUp,
       PollBrowser, PollEnds, Put, Unreachable, TimesOut, Take, Refuse, Dropped, Replace,
       Recover, Report
---------------------------------------------------------------------------
(* The logins.                                                             *)

(* Login u, and no other, gets to a place, and has said something then.    *)
Acts(u, place, said) ==
  /\ login' \in [Clients -> Logins]
  /\ \A v \in Clients \ {u} : login'[v] = login[v]
  /\ login'[u].at = place /\ login'[u].said = said
  /\ login'[u].attempt = login[u].attempt /\ login'[u].mine = login[u].mine

LEMMA EndedIsALogin ==
  ASSUME NEW l \in Logins, NEW said \in Endings
  PROVE  /\ Ended(l, said) \in Logins
         /\ Ended(l, said).at = "over" /\ Ended(l, said).said = said
         /\ Ended(l, said).attempt = l.attempt /\ Ended(l, said).mine = l.mine
<1>1. Ended(l, said) \in Logins
  BY DEF Ended, Logins, Places, Endings
<1>2. Ended(l, said).at = "over" /\ Ended(l, said).said = said
  BY DEF Ended, Logins
<1>3. Ended(l, said).attempt = l.attempt /\ Ended(l, said).mine = l.mine
  BY DEF Ended, Logins
<1> QED
  BY <1>1, <1>2, <1>3

LEMMA EndsActs ==
  ASSUME TypeOK, NEW u \in Clients, NEW said \in Endings, login' = Ends(u, said)
  PROVE  Acts(u, "over", said)
<1>1. login \in [Clients -> Logins]
  BY DEF TypeOK
<1>2. login'[u] = Ended(login[u], said) /\ \A v \in Clients \ {u} : login'[v] = login[v]
  BY <1>1 DEF Ends
<1>3. login' \in [Clients -> Logins]
  BY <1>1, EndedIsALogin DEF Ends
<1> QED
  BY <1>1, <1>2, <1>3, EndedIsALogin DEF Acts

LEMMA GoesActs ==
  ASSUME TypeOK, NEW u \in Clients, NEW place \in Places, login' = Goes(u, place)
  PROVE  Acts(u, place, login[u].said)
<1>1. login \in [Clients -> Logins] /\ login[u] \in Logins
  BY DEF TypeOK
<1>2. /\ login'[u] = [login[u] EXCEPT !.at = place]
      /\ \A v \in Clients \ {u} : login'[v] = login[v]
  BY <1>1 DEF Goes
<1>3. [login[u] EXCEPT !.at = place] \in Logins
  BY <1>1 DEF Logins
<1>4. login' \in [Clients -> Logins]
  BY <1>1, <1>3 DEF Goes
<1>5. /\ login'[u].at = place /\ login'[u].said = login[u].said
      /\ login'[u].attempt = login[u].attempt /\ login'[u].mine = login[u].mine
  BY <1>1, <1>2 DEF Logins
<1> QED
  BY <1>2, <1>4, <1>5 DEF Acts

(* A login that goes on in other words: with the replacement, or another   *)
(* way to sign in.                                                         *)
LEMMA GoesOnActs ==
  ASSUME TypeOK, NEW u \in Clients, NEW place \in Places, NEW key \in BOOLEAN,
         NEW replaced \in BOOLEAN,
         login' = GoesOn(u, place, key, replaced)
  PROVE  Acts(u, place, login[u].said)
<1>1. login \in [Clients -> Logins] /\ login[u] \in Logins
  BY DEF TypeOK
<1> DEFINE l == [login[u] EXCEPT !.at = place, !.key = key, !.replaced = replaced]
<1>2. l \in Logins
  BY <1>1 DEF Logins
<1>3. login'[u] = l /\ \A v \in Clients \ {u} : login'[v] = login[v]
  BY <1>1 DEF GoesOn
<1>4. login' \in [Clients -> Logins]
  BY <1>1, <1>2 DEF GoesOn
<1>5. /\ l.at = place /\ l.said = login[u].said
      /\ l.attempt = login[u].attempt /\ l.mine = login[u].mine
  BY <1>1 DEF Logins
<1> QED
  BY <1>3, <1>4, <1>5 DEF Acts

(* An attempt that was posted, or whose answer was not waited for.         *)
LEMMA PostedActs ==
  ASSUME TypeOK, NEW u \in Clients, NEW a \in Attempts, NEW place \in Places, Posted(u, a, place)
  PROVE  \/ Acts(u, "over", "timed out")
         \/ /\ login' \in [Clients -> Logins]
            /\ \A v \in Clients \ {u} : login'[v] = login[v]
            /\ login'[u].at = place /\ login'[u].said = login[u].said
            /\ login'[u].attempt = a /\ login'[u].mine = login[u].mine \cup {a}
<1>1. login \in [Clients -> Logins] /\ login[u] \in Logins
  BY DEF TypeOK
<1> DEFINE l == [login[u] EXCEPT !.at = place, !.attempt = a, !.mine = login[u].mine \cup {a}]
<1>2. CASE login' = Ends(u, "timed out")
  BY <1>2, EndsActs DEF Endings
<1>3. CASE login' = [login EXCEPT ![u] = l]
  <2>1. l \in Logins
    BY <1>1 DEF Logins
  <2>2. login'[u] = l /\ \A v \in Clients \ {u} : login'[v] = login[v]
    BY <1>1, <1>3
  <2>3. login' \in [Clients -> Logins]
    BY <1>1, <1>3, <2>1
  <2>4. l.at = place /\ l.said = login[u].said /\ l.attempt = a /\ l.mine = login[u].mine \cup {a}
    BY <1>1 DEF Logins
  <2> QED
    BY <2>2, <2>3, <2>4
<1> QED
  BY <1>2, <1>3 DEF Posted

(* What is true of a login all along: which of its attempts are connected, *)
(* where its request is, and what it may have said.                        *)
Truth(u) ==
  LET l == login[u] IN
  /\ l.attempt \in l.mine \cup {None} /\ l.mine \subseteq used
  /\ l.at \notin {"idle", "start", "over"} => l.attempt # None
  /\ request[u] # "none" => l.attempt # None
  /\ l.mine \cap connected \subseteq {l.attempt}
  /\ l.at \notin {"report", "over"} => l.mine \cap connected = {}
  /\ l.at = "report" => l.attempt \in connected
  /\ l.at = "waiting" => request[u] # "none"
  /\ request[u] # "none" => l.at \in {"waiting", "over"}
  /\ request[u] # "working" => commit[u] = None
  /\ request[u] = "working" => commit[u] = l.attempt /\ commit[u] # None
  /\ l.said = "ready" => l.at = "over" /\ l.attempt \in connected
  /\ l.said = "not saved" => l.at = "over" /\ l.mine \cap connected = {} /\ request[u] = "none"

Apart == \A u, v \in Clients : u # v => login[u].mine \cap login[v].mine = {}

TruthInv == TypeOK /\ Apart /\ connected \subseteq used /\ \A u \in Clients : Truth(u)

(* Whoever does not act notices at most that another login has connected.  *)
LEMMA OthersStay ==
  ASSUME TruthInv, NEW u \in Clients, NEW v \in Clients \ {u},
         login'[v] = login[v], request'[v] = request[v], commit'[v] = commit[v],
         used \subseteq used', connected \subseteq connected',
         connected' \subseteq connected \cup login[u].mine
  PROVE  Truth(v)'
<1>1. Truth(v) /\ login[v].mine \cap login[u].mine = {}
  BY DEF TruthInv, Apart
<1>2. login[v].mine \cap connected' = login[v].mine \cap connected
  BY <1>1
<1>3. login[v].mine \subseteq used' /\ (login[v].attempt \in connected => login[v].attempt \in connected')
  BY <1>1 DEF Truth
<1>4. login'[v].mine \cap connected' = login[v].mine \cap connected
  BY <1>2
<1> QED
  BY <1>1, <1>3, <1>4 DEF Truth

(* What a step of one login may touch.                                     *)
Frame(u) ==
  /\ login' \in [Clients -> Logins]
  /\ request' \in [Clients -> {"none", "queued", "working"}]
  /\ \A v \in Clients \ {u} :
       login'[v] = login[v] /\ request'[v] = request[v] /\ commit'[v] = commit[v]
  /\ used \subseteq used' /\ connected \subseteq connected'
  /\ connected' \subseteq connected \cup login[u].mine
  /\ login'[u].mine \subseteq login[u].mine \cup (Attempts \ used)

LEMMA FrameKeeps ==
  ASSUME TruthInv, TypeOK', NEW u \in Clients, Frame(u), Truth(u)'
  PROVE  TruthInv'
<1>1. \A v \in Clients : login[v].mine \subseteq used
  BY DEF TruthInv, Truth
<1>2. connected' \subseteq used'
  BY <1>1 DEF TruthInv, Frame
<1>3. \A v \in Clients : Truth(v)'
  BY OthersStay DEF Frame
<1>4. ASSUME NEW v \in Clients, NEW w \in Clients, v # w
      PROVE  login'[v].mine \cap login'[w].mine = {}
  <2>1. login[v].mine \cap login[w].mine = {}
    BY <1>4 DEF TruthInv, Apart
  <2>2. CASE v = u
    BY <1>1, <1>4, <2>1, <2>2 DEF Frame
  <2>3. CASE w = u
    BY <1>1, <1>4, <2>1, <2>3 DEF Frame
  <2>4. CASE v # u /\ w # u
    BY <2>1, <2>4 DEF Frame
  <2> QED
    BY <2>2, <2>3, <2>4
<1>5. Apart'
  BY <1>4 DEF Apart
<1> QED
  BY <1>2, <1>3, <1>5 DEF TruthInv

(* A login that moves without a request: it says what it may say there.    *)
LEMMA MoveKeeps ==
  ASSUME TruthInv, NEW u \in Clients, NEW place, NEW said, Acts(u, place, said),
         UNCHANGED <<request, commit, connected>>, used \subseteq used', place # "waiting",
         place = "over" \/ login[u].at \notin {"report", "over", "waiting"},
         place \in {"start", "over"} \/ login[u].at \notin {"idle", "start", "over"},
         place = "report" => login[u].attempt \in connected,
         said = "ready" => place = "over" /\ login[u].attempt \in connected,
         said = "not saved" => /\ place = "over" /\ login[u].mine \cap connected = {}
                               /\ request[u] = "none"
  PROVE  Frame(u) /\ Truth(u)'
<1>1. Truth(u) /\ TypeOK
  BY DEF TruthInv
<1>2. Frame(u)
  BY <1>1 DEF Acts, Frame, TypeOK
<1>3. Truth(u)'
  BY <1>1 DEF Acts, Truth
<1> QED
  BY <1>2, <1>3

LEMMA QuietWhileAway ==
  ASSUME TruthInv, NEW u \in Clients
  PROVE  /\ login[u].at # "over" => login[u].said \notin {"ready", "not saved"}
         /\ login[u].at \notin {"over", "waiting"} => request[u] = "none"
         /\ login[u].at \notin {"report", "over"} => login[u].mine \cap connected = {}
         /\ login[u].at = "report" => login[u].attempt \in connected
BY DEF TruthInv, Truth

(* Run and Step.                                                           *)
LEMMA StepKeeps ==
  ASSUME TruthInv, AuthInv, NEW u \in Clients, Run(u) \/ Step(u)
  PROVE  Frame(u) /\ Truth(u)'
<1> DEFINE at == login[u].at
           said == login[u].said
<1>0. TypeOK /\ Truth(u) /\ at \in Places /\ said \in Endings /\ login[u] \in Logins
  BY DEF TruthInv, TypeOK, Logins
<1>1. CASE Run(u)
  <2>1. PICK replaced \in BOOLEAN : login' = GoesOn(u, "start", FALSE, replaced)
    BY <1>1 DEF Run
  <2>2. Acts(u, "start", said)
    BY <1>0, <2>1, GoesOnActs DEF Places
  <2> QED
    BY <1>1, <2>2, MoveKeeps, QuietWhileAway DEF Run, authVars
<1>2. ASSUME NEW a \in Attempts, NEW place \in {"put", "browser"}, at = "start",
             Posted(u, a, place), a \notin used, used' = used \cup {a},
             UNCHANGED <<request, commit, connected>>
      PROVE  Frame(u) /\ Truth(u)'
  <2>1. CASE Acts(u, "over", "timed out")
    BY <1>2, <2>1, MoveKeeps
  <2>2. CASE /\ login' \in [Clients -> Logins]
             /\ \A v \in Clients \ {u} : login'[v] = login[v]
             /\ login'[u].at = place /\ login'[u].said = said
             /\ login'[u].attempt = a /\ login'[u].mine = login[u].mine \cup {a}
    <3>1. Frame(u)
      BY <1>0, <1>2, <2>2 DEF Frame, TypeOK
    <3>2. login'[u].mine \cap connected = {} /\ request[u] = "none"
          /\ said \notin {"ready", "not saved"} /\ a # None
      BY <1>2, <2>2, QuietWhileAway, AuthAssumption DEF TruthInv
    <3>3. Truth(u)'
      BY <1>0, <1>2, <2>2, <3>2 DEF Truth
    <3> QED
      BY <3>1, <3>3
  <2> QED
    BY <1>0, <1>2, <2>1, <2>2, PostedActs DEF Places
<1>3. CASE \E a \in Attempts : SignInWithKey(u, a) \/ SignInWithBrowser(u, a)
  BY <1>2, <1>3 DEF SignInWithKey, SignInWithBrowser, StartApiKey, StartOAuth, Given
<1>4. CASE GivesUp(u)
  BY <1>0, <1>4, EndsActs, MoveKeeps DEF GivesUp, Endings, authVars
<1>5. CASE PollBrowser(u)
  <2>1. UNCHANGED <<request, commit, connected, used>> /\ at = "browser"
    BY <1>5 DEF PollBrowser, Poll
  <2>2. CASE login' = Goes(u, "put")
    BY <1>0, <2>1, <2>2, GoesActs, MoveKeeps, QuietWhileAway DEF Places
  <2>3. CASE login' = login
    BY <1>0, <2>1, <2>3 DEF Frame, Truth, TypeOK
  <2>4. CASE login' = Ends(u, "failed")
    BY <1>0, <2>1, <2>4, EndsActs, MoveKeeps DEF Endings
  <2> QED
    BY <1>5, <2>2, <2>3, <2>4 DEF PollBrowser
<1>6. CASE PollEnds(u)
  BY <1>0, <1>6, EndsActs, MoveKeeps DEF PollEnds, Endings, authVars
<1>7. CASE Put(u)
  <2>1. Acts(u, "waiting", said) /\ request[u] = "none" /\ at = "put"
    BY <1>0, <1>7, GoesActs DEF Put, Places
  <2>2. /\ request' = [request EXCEPT ![u] = "queued"]
        /\ UNCHANGED <<used, commit, connected>>
    BY <1>7 DEF Put, authVars
  <2>3. Frame(u)
    BY <1>0, <2>1, <2>2 DEF Frame, Acts, TypeOK
  <2>4. request'[u] = "queued" /\ said \notin {"ready", "not saved"} /\ commit[u] = None
        /\ login[u].mine \cap connected = {}
    BY <1>0, <2>1, <2>2, QuietWhileAway DEF TypeOK, Truth
  <2>5. Truth(u)'
    BY <1>0, <2>1, <2>2, <2>4 DEF Truth, Acts
  <2> QED
    BY <2>3, <2>5
<1>8. CASE Unreachable(u)
  BY <1>0, <1>8, EndsActs, MoveKeeps DEF Unreachable, Endings, authVars
<1>9. CASE TimesOut(u)
  BY <1>0, <1>9, EndsActs, MoveKeeps DEF TimesOut, Endings, authVars
<1>10. CASE Replace(u)
  <2>1. at = "replacing" /\ UNCHANGED <<request, commit, connected, used>>
    BY <1>10 DEF Replace, authVars
  <2>2. CASE login' = Ends(u, "failed")
    BY <1>0, <2>1, <2>2, EndsActs, MoveKeeps DEF Endings
  <2>3. CASE login' = GoesOn(u, "put", login[u].key, TRUE)
    <3>1. login[u].key \in BOOLEAN
      BY <1>0 DEF Logins
    <3>2. Acts(u, "put", said)
      BY <1>0, <2>3, <3>1, GoesOnActs DEF Places
    <3> QED
      BY <2>1, <3>2, MoveKeeps, QuietWhileAway
  <2> QED
    BY <1>10, <2>2, <2>3 DEF Replace
<1>11. CASE Recover(u)
  <2>1. at = "refused" /\ UNCHANGED <<request, commit, connected, used>>
    BY <1>11 DEF Recover, authVars
  <2>2. CASE login' = Goes(u, "put")
    BY <1>0, <2>1, <2>2, GoesActs, MoveKeeps, QuietWhileAway DEF Places
  <2>3. CASE \E key \in BOOLEAN : login' = GoesOn(u, "start", key, FALSE)
    <3>1. Acts(u, "start", said)
      BY <1>0, <2>3, GoesOnActs DEF Places
    <3> QED
      BY <2>1, <3>1, MoveKeeps, QuietWhileAway
  <2>4. CASE \E s \in {"not saved", "failed"} : login' = Ends(u, s)
    <3>1. PICK s \in {"not saved", "failed"} : login' = Ends(u, s)
      BY <2>4
    <3>2. Acts(u, "over", s)
      BY <1>0, <3>1, EndsActs DEF Endings
    <3> QED
      BY <2>1, <3>2, MoveKeeps, QuietWhileAway
  <2> QED
    BY <1>11, <2>2, <2>3, <2>4 DEF Recover
<1>12. CASE Report(u)
  <2>1. at = "report" /\ UNCHANGED <<request, commit, connected, used>>
    BY <1>12 DEF Report, authVars
  <2>2. PICK s \in {"ready", "failed"} : login' = Ends(u, s)
    BY <1>12 DEF Report
  <2>3. Acts(u, "over", s)
    BY <1>0, <2>2, EndsActs DEF Endings
  <2> QED
    BY <2>1, <2>3, MoveKeeps, QuietWhileAway
<1> QED
  BY <1>1, <1>3, <1>4, <1>5, <1>6, <1>7, <1>8, <1>9, <1>10, <1>11, <1>12 DEF Step

(* An answer: the login gets it, or has given up waiting.                  *)
LEMMA AnsweredActs ==
  ASSUME TruthInv, NEW u \in Clients, NEW place \in Places, Answered(u, place)
  PROVE  /\ request' = [request EXCEPT ![u] = "none"]
         /\ \/ login' = login /\ login[u].at # "waiting"
            \/ login[u].at = "waiting" /\ place # "over" /\ Acts(u, place, login[u].said)
            \/ login[u].at = "waiting" /\ place = "over" /\ Acts(u, "over", "failed")
<1>1. TypeOK
  BY DEF TruthInv
<1> QED
  BY <1>1, EndsActs, GoesActs DEF Answered, Endings

(* The daemon's part.                                                      *)
LEMMA ServeKeeps ==
  ASSUME TruthInv, AuthInv, NEW u \in Clients, Serve(u)
  PROVE  Frame(u) /\ Truth(u)'
<1> DEFINE at == login[u].at
           said == login[u].said
<1>0. TypeOK /\ Truth(u) /\ at \in Places /\ login[u] \in Logins
      /\ commit \in [Clients -> Attempts \cup {None}] /\ None \notin Attempts
  BY AuthAssumption DEF TruthInv, TypeOK, Logins, AuthTypeOK
<1>1. CASE Take(u)
  <2>1. /\ request[u] = "queued" /\ UNCHANGED <<used, connected>> /\ commit[u] = None
        /\ commit' = commit \/ commit' = [commit EXCEPT ![u] = login[u].attempt]
    BY <1>0, <1>1 DEF Take, BeginCommit, Truth
  <2>2. at \in {"waiting", "over"}
    BY <1>0, <2>1 DEF Truth
  <2>3. CASE /\ commit'[u] = login[u].attempt /\ commit'[u] # None
             /\ request' = [request EXCEPT ![u] = "working"] /\ login' = login
    <3>1. Frame(u)
      BY <1>0, <2>1, <2>3 DEF Frame, TypeOK
    <3>2. request'[u] = "working"
      BY <1>0, <2>3 DEF TypeOK
    <3>3. said # "not saved"
      BY <1>0, <2>1 DEF Truth
    <3>4. Truth(u)'
      BY <1>0, <2>1, <2>2, <2>3, <3>2, <3>3 DEF Truth
    <3> QED
      BY <3>1, <3>4
  <2>4. CASE Answered(u, "over") /\ commit'[u] = None
    <3>1. /\ request' = [request EXCEPT ![u] = "none"]
          /\ (login' = login /\ at # "waiting") \/ (at = "waiting" /\ Acts(u, "over", "failed"))
      BY <2>4, AnsweredActs DEF Places
    <3>2. Frame(u)
      BY <1>0, <2>1, <3>1 DEF Frame, TypeOK, Acts
    <3>3. request'[u] = "none"
      BY <1>0, <3>1 DEF TypeOK
    <3>4. Truth(u)'
      BY <1>0, <2>1, <2>2, <2>4, <3>1, <3>3 DEF Truth, Acts
    <3> QED
      BY <3>2, <3>4
  <2> QED
    <3>1. commit'[u] = login[u].attempt \/ commit'[u] = None
      BY <1>0, <2>1
    <3>2. CASE commit'[u] = login[u].attempt /\ commit'[u] # None
      BY <1>1, <2>3, <3>2 DEF Take
    <3>3. CASE commit'[u] = None
      <4>1. login[u].attempt # None
        BY <1>0, <2>1 DEF Truth
      <4> QED
        BY <1>1, <2>4, <3>3, <4>1 DEF Take
    <3> QED
      BY <3>1, <3>2, <3>3
<1>2. CASE Connect(u)
  <2>1. /\ request[u] = "working" /\ commit[u] # None /\ used' = used
        /\ commit' = [commit EXCEPT ![u] = None] /\ connected' = connected \cup {commit[u]}
    BY <1>2 DEF Connect, Commit
  <2>2. PICK place \in {"report", "over"} : Answered(u, place)
    BY <1>2 DEF Connect
  <2>3. /\ request' = [request EXCEPT ![u] = "none"]
        /\ \/ login' = login /\ at # "waiting"
           \/ at = "waiting" /\ Acts(u, "report", said)
           \/ at = "waiting" /\ Acts(u, "over", "failed")
    BY <2>2, AnsweredActs DEF Places
  <2>4. /\ commit[u] = login[u].attempt /\ at \in {"waiting", "over"} /\ said # "not saved"
        /\ at = "waiting" => said # "ready"
    BY <1>0, <2>1 DEF Truth
  <2>5. login[u].attempt \in login[u].mine
    BY <1>0, <2>1, <2>4 DEF Truth
  <2>6. Frame(u)
    BY <1>0, <2>1, <2>3, <2>4, <2>5 DEF Frame, TypeOK, Acts
  <2>7. request'[u] = "none" /\ commit'[u] = None
    BY <1>0, <2>1, <2>3 DEF TypeOK
  <2>8. Truth(u)'
    <3>1. CASE login' = login /\ at # "waiting"
      BY <1>0, <2>1, <2>4, <2>5, <2>7, <3>1 DEF Truth
    <3>2. CASE at = "waiting" /\ Acts(u, "report", said)
      BY <1>0, <2>1, <2>4, <2>5, <2>7, <3>2 DEF Truth, Acts
    <3>3. CASE at = "waiting" /\ Acts(u, "over", "failed")
      BY <1>0, <2>1, <2>4, <2>5, <2>7, <3>3 DEF Truth, Acts
    <3> QED
      BY <2>3, <3>1, <3>2, <3>3
  <2> QED
    BY <2>6, <2>8
<1>3. CASE Refuse(u)
  <2>1. /\ request[u] = "working" /\ UNCHANGED <<used, connected>>
        /\ commit' = [commit EXCEPT ![u] = None]
    BY <1>3 DEF Refuse, CommitFails
  <2>2. PICK place \in {"refused", "replacing", "over"} : Answered(u, place)
    BY <1>3 DEF Refuse
  <2>3. /\ request' = [request EXCEPT ![u] = "none"]
        /\ \/ login' = login /\ at # "waiting"
           \/ at = "waiting" /\ \E p \in {"refused", "replacing"} : Acts(u, p, said)
           \/ at = "waiting" /\ Acts(u, "over", "failed")
    BY <2>2, AnsweredActs DEF Places
  <2>4. at \in {"waiting", "over"} /\ said # "not saved" /\ (at = "waiting" => said # "ready")
    BY <1>0, <2>1 DEF Truth
  <2>5. Frame(u)
    BY <1>0, <2>1, <2>3 DEF Frame, TypeOK, Acts
  <2>6. request'[u] = "none" /\ commit'[u] = None
    BY <1>0, <2>1, <2>3 DEF TypeOK
  <2>7. Truth(u)'
    <3>1. CASE login' = login /\ at # "waiting"
      BY <1>0, <2>1, <2>4, <2>6, <3>1 DEF Truth
    <3>2. CASE at = "waiting" /\ \E p \in {"refused", "replacing"} : Acts(u, p, said)
      BY <1>0, <2>1, <2>4, <2>6, <3>2 DEF Truth, Acts
    <3>3. CASE at = "waiting" /\ Acts(u, "over", "failed")
      BY <1>0, <2>1, <2>4, <2>6, <3>3 DEF Truth, Acts
    <3> QED
      BY <2>3, <3>1, <3>2, <3>3
  <2> QED
    BY <2>5, <2>7
<1>4. CASE Dropped(u)
  <2>1. /\ request[u] # "none" /\ at # "waiting" /\ UNCHANGED <<login, used, connected>>
        /\ request' = [request EXCEPT ![u] = "none"]
        /\ commit' = [commit EXCEPT ![u] = None] \/ (commit' = commit /\ commit[u] = None)
    BY <1>4 DEF Dropped, CommitFails, authVars
  <2>2. Frame(u)
    BY <1>0, <2>1 DEF Frame, TypeOK
  <2>3. request'[u] = "none" /\ commit'[u] = None
    BY <1>0, <2>1 DEF TypeOK
  <2>4. Truth(u)'
    BY <1>0, <2>1, <2>3 DEF Truth
  <2> QED
    BY <2>2, <2>4
<1> QED
  BY <1>1, <1>2, <1>3, <1>4 DEF Serve
---------------------------------------------------------------------------
(* The whole.                                                              *)

LEMMA TypeStep ==
  ASSUME AuthInv, TruthInv, [Next]_vars
  PROVE  TypeOK'
<1>1. TypeOK /\ AuthTypeOK'
  BY NextIsAuth, AuthInvStep DEF TruthInv, AuthInv
<1>2. machine' \in Machines /\ directory' \in Nodes /\ daemon' \in {"down", "up", "refused"}
      /\ file' \in [Attempts -> Nodes]
  <2>1. Ensured(machine, directory) \in Nodes /\ Written(machine, Ensured(machine, directory)) \in Nodes
    BY <1>1, WhatIsThere DEF TypeOK
  <2>2. CASE UNCHANGED machineVars
    BY <1>1, <2>2 DEF TypeOK, machineVars
  <2>3. CASE Boot
    BY <1>1, <2>1, <2>3 DEF TypeOK, Boot
  <2>4. CASE Restore \/ Stop
    BY <1>1, <2>4, LoginAssumption DEF TypeOK, Restore, Stop
  <2>5. CASE \E u \in Clients : Connect(u)
    BY <1>1, <2>1, <2>5 DEF TypeOK, Connect
  <2> QED
    BY <2>2, <2>3, <2>4, <2>5, OnlyConnectWrites
<1>3. login' \in [Clients -> Logins] /\ request' \in [Clients -> {"none", "queued", "working"}]
  <2>1. CASE \E u \in Clients : Run(u) \/ Step(u) \/ Serve(u)
    BY <2>1, StepKeeps, ServeKeeps DEF Frame
  <2>2. CASE Stop
    <3>1. \A u \in Clients : Ended(login[u], "failed") \in Logins
      BY <1>1, EndedIsALogin DEF TypeOK, Endings
    <3> QED
      BY <1>1, <2>2, <3>1 DEF Stop, TypeOK
  <2>3. CASE UNCHANGED <<login, request>>
    BY <1>1, <2>3 DEF TypeOK
  <2> QED
    BY <2>1, <2>2, <2>3 DEF Next, vars, Boot, Restore
<1> QED
  BY <1>1, <1>2, <1>3 DEF TypeOK

LEMMA TruthStep ==
  ASSUME AuthInv, TruthInv, [Next]_vars
  PROVE  TruthInv'
<1>1. TypeOK /\ TypeOK' /\ AuthTypeOK
  BY TypeStep DEF TruthInv, AuthInv
<1>2. CASE \E u \in Clients : Run(u) \/ Step(u) \/ Serve(u)
  BY <1>1, <1>2, StepKeeps, ServeKeeps, FrameKeeps
<1>3. CASE UNCHANGED <<login, request, commit, used, connected>>
  BY <1>1, <1>3 DEF TruthInv, Truth, Apart
<1>4. CASE Stop
  <2>1. UNCHANGED <<used, connected>>
    BY <1>4 DEF Stop, AuthStop
  <2>2. ASSUME NEW u \in Clients
        PROVE  login'[u].mine = login[u].mine /\ Truth(u)'
    <3>1. request'[u] = "none" /\ commit'[u] = None /\ Truth(u) /\ login[u] \in Logins
      BY <1>1, <1>4 DEF Stop, AuthStop, TruthInv, TypeOK
    <3>2. CASE login[u].at = "waiting"
      <4>1. login'[u] = Ended(login[u], "failed")
        BY <1>4, <3>2 DEF Stop
      <4>2. /\ login'[u].at = "over" /\ login'[u].said = "failed"
            /\ login'[u].attempt = login[u].attempt /\ login'[u].mine = login[u].mine
        <5>1. "failed" \in Endings
          BY DEF Endings
        <5> QED
          BY <3>1, <4>1, <5>1, EndedIsALogin
      <4> QED
        BY <2>1, <3>1, <4>2 DEF Truth
    <3>3. CASE login[u].at # "waiting"
      <4>1. login'[u] = login[u]
        BY <1>4, <3>3 DEF Stop
      <4> QED
        BY <2>1, <3>1, <3>3, <4>1 DEF Truth
    <3> QED
      BY <3>2, <3>3
  <2> QED
    BY <1>1, <2>1, <2>2 DEF TruthInv, Apart
<1>5. CASE UNCHANGED vars \/ Boot \/ Restore
  BY <1>3, <1>5 DEF vars, authVars, Boot, Restore
<1>6. CASE /\ Listen \/ \E k \in Callbacks : Browse(k)
           /\ UNCHANGED <<machineVars, login, request>>
  BY <1>3, <1>6 DEF Listen, Browse, Exchanged, Abandon, Callback, Cancel
<1>7. CASE \E a \in Attempts : Ages(a) /\ UNCHANGED <<machineVars, login, request>>
  BY <1>3, <1>7 DEF Ages, Lapse, Timer
<1> QED
  BY <1>2, <1>4, <1>5, <1>6, <1>7 DEF Next

LEMMA FilesStep ==
  ASSUME TruthInv, AuthInv, FilesArePrivate, [Next]_vars
  PROVE  FilesArePrivate'
<1>1. /\ machine \in Machines /\ directory \in Nodes /\ file \in [Attempts -> Nodes]
      /\ connected \subseteq Attempts
  BY DEF TruthInv, TypeOK, AuthInv, AuthTypeOK
<1>2. machine' = machine
  BY OnlyConnectWrites DEF machineVars, Boot, Restore, Stop, Connect
<1>3. CASE \E u \in Clients : Connect(u)
  <2> PICK u \in Clients : Connect(u)
    BY <1>3
  <2> DEFINE there == Ensured(machine, directory)
  <2>1. /\ Written(machine, there) # Absent /\ there \in Nodes
        /\ file' = [file EXCEPT ![commit[u]] = Written(machine, there)]
        /\ connected' = connected \cup {commit[u]} /\ commit[u] \in Attempts
    BY <1>1, WhatIsThere DEF Connect, Commit, AuthInv, AuthTypeOK
  <2>2. Readers(machine, Written(machine, there)) \subseteq Trusted(machine)
    BY <1>1, <2>1, WrittenIsPrivate
  <2> QED
    BY <1>1, <1>2, <2>1, <2>2 DEF FilesArePrivate
<1>4. CASE ~\E u \in Clients : Connect(u)
  <2>1. file' = file
    BY <1>4, OnlyConnectWrites DEF machineVars, Boot, Restore, Stop
  <2>2. connected' = connected
    BY <1>4 DEF Next, vars, authVars, Run, Step, Serve, SignInWithKey, SignInWithBrowser, GivesUp,
       PollBrowser, PollEnds, Put, Unreachable, TimesOut, Take, Refuse, Dropped, Replace,
       Recover, Report, StartApiKey, StartOAuth, Poll, BeginCommit, CommitFails, Boot, Restore,
       Stop, AuthStop, Listen, Browse, Exchanged, Abandon, Callback, Cancel, Ages, Lapse, Timer
  <2> QED
    BY <1>2, <2>1, <2>2 DEF FilesArePrivate
<1> QED
  BY <1>3, <1>4

(* Requests are in a daemon that runs.                                     *)
Serving == \A u \in Clients : request[u] # "none" => daemon = "up"

LEMMA ServingStep ==
  ASSUME TruthInv, Serving, [Next]_vars
  PROVE  Serving'
<1>1. request \in [Clients -> {"none", "queued", "working"}]
  BY DEF TruthInv, TypeOK
<1>2. CASE \E u \in Clients : Run(u) \/ Step(u)
  <2>1. daemon' = daemon /\ (request' = request \/ daemon = "up")
    BY <1>2 DEF Run, Step, SignInWithKey, SignInWithBrowser, GivesUp, PollBrowser, PollEnds,
                Put, Unreachable, TimesOut, Replace, Recover, Report, machineVars
  <2> QED
    BY <2>1 DEF Serving
<1>3. CASE \E u \in Clients : Serve(u)
  <2>1. daemon' = daemon /\ \E u \in Clients : request[u] # "none"
    BY <1>3 DEF Serve, Take, Connect, Refuse, Dropped, machineVars
  <2> QED
    BY <2>1 DEF Serving
<1>4. CASE Boot \/ Restore \/ Stop
  BY <1>4 DEF Boot, Restore, Stop, Serving
<1>5. CASE UNCHANGED <<request, daemon>>
  BY <1>5 DEF Serving
<1> QED
  BY <1>2, <1>3, <1>4, <1>5 DEF Next, vars, machineVars

LEMMA OwnStep ==
  ASSUME TruthInv, Serving, OwnNodesAreAccepted, [Next]_vars
  PROVE  OwnNodesAreAccepted'
<1> DEFINE Own(m) == Made(m, "directory", FALSE)
<1>1. machine \in Machines /\ directory \in Nodes /\ machine' = machine
  BY OnlyConnectWrites DEF TruthInv, TypeOK, machineVars, Boot, Restore, Stop, Connect
<1>2. directory' = Own(machine) => Written(machine, directory') # Absent
  BY <1>1, OwnIsAccepted
<1>3. directory' = Own(machine) => daemon' # "refused"
  <2>1. CASE Boot
    BY <1>1, <2>1, OwnIsAccepted DEF Boot
  <2>2. CASE Restore \/ Stop
    BY <2>2 DEF Restore, Stop
  <2>3. CASE UNCHANGED machineVars
    BY <2>3 DEF OwnNodesAreAccepted, machineVars
  <2>4. CASE \E u \in Clients : Connect(u)
    BY <2>4 DEF Connect, Serving
  <2> QED
    BY <2>1, <2>2, <2>3, <2>4, OnlyConnectWrites
<1> QED
  BY <1>1, <1>2, <1>3 DEF OwnNodesAreAccepted

IInv == AuthInv /\ TruthInv /\ Serving /\ FilesArePrivate /\ OwnNodesAreAccepted

THEOREM Invariance == Spec => []IInv
<1>1. Init => IInv
  <2> SUFFICES ASSUME Init PROVE IInv
    OBVIOUS
  <2>1. AuthInv
    <3>1. AuthTypeOK
      BY GoneIsARecord DEF Init, AuthInit, AuthTypeOK
    <3>2. Unused /\ Sent
      BY DEF Init, AuthInit, Unused, Sent
    <3> QED
      BY <3>1, <3>2 DEF AuthInv
  <2>2. NoLogin \in Logins
    BY DEF NoLogin, Logins, Places, Endings
  <2>3. TypeOK
    <3>1. Absent \in Nodes
      BY DEF Absent, Nodes, Ways
    <3> QED
      BY <2>1, <2>2, <3>1, LoginAssumption DEF Init, TypeOK, AuthInv
  <2>4. TruthInv
    BY <2>3 DEF Init, AuthInit, TruthInv, Truth, Apart, NoLogin
  <2>5. Serving /\ FilesArePrivate
    BY DEF Init, AuthInit, Serving, FilesArePrivate
  <2>6. OwnNodesAreAccepted
    BY <2>3, OwnIsAccepted DEF Init, OwnNodesAreAccepted, TypeOK
  <2> QED
    BY <2>1, <2>4, <2>5, <2>6 DEF IInv
<1>2. IInv /\ [Next]_vars => IInv'
  <2> SUFFICES ASSUME IInv, [Next]_vars PROVE IInv'
    OBVIOUS
  <2>1. AuthInv'
    BY NextIsAuth, AuthInvStep DEF IInv, TruthInv
  <2> QED
    BY <2>1, TruthStep, ServingStep, FilesStep, OwnStep DEF IInv
<1> QED
  BY <1>1, <1>2, PTL DEF Spec

(* Every variable keeps its type.                                          *)
THEOREM TypeCorrect == Spec => []TypeOK
BY Invariance, PTL DEF IInv, TruthInv

(* One code per attempt is sent on, however many browsers send it: the     *)
(* attempt is taken under the lock before the provider is asked.           *)
THEOREM AttemptsAreSingleUse == Spec => []AttemptsRunOnce
<1>1. IInv => AttemptsRunOnce
  BY DEF IInv, AuthInv, Sent, AttemptsRunOnce
<1> QED
  BY <1>1, Invariance, PTL

(* Any number of command lines, that contend for the provider's lock and   *)
(* give up on requests the daemon goes on with: none tells its owner what  *)
(* is not so, and none connects twice.                                     *)
THEOREM LoginsAreTruthful == Spec => []LoginsTellTheTruth
<1>1. IInv => LoginsTellTheTruth
  <2> SUFFICES ASSUME IInv, NEW u \in Clients
               PROVE  /\ login[u].said = "ready" => login[u].attempt \in connected
                      /\ login[u].said = "not saved" => login[u].mine \cap connected = {}
                      /\ Cardinality(login[u].mine \cap connected) <= 1
    BY DEF LoginsTellTheTruth
  <2>1. Truth(u)
    BY DEF IInv, TruthInv
  <2> DEFINE both == login[u].mine \cap connected
  <2>2. both = {} \/ both = {login[u].attempt}
    BY <2>1 DEF Truth
  <2> HIDE DEF both
  <2>3. Cardinality(both) <= 1
    <3>1. CASE both = {}
      BY <3>1, FS_EmptySet
    <3>2. CASE both = {login[u].attempt}
      <4>1. Cardinality({login[u].attempt}) = 1
        BY FS_Singleton
      <4> QED
        BY <3>2, <4>1
    <3> QED
      BY <2>2, <3>1, <3>2
  <2> QED
    BY <2>1, <2>3 DEF Truth, both
<1> QED
  BY <1>1, Invariance, PTL

(* On every machine, and whatever was found there.                         *)
THEOREM PrivateFiles == Spec => []FilesArePrivate
BY Invariance, PTL DEF IInv

THEOREM OwnNodes == Spec => []OwnNodesAreAccepted
BY Invariance, PTL DEF IInv

(* No step makes an attempt that is over anything but forgotten.           *)
THEOREM EndsAreFinal == Spec => OverIsOver
<1>1. IInv /\ [Next]_vars =>
        [\A a \in Attempts :
           Over(attempt[a].status) => Over(attempt'[a].status) \/ attempt'[a] = Gone]_authVars
  <2> SUFFICES ASSUME IInv, [Next]_vars, NEW a \in Attempts, Over(attempt[a].status)
               PROVE  Over(attempt'[a].status) \/ attempt'[a] = Gone
    OBVIOUS
  <2> QED
    BY NextIsAuth, OneAttempt DEF IInv, TruthInv
<1> QED
  BY <1>1, Invariance, PTL DEF Spec, OverIsOver
=============================================================================
