-------------------------- MODULE ProvidersProofs --------------------------
(***************************************************************************)
(* Proofs about the providers of models: the connections to them           *)
(* (Providers), for any number of operations at once, providers, models,   *)
(* accounts and files, and the turns with one of them (ModelTurns), for    *)
(* any answers, refusals and number of turns.                              *)
(***************************************************************************)
EXTENDS Providers, ModelTurns, TLAPS

(* The inductive invariant: the properties say what rows, files and the    *)
(* default are between the steps, and hold only because of what the        *)
(* operations on their way know and hold.                                  *)

(* It has a new file in its hands.                                         *)
Held(k) ==
  \/ k.at \in {"publishing", "syncing"}
  \/ k.at = "recording" /\ k.op \in {"commit", "refresh"}

(* What an operation's record looks like on its way.                       *)
WellFormed(k) ==
  /\ k.op = "idle" => k = Idle
  /\ k.op # "idle" => k.prov # None
  /\ k.op = "catalog" => k.at \in {"discovering", "recording"}
  /\ k.op = "default" => k.at \in {"discovering", "readying", "recording"}
  /\ k.op = "commit" => k.at \in At \ {"idle", "deleting", "renewing"}
  /\ k.op = "refresh" => k.at \in {"renewing", "staging", "publishing", "syncing", "recording", "removing"}
  /\ k.op = "disconnect" => k.at \in {"deleting", "removing"}
  /\ k.new # None <=> Held(k)
  /\ k.old # None <=> k.op = "refresh" \/ k.at = "removing"

(* What it has read of its row is still so.                                *)
KnowsItsRow(k) ==
  k.op \in {"catalog", "default", "refresh"} /\ k.at # "removing" =>
    /\ conn[k.prov] # None /\ k.acct = owner[conn[k.prov]]
    /\ k.op = "refresh" => k.old = conn[k.prov]

Reaches(at) ==
  CASE at = "publishing" -> "staged" [] at = "syncing" -> "published"
    [] OTHER -> IF Unix THEN "durable" ELSE "published"

(* Its new file is as far as it has brought it, and no row names it.       *)
KnowsItsFile(k) ==
  k.new # None =>
    /\ k.acct # None /\ owner[k.new] = k.acct
    /\ file[k.new] = Reaches(k.at)
    /\ k.new \notin Referenced

(* The model it would record has answered with its credential.             *)
KnowsItsModel(k) ==
  /\ k.op = "commit" => k.acct # None
  /\ k.at = "readying" \/ (k.op = "commit" /\ k.at \notin {"idle", "discovering", "removing"})
       \/ (k.op = "default" /\ k.at = "recording") =>
       k.model # None /\ k.model \in k.models
  /\ (k.op = "commit" /\ k.at \notin {"idle", "discovering", "readying", "removing"})
       \/ (k.op = "default" /\ k.at = "recording") =>
       <<k.acct, k.model>> \in ready

(* What it is about to remove is no row's any more.                        *)
KnowsTheOld(k) ==
  k.at = "removing" => k.old \notin Referenced /\ owner[k.old] # None

TaskOK(k) ==
  WellFormed(k) /\ KnowsItsRow(k) /\ KnowsItsFile(k) /\ KnowsItsModel(k) /\ KnowsTheOld(k)

(* Nobody else has its new file, neither to record nor to remove.          *)
Apart ==
  \A t, u \in Tasks : task[t].new # None =>
    task[t].new # task[u].old /\ (t # u => task[t].new # task[u].new)

(* A reference that was never used has no file, two rows never name the    *)
(* same one, and nothing is on its way while the machine is down.          *)
Written == \A s \in Secrets : owner[s] = None => file[s] = "none"
Single == \A p, q \in Providers : conn[p] # None /\ p # q => conn[p] # conn[q]
Resting == ~up => \A t \in Tasks : task[t] = Idle

IInv ==
  /\ TypeOK /\ Written /\ Single /\ Resting /\ Apart
  /\ \A t \in Tasks : TaskOK(task[t])
  /\ RowsHaveSecrets /\ NothingIsLeftBehind /\ DefaultWasReady
---------------------------------------------------------------------------
(* A step of an operation.                                                 *)
Work(t) == Starts(t) \/ Asks(t) \/ Writes(t) \/ Records(t) \/ Cleans(t)

TaskRecords ==
  [op : Ops, at : At, prov : Providers \cup {None}, acct : Accounts \cup {None},
   models : SUBSET Models, model : Models \cup {None}, new : Secrets \cup {None},
   old : Secrets \cup {None}]

Locked ==
  /\ lock \in [Providers -> Tasks \cup {None}]
  /\ task \in [Tasks -> TaskRecords]
  /\ \A t \in Tasks : task[t].prov # None => lock[task[t].prov] = t

LEMMA LockedIsTyped == TypeOK => Locked
BY DEF TypeOK, Locked, TaskRecords

LEMMA IdleIsARecord == Idle \in TaskRecords
BY DEF Idle, TaskRecords, Ops, At

LEMMA DoneIsTyped ==
  ASSUME Locked, NEW t \in Tasks, Done(t)
  PROVE  Locked'
<1>1. task' \in [Tasks -> TaskRecords] /\ lock' \in [Providers -> Tasks \cup {None}]
  BY IdleIsARecord DEF Locked, Done
<1>2. ASSUME NEW u \in Tasks, task'[u].prov # None
      PROVE  lock'[task'[u].prov] = u
  <2>1. u # t /\ task'[u] = task[u]
    BY <1>2 DEF Locked, Done, Idle
  <2>2. task[u].prov \in Providers /\ lock[task[u].prov] = u
    BY <1>2, <2>1 DEF Locked, TaskRecords
  <2>3. task[u].prov # task[t].prov
    BY <1>2, <2>1, <2>2 DEF Locked
  <2> QED
    BY <2>1, <2>2, <2>3 DEF Done, Locked
<1> QED
  BY <1>1, <1>2 DEF Locked

LEMMA BeginsIsTyped ==
  ASSUME Locked, NEW t \in Tasks, NEW p \in Providers, NEW op \in Ops, NEW at \in At,
         NEW a \in Accounts \cup {None}, NEW m \in Models \cup {None},
         NEW old \in Secrets \cup {None}, Begins(t, op, at, p, a, m, old)
  PROVE  Locked'
<1>1. task' = [task EXCEPT ![t] = [Idle EXCEPT !.op = op, !.at = at, !.prov = p,
                                   !.acct = a, !.model = m, !.old = old]]
  BY DEF Begins
<1>2. [Idle EXCEPT !.op = op, !.at = at, !.prov = p, !.acct = a, !.model = m, !.old = old]
        \in TaskRecords
  BY DEF Idle, TaskRecords
<1>3. task' \in [Tasks -> TaskRecords] /\ lock' \in [Providers -> Tasks \cup {None}]
  BY <1>1, <1>2 DEF Locked, Begins
<1>4. ASSUME NEW u \in Tasks, task'[u].prov # None
      PROVE  lock'[task'[u].prov] = u
  <2>1. CASE u = t
    BY <1>1, <2>1 DEF Locked, Begins, Idle
  <2>2. CASE u # t
    <3>1. task'[u] = task[u] /\ task[u].prov \in Providers /\ lock[task[u].prov] = u
      BY <1>1, <1>4, <2>2 DEF Locked, TaskRecords
    <3>2. task[u].prov # p
      BY <3>1, ProvidersAssumption DEF Begins
    <3> QED
      BY <3>1, <3>2 DEF Begins, Locked
  <2> QED
    BY <2>1, <2>2
<1> QED
  BY <1>3, <1>4 DEF Locked

LEMMA MoveIsTyped ==
  ASSUME Locked, NEW t \in Tasks, NEW k \in TaskRecords,
         task' = [task EXCEPT ![t] = k], k.prov = task[t].prov, UNCHANGED lock
  PROVE  Locked'
<1>1. task' \in [Tasks -> TaskRecords]
  BY DEF Locked
<1>2. ASSUME NEW u \in Tasks PROVE task'[u].prov = task[u].prov
  BY DEF Locked
<1> QED
  BY <1>1, <1>2 DEF Locked

Rows ==
  /\ conn \in [Providers -> Secrets \cup {None}]
  /\ catalog \in [Providers -> SUBSET Models]
  /\ default \in [provider : Providers, model : Models]
                   \cup {[provider |-> None, model |-> None]}
Files ==
  /\ file \in [Secrets -> {"none", "staged", "published", "durable"}]
  /\ owner \in [Secrets -> Accounts \cup {None}]
Rest ==
  /\ up \in BOOLEAN /\ ready \subseteq Accounts \X Models
  /\ spilt \subseteq Secrets /\ lost \subseteq Secrets

LEMMA Parts == TypeOK <=> Rows /\ Files /\ Rest /\ Locked
BY DEF TypeOK, Rows, Files, Rest, Locked, TaskRecords

(* What is at hand about the operation that takes a step.                  *)
LEMMA Facts ==
  ASSUME IInv, NEW t \in Tasks
  PROVE  /\ Rows /\ Files /\ Rest /\ Locked /\ task[t] \in TaskRecords /\ TaskOK(task[t])
         /\ task[t].at # "idle" => task[t].prov \in Providers
         /\ task[t].at \in {"publishing", "syncing"} => task[t].new \in Secrets
         /\ task[t].at = "recording" /\ task[t].op \in {"commit", "refresh"} => task[t].new \in Secrets
         /\ task[t].at = "removing" \/ task[t].op = "refresh" => task[t].old \in Secrets
<1>1. Rows /\ Files /\ Rest /\ Locked /\ task[t] \in TaskRecords /\ TaskOK(task[t])
  BY Parts DEF IInv, Locked
<1>2. WellFormed(task[t])
  BY <1>1 DEF TaskOK
<1> QED
  BY <1>1, <1>2 DEF WellFormed, TaskRecords, Held, Idle

LEMMA StartsAreTyped ==
  ASSUME IInv, NEW t \in Tasks, Starts(t)
  PROVE  Locked' /\ UNCHANGED <<rows, files, up, history>>
<1>0. Rows /\ Files /\ Rest /\ Locked
  BY Parts DEF IInv
<1>1. ASSUME NEW p \in Providers, Readable(p)
      PROVE  AccountOf(p) \in Accounts \cup {None} /\ conn[p] \in Secrets \cup {None}
  BY <1>0, <1>1 DEF Readable, Connected, AccountOf, Rows, Files
<1>2. /\ "commit" \in Ops /\ "catalog" \in Ops /\ "default" \in Ops /\ "refresh" \in Ops
      /\ "disconnect" \in Ops
      /\ "discovering" \in At /\ "renewing" \in At /\ "deleting" \in At
  BY DEF Ops, At
<1>3. CASE StartCommit(t)
  <2> PICK p \in Providers, a \in Accounts : Begins(t, "commit", "discovering", p, a, None, None)
    BY <1>3 DEF StartCommit
  <2>1. Locked'
    BY <1>0, <1>1, <1>2, BeginsIsTyped
  <2> QED
    BY <2>1 DEF Begins
<1>4. CASE StartCatalog(t)
  <2> PICK p \in Providers : Readable(p) /\ Begins(t, "catalog", "discovering", p, AccountOf(p), None, None)
    BY <1>4 DEF StartCatalog
  <2>1. Locked'
    BY <1>0, <1>1, <1>2, BeginsIsTyped
  <2> QED
    BY <2>1 DEF Begins
<1>5. CASE StartDefault(t)
  <2> PICK p \in Providers, m \in Models : Readable(p) /\ Begins(t, "default", "discovering", p, AccountOf(p), m, None)
    BY <1>5 DEF StartDefault
  <2>1. Locked'
    BY <1>0, <1>1, <1>2, BeginsIsTyped
  <2> QED
    BY <2>1 DEF Begins
<1>6. CASE StartRefresh(t)
  <2> PICK p \in Providers : Readable(p) /\ Begins(t, "refresh", "renewing", p, AccountOf(p), None, conn[p])
    BY <1>6 DEF StartRefresh
  <2>1. Locked'
    BY <1>0, <1>1, <1>2, BeginsIsTyped
  <2> QED
    BY <2>1 DEF Begins
<1>7. CASE StartDisconnect(t)
  <2> PICK p \in Providers : Begins(t, "disconnect", "deleting", p, None, None, None)
    BY <1>7 DEF StartDisconnect
  <2>1. Locked'
    BY <1>0, <1>1, <1>2, BeginsIsTyped
  <2> QED
    BY <2>1 DEF Begins
<1> QED
  BY <1>3, <1>4, <1>5, <1>6, <1>7 DEF Starts

LEMMA RemovesIsTyped ==
  ASSUME Locked, NEW t \in Tasks, NEW old \in Secrets \cup {None}, Removes(t, old)
  PROVE  Locked'
<1>1. CASE old = None
  BY <1>1, DoneIsTyped DEF Removes
<1>2. CASE old # None
  <2> DEFINE k == [task[t] EXCEPT !.old = old, !.new = None, !.at = "removing"]
  <2>1. task[t] \in TaskRecords /\ "removing" \in At
    BY DEF Locked, At
  <2>2. k \in TaskRecords /\ k.prov = task[t].prov
    BY <2>1 DEF TaskRecords
  <2>3. task' = [task EXCEPT ![t] = k] /\ UNCHANGED lock
    BY <1>2 DEF Removes, Locked
  <2> QED
    BY <2>2, <2>3, MoveIsTyped
<1> QED
  BY <1>1, <1>2

(* Where an operation goes when it neither begins nor ends.                *)
LEMMA GoesIsAMove ==
  ASSUME Locked, NEW t \in Tasks, NEW to \in At, Goes(t, to)
  PROVE  /\ task' = [task EXCEPT ![t] = [task[t] EXCEPT !.at = to]]
         /\ [task[t] EXCEPT !.at = to] \in TaskRecords
<1>1. task \in [Tasks -> TaskRecords] /\ task[t] \in TaskRecords
  BY DEF Locked
<1> QED
  BY <1>1 DEF Goes, TaskRecords

LEMMA DiscoverIsAMove ==
  ASSUME Locked, NEW t \in Tasks, Discover(t)
  PROVE  \E models \in SUBSET Models, m \in Models \cup {None}, to \in {"recording", "readying"} :
           LET k == [task[t] EXCEPT !.models = models, !.model = m, !.at = to] IN
           /\ task' = [task EXCEPT ![t] = k] /\ k \in TaskRecords
           /\ to = "recording" => task[t].op = "catalog" /\ m = task[t].model
           /\ to = "readying" => task[t].op # "catalog" /\ m \in models
<1>0. /\ task \in [Tasks -> TaskRecords] /\ task[t] \in TaskRecords
      /\ "readying" \in At /\ "recording" \in At
  BY DEF Locked, At
<1> PICK models \in SUBSET Models :
      IF task[t].op = "catalog"
        THEN task' = [task EXCEPT ![t].models = models, ![t].at = "recording"]
        ELSE \E m \in Selects(t, models) :
               task' = [task EXCEPT ![t].models = models, ![t].model = m, ![t].at = "readying"]
  BY DEF Discover
<1>1. CASE task[t].op = "catalog"
  <2> DEFINE k == [task[t] EXCEPT !.models = models, !.model = task[t].model, !.at = "recording"]
  <2>1. k = [task[t] EXCEPT !.models = models, !.at = "recording"]
    BY <1>0 DEF TaskRecords
  <2>2. task' = [task EXCEPT ![t] = k]
    BY <1>0, <1>1, <2>1
  <2>3. k \in TaskRecords /\ task[t].model \in Models \cup {None}
    BY <1>0 DEF TaskRecords
  <2> QED
    BY <1>1, <2>2, <2>3
<1>2. CASE task[t].op # "catalog"
  <2> PICK m \in Selects(t, models) :
        task' = [task EXCEPT ![t].models = models, ![t].model = m, ![t].at = "readying"]
    BY <1>2
  <2> DEFINE k == [task[t] EXCEPT !.models = models, !.model = m, !.at = "readying"]
  <2>1. m \in models /\ m \in Models
    BY DEF Selects
  <2>2. task' = [task EXCEPT ![t] = k]
    BY <1>0
  <2>3. k \in TaskRecords
    BY <1>0, <2>1 DEF TaskRecords
  <2> QED
    BY <1>2, <2>1, <2>2, <2>3
<1> QED
  BY <1>1, <1>2

LEMMA StageIsAMove ==
  ASSUME Locked, NEW t \in Tasks, Stage(t)
  PROVE  \E s \in Secrets :
           LET k == [task[t] EXCEPT !.new = s, !.at = "publishing"] IN
           /\ task' = [task EXCEPT ![t] = k] /\ k \in TaskRecords
           /\ owner[s] = None
           /\ owner' = [owner EXCEPT ![s] = task[t].acct]
           /\ file' = [file EXCEPT ![s] = "staged"]
<1>0. task \in [Tasks -> TaskRecords] /\ task[t] \in TaskRecords /\ "publishing" \in At
  BY DEF Locked, At
<1> PICK s \in Secrets :
      /\ owner[s] = None
      /\ owner' = [owner EXCEPT ![s] = task[t].acct]
      /\ file' = [file EXCEPT ![s] = "staged"]
      /\ task' = [task EXCEPT ![t].new = s, ![t].at = "publishing"]
  BY DEF Stage
<1> DEFINE k == [task[t] EXCEPT !.new = s, !.at = "publishing"]
<1>1. task' = [task EXCEPT ![t] = k]
  BY <1>0
<1>2. k \in TaskRecords
  BY <1>0 DEF TaskRecords
<1> QED
  BY <1>1, <1>2

LEMMA MovesAreTyped ==
  ASSUME Locked, NEW t \in Tasks, Discover(t) \/ Answer(t) \/ Renew(t) \/ Stage(t) \/ Publish(t) \/ SyncDirectory(t)
  PROVE  Locked' /\ UNCHANGED lock
<1>0. task[t] \in TaskRecords /\ "staging" \in At /\ "recording" \in At /\ "syncing" \in At
  BY DEF Locked, At
<1>1. CASE \E to \in At : Goes(t, to) /\ UNCHANGED lock
  <2> PICK to \in At : Goes(t, to) /\ UNCHANGED lock
    BY <1>1
  <2> DEFINE k == [task[t] EXCEPT !.at = to]
  <2>1. k.prov = task[t].prov
    BY <1>0 DEF TaskRecords
  <2>2. task' = [task EXCEPT ![t] = k] /\ k \in TaskRecords
    BY GoesIsAMove
  <2> HIDE DEF k
  <2> QED
    BY <2>1, <2>2, MoveIsTyped
<1>2. CASE Discover(t)
  <2> PICK models \in SUBSET Models, m \in Models \cup {None}, to \in {"recording", "readying"} :
        LET k == [task[t] EXCEPT !.models = models, !.model = m, !.at = to] IN
        task' = [task EXCEPT ![t] = k] /\ k \in TaskRecords
    BY <1>2, DiscoverIsAMove
  <2>1. [task[t] EXCEPT !.models = models, !.model = m, !.at = to].prov = task[t].prov
    BY <1>0 DEF TaskRecords
  <2> QED
    BY <1>2, <2>1, MoveIsTyped DEF Discover
<1>3. CASE Stage(t)
  <2> PICK s \in Secrets :
        LET k == [task[t] EXCEPT !.new = s, !.at = "publishing"] IN
        task' = [task EXCEPT ![t] = k] /\ k \in TaskRecords
    BY <1>3, StageIsAMove
  <2>1. [task[t] EXCEPT !.new = s, !.at = "publishing"].prov = task[t].prov
    BY <1>0 DEF TaskRecords
  <2> QED
    BY <1>3, <2>1, MoveIsTyped DEF Stage
<1> QED
  BY <1>0, <1>1, <1>2, <1>3 DEF Answer, Renew, Publish, SyncDirectory

LEMMA WorkIsTyped ==
  ASSUME IInv, NEW t \in Tasks, Work(t)
  PROVE  Locked'
<1>0. Locked /\ Rows /\ task[t] \in TaskRecords /\ (task[t].at # "idle" => task[t].prov \in Providers)
  BY Facts
<1>1. CASE Starts(t)
  BY <1>1, StartsAreTyped
<1>2. CASE Discover(t) \/ Answer(t) \/ Renew(t) \/ Stage(t) \/ Publish(t) \/ SyncDirectory(t)
  BY <1>0, <1>2, MovesAreTyped
<1>3. CASE Done(t)
  BY <1>0, <1>3, DoneIsTyped
<1>4. CASE \E old \in Secrets \cup {None} : Removes(t, old)
  BY <1>0, <1>4, RemovesIsTyped
<1>5. task[t].at \in {"recording", "deleting"} => conn[task[t].prov] \in Secrets \cup {None}
  BY <1>0 DEF Rows
<1>6. task[t].old \in Secrets \cup {None}
  BY <1>0 DEF TaskRecords
<1>7. CASE Commit(t) \/ ReplaceReference(t) \/ DeleteConnection(t)
  BY <1>3, <1>4, <1>5, <1>6, <1>7 DEF Commit, ReplaceReference, DeleteConnection
<1>8. CASE \/ Refused(t) \/ WriteFails(t) \/ CommitFails(t) \/ ReplaceCatalog(t) \/ SetDefault(t)
           \/ ReplaceFails(t) \/ RemoveFile(t) \/ RemoveFails(t)
  BY <1>3, <1>8 DEF Refused, WriteFails, CommitFails, ReplaceCatalog, SetDefault, ReplaceFails,
                    RemoveFile, RemoveFails
<1> QED
  BY <1>1, <1>2, <1>7, <1>8 DEF Work, Asks, Writes, Records, Cleans

LEMMA RowsAreTyped ==
  ASSUME IInv, NEW t \in Tasks, Work(t)
  PROVE  Rows'
<1>0. /\ Rows /\ task[t] \in TaskRecords /\ TaskOK(task[t])
      /\ (task[t].at # "idle" => task[t].prov \in Providers)
  BY Facts
<1>1. CASE UNCHANGED rows
  BY <1>0, <1>1 DEF Rows, rows
<1>2. CASE Commit(t)
  <2>1. /\ task[t].new \in Secrets \cup {None} /\ task[t].models \in SUBSET Models
        /\ task[t].model \in Models /\ task[t].prov \in Providers
    BY <1>0, <1>2 DEF Commit, TaskRecords, TaskOK, KnowsItsModel
  <2> QED
    BY <1>0, <1>2, <2>1 DEF Commit, Rows
<1>3. CASE ReplaceCatalog(t)
  BY <1>0, <1>3 DEF ReplaceCatalog, Rows, TaskRecords
<1>4. CASE SetDefault(t)
  <2>1. /\ task[t].models \in SUBSET Models
        /\ task[t].model \in Models /\ task[t].prov \in Providers
    BY <1>0, <1>4 DEF SetDefault, TaskRecords, TaskOK, KnowsItsModel
  <2> QED
    BY <1>0, <1>4, <2>1 DEF SetDefault, Rows
<1>5. CASE ReplaceReference(t)
  BY <1>0, <1>5 DEF ReplaceReference, Rows, TaskRecords
<1>6. CASE DeleteConnection(t)
  BY <1>0, <1>6 DEF DeleteConnection, Rows, TaskRecords
<1>7. CASE Starts(t)
  BY <1>1, <1>7, StartsAreTyped
<1> QED
  BY <1>1, <1>2, <1>3, <1>4, <1>5, <1>6, <1>7
     DEF Work, Asks, Writes, Records, Cleans, Refused, Discover, Answer, Renew, Stage, Publish,
         SyncDirectory, WriteFails, CommitFails, ReplaceFails, RemoveFile, RemoveFails

LEMMA FilesAreTyped ==
  ASSUME IInv, NEW t \in Tasks, Work(t)
  PROVE  Files'
<1>0. Files /\ task[t] \in TaskRecords
  BY Facts
<1>1. CASE UNCHANGED files
  BY <1>0, <1>1 DEF Files, files
<1>2. CASE Stage(t)
  BY <1>0, <1>2 DEF Stage, Files, TaskRecords
<1>3. CASE /\ UNCHANGED owner
           /\ \E s \in Secrets \cup {None}, x \in {"none", "published", "durable"} :
                file' = [file EXCEPT ![s] = x]
  BY <1>0, <1>3 DEF Files
<1>4. task[t].new \in Secrets \cup {None} /\ task[t].old \in Secrets \cup {None}
  BY <1>0 DEF TaskRecords
<1>5. CASE Publish(t) \/ SyncDirectory(t) \/ WriteFails(t) \/ CommitFails(t) \/ RemoveFile(t)
  BY <1>1, <1>3, <1>4, <1>5 DEF Publish, SyncDirectory, WriteFails, CommitFails, Discards, RemoveFile, files
<1>6. CASE ReplaceReference(t)
  BY <1>1, <1>3, <1>4, <1>6 DEF ReplaceReference, Discards, files
<1>7. CASE Starts(t)
  BY <1>1, <1>7, StartsAreTyped
<1> QED
  BY <1>1, <1>2, <1>5, <1>6, <1>7
     DEF Work, Asks, Writes, Records, Cleans, Refused, Discover, Answer, Renew, Commit,
         ReplaceCatalog, SetDefault, ReplaceFails, DeleteConnection, RemoveFails

LEMMA RestIsTyped ==
  ASSUME IInv, NEW t \in Tasks, Work(t)
  PROVE  Rest'
<1>0. Rest /\ task[t] \in TaskRecords /\ TaskOK(task[t])
  BY Facts
<1>1. CASE UNCHANGED <<up, history>>
  BY <1>0, <1>1 DEF Rest, history
<1>2. CASE Answer(t)
  <2>1. WellFormed(task[t]) /\ KnowsItsModel(task[t]) /\ KnowsItsRow(task[t])
    BY <1>0 DEF TaskOK
  <2>2. task[t].op \in {"commit", "default"} /\ task[t].model \in Models
    BY <1>0, <1>2, <2>1 DEF Answer, WellFormed, KnowsItsModel, TaskRecords, Ops, Idle
  <2>3. task[t].op = "default" => task[t].acct # None
    BY <1>0, <1>2, <2>1, Facts DEF Answer, KnowsItsRow, IInv, RowsHaveSecrets
  <2>4. task[t].acct \in Accounts
    BY <1>0, <1>2, <2>1, <2>2, <2>3 DEF KnowsItsModel, TaskRecords
  <2> QED
    BY <1>0, <1>2, <2>2, <2>4 DEF Answer, Rest
<1>3. CASE ReplaceFails(t) \/ RemoveFails(t) \/ WriteFails(t) \/ CommitFails(t) \/ ReplaceReference(t)
  <2>1. ~RemoveFails(t) => task[t].new \in Secrets
    BY <1>3, Facts DEF ReplaceFails, WriteFails, CommitFails, ReplaceReference
  <2>2. RemoveFails(t) => task[t].old \in Secrets
    BY Facts DEF RemoveFails
  <2>3. \/ UNCHANGED <<up, history>>
        \/ \E s \in Secrets : spilt' = spilt \cup {s} /\ UNCHANGED <<up, ready, lost>>
    BY <1>3, <2>1, <2>2
       DEF ReplaceFails, RemoveFails, WriteFails, CommitFails, ReplaceReference, Discards, history
  <2> QED
    BY <1>0, <1>1, <2>3 DEF Rest
<1>4. CASE Starts(t)
  BY <1>1, <1>4, StartsAreTyped
<1> QED
  BY <1>1, <1>2, <1>3, <1>4
     DEF Work, Asks, Writes, Records, Cleans, Refused, Discover, Renew, Stage, Publish,
         SyncDirectory, Commit, ReplaceCatalog, SetDefault, DeleteConnection, RemoveFile, history
---------------------------------------------------------------------------
(* What a step leaves alone: the records of the others, the credentials    *)
(* that were written, the rows of other providers, and all files but its   *)
(* own and the one it was told to remove.                                  *)
Frame(t) ==
  /\ \A u \in Tasks : u # t => task'[u] = task[u]
  /\ \A s \in Secrets : owner[s] # None => owner'[s] = owner[s]
  /\ ready \subseteq ready' /\ UNCHANGED lost
  /\ \A p \in Providers : p # task[t].prov => conn'[p] = conn[p]
  /\ \A s \in Secrets : file'[s] # file[s] =>
        \/ owner[s] = None \/ s = task[t].new
        \/ s = task[t].old /\ task[t].at = "removing"
  /\ Referenced' \subseteq Referenced \cup {task[t].new}

LEMMA OthersRest ==
  ASSUME Locked, NEW t \in Tasks,
         \/ Starts(t) \/ Done(t) \/ Discover(t) \/ Stage(t)
         \/ \E to \in At : Goes(t, to)
         \/ \E old \in Secrets \cup {None} : Removes(t, old)
  PROVE  \A u \in Tasks : u # t => task'[u] = task[u]
<1>0. task \in [Tasks -> TaskRecords]
  BY DEF Locked
<1>1. CASE Starts(t)
  BY <1>0, <1>1 DEF Starts, StartCommit, StartCatalog, StartDefault, StartRefresh, StartDisconnect, Begins
<1>2. CASE Done(t) \/ \E to \in At : Goes(t, to)
  BY <1>0, <1>2 DEF Done, Goes
<1>3. CASE Discover(t)
  BY <1>0, <1>3, DiscoverIsAMove
<1>4. CASE Stage(t)
  BY <1>0, <1>4, StageIsAMove
<1>5. CASE \E old \in Secrets \cup {None} : Removes(t, old)
  BY <1>0, <1>5 DEF Removes, Done
<1> QED
  BY <1>1, <1>2, <1>3, <1>4, <1>5

LEMMA Steps ==
  ASSUME IInv, NEW t \in Tasks, Work(t)
  PROVE  \A u \in Tasks : u # t => task'[u] = task[u]
<1>0. /\ Locked /\ Rows /\ task[t] \in TaskRecords
      /\ (task[t].at # "idle" => task[t].prov \in Providers)
      /\ "staging" \in At /\ "recording" \in At /\ "syncing" \in At
  BY Facts DEF At
<1>1. CASE \/ Starts(t) \/ Done(t) \/ Discover(t) \/ Stage(t) \/ \E to \in At : Goes(t, to)
           \/ \E old \in Secrets \cup {None} : Removes(t, old)
  BY <1>0, <1>1, OthersRest
<1>2. task[t].at \in {"recording", "deleting"} => conn[task[t].prov] \in Secrets \cup {None}
  BY <1>0 DEF Rows
<1>3. task[t].old \in Secrets \cup {None}
  BY <1>0 DEF TaskRecords
<1>4. CASE Commit(t) \/ ReplaceReference(t) \/ DeleteConnection(t)
  BY <1>1, <1>2, <1>3, <1>4 DEF Commit, ReplaceReference, DeleteConnection
<1>5. CASE Answer(t) \/ Renew(t) \/ Publish(t) \/ SyncDirectory(t)
  BY <1>0, <1>1, <1>5 DEF Answer, Renew, Publish, SyncDirectory
<1>6. CASE \/ Refused(t) \/ WriteFails(t) \/ CommitFails(t) \/ ReplaceCatalog(t) \/ SetDefault(t)
           \/ ReplaceFails(t) \/ RemoveFile(t) \/ RemoveFails(t)
  BY <1>1, <1>6 DEF Refused, WriteFails, CommitFails, ReplaceCatalog, SetDefault, ReplaceFails,
                    RemoveFile, RemoveFails
<1> QED
  BY <1>1, <1>4, <1>5, <1>6 DEF Work, Asks, Writes, Records, Cleans

(* Of the files a step changes one at most, of the rows one at most.       *)
LEMMA WorkIsFramed ==
  ASSUME IInv, NEW t \in Tasks, Work(t)
  PROVE  Frame(t)
<1>0. /\ Locked /\ Rows /\ Files /\ Rest /\ task[t] \in TaskRecords
      /\ (task[t].at # "idle" => task[t].prov \in Providers)
  BY Facts
<1>1. \A u \in Tasks : u # t => task'[u] = task[u]
  BY Steps
<1>2. \A s \in Secrets : owner[s] # None => owner'[s] = owner[s]
  <2>1. CASE UNCHANGED owner
    BY <2>1
  <2>2. CASE Stage(t)
    BY <1>0, <2>2 DEF Stage, Files
  <2>3. CASE Starts(t)
    BY <2>1, <2>3, StartsAreTyped DEF files
  <2> QED
    BY <2>1, <2>2, <2>3
       DEF Work, Asks, Writes, Records, Cleans, Refused, Discover, Answer, Renew, Publish,
           SyncDirectory, WriteFails, Commit, CommitFails, ReplaceCatalog, SetDefault,
           ReplaceReference, ReplaceFails, DeleteConnection, RemoveFile, RemoveFails, files
<1>3. ready \subseteq ready' /\ UNCHANGED lost
  <2>1. CASE UNCHANGED <<ready, lost>>
    BY <2>1
  <2>2. CASE Answer(t)
    BY <2>2 DEF Answer
  <2>3. CASE Starts(t)
    BY <2>1, <2>3, StartsAreTyped DEF history
  <2> QED
    BY <2>1, <2>2, <2>3
       DEF Work, Asks, Writes, Records, Cleans, Refused, Discover, Renew, Stage, Publish,
           SyncDirectory, WriteFails, Commit, CommitFails, ReplaceCatalog, SetDefault,
           ReplaceReference, ReplaceFails, DeleteConnection, RemoveFile, RemoveFails, history
<1>4. /\ \A p \in Providers : p # task[t].prov => conn'[p] = conn[p]
      /\ Referenced' \subseteq Referenced \cup {task[t].new}
  <2>1. CASE UNCHANGED conn
    BY <2>1 DEF Referenced
  <2>2. CASE \E s \in {None, task[t].new} : conn' = [conn EXCEPT ![task[t].prov] = s]
    BY <1>0, <2>2 DEF Referenced, Rows
  <2>3. CASE Commit(t) \/ ReplaceReference(t) \/ DeleteConnection(t)
    BY <2>1, <2>2, <2>3 DEF Commit, ReplaceReference, DeleteConnection
  <2>4. CASE Starts(t)
    BY <2>1, <2>4, StartsAreTyped DEF rows
  <2> QED
    BY <2>1, <2>3, <2>4
       DEF Work, Asks, Writes, Records, Cleans, Refused, Discover, Answer, Renew, Stage, Publish,
           SyncDirectory, WriteFails, CommitFails, ReplaceCatalog, SetDefault, ReplaceFails,
           RemoveFile, RemoveFails, rows
<1>5. \A s \in Secrets : file'[s] # file[s] =>
        \/ owner[s] = None \/ s = task[t].new
        \/ s = task[t].old /\ task[t].at = "removing"
  <2>1. CASE UNCHANGED file
    BY <2>1
  <2>2. CASE Stage(t)
    BY <1>0, <2>2 DEF Stage, Files
  <2>3. CASE Publish(t) \/ SyncDirectory(t) \/ WriteFails(t) \/ CommitFails(t)
    BY <1>0, <2>3 DEF Publish, SyncDirectory, WriteFails, CommitFails, Discards, Files
  <2>4. CASE ReplaceReference(t)
    BY <1>0, <2>1, <2>4 DEF ReplaceReference, Discards, Files
  <2>5. CASE RemoveFile(t)
    BY <1>0, <2>5 DEF RemoveFile, Files
  <2>6. CASE Starts(t)
    BY <2>1, <2>6, StartsAreTyped DEF files
  <2> QED
    BY <2>1, <2>2, <2>3, <2>4, <2>5, <2>6
       DEF Work, Asks, Writes, Records, Cleans, Refused, Discover, Answer, Renew, Commit,
           ReplaceCatalog, SetDefault, ReplaceFails, DeleteConnection, RemoveFails, files
<1> QED
  BY <1>1, <1>2, <1>3, <1>4, <1>5 DEF Frame

(* So what the others know stays true.                                     *)
LEMMA OthersAreOK ==
  ASSUME IInv, NEW t \in Tasks, Frame(t), NEW u \in Tasks, u # t
  PROVE  TaskOK(task[u])'
<1> DEFINE k == task[u]
<1>0. /\ Locked /\ Rows /\ Files /\ k \in TaskRecords /\ TaskOK(k)
      /\ (k.at # "idle" => k.prov \in Providers)
  BY Facts
<1>1. k' = k
  BY DEF Frame
<1>2. WellFormed(k) /\ KnowsItsRow(k) /\ KnowsItsFile(k) /\ KnowsItsModel(k) /\ KnowsTheOld(k)
  BY <1>0 DEF TaskOK
<1>3. k.prov # None => k.prov # task[t].prov
  BY <1>0 DEF Locked
<1>4. WellFormed(k)'
  BY <1>1, <1>2 DEF WellFormed, Held, Idle
<1>5. KnowsItsRow(k)'
  <2> SUFFICES ASSUME k.op \in {"catalog", "default", "refresh"}, k.at # "removing"
               PROVE  /\ conn'[k.prov] # None /\ k.acct = owner'[conn'[k.prov]]
                      /\ k.op = "refresh" => k.old = conn'[k.prov]
    BY <1>1 DEF KnowsItsRow
  <2>1. k.prov \in Providers /\ k.prov # task[t].prov
    BY <1>0, <1>2, <1>3 DEF WellFormed, TaskRecords
  <2>2. conn'[k.prov] = conn[k.prov] /\ conn[k.prov] \in Secrets /\ owner[conn[k.prov]] # None
    BY <1>0, <1>2, <2>1 DEF Frame, KnowsItsRow, IInv, RowsHaveSecrets, Rows
  <2>3. owner'[conn[k.prov]] = owner[conn[k.prov]]
    BY <2>2 DEF Frame
  <2> QED
    BY <1>2, <2>2, <2>3 DEF KnowsItsRow
<1>6. KnowsItsFile(k)'
  <2> SUFFICES ASSUME k.new # None
               PROVE  /\ k.acct # None /\ owner'[k.new] = k.acct
                      /\ file'[k.new] = Reaches(k.at) /\ k.new \notin Referenced'
    BY <1>1 DEF KnowsItsFile, Reaches
  <2>1. /\ k.new \in Secrets /\ owner[k.new] = k.acct /\ k.acct # None
        /\ file[k.new] = Reaches(k.at) /\ k.new \notin Referenced
    BY <1>0, <1>2 DEF KnowsItsFile, TaskRecords
  <2>2. k.new # task[t].new /\ k.new # task[t].old
    BY DEF IInv, Apart
  <2> QED
    BY <2>1, <2>2 DEF Frame
<1>7. KnowsItsModel(k)'
  BY <1>1, <1>2 DEF KnowsItsModel, Frame
<1>8. KnowsTheOld(k)'
  <2> SUFFICES ASSUME k.at = "removing"
               PROVE  k.old \notin Referenced' /\ owner'[k.old] # None
    BY <1>1 DEF KnowsTheOld
  <2>1. k.old \in Secrets /\ k.old \notin Referenced /\ owner[k.old] # None
    BY <1>0, <1>2 DEF KnowsTheOld, WellFormed, TaskRecords
  <2>2. k.old # task[t].new
    BY <2>1, ProvidersAssumption DEF IInv, Apart
  <2> QED
    BY <2>1, <2>2 DEF Frame
<1> QED
  BY <1>4, <1>5, <1>6, <1>7, <1>8 DEF TaskOK
---------------------------------------------------------------------------
(* What the operation itself knows after its step.                         *)
LEMMA IdleIsOK ==
  ASSUME NEW t \in Tasks, task'[t] = Idle
  PROVE  TaskOK(task[t])'
<1>1. /\ Idle.op = "idle" /\ Idle.at = "idle" /\ Idle.new = None /\ Idle.old = None
  BY DEF Idle
<1> QED
  BY <1>1 DEF TaskOK, WellFormed, Held, KnowsItsRow, KnowsItsFile, KnowsItsModel, KnowsTheOld

LEMMA DoneIsOK ==
  ASSUME Locked, NEW t \in Tasks, Done(t)
  PROVE  TaskOK(task[t])'
<1>1. task'[t] = Idle
  BY DEF Locked, Done
<1> QED
  BY <1>1, IdleIsOK

LEMMA StartIsOK ==
  ASSUME IInv, NEW t \in Tasks, Starts(t)
  PROVE  TaskOK(task[t])'
<1>0. task \in [Tasks -> TaskRecords] /\ UNCHANGED <<conn, owner>>
  BY Facts, StartsAreTyped DEF Locked, rows, files
<1>1. ASSUME NEW op, NEW at, NEW p \in Providers, NEW a, NEW m, NEW old,
             Begins(t, op, at, p, a, m, old)
      PROVE  /\ task'[t] = [Idle EXCEPT !.op = op, !.at = at, !.prov = p, !.acct = a,
                                        !.model = m, !.old = old]
             /\ task'[t].op = op /\ task'[t].at = at /\ task'[t].prov = p /\ task'[t].acct = a
             /\ task'[t].model = m /\ task'[t].old = old /\ task'[t].new = None
  BY <1>0, <1>1 DEF Begins, Idle
<1>2. ASSUME NEW p \in Providers, NEW a,
             \/ task'[t].op = "commit" /\ a # None
             \/ /\ task'[t].op \in {"catalog", "default", "refresh"}
                /\ conn[p] # None /\ a = owner[conn[p]]
             \/ task'[t].op = "disconnect",
             task'[t].op = "refresh" <=> task'[t].old # None,
             task'[t].op = "refresh" => task'[t].old = conn[p],
             task'[t].at = CASE task'[t].op = "refresh" -> "renewing"
                             [] task'[t].op = "disconnect" -> "deleting"
                             [] OTHER -> "discovering",
             task'[t].prov = p, task'[t].acct = a, task'[t].new = None
      PROVE  TaskOK(task[t])'
  <2>1. p # None
    BY ProvidersAssumption
  <2>2. WellFormed(task[t])'
    BY <1>2, <2>1 DEF WellFormed, Held, At
  <2>3. KnowsItsRow(task[t])'
    BY <1>0, <1>2 DEF KnowsItsRow
  <2>4. KnowsItsModel(task[t])'
    BY <1>2 DEF KnowsItsModel
  <2>5. KnowsItsFile(task[t])' /\ KnowsTheOld(task[t])'
    BY <1>2 DEF KnowsItsFile, KnowsTheOld
  <2> QED
    BY <2>2, <2>3, <2>4, <2>5 DEF TaskOK
<1>3. CASE StartCommit(t)
  <2> PICK p \in Providers, a \in Accounts :
        Begins(t, "commit", "discovering", p, a, None, None)
    BY <1>3 DEF StartCommit
  <2>1. /\ task'[t].op = "commit" /\ task'[t].at = "discovering" /\ task'[t].prov = p
        /\ task'[t].acct = a /\ task'[t].old = None /\ task'[t].new = None
    BY <1>1
  <2>2. a # None
    BY ProvidersAssumption
  <2> QED
    BY <1>2, <2>1, <2>2
<1>4. CASE StartCatalog(t)
  <2> PICK p \in Providers :
        Readable(p) /\ Begins(t, "catalog", "discovering", p, AccountOf(p), None, None)
    BY <1>4 DEF StartCatalog
  <2>1. /\ task'[t].op = "catalog" /\ task'[t].at = "discovering" /\ task'[t].prov = p
        /\ task'[t].acct = AccountOf(p) /\ task'[t].old = None /\ task'[t].new = None
    BY <1>1
  <2>2. conn[p] # None /\ AccountOf(p) = owner[conn[p]]
    BY DEF Readable, Connected, AccountOf
  <2> QED
    BY <1>2, <2>1, <2>2
<1>5. CASE StartDefault(t)
  <2> PICK p \in Providers, m \in Models :
        Readable(p) /\ Begins(t, "default", "discovering", p, AccountOf(p), m, None)
    BY <1>5 DEF StartDefault
  <2>1. /\ task'[t].op = "default" /\ task'[t].at = "discovering" /\ task'[t].prov = p
        /\ task'[t].acct = AccountOf(p) /\ task'[t].old = None /\ task'[t].new = None
    BY <1>1
  <2>2. conn[p] # None /\ AccountOf(p) = owner[conn[p]]
    BY DEF Readable, Connected, AccountOf
  <2> QED
    BY <1>2, <2>1, <2>2
<1>6. CASE StartRefresh(t)
  <2> PICK p \in Providers :
        Readable(p) /\ Begins(t, "refresh", "renewing", p, AccountOf(p), None, conn[p])
    BY <1>6 DEF StartRefresh
  <2>1. /\ task'[t].op = "refresh" /\ task'[t].at = "renewing" /\ task'[t].prov = p
        /\ task'[t].acct = AccountOf(p) /\ task'[t].old = conn[p] /\ task'[t].new = None
    BY <1>0 DEF Begins, Idle
  <2>2. conn[p] # None /\ AccountOf(p) = owner[conn[p]]
    BY DEF Readable, Connected, AccountOf
  <2> QED
    BY <1>2, <2>1, <2>2
<1>7. CASE StartDisconnect(t)
  <2> PICK p \in Providers :
        Begins(t, "disconnect", "deleting", p, None, None, None)
    BY <1>7 DEF StartDisconnect
  <2>1. /\ task'[t].op = "disconnect" /\ task'[t].at = "deleting" /\ task'[t].prov = p
        /\ task'[t].acct = None /\ task'[t].old = None /\ task'[t].new = None
    BY <1>1
  <2> QED
    BY <1>2, <2>1
<1> QED
  BY <1>3, <1>4, <1>5, <1>6, <1>7 DEF Starts

LEMMA AskIsOK ==
  ASSUME IInv, NEW t \in Tasks, Discover(t) \/ Answer(t) \/ Renew(t)
  PROVE  TaskOK(task[t])'
<1> DEFINE k == task[t]
<1>0. /\ Locked /\ k \in TaskRecords /\ TaskOK(k) /\ task \in [Tasks -> TaskRecords]
      /\ WellFormed(k) /\ KnowsItsRow(k) /\ KnowsItsModel(k)
  BY Facts DEF TaskOK, Locked
<1>1. /\ k.at \notin {"publishing", "syncing", "recording", "removing", "idle", "deleting"}
      /\ k.new = None
  BY <1>0 DEF Discover, Answer, Renew, WellFormed, Held
<1>2. \E models, m :
        /\ task'[t] \in TaskRecords
        /\ task'[t].op = k.op /\ task'[t].prov = k.prov /\ task'[t].acct = k.acct
        /\ task'[t].new = None /\ task'[t].old = k.old
        /\ task'[t].models = models /\ task'[t].model = m
        /\ \/ /\ k.at = "discovering" /\ k.op = "catalog" /\ task'[t].at = "recording"
           \/ /\ k.at = "discovering" /\ k.op # "catalog" /\ task'[t].at = "readying"
              /\ m \in models /\ m # None
           \/ /\ k.at = "readying" /\ models = k.models /\ m = k.model
              /\ <<k.acct, m>> \in ready'
              /\ task'[t].at = IF k.op = "commit" THEN "staging" ELSE "recording"
           \/ k.at = "renewing" /\ task'[t].at = "staging"
  <2>1. CASE Discover(t)
    <3> PICK models \in SUBSET Models, m \in Models \cup {None}, to \in {"recording", "readying"} :
          LET r == [task[t] EXCEPT !.models = models, !.model = m, !.at = to] IN
          /\ task' = [task EXCEPT ![t] = r] /\ r \in TaskRecords
          /\ to = "recording" => task[t].op = "catalog" /\ m = task[t].model
          /\ to = "readying" => task[t].op # "catalog" /\ m \in models
      BY <1>0, <2>1, DiscoverIsAMove
    <3>1. task'[t] = [k EXCEPT !.models = models, !.model = m, !.at = to] /\ task'[t] \in TaskRecords
      BY <1>0
    <3>2. /\ task'[t].op = k.op /\ task'[t].prov = k.prov /\ task'[t].acct = k.acct
          /\ task'[t].new = k.new /\ task'[t].old = k.old
          /\ task'[t].models = models /\ task'[t].model = m /\ task'[t].at = to
      BY <1>0, <3>1 DEF TaskRecords
    <3>3. k.at = "discovering"
      BY <2>1 DEF Discover
    <3>4. CASE to = "recording"
      BY <1>1, <3>1, <3>2, <3>3, <3>4
    <3>5. CASE to = "readying"
      <4>1. m # None /\ m \in models /\ k.op # "catalog"
        BY <3>5, ProvidersAssumption
      <4> QED
        BY <1>1, <3>1, <3>2, <3>3, <3>5, <4>1
    <3> QED
      BY <3>4, <3>5
  <2>2. CASE Answer(t)
    <3> DEFINE to == IF k.op = "commit" THEN "staging" ELSE "recording"
    <3>1. to \in At
      BY DEF At
    <3>2. task'[t] = [k EXCEPT !.at = to] /\ task'[t] \in TaskRecords
      BY <1>0, <2>2, <3>1, GoesIsAMove DEF Answer
    <3>3. /\ task'[t].op = k.op /\ task'[t].prov = k.prov /\ task'[t].acct = k.acct
          /\ task'[t].new = k.new /\ task'[t].old = k.old
          /\ task'[t].models = k.models /\ task'[t].model = k.model /\ task'[t].at = to
      BY <1>0, <3>2 DEF TaskRecords
    <3> QED
      BY <1>1, <2>2, <3>2, <3>3 DEF Answer
  <2>3. CASE Renew(t)
    <3>1. "staging" \in At
      BY DEF At
    <3>2. task'[t] = [k EXCEPT !.at = "staging"] /\ task'[t] \in TaskRecords
      BY <1>0, <2>3, <3>1, GoesIsAMove DEF Renew
    <3>3. /\ task'[t].op = k.op /\ task'[t].prov = k.prov /\ task'[t].acct = k.acct
          /\ task'[t].new = k.new /\ task'[t].old = k.old
          /\ task'[t].models = k.models /\ task'[t].model = k.model /\ task'[t].at = "staging"
      BY <1>0, <3>2 DEF TaskRecords
    <3> QED
      BY <1>1, <2>3, <3>2, <3>3 DEF Renew
  <2> QED
    BY <2>1, <2>2, <2>3
<1>3. WellFormed(task[t])'
  BY <1>0, <1>1, <1>2 DEF WellFormed, Held, At, Idle
<1>4. UNCHANGED <<conn, owner>>
  BY DEF Discover, Answer, Renew, rows, files
<1>5. KnowsItsRow(task[t])'
  BY <1>0, <1>1, <1>2, <1>4 DEF KnowsItsRow
<1>6. KnowsItsModel(task[t])'
  BY <1>0, <1>1, <1>2 DEF KnowsItsModel, WellFormed
<1>7. KnowsItsFile(task[t])' /\ KnowsTheOld(task[t])'
  BY <1>2 DEF KnowsItsFile, KnowsTheOld
<1> QED
  BY <1>3, <1>5, <1>6, <1>7 DEF TaskOK

LEMMA WriteIsOK ==
  ASSUME IInv, NEW t \in Tasks, Stage(t) \/ Publish(t) \/ SyncDirectory(t)
  PROVE  TaskOK(task[t])'
<1> DEFINE k == task[t]
<1>0. /\ Locked /\ k \in TaskRecords /\ TaskOK(k) /\ task \in [Tasks -> TaskRecords]
      /\ WellFormed(k) /\ KnowsItsRow(k) /\ KnowsItsModel(k) /\ KnowsItsFile(k)
      /\ Files /\ Rows
  BY Facts DEF TaskOK, Locked
<1>1. k.op \in {"commit", "refresh"} /\ k.at \in {"staging", "publishing", "syncing"}
  BY <1>0 DEF Stage, Publish, SyncDirectory, WellFormed, TaskRecords, Ops, Idle
<1>2. k.acct # None
  BY <1>0, <1>1, Facts DEF KnowsItsModel, KnowsItsRow, IInv, RowsHaveSecrets
<1>3. UNCHANGED <<conn, ready>>
  BY DEF Stage, Publish, SyncDirectory, rows, history
<1>4. \E s \in Secrets :
        /\ task'[t] \in TaskRecords
        /\ task'[t].op = k.op /\ task'[t].prov = k.prov /\ task'[t].acct = k.acct
        /\ task'[t].new = s /\ task'[t].old = k.old
        /\ task'[t].models = k.models /\ task'[t].model = k.model
        /\ task'[t].at \in {"publishing", "syncing", "recording"}
        /\ file'[s] = Reaches(task'[t].at) /\ owner'[s] = k.acct /\ s \notin Referenced
  <2>1. CASE Stage(t)
    <3> PICK s \in Secrets :
          LET r == [task[t] EXCEPT !.new = s, !.at = "publishing"] IN
          /\ task' = [task EXCEPT ![t] = r] /\ r \in TaskRecords
          /\ owner[s] = None
          /\ owner' = [owner EXCEPT ![s] = task[t].acct]
          /\ file' = [file EXCEPT ![s] = "staged"]
      BY <1>0, <2>1, StageIsAMove
    <3>1. task'[t] = [k EXCEPT !.new = s, !.at = "publishing"] /\ task'[t] \in TaskRecords
      BY <1>0
    <3>2. /\ task'[t].op = k.op /\ task'[t].prov = k.prov /\ task'[t].acct = k.acct
          /\ task'[t].new = s /\ task'[t].old = k.old
          /\ task'[t].models = k.models /\ task'[t].model = k.model /\ task'[t].at = "publishing"
      BY <1>0, <3>1 DEF TaskRecords
    <3>3. file'[s] = "staged" /\ owner'[s] = k.acct
      BY <1>0 DEF Files
    <3>4. s \notin Referenced
      BY DEF IInv, RowsHaveSecrets, Referenced
    <3> QED
      BY <3>1, <3>2, <3>3, <3>4 DEF Reaches
  <2>2. CASE Publish(t) \/ SyncDirectory(t)
    <3> DEFINE to == IF k.at = "publishing" THEN "syncing" ELSE "recording"
    <3>1. k.at \in {"publishing", "syncing"} /\ k.new \in Secrets /\ to \in At /\ Goes(t, to)
      BY <2>2, Facts DEF Publish, SyncDirectory, At
    <3>2. task'[t] = [k EXCEPT !.at = to] /\ task'[t] \in TaskRecords
      BY <1>0, <3>1, GoesIsAMove
    <3>3. /\ task'[t].op = k.op /\ task'[t].prov = k.prov /\ task'[t].acct = k.acct
          /\ task'[t].new = k.new /\ task'[t].old = k.old
          /\ task'[t].models = k.models /\ task'[t].model = k.model /\ task'[t].at = to
      BY <1>0, <3>2 DEF TaskRecords
    <3>4. file'[k.new] = Reaches(to)
      <4>1. CASE Publish(t)
        BY <1>0, <3>1, <4>1 DEF Publish, Files, Reaches
      <4>2. CASE SyncDirectory(t)
        <5>1. k.at = "syncing" /\ file[k.new] = "published"
          BY <1>0, <3>1, <4>2, ProvidersAssumption DEF SyncDirectory, KnowsItsFile, Reaches
        <5> QED
          BY <1>0, <3>1, <4>2, <5>1 DEF SyncDirectory, Files, Reaches
      <4> QED
        BY <2>2, <4>1, <4>2
    <3>5. k.new # None /\ owner'[k.new] = k.acct /\ k.new \notin Referenced
      BY <1>0, <2>2, <3>1, ProvidersAssumption DEF Publish, SyncDirectory, KnowsItsFile
    <3> QED
      BY <3>1, <3>2, <3>3, <3>4, <3>5
  <2> QED
    BY <2>1, <2>2
<1>5. task'[t].new # None
  BY <1>4, ProvidersAssumption
<1>6. WellFormed(task[t])'
  BY <1>0, <1>1, <1>4, <1>5 DEF WellFormed, Held, At, Idle
<1>7. KnowsItsRow(task[t])'
  <2> SUFFICES ASSUME k.op = "refresh"
               PROVE  /\ conn[k.prov] # None /\ k.acct = owner'[conn[k.prov]]
                      /\ k.old = conn[k.prov]
    BY <1>1, <1>3, <1>4 DEF KnowsItsRow
  <2>1. /\ conn[k.prov] # None /\ k.acct = owner[conn[k.prov]] /\ k.old = conn[k.prov]
    BY <1>0, <1>1 DEF KnowsItsRow
  <2>2. Frame(t) /\ conn[k.prov] \in Secrets
    BY <1>0, <1>1, <2>1, WorkIsFramed, Facts DEF Work, Writes, Rows
  <2> QED
    BY <1>2, <2>1, <2>2 DEF Frame
<1>8. KnowsItsModel(task[t])'
  BY <1>0, <1>1, <1>3, <1>4 DEF KnowsItsModel
<1>9. KnowsItsFile(task[t])' /\ KnowsTheOld(task[t])'
  BY <1>2, <1>3, <1>4 DEF KnowsItsFile, KnowsTheOld, Referenced, Reaches
<1> QED
  BY <1>6, <1>7, <1>8, <1>9 DEF TaskOK

(* The row names the new file, or none: the old one is nobody's.           *)
LEMMA RecordIsOK ==
  ASSUME IInv, NEW t \in Tasks, Commit(t) \/ ReplaceReference(t) \/ DeleteConnection(t)
  PROVE  TaskOK(task[t])'
<1> DEFINE k == task[t]
           old == conn[k.prov]
<1>0. /\ Locked /\ k \in TaskRecords /\ TaskOK(k) /\ task \in [Tasks -> TaskRecords]
      /\ WellFormed(k) /\ KnowsItsRow(k) /\ KnowsItsFile(k) /\ Files /\ Rows
  BY Facts DEF TaskOK, Locked
<1>1. k.prov \in Providers /\ old \in Secrets \cup {None} /\ k.at \in {"recording", "deleting"}
  BY <1>0, Facts DEF Commit, ReplaceReference, DeleteConnection, Rows
<1>2. CASE Done(t)
  BY <1>0, <1>2, DoneIsOK
<1>3. CASE /\ Removes(t, old) /\ k.op \in {"commit", "refresh", "disconnect"} /\ old # None
           /\ conn' = [conn EXCEPT ![k.prov] = k.new] /\ UNCHANGED owner
  <2>1. task'[t] = [k EXCEPT !.old = old, !.new = None, !.at = "removing"]
    BY <1>0, <1>3 DEF Removes
  <2>2. /\ task'[t].op = k.op /\ task'[t].prov = k.prov /\ task'[t].new = None
        /\ task'[t].old = old /\ task'[t].at = "removing" /\ task'[t].acct = k.acct
    BY <1>0, <2>1 DEF TaskRecords
  <2>3. WellFormed(task[t])'
    BY <1>0, <1>1, <1>3, <2>2, ProvidersAssumption DEF WellFormed, Held, At
  <2>4. KnowsItsRow(task[t])' /\ KnowsItsFile(task[t])'
    BY <2>2 DEF KnowsItsRow, KnowsItsFile
  <2>5. k.op = "commit" => k.acct # None
    BY <1>0 DEF TaskOK, KnowsItsModel
  <2>6. KnowsItsModel(task[t])'
    BY <1>3, <2>2, <2>5 DEF KnowsItsModel
  <2>7. old # k.new
    BY <1>0, <1>1, <1>3 DEF KnowsItsFile, Referenced
  <2>8. old \notin Referenced'
    BY <1>0, <1>1, <1>3, <2>7 DEF Referenced, IInv, Single, Rows
  <2>9. owner'[old] # None
    BY <1>1, <1>3 DEF IInv, RowsHaveSecrets
  <2> QED
    BY <2>2, <2>3, <2>4, <2>6, <2>8, <2>9 DEF TaskOK, KnowsTheOld
<1>4. CASE Removes(t, old) /\ old = None
  BY <1>2, <1>4 DEF Removes
<1>5. CASE Commit(t)
  BY <1>3, <1>4, <1>5 DEF Commit, files
<1>6. CASE ReplaceReference(t)
  <2>1. k.old = old /\ k.old # None
    BY <1>0, <1>6 DEF ReplaceReference, KnowsItsRow, WellFormed
  <2> QED
    BY <1>3, <1>6, <2>1 DEF ReplaceReference
<1>7. CASE DeleteConnection(t)
  <2>1. k.new = None /\ k.op = "disconnect"
    BY <1>0, <1>7 DEF DeleteConnection, WellFormed, Held, TaskRecords, Ops, Idle
  <2> QED
    BY <1>2, <1>3, <1>4, <1>7, <2>1 DEF DeleteConnection, files
<1> QED
  BY <1>5, <1>6, <1>7

LEMMA TasksStayOK ==
  ASSUME IInv, NEW t \in Tasks, Work(t)
  PROVE  \A u \in Tasks : TaskOK(task[u])'
<1>1. ASSUME NEW u \in Tasks, u # t PROVE TaskOK(task[u])'
  BY <1>1, WorkIsFramed, OthersAreOK
<1>2. Locked
  BY Facts
<1>3. TaskOK(task[t])'
  <2>1. CASE Starts(t)
    BY <2>1, StartIsOK
  <2>2. CASE Done(t)
    BY <1>2, <2>2, DoneIsOK
  <2>3. CASE Asks(t)
    BY <2>2, <2>3, AskIsOK DEF Asks, Refused
  <2>4. CASE Writes(t)
    BY <2>2, <2>4, WriteIsOK DEF Writes, WriteFails
  <2>5. CASE Records(t)
    BY <2>2, <2>5, RecordIsOK DEF Records, CommitFails, ReplaceCatalog, SetDefault, ReplaceFails
  <2>6. CASE Cleans(t)
    BY <2>2, <2>6 DEF Cleans, RemoveFile, RemoveFails
  <2> QED
    BY <2>1, <2>3, <2>4, <2>5, <2>6 DEF Work
<1> QED
  BY <1>1, <1>3
---------------------------------------------------------------------------
(* What two operations hold in their hands stays apart.                    *)
LEMMA HandsOf ==
  ASSUME IInv, NEW t \in Tasks, Work(t)
  PROVE  /\ \/ task'[t].new \in {None, task[t].new}
            \/ task'[t].new \in Secrets /\ owner[task'[t].new] = None
         /\ \/ task'[t].old \in {None, task[t].old}
            \/ task'[t].old \in Referenced /\ task'[t].new = None
<1>0. /\ Locked /\ task \in [Tasks -> TaskRecords] /\ task[t] \in TaskRecords
      /\ Rows /\ (task[t].at # "idle" => task[t].prov \in Providers)
  BY Facts DEF Locked
<1>1. CASE Starts(t)
  <2>1. ASSUME NEW op, NEW at, NEW p \in Providers, NEW a, NEW m, Begins(t, op, at, p, a, m, None)
        PROVE  task'[t].new = None /\ task'[t].old = None
    BY <1>0, <2>1 DEF Begins, Idle
  <2>2. ASSUME StartRefresh(t)
        PROVE  task'[t].new = None /\ task'[t].old \in Referenced
    <3> PICK p \in Providers : Readable(p) /\ Begins(t, "refresh", "renewing", p, AccountOf(p), None, conn[p])
      BY <2>2 DEF StartRefresh
    <3>1. task'[t].new = None /\ task'[t].old = conn[p]
      BY <1>0 DEF Begins, Idle
    <3> QED
      BY <3>1 DEF Referenced, Readable, Connected
  <2> QED
    BY <1>1, <2>1, <2>2 DEF Starts, StartCommit, StartCatalog, StartDefault, StartDisconnect
<1>2. CASE Done(t)
  BY <1>0, <1>2 DEF Done, Idle
<1>3. CASE \E to \in At : Goes(t, to)
  <2> PICK to \in At : Goes(t, to)
    BY <1>3
  <2>1. task'[t] = [task[t] EXCEPT !.at = to]
    BY <1>0, GoesIsAMove
  <2> QED
    BY <1>0, <2>1 DEF TaskRecords
<1>4. CASE Discover(t)
  <2> PICK models \in SUBSET Models, m \in Models \cup {None}, to \in {"recording", "readying"} :
        LET k == [task[t] EXCEPT !.models = models, !.model = m, !.at = to] IN
        task' = [task EXCEPT ![t] = k] /\ k \in TaskRecords
    BY <1>0, <1>4, DiscoverIsAMove
  <2>1. task'[t] = [task[t] EXCEPT !.models = models, !.model = m, !.at = to]
    BY <1>0
  <2> QED
    BY <1>0, <2>1 DEF TaskRecords
<1>5. CASE Stage(t)
  <2> PICK s \in Secrets :
        /\ task' = [task EXCEPT ![t] = [task[t] EXCEPT !.new = s, !.at = "publishing"]]
        /\ owner[s] = None
    BY <1>0, <1>5, StageIsAMove
  <2>1. task'[t] = [task[t] EXCEPT !.new = s, !.at = "publishing"]
    BY <1>0
  <2> QED
    BY <1>0, <2>1 DEF TaskRecords
<1>6. CASE \E old \in {conn[task[t].prov], task[t].old} : Removes(t, old) /\ task[t].prov \in Providers
  <2> PICK old \in {conn[task[t].prov], task[t].old} : Removes(t, old)
    BY <1>6
  <2>1. CASE old = None
    BY <1>2, <2>1 DEF Removes
  <2>2. CASE old # None
    <3>1. task'[t] = [task[t] EXCEPT !.old = old, !.new = None, !.at = "removing"]
      BY <1>0, <2>2 DEF Removes
    <3>2. task'[t].new = None /\ task'[t].old = old
      BY <1>0, <3>1 DEF TaskRecords
    <3> QED
      BY <1>6, <2>2, <3>2 DEF Referenced
  <2> QED
    BY <2>1, <2>2
<1>7. CASE Answer(t) \/ Renew(t) \/ Publish(t) \/ SyncDirectory(t)
  <2>1. "staging" \in At /\ "recording" \in At /\ "syncing" \in At
    BY DEF At
  <2> QED
    BY <1>3, <1>7, <2>1 DEF Answer, Renew, Publish, SyncDirectory
<1>8. CASE Commit(t) \/ ReplaceReference(t) \/ DeleteConnection(t)
  BY <1>0, <1>2, <1>6, <1>8 DEF Commit, ReplaceReference, DeleteConnection
<1>9. CASE \/ Refused(t) \/ WriteFails(t) \/ CommitFails(t) \/ ReplaceCatalog(t) \/ SetDefault(t)
           \/ ReplaceFails(t) \/ RemoveFile(t) \/ RemoveFails(t)
  BY <1>2, <1>9 DEF Refused, WriteFails, CommitFails, ReplaceCatalog, SetDefault, ReplaceFails,
                    RemoveFile, RemoveFails
<1> QED
  BY <1>1, <1>4, <1>5, <1>7, <1>8, <1>9 DEF Work, Asks, Writes, Records, Cleans

LEMMA StayApart ==
  ASSUME IInv, NEW t \in Tasks, Work(t)
  PROVE  Apart'
<1>1. Locked /\ Locked' /\ Rows /\ Files
  BY Facts, WorkIsTyped
<1>2. ASSUME NEW u \in Tasks
      PROVE  /\ task[u].new # None => task[u].new \in Secrets /\ owner[task[u].new] # None
                                       /\ task[u].new \notin Referenced
             /\ task[u].old # None => owner[task[u].old] # None /\ task[u].old \in Secrets
  <2>1. /\ task[u] \in TaskRecords /\ WellFormed(task[u]) /\ KnowsItsRow(task[u])
        /\ KnowsItsFile(task[u]) /\ KnowsTheOld(task[u])
        /\ (task[u].at # "idle" => task[u].prov \in Providers)
    BY Facts DEF TaskOK
  <2>2. task[u].new # None => task[u].new \in Secrets /\ owner[task[u].new] # None
                              /\ task[u].new \notin Referenced
    BY <2>1 DEF TaskRecords, KnowsItsFile
  <2>3. task[u].old # None => task[u].old \in Secrets
    BY <2>1 DEF TaskRecords
  <2>4. ASSUME task[u].old # None
        PROVE  owner[task[u].old] # None
    <3>1. CASE task[u].at = "removing"
      BY <2>1, <3>1 DEF KnowsTheOld
    <3>2. CASE task[u].at # "removing"
      BY <2>1, <2>4, <3>2 DEF WellFormed, KnowsItsRow, IInv, RowsHaveSecrets
    <3> QED
      BY <3>1, <3>2
  <2> QED
    BY <2>2, <2>3, <2>4
<1>3. \A s \in Referenced : s \in Secrets /\ owner[s] # None
  BY <1>1 DEF Referenced, Rows, IInv, RowsHaveSecrets
<1>4. \A u \in Tasks : u # t => task'[u] = task[u]
  BY Steps
<1>5. /\ \/ task'[t].new \in {None, task[t].new}
         \/ task'[t].new \in Secrets /\ owner[task'[t].new] = None
      /\ \/ task'[t].old \in {None, task[t].old}
         \/ task'[t].old \in Referenced /\ task'[t].new = None
  BY HandsOf
<1> SUFFICES ASSUME NEW u \in Tasks, NEW v \in Tasks, task'[u].new # None
             PROVE  task'[u].new # task'[v].old /\ (u # v => task'[u].new # task'[v].new)
  BY DEF Apart
<1>6. /\ task[u].new # None => task[u].new # task[v].old /\ (u # v => task[u].new # task[v].new)
      /\ task[v].new # None => (u # v => task[u].new # task[v].new)
  BY DEF IInv, Apart
<1>7. CASE u = t
  BY <1>2, <1>4, <1>5, <1>6, <1>7
<1>8. CASE u # t
  BY <1>2, <1>3, <1>4, <1>5, <1>6, <1>8
<1> QED
  BY <1>7, <1>8
---------------------------------------------------------------------------
(* The rows and the files.                                                 *)
LEMMA FilesStayWritten ==
  ASSUME IInv, NEW t \in Tasks, Work(t)
  PROVE  Written'
<1>0. Frame(t) /\ Files /\ Written /\ task[t] \in TaskRecords /\ Locked
  BY Facts, WorkIsFramed DEF IInv
<1>1. CASE UNCHANGED file
  BY <1>0, <1>1 DEF Written, Frame
<1>2. CASE Stage(t)
  <2>1. Locked' /\ TaskOK(task[t])'
    BY <1>2, TasksStayOK, WorkIsTyped
  <2> PICK s \in Secrets :
        /\ task' = [task EXCEPT ![t] = [task[t] EXCEPT !.new = s, !.at = "publishing"]]
        /\ owner' = [owner EXCEPT ![s] = task[t].acct]
        /\ file' = [file EXCEPT ![s] = "staged"]
    BY <1>0, <1>2, StageIsAMove
  <2>2. task'[t] = [task[t] EXCEPT !.new = s, !.at = "publishing"]
    BY <1>0 DEF Locked
  <2>3. task'[t].new = s /\ task'[t].acct = task[t].acct
    BY <1>0, <2>2 DEF TaskRecords
  <2>4. task[t].acct # None
    BY <2>1, <2>3, ProvidersAssumption DEF TaskOK, KnowsItsFile
  <2> QED
    BY <1>0, <2>4 DEF Written, Files
<1>3. CASE \E s \in Secrets, x \in {"none", "published", "durable"} :
             owner[s] # None /\ file' = [file EXCEPT ![s] = x]
  BY <1>0, <1>3 DEF Written, Frame, Files
<1>4. /\ task[t].new \in Secrets => owner[task[t].new] # None
      /\ task[t].at = "removing" => task[t].old \in Secrets /\ owner[task[t].old] # None
  BY Facts, ProvidersAssumption DEF TaskOK, KnowsItsFile, KnowsTheOld
<1>5. CASE Publish(t) \/ SyncDirectory(t) \/ WriteFails(t) \/ CommitFails(t)
  <2>1. task[t].new \in Secrets
    BY <1>5, Facts DEF Publish, SyncDirectory, WriteFails, CommitFails
  <2> QED
    BY <1>1, <1>3, <1>4, <1>5, <2>1 DEF Publish, SyncDirectory, WriteFails, CommitFails, Discards
<1>6. CASE ReplaceReference(t)
  <2>1. task[t].new \in Secrets
    BY <1>6, Facts DEF ReplaceReference
  <2> QED
    BY <1>1, <1>3, <1>4, <1>6, <2>1 DEF ReplaceReference, Discards
<1>7. CASE RemoveFile(t)
  BY <1>3, <1>4, <1>7 DEF RemoveFile
<1>8. CASE Starts(t)
  BY <1>1, <1>8, StartsAreTyped DEF files
<1> QED
  BY <1>1, <1>2, <1>5, <1>6, <1>7, <1>8
     DEF Work, Asks, Writes, Records, Cleans, Refused, Discover, Answer, Renew, Commit,
         ReplaceCatalog, SetDefault, ReplaceFails, DeleteConnection, RemoveFails, files

(* What a step makes of the rows: nothing, or one row with a new name.     *)
LEMMA RowsOf ==
  ASSUME IInv, NEW t \in Tasks, Work(t)
  PROVE  \/ UNCHANGED conn
         \/ /\ task[t].prov \in Providers
            /\ conn' = [conn EXCEPT ![task[t].prov] = task[t].new]
            /\ UNCHANGED files
            /\ \/ task[t].new = None /\ default.provider # task[t].prov
               \/ /\ task[t].new \in Secrets /\ owner[task[t].new] # None
                  /\ file[task[t].new] = Reaches("recording") /\ task[t].new \notin Referenced
<1>0. /\ WellFormed(task[t]) /\ KnowsItsFile(task[t])
      /\ (task[t].at # "idle" => task[t].prov \in Providers)
  BY Facts DEF TaskOK
<1>1. CASE Commit(t) \/ (ReplaceReference(t) /\ conn[task[t].prov] = task[t].old)
  <2>1. task[t].new \in Secrets /\ task[t].new # None /\ task[t].at = "recording"
    BY <1>1, Facts, ProvidersAssumption DEF Commit, ReplaceReference
  <2> QED
    BY <1>0, <1>1, <2>1 DEF Commit, ReplaceReference, KnowsItsFile, files
<1>2. CASE DeleteConnection(t)
  <2>1. task[t].new = None /\ task[t].at = "deleting"
    BY <1>0, <1>2 DEF DeleteConnection, WellFormed, Held
  <2> QED
    BY <1>0, <1>2, <2>1 DEF DeleteConnection
<1>3. CASE Starts(t)
  BY <1>3, StartsAreTyped DEF rows
<1> QED
  BY <1>1, <1>2, <1>3
     DEF Work, Asks, Writes, Records, Cleans, Refused, Discover, Answer, Renew, Stage, Publish,
         SyncDirectory, WriteFails, CommitFails, ReplaceCatalog, SetDefault, ReplaceReference,
         ReplaceFails, RemoveFile, RemoveFails, rows

LEMMA RowsStaySound ==
  ASSUME IInv, NEW t \in Tasks, Work(t)
  PROVE  RowsHaveSecrets' /\ Single'
<1>0. Frame(t) /\ Files /\ Rows /\ RowsHaveSecrets /\ Single /\ TaskOK(task[t]) /\ task[t] \in TaskRecords
  BY Facts, WorkIsFramed DEF IInv
<1>1. CASE UNCHANGED conn
  <2>1. Single'
    BY <1>0, <1>1 DEF Single
  <2>2. ASSUME NEW p \in Providers, conn[p] # None
        PROVE  file'[conn[p]] = file[conn[p]] /\ owner'[conn[p]] # None
    <3>1. conn[p] \in Secrets /\ conn[p] \in Referenced /\ owner[conn[p]] # None
      BY <1>0, <2>2 DEF RowsHaveSecrets, Referenced, Rows
    <3>2. conn[p] # task[t].new
      BY <1>0, <2>2, <3>1 DEF TaskOK, KnowsItsFile
    <3>3. task[t].at = "removing" => conn[p] # task[t].old
      BY <1>0, <3>1 DEF TaskOK, KnowsTheOld
    <3> QED
      BY <1>0, <3>1, <3>2, <3>3 DEF Frame
  <2> QED
    BY <1>0, <1>1, <2>1, <2>2 DEF RowsHaveSecrets, Frame
<1>2. CASE /\ task[t].prov \in Providers
           /\ conn' = [conn EXCEPT ![task[t].prov] = task[t].new]
           /\ UNCHANGED files
           /\ \/ task[t].new = None
              \/ /\ task[t].new \in Secrets /\ owner[task[t].new] # None
                 /\ file[task[t].new] = Reaches("recording") /\ task[t].new \notin Referenced
  <2>0. Reaches("recording") = IF Unix THEN "durable" ELSE "published"
    BY DEF Reaches
  <2>1. RowsHaveSecrets'
    BY <1>0, <1>2, <2>0 DEF RowsHaveSecrets, Rows, files, Frame
  <2>2. Single'
    BY <1>0, <1>2 DEF Single, Rows, Referenced
  <2> QED
    BY <2>1, <2>2
<1> QED
  BY <1>1, <1>2, RowsOf

LEMMA RunsWhileUp ==
  ASSUME IInv, NEW t \in Tasks, Work(t)
  PROVE  up /\ up' = up
<1>1. CASE Starts(t)
  BY <1>1, StartsAreTyped DEF Starts, StartCommit, StartCatalog, StartDefault, StartRefresh,
     StartDisconnect, Begins
<1>2. CASE task[t].at # "idle"
  <2>1. task[t] # Idle
    BY <1>2 DEF Idle
  <2>2. up
    BY <2>1, Facts DEF IInv, Resting, Rest
  <2> QED
    BY <1>2, <2>2, <1>1, StartsAreTyped
       DEF Work, Asks, Writes, Records, Cleans, Refused, Discover, Answer, Renew, Stage, Publish,
           SyncDirectory, WriteFails, Commit, CommitFails, ReplaceCatalog, SetDefault,
           ReplaceReference, ReplaceFails, DeleteConnection, RemoveFile, RemoveFails
<1> QED
  BY <1>1, <1>2
     DEF Work, Asks, Writes, Records, Cleans, Refused, Discover, Answer, Renew, Stage, Publish,
         SyncDirectory, WriteFails, Commit, CommitFails, ReplaceCatalog, SetDefault,
         ReplaceReference, ReplaceFails, DeleteConnection, RemoveFile, RemoveFails
---------------------------------------------------------------------------
(* The default.                                                            *)

(* A default whose provider keeps its row and its catalog stays good.      *)
LEMMA SameDefault ==
  ASSUME IInv, NEW t \in Tasks, Frame(t), UNCHANGED default,
         default.provider # None =>
           /\ conn'[default.provider] = conn[default.provider]
           /\ default.model \in catalog[default.provider] => default.model \in catalog'[default.provider]
  PROVE  DefaultWasReady'
<1> SUFFICES ASSUME default.provider # None
             PROVE  /\ conn'[default.provider] # None
                    /\ default.model \in catalog'[default.provider]
                    /\ <<owner'[conn'[default.provider]], default.model>> \in ready'
  BY DEF DefaultWasReady, Connected, AccountOf
<1>1. /\ conn[default.provider] # None /\ default.model \in catalog[default.provider]
      /\ <<owner[conn[default.provider]], default.model>> \in ready
  BY DEF IInv, DefaultWasReady, Connected, AccountOf
<1>2. default.provider \in Providers
  BY Facts DEF Rows
<1>3. conn[default.provider] \in Secrets /\ owner[conn[default.provider]] # None
  BY <1>1, <1>2, Facts DEF Rows, IInv, RowsHaveSecrets
<1>4. owner'[conn[default.provider]] = owner[conn[default.provider]] /\ ready \subseteq ready'
  BY <1>3 DEF Frame
<1> QED
  BY <1>1, <1>4

LEMMA DefaultStaysReady ==
  ASSUME IInv, NEW t \in Tasks, Work(t)
  PROVE  DefaultWasReady'
<1> DEFINE k == task[t]
           p == k.prov
<1>0. /\ Frame(t) /\ Rows /\ Files /\ k \in TaskRecords
      /\ WellFormed(k) /\ KnowsItsRow(k) /\ KnowsItsFile(k) /\ KnowsItsModel(k)
      /\ (k.at # "idle" => p \in Providers)
  BY Facts, WorkIsFramed DEF TaskOK
<1>1. CASE UNCHANGED rows
  BY <1>0, <1>1, SameDefault DEF rows
<1>2. CASE Commit(t)
  <2>1. /\ p \in Providers /\ k.new \in Secrets /\ k.new # None /\ owner[k.new] = k.acct
        /\ k.model \in k.models /\ <<k.acct, k.model>> \in ready
    BY <1>0, <1>2, Facts, ProvidersAssumption DEF Commit, KnowsItsFile, KnowsItsModel
  <2>2. /\ conn' = [conn EXCEPT ![p] = k.new] /\ catalog' = [catalog EXCEPT ![p] = k.models]
        /\ default' = IF default.provider \in {None, p}
                        THEN [provider |-> p, model |-> k.model] ELSE default
        /\ UNCHANGED <<owner, ready>>
    BY <1>2 DEF Commit, files, history
  <2>3. CASE default.provider \in {None, p}
    <3>1. default'.provider = p /\ default'.model = k.model
      BY <2>2, <2>3
    <3>2. conn'[p] = k.new /\ catalog'[p] = k.models
      BY <1>0, <2>1, <2>2 DEF Rows
    <3> QED
      BY <2>1, <2>2, <3>1, <3>2 DEF DefaultWasReady, Connected, AccountOf
  <2>4. CASE default.provider \notin {None, p}
    <3>1. default.provider \in Providers
      BY <1>0, <2>4 DEF Rows
    <3> QED
      BY <1>0, <2>2, <2>4, <3>1, SameDefault DEF Rows
  <2> QED
    BY <2>3, <2>4
<1>3. CASE ReplaceCatalog(t)
  <2>1. p \in Providers /\ UNCHANGED <<conn, default>>
    BY <1>0, <1>3 DEF ReplaceCatalog
  <2>2. default.provider # None /\ default.model \in catalog[default.provider] =>
          default.model \in catalog'[default.provider]
    BY <1>0, <1>3, <2>1 DEF ReplaceCatalog, Rows
  <2> QED
    BY <1>0, <2>1, <2>2, SameDefault
<1>4. CASE SetDefault(t)
  <2>1. /\ p \in Providers /\ conn[p] # None /\ owner[conn[p]] = k.acct
        /\ k.model \in k.models /\ <<k.acct, k.model>> \in ready
    BY <1>0, <1>4 DEF SetDefault, KnowsItsRow, KnowsItsModel
  <2>2. /\ default'.provider = p /\ default'.model = k.model /\ catalog'[p] = k.models
        /\ UNCHANGED <<conn, owner, ready>>
    BY <1>0, <1>4, <2>1 DEF SetDefault, Rows, files, history
  <2> QED
    BY <2>1, <2>2 DEF DefaultWasReady, Connected, AccountOf
<1>5. CASE ReplaceReference(t)
  <2>1. UNCHANGED <<catalog, default, owner, ready>> /\ p \in Providers
    BY <1>0, <1>5 DEF ReplaceReference, history
  <2>2. CASE UNCHANGED conn
    BY <1>0, <2>1, <2>2, SameDefault
  <2>3. CASE conn' = [conn EXCEPT ![p] = k.new] /\ default.provider = p
    <3>1. conn'[p] = k.new /\ k.new # None /\ owner[k.new] = k.acct
      BY <1>0, <1>5, <2>1, <2>3, Facts, ProvidersAssumption DEF Rows, ReplaceReference, KnowsItsFile
    <3>2. owner[conn[p]] = k.acct
      BY <1>0, <1>5 DEF ReplaceReference, KnowsItsRow
    <3> QED
      BY <2>1, <2>3, <3>1, <3>2 DEF IInv, DefaultWasReady, Connected, AccountOf
  <2>4. CASE conn' = [conn EXCEPT ![p] = k.new] /\ default.provider # p
    <3>1. default.provider # None => conn'[default.provider] = conn[default.provider]
      BY <1>0, <2>4 DEF Rows
    <3> QED
      BY <1>0, <2>1, <3>1, SameDefault
  <2> QED
    BY <1>5, <2>2, <2>3, <2>4 DEF ReplaceReference
<1>6. CASE DeleteConnection(t)
  <2>1. p \in Providers /\ UNCHANGED default
    BY <1>0, <1>6 DEF DeleteConnection
  <2>2. default.provider # None => /\ conn'[default.provider] = conn[default.provider]
                                   /\ catalog'[default.provider] = catalog[default.provider]
    BY <1>0, <1>6, <2>1 DEF DeleteConnection, Rows
  <2> QED
    BY <1>0, <2>1, <2>2, SameDefault
<1>7. CASE Starts(t)
  BY <1>1, <1>7, StartsAreTyped
<1> QED
  BY <1>1, <1>2, <1>3, <1>4, <1>5, <1>6, <1>7
     DEF Work, Asks, Writes, Records, Cleans, Refused, Discover, Answer, Renew, Stage, Publish,
         SyncDirectory, WriteFails, CommitFails, ReplaceFails, RemoveFile, RemoveFails
---------------------------------------------------------------------------
(* Whatever the operation or a row had in its hands before the step is     *)
(* still in somebody's hands, on the list of what was spilt, or gone.      *)
LEMMA HandsAreEmptied ==
  ASSUME IInv, NEW t \in Tasks, Work(t), NEW s \in Secrets,
         s \in Referenced \cup {task[t].new, task[t].old}
  PROVE  \/ file'[s] = "none"
         \/ s \in Referenced' \cup spilt' \cup {task'[t].new, task'[t].old}
<1> DEFINE k == task[t]
           p == k.prov
<1>0. /\ Locked /\ task \in [Tasks -> TaskRecords] /\ Rows /\ Files /\ k \in TaskRecords
      /\ WellFormed(k) /\ KnowsItsRow(k) /\ s # None
      /\ (k.at # "idle" => p \in Providers)
  BY Facts, ProvidersAssumption DEF TaskOK, Locked
<1>1. k.op = "refresh" /\ k.at # "removing" => k.old = conn[p] /\ k.old \in Referenced
  BY <1>0 DEF KnowsItsRow, WellFormed, Referenced, TaskRecords
<1>2. k.old \in {None} \cup Referenced \/ k.at = "removing"
  BY <1>0, <1>1 DEF WellFormed
<1>3. CASE Starts(t)
  <2>1. k = Idle /\ UNCHANGED conn
    BY <1>3, StartsAreTyped DEF Starts, StartCommit, StartCatalog, StartDefault, StartRefresh,
       StartDisconnect, Begins, rows
  <2> QED
    BY <1>0, <2>1 DEF Idle, Referenced
<1>4. CASE \E to \in At : Goes(t, to) /\ UNCHANGED conn
  <2> PICK to \in At : Goes(t, to) /\ UNCHANGED conn
    BY <1>4
  <2>1. task'[t] = [k EXCEPT !.at = to]
    BY <1>0, GoesIsAMove
  <2>2. task'[t].new = k.new /\ task'[t].old = k.old
    BY <1>0, <2>1 DEF TaskRecords
  <2> QED
    BY <2>2 DEF Referenced
<1>5. CASE Discover(t)
  <2> PICK models \in SUBSET Models, m \in Models \cup {None}, to \in {"recording", "readying"} :
        LET r == [task[t] EXCEPT !.models = models, !.model = m, !.at = to] IN
        task' = [task EXCEPT ![t] = r] /\ r \in TaskRecords
    BY <1>0, <1>5, DiscoverIsAMove
  <2>1. task'[t] = [k EXCEPT !.models = models, !.model = m, !.at = to]
    BY <1>0
  <2>2. task'[t].new = k.new /\ task'[t].old = k.old
    BY <1>0, <2>1 DEF TaskRecords
  <2> QED
    BY <1>5, <2>2 DEF Discover, rows, Referenced
<1>6. CASE Stage(t)
  <2>1. k.new = None /\ UNCHANGED conn
    BY <1>0, <1>6 DEF Stage, WellFormed, Held, rows
  <2> PICK x \in Secrets :
        LET r == [task[t] EXCEPT !.new = x, !.at = "publishing"] IN
        task' = [task EXCEPT ![t] = r] /\ r \in TaskRecords
    BY <1>0, <1>6, StageIsAMove
  <2>2. task'[t] = [k EXCEPT !.new = x, !.at = "publishing"]
    BY <1>0
  <2>3. task'[t].old = k.old
    BY <1>0, <2>2 DEF TaskRecords
  <2> QED
    BY <1>0, <2>1, <2>3 DEF Referenced
<1>7. CASE /\ Done(t) /\ UNCHANGED conn
           /\ k.new # None => file'[k.new] = "none" \/ k.new \in spilt'
           /\ k.at = "removing" => file'[k.old] = "none" \/ k.old \in spilt'
  BY <1>0, <1>2, <1>7 DEF Referenced
<1>8. CASE /\ conn' = [conn EXCEPT ![p] = k.new] /\ p \in Providers
           /\ Removes(t, conn[p]) /\ k.at # "removing"
  <2>1. s \in Referenced \cup {k.new}
    BY <1>0, <1>2, <1>8
  <2>2. s \in Referenced' \/ s = conn[p]
    BY <1>0, <1>8, <2>1 DEF Referenced, Rows
  <2>3. conn[p] # None => task'[t].old = conn[p]
    <3> SUFFICES ASSUME conn[p] # None PROVE task'[t].old = conn[p]
      OBVIOUS
    <3>1. task'[t] = [k EXCEPT !.old = conn[p], !.new = None, !.at = "removing"]
      BY <1>0, <1>8 DEF Removes
    <3> QED
      BY <1>0, <3>1 DEF TaskRecords
  <2> QED
    BY <1>0, <2>2, <2>3
<1>9. CASE Answer(t) \/ Renew(t) \/ Publish(t) \/ SyncDirectory(t)
  <2>1. "staging" \in At /\ "recording" \in At /\ "syncing" \in At
    BY DEF At
  <2> QED
    BY <1>4, <1>9, <2>1 DEF Answer, Renew, Publish, SyncDirectory, rows
<1>10. CASE Refused(t) \/ ReplaceCatalog(t) \/ SetDefault(t)
  <2>1. k.new = None /\ k.at # "removing"
    BY <1>0, <1>10 DEF Refused, ReplaceCatalog, SetDefault, WellFormed, Held
  <2> QED
    BY <1>7, <1>10, <2>1 DEF Refused, ReplaceCatalog, SetDefault, rows
<1>11. CASE WriteFails(t) \/ CommitFails(t)
  <2>1. Discards(k.new) /\ Done(t) /\ UNCHANGED conn /\ k.at # "removing"
    BY <1>11 DEF WriteFails, CommitFails, rows
  <2>2. k.new \in Secrets
    BY <1>11, Facts DEF WriteFails, CommitFails
  <2>3. file'[k.new] = "none" \/ k.new \in spilt'
    BY <1>0, <2>1, <2>2 DEF Files, Discards
  <2> QED
    BY <1>7, <2>1, <2>3
<1>12. CASE ReplaceFails(t)
  BY <1>7, <1>12 DEF ReplaceFails, rows
<1>13. CASE RemoveFile(t) \/ RemoveFails(t)
  <2>1. k.new = None /\ k.at = "removing" /\ Done(t) /\ UNCHANGED conn
    BY <1>0, <1>13 DEF RemoveFile, RemoveFails, WellFormed, Held, rows
  <2>2. k.old \in Secrets
    BY <2>1, Facts
  <2>3. file'[k.old] = "none" \/ k.old \in spilt'
    BY <1>0, <1>13, <2>2 DEF RemoveFile, RemoveFails, Files
  <2> QED
    BY <1>7, <2>1, <2>3
<1>14. CASE Commit(t)
  BY <1>0, <1>8, <1>14 DEF Commit
<1>15. CASE ReplaceReference(t)
  <2>1. conn[p] = k.old /\ p \in Providers
    BY <1>0, <1>1, <1>15 DEF ReplaceReference
  <2> QED
    BY <1>8, <1>15, <2>1 DEF ReplaceReference
<1>16. CASE DeleteConnection(t)
  <2>1. k.new = None /\ k.at = "deleting" /\ p \in Providers
    BY <1>0, <1>16 DEF DeleteConnection, WellFormed, Held
  <2> QED
    BY <1>7, <1>8, <1>16, <2>1 DEF DeleteConnection
<1> QED
  BY <1>3, <1>5, <1>6, <1>9, <1>10, <1>11, <1>12, <1>13, <1>14, <1>15, <1>16
     DEF Work, Asks, Writes, Records, Cleans

LEMMA NothingStaysBehind ==
  ASSUME IInv, NEW t \in Tasks, Work(t)
  PROVE  NothingIsLeftBehind'
<1>1. up
  BY RunsWhileUp
<1> SUFFICES ASSUME NEW s \in Secrets, file'[s] # "none"
             PROVE  \/ s \in Referenced' \cup spilt'
                    \/ \E u \in Tasks : s \in {task'[u].new, task'[u].old}
  BY DEF NothingIsLeftBehind
<1>2. CASE file[s] = "none"
  <2>1. CASE Stage(t)
    <3> PICK x \in Secrets :
          LET r == [task[t] EXCEPT !.new = x, !.at = "publishing"] IN
          /\ task' = [task EXCEPT ![t] = r] /\ r \in TaskRecords
          /\ file' = [file EXCEPT ![x] = "staged"]
      BY <2>1, StageIsAMove, Facts
    <3>1. task'[t] = [task[t] EXCEPT !.new = x, !.at = "publishing"]
      BY Facts DEF Locked
    <3>2. task'[t].new = x
      BY <3>1, Facts DEF TaskRecords
    <3>3. s = x
      BY <1>2, Facts DEF Files
    <3> QED
      BY <3>2, <3>3
  <2>2. CASE Publish(t) \/ SyncDirectory(t)
    <3>1. task[t].new \in Secrets /\ task[t].new # None /\ task[t].at \in {"publishing", "syncing"}
      BY <2>2, Facts, ProvidersAssumption DEF Publish, SyncDirectory
    <3>2. file[task[t].new] \in {"staged", "published"}
      BY <3>1, Facts DEF TaskOK, KnowsItsFile, Reaches
    <3>3. s # task[t].new
      BY <1>2, <3>2
    <3> QED
      BY <1>2, <2>2, <3>3, Facts DEF Publish, SyncDirectory, Files
  <2>3. CASE UNCHANGED file
    BY <1>2, <2>3
  <2>4. CASE \E x : file' = [file EXCEPT ![x] = "none"]
    BY <1>2, <2>4, Facts DEF Files
  <2>5. CASE Starts(t)
    BY <2>3, <2>5, StartsAreTyped DEF files
  <2>6. CASE ReplaceReference(t)
    BY <2>3, <2>4, <2>6 DEF ReplaceReference, Discards
  <2> QED
    BY <2>1, <2>2, <2>3, <2>4, <2>5, <2>6
       DEF Work, Asks, Writes, Records, Cleans, Refused, Discover, Answer, Renew, WriteFails,
           Discards, Commit, CommitFails, ReplaceCatalog, SetDefault, ReplaceFails, DeleteConnection,
           RemoveFile, RemoveFails, files
<1>3. CASE file[s] # "none"
  <2>1. \/ s \in Referenced \cup spilt
        \/ \E u \in Tasks : s \in {task[u].new, task[u].old}
    BY <1>1, <1>3 DEF IInv, NothingIsLeftBehind
  <2>2. spilt \subseteq spilt'
    <3>1. CASE Starts(t)
      BY <3>1, StartsAreTyped DEF history
    <3> QED
      BY <3>1 DEF Work, Asks, Writes, Records, Cleans, Refused, Discover, Answer, Renew, Stage,
         Publish, SyncDirectory, WriteFails, Discards, Commit, CommitFails, ReplaceCatalog,
         SetDefault, ReplaceReference, ReplaceFails, DeleteConnection, RemoveFile, RemoveFails,
         history
  <2>3. \A u \in Tasks : u # t => task'[u] = task[u]
    BY Steps
  <2>4. CASE s \in Referenced \cup {task[t].new, task[t].old}
    BY <2>4, HandsAreEmptied
  <2> QED
    BY <2>1, <2>2, <2>3, <2>4
<1> QED
  BY <1>2, <1>3
---------------------------------------------------------------------------
(* The machine stops and starts.                                           *)
LEMMA AllIdle ==
  ASSUME task' = [t \in Tasks |-> Idle], lock' \in [Providers -> Tasks \cup {None}]
  PROVE  /\ Locked' /\ Apart' /\ Resting' /\ \A t \in Tasks : TaskOK(task[t])'
<1>1. \A t \in Tasks : task'[t] = Idle
  OBVIOUS
<1>2. Locked'
  BY <1>1, IdleIsARecord DEF Locked, Idle
<1>3. Apart' /\ Resting'
  BY <1>1 DEF Apart, Resting, Idle
<1> QED
  BY <1>1, <1>2, <1>3, IdleIsOK

LEMMA CrashIsSafe ==
  ASSUME IInv, Crash \/ PowerLoss
  PROVE  IInv'
<1>0. Rows /\ Files /\ Rest /\ Written /\ Single /\ RowsHaveSecrets /\ DefaultWasReady
  BY Parts DEF IInv
<1>1. Locked' /\ Apart' /\ Resting' /\ \A t \in Tasks : TaskOK(task[t])'
  <2>1. lock' \in [Providers -> Tasks \cup {None}]
    BY DEF Crash, PowerLoss, Stops
  <2> QED
    BY <2>1, AllIdle DEF Crash, PowerLoss, Stops
<1>2. UNCHANGED <<conn, catalog, default, owner, ready, spilt>> /\ up' = FALSE
  BY DEF Crash, PowerLoss, Stops, rows
<1> PICK unsaved \in SUBSET {s \in Secrets : file[s] = "published"} :
      /\ file' = [s \in Secrets |-> IF s \in unsaved THEN "staged" ELSE file[s]]
      /\ lost' = lost \cup unsaved
  <2>1. CASE Crash
    <3>1. file' = [s \in Secrets |-> IF s \in {} THEN "staged" ELSE file[s]] /\ lost' = lost \cup {}
      BY <1>0, <2>1 DEF Crash, Files
    <3> QED
      BY <3>1
  <2> QED
    BY <2>1 DEF PowerLoss
<1>3. Rows' /\ Rest' /\ Single'
  BY <1>0, <1>2 DEF Rows, Rest, Single
<1>4. /\ Files'
      /\ \A s \in Secrets : \/ file'[s] = file[s]
                            \/ file[s] = "published" /\ s \in lost'
  BY <1>0, <1>2 DEF Files
<1>5. Written' /\ RowsHaveSecrets'
  <2>1. Written'
    BY <1>0, <1>2, <1>4 DEF Written
  <2>2. \A p \in Providers : conn[p] # None => conn[p] \in Secrets
    BY <1>0 DEF Rows
  <2> QED
    BY <1>0, <1>2, <1>4, <2>1, <2>2 DEF RowsHaveSecrets
<1>6. NothingIsLeftBehind'
  BY <1>2 DEF NothingIsLeftBehind
<1>7. DefaultWasReady'
  BY <1>0, <1>2 DEF DefaultWasReady, Connected, AccountOf
<1>8. TypeOK'
  BY <1>1, <1>3, <1>4, Parts DEF TypeOK, Rows, Files, Rest, Locked, TaskRecords
<1> QED
  BY <1>1, <1>3, <1>5, <1>6, <1>7, <1>8 DEF IInv

LEMMA BootIsSafe ==
  ASSUME IInv, Boot
  PROVE  IInv'
<1>0. Rows /\ Files /\ Rest /\ Locked /\ Written /\ Single /\ RowsHaveSecrets /\ DefaultWasReady
  BY Parts DEF IInv
<1> DEFINE kept == {s \in Referenced : file[s] # "staged"}
<1>1. /\ ~up /\ up' = TRUE
      /\ file' = [s \in Secrets |-> IF s \in kept THEN file[s] ELSE "none"]
      /\ owner' = [s \in Secrets |-> IF s \in kept \cup Referenced THEN owner[s] ELSE None]
      /\ ready' = {x \in ready : \E s \in Referenced : owner[s] = x[1]}
      /\ spilt' = {} /\ lost' = lost \cap Referenced
      /\ UNCHANGED <<conn, catalog, default, lock, task>>
  BY DEF Boot, Sweeps, rows
<1>2. Locked' /\ Apart' /\ Resting' /\ \A t \in Tasks : TaskOK(task[t])'
  <2>1. \A t \in Tasks : task'[t] = Idle
    BY <1>1 DEF IInv, Resting
  <2>2. Locked'
    BY <1>0, <1>1 DEF Locked
  <2>3. Apart' /\ Resting'
    BY <2>1 DEF Apart, Resting, Idle
  <2> QED
    BY <2>1, <2>2, <2>3, IdleIsOK
<1>3. Rows' /\ Single'
  BY <1>0, <1>1 DEF Rows, Single
<1>4. Rest' /\ Files' /\ Written'
  <2>1. Rest' /\ Files'
    BY <1>0, <1>1 DEF Rest, Files
  <2>2. Written'
    BY <1>0, <1>1 DEF Files, Written
  <2> QED
    BY <2>1, <2>2
<1>5. \A s \in Referenced :
        /\ s \in Secrets /\ owner'[s] = owner[s] /\ owner[s] # None
        /\ file[s] # "staged" => file'[s] = file[s]
        /\ s \in lost => s \in lost'
  BY <1>0, <1>1 DEF Referenced, Rows, RowsHaveSecrets
<1>6. \A p \in Providers : conn[p] # None => conn[p] \in Referenced
  BY DEF Referenced
<1>7. RowsHaveSecrets'
  BY <1>0, <1>1, <1>5, <1>6 DEF RowsHaveSecrets
<1>8. DefaultWasReady'
  <2> SUFFICES ASSUME default.provider # None
               PROVE  /\ conn[default.provider] # None
                      /\ default.model \in catalog[default.provider]
                      /\ <<owner'[conn[default.provider]], default.model>> \in ready'
    BY <1>1 DEF DefaultWasReady, Connected, AccountOf
  <2> DEFINE s == conn[default.provider]
  <2>1. /\ s # None /\ default.model \in catalog[default.provider]
        /\ <<owner[s], default.model>> \in ready /\ default.provider \in Providers
    BY <1>0 DEF DefaultWasReady, Connected, AccountOf, Rows
  <2>2. s \in Referenced /\ owner'[s] = owner[s]
    BY <1>5, <1>6, <2>1
  <2>3. <<owner[s], default.model>>[1] = owner[s]
    OBVIOUS
  <2> QED
    BY <1>1, <2>1, <2>2, <2>3
<1>9. NothingIsLeftBehind'
  <2>1. \A s \in Secrets : file'[s] # "none" => s \in Referenced
    BY <1>1
  <2> QED
    BY <1>1, <2>1 DEF NothingIsLeftBehind, Referenced
<1>10. TypeOK'
  BY <1>2, <1>3, <1>4 DEF TypeOK, Rows, Files, Rest, Locked, TaskRecords
<1> QED
  BY <1>2, <1>3, <1>4, <1>7, <1>8, <1>9, <1>10 DEF IInv

LEMMA InitIsSafe == Init => IInv
<1> SUFFICES ASSUME Init PROVE IInv
  OBVIOUS
<1>1. \A t \in Tasks : task[t] = Idle
  BY DEF Init
<1>2. Locked
  BY <1>1, IdleIsARecord DEF Init, Locked, Idle
<1>3. TypeOK
  BY <1>2, Parts DEF Init, Rows, Files, Rest
<1>4. Written /\ Single /\ Resting /\ RowsHaveSecrets /\ DefaultWasReady /\ NothingIsLeftBehind
  BY DEF Init, Written, Single, Resting, RowsHaveSecrets, DefaultWasReady, NothingIsLeftBehind
<1>5. Apart
  BY <1>1 DEF Apart, Idle
<1>6. TaskOK(Idle)
  <2>1. Idle.op = "idle" /\ Idle.at = "idle" /\ Idle.new = None /\ Idle.old = None
    BY DEF Idle
  <2> QED
    BY <2>1 DEF TaskOK, WellFormed, Held, KnowsItsRow, KnowsItsFile, KnowsItsModel, KnowsTheOld
<1> QED
  BY <1>1, <1>3, <1>4, <1>5, <1>6 DEF IInv

LEMMA NextIsSafe == IInv /\ [Next]_vars => IInv'
<1> SUFFICES ASSUME IInv, [Next]_vars PROVE IInv'
  OBVIOUS
<1>1. CASE \E t \in Tasks : Work(t)
  <2> PICK t \in Tasks : Work(t)
    BY <1>1
  <2>1. Locked' /\ Rows' /\ Files' /\ Rest'
    BY WorkIsTyped, RowsAreTyped, FilesAreTyped, RestIsTyped
  <2>2. TypeOK'
    BY <2>1 DEF TypeOK, Rows, Files, Rest, Locked, TaskRecords
  <2>3. Resting'
    BY RunsWhileUp DEF Resting
  <2> QED
    BY <2>2, <2>3, FilesStayWritten, RowsStaySound, StayApart, TasksStayOK, NothingStaysBehind,
       DefaultStaysReady DEF IInv
<1>2. CASE UNCHANGED vars
  BY <1>2 DEF IInv, vars, rows, files, history, TypeOK, Written, Single, Resting, Apart, TaskOK,
     WellFormed, Held, Idle, KnowsItsRow, KnowsItsFile, Reaches, KnowsItsModel, KnowsTheOld,
     Referenced, RowsHaveSecrets, NothingIsLeftBehind, DefaultWasReady, Connected, AccountOf
<1> QED
  BY <1>1, <1>2, CrashIsSafe, BootIsSafe DEF Next, Work

LEMMA Inductive == Spec => []IInv
BY InitIsSafe, NextIsSafe, PTL DEF Spec
---------------------------------------------------------------------------
(* The state is well-typed, and an operation that has a provider has its   *)
(* lock.                                                                   *)
THEOREM TypeCorrect == Spec => []TypeOK
<1>1. IInv => TypeOK
  BY DEF IInv
<1> QED
  BY <1>1, Inductive, PTL

(* However many operations run at once, and wherever the process stops, a  *)
(* row names a credential that is there.  It is there after the power went *)
(* too, where directories are synced; on Windows it need not be.           *)
THEOREM RowsAlwaysHaveSecrets == Spec => []RowsHaveSecrets
<1>1. IInv => RowsHaveSecrets
  BY DEF IInv
<1> QED
  BY <1>1, Inductive, PTL

(* No credential is forgotten but by a step that failed since the boot.    *)
THEOREM NothingIsEverLeftBehind == Spec => []NothingIsLeftBehind
<1>1. IInv => NothingIsLeftBehind
  BY DEF IInv
<1> QED
  BY <1>1, Inductive, PTL

(* The machine's default is a model that has answered with the credential  *)
(* its provider's row names, whatever replaced that row since.             *)
THEOREM DefaultsWereReady == Spec => []DefaultWasReady
<1>1. IInv => DefaultWasReady
  BY DEF IInv
<1> QED
  BY <1>1, Inductive, PTL
---------------------------------------------------------------------------
(* The turns with a model (ModelTurns).  What the clients keep of a turn   *)
(* is how often they have asked and whether the sign-in was renewed; why a *)
(* request was repeated, and what the owner is told, has to follow from it.*)

ClientTypes ==
  /\ service \in Services
  /\ phase \in {"idle", "asking", "renewing", "looking", "over"}
  /\ attempt \in 0..2 /\ renewed \in BOOLEAN /\ waited \in Nat
  /\ asked \in Seq(Refusals)
  /\ verdict \in {Nothing} \cup Errors \cup Ends
  /\ phase = "over" <=> verdict # Nothing

(* Of the refusals of a turn, the first ones came before the sign-in was   *)
(* renewed, and the last of those is what it was renewed for; all others   *)
(* that were answered by asking again were worth waiting for.              *)
Repeated(before) ==
  /\ IF renewed THEN before \in 1..3 /\ asked[before].status = 401 ELSE before = 0
  /\ Len(asked) \in {before + attempt, before + attempt + 1}
  /\ \A i \in 1..(before + attempt) : i # before => WorthWaiting(asked[i])
  /\ phase = "asking" => Len(asked) = before + attempt
  /\ phase = "renewing" => ~renewed /\ Len(asked) = attempt + 1 /\ asked[Len(asked)].status = 401

TurnsInv ==
  /\ ClientTypes
  /\ \E before \in 0..3 : Repeated(before)
  /\ waited <= 60 * Len(asked)
  /\ FailuresAreToldApart

(* classify_error of the three clients, for what their services refuse     *)
(* with: an error that is worth another try is that of a refusal that may  *)
(* pass, and the owner is sent to pay or to sign in only for what says so. *)
Explains(error, r) ==
  /\ Retryable(error) => WorthWaiting(r)
  /\ error = "QuotaExhausted" => r.code = "spent"
  /\ error = "Unauthorized" => r.status = 401 \/ (service = "gemini" /\ r.code = "key")

LEMMA RefusalsAreClassified ==
  ASSUME NEW r \in RefusalsOf(service), NEW error,
         \/ service \in {"openai", "chatgpt"} /\ error = ClassifyOpenAI(r.status, r.code)
         \/ service = "anthropic" /\ error = ClassifyAnthropic(r.status, r.code)
         \/ service = "gemini" /\ error = ClassifyGemini(r.status, r.code)
  PROVE  r \in Refusals /\ error \in Errors /\ Explains(error, r)
<1>1. r \in Refusals /\ r.status \in Nat
  BY ModelTurnsAssumption DEF RefusalsOf
<1>2. r.code = "spent" => r.status = IF service = "anthropic" THEN 400 ELSE 429
  BY DEF RefusalsOf
<1>3. /\ ByStatus(r.status) \in Errors \ {"QuotaExhausted"}
      /\ ByStatus(r.status) = "Unauthorized" => r.status = 401
      /\ ByStatus(r.status) = "RateLimited" => r.status = 429
      /\ ByStatus(r.status) = "Unavailable" => r.status >= 500
  BY <1>1 DEF ByStatus, Errors
<1>4. CASE service \in {"openai", "chatgpt"} /\ error = ClassifyOpenAI(r.status, r.code)
  BY <1>1, <1>2, <1>3, <1>4
     DEF ClassifyOpenAI, Errors, Explains, Retryable, WorthWaiting
<1>5. CASE service = "anthropic" /\ error = ClassifyAnthropic(r.status, r.code)
  BY <1>1, <1>2, <1>3, <1>5
     DEF ClassifyAnthropic, Errors, Explains, Retryable, WorthWaiting
<1>6. CASE service = "gemini" /\ error = ClassifyGemini(r.status, r.code)
  BY <1>1, <1>2, <1>3, <1>6
     DEF ClassifyGemini, Errors, Explains, Retryable, WorthWaiting
<1> QED
  BY <1>4, <1>5, <1>6

LEMMA OneMore ==
  ASSUME NEW S, NEW seq \in Seq(S), NEW x \in S
  PROVE  /\ Append(seq, x) \in Seq(S) /\ Len(Append(seq, x)) = Len(seq) + 1
         /\ Append(seq, x)[Len(seq) + 1] = x
         /\ \A i \in 1..Len(seq) : Append(seq, x)[i] = seq[i]
OBVIOUS

(* A refusal: another try, a new token, a look at the catalogue or the end.*)
LEMMA RefusalKeeps ==
  ASSUME TurnsInv, phase = "asking", service' = service,
         NEW r \in Refusals, NEW error \in Errors, Explains(error, r), Declined(r, error)
  PROVE  TurnsInv'
<1>1. PICK before \in 0..3 : Repeated(before)
  BY DEF TurnsInv
<1>2. /\ asked \in Seq(Refusals) /\ Len(asked) = before + attempt /\ Len(asked) \in Nat
      /\ attempt \in 0..2 /\ renewed \in BOOLEAN /\ waited \in Nat /\ waited <= 60 * Len(asked)
  BY <1>1 DEF Repeated, TurnsInv, ClientTypes
<1>3. /\ asked' = Append(asked, r) /\ renewed' = renewed
      /\ asked' \in Seq(Refusals) /\ Len(asked') = Len(asked) + 1 /\ asked'[Len(asked')] = r
      /\ \A i \in 1..Len(asked) : asked'[i] = asked[i]
  <2>1. asked' = Append(asked, r) /\ renewed' = renewed
    BY DEF Declined
  <2> QED
    BY <1>2, <2>1, OneMore
<1>4. verdict = Nothing
  BY DEF TurnsInv, ClientTypes
<1>5. error # Nothing
  BY ModelTurnsAssumption
<1>6. IF renewed THEN before \in 1..3 /\ asked'[before].status = 401 ELSE before = 0
  <2>1. IF renewed THEN before \in 1..3 /\ asked[before].status = 401 ELSE before = 0
    BY <1>1 DEF Repeated
  <2>2. before = 0 \/ before \in 1..Len(asked)
    BY <1>2
  <2>3. before = 0 \/ asked'[before] = asked[before]
    BY <1>3, <2>2
  <2> QED
    BY <2>1, <2>3
<1>7. CASE /\ Retryable(error) /\ attempt < 2 /\ attempt' = attempt + 1
           /\ waited' = waited + (IF r.wait = Nothing THEN BackoffSeconds(attempt)
                                  ELSE RetryAfterSeconds(r.wait))
           /\ UNCHANGED <<phase, verdict>>
  <2>1. waited' \in Nat /\ waited' <= waited + 60
    <3>1. r.wait = Nothing \/ r.wait \in Nat
      BY ModelTurnsAssumption
    <3> QED
      BY <1>2, <1>7, <3>1 DEF BackoffSeconds, RetryAfterSeconds
  <2>2. WorthWaiting(r)
    BY <1>7 DEF Explains
  <2>3. Repeated(before)'
    <3>1. Len(asked') = before + attempt'
      BY <1>2, <1>3, <1>7
    <3>2. \A i \in 1..(before + attempt) : i # before => WorthWaiting(asked[i])
      BY <1>1 DEF Repeated
    <3>3. \A i \in 1..(before + attempt') : i # before => WorthWaiting(asked'[i])
      BY <1>2, <1>3, <1>7, <2>2, <3>2
    <3> QED
      BY <1>3, <1>6, <1>7, <3>1, <3>3 DEF Repeated
  <2>4. ClientTypes'
    BY <1>2, <1>3, <1>7, <2>1 DEF TurnsInv, ClientTypes
  <2>5. waited' <= 60 * Len(asked')
    BY <1>2, <1>3, <2>1
  <2>6. verdict' = Nothing
    BY <1>4, <1>7
  <2>7. FailuresAreToldApart'
    BY <2>6, ModelTurnsAssumption DEF FailuresAreToldApart, Errors
  <2> QED
    BY <2>3, <2>4, <2>5, <2>7 DEF TurnsInv
<1>8. CASE /\ error = "Unauthorized" /\ service \in {"openai", "chatgpt"} /\ ~renewed
           /\ phase' = "renewing" /\ UNCHANGED <<verdict, attempt, waited>>
  <2>1. r.status = 401
    BY <1>8 DEF Explains
  <2>2. Repeated(before)'
    BY <1>1, <1>2, <1>3, <1>6, <1>8, <2>1 DEF Repeated
  <2>3. ClientTypes'
    BY <1>2, <1>3, <1>4, <1>8 DEF TurnsInv, ClientTypes
  <2>4. waited' <= 60 * Len(asked')
    BY <1>2, <1>3, <1>8
  <2>5. FailuresAreToldApart'
    BY <1>4, <1>8, ModelTurnsAssumption DEF FailuresAreToldApart, Errors
  <2> QED
    BY <2>2, <2>3, <2>4, <2>5 DEF TurnsInv
<1>9. CASE \/ phase' = "looking" /\ UNCHANGED <<verdict, attempt, waited>>
           \/ phase' = "over" /\ verdict' = error /\ UNCHANGED <<attempt, waited>>
  <2>1. Repeated(before)'
    BY <1>1, <1>2, <1>3, <1>6, <1>9 DEF Repeated
  <2>2. ClientTypes'
    BY <1>2, <1>3, <1>4, <1>5, <1>9 DEF TurnsInv, ClientTypes
  <2>3. waited' <= 60 * Len(asked')
    BY <1>2, <1>3, <1>9
  <2>4. FailuresAreToldApart'
    <3>1. CASE verdict' = error
      <4>1. asked' # <<>>
        BY <1>2, <1>3
      <4>2. error = "RateLimited" => WorthWaiting(r)
        BY DEF Explains, Retryable
      <4> QED
        BY <1>3, <3>1, <4>1, <4>2 DEF Explains, FailuresAreToldApart
    <3>2. CASE verdict' = Nothing
      BY <3>2, ModelTurnsAssumption DEF FailuresAreToldApart, Errors
    <3> QED
      BY <1>4, <1>9, <3>1, <3>2
  <2> QED
    BY <2>1, <2>2, <2>3, <2>4 DEF TurnsInv
<1> QED
  BY <1>7, <1>8, <1>9 DEF Declined, Over, MaxRetries

(* An answer: the turn is over, and what it took is forgotten.             *)
LEMMA FreshTurn ==
  ASSUME service' \in Services,
         attempt' = 0, renewed' = FALSE, asked' = <<>>, waited' = 0,
         \/ phase' \in {"idle", "asking"} /\ verdict' = Nothing
         \/ /\ phase' = "over"
            /\ verdict' \in {"InvalidResponse", "MaxTokens", "EndTurn", "InvalidTerminal"}
  PROVE  TurnsInv'
<1>1. verdict' # "RateLimited" /\ verdict' # "QuotaExhausted" /\ verdict' # "Unauthorized"
  BY ModelTurnsAssumption DEF Errors
<1>2. verdict' \in {Nothing} \cup Errors \cup Ends
  BY DEF Errors, Ends
<1>3. phase' = "over" <=> verdict' # Nothing
  BY ModelTurnsAssumption DEF Errors, Ends
<1>4. ClientTypes'
  <2>1. asked' \in Seq(Refusals) /\ attempt' \in 0..2 /\ waited' \in Nat
    OBVIOUS
  <2> QED
    BY <1>2, <1>3, <2>1 DEF ClientTypes
<1>5. Repeated(0)'
  BY DEF Repeated
<1>6. FailuresAreToldApart'
  BY <1>1 DEF FailuresAreToldApart
<1> QED
  BY <1>4, <1>5, <1>6 DEF TurnsInv

LEMMA AnswerKeeps ==
  ASSUME TurnsInv, phase = "asking", service' = service,
         NEW reply, NEW items, Turn(reply, items)
  PROVE  TurnsInv'
<1>1. service' \in Services /\ verdict = Nothing
  BY DEF TurnsInv, ClientTypes
<1> QED
  BY <1>1, FreshTurn DEF Turn, Over

(* The steps that leave the record of the turn as it is.                   *)
LEMMA EndKeeps ==
  ASSUME TurnsInv, phase # "over",
         phase' = "over", UNCHANGED <<service, attempt, renewed, asked, waited>>,
         verdict' \in Errors \cup Ends,
         verdict' # "RateLimited", verdict' # "QuotaExhausted",
         verdict' = "Unauthorized" => phase = "renewing"
  PROVE  TurnsInv'
<1>1. PICK before \in 0..3 : Repeated(before)
  BY DEF TurnsInv
<1>2. Repeated(before)'
  BY <1>1 DEF Repeated
<1>3. ClientTypes'
  BY ModelTurnsAssumption DEF TurnsInv, ClientTypes
<1>4. verdict' = "Unauthorized" => asked' # <<>> /\ asked'[Len(asked')].status = 401
  BY <1>1 DEF Repeated, TurnsInv, ClientTypes
<1>5. FailuresAreToldApart'
  BY <1>4 DEF FailuresAreToldApart
<1> QED
  BY <1>2, <1>3, <1>5 DEF TurnsInv

LEMMA TurnsStep ==
  ASSUME TurnsInv, [TurnsNext]_turnVars
  PROVE  TurnsInv'
<1>1. CASE Complete
  <2>1. verdict' = Nothing /\ service' \in Services
    BY <1>1 DEF TurnsInv, ClientTypes, Complete
  <2> QED
    BY <1>1, <2>1, FreshTurn DEF Complete
<1>2. CASE OpenAIAnswers
  <2>1. phase = "asking" /\ service = "openai" /\ service' = service
    BY <1>2 DEF OpenAIAnswers, Quiet
  <2>2. CASE \E r \in RefusalsOf(service) :
               Declined(r, ClassifyOpenAI(r.status, r.code))
    BY <2>1, <2>2, RefusalsAreClassified, RefusalKeeps
  <2>3. CASE \E a \in Answers : Turn(DecodeOpenAI(a, Len(said)), a.items)
    BY <2>1, <2>3, AnswerKeeps
  <2> QED
    BY <1>2, <2>2, <2>3 DEF OpenAIAnswers
<1>3. CASE ChatGptAnswers
  <2>1. phase = "asking" /\ service = "chatgpt" /\ service' = service
    BY <1>3 DEF ChatGptAnswers, Quiet
  <2>2. CASE \E r \in RefusalsOf(service) :
               Declined(r, ClassifyOpenAI(r.status, r.code))
    BY <2>1, <2>2, RefusalsAreClassified, RefusalKeeps
  <2>3. CASE \E reply, items : Turn(reply, items)
    BY <2>1, <2>3, AnswerKeeps
  <2> QED
    BY <1>3, <2>2, <2>3 DEF ChatGptAnswers
<1>4. CASE AnthropicAnswers
  <2>1. phase = "asking" /\ service = "anthropic" /\ service' = service
    BY <1>4 DEF AnthropicAnswers, Quiet
  <2>2. CASE \E r \in RefusalsOf(service) :
               Declined(r, ClassifyAnthropic(r.status, r.code))
    BY <2>1, <2>2, RefusalsAreClassified, RefusalKeeps
  <2>3. CASE \E a \in Answers : Turn(DecodeAnthropic(a, Len(said)), a.items)
    BY <2>1, <2>3, AnswerKeeps
  <2> QED
    BY <1>4, <2>2, <2>3 DEF AnthropicAnswers
<1>5. CASE GeminiAnswers
  <2>1. phase = "asking" /\ service = "gemini" /\ service' = service
    BY <1>5 DEF GeminiAnswers, Quiet
  <2>2. CASE \E r \in RefusalsOf(service) :
               Declined(r, ClassifyGemini(r.status, r.code))
    BY <2>1, <2>2, RefusalsAreClassified, RefusalKeeps
  <2>3. CASE \E a \in Answers : Turn(DecodeGemini(a, Len(said)), a.items)
    BY <2>1, <2>3, AnswerKeeps
  <2> QED
    BY <1>5, <2>2, <2>3 DEF GeminiAnswers
<1>6. CASE NoAnswer
  BY <1>6, EndKeeps DEF NoAnswer, Over, turnHistory, Errors
<1>7. CASE RenewSignIn
  <2>1. CASE phase' = "asking" /\ attempt' = 0 /\ renewed' = TRUE /\ UNCHANGED verdict
    <3>1. /\ phase = "renewing" /\ UNCHANGED <<service, asked, waited>>
          /\ attempt \in 0..2 /\ Len(asked) \in Nat
      BY <1>7 DEF RenewSignIn, turnHistory, TurnsInv, ClientTypes
    <3>2. PICK before \in 0..3 : Repeated(before)
      BY DEF TurnsInv
    <3>3. Repeated(Len(asked))'
      BY <2>1, <3>1, <3>2 DEF Repeated
    <3>4. Len(asked) \in 0..3
      BY <3>1, <3>2 DEF Repeated
    <3>5. ClientTypes'
      BY <2>1, <3>1 DEF TurnsInv, ClientTypes
    <3>6. waited' <= 60 * Len(asked') /\ FailuresAreToldApart'
      BY <2>1, <3>1 DEF TurnsInv, FailuresAreToldApart
    <3>7. \E n \in 0..3 : Repeated(n)'
      <4>1. asked' = asked
        BY <3>1
      <4> QED
        BY <3>3, <3>4, <4>1 DEF Repeated
    <3> QED
      BY <3>5, <3>6, <3>7 DEF TurnsInv
  <2>2. CASE \E error \in RenewalErrors :
               Over(error) /\ UNCHANGED <<attempt, renewed>>
    BY <1>7, <2>2, EndKeeps DEF RenewSignIn, RenewalErrors, Over, turnHistory, Errors
  <2> QED
    BY <1>7, <2>1, <2>2 DEF RenewSignIn
<1>8. CASE Look
  BY <1>8, EndKeeps DEF Look, Over, turnHistory, Errors
<1>9. CASE Cancel
  BY <1>9, EndKeeps DEF Cancel, Over, turnHistory, Ends
<1>10. CASE ClientFails
  BY <1>10, EndKeeps DEF ClientFails, Over, turnHistory, Errors
<1>11. CASE UNCHANGED turnVars
  BY <1>11 DEF TurnsInv, ClientTypes, Repeated, FailuresAreToldApart, turnVars,
               client, turnHistory
<1> QED
  BY <1>1, <1>2, <1>3, <1>4, <1>5, <1>6, <1>7, <1>8, <1>9, <1>10, <1>11 DEF TurnsNext

LEMMA TurnsInvariant == TurnsSpec => []TurnsInv
<1>1. TurnsInit => TurnsInv
  <2> SUFFICES ASSUME TurnsInit PROVE TurnsInv
    OBVIOUS
  <2>1. ClientTypes
    <3>1. asked \in Seq(Refusals) /\ attempt \in 0..2 /\ waited \in Nat
      BY DEF TurnsInit
    <3> QED
      BY <3>1 DEF TurnsInit, ClientTypes
  <2>2. Repeated(0)
    BY DEF TurnsInit, Repeated
  <2>3. waited <= 60 * Len(asked)
    BY DEF TurnsInit
  <2>4. FailuresAreToldApart
    BY ModelTurnsAssumption DEF TurnsInit, FailuresAreToldApart, Errors
  <2> QED
    BY <2>1, <2>2, <2>3, <2>4 DEF TurnsInv
<1> QED
  BY <1>1, TurnsStep, PTL DEF TurnsSpec

(* refresh_catalog keeps the owner's choice, whatever a catalogue holds.   *)
LEMMA CatalogsKeepTheDefault ==
  ASSUME offered \in SUBSET ModelIds, Default \in offered, [TurnsNext]_turnVars
  PROVE  offered' \in SUBSET ModelIds /\ Default \in offered'
<1>1. CASE Look
  <2>1. ASSUME NEW listed \in SUBSET CatalogRows, offered' = CatalogOf(service, listed)
        PROVE  offered' \in SUBSET ModelIds
    BY <2>1 DEF CatalogOf, CatalogRows, OpenAICatalog, GeminiCatalog, AnthropicCatalog
  <2> QED
    BY <1>1, <2>1 DEF Look
<1>2. CASE ~Look
  BY <1>2 DEF TurnsNext, Complete, OpenAIAnswers, ChatGptAnswers, AnthropicAnswers,
     GeminiAnswers, Quiet, ClientFails, NoAnswer, RenewSignIn, Cancel, turnVars
<1> QED
  BY <1>1, <1>2

(* The types of a client's turns, over any answers and refusals: among     *)
(* them that the owner's choice is always one of the models offered.       *)
THEOREM TurnsTypes == TurnsSpec => []TurnsTypeOK
<1> DEFINE Kept == offered \in SUBSET ModelIds /\ Default \in offered
<1>1. TurnsInit => Kept
  BY ModelTurnsAssumption DEF TurnsInit
<1>2. Kept /\ [TurnsNext]_turnVars => Kept'
  BY CatalogsKeepTheDefault
<1>3. TurnsInv /\ Kept => TurnsTypeOK
  BY DEF TurnsInv, ClientTypes, TurnsTypeOK, MaxRetries
<1> QED
  BY <1>1, <1>2, <1>3, TurnsInvariant, PTL DEF TurnsSpec

(* classify_error and the turn's end: the owner is told to wait only if    *)
(* waiting helps, to pay only if there is nothing left, and to sign in     *)
(* only if the credential was refused, whatever the services answer.       *)
THEOREM FailuresAreAlwaysToldApart == TurnsSpec => []FailuresAreToldApart
<1>1. TurnsInv => FailuresAreToldApart
  BY DEF TurnsInv
<1> QED
  BY <1>1, TurnsInvariant, PTL

(* The clients' retries and the one renewal: what is asked again may be    *)
(* answered otherwise, there are at most six requests in a turn, and none  *)
(* waits longer than a minute.                                             *)
THEOREM RepeatsAlwaysHaveAReason == TurnsSpec => []RepeatsHaveAReason
<1>1. TurnsInv => RepeatsHaveAReason
  <2> SUFFICES ASSUME TurnsInv PROVE RepeatsHaveAReason
    OBVIOUS
  <2>1. PICK before \in 0..3 : Repeated(before)
    BY DEF TurnsInv
  <2>2. waited <= 60 * Len(asked)
    BY DEF TurnsInv
  <2>3. before \in 0..3 /\ attempt \in 0..2 /\ Len(asked) \in Nat
    BY DEF TurnsInv, ClientTypes
  <2>4. Len(asked) = before + attempt \/ Len(asked) = before + attempt + 1
    BY <2>1 DEF Repeated
  <2>5. phase = "asking" => Len(asked) = before + attempt
    BY <2>1 DEF Repeated
  <2>6. \A i \in 1..(before + attempt) : i # before => WorthWaiting(asked[i])
    BY <2>1 DEF Repeated
  <2>7. IF renewed THEN before \in 1..3 /\ asked[before].status = 401 ELSE before = 0
    BY <2>1 DEF Repeated
  <2> DEFINE repeated == {i \in DOMAIN asked : i < Len(asked) \/ phase = "asking"}
             other    == {i \in repeated : ~WorthWaiting(asked[i])}
  <2>8. \A i \in repeated : i \in 1..(before + attempt)
    <3>1. \A i \in repeated : i \in Nat \ {0} /\ i <= Len(asked) /\ (i < Len(asked) \/ phase = "asking")
      BY DEF TurnsInv, ClientTypes
    <3> QED
      BY <2>3, <2>4, <2>5, <3>1
  <2>9. \A i \in other : i = before /\ before > 0
    BY <2>3, <2>6, <2>8
  <2>10. CASE renewed
    <3>1. \A i, j \in other : i = j /\ asked[i].status = 401
      BY <2>7, <2>9, <2>10
    <3>2. Len(asked) <= 6
      BY <2>3, <2>4
    <3> QED
      BY <2>2, <2>10, <3>1, <3>2 DEF RepeatsHaveAReason, MaxRetries
  <2>11. CASE ~renewed
    <3>1. before = 0
      BY <2>7, <2>11
    <3>2. other = {}
      BY <2>9, <3>1
    <3>3. Len(asked) <= 3
      BY <2>3, <2>4, <3>1
    <3> QED
      BY <2>2, <2>11, <3>2, <3>3 DEF RepeatsHaveAReason, MaxRetries
  <2> QED
    BY <2>2, <2>10, <2>11
<1> QED
  BY <1>1, TurnsInvariant, PTL
=============================================================================
