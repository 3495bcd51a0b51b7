------------------------------ MODULE Providers ------------------------------
(***************************************************************************)
(* The provider connections: a row of the database names the file that     *)
(* holds a provider's credential, its catalog the models the credential    *)
(* may use, and the machine's default is one of those models.  Files and   *)
(* rows change in several steps, between which the network is asked and    *)
(* the process may die.                                                    *)
(*                                                                         *)
(* An operation holds the lock of its provider from its first step to its  *)
(* last; operations on different providers interleave.  A row is durable   *)
(* once its transaction commits, as SQLite promises; a file's contents are *)
(* once it is synced, and its name once its directory is, which Windows is *)
(* never asked to do.                                                      *)
(***************************************************************************)
EXTENDS Integers, FiniteSets

CONSTANTS
  Tasks,
  Providers,
  Models,
  Accounts,     \* whose credential it is; a refreshed one is the same account's
  Secrets,      \* references that files can get; each is used once in a life
  None,
  Unix          \* FALSE on Windows, where sync_directory does nothing

ASSUME ProvidersAssumption ==
  /\ Unix \in BOOLEAN
  /\ None \notin Tasks \cup Providers \cup Models \cup Accounts \cup Secrets

VARIABLES
  conn,         \* provider_connections: the secret_ref of a provider
  catalog,      \* provider_models of it
  default,      \* machine_settings: [provider, model], None for none
  file,         \* what the directory holds under a reference
  owner,        \* the account whose credential was written there
  lock,         \* provider_locks: who holds it
  task,         \* what a task does
  up,           \* the daemon is running
  ready,        \* history: models that answered with an account's credential
  spilt,        \* history: files a failed step has left behind
  lost          \* history: files whose name went when the power did

rows    == <<conn, catalog, default>>
files   == <<file, owner>>
history == <<ready, spilt, lost>>
vars    == <<rows, files, lock, task, up, history>>
---------------------------------------------------------------------------
Idle == [op |-> "idle", at |-> "idle", prov |-> None, acct |-> None,
         models |-> {}, model |-> None, new |-> None, old |-> None]

Ops == {"idle", "commit", "catalog", "default", "disconnect", "refresh"}
At  == {"idle", "discovering", "readying", "deleting", "renewing", "staging",
        "publishing", "syncing", "recording", "removing"}

TypeOK ==
  /\ conn \in [Providers -> Secrets \cup {None}]
  /\ catalog \in [Providers -> SUBSET Models]
  /\ default \in [provider : Providers, model : Models]
                   \cup {[provider |-> None, model |-> None]}
  /\ file \in [Secrets -> {"none", "staged", "published", "durable"}]
  /\ owner \in [Secrets -> Accounts \cup {None}]
  /\ lock \in [Providers -> Tasks \cup {None}]
  /\ task \in [Tasks -> [op : Ops, at : At, prov : Providers \cup {None},
                         acct : Accounts \cup {None}, models : SUBSET Models,
                         model : Models \cup {None}, new : Secrets \cup {None},
                         old : Secrets \cup {None}]]
  /\ up \in BOOLEAN /\ ready \subseteq Accounts \X Models /\ spilt \subseteq Secrets /\ lost \subseteq Secrets
  /\ \A t \in Tasks : task[t].prov # None => lock[task[t].prov] = t

Init ==
  /\ conn = [p \in Providers |-> None] /\ catalog = [p \in Providers |-> {}]
  /\ default = [provider |-> None, model |-> None]
  /\ file = [s \in Secrets |-> "none"] /\ owner = [s \in Secrets |-> None]
  /\ lock = [p \in Providers |-> None] /\ task = [t \in Tasks |-> Idle]
  /\ up = TRUE /\ ready = {} /\ spilt = {} /\ lost = {}

Referenced == {conn[p] : p \in Providers} \ {None}
Goes(t, to) == task' = [task EXCEPT ![t].at = to]

(* The guard is dropped, with an answer or an error.                       *)
Done(t) ==
  /\ task' = [task EXCEPT ![t] = Idle]
  /\ lock' = [lock EXCEPT ![task[t].prov] = None]

Begins(t, op, at, p, a, m, old) ==
  /\ up /\ task[t] = Idle /\ lock[p] = None
  /\ lock' = [lock EXCEPT ![p] = t]
  /\ task' = [task EXCEPT ![t] = [Idle EXCEPT !.op = op, !.at = at, !.prov = p,
                                              !.acct = a, !.model = m, !.old = old]]
  /\ UNCHANGED <<rows, files, up, history>>
---------------------------------------------------------------------------
(* Operations begin.  A commit and a disconnect do not read the file; the  *)
(* others end at once where they cannot.                                   *)

StartCommit(t) ==
  \E p \in Providers, a \in Accounts : Begins(t, "commit", "discovering", p, a, None, None)

Connected(p) == conn[p] # None
AccountOf(p) == owner[conn[p]]
Readable(p)  == Connected(p) /\ file[conn[p]] \in {"published", "durable"}

StartCatalog(t) ==
  \E p \in Providers : Readable(p) /\ Begins(t, "catalog", "discovering", p, AccountOf(p), None, None)

StartDefault(t) ==
  \E p \in Providers, m \in Models :
    Readable(p) /\ Begins(t, "default", "discovering", p, AccountOf(p), m, None)

StartRefresh(t) ==
  \E p \in Providers : Readable(p) /\ Begins(t, "refresh", "renewing", p, AccountOf(p), None, conn[p])

(* delete_connection looks at the default first.                           *)
StartDisconnect(t) ==
  \E p \in Providers :
    default.provider # p /\ Begins(t, "disconnect", "deleting", p, None, None, None)

(* The provider refuses, or cannot be asked.                               *)
Refused(t) ==
  /\ task[t].at \in {"discovering", "readying", "renewing"} /\ Done(t)
  /\ UNCHANGED <<rows, files, up, history>>

(* discover answers: a catalog is refreshed with it as it is, a default    *)
(* must be in it, and a commit selects the model it will try: the default  *)
(* of the machine where it is this provider's, a replacement asked for, or *)
(* a starter.                                                              *)
Selects(t, models) ==
  IF task[t].op = "default" THEN {task[t].model} \cap models
  ELSE models

Discover(t) ==
  /\ task[t].at = "discovering"
  /\ \E models \in SUBSET Models \ {{}} :
       IF task[t].op = "catalog"
         THEN task' = [task EXCEPT ![t].models = models, ![t].at = "recording"]
         ELSE \E m \in Selects(t, models) :
                task' = [task EXCEPT ![t].models = models, ![t].model = m,
                                     ![t].at = "readying"]
  /\ UNCHANGED <<rows, files, lock, up, history>>

(* The model answered the readiness prompt.                                *)
Answer(t) ==
  /\ task[t].at = "readying"
  /\ ready' = ready \cup {<<task[t].acct, task[t].model>>}
  /\ Goes(t, IF task[t].op = "commit" THEN "staging" ELSE "recording")
  /\ UNCHANGED <<rows, files, lock, up, spilt, lost>>

(* The provider gave new tokens of the same account.                       *)
Renew(t) ==
  /\ task[t].at = "renewing" /\ Goes(t, "staging")
  /\ UNCHANGED <<rows, files, lock, up, history>>
---------------------------------------------------------------------------
(* CredentialStore::write.                                                 *)

Stage(t) ==
  /\ task[t].at = "staging"
  /\ \E s \in Secrets :
       /\ owner[s] = None /\ s \notin Referenced
       /\ owner' = [owner EXCEPT ![s] = task[t].acct]
       /\ file' = [file EXCEPT ![s] = "staged"]
       /\ task' = [task EXCEPT ![t].new = s, ![t].at = "publishing"]
  /\ UNCHANGED <<rows, lock, up, history>>

\* Variant: the directory is not synced.
PublishOnly(t) ==
  /\ task[t].at = "publishing" /\ Goes(t, "recording")
  /\ file' = [file EXCEPT ![task[t].new] = "published"]
  /\ UNCHANGED <<rows, owner, lock, up, history>>

Publish(t) ==
  /\ task[t].at = "publishing" /\ Goes(t, "syncing")
  /\ file' = [file EXCEPT ![task[t].new] = "published"]
  /\ UNCHANGED <<rows, owner, lock, up, history>>

SyncDirectory(t) ==
  /\ task[t].at = "syncing" /\ Goes(t, "recording")
  /\ file' = IF Unix THEN [file EXCEPT ![task[t].new] = "durable"] ELSE file
  /\ UNCHANGED <<rows, owner, lock, up, history>>

(* let _ = delete: the file goes, or stays and nobody hears of it.         *)
Discards(s) ==
  \/ file' = [file EXCEPT ![s] = "none"] /\ UNCHANGED spilt
  \/ spilt' = spilt \cup {s} /\ UNCHANGED file

(* Any of it fails: what there is is taken away again.  So it is when no   *)
(* file can be made; on Windows the check of a new file is part of making  *)
(* it, and leaves it behind, like a delete that fails.                     *)
WriteFails(t) ==
  /\ task[t].at \in {"publishing", "syncing"} /\ Done(t)
  /\ Discards(task[t].new)
  /\ UNCHANGED <<rows, owner, up, ready, lost>>
---------------------------------------------------------------------------
(* The transactions.                                                       *)

Removes(t, old) ==
  IF old = None THEN Done(t)
  ELSE task' = [task EXCEPT ![t].old = old, ![t].new = None, ![t].at = "removing"] /\ UNCHANGED lock

\* Variant: a default that is set stays as it is.
CommitKeepingDefault(t) ==
  LET p == task[t].prov IN
  /\ task[t].op = "commit" /\ task[t].at = "recording"
  /\ conn' = [conn EXCEPT ![p] = task[t].new]
  /\ catalog' = [catalog EXCEPT ![p] = task[t].models]
  /\ default' = IF default.provider = None
                  THEN [provider |-> p, model |-> task[t].model] ELSE default
  /\ Removes(t, conn[p])
  /\ UNCHANGED <<files, up, history>>

(* commit_connection: the default is read again.  It is set where there is *)
(* none yet or it is this provider's.                                      *)
Commit(t) ==
  LET p == task[t].prov IN
  /\ task[t].op = "commit" /\ task[t].at = "recording"
  /\ conn' = [conn EXCEPT ![p] = task[t].new]
  /\ catalog' = [catalog EXCEPT ![p] = task[t].models]
  /\ default' = IF default.provider \in {None, p}
                  THEN [provider |-> p, model |-> task[t].model] ELSE default
  /\ Removes(t, conn[p])
  /\ UNCHANGED <<files, up, history>>

(* It fails: the file it was for is deleted, if that does not fail too.    *)
CommitFails(t) ==
  /\ task[t].op = "commit" /\ task[t].at = "recording" /\ Done(t)
  /\ Discards(task[t].new)
  /\ UNCHANGED <<rows, owner, up, ready, lost>>

(* replace_catalog: not without the machine's default.                     *)
ReplaceCatalog(t) ==
  LET p == task[t].prov IN
  /\ task[t].op = "catalog" /\ task[t].at = "recording" /\ Done(t)
  /\ catalog' = IF default.provider = p /\ default.model \notin task[t].models
                  THEN catalog ELSE [catalog EXCEPT ![p] = task[t].models]
  /\ UNCHANGED <<conn, default, files, up, history>>

(* replace_catalog_and_set_default                                         *)
SetDefault(t) ==
  LET p == task[t].prov IN
  /\ task[t].op = "default" /\ task[t].at = "recording" /\ Done(t)
  /\ catalog' = [catalog EXCEPT ![p] = task[t].models]
  /\ default' = [provider |-> p, model |-> task[t].model]
  /\ UNCHANGED <<conn, files, up, history>>

(* replace_secret_reference: only where it is still the row that was read. *)
ReplaceReference(t) ==
  LET p == task[t].prov IN
  /\ task[t].op = "refresh" /\ task[t].at = "recording"
  /\ IF conn[p] = task[t].old
       THEN /\ conn' = [conn EXCEPT ![p] = task[t].new]
            /\ Removes(t, task[t].old) /\ UNCHANGED <<file, spilt>>
       ELSE Discards(task[t].new) /\ Done(t) /\ UNCHANGED conn
  /\ UNCHANGED <<catalog, default, owner, up, ready, lost>>

(* It fails: nobody deletes the file it was for.                           *)
ReplaceFails(t) ==
  /\ task[t].op = "refresh" /\ task[t].at = "recording" /\ Done(t)
  /\ spilt' = spilt \cup {task[t].new}
  /\ UNCHANGED <<rows, files, up, ready, lost>>

(* delete_connection.  The catalog goes with the row, and a default among  *)
(* its models would keep it.                                               *)
DeleteConnection(t) ==
  LET p == task[t].prov IN
  /\ task[t].at = "deleting"
  /\ IF default.provider = p
       THEN Done(t) /\ UNCHANGED <<conn, catalog>>
       ELSE /\ conn' = [conn EXCEPT ![p] = None]
            /\ catalog' = [catalog EXCEPT ![p] = {}]
            /\ Removes(t, conn[p])
  /\ UNCHANGED <<default, files, up, history>>

(* remove_obsolete_secret                                                  *)
RemoveFile(t) ==
  /\ task[t].at = "removing" /\ Done(t)
  /\ file' = [file EXCEPT ![task[t].old] = "none"]
  /\ UNCHANGED <<rows, owner, up, history>>

RemoveFails(t) ==
  /\ task[t].at = "removing" /\ Done(t)
  /\ spilt' = spilt \cup {task[t].old}
  /\ UNCHANGED <<rows, files, up, ready, lost>>
---------------------------------------------------------------------------
Stops ==
  /\ up /\ up' = FALSE
  /\ lock' = [p \in Providers |-> None] /\ task' = [t \in Tasks |-> Idle]
  /\ UNCHANGED <<rows, owner, ready, spilt>>

(* The process dies: the system keeps what it was told.                    *)
Crash == Stops /\ UNCHANGED <<file, lost>>

(* The power goes.  A name the directory was not synced for may be the     *)
(* staged one still; that a staged one may be gone too makes no difference *)
(* to the boot.                                                            *)
PowerLoss ==
  /\ Stops
  /\ \E unsaved \in SUBSET {s \in Secrets : file[s] = "published"} :
       /\ file' = [s \in Secrets |-> IF s \in unsaved THEN "staged" ELSE file[s]]
       /\ lost' = lost \cup unsaved

(* The other files are deleted.  Their references are new again, and what  *)
(* an account without a row has answered is history no more.               *)
Sweeps(kept) ==
  /\ ~up /\ up' = TRUE
  /\ file' = [s \in Secrets |-> IF s \in kept THEN file[s] ELSE "none"]
  /\ owner' = [s \in Secrets |-> IF s \in kept \cup Referenced THEN owner[s] ELSE None]
  /\ ready' = {x \in ready : \E s \in Referenced : owner[s] = x[1]}
  /\ spilt' = {} /\ lost' = lost \cap Referenced
  /\ UNCHANGED <<rows, lock, task>>

\* Variant: what was never published is not looked for.
BootKeepingStaged == Sweeps(Referenced \cup {s \in Secrets : file[s] = "staged"})

(* ProviderService::new: files no row names are deleted, and so is what    *)
(* was staged.                                                             *)
Boot == Sweeps({s \in Referenced : file[s] # "staged"})
---------------------------------------------------------------------------
Starts(t)  == StartCommit(t) \/ StartCatalog(t) \/ StartDefault(t) \/ StartRefresh(t)
              \/ StartDisconnect(t)
Asks(t)    == Refused(t) \/ Discover(t) \/ Answer(t) \/ Renew(t)
Writes(t)  == Stage(t) \/ Publish(t) \/ SyncDirectory(t) \/ WriteFails(t)
Records(t) == Commit(t) \/ CommitFails(t) \/ ReplaceCatalog(t) \/ SetDefault(t)
              \/ ReplaceReference(t) \/ ReplaceFails(t) \/ DeleteConnection(t)
Cleans(t)  == RemoveFile(t) \/ RemoveFails(t)

Next ==
  \/ Crash \/ PowerLoss \/ Boot
  \/ \E t \in Tasks : Starts(t) \/ Asks(t) \/ Writes(t) \/ Records(t) \/ Cleans(t)

Spec == Init /\ [][Next]_vars
---------------------------------------------------------------------------
(* Properties.                                                             *)

(* A row always names a credential that is there, whenever the process     *)
(* stops or a step fails: the file is published before the row, and        *)
(* outlives it.  It is still there when the power goes, if its directory   *)
(* was synced before the row; on Windows the name may go with the power.   *)
RowsHaveSecrets ==
  \A p \in Providers : conn[p] # None =>
    /\ owner[conn[p]] # None
    /\ \/ file[conn[p]] = "durable"
       \/ ~Unix /\ (file[conn[p]] = "published" \/ conn[p] \in lost)

(* Credentials nobody uses do not pile up: a file is named by a row, in    *)
(* the hands of a task, or left by a step that failed since the boot.      *)
NothingIsLeftBehind ==
  up => \A s \in Secrets : file[s] # "none" =>
          \/ s \in Referenced \cup spilt
          \/ \E t \in Tasks : s \in {task[t].new, task[t].old}

(* The machine's default can be used: its provider has a row, its model is *)
(* in the catalog, and it has answered with that very account's credential.*)
DefaultWasReady ==
  default.provider # None =>
    /\ Connected(default.provider)
    /\ default.model \in catalog[default.provider]
    /\ <<AccountOf(default.provider), default.model>> \in ready
=============================================================================
