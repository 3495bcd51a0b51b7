--------------------------- MODULE Consolidation ---------------------------
(***************************************************************************)
(* What a daemon does before it serves: it brings the databases and the    *)
(* journals of the side-by-side releases to one root, and opens it.        *)
(*                                                                         *)
(* A database is its rows and whether this daemon can serve it; a          *)
(* directory is the database and the journals in it, and what else it      *)
(* holds.  Every system call on them is a step, and the process may die    *)
(* between any two.  A daemon that refuses exits.                          *)
(*                                                                         *)
(* The process dies; the machine does not.  What a call has written is     *)
(* there for the next process, but the code syncs neither the copies nor   *)
(* the directories they are renamed in before it removes the sources, so   *)
(* that nothing here is said of a loss of power.                           *)
(***************************************************************************)
CONSTANTS
  Daemons,    \* processes; each lives once
  Runs,       \* ids of runs and devices
  Absent,     \* no file, no directory
  Machines    \* what the old releases may have left

VARIABLES
  old,        \* the sources: two databases and the journals
  stage,      \* root.with_extension("staging")
  root,       \* the state root
  boot,       \* where each daemon is
  plan,       \* the sources it still has to bring across, or to remove
  origin,     \* history: old and root before the first start
  refused     \* history: daemons that exited by themselves

disk       == <<old, stage, root>>
daemonVars == <<boot, plan>>
history    == <<origin, refused>>

Sources   == {"surviving", "departing", "journals"}
Databases == [rows : SUBSET Runs, good : BOOLEAN]
Directories == [db : {Absent} \cup Databases, runs : {Absent} \cup SUBSET Runs,
                other : {"nothing", "ours", "foreign"}]
Olds == [surviving : {Absent} \cup Databases, departing : {Absent} \cup Databases,
         journals : {Absent} \cup SUBSET Runs]

ASSUME ConsolidationAssumption ==
  /\ \A x \in Databases \cup Directories \cup SUBSET Runs : x # Absent
  /\ Machines \subseteq [old : Olds, root : {Absent} \cup Directories]

Booting == {"started", "staging", "copying", "contributing", "journalling", "clearing",
            "renaming", "verifying", "removing", "opening", "recovering"}
Places  == Booting \cup {"unborn", "serving", "deaf", "gone"}

NewDatabase    == [rows |-> {}, good |-> TRUE]
EmptyDirectory == [db |-> Absent, runs |-> Absent, other |-> "nothing"]

ConsolidationTypeOK ==
  /\ old \in Olds
  /\ stage \in {Absent} \cup Directories /\ root \in {Absent} \cup Directories
  /\ boot \in [Daemons -> Places]
  /\ plan \in [Daemons -> SUBSET Sources]
  /\ origin \in Machines /\ refused \subseteq Daemons

ConsolidationInit ==
  /\ origin \in Machines
  /\ old = origin.old /\ root = origin.root /\ stage = Absent
  /\ boot = [d \in Daemons |-> "unborn"]
  /\ plan = [d \in Daemons |-> {}]
  /\ refused = {}
---------------------------------------------------------------------------
Go(d, there) == boot' = [boot EXCEPT ![d] = there]

(* A refusal or an error of the file system: the process ends.             *)
Refuse(d) ==
  /\ Go(d, "gone") /\ refused' = refused \cup {d}
  /\ UNCHANGED <<plan, origin>>

Proceed(d, there) == Go(d, there) /\ UNCHANGED <<plan, history>>

(* rusqlite's open makes the file it does not find.                        *)
Opened(db) == IF db = Absent THEN NewDatabase ELSE db

(* The schema's migrations, in one transaction: they refuse a database of  *)
(* a newer release and leave it as it was.                                 *)
Migrates(db) == db.good

(* A missing directory is made, as create_dir_all does.                    *)
MadeIfAbsent(directory) == IF directory = Absent THEN EmptyDirectory ELSE directory
---------------------------------------------------------------------------
(* take_inventory and decide: which sources there are, seen from the       *)
(* directory the daemon was started in.                                    *)
Inventory(here) ==
  {s \in Sources : old[s] # Absent /\ (here \/ s = "journals")}

IsOurRoot == root.db # Absent \/ root.runs # Absent \/ root.other = "ours"

AlreadyHere  == root # Absent /\ root.db # Absent
Occupied     == root # Absent /\ ~IsOurRoot /\ root # EmptyDirectory
Collides(found) ==
  {"surviving", "departing"} \subseteq found
    /\ old.surviving.rows \cap old.departing.rows # {}

Look(d, here) ==
  LET found == Inventory(here)
      fresh == found \subseteq {"journals"}
  IN /\ boot[d] = "started"
     /\ \/ /\ AlreadyHere \/ (~Occupied /\ fresh)
           /\ root' = MadeIfAbsent(root)
           /\ Proceed(d, "opening")
           /\ UNCHANGED <<old, stage>>
        \/ /\ ~AlreadyHere /\ (Occupied \/ Collides(found))
           /\ Refuse(d) /\ UNCHANGED disk
        \/ /\ ~AlreadyHere /\ ~Occupied /\ ~fresh /\ ~Collides(found)
           /\ Go(d, "staging") /\ plan' = [plan EXCEPT ![d] = found]
           /\ UNCHANGED <<disk, history>>

(* A stage from an interrupted attempt is debris.                          *)
Stage(d) ==
  /\ boot[d] = "staging"
  /\ stage' = EmptyDirectory /\ Proceed(d, "copying") /\ UNCHANGED <<old, root>>

Base(d) == IF "surviving" \in plan[d] THEN "surviving" ELSE "departing"

(* The copy of the main file, after a checkpoint of its log.  The row with *)
(* which SQLite answers the checkpoint is not read: that nobody else has   *)
(* the old database open, so that the log is empty, is assumed.            *)
CopyDatabase(d) ==
  /\ boot[d] = "copying"
  /\ old' = [old EXCEPT ![Base(d)] = Opened(@)]
  /\ \/ /\ stage # Absent
        /\ stage' = [stage EXCEPT !.db = Opened(old[Base(d)])]
        /\ Proceed(d, "contributing")
     \/ stage = Absent /\ Refuse(d) /\ UNCHANGED stage
  /\ UNCHANGED root

(* contribute_rows: a table the target does not have takes no rows.  Rows  *)
(* are told apart by their id.  INSERT OR IGNORE also leaves out a device  *)
(* whose token has the hash of another's; tokens are drawn at random, and  *)
(* two installations are assumed to have drawn different ones.             *)
Contributed(db) ==
  IF db = Absent THEN NewDatabase ELSE [db EXCEPT !.rows = @ \cup Opened(old.departing).rows]

ContributeRows(d) ==
  /\ boot[d] = "contributing" /\ UNCHANGED root
  /\ IF ~({"surviving", "departing"} \subseteq plan[d])
       THEN Proceed(d, "journalling") /\ UNCHANGED <<old, stage>>
     ELSE IF stage = Absent THEN Refuse(d) /\ UNCHANGED <<old, stage>>
     ELSE /\ old' = [old EXCEPT !.departing = Opened(@)]
          /\ stage' = [stage EXCEPT !.db = Contributed(@)]
          /\ Proceed(d, "journalling")

CopyTree(d) ==
  /\ boot[d] = "journalling" /\ UNCHANGED <<old, root>>
  /\ IF "journals" \notin plan[d] THEN Proceed(d, "clearing") /\ UNCHANGED stage
     ELSE /\ stage' = [MadeIfAbsent(stage) EXCEPT
                         !.runs = IF old.journals = Absent THEN {} ELSE old.journals]
          /\ IF old.journals = Absent THEN Refuse(d) ELSE Proceed(d, "clearing")

(* remove_dir takes an empty directory only.                               *)
ClearRoot(d) ==
  /\ boot[d] = "clearing" /\ UNCHANGED <<old, stage>>
  /\ IF root \in {Absent, EmptyDirectory}
       THEN root' = Absent /\ Proceed(d, "renaming")
       ELSE Refuse(d) /\ UNCHANGED root

\* Variant: the sources go with the commit, and the target is not verified.
RenameAndRemove(d) ==
  /\ boot[d] = "renaming" /\ stage # Absent /\ root = Absent
  /\ old' = [s \in Sources |-> IF s \in plan[d] THEN Absent ELSE old[s]]
  /\ root' = stage /\ stage' = Absent /\ Proceed(d, "verifying")

(* The commit, for as long as the machine runs.                            *)
Rename(d) ==
  /\ boot[d] = "renaming" /\ UNCHANGED old
  /\ IF stage # Absent /\ root \in {Absent, EmptyDirectory}
       THEN root' = stage /\ stage' = Absent /\ Proceed(d, "verifying")
       ELSE Refuse(d) /\ UNCHANGED <<stage, root>>

(* verify opens the target as the daemon will and reads every run, which   *)
(* Open does not: whether its rows can be read and whether its schema can  *)
(* be migrated are one here, "good".  One it cannot serve is moved out of  *)
(* the way and removed.                                                    *)
Verify(d) ==
  LET opened == [MadeIfAbsent(root) EXCEPT !.db = Opened(@)]
  IN /\ Migrates(opened.db)
     /\ root' = opened /\ Proceed(d, "removing")

Undo(d) ==
  /\ ~Migrates(Opened(MadeIfAbsent(root).db))
  /\ root' = Absent /\ Refuse(d)

VerifyOrUndo(d) ==
  /\ boot[d] = "verifying"
  /\ \/ Verify(d) /\ UNCHANGED stage
     \/ Undo(d) /\ stage' = Absent
  /\ UNCHANGED old

(* One source; an error is ignored.                                        *)
RemoveSource(d) ==
  /\ boot[d] = "removing" /\ UNCHANGED <<stage, root, history>>
  /\ \/ /\ plan[d] = {} /\ Go(d, "opening") /\ UNCHANGED <<old, plan>>
     \/ \E s \in plan[d] :
          /\ s = "departing" => "surviving" \notin plan[d]
          /\ s = "journals" => plan[d] = {"journals"}
          /\ plan' = [plan EXCEPT ![d] = @ \ {s}]
          /\ old' \in {old, [old EXCEPT ![s] = Absent]}
          /\ UNCHANGED boot

(* Db::open, with the migrations of the schema in one transaction, and the *)
(* other files a daemon makes in its root.                                 *)
Open(d) ==
  /\ boot[d] = "opening" /\ UNCHANGED <<old, stage>>
  /\ LET opened == [MadeIfAbsent(root) EXCEPT !.db = Opened(@), !.other = "ours"]
     IN IF Migrates(opened.db)
          THEN root' = opened /\ Proceed(d, "recovering")
          ELSE Refuse(d) /\ UNCHANGED root

Consolidate(d) ==
  \/ Stage(d) \/ CopyDatabase(d) \/ ContributeRows(d) \/ CopyTree(d) \/ ClearRoot(d)
  \/ Rename(d) \/ VerifyOrUndo(d) \/ RemoveSource(d) \/ Open(d)
---------------------------------------------------------------------------
(* Properties, for daemons that boot one after the other.                  *)

(* Every row and every journal that was there before the first start is in *)
(* its source or in the root, whenever a daemon dies: "sources are removed *)
(* only after the target is in place and readable".                        *)
RowsIn(db) == IF db = Absent THEN {} ELSE db.rows

NothingIsLost ==
  /\ \A s \in {"surviving", "departing"} :
       RowsIn(origin.old[s]) \subseteq RowsIn(old[s])
         \cup (IF root = Absent THEN {} ELSE RowsIn(root.db))
  /\ origin.old.journals \notin {Absent, {}} =>
       \/ old.journals = origin.old.journals
       \/ root # Absent /\ root.runs = origin.old.journals

(* "A target that can be observed half-populated is the failure this       *)
(* ordering removes": a root that had no database at first holds all of the *)
(* old rows and journals, or none of the rows.                             *)
OldRows == RowsIn(origin.old.surviving) \cup RowsIn(origin.old.departing)

TargetIsWhole ==
  (root # Absent /\ (origin.root = Absent \/ origin.root.db = Absent)
   /\ RowsIn(root.db) \cap OldRows # {})
    => /\ OldRows \subseteq RowsIn(root.db)
       /\ origin.old.journals # Absent => root.runs = origin.old.journals

(* What a crash leaves never keeps a machine from starting: a daemon       *)
(* refuses only what was irreconcilable before the first one started.      *)
Irreconcilable ==
  LET was == origin.root
      kept == IF was # Absent /\ was.db # Absent THEN was.db
              ELSE IF origin.old.surviving # Absent THEN origin.old.surviving
              ELSE origin.old.departing
  IN \/ kept # Absent /\ ~kept.good
     \/ was \notin {Absent, EmptyDirectory} /\ was.db = Absent
     \/ /\ origin.old.surviving # Absent /\ origin.old.departing # Absent
        /\ origin.old.surviving.rows \cap origin.old.departing.rows # {}

RefusalsHaveAReason == refused # {} => Irreconcilable
=============================================================================
