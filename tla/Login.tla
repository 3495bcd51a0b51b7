------------------------------- MODULE Login -------------------------------
(***************************************************************************)
(* `vadgr provider login`, against a daemon that signs in (AuthAttempts)   *)
(* and keeps credentials in files that only their owner may read           *)
(* (SecretFiles).  A login starts an attempt, waits for the browser, asks  *)
(* for the connection, and when that is refused asks its owner what next.  *)
(*                                                                         *)
(* The two are separate processes: a request the command line has given up *)
(* on may still be at work in the daemon, and either may end at any time.  *)
(***************************************************************************)
EXTENDS AuthAttempts, SecretFiles

CONSTANTS
  Found,        \* what the directory of the credentials may be before a boot
  Installed     \* the machines it may be on

ASSUME LoginAssumption == Found \subseteq Nodes /\ Installed \subseteq Machines

VARIABLES
  machine,      \* what the daemon runs on
  directory,    \* the directory of the credentials
  daemon,       \* "down", "up", or "refused" by its own credential store
  file,         \* the credential file of an attempt that was committed
  login,        \* a record per login
  request       \* its PUT in the daemon

machineVars == <<machine, directory, daemon, file>>
vars == <<authVars, machineVars, login, request>>
---------------------------------------------------------------------------
(* Where a login is, and what it tells its owner when it is over.          *)
Places == {"idle", "start", "browser", "put", "waiting", "refused", "replacing", "report", "over"}

Endings == {"nothing", "ready", "failed", "not saved", "timed out"}

Logins ==
  [at : Places, attempt : Attempts \cup {None}, mine : SUBSET Attempts,
   key : BOOLEAN, replaced : BOOLEAN, said : Endings]

NoLogin == [at |-> "idle", attempt |-> None, mine |-> {}, key |-> FALSE,
            replaced |-> FALSE, said |-> "nothing"]

TypeOK ==
  /\ AuthTypeOK
  /\ machine \in Machines /\ directory \in Nodes
  /\ daemon \in {"down", "up", "refused"}
  /\ file \in [Attempts -> Nodes]
  /\ login \in [Clients -> Logins]
  /\ request \in [Clients -> {"none", "queued", "working"}]

Init ==
  /\ AuthInit
  /\ machine \in Installed /\ directory \in Found
  /\ daemon = "down" /\ file = [a \in Attempts |-> Absent]
  /\ login = [u \in Clients |-> NoLogin] /\ request = [u \in Clients |-> "none"]

Ended(l, said) == [l EXCEPT !.at = "over", !.said = said, !.key = FALSE, !.replaced = FALSE]
Ends(u, said) == [login EXCEPT ![u] = Ended(@, said)]
Goes(u, place) == [login EXCEPT ![u].at = place]
GoesOn(u, place, key, replaced) ==
  [login EXCEPT ![u] = [@ EXCEPT !.at = place, !.key = key, !.replaced = replaced]]
---------------------------------------------------------------------------
(* The machine.                                                            *)

(* ProviderService::native: no store, no daemon.                           *)
Boot ==
  /\ daemon # "up"
  /\ directory' = Ensured(machine, directory)
  /\ daemon' = IF Accepts(machine, directory', "directory") THEN "up" ELSE "refused"
  /\ UNCHANGED <<authVars, machine, file, login, request>>

(* The owner, or a tool of theirs, puts another directory in its place     *)
(* while the daemon is down.                                               *)
Restore ==
  /\ daemon # "up" /\ directory' \in Found /\ daemon' = "down"
  /\ UNCHANGED <<authVars, machine, file, login, request>>

(* The daemon ends; its clients see their connections close.               *)
Stop ==
  /\ daemon = "up" /\ daemon' = "down" /\ AuthStop
  /\ request' = [u \in Clients |-> "none"]
  /\ login' = [u \in Clients |->
                 IF login[u].at = "waiting" THEN Ended(login[u], "failed") ELSE login[u]]
  /\ UNCHANGED <<machine, directory, file>>
---------------------------------------------------------------------------
(* connect, up to an authenticated attempt.                                *)

Run(u) ==
  /\ login[u].at = "idle"
  /\ \E replaced \in BOOLEAN : login' = GoesOn(u, "start", FALSE, replaced)
  /\ UNCHANGED <<authVars, machineVars, request>>

(* The attempt that was posted is this login's, or its answer did not come *)
(* in time and the attempt is nobody's.                                    *)
Posted(u, a, place) ==
  \/ login' = [login EXCEPT ![u] =
       [@ EXCEPT !.at = place, !.attempt = a, !.mine = login[u].mine \cup {a}]]
  \/ login' = Ends(u, "timed out")

SignInWithKey(u, a) ==
  /\ login[u].at = "start" /\ daemon = "up" /\ StartApiKey(a) /\ Posted(u, a, "put")
  /\ UNCHANGED <<machineVars, request>>

SignInWithBrowser(u, a) ==
  /\ login[u].at = "start" /\ ~login[u].key /\ daemon = "up"
  /\ StartOAuth(a) /\ Posted(u, a, "browser")
  /\ UNCHANGED <<machineVars, request>>

(* No terminal, no choice, no key, no daemon, or a refusal of the request. *)
GivesUp(u) ==
  /\ login[u].at = "start" /\ login' = Ends(u, "failed")
  /\ UNCHANGED <<authVars, machineVars, request>>

(* poll_oauth, every half a second.                                        *)
PollBrowser(u) ==
  LET a == login[u].attempt IN
  /\ login[u].at = "browser" /\ daemon = "up" /\ Poll(a)
  /\ login' = CASE attempt'[a].status = "authenticated" -> Goes(u, "put")
                [] attempt'[a].status = "pending"       -> login
                [] OTHER                                -> Ends(u, "failed")
  /\ UNCHANGED <<machineVars, request>>

(* Its own ten minutes are over, or the daemon is not there.               *)
PollEnds(u) ==
  /\ login[u].at = "browser" /\ (login[u].attempt \in late \/ daemon # "up")
  /\ login' = Ends(u, "failed")
  /\ UNCHANGED <<authVars, machineVars, request>>
---------------------------------------------------------------------------
(* connect, from there: PUT of the connection, as often as it takes.       *)

Put(u) ==
  /\ login[u].at = "put" /\ daemon = "up" /\ request[u] = "none"
  /\ request' = [request EXCEPT ![u] = "queued"] /\ login' = Goes(u, "waiting")
  /\ UNCHANGED <<authVars, machineVars>>

Unreachable(u) ==
  /\ login[u].at \in {"put", "report"} /\ daemon # "up" /\ login' = Ends(u, "failed")
  /\ UNCHANGED <<authVars, machineVars, request>>

\* Variant: a request that timed out is one that was refused.
TimesOutRefused(u) ==
  /\ login[u].at = "waiting" /\ login' = Goes(u, "refused")
  /\ UNCHANGED <<authVars, machineVars, request>>

(* Two minutes without an answer.  The daemon has not heard yet.           *)
TimesOut(u) ==
  /\ login[u].at = "waiting" /\ login' = Ends(u, "timed out")
  /\ UNCHANGED <<authVars, machineVars, request>>

(* What an answer means to the login, if it still waits for one.           *)
Answered(u, place) ==
  /\ request' = [request EXCEPT ![u] = "none"]
  /\ login' = IF login[u].at # "waiting" THEN login
              ELSE IF place = "over" THEN Ends(u, "failed") ELSE Goes(u, place)

(* The daemon takes the request: one whose attempt is gone or over fails.  *)
Take(u) ==
  LET a == login[u].attempt IN
  /\ request[u] = "queued" /\ BeginCommit(u, a)
  /\ IF commit'[u] = a
       THEN request' = [request EXCEPT ![u] = "working"] /\ login' = login
       ELSE Answered(u, "over")
  /\ UNCHANGED machineVars

(* The provider accepts it, the file is written and the row with it; then  *)
(* the row is read for the answer, which can fail.                         *)
Connect(u) ==
  LET a == commit[u]
      there == Ensured(machine, directory) IN
  /\ request[u] = "working" /\ Written(machine, there) # Absent /\ Commit(u)
  /\ directory' = there /\ file' = [file EXCEPT ![a] = Written(machine, there)]
  /\ \E place \in {"report", "over"} : Answered(u, place)
  /\ UNCHANGED <<machine, daemon>>

(* It is refused: by the provider, by the credential store, or because the *)
(* default model would be lost, which a replacement cannot lead to.        *)
Refuse(u) ==
  /\ request[u] = "working" /\ CommitFails(u)
  /\ \E place \in {"refused", "replacing", "over"} :
       /\ place = "replacing" => ~login[u].replaced
       /\ Answered(u, place)
  /\ UNCHANGED machineVars

(* The daemon sees that its client is gone, wherever the request is.       *)
Dropped(u) ==
  /\ request[u] # "none" /\ login[u].at # "waiting"
  /\ request' = [request EXCEPT ![u] = "none"]
  /\ IF commit[u] # None THEN CommitFails(u) ELSE UNCHANGED authVars
  /\ UNCHANGED <<machineVars, login>>

(* pick_replacement: there is a model to pick, or not.                     *)
Replace(u) ==
  /\ login[u].at = "replacing"
  /\ \/ login' = GoesOn(u, "put", login[u].key, TRUE)
     \/ login' = Ends(u, "failed")
  /\ UNCHANGED <<authVars, machineVars, request>>

(* recovery_action: the same attempt again, another one, or none.          *)
Recover(u) ==
  /\ login[u].at = "refused"
  /\ \/ login' = Goes(u, "put")
     \/ \E key \in BOOLEAN : login' = GoesOn(u, "start", key, FALSE)
     \/ \E said \in {"not saved", "failed"} : login' = Ends(u, said)
  /\ UNCHANGED <<authVars, machineVars, request>>

(* report_connection: it may have to ask for the rows.                     *)
Report(u) ==
  /\ login[u].at = "report" /\ \E said \in {"ready", "failed"} : login' = Ends(u, said)
  /\ UNCHANGED <<authVars, machineVars, request>>
---------------------------------------------------------------------------
(* What a login does by itself, its owner's answers included.              *)
Step(u) ==
  \/ GivesUp(u) \/ PollBrowser(u) \/ PollEnds(u) \/ Put(u) \/ Unreachable(u)
  \/ TimesOut(u) \/ Replace(u) \/ Recover(u) \/ Report(u)
  \/ \E a \in Attempts : SignInWithKey(u, a) \/ SignInWithBrowser(u, a)

Serve(u) == Take(u) \/ Connect(u) \/ Refuse(u) \/ Dropped(u)

Browse(k) ==
  \/ Exchanged(k) \/ Abandon(k)
  \/ \E a \in Attempts : Callback(k, a) \/ Cancel(k, a)

Ages(a) == Lapse(a) \/ Timer(a)

Next ==
  \/ \E u \in Clients : Run(u) \/ Step(u) \/ Serve(u)
  \/ Boot \/ Restore \/ Stop
  \/ /\ daemon = "up"
     /\ Listen \/ \E k \in Callbacks : Browse(k)
     /\ UNCHANGED <<machineVars, login, request>>
  \/ \E a \in Attempts : Ages(a) /\ UNCHANGED <<machineVars, login, request>>

Spec == Init /\ [][Next]_vars

(* A login goes on as its owner answers it; time passes and timers fire.   *)
(* Nothing is asked of the browser, of the daemon or of the provider.      *)
FairSpec ==
  /\ Spec
  /\ \A u \in Clients : WF_vars(Step(u))
  /\ \A a \in Attempts :
       /\ WF_vars(Lapse(a) /\ UNCHANGED <<machineVars, login, request>>)
       /\ WF_vars(Timer(a) /\ UNCHANGED <<machineVars, login, request>>)
---------------------------------------------------------------------------
(* Properties.                                                             *)

(* A login that says it is ready has connected what it signed in with; one *)
(* that says nothing was saved has saved nothing, nor will a request it    *)
(* left behind; and however often it tried, it connects once.              *)
LoginsTellTheTruth ==
  \A u \in Clients :
    /\ login[u].said = "ready" => login[u].attempt \in connected
    /\ login[u].said = "not saved" => login[u].mine \cap connected = {}
    /\ Cardinality(login[u].mine \cap connected) <= 1

(* However often its owner retries, a login leaves each of its attempts:   *)
(* the browser's and the provider's silence end, and so does a retry.      *)
LoginsMoveOn ==
  \A u \in Clients, a \in Attempts :
    login[u].attempt = a ~> (login[u].at = "over" \/ login[u].attempt # a)

(* Nobody reads a saved credential whom its owner does not expect to.      *)
FilesArePrivate ==
  \A a \in connected : Readers(machine, file[a]) \subseteq Trusted(machine)

(* A store that was left alone accepts what it made itself: the daemon     *)
(* starts, and what a login wants to save can be saved.                    *)
OwnNodesAreAccepted ==
  directory = Made(machine, "directory", FALSE) =>
    daemon # "refused" /\ Written(machine, directory) # Absent
=============================================================================
