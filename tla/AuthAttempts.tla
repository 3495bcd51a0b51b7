---------------------------- MODULE AuthAttempts ----------------------------
(***************************************************************************)
(* Signing in to a provider, as the daemon sees it.  An attempt is started *)
(* with an API key, or by sending a browser away whose callback brings a   *)
(* code that is exchanged for tokens; it is polled, expires after ten      *)
(* minutes, and is committed once it is authenticated.  Attempts are in    *)
(* memory only.  Module Login composes these steps with those of the       *)
(* command line and of the machine.                                        *)
(*                                                                         *)
(* The map of the attempts has a lock, which is let go while the provider  *)
(* is asked: a callback and a commit are two steps with anything between.  *)
(* All attempts here are one provider's, so commits have its lock between  *)
(* them.                                                                   *)
(***************************************************************************)
EXTENDS Integers, FiniteSets

CONSTANTS
  Attempts,     \* ids; each is used once
  Callbacks,    \* requests the browser makes
  Clients,      \* who asks for commits, one at a time
  None

ASSUME AuthAssumption == None \notin Attempts

VARIABLES
  port,         \* oauth_callback_port: the listener is bound
  used,         \* ids that were given out
  attempt,      \* the map; a record per attempt, Gone for none
  late,         \* attempts whose expires_at is past
  timer,        \* attempts whose expiry task has not fired
  callback,     \* the attempt a callback exchanges the code of
  commit,       \* the attempt a commit has copied
  exchanged,    \* history: codes sent to the provider for an attempt
  connected     \* history: attempts that became the connection

authVars == <<port, used, attempt, late, timer, callback, commit, exchanged, connected>>
---------------------------------------------------------------------------
Statuses == {"gone", "pending", "authenticated", "failed", "cancelled"}

Records == [status : Statuses, state : BOOLEAN, busy : BOOLEAN, credential : BOOLEAN]

Gone == [status |-> "gone", state |-> FALSE, busy |-> FALSE, credential |-> FALSE]

AuthTypeOK ==
  /\ port \in BOOLEAN
  /\ attempt \in [Attempts -> Records]
  /\ used \subseteq Attempts /\ late \subseteq Attempts /\ timer \subseteq Attempts
  /\ callback \in [Callbacks -> Attempts \cup {None}]
  /\ commit \in [Clients -> Attempts \cup {None}]
  /\ exchanged \in [Attempts -> Nat]
  /\ connected \subseteq Attempts

AuthInit ==
  /\ port = FALSE /\ used = {} /\ late = {} /\ timer = {} /\ connected = {}
  /\ attempt = [a \in Attempts |-> Gone]
  /\ callback = [k \in Callbacks |-> None] /\ commit = [u \in Clients |-> None]
  /\ exchanged = [a \in Attempts |-> 0]

Over(s) == s \in {"failed", "cancelled"}

\* Variant: what is authenticated does not expire.
ExpiredPending(a) ==
  IF a \in late /\ attempt[a].status = "pending"
    THEN [attempt[a] EXCEPT !.status = "failed", !.state = FALSE, !.credential = FALSE]
    ELSE attempt[a]

(* What attempt a is once it was looked at: expire_attempt.                *)
Expired(a) ==
  IF a \in late /\ attempt[a].status \in {"pending", "authenticated"}
    THEN [attempt[a] EXCEPT !.status = "failed", !.state = FALSE, !.credential = FALSE]
    ELSE attempt[a]
---------------------------------------------------------------------------
(* The listener of the callbacks is bound, or lost and tried again every   *)
(* second, on whichever of its two ports is free.                          *)
Listen ==
  /\ port' = ~port
  /\ UNCHANGED <<used, attempt, late, timer, callback, commit, exchanged, connected>>

Given(a, record) ==
  /\ a \notin used /\ used' = used \cup {a}
  /\ attempt' = [attempt EXCEPT ![a] = record]

ByKey     == [Gone EXCEPT !.status = "authenticated", !.credential = TRUE]
ByBrowser == [Gone EXCEPT !.status = "pending", !.state = TRUE]

\* Variant: no expiry task.
StartApiKeyUntimed(a) ==
  /\ Given(a, ByKey)
  /\ UNCHANGED <<port, late, timer, callback, commit, exchanged, connected>>

(* start_api_key: authenticated as it is.                                  *)
StartApiKey(a) ==
  /\ Given(a, ByKey) /\ timer' = timer \cup {a}
  /\ UNCHANGED <<port, late, callback, commit, exchanged, connected>>

(* start_oauth: the browser is told where the listener is, if it is.       *)
StartOAuth(a) ==
  /\ port /\ Given(a, ByBrowser) /\ timer' = timer \cup {a}
  /\ UNCHANGED <<port, late, callback, commit, exchanged, connected>>

(* Ten minutes pass, for an attempt that somebody would notice.            *)
Lapse(a) ==
  /\ attempt[a] # Gone /\ a \notin late /\ late' = late \cup {a}
  /\ UNCHANGED <<port, used, attempt, timer, callback, commit, exchanged, connected>>

(* schedule_attempt_expiry wakes up.  Simplification: one clock.  The code *)
(* sleeps on the monotonic one, once, and then compares the time of day: a *)
(* time of day that was set back meanwhile lets the attempt be, until      *)
(* somebody asks for it.                                                   *)
Timer(a) ==
  /\ a \in timer \cap late /\ timer' = timer \ {a}
  /\ attempt' = [attempt EXCEPT ![a] = Expired(a)]
  /\ UNCHANGED <<port, used, late, callback, commit, exchanged, connected>>

(* GET of the attempt; one that is not there stays so.                     *)
Poll(a) ==
  /\ attempt' = [attempt EXCEPT ![a] = Expired(a)]
  /\ UNCHANGED <<port, used, late, timer, callback, commit, exchanged, connected>>
---------------------------------------------------------------------------
(* complete_oauth_callback.  It finds its attempt by the state it carries. *)

\* Variant: that the code is being exchanged already is not looked at.
CallbackAgain(k, a) ==
  /\ callback[k] = None /\ attempt[a].state
  /\ LET now == Expired(a) IN
     IF now.status # "pending"
       THEN /\ attempt' = [attempt EXCEPT ![a] = now]
            /\ UNCHANGED <<callback, exchanged>>
       ELSE /\ attempt' = [attempt EXCEPT ![a] = [now EXCEPT !.busy = TRUE]]
            /\ callback' = [callback EXCEPT ![k] = a]
            /\ exchanged' = [exchanged EXCEPT ![a] = @ + 1]
  /\ UNCHANGED <<port, used, late, timer, commit, connected>>

(* With a code: the attempt is taken, and the provider asked.              *)
Callback(k, a) ==
  /\ callback[k] = None /\ attempt[a].state
  /\ LET now == Expired(a) IN
     IF now.status # "pending" \/ now.busy
       THEN /\ attempt' = [attempt EXCEPT ![a] = now]
            /\ UNCHANGED <<callback, exchanged>>
       ELSE /\ attempt' = [attempt EXCEPT ![a] = [now EXCEPT !.busy = TRUE]]
            /\ callback' = [callback EXCEPT ![k] = a]
            /\ exchanged' = [exchanged EXCEPT ![a] = @ + 1]
  /\ UNCHANGED <<port, used, late, timer, commit, connected>>

(* With an error, or without a code.                                       *)
Cancel(k, a) ==
  /\ callback[k] = None /\ attempt[a].state
  /\ LET now == Expired(a) IN
     attempt' = [attempt EXCEPT ![a] =
       IF now.status # "pending" \/ now.busy THEN now
       ELSE [now EXCEPT !.status = "cancelled", !.state = FALSE]]
  /\ UNCHANGED <<port, used, late, timer, callback, commit, exchanged, connected>>

\* Variant: the answer is taken whatever became of the attempt meanwhile.
ExchangedAnyway(k) ==
  /\ callback[k] # None /\ callback' = [callback EXCEPT ![k] = None]
  /\ \E ok \in BOOLEAN :
       attempt' = [attempt EXCEPT ![callback[k]] =
         [@ EXCEPT !.busy = FALSE, !.state = FALSE, !.credential = ok,
                   !.status = IF ok THEN "authenticated" ELSE "failed"]]
  /\ UNCHANGED <<port, used, late, timer, commit, exchanged, connected>>

(* The provider answers: with tokens of an account, or not.  An attempt    *)
(* that ended meanwhile stays as it is.                                    *)
Exchanged(k) ==
  /\ callback[k] # None /\ callback' = [callback EXCEPT ![k] = None]
  /\ \E ok \in BOOLEAN :
       attempt' = [attempt EXCEPT ![callback[k]] =
         IF @.status # "pending" THEN [@ EXCEPT !.busy = FALSE, !.state = FALSE]
         ELSE [@ EXCEPT !.busy = FALSE, !.state = FALSE, !.credential = ok,
                        !.status = IF ok THEN "authenticated" ELSE "failed"]]
  /\ UNCHANGED <<port, used, late, timer, commit, exchanged, connected>>

(* The browser goes away and its request with it: the attempt stays taken. *)
Abandon(k) ==
  /\ callback[k] # None /\ callback' = [callback EXCEPT ![k] = None]
  /\ UNCHANGED <<port, used, attempt, late, timer, commit, exchanged, connected>>
---------------------------------------------------------------------------
(* commit_attempt, from the provider's lock to its release.  The order of  *)
(* what it does between the two steps here is module Providers'.           *)

Locked == \E u \in Clients : commit[u] # None

Ready(a) == Expired(a).status = "authenticated"

BeginCommit(u, a) ==
  /\ ~Locked /\ attempt' = [attempt EXCEPT ![a] = Expired(a)]
  /\ commit' = IF Ready(a) THEN [commit EXCEPT ![u] = a] ELSE commit
  /\ UNCHANGED <<port, used, late, timer, callback, exchanged, connected>>

(* The row is written, and the attempt forgotten.                          *)
Commit(u) ==
  /\ commit[u] # None /\ commit' = [commit EXCEPT ![u] = None]
  /\ connected' = connected \cup {commit[u]}
  /\ attempt' = [attempt EXCEPT ![commit[u]] = Gone]
  /\ UNCHANGED <<port, used, late, timer, callback, exchanged>>

(* It fails, or is dropped with its client's connection: the attempt can   *)
(* be committed again.                                                     *)
CommitFails(u) ==
  /\ commit[u] # None /\ commit' = [commit EXCEPT ![u] = None]
  /\ UNCHANGED <<port, used, attempt, late, timer, callback, exchanged, connected>>

(* The daemon ends, and what it had in memory with it.                     *)
AuthStop ==
  /\ port' = FALSE /\ timer' = {}
  /\ attempt' = [a \in Attempts |-> Gone]
  /\ callback' = [k \in Callbacks |-> None] /\ commit' = [u \in Clients |-> None]
  /\ UNCHANGED <<used, late, exchanged, connected>>
---------------------------------------------------------------------------
(* Properties.                                                             *)

(* However often a browser sends its callback, one code is sent on: an     *)
(* attempt is single use, as its code is.                                  *)
AttemptsRunOnce == \A a \in Attempts : exchanged[a] <= 1

(* What the poll has told the owner is over is never authenticated after   *)
(* all by an answer that comes late.                                       *)
OverIsOver ==
  [][\A a \in Attempts : Over(attempt[a].status) => Over(attempt'[a].status) \/ attempt'[a] = Gone]_authVars

(* A secret is not kept beyond its ten minutes: whatever an attempt holds, *)
(* the verifier or a credential, is dropped in the end.                    *)
SecretsAreDropped ==
  \A a \in Attempts :
    (attempt[a].state \/ attempt[a].credential) ~> ~(attempt[a].state \/ attempt[a].credential)
=============================================================================
