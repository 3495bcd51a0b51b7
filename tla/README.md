# TLA+ models of the vadgr daemon

The daemon drives model-controlled runs on one machine: an HTTP and WebSocket
API, a supervisor that owns the runs, an agent loop with a tool host, an
append-only journal per run, streams that phones and the command line watch,
pairing of phones, a peer-to-peer transport with its own admission, and
connections to model providers.  Around it are a command line that starts, stops
and updates it, a migration of what earlier releases left, and a private payload
for computer use.  The modules here model the parts whose correctness depends on
the order in which things happen; TLC checks them on small instances, and TLAPS
proves the most important of their properties for every value of the constants.

Paths below are relative to `src/` of the repository's Rust crate (so
`engine/loop.rs` is `src/src/engine/loop.rs` in `PROJECT.json`).

## Inventory

| part | state | operations | interacts with |
|---|---|---|---|
| run supervisor (`engine/supervisor.rs`, `db/runs.rs`) | status column of a run's row (durable), map of active runs with a token and a generation each | `create`, `resume`, `cancel`, `recover_on_boot`, `drive`, `fail`, `remove_if_current` | calls the engine; writes rows; broadcasts to the run's stream |
| human gate (`engine/control/`, `engine/channel.rs`) | the `await_user` record, the row `awaiting_approval` | `park` | journal first, then the row; ends only by a cancel |
| agent loop (`engine/loop.rs`, `engine/mod.rs`) | messages, count of successful calls, tokens used, iteration | `execute`, `run_loop` | journal before and after every call, tool host, gate, model client |
| journal (`engine/journal.rs`) | lines of a file, next sequence number, writer thread | `open`, `append_*`, `read_recovery` | its writer is an actor that acknowledges synced records |
| tool host (`engine/mcp/`) | connected servers and their tools | `connect`, `dispatch`, `close` | child processes, no timeouts |
| run streams (`ws/manager.rs`, `ws/run_ws.rs`) | per run: replay buffer and broadcast channel; per device: a revocation channel | `connect`, `broadcast`, `watch_device`, `disconnect_device`, `pump` | supervisor and loop broadcast; device routes revoke |
| follower (`cli/stream.rs`) | one socket | `follow` | the raw stream |
| pairing (`auth/pairing.rs`, `routes/auth.rs`, `db/devices.rs`, `routes/devices.rs`) | the slot of the one code that is out, the number of its window, device rows, identities bound to them | `mint`, `claim`, `settled`, `bind_peer`, `adopt_peer`, `delete` | iroh's gate 1, the reaper, streams |
| gate and tokens (`auth/gate.rs`, `auth/tokens.rs`) | none: a function of one request | the three classes of paths, device tokens | every route; what a transport says of a peer |
| iroh admission (`transport/iroh.rs`) | ledger of unbound connections, count of bound ones | accept, admit, serve, watch, reap, lifetimes | pairing windows, device rows, revocations |
| other transports (`transport/`) | listening sockets, addresses | what each answers about a peer | gate |
| provider connections (`engine/provider/service.rs`, `credentials.rs`, `oauth.rs`, `db/providers.rs`) | sign-in attempts (memory), connection rows, catalogs, the default, secret files, a lock per provider | `start_*`, `complete_oauth_callback`, `commit_attempt`, `refresh_oauth_credential`, `set_default`, `disconnect`, `sweep` | the model clients, `vadgr provider login` |
| model clients (`engine/provider/openai.rs`, `gemini.rs`, `anthropic.rs`, `factory.rs`) | what was tried for a turn | `complete`, `convert_messages`, `decode`, `classify_error`, retries | the loop's history, the credential |
| migration (`migrate.rs`, `db/migrations.rs`) | two old databases, old journals, a staging directory, the root | `consolidate` | the first thing a daemon does |
| command line: the service (`cli/commands/service.rs`) | pid file, port file | `start`, `stop`, `restart`, `status`, `update` | spawns and kills daemons |
| command line: signing in (`cli/commands/provider.rs`, `cli/client.rs`) | one login | `login` with its menu | the daemon's attempts and commits |
| computer-use payload (`cua_payload.rs`, `computer_use_setup.rs`, `routes/settings.rs`) | directories under the state root, a manifest, two binaries, a switch and its cached answer | assemble, place, verify, install, roll back; GET and PUT of the switch | `update`; the tool host opens it at boot |

What is hard about them, and what makes them correct:

* **Supervisor.**  Handlers, drivers, crashes and the boot scan interleave, and
  the status column is written by all of them, conditionally and
  unconditionally.  Right means: every live row has a task that answers for it;
  a run has one driver, and a cancel reaches it; the first verdict stays; the
  map of active runs names only live drivers.
* **Loop and journal.**  The process can die, or a write be cut short, between
  any two bytes; the run is taken up again from whatever the file holds.  Right
  means: a tool acts only after its call is on record; numbers name one call
  over all sessions; recovery finds exactly what the records say; spending is
  counted once; a session ends, and a cancel ends it.
* **Streams.**  Clients connect while frames are broadcast, fall behind,
  reconnect, and lose their device row.  Right means: the replay and the live
  frames join without loss or repetition; followers hear the end; a revoked
  device's sockets close.
* **Pairing.**  A mint takes its number, writes the slot and wakes the watchers
  under three locks; a claim redeems, writes a row and binds an identity in
  three more; the deadline is read before the slot is locked.  Right means: a
  code buys one device, an identity belongs to one device, every device was let
  in by somebody inside, and whoever waits for the end of a window is woken.
* **Admission.**  Caps are checked in one critical section and used in another;
  revocations, the reaper, lifetimes and hang-ups race for the end of a
  connection.  Right means: a place is given back once; a claim survives the end
  of its own window; a revoked phone's connection hears of it; nobody stays on a
  window that is over.
* **Providers.**  Files and rows cannot be written in one step, the network is
  asked between them, and the process or the machine can stop anywhere.  Right
  means: a row names a credential that is there, nothing is left behind, the default can be used.
* **Signing in.**  The daemon and the command line are two processes; a request
  the one has given up on may still be at work in the other; a browser repeats
  its callback; ten minutes pass.  Right means: what the owner is told is true, a
  code is sent once, what is over stays over, a secret is dropped, the login ends.
* **Secret files.**  What protects a file, and what a system reports of a file
  the store has just made, differ by platform.
* **Start-up and migration.**  Processes are named by files, and pids are reused;
  the copies, the rename and the removals of the old state can be cut short.
* **Model clients.**  Three services, three forms of a conversation, opposite
  meanings of one status code, streams that break off, a token that is renewed
  in the middle.
* **Computer use.**  An update replaces directories, a manifest and two binaries
  one after the other, under a daemon that looked them up when it started.

Every hazard is listed in `PROJECT.json` with its line and the properties that
watch it.

## Modules

| module | what it is |
|---|---|
| `RunSupervisor` | rows, drivers, handlers, boot scan |
| `Journal` | the file, its writer and its recovery, as operators |
| `RunLoop` | one run over its sessions: loop, writer, tool server, crashes; uses `Journal` |
| `CallLog` | the abstract promise of the journal, implemented by `RunLoop` |
| `RunStream` | one run's channel, its sockets, revocation |
| `Gate` | who may ask for what: stamps, what transports answer, the gates |
| `Pairing` | the slot, handlers that mint and claim, device rows and identities; uses `Gate` |
| `PairingCode` | the abstract promise of a code, implemented by `Pairing` |
| `IrohAdmission` | accept loop, connection tasks, ledger, reaper, revocation |
| `Providers` | rows, catalogs, default and files of the provider connections |
| `AuthAttempts` | sign-in attempts in the daemon: callbacks, timers, commits |
| `SecretFiles` | what protects a credential file on each platform, as operators |
| `Login` | `vadgr provider login` composed with `AuthAttempts` and `SecretFiles` |
| `Consolidation` | what a daemon does with old state before it serves |
| `Service` | `start`, `stop`, `restart`, `status` composed with `Consolidation` |
| `ModelWire` | conversations, answers and refusals in the words of each service, as operators |
| `ModelTurns` | a session's turns with a model: requests, retries, renewals; uses `ModelWire` |
| `ComputerUse` | updates, binaries, payload, the daemon's runtime and the switch |
| `MC*` | instances, symmetry and views for TLC |
| `RunSupervisorProofs`, `RunLoopProofs`, `RunStreamProofs`, `PairingProofs`, `IrohAdmissionProofs`, `ProvidersProofs`, `LoginProofs`, `MachineProofs` | theorems |

Definitions marked `\* Variant:` are not part of a specification.  Each is a
plausible mistake in the definition it stands before; substituting one for the
other makes TLC find the property that is paired with it in `PROJECT.json`
violated, so each property is known to be able to fail.

Everywhere, a step is what one task does between two points at which another can
run: an `await`, a lock that is taken or let go, a system call where the process
may die.  Variables marked "history" are read by properties and by no guard that
stands for code.

### RunSupervisor

State: `row` is the status column; `ask` says whether the journal holds an open
`await_user` record; `active` is the map; `pc`, `run`, `launch`, `token` and
`outcome` are the driver tasks, one per generation; `handler` and `target` the
HTTP handlers; `frames` what the stream has carried since boot; `phase` and
`scan` the process and its boot scan.  `accepted`, `dropped` and `unsettled` are
history, the last the runs whose row or whose scan a failing SQLite has cost.

`Create`, `ResumeCheck`/`ResumeWrite`, `CancelRow`/`CancelToken` and `Register`
split the handlers where the code awaits or takes the map's lock; `Prepare`,
`ExecuteFails`, `EnterLoop`, ... `Settle`, `Announce`, `Leave` are the body of
`drive`, with the loop reduced to the places where it looks at the token;
`RecoverRow` is one round of `recover_on_boot`.  `FinishIfActive` is the only
conditional write of the status.

`StorageFails` says whether SQLite may fail.  The code goes on without the write in
four places: a question whose row cannot be parked becomes an error of its call
(`ParkFails`), `drive` drops the error of settling the row (`SettleFails`), and the
boot scan gives up when it cannot list the rows (`BootUnread`) and passes over a row
it cannot fail (in `RecoverRow`).

Simplifications: a call of SQLite that fails has written nothing, so a handler
that fails on its first one changes nothing and is left out, and a row that has
just been written can be read; `read_recovery` fails or succeeds freely; the events
of one moment are one frame.  `MayDisconnect` says whether a
client may drop its request half way, which drops the handler's future.

### Journal and RunLoop

A file is its complete lines and what follows the last newline; a record is its
phase, number and tool.  `Interrupted` is every outcome of a write that is cut
short: nothing, some bytes, the record without its newline, all of it.
`Continued` is what appending to an unfinished line makes of a record.  `Pass`
is the loop of `read_recovery_sync`, a recursive function over the records;
`RecoveryIsRight` says what it ought to find, of the records themselves.

`RunLoop` has the loop (`Turn`, `Complete`, `Open`, `Dispatch`, `Answer`,
`Close`, `Ask`, `Park`, ...), the writer (`Write`, `WriteFails`), the tool
server (`Connect`, `Answer`), the owner's `Cancel`, and `Crash`, `Begin` and
`Refuse` between sessions.  The loop hands over a record (`pending`) and goes on
only when it is acknowledged.  The model is free to give any stop reason and any
calls.  Simplifications: one session at a time (whether that holds is
`RunSupervisor`'s subject); messages are reduced to what recovery tells the
model; a tool acts once, between its dispatch and its answer.

`CallLog` is what a reader of the journal relies on: calls come on record, act
at most once and only while on record, and the record of a call that acted is
never lost.  `RunLoop!CallsActOnRecord` maps `recorded` to the `in_flight`
records that can be read from the file, and `acts` to what acted.

### RunStream

A frame is its place in the run's stream and a kind.  `buffer` holds the places
that were buffered, `next[s]` is the position of a socket's broadcast receiver,
`got[s]` what its client was sent.  A socket's task goes through `Admit` (the
row is checked), `Connect` (buffer and receiver under one lock), `Watch` (the
revocation channel, another lock), `Replay`, and then the `select!`: `Take` and
`Send`, `Lag`, `CloseRevoked`, `Leave`.  `Send` is a step of its own because
nothing else is looked at while a client is slow.  `DeleteRow` and `Disconnect`
are the two steps of the device route.  `Restart` empties everything but the
rows.  `Kinds`, `Quiet` and `Terminal` are constants: which kinds a phone is not
told of, and which end a follower's watch.

### Gate, Pairing and PairingCode

`Gate` is a function of a request: its stamp (which transport it came over, which
identity that transport proved, whether the tailnet knows the address), its path's
class and its token.  `Pairing` asks it at every entry.

A code is known by the number of the window it opened.  `BeginMint`, `WriteSlot`
and `Announce` are `POST /api/auth/pair` under its three locks; `Present`, one of
the verdicts of `redeem_locked` (`Accept`, `AnswerExpired`, `WrongGuess`,
`AnswerInvalid`), `CreateRow`, `BindPeer`, `Settle` and `Announce` are a claim;
`ClaimFails` is either `?` between the redemption and `settled`.  `Present` reads
the clock before the slot is locked, so `late` may be stale by the verdict.
`Authenticate` and `Adopt` are a device that gives itself an identity; `DeleteRow`
takes a device and its identities.  `sponsor`, `price`, `sold`, `minted`,
`guesses` and `owing` are history.

`PairingCode` is what a code promises: unborn, live, used or dead; one live at a
time; at most `MaxFailures` wrong guesses.  `Pairing!CodesAreOneTime` maps the life
of a code from the slot and from what was redeemed.

### IrohAdmission

A connection's task goes `Accept` (what `is_bound` answered), `Admit` (bound, by
the window, by adoption, or refused; caps are checked here), `ServeBound` or
`ServeUnbound` (counted, on the ledger), `WatchDevice`, and one of four ends:
`HearRevocation`, `HangUp`, the reaper's `Reap`, `Lifetime`; `Finish` gives the
place back.  A claim on a connection is `Redeem`, `CreateRow`, `BindPeer` or
`BindFails`, `Settle`.  The reaper is `Arm`, `WakeByNews` or `WakeByDeadline`,
`ReadLive`, `Reap`.  `raced` remembers who was admitted while another was between
its admission and its place.  Of `Pairing` the module keeps the window that is open, the
ends of windows and the rows: what the transport sees of it.  Other handlers'
claims are `EndElsewhere`.

### Providers

An operation (`commit`, `catalog`, `default`, `disconnect`, `refresh`) is a record
per task: where it is, its provider, account, models, and the reference it writes
(`new`) and replaces (`old`).  A file is staged, published (linked), durable (its
directory synced), or gone; rows change in the transactions `Commit`,
`ReplaceCatalog`, `SetDefault`, `ReplaceReference`, `DeleteConnection`.  Any answer
may be a refusal (`Refused`), any write may fail (`WriteFails`, `CommitFails`,
`ReplaceFails`, `RemoveFails`), and so may the delete that follows it (`Discards`);
`Crash` is the end of the process, `PowerLoss` the end of the machine, which keeps
the names of files that are durable and of the published ones any part; `Boot` is
the sweep.  The constant `Unix` is FALSE on Windows, where `SyncDirectory` does
nothing: a name can go with the power there (`lost`), and `RowsHaveSecrets` says so.

### AuthAttempts, SecretFiles and Login

`AuthAttempts` is the map of the attempts: started by key or by browser, expired
lazily by whoever looks (`Expired`) and by a timer, taken by a callback whose
exchange runs without the map's lock (`Callback`, then `Exchanged`, or `Abandon`
when the browser hangs up), and committed in two steps (`BeginCommit` copies the
attempt, `Commit` writes it).  `Listen` is the listener of the callbacks, which
may be lost and bound again.

`SecretFiles` has what `create_secret_*` makes on Linux, macOS and Windows (owner,
permission bits, access list, what a parent hands down), and what
`reject_access_acl`, the owner check and `validate_aces` then ask of it.

`Login` adds the two processes.  A login goes `SignInWithKey` or
`SignInWithBrowser`, `PollBrowser`, `Put`, and ends in what it says: `ready`,
`failed`, `not saved`, `timed out`.  After a refusal its owner chooses to retry,
to replace the credential or to leave.  A PUT the command line has given up on
(`TimesOut`) stays in `request` and may still be served (`Take`, `Connect`).
`Boot`, `Stop` and `Restore` are the daemon and the hand that restores a directory
of credentials.

### Consolidation and Service

`Consolidation` is one daemon's pass over the old databases, the old journals, the
staging directory and the root: `Look` (the plan, and the refusals), `Stage`,
`CopyDatabase`, `ContributeRows`, `CopyTree`, `ClearRoot`, `Rename`, `Verify` or
`Undo`, `RemoveSource`, `Open`.  A database is its rows and whether this release
can serve it, which is its schema and the reading of its rows in one.  The daemon
may die between any two of these, and the next takes the machine as it is; a loss
of power is another matter (see below).

`Service` has the command lines.  `start` is `CheckPid`, `Choose` (the first free
port, and the spawn), `WritePid`, `WritePort`, `Watch`; `stop` is
`ReadActivePort`, `Kill` and `RemoveFiles`; `Status` clears a stale pid file;
`Interrupt` is a command line stopped between any two steps.  Daemons bind their
port when they serve (`Serve`) and may die; a stranger may take a port or the pid
of a daemon that is gone.

### ModelWire and ModelTurns

`ModelWire` is the three clients as operators: `convert_messages` of each service,
`decode` of a body or of a stream of events, `classify_error`, and the pictures
that are replaced before a request.  Texts and pictures are alike; ids, names and
signatures are kept, because the services refuse a conversation in which they do
not match.  `ModelTurns` has the turns: `Complete` sends a request, the service
answers as it likes (`OpenAIAnswers`, `ChatGptAnswers` with events that may break
off, `AnthropicAnswers`, `GeminiAnswers`, `NoAnswer`), `Declined` retries or ends,
`RenewSignIn` refreshes the token once or says why not, `Look` asks for the catalog after
a model was unknown; `ClientFails` is a row or a secret that cannot be read before
anybody is asked.  `Opening` tells a session what its predecessor did: the last calls
with their results, pictures included (one of more than 2000 characters is a text by
then), and that it was interrupted.  `said` is what was said and told, kept as the record does; the property
reads the request back in the service's own words and compares.

### ComputerUse

`Pull` brings the next release; an update is `Fetch`, `PlacePython`,
`VerifyPython`, `MakeEnvironment`, `PlaceEnvironment`, `WriteBootstrap`, the
manifest, `InstallBinaries` in three moves; `BreakOff` ends it before any of them;
`Restore` is the owner's hand on the previous binary.  `StartDaemon` looks the
payload up (`Opens`) and keeps what it found.

`Opens` is `below_install_root`: the manifest has the release's pins, the
environment's interpreter and `bootstrap.py` are files.  Python is not looked for; on
Unix (`Unix`) the interpreter is a link into `python/` and following it does that, on
Windows it is a file of its own.  The run is of Windows, which also removes the
manifest before it renames the new one into place; the theorem is of both.
`PayloadsFollowBinaries` says that what opens is whole and made for the release's
pins, and that the installed release opens it, and it has three exceptions, kept in
the history `broken`: `"binary"`, an update broke off after its first change to the
payload (one that found its payload there and broke off later has changed nothing,
and is no exception) or the owner put a binary back, so that the installed release
may find none; `"payload"`, the payload was left in pieces and its old manifest with it,
which a release that has gone back to those pins takes for its own; `"daemon"`, a
directory went missing under a daemon that had found it, or, on Windows, that found it in
pieces.  Releases with equal pins share a payload whatever their `bootstrap.py`: the
property asks for a whole one of either.

A PUT of the switch is `Put`, `SetEnabled` and `ReadBack` on a thread of the blocking
pool, and `Keep` in the handler; the first two can fail (`WriteFails`, `ReadFails`).
`GiveUp` drops the handler, and a write that is still to come is then made at any
later time, after a later request was answered too.  `apart` records the
three ways in which the file and the cached answer then differ, and `SettingIsTold`
says that there is no other, and that they end with the next answer that nothing
has overtaken.

## What is checked

| run | question | instance |
|---|---|---|
| `SupervisorConcurrent` | is a live row ever orphaned for another reason than the three known ones; does the map ever name a dead task? | 1 run, 3 drivers, 2 handlers, 1 crash, dropped requests, a failing SQLite |
| `SupervisorSequential` | one owner per run, reachable by a cancel; verdicts that stay; accepted runs start, cancelled drivers stop; what follows `run_completed` | 2 runs, 2 drivers, 1 handler, 1 crash, a failing SQLite, fairness |
| `LoopSessions` | what acted is on record, numbers are unique, recovery is right, spending is counted, sessions end, `CallLog` is implemented | 3 sessions of one turn and one call, `RECENT_RESULTS` 1, fairness |
| `StreamWatchers` | what clients get; do revoked sockets close, do followers hear the end? | 3 frames, buffer 2, channel 1, a phone's socket and a follower, fairness |
| `PairingCodes` | does a code buy one device, an identity belong to one, every device descend from the owner; is every end announced; `PairingCode` is implemented | 2 handlers, 2 codes, 2 wrong guesses, 2 devices, 2 identities |
| `IrohAdmission` | are places given back once; does a claim survive its own end; do revoked connections hear; do the caps hold? | 2 connections of a phone, caps of 1, 2 windows |
| `ProviderCrashes` | do rows, files and the default stay together through failures and crashes? | Unix; 2 operations, 2 providers, 2 models, 2 accounts, 3 references |
| `SignIns` | is what a login says true, does it end, is a code sent once, is a secret dropped, who can read the file? | 1 login, 2 attempts, 2 callbacks, 3 machines, 3 directories, fairness |
| `ServiceStarts` | is a daemon found by its files, is history kept, does the machine start again? | 2 daemons, 1 command line, 2 ports, 7 machines |
| `ModelTurns` | does the service hear the conversation that was, is a request repeated only with a reason, is the owner told why it ended? | 4 ways in, up to 3 requests, 8 answers, 8 refusals, 4 pasts |
| `ComputerUse` | has the installed release its payload, is there a binary to go back to, is the switch told as it is? | Windows; 4 releases, the last with the pins of the first, 2 requests, before the first update |
| `JournalGlued` (a violation) | the first record after a line cut short continues that line, and the file can never be read again, though `README.md` says that a killed machine resumes | 2 sessions |

Why the bounds are enough: two handlers and three drivers give every race the
supervisor's comments mention (a late driver, its successor, and a resume that
races either), with a crash before, between and after.  Three sessions let a
record of the first be continued by the second and read by the third.  Three
frames overflow a buffer of two, and a channel of one makes every client that
pauses lag.  Two handlers are a mint against a claim, a claim against a claim, an
adopt against an adopt; two codes let the second supersede the first, be charged
the first one's guesses, or be paid for by its buyer; `MaxFailures` is 2 instead of
5, so the limit is reached by either handler's guess.  Two connections of one
phone with caps of one are a full house and the next guest, and a window that
opens as another ends.  Three references are a provider's old and new file and
another provider's.  Two attempts are a login and its replacement, two callbacks a
browser that repeats itself.  Two daemons and two ports are a daemon and the one
that must not start beside it, a port taken by a stranger and the next one.  Of the
releases the second changes the build under the same names, the third everything, and
the fourth goes back to the pins of the first with another `bootstrap.py`; the two
requests come before the first update (`RequestsBeforeUpdates`), for the switch and the
update share only the daemon.  The four pasts are none, one whose last calls are none,
and a call with a text or with more pictures than are kept.
Elements that are only compared for equality are reduced by symmetry where no
liveness is checked; the view of `SupervisorConcurrent` leaves out only what no
action and no property of that run reads.

`SupervisorSequential`'s properties hold of one request at a time: two resumes can
both pass the check before either writes, and then each of them fails, which is why
they are checked apart.  `SignIns` has one command line, for with two the liveness
properties are beyond TLC; what contending logins may do to each other is covered by
the theorems of `LoginProofs`, which hold for any number.

### Fairness

* `RunSupervisor`: each driver, each handler and the boot sequence keep being
  scheduled; requests, disconnects and crashes are nobody's duty.  A driver that is
  opening its model and its tools is exempt: the handshake with the tool server has
  no timeout and looks at no token, so `CancelledDriverStops` lets a cancelled
  driver stay there.
* `RunLoop`: the session's task and the writer's thread are scheduled and the
  model answers, for its clients have a timeout.  Nothing is assumed of the tool
  server: neither its handshake nor its calls have a timeout in the code, and
  `SessionEnds` and `CancelEndsSession` name the places where a session can wait
  for it.  In particular a cancel does not end a session that is still
  connecting.
* `RunStream`: tasks and handlers are scheduled, and `select!` chooses at random
  among what is ready, so a signal that stays is seen in the end (strong
  fairness of `CloseRevoked`).  That clients read what they are sent is an
  assumption about clients: no send has a timeout.
* `Login`: a login goes on (`Step`), which includes that its owner answers the
  menu; an attempt's ten minutes pass (`Lapse`) and its expiry task fires
  (`Timer`).  Nothing is asked of the browser, the daemon or the provider.

## What is proved

All theorems hold for any values of the constants that satisfy the `ASSUME`s of
the modules.  Those of one resume or one request at a time, in
`RunSupervisorProofs`, and those of one command line or one start at a time, in
`MachineProofs`, have that condition as a hypothesis; the others use nothing else.

* `RunSupervisorProofs`: types; `DriversAreAccountedFor`, which names the three ways
  an open row is left without a driver (an accepted cancel whose row was overwritten,
  a request dropped before its driver was registered, a verdict or a scan that SQLite
  failed); the first verdict of `VerdictsStand`.  The invariant adds that a handler
  holds the task it spawned until it registers it, that a token is cancelled only
  for an accepted cancel, and that a process that is down owns no task: without the
  first, `Register` could name a dead task; without the others, a driver that
  returned "cancelled" could orphan a row with no cause.

  `OwnershipIsSound`, `OnlyLateFailuresFollowCompletion` and the whole of
  `VerdictsStand` are proved of the executions in which no two handlers are
  between a resume's check of one run and its write (`[]ResumesDoNotOverlap`, a
  condition on the environment: `resume` reads the status and writes it with
  nothing held in between, and where two resumes meet there, the three are false).
  Any number of runs, drivers, handlers, disconnects, crashes and failing writes is
  allowed, and resumes of different runs may overlap.  `CancelReachesEveryOwner`
  needs that no two requests on one run overlap (`[]RequestsDoNotOverlap`): a cancel
  could meet a handler that has spawned a driver and not yet registered it.
  `OneCallerAtATime`
  discharges both conditions for a server that takes one request at a time, as
  `SupervisorSequential` does.
  The invariant, `SequentialInv`, says that the status a resume has read still
  stands, that a task that still acts does so for a row that is open or was
  cancelled, that boot has what the crash left before it, and that whoever is
  about to announce a cancel or a completion was the last to act for its run.
* `RunLoopProofs`: types, `CallsAreOnRecord`, `RecoveryIsTheLog`,
  `SessionsAreToldTheTruth` with its three parts, and `CallsActOnRecord`, the
  refinement of `CallLog`.

  The invariant has a part about control (which record is on its way in which
  place, and where the file cannot end in an unfinished line) and one about data
  (no record has a number above `next_seq`; what acted is a whole line, which
  nothing written later can spoil; no number opens two calls; what a session
  counts is what recovery would).  Both parts are needed at once: a call is
  dispatched after a clean line, so its record cannot be spoilt, and a session's
  numbers start above everything recovery can read.

  `RecoveryReadsTheLog` is about the pass over a journal alone: for a file of any
  length, each counter of the recursive pass (the last number, the successes, the
  answers), the open calls, the closed ones and the ask that is owed are what the
  declarative reading of the whole records says, and every result it shows is of a call
  that closed, if no number opens two calls and every ask has a number
  (`NumberedAsks`, proved of every file the sessions can leave).  The induction
  over the records is done through `FirstOf`, that a non-empty set of numbers has
  a least member, proved from the well-foundedness of `<`: the set of lengths at
  which a fact fails has none.  `SessionInv` is what makes the report of the last
  open call complete: a session settles a call on record before it begins the next
  one, so at most one call of a session, its last, is open, and recovery reports
  the last.
* `RunStreamProofs`: types, `StreamsAreWhole`.  The invariant says that the buffer
  is the beginning of what this process broadcast, and that what a socket was
  sent, what is left of its replay and what its receiver will take follow each
  other.
* `PairingProofs`: types, `DevicesAreOneToOne`, `EndsAreAnnounced`, and
  `CodesAreOneTime`, the refinement of `PairingCode`.  The invariant says what a
  handler on its way holds (a number of its own while minting; a redeemed code no
  device was bought with, which no other handler holds, until the row is written;
  a row whose token nobody has and no identity is bound to), that the slot holds a
  code that was minted and not redeemed and counts the guesses charged to it, and
  that whoever asked for a code was there, having paid with an earlier one.  A
  counting argument (`NumbersSuffice`) shows that the numbers of the windows stay
  within the bound the types give them: a code takes one when it is minted and one
  when it ends, and an end that is still to come has not had its number yet.
* `IrohAdmissionProofs`: types, `SlotsAreReturned`, `RevokedConnectionsHear`,
  `ClaimSurvivesItsOwnEnd`, `CapsAreKept`.  The invariant adds where a connection has an admission
  (`Stations`: without it a connection that ends while it drains could be taken off
  the wrong one of the count and the ledger) and that whatever can wake the reaper
  has disturbed every claim it falls into (`Undisturbed`).  For the caps a connection
  counts from its admission on, not from its place (`CapsHold`): a second one that is
  admitted before the first has its place is one that `raced`.
* `ProvidersProofs`: types, `RowsHaveSecrets`, `NothingIsLeftBehind`,
  `DefaultWasReady`.  The invariant says what an operation on its way knows and
  holds: the file it writes is named by no row and by no other operation, the file
  it replaces is the row's until the transaction and nobody's after it, what it
  learnt of its models was answered with the account's own credential, and no
  reference is used twice.
  Of `ModelTurns`, types (but for the messages; with them, that the owner's choice
  is always among the models offered), `RepeatsHaveAReason` and
  `FailuresAreToldApart`. The invariant of `RepeatsHaveAReason` says how many
  refusals came before the renewal, that the last of them is the 401 it was
  renewed for, and that every other one that was repeated was worth waiting for;
  `FailuresAreToldApart` rests on a lemma (`Explains`) on how each of the three
  services' answers is classified.
* `LoginProofs`: types, `AttemptsRunOnce`, `LoginsTellTheTruth`, `FilesArePrivate`,
  `OwnNodesAreAccepted`, `OverIsOver`, for any number of attempts, callbacks and
  command lines and for every machine and directory.  The invariant ties what a
  login may still say to what its request may still do: the attempts of two logins
  are apart; while a request is under way its login waits or has timed out; what
  is refused was not connected.
* `MachineProofs`, of `ComputerUse`: types, `PayloadsFollowBinaries`,
  `RollbackIsPossible`, `SettingIsTold`, on Unix and off it, for any sequence of
  releases and any pins, however those of a later release agree with an earlier
  one's, and any number of requests.  The invariant says what an update has
  put in place by the step it is at (`Progress`), that a manifest
  describes what is there while nothing is being replaced and no update left it in
  pieces (`Target`), that only the directory an update is replacing can be missing under
  a daemon that found it (`Mounted`) or where the manifest points to (`Findable`), and
  that a request that nothing has overtaken holds what the file says (`Answered`).

  Of `Service` and `Consolidation`: types, for any number of command lines;
  `DaemonsAreNamed` and `HistoryIsKept` for one command line at a time
  (`OneCommandLine`, a hypothesis on the constant `Callers`: `start` reads the pid
  file and writes it after the spawn with nothing held in between), and any number
  of daemons, deaths, reboots, strangers, ports and machines.  `Names` says where a
  live daemon may be besides in its files: with the command line that spawned it,
  which writes them next, and that a command line that has found no process has not
  overlooked one.  That leaves one daemon at a time at the disk, so that every state
  of it is of one of three kinds, as found, opened in place, or committed
  (`Kinds`), and `OnItsWay` says what the daemon that is between two of them has
  in its plan and in its stage.  A death loses only the latter.
  `OneAtTheDiskKeepsHistory` is what of this does not need the names: for any number
  of command lines at once, and with daemons whose names are lost, history is kept
  in every execution in which no two daemons come up at the same time
  (`[]OneAtTheDisk`).  The names see to that condition for one command line that is
  not stopped before it has written them.

Only model-checked, and why:

* All liveness properties (`QueuedIsLaunched`, `CancelledDriverStops`,
  `SessionsAreFinite`, `WatchedSocketsClose`, `FollowersHearTheEnd`,
  `SecretsAreDropped`, `LoginsMoveOn`), which are outside the prover's reach.
* `WhatWasSaidIsHeard`, which compares two recursive readings of a conversation.

## Where the code differs from what is said of it, and what to know of it

`JournalGlued` is the one run that shows a disagreement.  The following were met
while modelling; the properties exclude each of them by name (a `note` of the
hazard or a comment of the property says where), so that what remains is checked.

* A cancel is overwritten by `prepare_record` or by `park`, which write the row
  without a condition.  A cancel that wins after the loop has returned leaves a
  stream without a terminal frame.  Two resumes at once give a run two drivers.
* A run whose only successes were control tools fails, is resumed, and completes
  at once, because recovery counts them and the loop does not.  `RecoveryIsTheLog` says
  that recovery counts every `done` record; that the two differ is not checked, and the
  run has no control tool besides the one that asks.
* A revoke between a socket's admission and its watch leaves the socket open; on
  the built-in transport the same order leaves a connection that nobody signals,
  whose streams are refused all the same.
* A claim that fails after its code was redeemed announces nothing
  (`routes/auth.rs`, the two `?`); the reaper then learns of the end by its
  deadline.  A second window's news can reap a connection between the redemption
  and the binding of its claim.
* The caps of the built-in transport are compared with counts that a connection
  joins later, so connections that are admitted at the same time can exceed them
  (`CapsAreKept` is about the others).  A connection whose phone is bound when its
  lifetime runs out is off the clock for good; revoked later, it keeps its place on
  the ledger until it hangs up or, if it came with a window, the reaper wakes again.
* On Windows `sync_directory` does nothing and `MoveFileW` is not asked to write
  through, so that after a power loss a row can name a credential whose file is
  gone; the run is of Unix, the theorem of both.  That what SQLite commits outlives
  the power is taken from SQLite.  A file that was removed may come back with the
  power; the next boot sweeps it.
* `pair` takes the addresses before it asks whether any can be reached, so a
  transport that comes or goes in between gives an answer without an address.
* Two PUTs of the computer-use switch can leave the cached answer and the file
  apart; so can one whose client hangs up (the write goes on, may come after a later PUT
  was answered, and nobody keeps its answer) and one whose read-back fails after the
  file was written.  Runs read the file, so that only what GET says is wrong.
* `below_install_root` does not look at `python/`: on Windows, after an update that broke
  off between the directories, the old release mounts an environment whose Python may be
  missing or another, and on either a release that goes back to the manifest's pins does.
  The server then fails to start, or starts from a mixture.
* `update` says that nothing was replaced when the binary could not be, though
  the payload and its manifest already were; `bootstrap.py` is not named by the
  manifest, so that a release that changes only that keeps the old one; a second update at the same time, and an update run from
  `vadgr.previous`, are not protected against.
* An attempt's timer sleeps on the monotonic clock, once, and then asks the time of
  day (`engine/provider/service.rs:968`, `1015`).  `AuthAttempts` has one clock; where
  the time of day was set back meanwhile, the attempt and its secret stay until
  somebody asks for it.
* Bringing old state to the root syncs nothing before the sources are removed, reads
  no answer to the checkpoint of the old log, and ignores a row whose token hash is
  there already.  `HistoryIsKept` is about a daemon that dies, old databases nobody else
  has open, and hashes that differ.  `RollbackIsPossible` is likewise about an update
  that is stopped, not a machine that is.
* "Enter another API key" reads the same environment variable again; a login says
  it failed when only the last GET of the rows did, though it is connected.
* A start from another directory finds no old state; a target that was committed
  and crashed before its check is not checked again; two daemons that are started
  at once can both recover the same runs; `status` and `stop` act on a pid and a
  port that may be somebody else's by then.
* Whoever finds a stale pid or port file removes it by its path, after having read
  it; another command line that has written the file in between loses it.  The two
  are one step in `Service`, whose properties are about one command line at a time.
* The key of the built-in transport is created and then written, so a crash in
  between leaves an empty key file.

## Plan

The order was: supervisor, journal and loop, streams; pairing and admission;
provider connections, attempts and logins; start-up; model clients; the payload;
then proofs of the modules whose promises are about data that outlives the process,
and of those that only hold of one request at a time.  All of that is done.  What is
left:

The composition of `Pairing` and `IrohAdmission`, with `RunStream`'s revocation
channel, in one run.

## What is not modelled

* Control tools other than the question to the owner: lists, messages and the
  words of a policy are data without steps of their own.
* Health and the JSON of errors; the scope of a health answer.
* Parsing of arguments, printing, and commands that make one request.
* Sockets of the transports other than the built-in one, calls to the tailscale
  program, and the relays and the key file of the built-in one.
* What a provider remembers of a rotated token, and readers of a credential file
  that hold no lock (the note at `engine/provider/service.rs:684`).
* Within the modelled parts: the text of messages, redaction, to-do lists, what a
  frame says, schemas of tools, how a token is drawn and hashed, configuration
  values, the tool server's child process, and the checks of a downloaded archive.

`PROJECT.json` lists each part with its state.
