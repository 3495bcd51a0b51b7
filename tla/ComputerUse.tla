----------------------------- MODULE ComputerUse -----------------------------
(***************************************************************************)
(* Computer use on a machine that is kept up to date: the private payload  *)
(* a release needs (cua_payload.rs), vadgr update, which puts the payload  *)
(* in place before it moves the new binary in, the daemon, which looks for *)
(* the payload once, when it starts, and the switch an owner turns it on   *)
(* and off with.  Any step of an update may fail or be its last.           *)
(*                                                                         *)
(* The manifest names the pins, and not bootstrap.py: a release that       *)
(* changes nothing else finds the payload of the one before and leaves it  *)
(* alone.                                                                  *)
(*                                                                         *)
(* The installer's own order and the owner's hand are external.            *)
(***************************************************************************)
EXTENDS Naturals

CONSTANTS
  Nothing,
  Releases,     \* numbered in the order in which the checkout has them, from 1
  Pins,         \* what each needs: [python, build, generation]
  Unix,         \* an environment's interpreter is a link into python/, not a file of its own
  Requests      \* requests to turn the switch that can be under way at a time

ASSUME ComputerUseAssumption ==
  /\ Releases \subseteq Nat /\ 1 \in Releases /\ Unix \in BOOLEAN
  /\ \A r \in Releases :
       Nothing \notin {Pins[r], Pins[r].python, Pins[r].build, Pins[r].generation}

VARIABLES
  head,          \* the release the checkout is at
  binary,        \* bin/vadgr: Nothing or [release, whole]
  previous,      \* bin/vadgr.previous
  python,        \* python/<version>: the build that is there
  environments,  \* environments/<generation>: [python, build] it was made with
  bootstrap,     \* bootstrap.py: Nothing or [release, whole]
  manifest,      \* payload.json: pins
  update,        \* vadgr update: Nothing or [step, release, from, wrote]
  daemon,        \* Nothing or [release, mounts, told]: its runtime and its cached answer
  setting,       \* settings.json: computer_use.enabled
  put,           \* of a PUT /api/settings/computer-use: [step, value, heard, late]
  broken,        \* history of updates that broke off: "binary", once they had changed what
                 \* the binary was installed with; "payload", which they left in pieces;
                 \* "daemon", from which they took a directory
  lost,          \* history: an update run from the previous binary broke off
  apart          \* history: "unheard", a write whose answer was not kept; "overtaken", an
                 \* answer kept after another request's write

files   == <<python, environments, bootstrap, manifest>>
payload == <<files, binary, previous, head, update, broken, lost>>
switch  == <<setting, put, apart>>
vars    == <<payload, daemon, switch>>

Versions    == {Pins[r].python : r \in Releases}
Builds      == {Pins[r].build : r \in Releases}
Generations == {Pins[r].generation : r \in Releases}
Steps == {"built", "fetching", "staged", "python", "placed", "verified", "probed",
          "environment", "bootstrap", "described", "ready", "asides", "moving", "copying"}
Binary == [release : Releases, whole : BOOLEAN]
Environment == [python : Versions, build : Builds]
Updating == [step : Steps, release : Releases, from : {"binary", "previous"}, wrote : BOOLEAN]
Putting == [step : {"none", "write", "read", "keep"}, value : BOOLEAN, heard : BOOLEAN, late : BOOLEAN]
NoPut == [step |-> "none", value |-> FALSE, heard |-> FALSE, late |-> FALSE]
Running == [release : Releases, mounts : {Nothing} \cup Generations, told : BOOLEAN]

(* What is there is told from what is not.                                 *)
ASSUME NothingAssumption == Nothing \notin Binary \cup Environment \cup Updating \cup Running

TypeOK ==
  /\ head \in Releases
  /\ binary \in {Nothing} \cup Binary /\ previous \in {Nothing} \cup Binary
  /\ python \in [Versions -> {Nothing} \cup Builds]
  /\ environments \in [Generations -> {Nothing} \cup Environment]
  /\ bootstrap \in {Nothing} \cup Binary
  /\ manifest \in {Nothing} \cup {Pins[r] : r \in Releases}
  /\ update \in {Nothing} \cup Updating /\ daemon \in {Nothing} \cup Running
  /\ broken \subseteq {"binary", "payload", "daemon"} /\ lost \in BOOLEAN
  /\ setting \in BOOLEAN /\ put \in [Requests -> Putting] /\ apart \subseteq {"unheard", "overtaken"}

Made(r) == [python |-> Pins[r].python, build |-> Pins[r].build]

(* The installer has put the first release there.                          *)
Init ==
  /\ head = 1 /\ binary = [release |-> 1, whole |-> TRUE] /\ previous = Nothing
  /\ python = [v \in Versions |-> IF v = Pins[1].python THEN Pins[1].build ELSE Nothing]
  /\ environments = [g \in Generations |-> IF g = Pins[1].generation THEN Made(1) ELSE Nothing]
  /\ bootstrap = [release |-> 1, whole |-> TRUE] /\ manifest = Pins[1]
  /\ update = Nothing /\ daemon = Nothing /\ setting = TRUE
  /\ put = [q \in Requests |-> NoPut]
  /\ broken = {} /\ lost = FALSE /\ apart = {}

(* below_install_root: the manifest has the release's pins, and the        *)
(* interpreter of its environment and bootstrap.py are files.  Python is   *)
(* looked for only by following the link, where it is one.                 *)
Opens(r) ==
  /\ manifest = Pins[r]
  /\ environments[Pins[r].generation] # Nothing
  /\ Unix => python[environments[Pins[r].generation].python] # Nothing
  /\ bootstrap # Nothing
---------------------------------------------------------------------------
(* vadgr update, from bin/vadgr or, by an owner who has no other, from the *)
(* binary beside it: the checkout is brought forward and built.            *)
Whole(b) == b # Nothing /\ b.whole

Pull(from) ==
  /\ update = Nothing
  /\ Whole(IF from = "binary" THEN binary ELSE previous)
  /\ from = "previous" => ~Whole(binary)
  /\ \E r \in Releases :
       /\ r >= head /\ head' = r
       /\ update' = [step |-> "built", release |-> r, from |-> from, wrote |-> FALSE]
  /\ UNCHANGED <<files, binary, previous, broken, lost, daemon, switch>>

Step(from, to) ==
  /\ update # Nothing /\ update.step = from
  /\ update' = [update EXCEPT !.step = to]

Elsewhere == UNCHANGED <<head, broken, lost, daemon, switch>>

(* The candidate's __payload-setup: a payload that opens is left alone.    *)
Assemble ==
  /\ \/ update # Nothing /\ Opens(update.release) /\ Step("built", "ready")
     \/ update # Nothing /\ ~Opens(update.release) /\ Step("built", "fetching")
  /\ Elsewhere /\ UNCHANGED <<files, binary, previous>>

(* Both archives are fetched, compared with their check sums and unpacked  *)
(* in a staging directory.                                                 *)
Fetch ==
  /\ Step("fetching", "staged")
  /\ Elsewhere /\ UNCHANGED <<files, binary, previous>>

Replacing(from, to) ==
  /\ update # Nothing /\ update.step = from
  /\ update' = [update EXCEPT !.step = to, !.wrote = TRUE]

\* Variant: a Python of that version that is there already is kept.
PlacePythonOnce ==
  LET v == Pins[update.release].python
  IN /\ Replacing("staged", "placed")
     /\ python' = IF python[v] = Nothing THEN [python EXCEPT ![v] = Pins[update.release].build]
                  ELSE python
     /\ Elsewhere /\ UNCHANGED <<environments, bootstrap, manifest, binary, previous>>

(* install_immutable_directory: what is there goes aside, then the new one *)
(* takes its place.                                                        *)
PlacePython ==
  LET v == Pins[update.release].python
  IN /\ \/ Replacing("staged", "python") /\ python[v] # Nothing
           /\ python' = [python EXCEPT ![v] = Nothing]
        \/ update # Nothing /\ python[v] = Nothing
           /\ (Replacing("staged", "placed") \/ Replacing("python", "placed"))
           /\ python' = [python EXCEPT ![v] = Pins[update.release].build]
     /\ Elsewhere /\ UNCHANGED <<environments, bootstrap, manifest, binary, previous>>

VerifyPython ==
  /\ Step("placed", "verified")
  /\ Elsewhere /\ UNCHANGED <<files, binary, previous>>

(* The environment is made, filled and probed in the staging directory.    *)
MakeEnvironment ==
  /\ Step("verified", "probed")
  /\ Elsewhere /\ UNCHANGED <<files, binary, previous>>

PlaceEnvironment ==
  LET g == Pins[update.release].generation
  IN /\ \/ Step("probed", "environment") /\ environments[g] # Nothing
           /\ environments' = [environments EXCEPT ![g] = Nothing]
        \/ update # Nothing /\ environments[g] = Nothing
           /\ (Step("probed", "bootstrap") \/ Step("environment", "bootstrap"))
           /\ environments' = [environments EXCEPT ![g] = Made(update.release)]
     /\ Elsewhere /\ UNCHANGED <<python, bootstrap, manifest, binary, previous>>

(* bootstrap.py is written over: first it is empty.                        *)
WriteBootstrap ==
  /\ update # Nothing /\ update.step = "bootstrap"
  /\ \/ bootstrap' = [release |-> update.release, whole |-> FALSE] /\ bootstrap' # bootstrap
        /\ UNCHANGED update
     \/ /\ bootstrap = [release |-> update.release, whole |-> FALSE]
        /\ bootstrap' = [bootstrap EXCEPT !.whole = TRUE] /\ Step("bootstrap", "described")
  /\ Elsewhere /\ UNCHANGED <<python, environments, manifest, binary, previous>>

(* After the licences, and only if the payload then opens.  Off Unix the   *)
(* manifest that is there is removed first.                                *)
WriteManifestLast ==
  /\ \/ update # Nothing /\ update.step = "described" /\ ~Unix
        /\ manifest # Nothing /\ manifest' = Nothing
        /\ UNCHANGED <<update, broken>>
     \/ Step("described", "ready") /\ (Unix \/ manifest = Nothing)
        /\ manifest' = Pins[update.release] /\ broken' = broken \ {"payload"}
  /\ UNCHANGED <<python, environments, bootstrap, binary, previous, head, lost, daemon, switch>>

\* Variant: the old binary is dropped, not put aside.
InstallBinariesInPlace ==
  /\ \/ Step("ready", "copying") /\ binary' = [release |-> update.release, whole |-> FALSE]
        /\ previous' = Nothing
     \/ /\ update # Nothing /\ update.step = "copying" /\ update' = Nothing
        /\ binary' = [binary EXCEPT !.whole = TRUE] /\ UNCHANGED previous
  /\ Elsewhere /\ UNCHANGED files

(* install_binaries: the binary that is there goes aside, in the place of  *)
(* the one before, and the new one is copied.                              *)
InstallBinaries ==
  /\ \/ Step("ready", "asides") /\ binary # Nothing
        /\ previous' = Nothing /\ UNCHANGED binary
     \/ Step("asides", "moving")
        /\ previous' = binary /\ binary' = Nothing
     \/ Step("ready", "moving") /\ binary = Nothing /\ UNCHANGED <<binary, previous>>
     \/ Step("moving", "copying")
        /\ binary' = [release |-> update.release, whole |-> FALSE] /\ UNCHANGED previous
  /\ Elsewhere /\ UNCHANGED files

Installed ==
  /\ update # Nothing /\ update.step = "copying"
  /\ binary' = [binary EXCEPT !.whole = TRUE]
  /\ update' = Nothing /\ broken' = broken \ {"binary"}
  /\ UNCHANGED <<files, head, previous, lost, daemon, switch>>

(* A download, a check sum, a probe or a copy that fails, a full disk, the *)
(* end of the process: there is no way back from any of them, and what     *)
(* the update has put in place stays.                                      *)
Between == {"python", "placed", "verified", "probed", "environment", "bootstrap", "described"}

BreakOff ==
  /\ update # Nothing /\ update' = Nothing
  /\ broken' = broken
       \cup (IF update.wrote THEN {"binary"} ELSE {})
       \cup (IF update.step \in Between THEN {"payload"} ELSE {})
       \cup (IF update.step \in {"python", "environment"} THEN {"daemon"} ELSE {})
  /\ lost' = (lost \/ update.from = "previous")
  /\ UNCHANGED <<files, head, binary, previous, daemon, switch>>

(* The owner puts the binary before back, when that one is whole.          *)
Restore ==
  /\ update = Nothing /\ Whole(previous)
  /\ binary' = previous /\ previous' = Nothing /\ broken' = broken \cup {"binary"}
  /\ UNCHANGED <<files, head, update, lost, daemon, switch>>
---------------------------------------------------------------------------
(* SetupService::from_env, and the daemon's answer to GET.  Off Unix a     *)
(* daemon may find a payload that is in pieces, and no Python in it.       *)
StartDaemon ==
  /\ daemon = Nothing /\ Whole(binary)
  /\ daemon' = [release |-> binary.release, told |-> setting,
                mounts |-> IF Opens(binary.release) THEN Pins[binary.release].generation ELSE Nothing]
  /\ broken' = IF Unix \/ "payload" \notin broken THEN broken \ {"daemon"} ELSE broken
  /\ apart' = {}
  /\ UNCHANGED <<files, binary, previous, head, update, lost, setting, put>>

StopDaemon ==
  /\ daemon # Nothing /\ daemon' = Nothing
  /\ put' = [q \in Requests |-> NoPut] /\ apart' = {}
  /\ UNCHANGED <<payload, setting>>

(* PUT: the switch is turned in the file and read back on a thread of the  *)
(* blocking pool; the handler waits for it and keeps the answer.           *)
Put(q, want) ==
  /\ daemon # Nothing /\ put[q].step = "none"
  /\ put' = [put EXCEPT ![q] = [step |-> "write", value |-> want, heard |-> TRUE, late |-> FALSE]]
  /\ UNCHANGED <<payload, daemon, setting, apart>>

Ended(q) == put' = [put EXCEPT ![q] = NoPut]

SetEnabled(q) ==
  /\ put[q].step = "write" /\ setting' = put[q].value
  /\ put' = [p \in Requests |->
       IF p # q THEN [put[p] EXCEPT !.late = (put[p].step = "keep")]
       ELSE IF put[q].heard THEN [put[q] EXCEPT !.step = "read"] ELSE NoPut]
  /\ apart' = IF put[q].heard THEN apart ELSE apart \cup {"unheard"}
  /\ UNCHANGED <<payload, daemon>>

(* A settings file that cannot be read, parsed or replaced.                *)
WriteFails(q) ==
  /\ put[q].step = "write" /\ Ended(q)
  /\ UNCHANGED <<payload, daemon, setting, apart>>

ReadBack(q) ==
  /\ put[q].step = "read"
  /\ put' = [put EXCEPT ![q].step = "keep", ![q].value = setting]
  /\ UNCHANGED <<payload, daemon, setting, apart>>

(* The switch is turned, and the handler returns before it keeps that.     *)
ReadFails(q) ==
  /\ put[q].step = "read" /\ Ended(q) /\ apart' = apart \cup {"unheard"}
  /\ UNCHANGED <<payload, daemon, setting>>

\* Variant: the answer is sent, not kept.
KeepNothing(q) ==
  /\ put[q].step = "keep" /\ Ended(q)
  /\ UNCHANGED <<payload, daemon, setting, apart>>

Keep(q) ==
  /\ put[q].step = "keep" /\ Ended(q)
  /\ daemon' = [daemon EXCEPT !.told = put[q].value]
  /\ apart' = IF put[q].late THEN {"overtaken"} ELSE {}
  /\ UNCHANGED <<payload, setting>>

(* Whoever asked hangs up and the handler is dropped; its thread goes on,  *)
(* and writes when it comes to it, however many have asked in between.     *)
GiveUp(q) ==
  /\ \/ put[q].step = "write" /\ put[q].heard
        /\ put' = [put EXCEPT ![q].heard = FALSE] /\ UNCHANGED apart
     \/ put[q].step \in {"read", "keep"} /\ Ended(q) /\ apart' = apart \cup {"unheard"}
  /\ UNCHANGED <<payload, daemon, setting>>

Update ==
  \/ \E from \in {"binary", "previous"} : Pull(from)
  \/ Assemble \/ Fetch \/ VerifyPython \/ MakeEnvironment
  \/ update # Nothing /\ (PlacePython \/ PlaceEnvironment)
  \/ WriteBootstrap \/ WriteManifestLast \/ InstallBinaries \/ Installed \/ BreakOff

Next ==
  \/ Update \/ Restore
  \/ StartDaemon \/ StopDaemon
  \/ \E q \in Requests, want \in BOOLEAN : Put(q, want)
  \/ \E q \in Requests : \/ SetEnabled(q) \/ WriteFails(q) \/ ReadBack(q) \/ ReadFails(q)
                         \/ Keep(q) \/ GiveUp(q)

Spec == Init /\ [][Next]_vars
---------------------------------------------------------------------------
(* What a release was built and probed with, or one that it shares all     *)
(* its pins with.                                                          *)
Own(r) ==
  /\ Whole(bootstrap) /\ Pins[bootstrap.release] = Pins[r]
  /\ python[Pins[r].python] = Pins[r].build
  /\ environments[Pins[r].generation] = Made(r)

Mountable(g) == environments[g] # Nothing /\ python[environments[g].python] # Nothing

(* update's promise that the runtime is ready before the binary moves.  A  *)
(* payload that opens for a release is that release's, whatever updates    *)
(* broke off before the manifest was written, unless it is still in pieces *)
(* and the checkout has gone back to the pins its manifest has; the        *)
(* installed release opens one, unless an update broke off after it had    *)
(* changed the payload, or the owner put the binary before back; and the   *)
(* daemon that still runs an older release keeps the runtime it found.     *)
PayloadsFollowBinaries ==
  update = Nothing =>
    /\ "payload" \notin broken => \A r \in Releases : Opens(r) => Own(r)
    /\ Whole(binary) /\ "binary" \notin broken => Opens(binary.release)
    /\ daemon # Nothing /\ "daemon" \notin broken =>
         daemon.mounts = Nothing \/ Mountable(daemon.mounts)

(* install_binaries' promise to keep what a failed update is rolled back   *)
(* from: one of the two binaries is whole wherever the update stops (not   *)
(* the machine: the copies are not synced), unless the update was run from *)
(* the previous one.                                                       *)
RollbackIsPossible ==
  \/ Whole(binary) \/ Whole(previous)
  \/ update # Nothing /\ update.from = "previous"
  \/ lost

(* GET tells what the next run will mount by: the cached answer is the     *)
(* file's, unless a request that has turned the switch is about to keep    *)
(* it.  The code has three exceptions: the write of a request that was     *)
(* given up, which may come after a later one was answered; a read-back    *)
(* that fails; and an answer that is kept after another request's write.   *)
(* Each lasts until an answer is kept that nothing has overtaken.          *)
SettingIsTold ==
  daemon # Nothing /\ daemon.told # setting =>
    \/ \E q \in Requests : put[q].step \in {"read", "keep"}
    \/ apart # {}
=============================================================================
