--------------------------- MODULE MachineProofs ---------------------------
(***************************************************************************)
(* Proofs about what stays on a machine: ComputerUse, what an installation *)
(* keeps over any number of releases and of updates that break off at any  *)
(* step, and what the switch tells; and Service, how a daemon is found,    *)
(* and what becomes of the history of the old releases whichever daemon    *)
(* dies where.                                                             *)
(***************************************************************************)
EXTENDS ComputerUse, Service, FiniteSetTheorems, NaturalsInduction,
        WellFoundedInduction, TLAPS

At(steps) == update # Nothing /\ update.step \in steps

(* The steps between the first change to the installed payload and its     *)
(* manifest are ComputerUse's Between; those after:                        *)
Described == {"ready", "asides", "moving", "copying"}

(* An update is always to the release of the checkout, and what is not in  *)
(* pieces is what the manifest says.                                       *)
Target ==
  /\ update # Nothing => update.release = head
  /\ "payload" \notin broken /\ ~At(Between) => \A r \in Releases : manifest = Pins[r] => Own(r)

(* What an update has put in place by the step it is at.                   *)
Progress ==
  /\ At(Between) => update.wrote
  /\ At({"placed", "verified", "probed", "environment", "bootstrap", "described"})
       => python[Pins[head].python] = Pins[head].build
  /\ At({"bootstrap", "described"}) => environments[Pins[head].generation] = Made(head)
  /\ At({"described"}) => bootstrap = [release |-> head, whole |-> TRUE]
  /\ At(Described) => Opens(head)

(* The binaries, and the payload of the one that is installed.             *)
Binaries ==
  /\ update = Nothing \/ ~update.wrote =>
       (Whole(binary) /\ "binary" \notin broken => Opens(binary.release))
  /\ At({"copying"}) => binary = [release |-> head, whole |-> FALSE]
  /\ update = Nothing => Whole(binary) \/ Whole(previous) \/ lost
  /\ update # Nothing /\ update.from = "binary" =>
       IF update.step \in {"moving", "copying"} THEN Whole(previous) ELSE Whole(binary)

(* What the daemon has found is missing only while it is being replaced,   *)
(* and so is what it would find by the manifest.                           *)
Present(g) ==
  /\ environments[g] = Nothing => At({"environment"}) /\ Pins[head].generation = g
  /\ environments[g] # Nothing =>
       \/ python[environments[g].python] # Nothing
       \/ At({"python"}) /\ Pins[head].python = environments[g].python

Mounted ==
  daemon # Nothing /\ "daemon" \notin broken /\ daemon.mounts # Nothing => Present(daemon.mounts)

Findable ==
  "payload" \notin broken \/ (~Unix /\ "daemon" \notin broken) =>
    \A r \in Releases : manifest = Pins[r] => Present(Pins[r].generation)

(* A request that nothing has overtaken holds what the file says; a write  *)
(* that is not told is by one that will tell it, or is on record.          *)
Answered ==
  /\ daemon = Nothing => \A q \in Requests : put[q].step = "none"
  /\ \A q \in Requests : put[q].step = "keep" /\ ~put[q].late => put[q].value = setting
  /\ SettingIsTold

Inv == TypeOK /\ Target /\ Progress /\ Binaries /\ Mounted /\ Findable /\ Answered
---------------------------------------------------------------------------
(* What a release needs.                                                   *)
LEMMA PinsType ==
  ASSUME NEW r \in Releases
  PROVE  /\ Pins[r].python \in Versions /\ Pins[r].build \in Builds
         /\ Pins[r].generation \in Generations /\ Pins[r] # Nothing
         /\ Pins[r].python # Nothing /\ Pins[r].build # Nothing /\ Pins[r].generation # Nothing
         /\ Made(r) \in Environment /\ Made(r) # Nothing
BY ComputerUseAssumption, NothingAssumption
   DEF Versions, Builds, Generations, Made, Environment

LEMMA StepMoves ==
  ASSUME TypeOK, NEW from, NEW to \in Steps, Step(from, to)
  PROVE  /\ update # Nothing /\ update.step = from
         /\ update' \in Updating /\ update' # Nothing /\ update'.step = to
         /\ update'.release = update.release /\ update'.from = update.from
         /\ update'.wrote = update.wrote
<1>1. update \in Updating /\ update.step = from /\ update' = [update EXCEPT !.step = to]
  BY DEF TypeOK, Step
<1>2. update' \in Updating /\ update'.step = to /\ update'.release = update.release
      /\ update'.from = update.from /\ update'.wrote = update.wrote
  BY <1>1 DEF Updating
<1> QED
  BY <1>1, <1>2, NothingAssumption

LEMMA PlacesMoves ==
  ASSUME TypeOK, NEW from, NEW to \in Steps, Replacing(from, to)
  PROVE  /\ update # Nothing /\ update.step = from
         /\ update' \in Updating /\ update' # Nothing /\ update'.step = to
         /\ update'.release = update.release /\ update'.from = update.from
         /\ update'.wrote
<1>1. update \in Updating /\ update.step = from
      /\ update' = [update EXCEPT !.step = to, !.wrote = TRUE]
  BY DEF TypeOK, Replacing
<1>2. update' \in Updating /\ update'.step = to /\ update'.release = update.release
      /\ update'.from = update.from /\ update'.wrote
  BY <1>1 DEF Updating
<1> QED
  BY <1>1, <1>2, NothingAssumption

LEMMA BinaryType ==
  ASSUME NEW r \in Releases, NEW whole \in BOOLEAN
  PROVE  /\ [release |-> r, whole |-> whole] \in Binary
         /\ [release |-> r, whole |-> whole] # Nothing
BY NothingAssumption DEF Binary

LEMMA FilesStay ==
  ASSUME UNCHANGED files
  PROVE  \A r : (Own(r)' <=> Own(r)) /\ (Opens(r)' <=> Opens(r))
BY DEF files, Own, Opens, Whole

(* A step that leaves the payload alone, and is not part of replacing it.  *)
LEMMA TargetStays ==
  ASSUME Inv, UNCHANGED <<files, broken>>, ~At(Between), update' # Nothing => update'.release = head'
  PROVE  Target'
BY FilesStay DEF Inv, Target, files, Own, Whole

(* One that is.                                                            *)
LEMMA TargetWaits ==
  ASSUME Inv, At(Between)', update'.release = update.release, head' = head, update # Nothing
  PROVE  Target'
BY DEF Inv, Target

LEMMA PresentStays ==
  ASSUME ~At({"python", "environment"}), UNCHANGED <<python, environments, head>>
  PROVE  \A g : Present(g) => Present(g)'
BY DEF Present, At

LEMMA FoundStays ==
  ASSUME Inv, UNCHANGED <<daemon, manifest>>, broken \subseteq broken',
         \A g \in Generations : Present(g) => Present(g)'
  PROVE  Mounted' /\ Findable'
<1>1. daemon # Nothing /\ daemon.mounts # Nothing => daemon.mounts \in Generations
  BY DEF Inv, TypeOK, Running
<1>2. Mounted'
  BY <1>1 DEF Inv, Mounted
<1>3. Findable'
  BY PinsType DEF Inv, Findable
<1> QED
  BY <1>2, <1>3

LEMMA SwitchStays ==
  ASSUME Inv, UNCHANGED <<daemon, switch>>
  PROVE  Answered'
BY DEF Inv, Answered, SettingIsTold, switch

(* The steps of an update that leave both binaries alone.                  *)
LEMMA BesideBinaries ==
  ASSUME Binaries, update # Nothing, update' # Nothing, update'.from = update.from,
         update.step \notin {"moving", "copying"}, update'.step \notin {"moving", "copying"},
         UNCHANGED <<binary, previous>>, broken' = broken \/ update'.wrote,
         ~update'.wrote => ~update.wrote /\ UNCHANGED files
  PROVE  Binaries'
<1>1. \A b : Whole(b)' <=> Whole(b)
  BY DEF Whole
<1>2. ~update'.wrote => (Whole(binary) /\ "binary" \notin broken => Opens(binary.release)')
  BY FilesStay DEF Binaries
<1>3. ~At({"copying"})'
  BY DEF At
<1>4. update.from = "binary" => Whole(binary)
  BY DEF Binaries
<1> QED
  BY <1>1, <1>2, <1>3, <1>4 DEF Binaries

LEMMA AssembleKeeps ==
  ASSUME Inv, update # Nothing, Assemble
  PROVE  Inv'
<1>0. /\ Assemble /\ TypeOK /\ Target /\ Progress /\ Binaries /\ Mounted /\ Findable /\ Answered
      /\ head \in Releases /\ update \in {Nothing} \cup Updating
  BY DEF Inv, TypeOK
<1>1. TypeOK'
  BY <1>0 DEF Assemble, Step, Elsewhere, TypeOK, Updating, Steps, files, switch
<1>2. Target'
  <2>1. /\ UNCHANGED <<files, broken, head>> /\ ~At(Between)
        /\ update'.release = update.release
    BY <1>0, StepMoves DEF Assemble, Elsewhere, Steps, At, Between, Step
  <2> QED
    BY <1>0, <2>1, TargetStays DEF Target
<1>3. Progress'
  <2>1. /\ update.release = head /\ head' = head /\ UNCHANGED files
    BY <1>0 DEF Assemble, Elsewhere, Target
  <2>2. /\ update' # Nothing /\ update'.step \in {"ready", "fetching"}
        /\ update'.step = "ready" => Opens(head)
    BY <1>0, <2>1, StepMoves DEF Assemble, Steps
  <2>3. Opens(head) => Opens(head)'
    BY <2>1 DEF Opens, files
  <2> QED
    BY <2>2, <2>3 DEF Progress, At, Between, Described
<1>4. Binaries'
  <2>1. /\ update' # Nothing /\ update'.from = update.from /\ update # Nothing
        /\ update.step \notin {"moving", "copying"} /\ update'.step \notin {"moving", "copying"}
        /\ UNCHANGED <<binary, previous>> /\ (broken' = broken \/ update'.wrote)
        /\ ~update'.wrote => ~update.wrote /\ UNCHANGED files
    BY <1>0, StepMoves DEF Assemble, Elsewhere, Steps, files, Step
  <2> QED
    BY <1>0, <2>1, BesideBinaries
<1>5. Mounted' /\ Findable'
  <2>1. /\ ~At({"python", "environment"}) /\ UNCHANGED <<python, environments, head>>
        /\ UNCHANGED <<daemon, broken, manifest>>
    BY <1>0 DEF Assemble, Step, Elsewhere, files, At
  <2>2. broken \subseteq broken'
    BY <2>1
  <2> QED
    BY <2>1, <2>2, PresentStays, FoundStays
<1>6. Answered'
  <2>1. UNCHANGED <<daemon, switch>>
    BY DEF Assemble, Elsewhere
  <2> QED
    BY <2>1, SwitchStays
<1> QED
  BY <1>1, <1>2, <1>3, <1>4, <1>5, <1>6 DEF Inv

LEMMA FetchKeeps ==
  ASSUME Inv, update # Nothing, Fetch
  PROVE  Inv'
<1>0. /\ Fetch /\ TypeOK /\ Target /\ Progress /\ Binaries /\ Mounted /\ Findable /\ Answered
      /\ head \in Releases /\ update \in {Nothing} \cup Updating
  BY DEF Inv, TypeOK
<1>1. TypeOK'
  BY <1>0 DEF Fetch, Step, Elsewhere, TypeOK, Updating, Steps, files, switch
<1>2. Target'
  <2>1. /\ UNCHANGED <<files, broken, head>> /\ ~At(Between)
        /\ update'.release = update.release
    BY <1>0, StepMoves DEF Fetch, Elsewhere, Steps, At, Between, Step
  <2> QED
    BY <1>0, <2>1, TargetStays DEF Target
<1>3. Progress'
  <2>1. update' # Nothing /\ update'.step = "staged"
    BY <1>0, StepMoves DEF Fetch, Steps
  <2> QED
    BY <2>1 DEF Progress, At, Between, Described
<1>4. Binaries'
  <2>1. /\ update' # Nothing /\ update'.from = update.from /\ update # Nothing
        /\ update.step \notin {"moving", "copying"} /\ update'.step \notin {"moving", "copying"}
        /\ UNCHANGED <<binary, previous>> /\ (broken' = broken \/ update'.wrote)
        /\ ~update'.wrote => ~update.wrote /\ UNCHANGED files
    BY <1>0, StepMoves DEF Fetch, Elsewhere, Steps, files
  <2> QED
    BY <1>0, <2>1, BesideBinaries
<1>5. Mounted' /\ Findable'
  <2>1. /\ ~At({"python", "environment"}) /\ UNCHANGED <<python, environments, head>>
        /\ UNCHANGED <<daemon, broken, manifest>>
    BY <1>0 DEF Fetch, Step, Elsewhere, files, At
  <2>2. broken \subseteq broken'
    BY <2>1
  <2> QED
    BY <2>1, <2>2, PresentStays, FoundStays
<1>6. Answered'
  <2>1. UNCHANGED <<daemon, switch>>
    BY DEF Fetch, Elsewhere
  <2> QED
    BY <2>1, SwitchStays
<1> QED
  BY <1>1, <1>2, <1>3, <1>4, <1>5, <1>6 DEF Inv

LEMMA PlacePythonKeeps ==
  ASSUME Inv, update # Nothing, PlacePython
  PROVE  Inv'
<1>0. /\ PlacePython /\ TypeOK /\ Target /\ Progress /\ Binaries /\ Mounted /\ Findable /\ Answered
      /\ head \in Releases /\ update \in {Nothing} \cup Updating
  BY DEF Inv, TypeOK
<1>1. TypeOK'
  <2>1. update' \in Updating /\ Pins[update.release].build \in Builds
    BY <1>0, PinsType, PlacesMoves DEF PlacePython, Steps, Target
  <2>2. python' \in [Versions -> {Nothing} \cup Builds]
    BY <1>0, <2>1 DEF PlacePython, TypeOK
  <2> QED
    BY <1>0, <2>1, <2>2 DEF PlacePython, Elsewhere, TypeOK, switch
<1>2. Target'
  <2>1. /\ update' # Nothing /\ update'.step \in Between /\ update'.release = update.release
        /\ head' = head
    BY <1>0, PlacesMoves DEF PlacePython, Elsewhere, Steps, Between
  <2> QED
    BY <2>1, TargetWaits DEF At
<1>3. Progress'
  <2>1. /\ update' # Nothing /\ update'.step \in {"python", "placed"} /\ update'.wrote
        /\ head' = head /\ update.release = head
    BY <1>0, PlacesMoves DEF PlacePython, Elsewhere, Steps, Target
  <2>2. update'.step = "placed" => python'[Pins[head].python] = Pins[head].build
    BY <1>0, <2>1, PinsType, PlacesMoves DEF PlacePython, TypeOK, Steps
  <2> QED
    BY <2>1, <2>2 DEF Progress, At, Described
<1>4. Binaries'
  <2>1. /\ update' # Nothing /\ update'.from = update.from /\ update # Nothing
        /\ update.step \notin {"moving", "copying"} /\ update'.step \notin {"moving", "copying"}
        /\ UNCHANGED <<binary, previous>> /\ (broken' = broken \/ update'.wrote)
        /\ ~update'.wrote => ~update.wrote /\ UNCHANGED files
    BY <1>0, PlacesMoves DEF PlacePython, Elsewhere, Steps
  <2> QED
    BY <1>0, <2>1, BesideBinaries
<1>5. Mounted' /\ Findable'
  <2> DEFINE v == Pins[head].python
  <2>1. /\ v \in Versions /\ Pins[head].build # Nothing
        /\ update # Nothing /\ update.release = head /\ update.step \in {"staged", "python"}
        /\ update' # Nothing /\ UNCHANGED <<head, daemon, broken, manifest, environments>>
        /\ \A w \in Versions \ {v} : python'[w] = python[w]
        /\ python'[v] # Nothing \/ update'.step = "python"
    BY <1>0, PinsType, PlacesMoves DEF PlacePython, Elsewhere, TypeOK, Steps, Target
  <2>2. ASSUME NEW g \in Generations, Present(g)
        PROVE  Present(g)'
    <3> DEFINE e == environments[g]
    <3>1. e \in Environment /\ (python[e.python] # Nothing \/ v = e.python)
      <4>1. e \in {Nothing} \cup Environment
        BY <1>0 DEF TypeOK
      <4> QED
        BY <2>1, <2>2, <4>1 DEF Present, At
    <3>2. e.python \in Versions
      BY <3>1 DEF Environment
    <3> HIDE DEF e, v
    <3>3. python'[e.python] # Nothing \/ (At({"python"})' /\ v = e.python)
      BY <2>1, <3>1, <3>2 DEF At
    <3> QED
      BY <2>1, <3>1, <3>3, NothingAssumption DEF Present, e, v
  <2> HIDE DEF v
  <2>3. broken \subseteq broken'
    BY <2>1
  <2> QED
    BY <2>1, <2>2, <2>3, FoundStays
<1>6. Answered'
  <2>1. UNCHANGED <<daemon, switch>>
    BY DEF PlacePython, Elsewhere
  <2> QED
    BY <2>1, SwitchStays
<1> QED
  BY <1>1, <1>2, <1>3, <1>4, <1>5, <1>6 DEF Inv

LEMMA VerifyPythonKeeps ==
  ASSUME Inv, update # Nothing, VerifyPython
  PROVE  Inv'
<1>0. /\ VerifyPython /\ TypeOK /\ Target /\ Progress /\ Binaries /\ Mounted /\ Findable /\ Answered
      /\ head \in Releases /\ update \in {Nothing} \cup Updating
  BY DEF Inv, TypeOK
<1>1. TypeOK'
  BY <1>0 DEF VerifyPython, Step, Elsewhere, TypeOK, Updating, Steps, files, switch
<1>2. Target'
  <2>1. /\ update' # Nothing /\ update'.step \in Between /\ update'.release = update.release
        /\ head' = head
    BY <1>0, StepMoves DEF VerifyPython, Elsewhere, Steps, Between
  <2> QED
    BY <2>1, TargetWaits DEF At
<1>3. Progress'
  <2>1. /\ update # Nothing /\ update' # Nothing /\ update'.step = "verified"
        /\ update'.wrote = update.wrote /\ update.step \in Between
        /\ update.step \in {"placed", "verified"} /\ UNCHANGED <<head, python>>
    BY <1>0, StepMoves DEF VerifyPython, Elsewhere, Steps, Between, files
  <2> QED
    BY <1>0, <2>1 DEF Progress, At, Described
<1>4. Binaries'
  <2>1. /\ update' # Nothing /\ update'.from = update.from /\ update # Nothing
        /\ update.step \notin {"moving", "copying"} /\ update'.step \notin {"moving", "copying"}
        /\ UNCHANGED <<binary, previous>> /\ (broken' = broken \/ update'.wrote)
        /\ ~update'.wrote => ~update.wrote /\ UNCHANGED files
    BY <1>0, StepMoves DEF VerifyPython, Elsewhere, Steps, files
  <2> QED
    BY <1>0, <2>1, BesideBinaries
<1>5. Mounted' /\ Findable'
  <2>1. /\ ~At({"python", "environment"}) /\ UNCHANGED <<python, environments, head>>
        /\ UNCHANGED <<daemon, broken, manifest>>
    BY <1>0 DEF VerifyPython, Step, Elsewhere, files, At
  <2>2. broken \subseteq broken'
    BY <2>1
  <2> QED
    BY <2>1, <2>2, PresentStays, FoundStays
<1>6. Answered'
  <2>1. UNCHANGED <<daemon, switch>>
    BY DEF VerifyPython, Elsewhere
  <2> QED
    BY <2>1, SwitchStays
<1> QED
  BY <1>1, <1>2, <1>3, <1>4, <1>5, <1>6 DEF Inv

LEMMA MakeEnvironmentKeeps ==
  ASSUME Inv, update # Nothing, MakeEnvironment
  PROVE  Inv'
<1>0. /\ MakeEnvironment /\ TypeOK /\ Target /\ Progress /\ Binaries /\ Mounted /\ Findable /\ Answered
      /\ head \in Releases /\ update \in {Nothing} \cup Updating
  BY DEF Inv, TypeOK
<1>1. TypeOK'
  BY <1>0 DEF MakeEnvironment, Step, Elsewhere, TypeOK, Updating, Steps, files, switch
<1>2. Target'
  <2>1. /\ update' # Nothing /\ update'.step \in Between /\ update'.release = update.release
        /\ head' = head
    BY <1>0, StepMoves DEF MakeEnvironment, Elsewhere, Steps, Between
  <2> QED
    BY <2>1, TargetWaits DEF At
<1>3. Progress'
  <2>1. /\ update # Nothing /\ update' # Nothing /\ update'.step = "probed"
        /\ update'.wrote = update.wrote /\ update.step \in Between
        /\ update.step \in {"placed", "verified"} /\ UNCHANGED <<head, python>>
    BY <1>0, StepMoves DEF MakeEnvironment, Elsewhere, Steps, Between, files
  <2> QED
    BY <1>0, <2>1 DEF Progress, At, Described
<1>4. Binaries'
  <2>1. /\ update' # Nothing /\ update'.from = update.from /\ update # Nothing
        /\ update.step \notin {"moving", "copying"} /\ update'.step \notin {"moving", "copying"}
        /\ UNCHANGED <<binary, previous>> /\ (broken' = broken \/ update'.wrote)
        /\ ~update'.wrote => ~update.wrote /\ UNCHANGED files
    BY <1>0, StepMoves DEF MakeEnvironment, Elsewhere, Steps, files
  <2> QED
    BY <1>0, <2>1, BesideBinaries
<1>5. Mounted' /\ Findable'
  <2>1. /\ ~At({"python", "environment"}) /\ UNCHANGED <<python, environments, head>>
        /\ UNCHANGED <<daemon, broken, manifest>>
    BY <1>0 DEF MakeEnvironment, Step, Elsewhere, files, At
  <2>2. broken \subseteq broken'
    BY <2>1
  <2> QED
    BY <2>1, <2>2, PresentStays, FoundStays
<1>6. Answered'
  <2>1. UNCHANGED <<daemon, switch>>
    BY DEF MakeEnvironment, Elsewhere
  <2> QED
    BY <2>1, SwitchStays
<1> QED
  BY <1>1, <1>2, <1>3, <1>4, <1>5, <1>6 DEF Inv

LEMMA PlaceEnvironmentKeeps ==
  ASSUME Inv, update # Nothing, PlaceEnvironment
  PROVE  Inv'
<1>0. /\ PlaceEnvironment /\ TypeOK /\ Target /\ Progress /\ Binaries /\ Mounted /\ Findable /\ Answered
      /\ head \in Releases /\ update \in {Nothing} \cup Updating
  BY DEF Inv, TypeOK
<1>1. TypeOK'
  BY <1>0, PinsType
     DEF PlaceEnvironment, Step, Elsewhere, TypeOK, Updating, Steps, switch
<1>2. Target'
  <2>1. /\ update' # Nothing /\ update'.step \in Between /\ update'.release = update.release
        /\ head' = head
    BY <1>0, StepMoves DEF PlaceEnvironment, Elsewhere, Steps, Between
  <2> QED
    BY <2>1, TargetWaits DEF At
<1>3. Progress'
  <2>1. /\ update # Nothing /\ update' # Nothing /\ update'.wrote = update.wrote
        /\ update.step \in {"probed", "environment"} /\ update'.step \in {"environment", "bootstrap"}
        /\ UNCHANGED <<head, python>> /\ update.release = head
    BY <1>0, StepMoves DEF PlaceEnvironment, Elsewhere, Steps, Target
  <2>2. update'.step = "bootstrap" => environments'[Pins[head].generation] = Made(head)
    BY <1>0, <2>1, PinsType, StepMoves DEF PlaceEnvironment, TypeOK, Steps
  <2>3. update.wrote /\ python[Pins[head].python] = Pins[head].build
    BY <1>0, <2>1 DEF Progress, At, Between
  <2> QED
    BY <2>1, <2>2, <2>3 DEF Progress, At, Described, Made
<1>4. Binaries'
  <2>1. /\ update' # Nothing /\ update'.from = update.from /\ update # Nothing
        /\ update.step \in {"probed", "environment"}
        /\ update'.step \in {"environment", "bootstrap"}
        /\ UNCHANGED <<binary, previous, broken>> /\ update'.wrote = update.wrote
    BY <1>0, StepMoves DEF PlaceEnvironment, Elsewhere, Steps
  <2>2. update.wrote
    BY <1>0, <2>1 DEF Progress, At, Between
  <2> QED
    BY <1>0, <2>1, <2>2, BesideBinaries
<1>5. Mounted' /\ Findable'
  <2> DEFINE g == Pins[head].generation
  <2>1. /\ g \in Generations /\ Made(head) # Nothing /\ Made(head).python = Pins[head].python
        /\ update # Nothing /\ update.release = head /\ update.step \in {"probed", "environment"}
        /\ update' # Nothing /\ UNCHANGED <<head, daemon, broken, manifest, python>>
        /\ \A h \in Generations \ {g} : environments'[h] = environments[h]
        /\ \/ environments'[g] = Nothing /\ update'.step = "environment"
           \/ environments'[g] = Made(head)
    BY <1>0, PinsType, StepMoves DEF PlaceEnvironment, Elsewhere, TypeOK, Steps, Target, Made
  <2>2. python[Pins[head].python] # Nothing
    BY <1>0, <2>1, PinsType DEF Progress, At
  <2>3. ASSUME NEW h \in Generations, Present(h)
        PROVE  Present(h)'
    <3> HIDE DEF g
    <3>1. CASE h # g
      <4>1. /\ environments'[h] = environments[h] /\ environments[h] # Nothing
            /\ python[environments[h].python] # Nothing
        BY <2>1, <2>3, <3>1 DEF Present, At, g
      <4> QED
        BY <2>1, <4>1 DEF Present
    <3>2. CASE h = g
      BY <2>1, <2>2, <3>2 DEF Present, At, g
    <3> QED
      BY <3>1, <3>2
  <2>4. broken \subseteq broken'
    BY <2>1
  <2> HIDE DEF g
  <2> QED
    BY <2>1, <2>3, <2>4, FoundStays
<1>6. Answered'
  <2>1. UNCHANGED <<daemon, switch>>
    BY DEF PlaceEnvironment, Elsewhere
  <2> QED
    BY <2>1, SwitchStays
<1> QED
  BY <1>1, <1>2, <1>3, <1>4, <1>5, <1>6 DEF Inv

LEMMA WriteBootstrapKeeps ==
  ASSUME Inv, update # Nothing, WriteBootstrap
  PROVE  Inv'
<1>0. /\ WriteBootstrap /\ TypeOK /\ Target /\ Progress /\ Binaries /\ Mounted /\ Findable /\ Answered
      /\ head \in Releases /\ update \in {Nothing} \cup Updating
  BY DEF Inv, TypeOK
<1>1. TypeOK'
  <2>1. /\ bootstrap' \in {Nothing} \cup Binary /\ update' \in {Nothing} \cup Updating
    BY <1>0, BinaryType DEF WriteBootstrap, Step, TypeOK, Updating, Steps, Binary
  <2> QED
    BY <1>0, <2>1 DEF WriteBootstrap, Elsewhere, switch, TypeOK
<1>a. /\ update' # Nothing /\ update'.step \in {"bootstrap", "described"}
      /\ update'.release = update.release /\ update'.from = update.from
      /\ update'.wrote = update.wrote /\ update.step = "bootstrap"
      /\ UNCHANGED <<head, python, environments, manifest, broken, daemon, binary, previous>>
  BY <1>0, StepMoves DEF WriteBootstrap, Elsewhere, Steps
<1>2. Target'
  BY <1>a, TargetWaits DEF At, Between
<1>3. Progress'
  <2>1. update'.step = "described" => bootstrap' = [release |-> head, whole |-> TRUE]
    <3>1. CASE /\ bootstrap = [release |-> update.release, whole |-> FALSE]
               /\ bootstrap' = [bootstrap EXCEPT !.whole = TRUE]
      BY <1>0, <3>1 DEF Target
    <3> QED
      BY <1>a, <3>1 DEF WriteBootstrap
  <2>2. /\ update.wrote /\ python[Pins[head].python] = Pins[head].build
        /\ environments[Pins[head].generation] = Made(head)
    BY <1>0, <1>a DEF Progress, At, Between
  <2> QED
    BY <1>a, <2>1, <2>2 DEF Progress, At, Described, Made
<1>4. Binaries'
  <2>1. update.wrote
    BY <1>0, <1>a DEF Progress, At, Between
  <2> QED
    BY <1>0, <1>a, <2>1, BesideBinaries
<1>5. Mounted' /\ Findable'
  <2>1. ~At({"python", "environment"}) /\ broken \subseteq broken'
    BY <1>a DEF At
  <2> QED
    BY <1>a, <2>1, PresentStays, FoundStays
<1>6. Answered'
  <2>1. UNCHANGED <<daemon, switch>>
    BY DEF WriteBootstrap, Elsewhere
  <2> QED
    BY <2>1, SwitchStays
<1> QED
  BY <1>1, <1>2, <1>3, <1>4, <1>5, <1>6 DEF Inv

LEMMA WriteManifestLastKeeps ==
  ASSUME Inv, update # Nothing, WriteManifestLast
  PROVE  Inv'
<1>0. /\ WriteManifestLast /\ TypeOK /\ Target /\ Progress /\ Binaries /\ Mounted /\ Findable /\ Answered
      /\ head \in Releases /\ update \in {Nothing} \cup Updating
  BY DEF Inv, TypeOK
<1>a. /\ update # Nothing /\ update.step = "described" /\ update.release = head /\ update.wrote
      /\ update' # Nothing /\ update'.release = head /\ update'.from = update.from
      /\ update'.wrote /\ update'.step \in {"described", "ready"} /\ update' \in Updating
      /\ UNCHANGED <<head, python, environments, bootstrap, binary, previous, daemon, lost, switch>>
      /\ \/ update'.step = "described" /\ manifest' = Nothing /\ broken' = broken
         \/ /\ update'.step = "ready" /\ manifest' = Pins[head]
            /\ broken' = broken \ {"payload"}
  <2>1. update.step = "described" /\ update.release = head
    BY <1>0 DEF WriteManifestLast, Step, Target
  <2>2. update.wrote
    BY <1>0, <2>1 DEF Progress, At, Between
  <2> QED
    BY <1>0, <2>1, <2>2, StepMoves DEF WriteManifestLast, Steps
<1>b. /\ python[Pins[head].python] = Pins[head].build
      /\ environments[Pins[head].generation] = Made(head)
      /\ bootstrap = [release |-> head, whole |-> TRUE] /\ bootstrap # Nothing
      /\ Pins[head].build # Nothing /\ Made(head) # Nothing /\ Pins[head] # Nothing
      /\ Made(head).python = Pins[head].python
  BY <1>0, <1>a, PinsType, BinaryType DEF Progress, At, Made
<1>1. TypeOK'
  BY <1>0, <1>a DEF TypeOK, switch
<1>2. Target'
  <2>1. ASSUME NEW r \in Releases, Pins[head] = Pins[r]
        PROVE  Own(r)'
    BY <1>a, <1>b, <2>1 DEF Own, Whole, Made
  <2>2. CASE update'.step = "described"
    BY <1>a, <2>2, TargetWaits DEF At, Between
  <2>3. CASE update'.step = "ready"
    BY <1>a, <2>1, <2>3 DEF Target
  <2> QED
    BY <1>a, <2>2, <2>3
<1>3. Progress'
  <2>1. CASE update'.step = "described"
    BY <1>a, <1>b, <2>1 DEF Progress, At, Described, Made
  <2>2. CASE update'.step = "ready"
    <3>1. Opens(head)'
      BY <1>a, <1>b, <2>2 DEF Opens
    <3> QED
      BY <1>a, <2>2, <3>1 DEF Progress, At, Between
  <2> QED
    BY <1>a, <2>1, <2>2
<1>4. Binaries'
  BY <1>0, <1>a, BesideBinaries
<1>5. Mounted' /\ Findable'
  <2>1. ~At({"python", "environment"})
    BY <1>a DEF At
  <2>2. \A g : Present(g) => Present(g)'
    BY <1>a, <2>1, PresentStays
  <2>3. Mounted'
    BY <1>0, <1>a, <2>2 DEF Mounted
  <2>4. Present(Pins[head].generation)'
    BY <1>a, <1>b DEF Present
  <2>5. Findable'
    <3>1. CASE manifest' = Nothing
      BY <3>1, PinsType DEF Findable
    <3>2. CASE manifest' = Pins[head]
      <4>1. ASSUME NEW r \in Releases, manifest' = Pins[r]
            PROVE  Present(Pins[r].generation)'
        BY <1>a, <2>4, <3>2, <4>1
      <4> QED
        BY <4>1 DEF Findable
    <3> QED
      BY <1>a, <3>1, <3>2
  <2> QED
    BY <2>3, <2>5
<1>6. Answered'
  BY <1>a, SwitchStays
<1> QED
  BY <1>1, <1>2, <1>3, <1>4, <1>5, <1>6 DEF Inv

LEMMA InstallBinariesKeeps ==
  ASSUME Inv, update # Nothing, InstallBinaries
  PROVE  Inv'
<1>0. /\ InstallBinaries /\ TypeOK /\ Target /\ Progress /\ Binaries /\ Mounted /\ Findable /\ Answered
      /\ head \in Releases /\ update \in {Nothing} \cup Updating
  BY DEF Inv, TypeOK
<1>1. TypeOK'
  <2>1. /\ binary' \in {Nothing} \cup Binary /\ previous' \in {Nothing} \cup Binary
        /\ update' \in {Nothing} \cup Updating
    BY <1>0, BinaryType DEF InstallBinaries, Step, TypeOK, Updating, Steps, Binary
  <2> QED
    BY <1>0, <2>1 DEF InstallBinaries, Elsewhere, files, switch, TypeOK
<1>a. /\ update # Nothing /\ update' # Nothing /\ update'.from = update.from
      /\ update.release = head /\ update'.release = head /\ UNCHANGED <<head, lost, broken, files>>
      /\ update'.step \in {"asides", "moving", "copying"} /\ update'.wrote = update.wrote
      /\ update.step \in {"ready", "asides", "moving"}
  BY <1>0, StepMoves DEF InstallBinaries, Elsewhere, Steps, Target
<1>2. Target'
  BY <1>a, TargetStays DEF At, Between
<1>3. Progress'
  <2>1. Opens(head)'
    BY <1>0, <1>a DEF Progress, At, Described, Opens, files
  <2> QED
    BY <1>a, <2>1 DEF Progress, At, Between
<1>4. Binaries'
  <2>1. \/ /\ update.step = "ready" /\ update'.step = "asides" /\ binary' = binary
        \/ /\ update.step = "asides" /\ update'.step = "moving"
           /\ previous' = binary /\ binary' = Nothing
        \/ /\ update.step = "ready" /\ update'.step = "moving" /\ binary = Nothing /\ binary' = Nothing
        \/ /\ update.step = "moving" /\ update'.step = "copying"
           /\ binary' = [release |-> head, whole |-> FALSE] /\ previous' = previous
    BY <1>0, <1>a, StepMoves DEF InstallBinaries, Steps
  <2>2. update.from = "binary" =>
          IF update.step = "moving" THEN Whole(previous) ELSE Whole(binary)
    BY <1>0, <1>a DEF Binaries
  <2>3. update'.from = "binary" =>
          IF update'.step \in {"moving", "copying"} THEN Whole(previous') ELSE Whole(binary')
    BY <1>a, <2>1, <2>2 DEF Whole
  <2>4. update'.step = "copying" => binary' = [release |-> head, whole |-> FALSE]
    BY <2>1
  <2>5. ~update'.wrote => (Whole(binary') /\ "binary" \notin broken => Opens(binary.release)')
    <3>1. CASE binary' = binary
      BY <1>0, <1>a, <3>1, FilesStay DEF Binaries, Whole, Opens, files
    <3>2. CASE ~Whole(binary')
      BY <3>2
    <3> QED
      BY <2>1, <3>1, <3>2, BinaryType DEF Whole
  <2> QED
    BY <1>a, <2>3, <2>4, <2>5 DEF Binaries, Whole, At
<1>5. Mounted' /\ Findable'
  <2>1. /\ ~At({"python", "environment"}) /\ UNCHANGED <<python, environments, head>>
        /\ UNCHANGED <<daemon, broken, manifest>>
    BY <1>0, <1>a DEF InstallBinaries, Step, Elsewhere, files, At
  <2>2. broken \subseteq broken'
    BY <2>1
  <2> QED
    BY <2>1, <2>2, PresentStays, FoundStays
<1>6. Answered'
  <2>1. UNCHANGED <<daemon, switch>>
    BY DEF InstallBinaries, Elsewhere
  <2> QED
    BY <2>1, SwitchStays
<1> QED
  BY <1>1, <1>2, <1>3, <1>4, <1>5, <1>6 DEF Inv

LEMMA InstalledKeeps ==
  ASSUME Inv, update # Nothing, Installed
  PROVE  Inv'
<1>0. /\ Installed /\ TypeOK /\ Target /\ Progress /\ Binaries /\ Mounted /\ Findable /\ Answered
      /\ head \in Releases /\ update \in {Nothing} \cup Updating
  BY DEF Inv, TypeOK
<1>a. /\ binary = [release |-> head, whole |-> FALSE] /\ Opens(head)
      /\ binary' = [release |-> head, whole |-> TRUE] /\ update' = Nothing
      /\ broken' = broken \ {"binary"} /\ ~At(Between) /\ ~At({"python", "environment"})
      /\ UNCHANGED <<files, head, previous, lost, daemon, switch>>
  <2>1. update.step = "copying" /\ UNCHANGED <<files, head, previous, lost, daemon, switch>>
        /\ update' = Nothing /\ broken' = broken \ {"binary"}
        /\ binary' = [binary EXCEPT !.whole = TRUE]
    BY <1>0 DEF Installed
  <2>2. binary = [release |-> head, whole |-> FALSE] /\ Opens(head)
    BY <1>0, <2>1 DEF Binaries, Progress, At, Described
  <2>3. ~At(Between) /\ ~At({"python", "environment"})
    BY <2>1 DEF At, Between
  <2>4. binary' = [release |-> head, whole |-> TRUE]
    BY <2>1, <2>2
  <2> QED
    BY <2>1, <2>2, <2>3, <2>4
<1>1. TypeOK'
  <2>1. binary' \in {Nothing} \cup Binary
    BY <1>0, <1>a, BinaryType
  <2> QED
    BY <1>0, <1>a, <2>1 DEF files, switch, TypeOK
<1>2. Target'
  BY <1>0, <1>a, FilesStay DEF Target, files, Own, Whole
<1>3. Progress'
  BY <1>a DEF Progress, At
<1>4. Binaries'
  <2>1. Whole(binary') /\ binary'.release = head
    BY <1>0, <1>a, BinaryType DEF Whole
  <2>2. Opens(binary.release)'
    BY <1>a, <2>1 DEF Opens, files
  <2> QED
    BY <1>a, <2>1, <2>2 DEF Binaries, Whole, At
<1>5. Mounted' /\ Findable'
  <2>1. \A g : Present(g) => Present(g)'
    BY <1>a, PresentStays DEF files
  <2>2. Mounted'
    BY <1>0, <1>a, <2>1 DEF Mounted
  <2>3. Findable'
    BY <1>0, <1>a, <2>1 DEF Findable, files
  <2> QED
    BY <2>2, <2>3
<1>6. Answered'
  BY <1>a, SwitchStays
<1> QED
  BY <1>1, <1>2, <1>3, <1>4, <1>5, <1>6 DEF Inv

LEMMA BreakOffKeeps ==
  ASSUME Inv, update # Nothing, BreakOff
  PROVE  Inv'
<1>0. /\ BreakOff /\ TypeOK /\ Target /\ Progress /\ Binaries /\ Mounted /\ Findable /\ Answered
      /\ head \in Releases /\ update \in {Nothing} \cup Updating
  BY DEF Inv, TypeOK
<1>a. /\ update' = Nothing /\ UNCHANGED <<files, head, binary, previous, daemon, switch>>
      /\ broken \subseteq broken' /\ broken' \subseteq broken \cup {"binary", "payload", "daemon"}
      /\ update.wrote => "binary" \in broken'
      /\ update.step \in Between => "payload" \in broken'
      /\ update.step \in {"python", "environment"} => "daemon" \in broken'
      /\ "binary" \in broken' => "binary" \in broken \/ update.wrote
  BY <1>0 DEF BreakOff
<1>1. TypeOK'
  <2>1. lost' \in BOOLEAN /\ broken' \subseteq {"binary", "payload", "daemon"}
    BY <1>0, <1>a DEF BreakOff, TypeOK
  <2> QED
    BY <1>0, <1>a, <2>1 DEF TypeOK, files, switch
<1>2. Target'
  <2>1. "payload" \notin broken' => "payload" \notin broken /\ ~At(Between)
    BY <1>a DEF At
  <2> QED
    BY <1>0, <1>a, <2>1, FilesStay DEF Target, files, Own, Whole
<1>3. Progress'
  BY <1>a DEF Progress, At
<1>4. Binaries'
  <2>1. Whole(binary) /\ "binary" \notin broken' => Opens(binary.release)'
    <3>1. Whole(binary) /\ "binary" \notin broken' => Opens(binary.release)
      BY <1>0, <1>a DEF Binaries
    <3> QED
      BY <1>a, <3>1 DEF Opens, files
  <2>2. Whole(binary) \/ Whole(previous) \/ lost'
    <3>1. update.from = "previous" => lost'
      BY DEF BreakOff
    <3>2. update.from \in {"binary", "previous"}
      BY <1>0 DEF Updating
    <3> QED
      BY <1>0, <3>1, <3>2 DEF Binaries
  <2> QED
    BY <1>a, <2>1, <2>2 DEF Binaries, Whole, At
<1>5. Mounted' /\ Findable'
  <2>1. CASE At({"python", "environment"})
    <3>1. "payload" \in broken' /\ "daemon" \in broken'
      BY <1>a, <2>1 DEF At, Between
    <3> QED
      BY <3>1 DEF Mounted, Findable
  <2>2. CASE ~At({"python", "environment"})
    BY <1>a, <2>2, PresentStays, FoundStays DEF files
  <2> QED
    BY <2>1, <2>2
<1>6. Answered'
  BY <1>a, SwitchStays
<1> QED
  BY <1>1, <1>2, <1>3, <1>4, <1>5, <1>6 DEF Inv

LEMMA RestoreKeeps ==
  ASSUME Inv, Restore
  PROVE  Inv'
<1>0. /\ Restore /\ TypeOK /\ Target /\ Progress /\ Binaries /\ Mounted /\ Findable /\ Answered
      /\ head \in Releases /\ update \in {Nothing} \cup Updating
  BY DEF Inv, TypeOK
<1>a. /\ UNCHANGED <<files, head, update, lost, daemon, switch>> /\ update = Nothing
      /\ Whole(previous) /\ binary' = previous /\ previous' = Nothing
      /\ broken' = broken \cup {"binary"}
  BY DEF Restore
<1>1. TypeOK'
  BY <1>0, <1>a DEF TypeOK, files, switch
<1>2. Target'
  BY <1>0, <1>a, FilesStay DEF Target, files, Own, At, Whole
<1>3. Progress'
  BY <1>a DEF Progress, At
<1>4. Binaries'
  BY <1>a DEF Binaries, At, Whole
<1>5. Mounted' /\ Findable'
  BY <1>a, PresentStays, FoundStays DEF files, At
<1>6. Answered'
  BY <1>a, SwitchStays
<1> QED
  BY <1>1, <1>2, <1>3, <1>4, <1>5, <1>6 DEF Inv

LEMMA PullKeeps ==
  ASSUME NEW from \in {"binary", "previous"}, Inv, Pull(from)
  PROVE  Inv'
<1>0. /\ Pull(from) /\ TypeOK /\ Target /\ Progress /\ Binaries /\ Mounted /\ Findable /\ Answered
      /\ head \in Releases /\ update \in {Nothing} \cup Updating
  BY DEF Inv, TypeOK
<1>a. PICK r \in Releases :
        update' = [step |-> "built", release |-> r, from |-> from, wrote |-> FALSE] /\ head' = r
  BY DEF Pull
<1>b. /\ update = Nothing /\ UNCHANGED <<files, binary, previous, broken, lost, daemon, switch>>
      /\ from = "binary" => Whole(binary)
  BY DEF Pull
<1>c. /\ update' \in Updating /\ update' # Nothing /\ update'.step = "built"
      /\ update'.release = head' /\ update'.from = from /\ ~update'.wrote
  <2>1. update' \in Updating
    BY <1>a DEF Updating, Steps
  <2> QED
    BY <1>a, <2>1, NothingAssumption
<1>1. TypeOK'
  BY <1>0, <1>a, <1>b, <1>c DEF TypeOK, files, switch
<1>2. Target'
  BY <1>b, <1>c, TargetStays DEF At
<1>3. Progress'
  BY <1>c DEF Progress, At, Between, Described
<1>4. Binaries'
  <2>1. Whole(binary) /\ "binary" \notin broken => Opens(binary.release)'
    <3>1. Whole(binary) /\ "binary" \notin broken => Opens(binary.release)
      BY <1>0, <1>b DEF Binaries
    <3> QED
      BY <1>b, <3>1 DEF Opens, files
  <2> QED
    BY <1>b, <1>c, <2>1 DEF Binaries, Whole, At
<1>5. Mounted' /\ Findable'
  <2>1. \A g \in Generations : Present(g) => Present(g)'
    BY <1>b DEF Present, At, files
  <2> QED
    BY <1>b, <2>1, FoundStays DEF files
<1>6. Answered'
  BY <1>b, SwitchStays
<1> QED
  BY <1>1, <1>2, <1>3, <1>4, <1>5, <1>6 DEF Inv

---------------------------------------------------------------------------
(* The daemon and its switch.                                              *)
LEMMA StartKeeps ==
  ASSUME Inv, StartDaemon
  PROVE  Inv'
<1>0. TypeOK /\ Target /\ Progress /\ Binaries /\ Mounted /\ Findable /\ Answered
  BY DEF Inv
<1>1. /\ UNCHANGED <<files, binary, previous, head, update, lost, setting, put>> /\ apart' = {}
      /\ broken' = IF Unix \/ "payload" \notin broken THEN broken \ {"daemon"} ELSE broken
      /\ daemon = Nothing /\ Whole(binary)
  BY DEF StartDaemon
<1>2. binary \in Binary /\ binary.release \in Releases /\ setting \in BOOLEAN
  BY <1>0, <1>1 DEF TypeOK, Whole, Binary
<1> DEFINE r == binary.release
           g == Pins[r].generation
           found == IF Opens(r) THEN g ELSE Nothing
<1>3. daemon' = [release |-> r, told |-> setting, mounts |-> found]
  BY DEF StartDaemon
<1>4. found \in {Nothing} \cup Generations
  BY <1>2, PinsType
<1>5. "daemon" \notin broken' /\ found # Nothing => Present(found)
  <2>1. Opens(r) /\ Unix => Present(g)
    BY <1>2, PinsType DEF Opens, Present
  <2>2. Opens(r) /\ ~Unix /\ "daemon" \notin broken' => Present(g)
    BY <1>0, <1>1, <1>2 DEF Opens, Findable
  <2> QED
    BY <2>1, <2>2
<1>6. \A h : Present(h)' <=> Present(h)
  BY <1>1 DEF Present, At, files
<1> HIDE DEF found
<1>7. daemon' \in Running
  BY <1>2, <1>3, <1>4 DEF Running
<1>8. TypeOK'
  BY <1>0, <1>1, <1>7 DEF TypeOK, files
<1>9. Target'
  BY <1>0, <1>1 DEF Target, Own, Whole, At, files
<1>10. Progress'
  BY <1>0, <1>1 DEF Progress, Opens, At, files
<1>11. Binaries'
  BY <1>0, <1>1 DEF Binaries, At, Whole, Opens, files
<1>12. Mounted'
  BY <1>3, <1>5, <1>6 DEF Mounted
<1>13. Findable'
  <2>1. "payload" \notin broken' => "payload" \notin broken
    BY <1>1
  <2>2. ~Unix /\ "daemon" \notin broken' => "payload" \notin broken \/ "daemon" \notin broken
    BY <1>1
  <2> QED
    BY <1>0, <1>1, <1>6, <2>1, <2>2 DEF Findable, files
<1>14. Answered'
  BY <1>0, <1>1, <1>3 DEF Answered, SettingIsTold
<1> QED
  BY <1>8, <1>9, <1>10, <1>11, <1>12, <1>13, <1>14 DEF Inv

(* What the switch does leaves the payload alone.                          *)
LEMMA PayloadStays ==
  ASSUME Inv, UNCHANGED payload,
         daemon' = Nothing \/ (daemon # Nothing /\ daemon' # Nothing /\ daemon'.mounts = daemon.mounts)
  PROVE  Target' /\ Progress' /\ Binaries' /\ Mounted' /\ Findable'
<1>1. UNCHANGED <<python, environments, bootstrap, manifest, binary, previous, head, update,
                  broken, lost>>
  BY DEF payload, files
<1>2. Target' /\ Progress'
  BY <1>1 DEF Inv, Target, Progress, Own, Opens, Whole, At
<1>3. Binaries'
  BY <1>1 DEF Inv, Binaries, At, Whole, Opens
<1>4. \A g : Present(g)' <=> Present(g)
  BY <1>1 DEF Present, At
<1>5. Mounted' /\ Findable'
  BY <1>1, <1>4 DEF Inv, Mounted, Findable
<1> QED
  BY <1>2, <1>3, <1>5

LEMMA StopKeeps ==
  ASSUME Inv, StopDaemon
  PROVE  Inv'
<1>1. /\ UNCHANGED payload /\ daemon' = Nothing /\ UNCHANGED setting
      /\ put' = [q \in Requests |-> NoPut] /\ apart' = {}
  BY DEF StopDaemon
<1>2. Target' /\ Progress' /\ Binaries' /\ Mounted' /\ Findable'
  BY <1>1, PayloadStays
<1>3. TypeOK'
  BY <1>1 DEF Inv, TypeOK, payload, files, Putting, NoPut
<1>4. Answered'
  BY <1>1 DEF Answered, SettingIsTold, NoPut
<1> QED
  BY <1>2, <1>3, <1>4 DEF Inv

LEMMA NoPutType == NoPut \in Putting /\ NoPut.step = "none"
BY DEF NoPut, Putting

(* A request that goes on alone, the switch and the answer as they are.    *)
LEMMA RequestMoves ==
  ASSUME Inv, NEW q \in Requests, NEW p \in Putting, put' = [put EXCEPT ![q] = p],
         UNCHANGED <<payload, daemon, setting>>, daemon # Nothing,
         p.step = "keep" /\ ~p.late => p.value = setting,
         apart' \in {apart, apart \cup {"unheard"}},
         put[q].step \in {"read", "keep"} => p.step = "keep" \/ "unheard" \in apart'
  PROVE  Inv'
<1>1. Target' /\ Progress' /\ Binaries' /\ Mounted' /\ Findable'
  BY PayloadStays
<1>2. put \in [Requests -> Putting] /\ apart \subseteq {"unheard", "overtaken"} /\ Answered /\ TypeOK
  BY DEF Inv, TypeOK
<1>3. put' \in [Requests -> Putting] /\ apart' \subseteq {"unheard", "overtaken"}
  BY <1>2
<1>4. TypeOK'
  BY <1>2, <1>3 DEF TypeOK, payload, files
<1>5. put'[q] = p /\ \A o \in Requests \ {q} : put'[o] = put[o]
  BY <1>2
<1>6. SettingIsTold'
  <2> SUFFICES ASSUME daemon.told # setting, apart' = {}
               PROVE  \E o \in Requests : put'[o].step \in {"read", "keep"}
    BY DEF SettingIsTold
  <2>1. PICK o \in Requests : put[o].step \in {"read", "keep"}
    BY <1>2 DEF Answered, SettingIsTold
  <2>2. put'[o].step \in {"read", "keep"}
    BY <1>5, <2>1
  <2> QED
    BY <2>2
<1>7. Answered'
  <2>1. \A o \in Requests : put'[o].step = "keep" /\ ~put'[o].late => put'[o].value = setting
    BY <1>2, <1>5 DEF Answered
  <2> QED
    BY <1>6, <2>1 DEF Answered
<1> QED
  BY <1>1, <1>4, <1>7 DEF Inv

LEMMA PutKeeps ==
  ASSUME NEW q \in Requests, NEW want \in BOOLEAN, Inv, Put(q, want)
  PROVE  Inv'
<1> DEFINE p == [step |-> "write", value |-> want, heard |-> TRUE, late |-> FALSE]
<1>1. p \in Putting /\ p.step = "write"
  BY DEF Putting
<1>2. /\ put' = [put EXCEPT ![q] = p] /\ put[q].step = "none" /\ daemon # Nothing
      /\ UNCHANGED <<payload, daemon, setting, apart>>
  BY DEF Put
<1> HIDE DEF p
<1> QED
  BY <1>1, <1>2, RequestMoves

LEMMA RequestKeeps ==
  ASSUME NEW q \in Requests, Inv,
         \/ SetEnabled(q) \/ WriteFails(q) \/ ReadBack(q) \/ ReadFails(q) \/ Keep(q) \/ GiveUp(q)
  PROVE  Inv'
<1>0. /\ TypeOK /\ Answered /\ put \in [Requests -> Putting] /\ put[q] \in Putting
      /\ setting \in BOOLEAN /\ put[q].value \in BOOLEAN
      /\ put[q].step # "none" => daemon \in Running /\ daemon # Nothing
  BY DEF Inv, TypeOK, Answered, Putting
<1>1. CASE SetEnabled(q)
  <2>1. /\ UNCHANGED <<payload, daemon>> /\ setting' = put[q].value /\ daemon # Nothing
        /\ put[q].step = "write"
        /\ apart' = IF put[q].heard THEN apart ELSE apart \cup {"unheard"}
    BY <1>0, <1>1 DEF SetEnabled
  <2>2. Target' /\ Progress' /\ Binaries' /\ Mounted' /\ Findable'
    BY <2>1, PayloadStays
  <2>3. ASSUME NEW o \in Requests
        PROVE  /\ put'[o] \in Putting
               /\ o # q => put'[o].step = put[o].step /\ (put[o].step = "keep" => put'[o].late)
               /\ o = q => put'[o].step = IF put[q].heard THEN "read" ELSE "none"
    <3>1. CASE o # q
      BY <1>0, <1>1, <3>1 DEF SetEnabled, Putting
    <3>2. CASE o = q /\ put[q].heard
      BY <1>0, <1>1, <3>2 DEF SetEnabled, Putting
    <3>3. CASE o = q /\ ~put[q].heard
      BY <1>0, <1>1, <3>3, NoPutType DEF SetEnabled
    <3> QED
      BY <3>1, <3>2, <3>3
  <2>4. put' \in [Requests -> Putting]
    BY <1>1, <2>3 DEF SetEnabled
  <2>5. TypeOK'
    BY <1>0, <2>1, <2>4 DEF TypeOK, payload, files
  <2>6. Answered'
    <3>1. apart' # {} \/ put'[q].step = "read"
      BY <2>1, <2>3
    <3> QED
      BY <2>1, <2>3, <3>1 DEF Answered, SettingIsTold
  <2> QED
    BY <2>2, <2>5, <2>6 DEF Inv
<1>2. CASE WriteFails(q)
  BY <1>0, <1>2, NoPutType, RequestMoves DEF WriteFails, Ended
<1>3. CASE ReadBack(q)
  <2> DEFINE p == [put[q] EXCEPT !.step = "keep", !.value = setting]
  <2>1. p \in Putting /\ p.step = "keep" /\ p.value = setting
    BY <1>0 DEF Putting
  <2>2. put' = [put EXCEPT ![q] = p] /\ UNCHANGED <<payload, daemon, setting, apart>> /\ daemon # Nothing
    BY <1>0, <1>3 DEF ReadBack
  <2> HIDE DEF p
  <2> QED
    BY <2>1, <2>2, RequestMoves
<1>4. CASE ReadFails(q)
  BY <1>0, <1>4, NoPutType, RequestMoves DEF ReadFails, Ended
<1>5. CASE Keep(q)
  <2>1. /\ UNCHANGED <<payload, setting>> /\ put' = [put EXCEPT ![q] = NoPut]
        /\ put[q].step = "keep" /\ daemon' = [daemon EXCEPT !.told = put[q].value]
        /\ apart' = IF put[q].late THEN {"overtaken"} ELSE {}
    BY <1>5 DEF Keep, Ended
  <2>2. daemon' \in Running /\ daemon' # Nothing /\ daemon'.told = put[q].value
        /\ daemon # Nothing /\ daemon'.mounts = daemon.mounts
    BY <1>0, <2>1, NothingAssumption DEF Running
  <2>3. Target' /\ Progress' /\ Binaries' /\ Mounted' /\ Findable'
    BY <2>1, <2>2, PayloadStays
  <2>4. put' \in [Requests -> Putting]
        /\ \A o \in Requests : put'[o] = IF o = q THEN NoPut ELSE put[o]
    BY <1>0, <2>1, NoPutType
  <2>5. TypeOK'
    BY <1>0, <2>1, <2>2, <2>4 DEF TypeOK, payload, files
  <2>6. ~put[q].late => put[q].value = setting
    BY <1>0, <2>1 DEF Answered
  <2>7. Answered'
    <3>1. \A o \in Requests : put'[o].step = "keep" /\ ~put'[o].late => put'[o].value = setting
      BY <1>0, <2>4, NoPutType DEF Answered
    <3> QED
      BY <2>1, <2>2, <2>6, <3>1 DEF Answered, SettingIsTold
  <2> QED
    BY <2>3, <2>5, <2>7 DEF Inv
<1>6. CASE GiveUp(q)
  <2>1. CASE put[q].step = "write"
    <3> DEFINE p == [put[q] EXCEPT !.heard = FALSE]
    <3>1. p \in Putting /\ p.step = "write"
      BY <1>0, <2>1 DEF Putting
    <3>2. put' = [put EXCEPT ![q] = p] /\ UNCHANGED <<payload, daemon, setting, apart>> /\ daemon # Nothing
      BY <1>0, <1>6, <2>1 DEF GiveUp
    <3> HIDE DEF p
    <3> QED
      BY <2>1, <3>1, <3>2, RequestMoves
  <2>2. CASE put[q].step \in {"read", "keep"}
    BY <1>0, <1>6, <2>2, NoPutType, RequestMoves DEF GiveUp, Ended
  <2> QED
    BY <1>6, <2>1, <2>2 DEF GiveUp
<1> QED
  BY <1>1, <1>2, <1>3, <1>4, <1>5, <1>6
---------------------------------------------------------------------------
(* The invariant, and what follows from it.                                *)
LEMMA Initially == Init => Inv
<1> SUFFICES ASSUME Init PROVE Inv
  OBVIOUS
<1>1. 1 \in Releases
  BY ComputerUseAssumption
<1>2. put \in [Requests -> Putting] /\ \A q \in Requests : put[q].step = "none"
  BY NoPutType DEF Init
<1>3. /\ binary \in Binary /\ bootstrap \in Binary /\ Whole(binary) /\ binary.release = 1
      /\ Whole(bootstrap) /\ bootstrap.release = 1 /\ bootstrap # Nothing
  BY <1>1, BinaryType DEF Init, Whole
<1>4. /\ python \in [Versions -> {Nothing} \cup Builds]
      /\ environments \in [Generations -> {Nothing} \cup Environment]
      /\ python[Pins[1].python] = Pins[1].build /\ environments[Pins[1].generation] = Made(1)
      /\ Made(1) # Nothing /\ Pins[1].build # Nothing
  BY <1>1, PinsType DEF Init
<1>5. TypeOK
  <2>1. manifest \in {Nothing} \cup {Pins[r] : r \in Releases}
    BY <1>1 DEF Init
  <2> QED
    BY <1>1, <1>2, <1>3, <1>4, <2>1 DEF Init, TypeOK
<1>6. Target
  <2>1. ASSUME NEW r \in Releases, Pins[r] = Pins[1]
        PROVE  Own(r)
    <3>1. Made(r) = Made(1)
      BY <2>1 DEF Made
    <3> QED
      BY <1>3, <1>4, <2>1, <3>1 DEF Own
  <2> QED
    BY <2>1 DEF Init, Target
<1>7. Opens(1)
  BY <1>3, <1>4 DEF Init, Opens, Made
<1>8. Progress /\ Binaries /\ Mounted
  BY <1>3, <1>7 DEF Init, Progress, Binaries, Mounted, At
<1>9. Findable
  BY <1>4 DEF Init, Findable, Present, Made
<1>10. Answered
  BY <1>2 DEF Init, Answered, SettingIsTold
<1> QED
  BY <1>5, <1>6, <1>8, <1>9, <1>10 DEF Inv

LEMMA Inductive == Inv /\ [Next]_vars => Inv'
<1> SUFFICES ASSUME Inv, [Next]_vars PROVE Inv'
  OBVIOUS
<1>1. CASE Update
  BY <1>1, PullKeeps, AssembleKeeps, FetchKeeps, PlacePythonKeeps, VerifyPythonKeeps,
     MakeEnvironmentKeeps, PlaceEnvironmentKeeps, WriteBootstrapKeeps,
     WriteManifestLastKeeps, InstallBinariesKeeps, InstalledKeeps, BreakOffKeeps
     DEF Update, Assemble, Fetch, VerifyPython, MakeEnvironment, WriteBootstrap,
         WriteManifestLast, InstallBinaries, Installed, BreakOff, Step
<1>2. CASE Restore \/ StartDaemon \/ StopDaemon
  BY <1>2, RestoreKeeps, StartKeeps, StopKeeps
<1>3. CASE \E q \in Requests, want \in BOOLEAN : Put(q, want)
  BY <1>3, PutKeeps
<1>4. CASE \E q \in Requests : \/ SetEnabled(q) \/ WriteFails(q) \/ ReadBack(q) \/ ReadFails(q)
                               \/ Keep(q) \/ GiveUp(q)
  BY <1>4, RequestKeeps
<1>5. CASE UNCHANGED vars
  <2>1. UNCHANGED payload /\ UNCHANGED <<daemon, setting, put, apart>>
    BY <1>5 DEF vars, switch
  <2>2. Target' /\ Progress' /\ Binaries' /\ Mounted' /\ Findable'
    BY <2>1, PayloadStays
  <2> QED
    BY <2>1, <2>2 DEF Inv, TypeOK, Answered, SettingIsTold, payload, files
<1> QED
  BY <1>1, <1>2, <1>3, <1>4, <1>5 DEF Next

LEMMA Invariant == Spec => []Inv
BY Initially, Inductive, PTL DEF Spec

(* Every reachable state is well typed, whatever the releases need.        *)
THEOREM TypeCorrect == Spec => []TypeOK
<1>1. Inv => TypeOK
  BY DEF Inv
<1> QED
  BY <1>1, Invariant, PTL

(* vadgr update: the payload is ready before the binary moves.  A payload  *)
(* that opens is whole, the installed release opens one, and a daemon has  *)
(* the runtime it found, unless an update broke off after its first change *)
(* to the payload, on Unix and off it, and for any releases.               *)
THEOREM InstalledReleasesHaveTheirPayload == Spec => []PayloadsFollowBinaries
<1>1. Inv => PayloadsFollowBinaries
  BY DEF Inv, PayloadsFollowBinaries, Target, Binaries, Mounted, Present, Mountable, At, Opens
<1> QED
  BY <1>1, Invariant, PTL

(* install_binaries puts the binary that is there aside before it writes   *)
(* the new one: one of the two is whole wherever an update breaks off.     *)
THEOREM UpdatesCanBeRolledBack == Spec => []RollbackIsPossible
<1>1. Inv => RollbackIsPossible
  <2> SUFFICES ASSUME Inv PROVE RollbackIsPossible
    OBVIOUS
  <2>1. update # Nothing => update.from \in {"binary", "previous"}
    BY DEF Inv, TypeOK, Updating
  <2> QED
    BY <2>1 DEF Inv, Binaries, RollbackIsPossible
<1> QED
  BY <1>1, Invariant, PTL

(* put_computer_use reads the file back before it keeps the answer: what   *)
(* GET tells is the file's, or is about to be, unless a write was given    *)
(* up, its read-back failed, or its answer was kept after another write.   *)
THEOREM SettingsAreToldAsWritten == Spec => []SettingIsTold
<1>1. Inv => SettingIsTold
  BY DEF Inv, Answered
<1> QED
  BY <1>1, Invariant, PTL

---------------------------------------------------------------------------
(* A command line has a daemon from the spawn until it ends.               *)
Children == \A c \in Callers :
  child[c] # Absent <=> cli[c] \in {"spawned", "writing", "watching"}

StateInv == ServiceTypeOK /\ Children

(* What the one command line has told its daemon, and written.             *)
Told ==
  \A c \in Callers :
    /\ cli[c] \in {"spawned", "writing"} => target[c] = port[child[c]]
    /\ cli[c] \in {"writing", "watching"} => pidfile = child[c]

(* Where a live daemon is found: in the files, or by its command line, that *)
(* writes them next.  A command line that has seen none writes.            *)
Names ==
  \A d \in Daemons : Live(d) /\ Named(d) =>
    /\ pidfile = d \/ \E c \in Callers : cli[c] = "spawned"
    /\ portfile = port[d] \/ Writing(d) \/ <<d, "port">> \in abandoned
    /\ \A c \in Callers :
         /\ cli[c] \notin {"choosing", "removing"}
         /\ cli[c] = "spawned" => child[c] = d

NamesInv == StateInv /\ Told /\ Names
---------------------------------------------------------------------------
Bare(directory) == directory \in {Absent, EmptyDirectory}
Kept == IF origin.old.surviving # Absent THEN origin.old.surviving ELSE origin.old.departing
Merged == [rows |-> OldRows, good |-> Kept.good]

(* The state of the old releases and of the root: as found, opened where   *)
(* it was, or committed.                                                   *)
AsFound  == old = origin.old /\ (root = origin.root \/ (Bare(root) /\ Bare(origin.root)))
HadOne   == origin.root # Absent /\ origin.root.db # Absent
InPlace  ==
  /\ old = origin.old /\ root # Absent
  /\ root.db = IF HadOne THEN origin.root.db ELSE NewDatabase
Committed ==
  /\ Bare(origin.root) /\ Kept # Absent
  /\ root # Absent /\ root.db = Merged /\ root.runs = origin.old.journals
  /\ \A s \in Sources : old[s] \in {origin.old[s], Absent}

(* What a daemon on its way has made of it.                                *)
Migrating == {"staging", "copying", "contributing", "journalling", "clearing", "renaming"}

OnItsWay(d) ==
  /\ boot[d] \in Migrating =>
       /\ AsFound /\ ~HadOne /\ Kept # Absent
       /\ plan[d] = {s \in Sources : origin.old[s] # Absent}
  /\ boot[d] \in {"copying", "contributing", "journalling", "clearing", "renaming"} =>
       stage # Absent
  /\ boot[d] \in {"copying", "contributing", "journalling"} => stage.runs = Absent
  /\ boot[d] = "contributing" => stage.db = Kept
  /\ boot[d] \in {"journalling", "clearing", "renaming"} => stage.db = Merged
  /\ boot[d] \in {"clearing", "renaming"} => stage.runs = origin.old.journals
  /\ boot[d] = "renaming" => root = Absent
  /\ boot[d] \in {"verifying", "removing"} => Committed
  /\ boot[d] = "verifying" => old = origin.old

Kinds == (AsFound \/ InPlace \/ Committed) /\ RefusalsHaveAReason

DiskInv == Kinds /\ \A d \in Daemons : OnItsWay(d)

HistoryInv == (\A d \in Daemons : Named(d)) => DiskInv

(* Of the daemons that have not come up yet there is one.                  *)
OneAtTheDisk == \A d, e \in Daemons : boot[d] \in Booting /\ boot[e] \in Booting => d = e
---------------------------------------------------------------------------
(* What the directories and databases are made of.                         *)
LEMMA DirectoryTypes ==
  /\ NewDatabase \in Databases /\ NewDatabase # Absent
  /\ EmptyDirectory \in Directories /\ EmptyDirectory # Absent
  /\ \A db \in Databases : db # Absent /\ db.rows \subseteq Runs /\ db.good \in BOOLEAN
  /\ \A x \in Directories :
       /\ x # Absent
       /\ x.db \in {Absent} \cup Databases /\ x.runs \in {Absent} \cup SUBSET Runs
  /\ \A runs \in SUBSET Runs : runs # Absent
  /\ \A db \in {Absent} \cup Databases : Opened(db) \in Databases
  /\ \A x \in {Absent} \cup Directories : MadeIfAbsent(x) \in Directories
<1>1. NewDatabase \in Databases /\ EmptyDirectory \in Directories
  BY DEF NewDatabase, EmptyDirectory, Databases, Directories
<1>2. \A db \in Databases : db # Absent /\ db.rows \subseteq Runs /\ db.good \in BOOLEAN
  BY ConsolidationAssumption DEF Databases
<1>3. \A x \in Directories : x # Absent
  BY ConsolidationAssumption
<1>4. \A x \in Directories :
        x.db \in {Absent} \cup Databases /\ x.runs \in {Absent} \cup SUBSET Runs
  BY DEF Directories
<1>5. \A runs \in SUBSET Runs : runs # Absent
  BY ConsolidationAssumption
<1> QED
  BY <1>1, <1>2, <1>3, <1>4, <1>5 DEF Opened, MadeIfAbsent

LEMMA DatabaseUpdates ==
  ASSUME NEW x \in Directories, NEW db \in {Absent} \cup Databases
  PROVE  /\ [x EXCEPT !.db = db] \in Directories
         /\ [x EXCEPT !.db = db].db = db /\ [x EXCEPT !.db = db].runs = x.runs
         /\ [x EXCEPT !.db = db, !.other = "ours"] \in Directories
         /\ [x EXCEPT !.db = db, !.other = "ours"].db = db
         /\ [x EXCEPT !.db = db, !.other = "ours"].runs = x.runs
BY DEF Directories

LEMMA JournalUpdates ==
  ASSUME NEW x \in Directories, NEW runs \in {Absent} \cup SUBSET Runs
  PROVE  /\ [x EXCEPT !.runs = runs] \in Directories
         /\ [x EXCEPT !.runs = runs].db = x.db /\ [x EXCEPT !.runs = runs].runs = runs
BY DEF Directories

LEMMA OldTypes ==
  ASSUME NEW o \in Olds
  PROVE  /\ o.surviving \in {Absent} \cup Databases /\ o.departing \in {Absent} \cup Databases
         /\ o.journals \in {Absent} \cup SUBSET Runs
         /\ \A db \in {Absent} \cup Databases :
              /\ [o EXCEPT !.surviving = db] \in Olds
              /\ [o EXCEPT !.departing = db] \in Olds
         /\ \A s \in Sources : [o EXCEPT ![s] = Absent] \in Olds
<1>1. ASSUME NEW s \in Sources PROVE [o EXCEPT ![s] = Absent] \in Olds
  <2>1. CASE s = "surviving"
    BY <2>1 DEF Olds
  <2>2. CASE s = "departing"
    BY <2>2 DEF Olds
  <2>3. CASE s = "journals"
    BY <2>3 DEF Olds
  <2> QED
    BY <2>1, <2>2, <2>3 DEF Sources
<1> QED
  BY <1>1 DEF Olds

LEMMA OriginTypes ==
  ASSUME ConsolidationTypeOK
  PROVE  origin.old \in Olds /\ origin.root \in {Absent} \cup Directories
BY ConsolidationAssumption DEF ConsolidationTypeOK

(* Types of the boot.                                                      *)
LEMMA Goes ==
  ASSUME ConsolidationTypeOK, NEW d \in Daemons, NEW there \in Places, Go(d, there)
  PROVE  boot' \in [Daemons -> Places] /\ boot'[d] = there
         /\ \A e \in Daemons : e # d => boot'[e] = boot[e]
BY DEF ConsolidationTypeOK, Go

LEMMA Refuses ==
  ASSUME ConsolidationTypeOK, NEW d \in Daemons, Refuse(d)
  PROVE  /\ boot' \in [Daemons -> Places] /\ boot'[d] = "gone"
         /\ \A e \in Daemons : e # d => boot'[e] = boot[e]
         /\ plan' = plan /\ origin' = origin /\ refused' = refused \cup {d}
         /\ refused' \subseteq Daemons
<1>1. Go(d, "gone") /\ plan' = plan /\ origin' = origin /\ refused' = refused \cup {d}
  BY DEF Refuse
<1>2. "gone" \in Places
  BY DEF Places
<1> QED
  BY <1>1, <1>2, Goes DEF ConsolidationTypeOK

LEMMA Proceeds ==
  ASSUME ConsolidationTypeOK, NEW d \in Daemons, NEW there \in Places, Proceed(d, there)
  PROVE  /\ boot' \in [Daemons -> Places] /\ boot'[d] = there
         /\ \A e \in Daemons : e # d => boot'[e] = boot[e]
         /\ plan' = plan /\ origin' = origin /\ refused' = refused
<1>1. Go(d, there) /\ plan' = plan /\ origin' = origin /\ refused' = refused
  BY DEF Proceed, history
<1> QED
  BY <1>1, Goes

LEMMA PlacesOfBoot ==
  \A place \in Booting \cup {"serving", "deaf", "gone"} : place \in Places
BY DEF Places

LEMMA LookTypes ==
  ASSUME ConsolidationTypeOK, NEW d \in Daemons, NEW here \in BOOLEAN, Look(d, here)
  PROVE  ConsolidationTypeOK'
<1> USE DEF ConsolidationTypeOK
<1> DEFINE found == Inventory(here)
<1>1. found \subseteq Sources
  BY DEF Inventory
<1>2. CASE root' = MadeIfAbsent(root) /\ Proceed(d, "opening") /\ UNCHANGED <<old, stage>>
  <2>1. "opening" \in Places
    BY DEF Places, Booting
  <2> QED
    BY <1>2, <2>1, Proceeds, DirectoryTypes
<1>3. CASE Refuse(d) /\ UNCHANGED disk
  BY <1>3, Refuses DEF disk
<1>4. CASE /\ Go(d, "staging") /\ plan' = [plan EXCEPT ![d] = found]
           /\ UNCHANGED <<disk, history>>
  <2>1. "staging" \in Places
    BY DEF Places, Booting
  <2> QED
    BY <1>4, <2>1, <1>1, Goes DEF disk, history
<1> QED
  BY <1>2, <1>3, <1>4 DEF Look

LEMMA StageTypes ==
  ASSUME ConsolidationTypeOK, NEW d \in Daemons, Stage(d)
  PROVE  ConsolidationTypeOK'
<1>1. "copying" \in Places
  BY DEF Places, Booting
<1> QED
  BY <1>1, Proceeds, DirectoryTypes DEF Stage, ConsolidationTypeOK

LEMMA CopyTypes ==
  ASSUME ConsolidationTypeOK, NEW d \in Daemons, CopyDatabase(d)
  PROVE  ConsolidationTypeOK'
<1> USE DEF ConsolidationTypeOK
<1>1. "contributing" \in Places
  BY DEF Places, Booting
<1>2. Base(d) \in {"surviving", "departing"} /\ old[Base(d)] \in {Absent} \cup Databases
  BY OldTypes DEF Base
<1>3. Opened(old[Base(d)]) \in Databases
  BY <1>2, DirectoryTypes
<1>4. old' \in Olds
  <2>1. CASE Base(d) = "surviving"
    BY <2>1, <1>3, OldTypes DEF CopyDatabase
  <2>2. CASE Base(d) = "departing"
    BY <2>2, <1>3, OldTypes DEF CopyDatabase
  <2> QED
    BY <2>1, <2>2, <1>2
<1>5. CASE /\ stage # Absent
           /\ stage' = [stage EXCEPT !.db = Opened(old[Base(d)])] /\ Proceed(d, "contributing")
  <2>1. stage' \in Directories
    BY <1>5, <1>3, DatabaseUpdates
  <2> QED
    BY <1>5, <2>1, <1>1, <1>4, Proceeds DEF CopyDatabase
<1>6. CASE Refuse(d) /\ UNCHANGED stage
  BY <1>6, <1>4, Refuses DEF CopyDatabase
<1> QED
  BY <1>5, <1>6 DEF CopyDatabase

LEMMA ContributeTypes ==
  ASSUME ConsolidationTypeOK, NEW d \in Daemons, ContributeRows(d)
  PROVE  ConsolidationTypeOK'
<1> USE DEF ConsolidationTypeOK
<1>1. "journalling" \in Places
  BY DEF Places, Booting
<1>2. CASE Proceed(d, "journalling") /\ UNCHANGED <<old, stage>>
  BY <1>1, <1>2, Proceeds DEF ContributeRows
<1>3. CASE Refuse(d) /\ UNCHANGED <<old, stage>>
  BY <1>3, Refuses DEF ContributeRows
<1>4. CASE /\ stage # Absent
           /\ old' = [old EXCEPT !.departing = Opened(@)]
           /\ stage' = [stage EXCEPT !.db = Contributed(@)]
           /\ Proceed(d, "journalling")
  <2>1. old.departing \in {Absent} \cup Databases /\ Opened(old.departing) \in Databases
    BY OldTypes, DirectoryTypes
  <2>2. old' \in Olds
    BY <1>4, <2>1, OldTypes
  <2>3. stage \in Directories /\ stage.db \in {Absent} \cup Databases
    BY <1>4, DirectoryTypes
  <2>4. stage.db # Absent =>
          [stage.db EXCEPT !.rows = @ \cup Opened(old.departing).rows] \in Databases
    BY <2>1, <2>3 DEF Databases
  <2>5. Contributed(stage.db) \in Databases
    BY <2>3, <2>4, DirectoryTypes DEF Contributed
  <2>6. stage' \in Directories
    BY <1>4, <2>3, <2>5, DatabaseUpdates
  <2> QED
    BY <1>1, <1>4, <2>2, <2>6, Proceeds DEF ContributeRows
<1> QED
  BY <1>2, <1>3, <1>4 DEF ContributeRows

LEMMA TreeTypes ==
  ASSUME ConsolidationTypeOK, NEW d \in Daemons, CopyTree(d)
  PROVE  ConsolidationTypeOK'
<1> USE DEF ConsolidationTypeOK
<1>1. "clearing" \in Places
  BY DEF Places, Booting
<1>2. CASE Proceed(d, "clearing") /\ UNCHANGED stage
  BY <1>1, <1>2, Proceeds DEF CopyTree
<1>3. CASE /\ stage' = [MadeIfAbsent(stage) EXCEPT
                          !.runs = IF old.journals = Absent THEN {} ELSE old.journals]
           /\ Refuse(d) \/ Proceed(d, "clearing")
  <2>1. (IF old.journals = Absent THEN {} ELSE old.journals) \in {Absent} \cup SUBSET Runs
    BY OldTypes
  <2>2. stage' \in Directories
    BY <1>3, <2>1, DirectoryTypes, JournalUpdates
  <2> QED
    BY <1>1, <1>3, <2>2, Proceeds, Refuses DEF CopyTree
<1> QED
  BY <1>2, <1>3 DEF CopyTree

LEMMA ClearAndRenameTypes ==
  ASSUME ConsolidationTypeOK, NEW d \in Daemons, ClearRoot(d) \/ Rename(d)
  PROVE  ConsolidationTypeOK'
<1> USE DEF ConsolidationTypeOK
<1>1. "renaming" \in Places /\ "verifying" \in Places
  BY DEF Places, Booting
<1>2. CASE ClearRoot(d)
  BY <1>1, <1>2, Proceeds, Refuses DEF ClearRoot
<1>3. CASE Rename(d)
  BY <1>1, <1>3, Proceeds, Refuses DEF Rename
<1> QED
  BY <1>2, <1>3

LEMMA VerifyTypes ==
  ASSUME ConsolidationTypeOK, NEW d \in Daemons, VerifyOrUndo(d)
  PROVE  ConsolidationTypeOK'
<1> USE DEF ConsolidationTypeOK
<1>1. "removing" \in Places
  BY DEF Places, Booting
<1>2. CASE Verify(d) /\ UNCHANGED stage
  <2>1. root' \in Directories
    BY <1>2, DirectoryTypes, DatabaseUpdates DEF Verify
  <2> QED
    BY <1>1, <1>2, <2>1, Proceeds DEF VerifyOrUndo, Verify
<1>3. CASE Undo(d) /\ stage' = Absent
  BY <1>3, Refuses DEF VerifyOrUndo, Undo
<1> QED
  BY <1>2, <1>3 DEF VerifyOrUndo

LEMMA RemoveTypes ==
  ASSUME ConsolidationTypeOK, NEW d \in Daemons, RemoveSource(d)
  PROVE  ConsolidationTypeOK'
<1> USE DEF ConsolidationTypeOK
<1>1. "opening" \in Places
  BY DEF Places, Booting
<1>2. CASE Go(d, "opening") /\ UNCHANGED <<old, plan>>
  BY <1>1, <1>2, Goes DEF RemoveSource, history
<1>3. ASSUME NEW s \in plan[d], plan' = [plan EXCEPT ![d] = @ \ {s}],
             old' \in {old, [old EXCEPT ![s] = Absent]}, UNCHANGED boot
      PROVE  ConsolidationTypeOK'
  <2>1. s \in Sources
    BY <1>3
  <2>2. old' \in Olds
    BY <1>3, <2>1, OldTypes
  <2>3. plan' \in [Daemons -> SUBSET Sources]
    BY <1>3
  <2> QED
    BY <1>3, <2>2, <2>3 DEF RemoveSource, history
<1> QED
  BY <1>2, <1>3 DEF RemoveSource

LEMMA OpenTypes ==
  ASSUME ConsolidationTypeOK, NEW d \in Daemons, Open(d)
  PROVE  ConsolidationTypeOK'
<1> USE DEF ConsolidationTypeOK
<1> DEFINE opened == [MadeIfAbsent(root) EXCEPT !.db = Opened(@), !.other = "ours"]
<1>1. "recovering" \in Places
  BY DEF Places, Booting
<1>2. opened \in Directories
  BY DirectoryTypes, DatabaseUpdates
<1>3. CASE root' = opened /\ Proceed(d, "recovering")
  BY <1>1, <1>2, <1>3, Proceeds DEF Open
<1>4. CASE Refuse(d) /\ UNCHANGED root
  BY <1>4, Refuses DEF Open
<1> QED
  BY <1>3, <1>4 DEF Open

LEMMA ConsolidateTypes ==
  ASSUME ConsolidationTypeOK, NEW d \in Daemons, Consolidate(d)
  PROVE  ConsolidationTypeOK'
BY StageTypes, CopyTypes, ContributeTypes, TreeTypes, ClearAndRenameTypes, VerifyTypes,
   RemoveTypes, OpenTypes DEF Consolidate
---------------------------------------------------------------------------
(* A set of numbers that is not empty has a first one.                     *)
LEMMA FirstOf ==
  ASSUME NEW X, X \subseteq Nat, X # {}
  PROVE  Min(X) \in X
<1> DEFINE R == OpToRel(<, Nat)
<1>1. IsWellFoundedOn(R, Nat)
  BY NatLessThanWellFounded
<1>2. PICK n \in X : \A m \in X : <<m, n>> \notin R
  BY <1>1, WFMin
<1>3. n \in X /\ \A m \in X : ~(m < n)
  BY <1>2 DEF OpToRel
<1> HIDE DEF R
<1>4. \A m \in X : n \in Int /\ m \in Int
  BY <1>3
<1>5. n \in X /\ \A m \in X : n =< m
  BY <1>3, <1>4
<1> QED
  BY <1>5 DEF Min

LEMMA PortsAreFound ==
  /\ DefaultPort \in Ports
  /\ FindFreePort # Absent => FindFreePort \in Ports
<1>1. DefaultPort \in Ports
  BY ServiceAssumption, FirstOf DEF DefaultPort
<1> DEFINE free == {p \in Ports : Bindable(p)}
<1>2. ASSUME free # {} PROVE FindFreePort \in Ports
  <2>1. Min(free) \in free
    BY <1>2, ServiceAssumption, FirstOf
  <2> QED
    BY <1>2, <2>1 DEF FindFreePort
<1>3. free = {} => FindFreePort = Absent
  BY DEF FindFreePort
<1> QED
  BY <1>1, <1>2, <1>3

(* What a daemon does before it serves concerns nobody else.               *)
LEMMA BootSteps ==
  ASSUME ConsolidationTypeOK, NEW d \in Daemons,
         (\E here \in BOOLEAN : Look(d, here)) \/ Consolidate(d)
  PROVE  /\ boot[d] \in Booting
         /\ boot' \in [Daemons -> Places] /\ boot'[d] \in Booting \cup {"gone"}
         /\ \A e \in Daemons : e # d => boot'[e] = boot[e]
         /\ origin' = origin
<1>1. Booting \subseteq Places /\ "gone" \in Places
  BY DEF Places
<1>2. \A there \in Booting : Go(d, there) =>
        /\ boot' \in [Daemons -> Places] /\ boot'[d] \in Booting
        /\ \A e \in Daemons : e # d => boot'[e] = boot[e]
  BY <1>1, Goes
<1>3. \A there \in Booting : Proceed(d, there) => Go(d, there) /\ origin' = origin
  BY DEF Proceed, history
<1>4. {"opening", "staging", "copying", "contributing", "journalling", "clearing",
       "renaming", "verifying", "removing", "recovering", "started"} \subseteq Booting
  BY DEF Booting
<1>5. CASE \E here \in BOOLEAN : Look(d, here)
  BY <1>2, <1>3, <1>4, <1>5, Refuses DEF Look, history
<1>6. CASE Stage(d)
  BY <1>2, <1>3, <1>4, <1>6 DEF Stage
<1>7. CASE CopyDatabase(d)
  BY <1>2, <1>3, <1>4, <1>7, Refuses DEF CopyDatabase
<1>8. CASE ContributeRows(d)
  BY <1>2, <1>3, <1>4, <1>8, Refuses DEF ContributeRows
<1>9. CASE CopyTree(d)
  BY <1>2, <1>3, <1>4, <1>9, Refuses DEF CopyTree
<1>10. CASE ClearRoot(d)
  BY <1>2, <1>3, <1>4, <1>10, Refuses DEF ClearRoot
<1>11. CASE Rename(d)
  BY <1>2, <1>3, <1>4, <1>11, Refuses DEF Rename
<1>12. CASE VerifyOrUndo(d)
  BY <1>2, <1>3, <1>4, <1>12, Refuses DEF VerifyOrUndo, Verify, Undo
<1>13. CASE RemoveSource(d)
  BY <1>2, <1>3, <1>4, <1>13 DEF RemoveSource, history, ConsolidationTypeOK
<1>14. CASE Open(d)
  BY <1>2, <1>3, <1>4, <1>14, Refuses DEF Open
<1> QED
  BY <1>5, <1>6, <1>7, <1>8, <1>9, <1>10, <1>11, <1>12, <1>13, <1>14 DEF Consolidate

LEMMA Killed ==
  ASSUME ServiceTypeOK, NEW gone, gone \subseteq Daemons, KillTree(gone),
         UNCHANGED <<disk, history>>
  PROVE  /\ ConsolidationTypeOK'
         /\ listener' \in [Ports -> Daemons \cup {Nobody, Stranger}]
         /\ \A p \in Ports : listener'[p] \in Daemons => boot'[listener'[p]] = "serving"
         /\ \A d \in Daemons : boot'[d] = IF d \in gone THEN "gone" ELSE boot[d]
         /\ \A d \in Daemons : plan'[d] = IF d \in gone THEN {} ELSE plan[d]
<1> USE DEF ServiceTypeOK, ConsolidationTypeOK
<1>1. boot' \in [Daemons -> Places]
  BY PlacesOfBoot DEF KillTree
<1>2. plan' \in [Daemons -> SUBSET Sources]
  BY DEF KillTree
<1>3. ConsolidationTypeOK'
  BY <1>1, <1>2 DEF disk, history
<1>4. listener' \in [Ports -> Daemons \cup {Nobody, Stranger}]
  BY DEF KillTree
<1>5. ASSUME NEW p \in Ports, listener'[p] \in Daemons
      PROVE  boot'[listener'[p]] = "serving"
  <2>1. listener'[p] = listener[p] /\ listener[p] \notin gone
    BY <1>5, ServiceAssumption DEF KillTree
  <2>2. boot[listener[p]] = "serving"
    BY <1>5, <2>1
  <2> QED
    BY <1>5, <2>1, <2>2 DEF KillTree
<1> QED
  BY <1>3, <1>4, <1>5 DEF KillTree

LEMMA SameBoot ==
  ASSUME ConsolidationTypeOK, UNCHANGED <<disk, daemonVars, history>>
  PROVE  ConsolidationTypeOK'
BY DEF ConsolidationTypeOK, disk, daemonVars, history

LEMMA PidRead ==
  ASSUME ServiceTypeOK, pidfile' \in ReadPid
  PROVE  /\ pidfile' \in Daemons \cup {Absent}
         /\ pidfile' = pidfile \/ pidfile' = Absent
         /\ pidfile' = Absent => pidfile = Absent \/ ~Live(pidfile)
BY DEF ServiceTypeOK, ReadPid, Alive

LEMMA Enters ==
  ASSUME ServiceTypeOK, NEW c \in Callers, NEW there \in CallerSteps, Enter(c, there)
  PROVE  /\ cli' \in [Callers -> CallerSteps] /\ cli'[c] = there
         /\ \A e \in Callers : e # c => cli'[e] = cli[e]
BY DEF ServiceTypeOK, Enter

LEMMA Ends ==
  ASSUME ServiceTypeOK, NEW c \in Callers, End(c)
  PROVE  /\ cli' \in [Callers -> CallerSteps] /\ cli'[c] = "idle"
         /\ child' \in [Callers -> Daemons \cup {Absent}] /\ child'[c] = Absent
         /\ target' \in [Callers -> Ports]
         /\ \A e \in Callers : e # c => cli'[e] = cli[e] /\ child'[e] = child[e]
<1>1. "idle" \in CallerSteps
  BY DEF CallerSteps
<1> QED
  BY <1>1, PortsAreFound, Enters DEF ServiceTypeOK, End

LEMMA ChildType ==
  ASSUME StateInv, NEW c \in Callers, cli[c] \in {"spawned", "writing", "watching"}
  PROVE  child[c] \in Daemons
BY DEF StateInv, Children, ServiceTypeOK

(* Steps of a command line that leave the daemons alone.                   *)
LEMMA QuietSteps ==
  ASSUME StateInv, NEW c \in Callers,
         \/ Call(c) \/ CheckPid(c) \/ WritePid(c) \/ WritePort(c) \/ Watch(c)
         \/ ReadActivePort(c) \/ RemoveFiles(c) \/ Status(c) \/ Interrupt(c)
  PROVE  StateInv'
<1> USE DEF StateInv
<1>1. ConsolidationTypeOK' /\ UNCHANGED os
  BY SameBoot DEF Call, CheckPid, WritePid, WritePort, Watch, ReadActivePort, RemoveFiles,
     Status, Interrupt, ServiceTypeOK
<1>2. UNCHANGED <<boot, port, listener>>
  BY <1>1 DEF Call, CheckPid, WritePid, WritePort, Watch, ReadActivePort, RemoveFiles,
     Status, Interrupt, daemonVars, os
<1>3. SUFFICES
        /\ pidfile' \in Daemons \cup {Absent} /\ portfile' \in Ports \cup {Absent}
        /\ cli' \in [Callers -> CallerSteps]
        /\ child' \in [Callers -> Daemons \cup {Absent}] /\ target' \in [Callers -> Ports]
        /\ abandoned' \subseteq Daemons \X {"pid", "port"}
        /\ \A e \in Callers : e # c => cli'[e] = cli[e] /\ child'[e] = child[e]
        /\ child'[c] # Absent <=> cli'[c] \in {"spawned", "writing", "watching"}
  BY <1>1, <1>2 DEF ServiceTypeOK, Children
<1>4. {"starting", "stopping", "choosing", "writing", "watching", "killing"} \subseteq CallerSteps
  BY DEF CallerSteps
<1>5. /\ pidfile \in Daemons \cup {Absent} /\ portfile \in Ports \cup {Absent}
      /\ child \in [Callers -> Daemons \cup {Absent}] /\ target \in [Callers -> Ports]
      /\ abandoned \subseteq Daemons \X {"pid", "port"}
      /\ child[c] # Absent <=> cli[c] \in {"spawned", "writing", "watching"}
  BY DEF ServiceTypeOK, Children
<1>6. CASE Call(c)
  BY <1>4, <1>5, <1>6, Enters DEF Call, nameFiles, mine
<1>7. CASE CheckPid(c)
  BY <1>4, <1>5, <1>7, Enters, Ends, PidRead DEF CheckPid, mine
<1>8. CASE WritePid(c)
  BY <1>4, <1>5, <1>8, Enters, ChildType DEF WritePid, mine
<1>9. CASE WritePort(c)
  BY <1>4, <1>5, <1>9, Enters DEF WritePort, mine
<1>10. CASE Watch(c)
  BY <1>5, <1>10, Ends DEF Watch, nameFiles
<1>11. CASE ReadActivePort(c)
  <2>1. pidfile' \in Daemons \cup {Absent} /\ portfile' \in Ports \cup {Absent}
    BY <1>5, <1>11, PidRead DEF ReadActivePort, nameFiles
  <2>2. target' \in [Callers -> Ports]
    BY <1>5, <1>11, PortsAreFound, <2>1 DEF ReadActivePort, nameFiles
  <2> QED
    BY <1>4, <1>5, <1>11, <2>1, <2>2, Enters DEF ReadActivePort
<1>12. CASE RemoveFiles(c)
  BY <1>5, <1>12, Ends DEF RemoveFiles
<1>13. CASE Status(c)
  BY <1>5, <1>13, PidRead DEF Status, mine, ServiceTypeOK
<1>14. CASE Interrupt(c)
  <2>1. cli[c] \in {"spawned", "writing"} => child[c] \in Daemons
    BY ChildType
  <2>2. abandoned' \subseteq Daemons \X {"pid", "port"}
    BY <1>5, <1>14, <2>1 DEF Interrupt
  <2> QED
    BY <1>5, <1>14, <2>2, Ends DEF Interrupt, nameFiles
<1> QED
  BY <1>6, <1>7, <1>8, <1>9, <1>10, <1>11, <1>12, <1>13, <1>14

LEMMA ChooseStep ==
  ASSUME StateInv, NEW c \in Callers, Choose(c)
  PROVE  StateInv'
<1> USE DEF StateInv
<1>1. CASE FindFreePort = Absent /\ End(c) /\ UNCHANGED <<boot, port>>
  <2>1. ConsolidationTypeOK'
    BY <1>1, SameBoot DEF Choose, ServiceTypeOK, daemonVars
  <2> QED
    BY <1>1, <2>1, Ends DEF Choose, ServiceTypeOK, Children, nameFiles
<1>2. ASSUME FindFreePort # Absent,
             target' = [target EXCEPT ![c] = FindFreePort],
             NEW d \in Daemons, boot[d] = "unborn", Go(d, "started"),
             child' = [child EXCEPT ![c] = d], port' = [port EXCEPT ![d] = FindFreePort],
             Enter(c, "spawned")
      PROVE  StateInv'
  <2>1. FindFreePort \in Ports /\ "started" \in Places /\ "spawned" \in CallerSteps
    BY <1>2, PortsAreFound DEF Places, Booting, CallerSteps
  <2>2. ConsolidationTypeOK'
    BY <1>2, <2>1, Goes DEF Choose, ServiceTypeOK, ConsolidationTypeOK, disk, history
  <2>3. \A e \in Daemons : boot[e] = "serving" => boot'[e] = "serving"
    BY <1>2, <2>1, Goes DEF ServiceTypeOK
  <2>4. ServiceTypeOK'
    BY <1>2, <2>1, <2>2, <2>3, Enters DEF Choose, ServiceTypeOK, nameFiles
  <2>5. d # Absent
    BY ServiceAssumption
  <2>6. Children'
    BY <1>2, <2>1, <2>5, Enters DEF Children, ServiceTypeOK
  <2> QED
    BY <2>4, <2>6
<1> QED
  BY <1>1, <1>2 DEF Choose

LEMMA KillStep ==
  ASSUME StateInv, NEW c \in Callers, Kill(c)
  PROVE  StateInv'
<1> USE DEF StateInv
<1>1. pidfile' \in Daemons \cup {Absent} /\ "removing" \in CallerSteps
  BY PidRead DEF Kill, CallerSteps
<1>2. SUFFICES
        /\ ConsolidationTypeOK'
        /\ listener' \in [Ports -> Daemons \cup {Nobody, Stranger}]
        /\ \A p \in Ports : listener'[p] \in Daemons => boot'[listener'[p]] = "serving"
        /\ \/ Enter(c, "removing") /\ UNCHANGED mine
           \/ End(c)
  <2>1. CASE Enter(c, "removing") /\ UNCHANGED mine
    BY <1>1, <1>2, <2>1, Enters DEF Kill, ServiceTypeOK, Children, mine
  <2>2. CASE End(c)
    BY <1>1, <1>2, <2>2, Ends DEF Kill, ServiceTypeOK, Children
  <2> QED
    BY <1>2, <2>1, <2>2
<1>3. ASSUME NEW gone, gone \subseteq Daemons, KillTree(gone)
      PROVE  /\ ConsolidationTypeOK'
             /\ listener' \in [Ports -> Daemons \cup {Nobody, Stranger}]
             /\ \A p \in Ports : listener'[p] \in Daemons => boot'[listener'[p]] = "serving"
  BY <1>3, Killed DEF Kill
<1>4. ASSUME NEW p \in Ports, KillPort(p)
      PROVE  /\ ConsolidationTypeOK'
             /\ listener' \in [Ports -> Daemons \cup {Nobody, Stranger}]
             /\ \A q \in Ports : listener'[q] \in Daemons => boot'[listener'[q]] = "serving"
  <2>1. CASE listener[p] \in Daemons
    BY <1>3, <1>4, <2>1 DEF KillPort
  <2>2. CASE listener[p] \notin Daemons
    <3>1. listener' = [listener EXCEPT ![p] = Nobody] /\ UNCHANGED daemonVars
      BY <1>4, <2>2 DEF KillPort
    <3>2. ConsolidationTypeOK'
      BY <3>1, SameBoot DEF Kill, ServiceTypeOK
    <3> QED
      BY <3>1, <3>2, ServiceAssumption DEF ServiceTypeOK, daemonVars
  <2> QED
    BY <2>1, <2>2
<1>5. CASE KillTree({pidfile} \cap {d \in Daemons : Live(d)}) /\ Enter(c, "removing")
           /\ UNCHANGED mine
  BY <1>3, <1>5
<1>6. CASE KillPort(target[c]) /\ Enter(c, "removing") /\ UNCHANGED mine
  <2>1. target[c] \in Ports
    BY DEF ServiceTypeOK
  <2> QED
    BY <1>4, <1>6, <2>1
<1>7. CASE End(c) /\ UNCHANGED <<daemonVars, listener>>
  BY <1>7, SameBoot DEF Kill, ServiceTypeOK, daemonVars
<1> QED
  BY <1>5, <1>6, <1>7 DEF Kill

LEMMA DaemonSteps ==
  ASSUME StateInv, NEW d \in Daemons, Bring(d) \/ Die(d)
  PROVE  StateInv'
<1> USE DEF StateInv
<1>1. CASE LookAround(d) \/ Prepare(d)
  <2>1. (\E here \in BOOLEAN : Look(d, here)) \/ Consolidate(d)
    BY <1>1 DEF LookAround, Prepare
  <2>2. ConsolidationTypeOK'
    BY <2>1, LookTypes, ConsolidateTypes DEF ServiceTypeOK
  <2>3. \A e \in Daemons : boot[e] = "serving" => boot'[e] = boot[e]
    <3>1. "serving" \notin Booting
      BY DEF Booting
    <3> QED
      BY <2>1, <3>1, BootSteps DEF ServiceTypeOK
  <2>4. UNCHANGED <<nameFiles, os, cli, mine, abandoned>>
    BY <1>1 DEF LookAround, Prepare
  <2> QED
    BY <2>2, <2>3, <2>4 DEF ServiceTypeOK, Children, nameFiles, os, mine
<1>2. CASE Serve(d)
  <2>1. boot' \in [Daemons -> Places] /\ \A e \in Daemons : e # d => boot'[e] = boot[e]
    BY <1>2, PlacesOfBoot, Goes DEF Serve, ServiceTypeOK
  <2>2. ConsolidationTypeOK'
    BY <1>2, <2>1 DEF Serve, ServiceTypeOK, ConsolidationTypeOK, disk, history
  <2>3. UNCHANGED <<nameFiles, port, cli, mine, abandoned>>
    BY <1>2 DEF Serve
  <2>4. /\ listener' \in [Ports -> Daemons \cup {Nobody, Stranger}]
        /\ \A p \in Ports : listener'[p] \in Daemons => boot'[listener'[p]] = "serving"
    <3>1. CASE Go(d, "serving") /\ listener' = [listener EXCEPT ![port[d]] = d]
      BY <3>1, <2>1, PlacesOfBoot, Goes DEF ServiceTypeOK
    <3>2. CASE UNCHANGED listener
      BY <1>2, <3>2, <2>1 DEF Serve, ServiceTypeOK
    <3> QED
      BY <1>2, <3>1, <3>2 DEF Serve
  <2> QED
    BY <2>2, <2>3, <2>4 DEF ServiceTypeOK, Children, nameFiles, mine
<1>3. CASE Die(d)
  <2>1. KillTree({d}) /\ UNCHANGED <<disk, history, nameFiles, port, cli, mine, abandoned>>
    BY <1>3 DEF Die
  <2>2. /\ ConsolidationTypeOK'
        /\ listener' \in [Ports -> Daemons \cup {Nobody, Stranger}]
        /\ \A p \in Ports : listener'[p] \in Daemons => boot'[listener'[p]] = "serving"
    BY <2>1, Killed
  <2> QED
    BY <2>1, <2>2 DEF ServiceTypeOK, Children, nameFiles, mine
<1> QED
  BY <1>1, <1>2, <1>3 DEF Bring

LEMMA PortStep ==
  ASSUME StateInv, NEW p \in Ports, TakePort(p)
  PROVE  StateInv'
<1> USE DEF StateInv
<1>1. ConsolidationTypeOK'
  BY SameBoot DEF TakePort, ServiceTypeOK
<1> QED
  BY <1>1, ServiceAssumption DEF TakePort, ServiceTypeOK, Children, daemonVars, nameFiles, mine

LEMMA StateStarts == ServiceInit => StateInv
<1> SUFFICES ASSUME ServiceInit PROVE StateInv
  OBVIOUS
<1>1. ConsolidationTypeOK
  <2>1. origin.old \in Olds /\ origin.root \in {Absent} \cup Directories /\ origin \in Machines
    BY ConsolidationAssumption DEF ServiceInit, ConsolidationInit
  <2> QED
    BY <2>1 DEF ServiceInit, ConsolidationInit, ConsolidationTypeOK, Places
<1> QED
  BY <1>1, PortsAreFound, ServiceAssumption
  DEF ServiceInit, StateInv, ServiceTypeOK, Children, CallerSteps

LEMMA StateSteps == StateInv /\ [ServiceNext]_serviceVars => StateInv'
<1> SUFFICES ASSUME StateInv, [ServiceNext]_serviceVars PROVE StateInv'
  OBVIOUS
<1>1. CASE UNCHANGED serviceVars
  <2>1. ConsolidationTypeOK'
    BY <1>1, SameBoot DEF serviceVars, StateInv, ServiceTypeOK
  <2> QED
    BY <1>1, <2>1
    DEF serviceVars, StateInv, ServiceTypeOK, Children, daemonVars, nameFiles, os, mine
<1>2. ASSUME NEW c \in Callers, Call(c) \/ Work(c) \/ Status(c) \/ Interrupt(c)
      PROVE  StateInv'
  BY <1>2, QuietSteps, ChooseStep, KillStep DEF Work, Start, Stop
<1> QED
  BY <1>1, <1>2, DaemonSteps, PortStep DEF ServiceNext

(* The types of the start of a machine.                                    *)
THEOREM ServiceTypes == ServiceSpec => []ServiceTypeOK
<1>1. StateInv => ServiceTypeOK
  BY DEF StateInv
<1> QED
  BY <1>1, StateStarts, StateSteps, PTL DEF ServiceSpec
---------------------------------------------------------------------------
(* One command line at a time.                                             *)
OneCommandLine == \A c, e \in Callers : c = e

(* Told and Names, for the one that there is.                              *)
ToldBy(c) ==
  /\ cli[c] \in {"spawned", "writing"} => target[c] = port[child[c]]
  /\ cli[c] \in {"writing", "watching"} => pidfile = child[c]

NamedBy(c, d) ==
  /\ pidfile = d \/ cli[c] = "spawned"
  /\ \/ portfile = port[d] \/ <<d, "port">> \in abandoned
     \/ child[c] = d /\ cli[c] \in {"spawned", "writing"}
  /\ cli[c] \notin {"choosing", "removing"}
  /\ cli[c] = "spawned" => child[c] = d

LEMMA ByTheOne ==
  ASSUME OneCommandLine, NEW c \in Callers
  PROVE  /\ Told <=> ToldBy(c)
         /\ Names <=> \A d \in Daemons : Live(d) /\ Named(d) => NamedBy(c, d)
         /\ Told' <=> ToldBy(c)'
         /\ Names' <=> \A d \in Daemons : Live(d)' /\ Named(d)' => NamedBy(c, d)'
<1>1. \A e \in Callers : e = c
  BY DEF OneCommandLine
<1>2. /\ Told <=> ToldBy(c)
      /\ Told' <=> ToldBy(c)'
  BY <1>1 DEF Told, ToldBy
<1>3. \A d \in Daemons : Writing(d) <=> child[c] = d /\ cli[c] \in {"spawned", "writing"}
  BY <1>1 DEF Writing
<1>4. \A d \in Daemons :
        Writing(d)' <=> child'[c] = d /\ cli'[c] \in {"spawned", "writing"}
  BY <1>1 DEF Writing
<1>5. Names <=> \A d \in Daemons : Live(d) /\ Named(d) => NamedBy(c, d)
  BY <1>1, <1>3 DEF Names, NamedBy
<1>6. Names' <=> \A d \in Daemons : Live(d)' /\ Named(d)' => NamedBy(c, d)'
  BY <1>1, <1>4 DEF Names, NamedBy
<1> QED
  BY <1>2, <1>5, <1>6

(* Daemons that die take no name with them.                                *)
LEMMA FewerLive ==
  ASSUME Told, Names, UNCHANGED <<nameFiles, port, cli, mine, abandoned>>,
         \A d \in Daemons : Live(d)' => Live(d)
  PROVE  Told' /\ Names'
<1>1. Told'
  BY DEF Told, nameFiles, mine
<1>2. \A d \in Daemons : (Named(d)' <=> Named(d)) /\ (Writing(d)' <=> Writing(d))
  BY DEF Named, Writing, mine
<1>3. Names'
  BY <1>2 DEF Names, nameFiles, mine
<1> QED
  BY <1>1, <1>3

LEMMA DaemonsKeepNames ==
  ASSUME NamesInv, NEW d \in Daemons, Bring(d) \/ Die(d)
  PROVE  Told' /\ Names'
<1>1. UNCHANGED <<nameFiles, port, cli, mine, abandoned>>
  BY DEF Bring, LookAround, Prepare, Serve, Die, os
<1>2. CASE LookAround(d) \/ Prepare(d)
  <2>1. (\E here \in BOOLEAN : Look(d, here)) \/ Consolidate(d)
    BY <1>2 DEF LookAround, Prepare
  <2>2. boot[d] \in Booting /\ \A e \in Daemons : e # d => boot'[e] = boot[e]
    BY <2>1, BootSteps DEF NamesInv, StateInv, ServiceTypeOK
  <2>3. \A e \in Daemons : Live(e)' => Live(e)
    BY <2>2 DEF Live, Booting
  <2> QED
    BY <1>1, <2>3, FewerLive DEF NamesInv
<1>3. CASE Serve(d)
  <2>1. boot[d] = "recovering" /\ \A e \in Daemons : e # d => boot'[e] = boot[e]
    BY <1>3, PlacesOfBoot, Goes DEF Serve, NamesInv, StateInv, ServiceTypeOK
  <2>2. \A e \in Daemons : Live(e)' => Live(e)
    BY <2>1 DEF Live
  <2> QED
    BY <1>1, <2>2, FewerLive DEF NamesInv
<1>4. CASE Die(d)
  <2>1. \A e \in Daemons : Live(e)' => Live(e)
    BY <1>4 DEF Die, KillTree, Live
  <2> QED
    BY <1>1, <2>1, FewerLive DEF NamesInv
<1> QED
  BY <1>2, <1>3, <1>4 DEF Bring

LEMMA StartKeepsNames ==
  ASSUME NamesInv, OneCommandLine, NEW c \in Callers,
         CheckPid(c) \/ WritePid(c) \/ WritePort(c) \/ Watch(c)
  PROVE  Told' /\ Names'
<1> USE DEF NamesInv, StateInv
<1>1. ToldBy(c) /\ \A d \in Daemons : Live(d) /\ Named(d) => NamedBy(c, d)
  BY ByTheOne
<1>2. SUFFICES ToldBy(c)' /\ \A d \in Daemons : Live(d) /\ Named(d) => NamedBy(c, d)'
  <2>1. UNCHANGED <<boot, abandoned, port>>
    BY DEF CheckPid, WritePid, WritePort, Watch, daemonVars, os
  <2>2. \A d \in Daemons : (Live(d)' <=> Live(d)) /\ (Named(d)' <=> Named(d))
    BY <2>1 DEF Live, Named
  <2> QED
    BY <1>2, <2>2, ByTheOne
<1>3. {"choosing", "writing", "watching"} \subseteq CallerSteps
  BY DEF CallerSteps
<1>4. CASE CheckPid(c)
  <2>1. CASE pidfile' = Absent /\ Enter(c, "choosing") /\ UNCHANGED mine
    <3>1. \A d \in Daemons : ~(Live(d) /\ Named(d))
      BY <1>1, <1>4, <2>1, PidRead, ServiceAssumption DEF CheckPid, NamedBy
    <3> QED
      BY <1>3, <2>1, <3>1, Enters DEF ToldBy
  <2>2. CASE pidfile' # Absent /\ End(c)
    <3>1. pidfile' = pidfile /\ UNCHANGED <<portfile, port, abandoned>>
      BY <1>4, <2>2, PidRead DEF CheckPid, os
    <3> QED
      BY <1>1, <1>4, <2>2, <3>1, Ends DEF CheckPid, ToldBy, NamedBy
  <2> QED
    BY <1>4, <2>1, <2>2 DEF CheckPid
<1>5. CASE WritePid(c)
  <2>1. cli'[c] = "writing" /\ UNCHANGED <<portfile, port, abandoned, child, target>>
    BY <1>3, <1>5, Enters DEF WritePid, os, mine
  <2> QED
    BY <1>1, <1>5, <2>1 DEF WritePid, ToldBy, NamedBy
<1>6. CASE WritePort(c)
  <2>1. cli'[c] = "watching" /\ UNCHANGED <<pidfile, port, abandoned, child, target>>
    BY <1>3, <1>6, Enters DEF WritePort, os, mine
  <2> QED
    BY <1>1, <1>6, <2>1 DEF WritePort, ToldBy, NamedBy
<1>7. CASE Watch(c)
  <2>1. cli'[c] = "idle" /\ UNCHANGED <<port, abandoned>>
    BY <1>7, Ends DEF Watch, os
  <2>2. CASE Live(child[c]) /\ UNCHANGED nameFiles
    BY <1>1, <1>7, <2>1, <2>2 DEF Watch, ToldBy, NamedBy, nameFiles
  <2>3. CASE ~Live(child[c])
    BY <1>1, <1>7, <2>1, <2>3 DEF Watch, ToldBy, NamedBy
  <2> QED
    BY <1>7, <2>2, <2>3 DEF Watch
<1> QED
  BY <1>4, <1>5, <1>6, <1>7

LEMMA ChooseKeepsNames ==
  ASSUME NamesInv, OneCommandLine, NEW c \in Callers, Choose(c)
  PROVE  Told' /\ Names'
<1> USE DEF NamesInv, StateInv
<1>1. ToldBy(c) /\ \A d \in Daemons : ~(Live(d) /\ Named(d))
  BY ByTheOne DEF Choose, NamedBy
<1>2. UNCHANGED <<nameFiles, abandoned>>
  BY DEF Choose
<1>3. \A d \in Daemons : Named(d)' <=> Named(d)
  BY <1>2 DEF Named
<1>4. CASE End(c) /\ UNCHANGED <<boot, port>>
  <2>1. \A d \in Daemons : Live(d)' <=> Live(d)
    BY <1>4 DEF Live
  <2> QED
    BY <1>1, <1>3, <1>4, <2>1, Ends, ByTheOne DEF ToldBy
<1>5. ASSUME FindFreePort # Absent,
             target' = [target EXCEPT ![c] = FindFreePort],
             NEW d \in Daemons, boot[d] = "unborn", Go(d, "started"),
             child' = [child EXCEPT ![c] = d], port' = [port EXCEPT ![d] = FindFreePort],
             Enter(c, "spawned")
      PROVE  Told' /\ Names'
  <2>1. cli'[c] = "spawned"
    BY <1>5, Enters DEF CallerSteps
  <2>2. target'[c] = FindFreePort /\ child'[c] = d /\ port'[d] = FindFreePort
    BY <1>5 DEF ServiceTypeOK
  <2>3. \A e \in Daemons : e # d => (Live(e)' <=> Live(e))
    BY <1>5, Goes DEF Live, Places, Booting, ServiceTypeOK
  <2>4. ToldBy(c)'
    BY <2>1, <2>2 DEF ToldBy
  <2>5. \A e \in Daemons : Live(e)' /\ Named(e)' => NamedBy(c, e)'
    BY <1>1, <1>3, <2>1, <2>2, <2>3 DEF NamedBy
  <2> QED
    BY <2>4, <2>5, ByTheOne
<1> QED
  BY <1>4, <1>5 DEF Choose

LEMMA StopKeepsNames ==
  ASSUME NamesInv, OneCommandLine, NEW c \in Callers,
         ReadActivePort(c) \/ Kill(c) \/ RemoveFiles(c)
  PROVE  Told' /\ Names'
<1> USE DEF NamesInv, StateInv
<1>1. ToldBy(c) /\ \A d \in Daemons : Live(d) /\ Named(d) => NamedBy(c, d)
  BY ByTheOne
<1>2. UNCHANGED <<port, abandoned>> /\ \A d \in Daemons : Named(d)' <=> Named(d)
  BY DEF ReadActivePort, Kill, RemoveFiles, os, Named
<1>3. SUFFICES ASSUME \A d \in Daemons : Live(d)' => Live(d)
               PROVE  /\ ToldBy(c)'
                      /\ \A d \in Daemons : Live(d)' /\ Named(d) => NamedBy(c, d)'
  <2>1. ASSUME NEW gone, KillTree(gone) PROVE \A d \in Daemons : Live(d)' => Live(d)
    BY <2>1 DEF KillTree, Live
  <2>2. \A d \in Daemons : Live(d)' => Live(d)
    BY <2>1 DEF ReadActivePort, Kill, RemoveFiles, KillPort, daemonVars, Live
  <2> QED
    BY <1>2, <1>3, <2>2, ByTheOne
<1>4. {"killing", "removing"} \subseteq CallerSteps
  BY DEF CallerSteps
<1>5. CASE ReadActivePort(c)
  <2>1. cli'[c] = "killing" /\ cli[c] = "stopping"
    BY <1>4, <1>5, Enters DEF ReadActivePort
  <2>2. CASE UNCHANGED nameFiles
    BY <1>1, <1>2, <1>3, <1>5, <2>1, <2>2 DEF ToldBy, NamedBy, nameFiles
  <2>3. CASE pidfile' \in ReadPid
             /\ portfile' = IF pidfile' = Absent THEN Absent ELSE portfile
    <3>1. CASE pidfile' = Absent
      <4>1. \A d \in Daemons : ~(Live(d) /\ Named(d))
        BY <1>1, <2>1, <2>3, <3>1, PidRead, ServiceAssumption DEF NamedBy
      <4> QED
        BY <1>3, <2>1, <4>1 DEF ToldBy
    <3>2. CASE pidfile' # Absent
      <4>1. pidfile' = pidfile /\ portfile' = portfile
        BY <2>3, <3>2, PidRead
      <4> QED
        BY <1>1, <1>2, <1>3, <2>1, <4>1 DEF ToldBy, NamedBy
    <3> QED
      BY <3>1, <3>2
  <2> QED
    BY <1>5, <2>2, <2>3 DEF ReadActivePort
<1>6. CASE Kill(c)
  <2>1. cli[c] = "killing" /\ cli'[c] \in {"removing", "idle"}
    BY <1>4, <1>6, Enters, Ends DEF Kill
  <2>2. \A d \in Daemons : Live(d)' /\ Named(d) => FALSE
    <3>1. CASE pidfile' # Absent /\ KillTree({pidfile} \cap {d \in Daemons : Live(d)})
      <4>1. \A d \in Daemons : Live(d) /\ Named(d) => pidfile = d
        BY <1>1, <2>1 DEF NamedBy
      <4> QED
        BY <1>3, <3>1, <4>1 DEF KillTree, Live
    <3>2. CASE pidfile' = Absent
      BY <1>1, <1>3, <1>6, <2>1, <3>2, PidRead, ServiceAssumption DEF Kill, NamedBy
    <3> QED
      BY <1>6, <3>1, <3>2 DEF Kill
  <2> QED
    BY <2>1, <2>2 DEF ToldBy
<1>7. CASE RemoveFiles(c)
  <2>1. cli[c] = "removing" /\ cli'[c] = "idle"
    BY <1>7, Ends DEF RemoveFiles
  <2> QED
    BY <1>1, <1>3, <2>1 DEF ToldBy, NamedBy
<1> QED
  BY <1>5, <1>6, <1>7

LEMMA OthersKeepNames ==
  ASSUME NamesInv, OneCommandLine, NEW c \in Callers,
         Call(c) \/ Status(c) \/ Interrupt(c)
  PROVE  Told' /\ Names'
<1> USE DEF NamesInv, StateInv
<1>1. ToldBy(c) /\ \A d \in Daemons : Live(d) /\ Named(d) => NamedBy(c, d)
  BY ByTheOne
<1>2. UNCHANGED <<port, portfile>> /\ \A d \in Daemons : Live(d)' <=> Live(d)
  BY DEF Call, Status, Interrupt, os, nameFiles, daemonVars, Live
<1>3. SUFFICES /\ ToldBy(c)'
               /\ \A d \in Daemons : Live(d) /\ Named(d)' => NamedBy(c, d)'
  BY <1>2, <1>3, ByTheOne
<1>4. CASE Call(c)
  <2>1. cli[c] = "idle" /\ cli'[c] \in {"starting", "stopping"}
    BY <1>4, Enters DEF Call, CallerSteps
  <2>2. UNCHANGED <<pidfile, abandoned>>
    BY <1>4 DEF Call, nameFiles
  <2> QED
    BY <1>1, <1>2, <2>1, <2>2 DEF ToldBy, NamedBy, Named
<1>5. CASE Status(c)
  <2>1. cli[c] = "idle" /\ UNCHANGED <<cli, abandoned>>
    BY <1>5 DEF Status
  <2>2. \A d \in Daemons : Live(d) /\ Named(d) => pidfile' = d
    BY <1>1, <1>5, <2>1, PidRead, ServiceAssumption DEF Status, NamedBy
  <2> QED
    BY <1>1, <1>2, <2>1, <2>2 DEF ToldBy, NamedBy, Named
<1>6. CASE Interrupt(c)
  <2>1. cli'[c] = "idle" /\ pidfile' = pidfile
    BY <1>6, Ends DEF Interrupt, nameFiles
  <2>2. ASSUME NEW d \in Daemons, Live(d), Named(d)' PROVE NamedBy(c, d)'
    <3>1. Named(d) /\ (cli[c] = "spawned" => child[c] # d)
      BY <1>6, <2>2 DEF Interrupt, Named
    <3>2. cli[c] = "writing" /\ child[c] = d => <<d, "port">> \in abandoned'
      BY <1>6 DEF Interrupt
    <3>3. abandoned \subseteq abandoned'
      BY <1>6 DEF Interrupt
    <3> QED
      BY <1>1, <1>2, <2>1, <2>2, <3>1, <3>2, <3>3 DEF NamedBy
  <2> QED
    BY <2>1, <2>2 DEF ToldBy
<1> QED
  BY <1>4, <1>5, <1>6

LEMMA NamesStart == ServiceInit => NamesInv
<1> SUFFICES ASSUME ServiceInit PROVE NamesInv
  OBVIOUS
<1>1. \A d \in Daemons : ~Live(d)
  BY DEF ServiceInit, ConsolidationInit, Live
<1> QED
  BY <1>1, StateStarts DEF NamesInv, Told, Names, ServiceInit

LEMMA NamesStep ==
  ASSUME NamesInv, OneCommandLine, [ServiceNext]_serviceVars
  PROVE  NamesInv'
<1>1. StateInv'
  BY StateSteps DEF NamesInv
<1>2. CASE UNCHANGED serviceVars
  BY <1>1, <1>2, FewerLive DEF NamesInv, serviceVars, os, daemonVars, Live
<1>3. ASSUME NEW p \in Ports, TakePort(p) PROVE NamesInv'
  BY <1>1, <1>3, FewerLive DEF NamesInv, TakePort, daemonVars, Live
<1>4. ASSUME NEW c \in Callers, Call(c) \/ Work(c) \/ Status(c) \/ Interrupt(c)
      PROVE  NamesInv'
  BY <1>1, <1>4, StartKeepsNames, ChooseKeepsNames, StopKeepsNames, OthersKeepNames
  DEF NamesInv, Work, Start, Stop
<1>5. ASSUME NEW d \in Daemons, Bring(d) \/ Die(d) PROVE NamesInv'
  BY <1>1, <1>5, DaemonsKeepNames DEF NamesInv
<1> QED
  BY <1>2, <1>3, <1>4, <1>5 DEF ServiceNext

LEMMA NamesTell ==
  ASSUME NamesInv, OneCommandLine
  PROVE  DaemonsAreNamed
<1>1. SUFFICES ASSUME NEW d \in Daemons, Live(d), Named(d)
               PROVE  /\ pidfile = d \/ Writing(d)
                      /\ portfile = port[d] \/ Writing(d) \/ <<d, "port">> \in abandoned
                      /\ \A e \in Daemons : Live(e) /\ Named(e) => e = d
  BY DEF DaemonsAreNamed
<1>2. CASE \E c \in Callers : cli[c] = "spawned"
  <2>1. PICK c \in Callers : cli[c] = "spawned"
    BY <1>2
  <2>2. \A e \in Daemons : Live(e) /\ Named(e) => child[c] = e
    BY <2>1 DEF NamesInv, Names
  <2> QED
    BY <1>1, <2>1, <2>2 DEF Writing
<1>3. CASE \A c \in Callers : cli[c] # "spawned"
  BY <1>1, <1>3 DEF NamesInv, Names
<1> QED
  BY <1>2, <1>3

(* A daemon is found by its files, and no second one runs beside it, for   *)
(* one command line at a time: any number of daemons, deaths, reboots,     *)
(* strangers and commands that are stopped half-way.                       *)
THEOREM NamesHold ==
  ASSUME OneCommandLine
  PROVE  ServiceSpec => []DaemonsAreNamed
<1>1. NamesInv /\ [ServiceNext]_serviceVars => NamesInv'
  BY NamesStep
<1>2. NamesInv => DaemonsAreNamed
  BY NamesTell
<1> QED
  BY <1>1, <1>2, NamesStart, PTL DEF ServiceSpec
---------------------------------------------------------------------------
(* The database that will be committed.                                    *)
LEMMA MergedType ==
  ASSUME ConsolidationTypeOK, Kept # Absent
  PROVE  /\ Kept \in Databases /\ Merged \in Databases /\ Merged # Absent
         /\ Merged.rows = OldRows /\ Merged.good = Kept.good
<1>1. origin.old.surviving \in {Absent} \cup Databases
      /\ origin.old.departing \in {Absent} \cup Databases
  BY OriginTypes, OldTypes
<1>2. Kept \in Databases
  BY <1>1 DEF Kept
<1>3. OldRows \subseteq Runs
  BY <1>1, DirectoryTypes DEF OldRows, RowsIn
<1>4. Merged \in Databases
  BY <1>2, <1>3, DirectoryTypes DEF Merged, Databases
<1> QED
  BY <1>2, <1>4, DirectoryTypes DEF Merged

(* A root that is in use was opened or committed.                          *)
LEMMA RootInUse ==
  ASSUME ConsolidationTypeOK, Kinds, ~AlreadyHere
  PROVE  AsFound /\ ~HadOne
<1>1. ~InPlace
  BY DirectoryTypes DEF InPlace, AlreadyHere, HadOne
<1>2. ~Committed
  BY MergedType DEF Committed, AlreadyHere
<1>3. AsFound
  BY <1>1, <1>2 DEF Kinds
<1>4. EmptyDirectory.db = Absent
  BY DEF EmptyDirectory
<1> QED
  BY <1>3, <1>4 DEF AsFound, HadOne, AlreadyHere, Bare

LEMMA SameKinds ==
  ASSUME Kinds, UNCHANGED <<old, root, origin, refused>>
  PROVE  Kinds'
BY DEF Kinds, AsFound, InPlace, Committed, RefusalsHaveAReason, Irreconcilable, Bare, HadOne,
   Kept, Merged, OldRows

(* A refusal leaves everything where it was.                               *)
LEMMA RefusesKinds ==
  ASSUME ConsolidationTypeOK, Kinds, NEW d \in Daemons, Refuse(d), UNCHANGED <<old, root>>,
         Irreconcilable
  PROVE  Kinds' /\ OnItsWay(d)'
<1>1. origin' = origin /\ boot'[d] = "gone"
  BY Refuses
<1>2. Irreconcilable'
  BY <1>1 DEF Irreconcilable
<1>3. (AsFound \/ InPlace \/ Committed)'
  BY <1>1 DEF Kinds, AsFound, InPlace, Committed, Bare, HadOne, Kept, Merged, OldRows
<1> QED
  BY <1>1, <1>2, <1>3 DEF Kinds, RefusalsHaveAReason, OnItsWay, Migrating

LEMMA LookKeeps ==
  ASSUME ConsolidationTypeOK, Kinds, NEW d \in Daemons, NEW here \in BOOLEAN, Look(d, here)
  PROVE  Kinds' /\ OnItsWay(d)'
<1> DEFINE found == Inventory(here)
           fresh == found \subseteq {"journals"}
<1>1. CASE root' = MadeIfAbsent(root) /\ Proceed(d, "opening") /\ UNCHANGED <<old, stage>>
  <2>1. boot'[d] = "opening" /\ origin' = origin /\ refused' = refused
    BY <1>1, PlacesOfBoot, Proceeds DEF Booting
  <2>2. CASE root # Absent
    BY <1>1, <2>1, <2>2, SameKinds DEF MadeIfAbsent, OnItsWay, Migrating
  <2>3. CASE root = Absent
    <3>1. AsFound /\ Bare(origin.root) /\ root' = EmptyDirectory
      BY <1>1, <2>3, RootInUse DEF AlreadyHere, AsFound, Bare, MadeIfAbsent
    <3>2. AsFound'
      BY <1>1, <2>1, <3>1 DEF AsFound, Bare
    <3> QED
      BY <2>1, <3>2 DEF Kinds, RefusalsHaveAReason, Irreconcilable, OnItsWay, Migrating
  <2> QED
    BY <2>2, <2>3
<1>2. CASE ~AlreadyHere /\ (Occupied \/ Collides(found)) /\ Refuse(d) /\ UNCHANGED disk
  <2>1. AsFound /\ ~HadOne
    BY <1>2, RootInUse
  <2>2. CASE Occupied
    <3>1. root = origin.root /\ root # Absent /\ root # EmptyDirectory /\ root.db = Absent
      BY <2>1, <2>2 DEF Occupied, IsOurRoot, AsFound, Bare
    <3>2. Irreconcilable
      BY <3>1 DEF Irreconcilable
    <3> QED
      BY <1>2, <3>2, RefusesKinds DEF disk
  <2>3. CASE Collides(found)
    <3>1. /\ origin.old.surviving # Absent /\ origin.old.departing # Absent
          /\ origin.old.surviving.rows \cap origin.old.departing.rows # {}
      BY <2>1, <2>3 DEF Collides, Inventory, AsFound, Sources
    <3>2. Irreconcilable
      BY <3>1 DEF Irreconcilable
    <3> QED
      BY <1>2, <3>2, RefusesKinds DEF disk
  <2> QED
    BY <1>2, <2>2, <2>3
<1>3. CASE /\ ~AlreadyHere /\ ~fresh
           /\ Go(d, "staging") /\ plan' = [plan EXCEPT ![d] = found]
           /\ UNCHANGED <<disk, history>>
  <2>1. AsFound /\ ~HadOne
    BY <1>3, RootInUse
  <2>2. boot'[d] = "staging"
    BY <1>3, PlacesOfBoot, Goes DEF Booting
  <2>3. plan'[d] = found
    BY <1>3 DEF ConsolidationTypeOK
  <2>4. found = {s \in Sources : origin.old[s] # Absent}
    BY <1>3, <2>1 DEF Inventory, AsFound
  <2>5. Kept # Absent
    BY <1>3, <2>4 DEF Sources, Kept
  <2>6. UNCHANGED <<old, root, origin, refused>>
    BY <1>3 DEF disk, history
  <2>7. AsFound' /\ ~HadOne' /\ Kept' # Absent
    BY <2>1, <2>5, <2>6 DEF AsFound, HadOne, Kept, Bare
  <2> QED
    BY <2>2, <2>3, <2>4, <2>6, <2>7, SameKinds DEF OnItsWay
<1> QED
  BY <1>1, <1>2, <1>3 DEF Look

(* What is known while the stage is being filled.                          *)
LEMMA WhileMigrating ==
  ASSUME ConsolidationTypeOK, NEW d \in Daemons, OnItsWay(d), boot[d] \in Migrating
  PROVE  /\ old = origin.old /\ ~HadOne
         /\ Kept \in Databases /\ Merged \in Databases /\ Kept # Absent
         /\ Merged.rows = OldRows /\ Merged.good = Kept.good
         /\ old[Base(d)] = Kept /\ Base(d) \in {"surviving", "departing"}
         /\ \A s \in Sources : s \in plan[d] <=> origin.old[s] # Absent
<1>1. /\ old = origin.old /\ ~HadOne /\ Kept # Absent
      /\ plan[d] = {s \in Sources : origin.old[s] # Absent}
  BY DEF OnItsWay, AsFound
<1>2. "surviving" \in plan[d] <=> origin.old.surviving # Absent
  BY <1>1 DEF Sources
<1>3. old[Base(d)] = Kept /\ Base(d) \in {"surviving", "departing"}
  BY <1>1, <1>2 DEF Base, Kept
<1> QED
  BY <1>1, <1>3, MergedType

(* A step that only fills the stage.                                       *)
LEMMA StillMigrating ==
  ASSUME ConsolidationTypeOK, Kinds, NEW d \in Daemons, OnItsWay(d), boot[d] \in Migrating,
         NEW there \in Migrating, Proceed(d, there), UNCHANGED <<old, root>>
  PROVE  /\ Kinds' /\ boot'[d] = there
         /\ AsFound' /\ ~HadOne' /\ Kept' # Absent
         /\ plan'[d] = {s \in Sources : origin'.old[s] # Absent}
         /\ Kept' = Kept /\ Merged' = Merged /\ origin' = origin
<1>1. boot'[d] = there /\ plan' = plan /\ UNCHANGED <<old, root, origin, refused>>
  BY PlacesOfBoot, Proceeds DEF Migrating, Booting
<1>2. Kinds'
  BY <1>1, SameKinds
<1>3. AsFound /\ ~HadOne /\ Kept # Absent /\ plan[d] = {s \in Sources : origin.old[s] # Absent}
  BY DEF OnItsWay
<1>4. Kept' = Kept /\ Merged' = Merged /\ HadOne' = HadOne /\ AsFound'
  BY <1>1, <1>3 DEF Kept, Merged, OldRows, HadOne, AsFound, Bare
<1> QED
  BY <1>1, <1>2, <1>3, <1>4

LEMMA StageKeeps ==
  ASSUME ConsolidationTypeOK, Kinds, NEW d \in Daemons, OnItsWay(d), Stage(d)
  PROVE  Kinds' /\ OnItsWay(d)'
<1>1. stage' = EmptyDirectory /\ stage' # Absent /\ stage'.runs = Absent
  BY DirectoryTypes DEF Stage, EmptyDirectory
<1>2. boot[d] \in Migrating /\ Proceed(d, "copying") /\ "copying" \in Migrating
      /\ UNCHANGED <<old, root>>
  BY DEF Stage, Migrating
<1> QED
  BY <1>1, <1>2, StillMigrating DEF OnItsWay

LEMMA CopyKeeps ==
  ASSUME ConsolidationTypeOK, Kinds, NEW d \in Daemons, OnItsWay(d), CopyDatabase(d)
  PROVE  Kinds' /\ OnItsWay(d)'
<1>1. boot[d] = "copying" /\ boot[d] \in Migrating
  BY DEF CopyDatabase, Migrating
<1>2. /\ old[Base(d)] = Kept /\ Kept \in Databases /\ Kept # Absent
      /\ Base(d) \in {"surviving", "departing"}
  BY <1>1, WhileMigrating
<1>3. Opened(old[Base(d)]) = Kept
  BY <1>2 DEF Opened
<1>4. UNCHANGED <<old, root>>
  BY <1>2, <1>3 DEF CopyDatabase, ConsolidationTypeOK, Olds
<1>5. stage # Absent /\ stage \in Directories /\ stage.runs = Absent
  BY <1>1 DEF OnItsWay, ConsolidationTypeOK
<1>6. stage' = [stage EXCEPT !.db = Kept] /\ Proceed(d, "contributing")
  BY <1>3, <1>5 DEF CopyDatabase
<1>7. stage' \in Directories /\ stage'.db = Kept /\ stage'.runs = Absent
  BY <1>2, <1>5, <1>6 DEF Directories
<1>8. stage' # Absent /\ "contributing" \in Migrating
  BY <1>7, DirectoryTypes DEF Migrating
<1> QED
  BY <1>1, <1>4, <1>6, <1>7, <1>8, StillMigrating DEF OnItsWay

LEMMA ContributeKeeps ==
  ASSUME ConsolidationTypeOK, Kinds, NEW d \in Daemons, OnItsWay(d), ContributeRows(d)
  PROVE  Kinds' /\ OnItsWay(d)'
<1>1. boot[d] = "contributing" /\ boot[d] \in Migrating /\ "journalling" \in Migrating
      /\ UNCHANGED root
  BY DEF ContributeRows, Migrating
<1>2. /\ old = origin.old /\ Kept \in Databases /\ Merged \in Databases /\ Kept # Absent
      /\ Merged.rows = OldRows /\ Merged.good = Kept.good
      /\ \A s \in Sources : s \in plan[d] <=> origin.old[s] # Absent
  BY <1>1, WhileMigrating
<1>3. stage # Absent /\ stage \in Directories /\ stage.db = Kept /\ stage.runs = Absent
  BY <1>1 DEF OnItsWay, ConsolidationTypeOK
<1>4. \A db \in Databases : db.rows = Merged.rows /\ db.good = Merged.good => db = Merged
  BY <1>2 DEF Databases
<1>5. "surviving" \in Sources /\ "departing" \in Sources
  BY DEF Sources
<1>6. CASE ~({"surviving", "departing"} \subseteq plan[d])
  <2>1. UNCHANGED <<old, stage>> /\ Proceed(d, "journalling")
    BY <1>6 DEF ContributeRows
  <2>2. OldRows = Kept.rows
    BY <1>2, <1>5, <1>6 DEF OldRows, RowsIn, Kept
  <2>3. Kept = Merged
    BY <1>2, <1>4, <2>2
  <2> QED
    BY <1>1, <1>3, <2>1, <2>3, StillMigrating DEF OnItsWay
<1>7. CASE {"surviving", "departing"} \subseteq plan[d]
  <2>1. /\ old' = [old EXCEPT !.departing = Opened(@)]
        /\ stage' = [stage EXCEPT !.db = Contributed(@)]
        /\ Proceed(d, "journalling")
    BY <1>3, <1>7 DEF ContributeRows
  <2>2. origin.old.surviving # Absent /\ origin.old.departing # Absent
    BY <1>2, <1>5, <1>7
  <2>3. Opened(old.departing) = origin.old.departing
    BY <1>2, <2>2 DEF Opened
  <2>4. old' = old
    BY <1>2, <2>1, <2>3 DEF ConsolidationTypeOK, Olds
  <2>5. Contributed(Kept) = [Kept EXCEPT !.rows = @ \cup origin.old.departing.rows]
    BY <1>2, <2>3 DEF Contributed
  <2>6. Kept.rows \cup origin.old.departing.rows = OldRows
    BY <2>2 DEF Kept, OldRows, RowsIn
  <2>7. Contributed(Kept) = [Kept EXCEPT !.rows = OldRows]
    BY <1>2, <2>5, <2>6 DEF Databases
  <2>8. Contributed(Kept) = Merged
    BY <1>2, <2>7 DEF Databases, Merged
  <2>9. stage' \in Directories /\ stage'.db = Merged /\ stage'.runs = Absent
    BY <1>2, <1>3, <2>1, <2>8 DEF Directories
  <2>10. stage' # Absent
    BY <2>9, DirectoryTypes
  <2> QED
    BY <1>1, <2>1, <2>4, <2>9, <2>10, StillMigrating DEF OnItsWay
<1> QED
  BY <1>6, <1>7

LEMMA TreeKeeps ==
  ASSUME ConsolidationTypeOK, Kinds, NEW d \in Daemons, OnItsWay(d), CopyTree(d)
  PROVE  Kinds' /\ OnItsWay(d)'
<1>1. boot[d] = "journalling" /\ boot[d] \in Migrating /\ "clearing" \in Migrating
      /\ UNCHANGED <<old, root>>
  BY DEF CopyTree, Migrating
<1>2. old = origin.old /\ ("journals" \in plan[d] <=> origin.old.journals # Absent)
  BY <1>1, WhileMigrating DEF Sources
<1>3. /\ stage # Absent /\ stage \in Directories /\ stage.db = Merged /\ stage.runs = Absent
  BY <1>1 DEF OnItsWay, ConsolidationTypeOK
<1>4. /\ Proceed(d, "clearing")
      /\ stage' # Absent /\ stage'.db = Merged /\ stage'.runs = origin.old.journals
  <2>1. CASE "journals" \notin plan[d]
    BY <1>2, <1>3, <2>1 DEF CopyTree
  <2>2. CASE "journals" \in plan[d]
    <3>1. origin.old.journals # Absent /\ origin.old.journals \in {Absent} \cup SUBSET Runs
      BY <1>2, <2>2, OriginTypes, OldTypes
    <3>2. stage' = [stage EXCEPT !.runs = origin.old.journals] /\ Proceed(d, "clearing")
      BY <1>2, <1>3, <2>2, <3>1 DEF CopyTree, MadeIfAbsent
    <3>3. stage' \in Directories /\ stage'.db = Merged /\ stage'.runs = origin.old.journals
      BY <1>3, <3>1, <3>2, JournalUpdates
    <3> QED
      BY <3>2, <3>3, DirectoryTypes
  <2> QED
    BY <2>1, <2>2
<1> QED
  BY <1>1, <1>4, StillMigrating DEF OnItsWay

LEMMA ClearKeeps ==
  ASSUME ConsolidationTypeOK, Kinds, NEW d \in Daemons, OnItsWay(d), ClearRoot(d)
  PROVE  Kinds' /\ OnItsWay(d)'
<1>1. boot[d] = "clearing" /\ UNCHANGED <<old, stage>> /\ AsFound /\ ~HadOne
  BY DEF ClearRoot, OnItsWay, Migrating
<1>2. CASE root \in {Absent, EmptyDirectory}
  <2>1. root' = Absent /\ Proceed(d, "renaming")
    BY <1>2 DEF ClearRoot
  <2>2. boot'[d] = "renaming" /\ plan' = plan /\ origin' = origin /\ refused' = refused
    BY <2>1, PlacesOfBoot, Proceeds DEF Booting
  <2>3. Bare(origin.root)
    BY <1>1, <1>2 DEF AsFound, Bare
  <2>4. AsFound' /\ HadOne' = HadOne /\ Kept' = Kept /\ Merged' = Merged
    BY <1>1, <2>1, <2>2, <2>3 DEF AsFound, Bare, HadOne, Kept, Merged, OldRows
  <2>5. Kinds'
    BY <2>2, <2>4 DEF Kinds, RefusalsHaveAReason, Irreconcilable
  <2> QED
    BY <1>1, <2>1, <2>2, <2>4, <2>5 DEF OnItsWay, Migrating
<1>3. CASE root \notin {Absent, EmptyDirectory}
  <2>1. Refuse(d) /\ UNCHANGED root
    BY <1>3 DEF ClearRoot
  <2>2. root = origin.root
    BY <1>1, <1>3 DEF AsFound, Bare
  <2>3. Irreconcilable
    BY <1>1, <1>3, <2>2 DEF Irreconcilable, HadOne
  <2> QED
    BY <1>1, <2>1, <2>3, RefusesKinds
<1> QED
  BY <1>2, <1>3

LEMMA RenameKeeps ==
  ASSUME ConsolidationTypeOK, Kinds, NEW d \in Daemons, OnItsWay(d), Rename(d)
  PROVE  Kinds' /\ OnItsWay(d)'
<1>1. /\ boot[d] = "renaming" /\ AsFound /\ Kept # Absent /\ root = Absent
      /\ stage # Absent /\ stage.db = Merged /\ stage.runs = origin.old.journals
  BY DEF Rename, OnItsWay, Migrating
<1>2. root' = stage /\ Proceed(d, "verifying") /\ old' = old
  BY <1>1 DEF Rename
<1>3. boot'[d] = "verifying" /\ origin' = origin /\ refused' = refused
  BY <1>2, PlacesOfBoot, Proceeds DEF Booting
<1>4. Bare(origin.root) /\ old = origin.old
  BY <1>1 DEF AsFound, Bare
<1>5. Committed' /\ old' = origin'.old
  BY <1>1, <1>2, <1>3, <1>4 DEF Committed, Bare, Kept, Merged, OldRows
<1> QED
  BY <1>3, <1>5 DEF Kinds, RefusalsHaveAReason, Irreconcilable, OnItsWay, Migrating

LEMMA VerifyKeeps ==
  ASSUME ConsolidationTypeOK, Kinds, NEW d \in Daemons, OnItsWay(d), VerifyOrUndo(d)
  PROVE  Kinds' /\ OnItsWay(d)'
<1>1. boot[d] = "verifying" /\ Committed /\ old = origin.old /\ old' = old
  BY DEF VerifyOrUndo, OnItsWay
<1>2. /\ root \in Directories /\ MadeIfAbsent(root) = root
      /\ Merged \in Databases /\ Merged.good = Kept.good /\ Opened(root.db) = Merged
  BY <1>1, MergedType DEF Committed, MadeIfAbsent, Opened, ConsolidationTypeOK
<1>3. CASE Verify(d)
  <2>1. root' = [root EXCEPT !.db = Merged] /\ Proceed(d, "removing")
    BY <1>2, <1>3 DEF Verify
  <2>2. boot'[d] = "removing" /\ origin' = origin /\ refused' = refused
    BY <2>1, PlacesOfBoot, Proceeds DEF Booting
  <2>3. root' # Absent /\ root'.db = Merged /\ root'.runs = root.runs
    <3>1. root' \in Directories /\ root'.db = Merged /\ root'.runs = root.runs
      BY <1>2, <2>1 DEF Directories
    <3> QED
      BY <1>1, <3>1, DirectoryTypes DEF Committed
  <2>4. Committed'
    BY <1>1, <2>2, <2>3 DEF Committed, Bare, Kept, Merged, OldRows
  <2> QED
    BY <2>2, <2>4 DEF Kinds, RefusalsHaveAReason, Irreconcilable, OnItsWay, Migrating
<1>4. CASE Undo(d)
  <2>1. root' = Absent /\ Refuse(d) /\ ~Kept.good
    BY <1>2, <1>4 DEF Undo, Migrates
  <2>2. origin' = origin /\ boot'[d] = "gone"
    BY <2>1, Refuses
  <2>3. AsFound'
    BY <1>1, <2>1, <2>2 DEF AsFound, Committed, Bare
  <2>4. Irreconcilable
    <3>1. Bare(origin.root) /\ Kept # Absent
      BY <1>1 DEF Committed
    <3>2. origin.root # Absent => origin.root.db = Absent
      BY <3>1 DEF Bare, EmptyDirectory
    <3> QED
      BY <2>1, <3>1, <3>2 DEF Irreconcilable, Kept
  <2>5. Irreconcilable'
    BY <2>2, <2>4 DEF Irreconcilable
  <2> QED
    BY <2>2, <2>3, <2>5 DEF Kinds, RefusalsHaveAReason, OnItsWay, Migrating
<1> QED
  BY <1>3, <1>4 DEF VerifyOrUndo

LEMMA RemoveKeeps ==
  ASSUME ConsolidationTypeOK, Kinds, NEW d \in Daemons, OnItsWay(d), RemoveSource(d)
  PROVE  Kinds' /\ OnItsWay(d)'
<1>1. boot[d] = "removing" /\ Committed /\ UNCHANGED <<stage, root, origin, refused>>
  BY DEF RemoveSource, OnItsWay, history
<1>2. boot'[d] \in {"opening", "removing"}
  BY <1>1, PlacesOfBoot, Goes DEF RemoveSource, Booting
<1>3. \A s \in Sources : old'[s] \in {old[s], Absent}
  <2>1. CASE old' = old
    BY <2>1
  <2>2. ASSUME NEW t \in plan[d], old' = [old EXCEPT ![t] = Absent]
        PROVE  \A s \in Sources : old'[s] \in {old[s], Absent}
    <3>1. t \in Sources
      BY DEF ConsolidationTypeOK
    <3> QED
      BY <2>2, <3>1 DEF ConsolidationTypeOK, Olds, Sources
  <2> QED
    BY <2>1, <2>2 DEF RemoveSource
<1>4. Committed'
  BY <1>1, <1>3 DEF Committed, Bare, Kept, Merged, OldRows
<1> QED
  BY <1>1, <1>2, <1>4
  DEF Kinds, RefusalsHaveAReason, Irreconcilable, OnItsWay, Migrating

LEMMA OpenKeeps ==
  ASSUME ConsolidationTypeOK, Kinds, NEW d \in Daemons, OnItsWay(d), Open(d)
  PROVE  Kinds' /\ OnItsWay(d)'
<1> DEFINE made == MadeIfAbsent(root)
           opened == [made EXCEPT !.db = Opened(@), !.other = "ours"]
<1>1. made \in Directories /\ made.db \in {Absent} \cup Databases
  BY DirectoryTypes DEF ConsolidationTypeOK
<1>2. /\ opened = [made EXCEPT !.db = Opened(made.db), !.other = "ours"]
      /\ opened \in Directories /\ opened.db = Opened(made.db) /\ opened.runs = made.runs
  BY <1>1, DirectoryTypes, DatabaseUpdates
<1>3. opened # Absent
  BY <1>2, DirectoryTypes
(* What is opened is the database that was there, or a new one.            *)
<1>4. CASE AsFound \/ InPlace
  <2>1. Opened(made.db) = IF HadOne THEN origin.root.db ELSE NewDatabase
    <3>1. CASE InPlace
      BY <3>1, DirectoryTypes DEF InPlace, MadeIfAbsent, Opened, HadOne
    <3>2. CASE AsFound
      <4>1. CASE HadOne
        BY <3>2, <4>1 DEF AsFound, HadOne, Bare, MadeIfAbsent, Opened, EmptyDirectory
      <4>2. CASE ~HadOne
        BY <3>2, <4>2 DEF AsFound, HadOne, Bare, MadeIfAbsent, Opened, EmptyDirectory
      <4> QED
        BY <4>1, <4>2
    <3> QED
      BY <1>4, <3>1, <3>2
  <2>2. old = origin.old
    BY <1>4 DEF AsFound, InPlace
  <2>3. CASE root' = opened /\ Proceed(d, "recovering")
    <3>1. boot'[d] = "recovering" /\ UNCHANGED <<old, origin, refused>>
      BY <2>3, PlacesOfBoot, Proceeds DEF Booting, Open
    <3>2. InPlace'
      BY <1>2, <1>3, <2>1, <2>2, <2>3, <3>1 DEF InPlace, HadOne
    <3> QED
      BY <3>1, <3>2 DEF Kinds, RefusalsHaveAReason, Irreconcilable, OnItsWay, Migrating
  <2>4. CASE ~Migrates(opened.db) /\ Refuse(d) /\ UNCHANGED root
    <3>1. HadOne /\ ~origin.root.db.good
      BY <1>2, <2>1, <2>4 DEF Migrates, NewDatabase
    <3>2. Irreconcilable
      BY <3>1 DEF Irreconcilable, HadOne
    <3> QED
      BY <2>4, <3>2, RefusesKinds DEF Open
  <2> QED
    BY <2>3, <2>4 DEF Open
<1>5. CASE Committed
  <2>1. /\ made = root /\ Merged \in Databases /\ Merged.good = Kept.good
        /\ Opened(made.db) = Merged
    BY <1>5, MergedType DEF Committed, MadeIfAbsent, Opened
  <2>2. CASE root' = opened /\ Proceed(d, "recovering")
    <3>1. boot'[d] = "recovering" /\ UNCHANGED <<old, origin, refused>>
      BY <2>2, PlacesOfBoot, Proceeds DEF Booting, Open
    <3>2. root' # Absent /\ root'.db = Merged /\ root'.runs = root.runs
      BY <1>2, <1>3, <2>1, <2>2
    <3>3. Committed'
      BY <1>5, <3>1, <3>2 DEF Committed, Bare, Kept, Merged, OldRows
    <3> QED
      BY <3>1, <3>3 DEF Kinds, RefusalsHaveAReason, Irreconcilable, OnItsWay, Migrating
  <2>3. CASE ~Migrates(opened.db) /\ Refuse(d) /\ UNCHANGED root
    <3>1. Bare(origin.root) /\ Kept # Absent /\ ~Kept.good
      BY <1>2, <1>5, <2>1, <2>3 DEF Migrates, Committed
    <3>2. origin.root # Absent => origin.root.db = Absent
      BY <3>1 DEF Bare, EmptyDirectory
    <3>3. Irreconcilable
      BY <3>1, <3>2 DEF Irreconcilable, Kept
    <3> QED
      BY <2>3, <3>3, RefusesKinds DEF Open
  <2> QED
    BY <2>2, <2>3 DEF Open
<1> QED
  BY <1>4, <1>5 DEF Kinds

LEMMA BootKeeps ==
  ASSUME ConsolidationTypeOK, Kinds, NEW d \in Daemons, OnItsWay(d),
         (\E here \in BOOLEAN : Look(d, here)) \/ Consolidate(d)
  PROVE  Kinds' /\ OnItsWay(d)'
BY LookKeeps, StageKeeps, CopyKeeps, ContributeKeeps, TreeKeeps, ClearKeeps, RenameKeeps,
   VerifyKeeps, RemoveKeeps, OpenKeeps DEF Consolidate

(* Steps that touch neither the disk nor what a daemon is about to do.     *)
LEMMA OthersKeep ==
  ASSUME Kinds, \A d \in Daemons : OnItsWay(d), UNCHANGED <<disk, history>>,
         \A d \in Daemons :
           \/ boot'[d] = boot[d] /\ plan'[d] = plan[d]
           \/ boot'[d] \in {"gone", "serving", "deaf", "started"}
  PROVE  Kinds' /\ \A d \in Daemons : OnItsWay(d)'
<1>1. UNCHANGED <<old, stage, root, origin, refused>>
  BY DEF disk, history
<1>2. Kinds'
  BY <1>1, SameKinds
<1>3. ASSUME NEW d \in Daemons PROVE OnItsWay(d)'
  <2>1. CASE boot'[d] = boot[d] /\ plan'[d] = plan[d]
    BY <1>1, <2>1
    DEF OnItsWay, Migrating, AsFound, Committed, Bare, HadOne, Kept, Merged, OldRows
  <2>2. CASE boot'[d] \in {"gone", "serving", "deaf", "started"}
    BY <2>2 DEF OnItsWay, Migrating
  <2> QED
    BY <2>1, <2>2
<1> QED
  BY <1>2, <1>3

LEMMA KillsKeep ==
  ASSUME NEW gone, KillTree(gone)
  PROVE  \A d \in Daemons :
           \/ boot'[d] = boot[d] /\ plan'[d] = plan[d]
           \/ boot'[d] \in {"gone", "serving", "deaf", "started"}
BY DEF KillTree

LEMMA AllWereNamed ==
  ASSUME [ServiceNext]_serviceVars
  PROVE  abandoned \subseteq abandoned'
<1>1. ASSUME NEW c \in Callers, Call(c) \/ Work(c) \/ Status(c) \/ Interrupt(c)
      PROVE  abandoned \subseteq abandoned'
  BY <1>1 DEF Call, Work, Start, Stop, CheckPid, Choose, WritePid, WritePort, Watch,
     ReadActivePort, Kill, RemoveFiles, Status, Interrupt
<1>2. ASSUME NEW d \in Daemons, Bring(d) \/ Die(d) PROVE abandoned \subseteq abandoned'
  BY <1>2 DEF Bring, LookAround, Prepare, Serve, Die
<1> QED
  BY <1>1, <1>2 DEF ServiceNext, TakePort, serviceVars

LEMMA DiskStarts == ServiceInit => DiskInv
<1> SUFFICES ASSUME ServiceInit PROVE DiskInv
  OBVIOUS
<1>1. Kinds
  BY DEF ServiceInit, ConsolidationInit, Kinds, AsFound, RefusalsHaveAReason
<1>2. \A d \in Daemons : OnItsWay(d)
  BY DEF ServiceInit, ConsolidationInit, OnItsWay, Migrating
<1> QED
  BY <1>1, <1>2 DEF DiskInv

(* One daemon at a time at the disk keeps it of a kind, however many       *)
(* command lines there are.                                                *)
LEMMA DiskSteps ==
  ASSUME ServiceTypeOK, OneAtTheDisk, DiskInv, [ServiceNext]_serviceVars
  PROVE  DiskInv'
<1>1. Kinds /\ \A d \in Daemons : OnItsWay(d)
  BY DEF DiskInv
<1>2. SUFFICES Kinds' /\ \A d \in Daemons : OnItsWay(d)'
  BY DEF DiskInv
<1>3. ConsolidationTypeOK
  BY DEF ServiceTypeOK
<1>4. CASE UNCHANGED serviceVars
  BY <1>1, <1>4, OthersKeep DEF serviceVars, daemonVars
<1>5. ASSUME NEW p \in Ports, TakePort(p)
      PROVE  Kinds' /\ \A d \in Daemons : OnItsWay(d)'
  BY <1>1, <1>5, OthersKeep DEF TakePort, daemonVars
<1>6. ASSUME NEW c \in Callers, Call(c) \/ Work(c) \/ Status(c) \/ Interrupt(c)
      PROVE  Kinds' /\ \A d \in Daemons : OnItsWay(d)'
  <2>1. CASE Choose(c)
    <3>1. UNCHANGED <<disk, plan, history>>
      BY <2>1 DEF Choose
    <3>2. \A d \in Daemons : boot'[d] = boot[d] \/ boot'[d] = "started"
      BY <2>1, <1>3 DEF Choose, Go, ConsolidationTypeOK
    <3> QED
      BY <1>1, <3>1, <3>2, OthersKeep
  <2>2. CASE Kill(c)
    <3>1. UNCHANGED <<disk, history>>
      BY <2>2 DEF Kill
    <3>2. UNCHANGED daemonVars \/ \E gone \in SUBSET Daemons : KillTree(gone)
      BY <2>2, <1>3 DEF Kill, KillPort
    <3> QED
      BY <1>1, <3>1, <3>2, OthersKeep, KillsKeep DEF daemonVars
  <2>3. CASE ~Choose(c) /\ ~Kill(c)
    <3>1. UNCHANGED <<disk, daemonVars, history>>
      BY <1>6, <2>3 DEF Call, Work, Start, Stop, CheckPid, WritePid, WritePort, Watch,
         ReadActivePort, RemoveFiles, Status, Interrupt
    <3> QED
      BY <1>1, <3>1, OthersKeep DEF daemonVars
  <2> QED
    BY <2>1, <2>2, <2>3
<1>7. ASSUME NEW d \in Daemons, Bring(d) \/ Die(d)
      PROVE  Kinds' /\ \A e \in Daemons : OnItsWay(e)'
  <2>1. CASE LookAround(d) \/ Prepare(d)
    <3>1. (\E here \in BOOLEAN : Look(d, here)) \/ Consolidate(d)
      BY <2>1 DEF LookAround, Prepare
    <3>2. boot[d] \in Booting /\ \A e \in Daemons : e # d => boot'[e] = boot[e]
      BY <1>3, <3>1, BootSteps
    <3>3. Kinds' /\ OnItsWay(d)'
      BY <1>1, <1>3, <3>1, BootKeeps
    <3>4. ASSUME NEW e \in Daemons, e # d PROVE OnItsWay(e)'
      <4>1. boot'[e] \notin Booting
        BY <3>2, <3>4 DEF OneAtTheDisk
      <4> QED
        BY <4>1 DEF OnItsWay, Migrating, Booting
    <3> QED
      BY <3>3, <3>4
  <2>2. CASE Serve(d)
    <3>1. UNCHANGED <<disk, plan, history>>
      BY <2>2 DEF Serve
    <3>2. \A e \in Daemons : boot'[e] = boot[e] \/ boot'[e] \in {"serving", "deaf"}
      BY <2>2, <1>3 DEF Serve, Go, ConsolidationTypeOK
    <3> QED
      BY <1>1, <3>1, <3>2, OthersKeep
  <2>3. CASE Die(d)
    BY <1>1, <2>3, OthersKeep, KillsKeep DEF Die
  <2> QED
    BY <1>7, <2>1, <2>2, <2>3 DEF Bring
<1> QED
  BY <1>4, <1>5, <1>6, <1>7 DEF ServiceNext

LEMMA HistorySteps ==
  ASSUME NamesInv, OneCommandLine, HistoryInv, [ServiceNext]_serviceVars
  PROVE  HistoryInv'
<1>1. SUFFICES ASSUME \A d \in Daemons : Named(d)' PROVE DiskInv'
  BY DEF HistoryInv
<1>2. \A d \in Daemons : Named(d)
  BY <1>1, AllWereNamed DEF Named
<1>3. OneAtTheDisk
  BY <1>2, NamesTell DEF DaemonsAreNamed, OneAtTheDisk, Live, Booting
<1> QED
  BY <1>2, <1>3, DiskSteps DEF HistoryInv, NamesInv, StateInv

(* Rows and journals that are where they were, or were committed.          *)
LEMMA KindsKeepHistory ==
  ASSUME ConsolidationTypeOK, Kinds
  PROVE  NothingIsLost /\ TargetIsWhole
<1>1. \A s \in {"surviving", "departing"} : RowsIn(origin.old[s]) \subseteq OldRows
  BY DEF OldRows
<1>2. CASE AsFound
  <2>1. NothingIsLost
    BY <1>2 DEF AsFound, NothingIsLost
  <2>2. ~HadOne /\ root # Absent => root.db = Absent
    BY <1>2 DEF AsFound, Bare, HadOne, EmptyDirectory
  <2>3. TargetIsWhole
    BY <2>2 DEF TargetIsWhole, RowsIn, HadOne
  <2> QED
    BY <2>1, <2>3
<1>3. CASE InPlace
  <2>1. NothingIsLost
    BY <1>3 DEF InPlace, NothingIsLost
  <2>2. ~HadOne => RowsIn(root.db) = {}
    BY <1>3 DEF InPlace, RowsIn, NewDatabase
  <2>3. TargetIsWhole
    BY <2>2 DEF TargetIsWhole, HadOne
  <2> QED
    BY <2>1, <2>3
<1>4. CASE Committed
  <2>1. root # Absent /\ RowsIn(root.db) = OldRows /\ root.runs = origin.old.journals
    BY <1>4, MergedType DEF Committed, RowsIn
  <2>2. NothingIsLost
    BY <1>1, <2>1 DEF NothingIsLost
  <2>3. TargetIsWhole
    BY <2>1 DEF TargetIsWhole
  <2> QED
    BY <2>2, <2>3
<1> QED
  BY <1>2, <1>3, <1>4 DEF Kinds

(* While one daemon at a time comes up, the old rows and journals are kept,*)
(* the root holds all of them or none, and a refusal has a reason that was *)
(* there before: for any number of command lines, whatever they do to each *)
(* other's files, and a death at any step.                                 *)
THEOREM OneAtTheDiskKeepsHistory ==
  ServiceSpec /\ []OneAtTheDisk
    => [](NothingIsLost /\ TargetIsWhole /\ RefusalsHaveAReason)
<1>1. ServiceInit => StateInv /\ DiskInv
  BY StateStarts, DiskStarts
<1>2. OneAtTheDisk /\ StateInv /\ DiskInv /\ [ServiceNext]_serviceVars => (StateInv /\ DiskInv)'
  BY StateSteps, DiskSteps DEF StateInv
<1>3. StateInv /\ DiskInv => NothingIsLost /\ TargetIsWhole /\ RefusalsHaveAReason
  BY KindsKeepHistory DEF DiskInv, Kinds, StateInv, ServiceTypeOK
<1> QED
  BY <1>1, <1>2, <1>3, PTL DEF ServiceSpec

(* The old rows and journals are kept, the root holds all of them or none, *)
(* and a refusal has a reason that was there before the first start, for   *)
(* every machine, any number of daemons and a death at any step.           *)
THEOREM HistoryHolds ==
  ASSUME OneCommandLine
  PROVE  ServiceSpec => []HistoryIsKept
<1>1. ServiceInit => NamesInv /\ HistoryInv
  BY NamesStart, DiskStarts DEF HistoryInv
<1>2. NamesInv /\ HistoryInv /\ [ServiceNext]_serviceVars => (NamesInv /\ HistoryInv)'
  BY NamesStep, HistorySteps
<1>3. NamesInv /\ HistoryInv => HistoryIsKept
  BY KindsKeepHistory
  DEF HistoryInv, DiskInv, HistoryIsKept, Kinds, NamesInv, StateInv, ServiceTypeOK
<1> QED
  BY <1>1, <1>2, <1>3, PTL DEF ServiceSpec
=============================================================================
