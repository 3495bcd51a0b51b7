-------------------------- MODULE MCRunSupervisor --------------------------
(* Instances of RunSupervisor for TLC.                                     *)
EXTENDS RunSupervisor, TLC

CONSTANTS r1, r2, t1, t2, t3, c1, c2

OneRun     == {r1}
TwoRuns    == {r1, r2}
TwoTasks   == {t1, t2}
ThreeTasks == {t1, t2, t3}
OneCaller  == {c1}
TwoCallers == {c1, c2}

(* Generations, handlers and runs are only compared for equality.          *)
Symmetry2 == Permutations(ThreeTasks) \cup Permutations(TwoCallers)

(* Frames are written and never read, so a run whose properties do not     *)
(* mention them need not tell two states apart by them, nor by what a task *)
(* or a handler that is done still holds.                                  *)
Doing(t) == pc[t] \notin {"free", "gone"}
WithoutFrames ==
  <<row, ask, active, pc, phase, scan, crashes, accepted, dropped,
    unsettled, handler,
    [t \in {u \in Tasks : Doing(u)} |-> <<run[t], token[t]>>],
    [t \in {u \in Tasks : pc[u] \in {"closing", "announcing"}} |-> outcome[t]],
    [c \in {d \in Callers : handler[d] # "idle"} |-> target[c]]>>

=============================================================================
