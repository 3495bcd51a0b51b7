---------------------------- MODULE MCComputerUse ----------------------------
(* An instance of ComputerUse for TLC: the second release has another      *)
(* build of the same Python under the same packages, the third another     *)
(* Python and other packages, the fourth has gone back to what the first   *)
(* needs, with another bootstrap.py.                                       *)
EXTENDS ComputerUse, TLC

FourReleases == 1..4
First == [python |-> "3.12", build |-> "june", generation |-> "cua-1"]
SomePins ==
  <<First,
    [python |-> "3.12", build |-> "august", generation |-> "cua-1"],
    [python |-> "3.13", build |-> "august", generation |-> "cua-2"],
    First>>

Symmetry == Permutations(Requests)

(* Bound: requests turn the switch before the first update, whose steps    *)
(* then find it as it was first set.  They share the daemon, and neither   *)
(* looks at what the other keeps there.                                    *)
RequestsBeforeUpdates ==
  \/ update = Nothing /\ head = 1
  \/ setting /\ apart = {} /\ put = [q \in Requests |-> NoPut]
     /\ (daemon # Nothing => daemon.told)
=============================================================================
