----------------------------- MODULE MCService -----------------------------
(* Instances of Service for TLC: what a machine may hold before the first  *)
(* start of this release.                                                  *)
EXTENDS Service, TLC

CONSTANTS a, b, d1, d2, cli1

TwoRuns == {a, b}
TwoDaemons == {d1, d2}
OneCaller == {cli1}
Symmetry == Permutations(TwoDaemons)
TwoPorts == 0..1
Default == {0}

Good(rows) == [rows |-> rows, good |-> TRUE]
Bad(rows)  == [rows |-> rows, good |-> FALSE]
Old(surviving, departing, journals) ==
  [surviving |-> surviving, departing |-> departing, journals |-> journals]
Machine(sources, dir) == [old |-> sources, root |-> dir]

Both   == Old(Good({a}), Good({b}), Absent)
Shared == Old(Good({a}), Good({a, b}), Absent)
Single == Old(Absent, Good({b}), {a})
Newer  == Old(Bad({a}), Good({b}), Absent)
Ours    == [EmptyDirectory EXCEPT !.other = "ours"]
Used    == [EmptyDirectory EXCEPT !.db = Good({b})]
Foreign == [EmptyDirectory EXCEPT !.other = "foreign"]

SomeMachines ==
  {Machine(Both, Absent), Machine(Shared, Absent), Machine(Newer, Absent),
   Machine(Single, Absent), Machine(Single, Ours), Machine(Single, Foreign),
   Machine(Single, Used)}

=============================================================================
