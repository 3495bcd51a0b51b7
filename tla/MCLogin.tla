------------------------------ MODULE MCLogin ------------------------------
(***************************************************************************)
(* Instances of Login for TLC.                                             *)
(***************************************************************************)
EXTENDS Login

CONSTANTS a1, a2, b1, b2, u1

TwoAttempts  == {a1, a2}
TwoCallbacks == {b1, b2}
OneClient    == {u1}

On(os, admin, hands) == [os |-> os, admin |-> admin, hands |-> hands]

(* One of each kind whose answers differ.                                  *)
SomeMachines ==
  {On("linux", FALSE, FALSE), On("mac", FALSE, TRUE), On("windows", TRUE, TRUE)}

Plain == UnixMakes("directory", FALSE)

SomeDirectories == {Absent, [Plain EXCEPT !.hands = TRUE], [Plain EXCEPT !.open = {"mode"}]}
=============================================================================
