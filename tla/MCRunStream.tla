---------------------------- MODULE MCRunStream ----------------------------
(* Instances of RunStream for TLC: sockets of one phone and the command    *)
(* line's.                                                                 *)
EXTENDS RunStream, TLC

CONSTANTS phone, first, follower

OnePhone     == {phone}
TwoSockets   == {first, follower}

(* A completed or failed run ends a watch like a cancelled one and is shown *)
(* to phones like any step.                                                *)
SomeKinds == {"step", "cancelled"}
Cancelled == {"cancelled"}

Owners == [s \in Sockets |-> IF s = follower THEN NoDevice ELSE phone]
=============================================================================
