------------------------------ MODULE MCPairing ------------------------------
(***************************************************************************)
(* Instances of Pairing for TLC.                                           *)
(***************************************************************************)
EXTENDS Pairing, TLC

CONSTANTS h1, h2, p1, p2, none, owner, d1, d2, nodev

MCHandlers == {h1, h2}
MCPeers    == {p1, p2}
MCDevices  == {d1, d2}

Symmetry ==
  Permutations(MCHandlers) \cup Permutations(MCPeers) \cup Permutations(MCDevices)
=============================================================================
