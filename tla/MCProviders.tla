----------------------------- MODULE MCProviders -----------------------------
(***************************************************************************)
(* Instances of Providers for TLC.                                         *)
(***************************************************************************)
EXTENDS Providers, TLC

CONSTANTS t1, t2, p1, p2, m1, m2, a1, a2, s1, s2, s3

MCTasks     == {t1, t2}
MCProviders == {p1, p2}
MCModels    == {m1, m2}
MCAccounts  == {a1, a2}
MCSecrets   == {s1, s2, s3}

Symmetry ==
  Permutations(MCTasks) \cup Permutations(MCProviders) \cup Permutations(MCModels)
    \cup Permutations(MCAccounts) \cup Permutations(MCSecrets)
=============================================================================
