-------------------------- MODULE ReplayRegistryMC --------------------------
(* Instances of ReplayRegistry for TLC. *)
EXTENDS ReplayRegistry, TLC

Symmetry == Permutations(Principals) \cup Permutations(Callers)
            \cup Permutations(Fingerprints)
=============================================================================
