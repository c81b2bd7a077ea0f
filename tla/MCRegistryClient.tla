-------------------------- MODULE MCRegistryClient --------------------------
(* Small instances of RegistryClient for TLC: the futures are interchangeable. *)
EXTENDS RegistryClient, TLC

FutureSymmetry == Permutations(Futures)
=============================================================================
