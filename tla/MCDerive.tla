-------------------------------- MODULE MCDerive --------------------------------
(* Derivations for TLC: dedup keys are numbers, sessions are interchangeable. *)
EXTENDS Derive, TLC

Symmetry == Permutations(Sessions)
=================================================================================
