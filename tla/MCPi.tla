---------------------------------- MODULE MCPi ----------------------------------
(* pi session files for TLC: small sets of model values. *)
EXTENDS PiSession, TLC

\* Not of Files: one has its session in its name, one does not.
Symmetry == Permutations(Models) \cup Permutations(Turns)
=================================================================================
