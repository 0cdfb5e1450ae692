-------------------------------- MODULE MCClaude --------------------------------
(* Claude transcripts for TLC: small sets of model values. *)
EXTENDS SubagentRuns, TLC

Symmetry == Permutations(Transcripts) \cup Permutations(Responses) \cup Permutations(Tools)
=================================================================================
