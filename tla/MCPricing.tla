------------------------------- MODULE MCPricing -------------------------------
(* Pricing for TLC: a listed model, <synthetic>, and usage blocks that agree. *)
EXTENDS Pricing, TLC

CONSTANTS opus, synthetic

\* No cache, an old transcript without a split, a split, and a split without a total.
MCClaudeBlocks == {
  [input |-> 1, written |-> 0, creation |-> None],
  [input |-> 1, written |-> 1, creation |-> None],
  [input |-> 0, written |-> 2, creation |-> [five |-> 1, hour |-> 1]],
  [input |-> 1, written |-> 0, creation |-> [five |-> 0, hour |-> 1]]}

\* A total with and without the part of an hour, and that part alone.
MCPiBlocks == {
  [input |-> 1, written |-> 2, hour |-> 1, total |-> 3],
  [input |-> 1, written |-> 1, hour |-> 0, total |-> 0],
  [input |-> 0, written |-> 0, hour |-> 1, total |-> 1]}

MCTargetOf == opus :> opus @@ synthetic :> ZeroRated
================================================================================
