---------------------------------- MODULE Usage ----------------------------------
(***************************************************************************)
(* The token counts of a message: what _usage_from of the two parsers      *)
(* (sources/claude_code.py, sources/pi.py) makes of the usage block of an  *)
(* entry, and TokenUsage.__post_init__ (normalize/models.py) of that.      *)
(* `input` stands for the three classes that are counted and priced alike, *)
(* input, output and cache read.  Reasoning tokens are part of the output. *)
(***************************************************************************)
EXTENDS Naturals

CONSTANT None

Split       == [five : Nat, hour : Nat]
ClaudeBlock == [input : Nat, written : Nat, creation : Split \cup {None}]
PiBlock     == [input : Nat, written : Nat, hour : Nat, total : Nat]
Tokens      == [input : Nat, five : Nat, hour : Nat, written : Nat, total : Nat]

\* Python's `or` of two numbers.
Or(x, y) == IF x = 0 THEN y ELSE x

\* TokenUsage: a sum that is zero is made up.
TokenUsage(u) ==
  LET written == Or(u.written, u.five + u.hour)
  IN  [u EXCEPT !.written = written, !.total = Or(@, u.input + written)]

\* Mutant: the total of the writes counts as five-minute writes beside the split.
ClaudeUsageTwice(b) ==
  LET hour == IF b.creation = None THEN 0 ELSE b.creation.hour
  IN  TokenUsage([input |-> b.input, five |-> b.written, hour |-> hour,
                  written |-> b.written, total |-> 0])

\* Without the split of its cache writes, all of them are five-minute writes.
ClaudeUsage(b) ==
  LET split == IF b.creation = None THEN [five |-> b.written, hour |-> 0] ELSE b.creation
  IN  TokenUsage([input |-> b.input, five |-> split.five, hour |-> split.hour,
                  written |-> Or(b.written, split.five + split.hour), total |-> 0])

\* pi's cacheWrite includes cacheWrite1h.
PiUsage(b) ==
  LET five == IF b.hour = 0 THEN b.written
              ELSE IF b.written > b.hour THEN b.written - b.hour ELSE 0
  IN  TokenUsage([input |-> b.input, five |-> five, hour |-> b.hour,
                  written |-> Or(b.written, five + b.hour), total |-> b.total])

\* A block that agrees with itself: the split, if there is one, makes up the total.
ClaudeAgrees(b) == b.creation # None => b.written \in {0, b.creation.five + b.creation.hour}

PiAgrees(b) ==
  /\ b.written = 0 \/ b.hour <= b.written
  /\ b.total \in {0, b.input + Or(b.written, b.hour)}

\* Every token is in one class, and the sums are those of the classes.
AddsUp(u) == u.written = u.five + u.hour /\ u.total = u.input + u.written
==================================================================================
