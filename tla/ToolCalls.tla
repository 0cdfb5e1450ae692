------------------------------- MODULE ToolCalls -------------------------------
(***************************************************************************)
(* The row of one tool invocation (src/tracker/db/store.py,                *)
(* upsert_tool_calls).  The line of the call and the line of its result    *)
(* are separate records with one key; each brings its half of the row, in  *)
(* whatever order and however often they are read.                         *)
(***************************************************************************)
EXTENDS Integers, Sequences

CONSTANT None   \* NULL

\* The record of a call: it supplies the timestamp.
CallRow(ts) == [ts |-> ts, rts |-> None, err |-> None, duration |-> None]

\* The record of a result: it supplies the outcome.
ResultRow(ts, err) == [ts |-> None, rts |-> ts, err |-> err, duration |-> None]

Coalesce(a, b) == IF a # None THEN a ELSE b

\* Mutant: the duration is only computed by a record that has both halves.
MergeRowNoDuration(old, new) ==
  [ts |-> Coalesce(old.ts, new.ts), rts |-> Coalesce(new.rts, old.rts),
   err |-> Coalesce(new.err, old.err), duration |-> old.duration]

\* ON CONFLICT DO UPDATE: the first call and the last result win.
MergeRow(old, new) ==
  LET ts  == Coalesce(old.ts, new.ts)
      rts == Coalesce(new.rts, old.rts)
  IN  [ts |-> ts, rts |-> rts, err |-> Coalesce(new.err, old.err),
       duration |-> IF ts # None /\ rts # None THEN rts - ts ELSE old.duration]

\* INSERT ... ON CONFLICT: calls maps each key to its row, None if it has none.
UpsertCall(calls, k, row) ==
  [calls EXCEPT ![k] = IF @ = None THEN row ELSE MergeRow(@, row)]

\* A row, and the record that an insert makes one.
Row == [ts : Nat \cup {None}, rts : Nat \cup {None}, err : BOOLEAN \cup {None},
        duration : Int \cup {None}]

ASSUME NullAssumption == None \notin Nat \cup BOOLEAN /\ None \notin Row

\* Reference: what call and result records, by their position in a file, say of one
\* invocation, read as a whole.  CallOf is the first call joined with the last result.
CallOf(recs) ==
  LET C == {x \in DOMAIN recs : recs[x].ts # None}
      R == {x \in DOMAIN recs : recs[x].rts # None}
      c == CHOOSE x \in C : \A y \in C : x <= y
      r == CHOOSE x \in R : \A y \in R : y <= x
  IN  IF C \cup R = {} THEN None
      ELSE [ts  |-> IF C = {} THEN None ELSE recs[c].ts,
            rts |-> IF R = {} THEN None ELSE recs[r].rts,
            err |-> IF R = {} THEN None ELSE recs[r].err,
            duration |-> IF C = {} \/ R = {} THEN None ELSE recs[r].rts - recs[c].ts]
================================================================================
