---------------------------- MODULE ToolCallProofs -----------------------------
(***************************************************************************)
(* Lemmas about ToolCalls that the proofs about both agents rest on.  One  *)
(* pass over the records of an invocation gives the row that merging them  *)
(* one by one gives, and merging one of them again changes nothing, when   *)
(* there is at most one call and at most one result among them.            *)
(***************************************************************************)
EXTENDS ToolCalls, TLAPS

--------------------------------------------------------------------------------
\* Types.

LEMMA HalfRows ==
  ASSUME NEW ts \in Nat
  PROVE  CallRow(ts) \in Row /\ \A e \in BOOLEAN : ResultRow(ts, e) \in Row
  BY DEF CallRow, ResultRow, Row

LEMMA MergedRow ==
  ASSUME NEW old \in Row, NEW new \in Row
  PROVE  MergeRow(old, new) \in Row
  <1> DEFINE ts  == Coalesce(old.ts, new.ts)
             rts == Coalesce(new.rts, old.rts)
             d   == IF ts # None /\ rts # None THEN rts - ts ELSE old.duration
  <1>1. ts \in Nat \cup {None} /\ rts \in Nat \cup {None}
    BY DEF Coalesce, Row
  <1>2. Coalesce(new.err, old.err) \in BOOLEAN \cup {None}
    BY DEF Coalesce, Row
  <1>3. d \in Int \cup {None}
    <2>1. old.duration \in Int \cup {None}
      BY DEF Row
    <2> HIDE DEF ts, rts
    <2> QED
      BY <1>1, <2>1
  <1>4. MergeRow(old, new) = [ts |-> ts, rts |-> rts, err |-> Coalesce(new.err, old.err),
                              duration |-> d]
    BY DEF MergeRow
  <1> HIDE DEF ts, rts, d
  <1> QED
    BY <1>1, <1>2, <1>3, <1>4 DEF Row

\* An insert keeps a table of tool calls one.
LEMMA UpsertedCalls ==
  ASSUME NEW K, NEW calls \in [K -> Row \cup {None}], NEW k \in K, NEW row \in Row
  PROVE  UpsertCall(calls, k, row) \in [K -> Row \cup {None}]
  <1>1. (IF calls[k] = None THEN row ELSE MergeRow(calls[k], row)) \in Row
    BY MergedRow
  <1> QED
    BY <1>1 DEF UpsertCall

--------------------------------------------------------------------------------
\* One pass.

IsCall(rec)   == \E ts \in Nat : rec = CallRow(ts)
IsResult(rec) == \E ts \in Nat, e \in BOOLEAN : rec = ResultRow(ts, e)

\* Calls and results by position, at most one of each.
Single(recs) ==
  /\ DOMAIN recs \subseteq Nat
  /\ \A x \in DOMAIN recs : IsCall(recs[x]) \/ IsResult(recs[x])
  /\ \A x, y \in DOMAIN recs : IsCall(recs[x]) /\ IsCall(recs[y]) => x = y
  /\ \A x, y \in DOMAIN recs : IsResult(recs[x]) /\ IsResult(recs[y]) => x = y

\* What a half supplies, and what it leaves open.
LEMMA Halves ==
  /\ \A rec : IsCall(rec) => /\ rec \in Row /\ rec.ts \in Nat /\ rec.ts # None
                             /\ rec.rts = None /\ rec.err = None /\ rec.duration = None
  /\ \A rec : IsResult(rec) => /\ rec \in Row /\ rec.ts = None /\ rec.rts \in Nat
                               /\ rec.rts # None /\ rec.err \in BOOLEAN /\ rec.err # None
                               /\ rec.duration = None
  <1>1. ASSUME NEW ts \in Nat
        PROVE  LET rec == CallRow(ts)
               IN  /\ rec \in Row /\ rec.ts \in Nat /\ rec.ts # None
                   /\ rec.rts = None /\ rec.err = None /\ rec.duration = None
    BY HalfRows, NullAssumption DEF CallRow
  <1>2. ASSUME NEW ts \in Nat, NEW e \in BOOLEAN
        PROVE  LET rec == ResultRow(ts, e)
               IN  /\ rec \in Row /\ rec.ts = None /\ rec.rts \in Nat
                   /\ rec.rts # None /\ rec.err \in BOOLEAN /\ rec.err # None
                   /\ rec.duration = None
    BY HalfRows, NullAssumption DEF ResultRow
  <1>3. ASSUME NEW rec, IsCall(rec)
        PROVE  /\ rec \in Row /\ rec.ts \in Nat /\ rec.ts # None
               /\ rec.rts = None /\ rec.err = None /\ rec.duration = None
    BY <1>1, <1>3 DEF IsCall
  <1>4. ASSUME NEW rec, IsResult(rec)
        PROVE  /\ rec \in Row /\ rec.ts = None /\ rec.rts \in Nat
               /\ rec.rts # None /\ rec.err \in BOOLEAN /\ rec.err # None
               /\ rec.duration = None
    <2>1. PICK ts \in Nat, e \in BOOLEAN : rec = ResultRow(ts, e)
      BY <1>4 DEF IsResult
    <2> QED
      BY <1>2, <2>1
  <1> QED
    BY <1>3, <1>4

LEMMA EitherHalf ==
  ~IsCall(None) /\ ~IsResult(None) /\ \A rec : ~(IsCall(rec) /\ IsResult(rec))
  BY Halves, NullAssumption

\* The row that joins a call c (None: there is none) and a result r.
Joined(c, r) ==
  [ts  |-> IF c = None THEN None ELSE c.ts,
   rts |-> IF r = None THEN None ELSE r.rts,
   err |-> IF r = None THEN None ELSE r.err,
   duration |-> IF c = None \/ r = None THEN None ELSE r.rts - c.ts]

\* Merging a half into what the other one left, or into a row that has it.
LEMMA MergedHalves ==
  /\ \A c : IsCall(c)   => Joined(c, None) = c /\ c # None
  /\ \A r : IsResult(r) => Joined(None, r) = r /\ r # None
  /\ \A c, r : IsCall(c) /\ IsResult(r) =>
       /\ MergeRow(r, c) = Joined(c, r)
       /\ MergeRow(c, r) = Joined(c, r)
       /\ MergeRow(Joined(c, r), c) = Joined(c, r)
       /\ MergeRow(Joined(c, r), r) = Joined(c, r)
       /\ Joined(c, r) # None
  /\ \A c : IsCall(c)   => MergeRow(c, c) = c
  /\ \A r : IsResult(r) => MergeRow(r, r) = r
  <1>1. ASSUME NEW c, IsCall(c) PROVE Joined(c, None) = c /\ c # None /\ MergeRow(c, c) = c
    <2>1. PICK ts \in Nat : c = CallRow(ts)
      BY <1>1 DEF IsCall
    <2>2. c # None
      BY <1>1, Halves, NullAssumption
    <2> QED
      BY <2>1, <2>2, NullAssumption DEF Joined, CallRow, MergeRow, Coalesce
  <1>2. ASSUME NEW r, IsResult(r) PROVE Joined(None, r) = r /\ r # None /\ MergeRow(r, r) = r
    <2>1. PICK ts \in Nat, e \in BOOLEAN : r = ResultRow(ts, e)
      BY <1>2 DEF IsResult
    <2>2. r # None
      BY <1>2, Halves, NullAssumption
    <2> QED
      BY <2>1, <2>2, NullAssumption DEF Joined, ResultRow, MergeRow, Coalesce
  <1>3. ASSUME NEW c, NEW r, IsCall(c), IsResult(r)
        PROVE  /\ MergeRow(r, c) = Joined(c, r)
               /\ MergeRow(c, r) = Joined(c, r)
               /\ MergeRow(Joined(c, r), c) = Joined(c, r)
               /\ MergeRow(Joined(c, r), r) = Joined(c, r)
               /\ Joined(c, r) # None
    <2>1. /\ c.ts \in Nat /\ c.ts # None /\ c.rts = None /\ c.err = None /\ c.duration = None
          /\ r.ts = None /\ r.rts \in Nat /\ r.rts # None /\ r.err \in BOOLEAN /\ r.err # None
          /\ r.duration = None /\ c # None /\ r # None
      BY <1>1, <1>2, <1>3, Halves
    <2>2. Joined(c, r) = [ts |-> c.ts, rts |-> r.rts, err |-> r.err, duration |-> r.rts - c.ts]
      BY <2>1 DEF Joined
    <2>3. Joined(c, r) \in Row
      BY <2>1, <2>2 DEF Row
    <2> QED
      BY <2>1, <2>2, <2>3, NullAssumption DEF MergeRow, Coalesce
  <1> QED
    BY <1>1, <1>2, <1>3

\* The call and the result among the records, None if there is none.
Halved(recs, c, r) ==
  /\ c = None \/ IsCall(c)
  /\ r = None \/ IsResult(r)
  /\ \A x \in DOMAIN recs : recs[x] = c \/ recs[x] = r
  /\ c # None => \E x \in DOMAIN recs : recs[x] = c
  /\ r # None => \E x \in DOMAIN recs : recs[x] = r

LEMMA CanHalve ==
  ASSUME NEW recs, Single(recs)
  PROVE  \E c, r : Halved(recs, c, r)
  <1>1. PICK c : IF \E x \in DOMAIN recs : IsCall(recs[x])
                 THEN \E x \in DOMAIN recs : IsCall(recs[x]) /\ c = recs[x]
                 ELSE c = None
    OBVIOUS
  <1>2. PICK r : IF \E x \in DOMAIN recs : IsResult(recs[x])
                 THEN \E x \in DOMAIN recs : IsResult(recs[x]) /\ r = recs[x]
                 ELSE r = None
    OBVIOUS
  <1>3. Halved(recs, c, r)
    BY <1>1, <1>2 DEF Halved, Single
  <1> QED
    BY <1>3

\* The call and the result are all that one pass sees.
LEMMA CallOfHalves ==
  ASSUME NEW recs, Single(recs), NEW c, NEW r, Halved(recs, c, r)
  PROVE  CallOf(recs) = IF c = None /\ r = None THEN None ELSE Joined(c, r)
  <1> DEFINE C == {x \in DOMAIN recs : recs[x].ts # None}
             R == {x \in DOMAIN recs : recs[x].rts # None}
             a == CHOOSE x \in C : \A y \in C : x <= y
             b == CHOOSE x \in R : \A y \in R : y <= x
  <1>1. \A x \in DOMAIN recs : (x \in C <=> IsCall(recs[x])) /\ (x \in R <=> IsResult(recs[x]))
    BY Halves DEF Single
  <1>2. /\ \A x, y \in C : x = y
        /\ \A x, y \in R : x = y
        /\ C \subseteq Nat /\ R \subseteq Nat
    BY <1>1 DEF Single
  <1>3. c # None => IsCall(c) /\ ~IsResult(c)
    BY Halves DEF Halved
  <1>4. r # None => IsResult(r) /\ ~IsCall(r)
    BY Halves DEF Halved
  <1>5. ASSUME c # None PROVE C # {} /\ recs[a] = c
    <2>1. PICK x \in DOMAIN recs : recs[x] = c
      BY <1>5 DEF Halved
    <2>2. x \in C /\ \A y \in C : x <= y
      BY <1>1, <1>2, <1>3, <1>5, <2>1
    <2>3. a \in C
      BY <2>2
    <2> QED
      BY <1>2, <2>1, <2>2, <2>3
  <1>6. ASSUME r # None PROVE R # {} /\ recs[b] = r
    <2>1. PICK x \in DOMAIN recs : recs[x] = r
      BY <1>6 DEF Halved
    <2>2. x \in R /\ \A y \in R : y <= x
      BY <1>1, <1>2, <1>4, <1>6, <2>1
    <2>3. b \in R
      BY <2>2
    <2> QED
      BY <1>2, <2>1, <2>2, <2>3
  <1>7. c = None => C = {}
    BY <1>1, EitherHalf DEF Halved
  <1>8. r = None => R = {}
    BY <1>1, EitherHalf DEF Halved
  <1>9. CallOf(recs) =
          IF C \cup R = {} THEN None
          ELSE [ts  |-> IF C = {} THEN None ELSE recs[a].ts,
                rts |-> IF R = {} THEN None ELSE recs[b].rts,
                err |-> IF R = {} THEN None ELSE recs[b].err,
                duration |-> IF C = {} \/ R = {} THEN None ELSE recs[b].rts - recs[a].ts]
    BY DEF CallOf
  <1> HIDE DEF C, R, a, b
  <1>10. CASE c = None /\ r = None
    BY <1>7, <1>8, <1>9, <1>10
  <1>11. CASE c # None /\ r = None
    BY <1>5, <1>8, <1>9, <1>11 DEF Joined
  <1>12. CASE c = None /\ r # None
    BY <1>6, <1>7, <1>9, <1>12 DEF Joined
  <1>13. CASE c # None /\ r # None
    BY <1>5, <1>6, <1>9, <1>13 DEF Joined
  <1> QED
    BY <1>10, <1>11, <1>12, <1>13

\* A record more, and the row of one pass is the row so far merged with it.
LEMMA CallOfNext ==
  ASSUME NEW recs, NEW more, Single(more), NEW n,
         DOMAIN more = DOMAIN recs \cup {n}, n \notin DOMAIN recs,
         \A x \in DOMAIN recs : more[x] = recs[x]
  PROVE  CallOf(more) =
           IF CallOf(recs) = None THEN more[n] ELSE MergeRow(CallOf(recs), more[n])
  <1>1. Single(recs)
    BY DEF Single
  <1>2. PICK c, r : Halved(recs, c, r)
    BY <1>1, CanHalve
  <1>3. CallOf(recs) = IF c = None /\ r = None THEN None ELSE Joined(c, r)
    BY <1>1, <1>2, CallOfHalves
  <1>4. CASE IsCall(more[n])
    <2>1. c = None
      <3> SUFFICES ASSUME c # None PROVE FALSE
        OBVIOUS
      <3>1. PICK x \in DOMAIN recs : recs[x] = c
        BY <1>2 DEF Halved
      <3>2. x \in DOMAIN more /\ n \in DOMAIN more /\ IsCall(more[x])
        BY <1>2, <3>1 DEF Halved
      <3> QED
        BY <1>4, <3>2 DEF Single
    <2>2. Halved(more, more[n], r)
      <3>1. \A x \in DOMAIN recs : recs[x] # None
        BY <1>1, EitherHalf DEF Single
      <3>2. n \in DOMAIN more
        OBVIOUS
      <3> QED
        BY <1>2, <1>4, <2>1, <3>1, <3>2 DEF Halved
    <2>3. CallOf(more) = Joined(more[n], r)
      BY <1>4, <2>2, CallOfHalves, MergedHalves
    <2> QED
      BY <1>2, <1>3, <1>4, <2>1, <2>3, MergedHalves DEF Halved
  <1>5. CASE IsResult(more[n])
    <2>1. r = None
      <3> SUFFICES ASSUME r # None PROVE FALSE
        OBVIOUS
      <3>1. PICK x \in DOMAIN recs : recs[x] = r
        BY <1>2 DEF Halved
      <3>2. x \in DOMAIN more /\ n \in DOMAIN more /\ IsResult(more[x])
        BY <1>2, <3>1 DEF Halved
      <3> QED
        BY <1>5, <3>2 DEF Single
    <2>2. Halved(more, c, more[n])
      <3>1. \A x \in DOMAIN recs : recs[x] # None
        BY <1>1, EitherHalf DEF Single
      <3>2. n \in DOMAIN more
        OBVIOUS
      <3> QED
        BY <1>2, <1>5, <2>1, <3>1, <3>2 DEF Halved
    <2>3. CallOf(more) = Joined(c, more[n])
      BY <1>5, <2>2, CallOfHalves, MergedHalves
    <2> QED
      BY <1>2, <1>3, <1>5, <2>1, <2>3, MergedHalves DEF Halved
  <1> QED
    BY <1>4, <1>5 DEF Single

\* One of the records again, and the row stays what it is.
LEMMA CallOfAgain ==
  ASSUME NEW recs, Single(recs), NEW n \in DOMAIN recs
  PROVE  CallOf(recs) # None /\ MergeRow(CallOf(recs), recs[n]) = CallOf(recs)
  <1>1. PICK c, r : Halved(recs, c, r)
    BY CanHalve
  <1>2. CallOf(recs) = IF c = None /\ r = None THEN None ELSE Joined(c, r)
    BY <1>1, CallOfHalves
  <1>3. \/ recs[n] = c /\ IsCall(c) /\ (r = None \/ IsResult(r))
        \/ recs[n] = r /\ IsResult(r) /\ (c = None \/ IsCall(c))
    <2>1. IsCall(recs[n]) \/ IsResult(recs[n])
      BY DEF Single
    <2> QED
      BY <1>1, <2>1, MergedHalves DEF Halved
  <1> QED
    BY <1>2, <1>3, MergedHalves
================================================================================
