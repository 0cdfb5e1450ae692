------------------------------ MODULE DeriveProofs ------------------------------
(***************************************************************************)
(* Theorems about Derive, for any sessions, messages, window and clock:    *)
(* the incremental derivation agrees with the full one wherever the module *)
(* says it does.                                                           *)
(***************************************************************************)
EXTENDS Derive, FiniteSetTheorems, WellFoundedInduction, TLAPS

---------------------------------------------------------------------------------
\* Least and greatest elements.

\* A set of numbers that is not empty has a least one.
LEMMA LeastNumber ==
  ASSUME NEW S \in SUBSET Nat, S # {}
  PROVE  \E x \in S : \A y \in S : x <= y
<1>1. PICK x \in S : \A y \in S : <<y, x>> \notin OpToRel(<, Nat)
  BY NatLessThanWellFounded, WFMin
<1>2. \A y \in S : ~(y < x)
  BY <1>1 DEF OpToRel
<1> QED
  BY <1>2

LEMMA MinNumber ==
  ASSUME NEW S \in SUBSET Nat, S # {}
  PROVE  Min(S) \in S /\ \A y \in S : Min(S) <= y
BY LeastNumber DEF Min

LEMMA MaxNumber ==
  ASSUME NEW S \in SUBSET Nat, S # {}, NEW b \in Nat, \A x \in S : x <= b
  PROVE  Max(S) \in S /\ \A y \in S : Max(S) >= y
<1> DEFINE T == {b - x : x \in S}
<1>1. \A x \in S : b - x \in Nat
  OBVIOUS
<1>0. T \in SUBSET Nat /\ T # {}
  BY <1>1
<1>2. PICK t \in T : \A u \in T : t <= u
  BY <1>0, LeastNumber
<1>3. PICK x \in S : t = b - x
  BY <1>2
<1>4. \A y \in S : x >= y
  BY <1>2, <1>3
<1> QED
  BY <1>4 DEF Max

---------------------------------------------------------------------------------
\* Types.

\* What is stored has a row, of a session.
LEMMA StoredRow ==
  ASSUME TypeOK, NEW m \in Stored
  PROVE  m \in Messages /\ rows[m] \in MessageRow
BY DEF Stored, TypeOK

LEMMA StoredFields ==
  ASSUME TypeOK, NEW m \in Stored
  PROVE  /\ m \in Nat /\ rows[m].session \in Sessions /\ rows[m].sub \in BOOLEAN
         /\ rows[m].ts \in Nat /\ rows[m].latency \in Nat \cup {None}
BY StoredRow, DeriveAssumption DEF MessageRow

LEMMA LatencyType ==
  ASSUME TypeOK, NEW m \in Stored
  PROVE  Latency(m) \in Nat \cup {None}
<1> DEFINE delta == rows[m].ts - Max({rows[n].ts : n \in Before(m)})
<1>1. CASE Before(m) = {}
  BY <1>1 DEF Latency
<1>2. CASE Before(m) # {}
  <2>1. Latency(m) = IF delta \in 0..MaxLatency THEN delta ELSE None
    BY <1>2 DEF Latency
  <2> HIDE DEF delta
  <2> QED
    BY <2>1, DeriveAssumption
<1> QED
  BY <1>1, <1>2

LEMMA RollupType ==
  ASSUME TypeOK, \A m \in Stored : rows[m].ts <= now, NEW s \in Sessions, InSession(s) # {}
  PROVE  Rollup(s) \in SessionRow
<1> DEFINE times  == {rows[m].ts : m \in InSession(s)}
           subs   == {m \in InSession(s) : rows[m].sub}
           priced == InSession(s) \ Unpriced
<1>1. InSession(s) \subseteq Stored /\ Stored \subseteq Messages
  BY DEF InSession, Stored
<1>2. \A S \in SUBSET Messages : Cardinality(S) \in Nat
  BY DeriveAssumption, FS_Subset, FS_CardinalityType
<1>3. Cardinality(InSession(s)) \in Nat /\ Cardinality(subs) \in Nat
  BY <1>1, <1>2
<1>4. Cost(s) \in Nat \cup {None}
  BY <1>1, <1>2 DEF Cost
<1>5. times \in SUBSET Nat /\ times # {}
  BY <1>1, StoredFields
<1>6. Min(times) \in Nat
  BY <1>5, MinNumber
<1>7. Max(times) \in Nat
  <2>1. now \in Nat /\ \A x \in times : x <= now
    BY <1>1 DEF TypeOK
  <2> HIDE DEF times
  <2> QED
    BY <1>5, <2>1, MaxNumber
<1>8. errors[s] \in Nat
  BY DEF TypeOK
<1> HIDE DEF times, subs
<1> QED
  BY <1>3, <1>4, <1>6, <1>7, <1>8 DEF Rollup, SessionRow, times, subs

---------------------------------------------------------------------------------
\* What a step does to rows it does not add, and to what is derived from them.

\* A row is kept: it is as it was, except for its latency.
Kept(m) ==
  /\ rows'[m] # None
  /\ rows'[m].session = rows[m].session /\ rows'[m].sub = rows[m].sub /\ rows'[m].ts = rows[m].ts

\* A session that keeps its rows and errors, and gets no new ones, keeps its rollup.
LEMMA RollupKept ==
  ASSUME NEW s \in Sessions, InSession(s)' = InSession(s),
         \A m \in InSession(s) : Kept(m), errors'[s] = errors[s]
  PROVE  Rollup(s)' = Rollup(s)
<1>1. {rows'[m].ts : m \in InSession(s)} = {rows[m].ts : m \in InSession(s)}
  BY DEF Kept
<1>2. {m \in InSession(s) : rows'[m].sub} = {m \in InSession(s) : rows[m].sub}
  BY DEF Kept
<1>3. Cost(s)' = Cost(s)
  BY DEF Cost
<1> QED
  BY <1>1, <1>2, <1>3 DEF Rollup

\* A message before which nothing new is stored keeps its latency.
LEMMA LatencyKept ==
  ASSUME NEW m \in Stored, Kept(m), Before(m)' = Before(m), \A n \in Before(m) : Kept(n)
  PROVE  Latency(m)' = Latency(m)
<1>1. {rows'[n].ts : n \in Before(m)} = {rows[n].ts : n \in Before(m)}
  BY DEF Kept
<1>2. rows'[m].ts = rows[m].ts
  BY DEF Kept
<1> QED
  BY <1>1, <1>2 DEF Latency

\* If nothing is added and everything kept, everything derived stays as it is.
LEMMA NothingAdded ==
  ASSUME Stored' = Stored, \A m \in Stored : Kept(m)
  PROVE  /\ \A s \in Sessions : InSession(s)' = InSession(s)
         /\ \A m \in Stored : Latency(m)' = Latency(m)
<1>1. \A s \in Sessions : InSession(s)' = InSession(s)
  BY DEF InSession, Kept
<1>2. ASSUME NEW m \in Stored
      PROVE  Latency(m)' = Latency(m)
  <2>1. Before(m)' = Before(m) /\ Before(m) \subseteq Stored
    BY DEF Before, SameThread, Precedes, Kept
  <2> QED
    BY <2>1, LatencyKept
<1> QED
  BY <1>1, <1>2

\* A derivation changes latencies only.
LEMMA DeriveKeeps ==
  ASSUME TypeOK, NEW full \in BOOLEAN, Derive(full)
  PROVE  /\ Stored' = Stored
         /\ \A m \in Stored : Kept(m)
         /\ \A m \in Stored :
              rows'[m].latency = IF full \/ rows[m].latency = None THEN Latency(m)
                                 ELSE rows[m].latency
         /\ rows' \in [Messages -> MessageRow \cup {None}]
<1>1. ASSUME NEW m \in Messages, rows[m] = None
      PROVE  rows'[m] = None
  BY <1>1 DEF Derive, Backfilled, Stored
<1>2. ASSUME NEW m \in Stored
      PROVE  /\ Kept(m) /\ rows'[m] \in MessageRow
             /\ rows'[m].latency = IF full \/ rows[m].latency = None THEN Latency(m)
                                    ELSE rows[m].latency
  <2>1. m \in Messages /\ rows[m] \in MessageRow /\ rows[m] # None
    BY StoredRow DEF Stored
  <2>2. Latency(m) \in Nat \cup {None}
    BY LatencyType
  <2>3. CASE full \/ rows[m].latency = None
    <3>1. rows'[m] = [rows[m] EXCEPT !.latency = Latency(m)]
      BY <2>1, <2>3 DEF Derive, Backfilled
    <3>2. rows'[m] \in MessageRow
      BY <2>1, <2>2, <3>1, Zenon DEF MessageRow
    <3>3. /\ rows'[m].session = rows[m].session /\ rows'[m].sub = rows[m].sub
          /\ rows'[m].ts = rows[m].ts /\ rows'[m].latency = Latency(m)
      BY <2>1, <3>1 DEF MessageRow
    <3>4. rows'[m] # None
      BY <3>2, DeriveAssumption
    <3> QED
      BY <2>3, <3>2, <3>3, <3>4 DEF Kept
  <2>4. CASE ~full /\ rows[m].latency # None
    <3>1. rows'[m] = rows[m]
      BY <2>1, <2>4 DEF Derive, Backfilled
    <3> QED
      BY <2>1, <2>4, <3>1 DEF Kept
  <2> QED
    BY <2>3, <2>4
<1>3. Stored' = Stored
  BY <1>1, <1>2 DEF Stored, Kept
<1>4. rows' \in [Messages -> MessageRow \cup {None}]
  <2>1. rows' = Backfilled(full)
    BY DEF Derive
  <2>2. \A m \in Messages : rows'[m] \in MessageRow \cup {None}
    BY <1>1, <1>2 DEF Stored
  <2> QED
    BY <2>1, <2>2 DEF Backfilled
<1> QED
  BY <1>2, <1>3, <1>4

---------------------------------------------------------------------------------
\* The invariant.

LEMMA DeriveInit == Init => DeriveInv
<1> SUFFICES ASSUME Init
             PROVE  DeriveInv
  OBVIOUS
<1>1. Stored = {}
  BY DEF Init, Stored
<1>2. \A s \in Sessions : InSession(s) = {}
  BY <1>1 DEF InSession
<1>3. TypeOK
  BY DEF Init, TypeOK
<1> QED
  BY <1>1, <1>2, <1>3 DEF Init, DeriveInv, RollupsExact, LatenciesExact

\* A commit of a message: what it adds and what it leaves alone.
LEMMA IngestAdds ==
  ASSUME TypeOK, NEW m \in Messages, NEW s \in Sessions, NEW sub \in BOOLEAN, NEW ts \in 0..now,
         Ingest(m, s, sub, ts)
  PROVE  /\ m \notin Stored /\ Stored' = Stored \cup {m}
         /\ rows' \in [Messages -> MessageRow \cup {None}]
         /\ rows'[m] = [session |-> s, sub |-> sub, ts |-> ts, latency |-> None]
         /\ \A n \in Stored : Kept(n) /\ rows'[n] = rows[n]
         /\ InSession(s)' = InSession(s) \cup {m}
         /\ \A q \in Sessions \ {s} : InSession(q)' = InSession(q)
<1> DEFINE row == [session |-> s, sub |-> sub, ts |-> ts, latency |-> None]
<1>1. row \in MessageRow /\ row # None
  BY DeriveAssumption DEF TypeOK, MessageRow
<1>2. rows' = [rows EXCEPT ![m] = row] /\ rows[m] = None
  BY DEF Ingest
<1>3. row.session = s
  OBVIOUS
<1> HIDE DEF row
<1>4. rows'[m] = row /\ \A n \in Messages \ {m} : rows'[n] = rows[n]
  BY <1>2 DEF TypeOK
<1>5. m \notin Stored /\ Stored' = Stored \cup {m}
  BY <1>1, <1>2, <1>4 DEF Stored
<1>6. \A n \in Stored : Kept(n) /\ rows'[n] = rows[n]
  BY <1>4, <1>5 DEF Stored, Kept
<1>7. rows' \in [Messages -> MessageRow \cup {None}]
  BY <1>1, <1>2 DEF TypeOK
<1>8. /\ InSession(s)' = InSession(s) \cup {m}
      /\ \A q \in Sessions \ {s} : InSession(q)' = InSession(q)
  BY <1>3, <1>4, <1>5, <1>6 DEF InSession
<1>9. rows'[m] = [session |-> s, sub |-> sub, ts |-> ts, latency |-> None]
  BY <1>4 DEF row
<1> QED
  BY <1>5, <1>6, <1>7, <1>8, <1>9

\* Unless the commit shows it, nothing comes to stand before what is stored.
LEMMA IngestKeepsOrder ==
  ASSUME TypeOK, NEW m \in Messages, NEW s \in Sessions, NEW sub \in BOOLEAN, NEW ts \in 0..now,
         Ingest(m, s, sub, ts), NEW n \in Stored, rows[n].session \notin disordered'
  PROVE  Latency(n)' = Latency(n)
<1>0. /\ m \notin Stored /\ Stored' = Stored \cup {m}
      /\ rows'[m] = [session |-> s, sub |-> sub, ts |-> ts, latency |-> None]
      /\ \A k \in Stored : Kept(k) /\ rows'[k] = rows[k]
  BY IngestAdds
<1>1. /\ m \notin Stored /\ Stored' = Stored \cup {m} /\ rows'[m].session = s
      /\ \A k \in Stored : Kept(k) /\ rows'[k] = rows[k]
  BY <1>0
<1>2. ~(SameThread(n, m)' /\ Precedes(m, n)')
  <2>1. CASE rows[n].session = s
    <3>1. s \notin disordered'
      BY <2>1
    <3>2. ~\E k \in Stored : SameThread(k, m)' /\ Precedes(m, k)'
      BY <3>1 DEF Ingest
    <3> QED
      BY <3>2
  <2>2. CASE rows[n].session # s
    BY <2>2, <1>1 DEF SameThread
  <2> QED
    BY <2>1, <2>2
<1>3. SameThread(m, n)' <=> SameThread(n, m)'
  BY DEF SameThread
<1>4. \A k \in Stored : /\ SameThread(k, n)' <=> SameThread(k, n)
                        /\ Precedes(k, n)' <=> Precedes(k, n)
  BY <1>1 DEF SameThread, Precedes, Kept
<1>5. Before(n)' = Before(n) /\ Before(n) \subseteq Stored
  BY <1>1, <1>2, <1>3, <1>4 DEF Before
<1> QED
  BY <1>1, <1>5, LatencyKept

LEMMA IngestInv ==
  ASSUME DeriveInv, NEW m \in Messages, NEW s \in Sessions, NEW sub \in BOOLEAN, NEW ts \in 0..now,
         Ingest(m, s, sub, ts)
  PROVE  DeriveInv'
<1>1. /\ m \notin Stored /\ Stored' = Stored \cup {m}
      /\ rows' \in [Messages -> MessageRow \cup {None}]
      /\ rows'[m] = [session |-> s, sub |-> sub, ts |-> ts, latency |-> None]
      /\ \A n \in Stored : Kept(n) /\ rows'[n] = rows[n]
      /\ InSession(s)' = InSession(s) \cup {m}
      /\ \A q \in Sessions \ {s} : InSession(q)' = InSession(q)
  BY IngestAdds DEF DeriveInv
<1>2. /\ now' = now /\ errors' = errors /\ sessions' = sessions
      /\ touched' = touched \cup {s} /\ late \subseteq late' /\ late' \subseteq late \cup {s}
      /\ s \notin late' => Fresh(s)'
      /\ disordered \subseteq disordered' /\ disordered' \subseteq disordered \cup {s}
  BY DEF Ingest, Owed
<1>3. TypeOK'
  BY <1>1, <1>2 DEF DeriveInv, TypeOK
<1>4. (\A n \in Stored : rows[n].ts <= now)'
  BY <1>1, <1>2 DEF DeriveInv, TypeOK
<1>5. RollupsExact'
  <2> SUFFICES ASSUME NEW q \in Sessions, q \notin touched' \cup late'
               PROVE  sessions'[q] = IF InSession(q)' = {} THEN None ELSE Rollup(q)'
    BY DEF RollupsExact
  <2>1. q # s /\ q \notin touched \cup late
    BY <1>2
  <2>2. InSession(q)' = InSession(q) /\ \A n \in InSession(q) : Kept(n)
    BY <1>1, <2>1 DEF InSession
  <2>3. Rollup(q)' = Rollup(q)
    BY <1>2, <2>2, RollupKept
  <2> QED
    BY <1>2, <2>1, <2>2, <2>3 DEF DeriveInv, RollupsExact
<1>6. (\A n \in Stored : rows[n].session \notin disordered => rows[n].latency \in {None, Latency(n)})'
  <2> SUFFICES ASSUME NEW n \in Stored', rows'[n].session \notin disordered'
               PROVE  rows'[n].latency \in {None, Latency(n)'}
    OBVIOUS
  <2>1. CASE n = m
    BY <2>1, <1>1
  <2>2. CASE n # m
    <3>1. n \in Stored /\ rows'[n] = rows[n]
      BY <2>2, <1>1
    <3>2. Latency(n)' = Latency(n)
      BY <3>1, IngestKeepsOrder DEF DeriveInv
    <3> QED
      BY <1>2, <3>1, <3>2 DEF DeriveInv
  <2> QED
    BY <2>1, <2>2
<1>7. LatenciesExact'
  <2> SUFFICES ASSUME NEW n \in Stored', rows'[n].session \notin touched' \cup disordered'
               PROVE  rows'[n].latency = Latency(n)'
    BY DEF LatenciesExact
  <2>1. n # m /\ n \in Stored /\ rows'[n] = rows[n]
    BY <1>1, <1>2
  <2>2. Latency(n)' = Latency(n)
    BY <2>1, IngestKeepsOrder DEF DeriveInv
  <2> QED
    BY <1>2, <2>1, <2>2 DEF DeriveInv, LatenciesExact
<1>8. (\A q \in touched \ late : Fresh(q))'
  <2> SUFFICES ASSUME NEW q \in touched' \ late', q # s
               PROVE  Fresh(q)'
    BY <1>2
  <2>1. q \in touched \ late /\ q \in Sessions
    BY <1>2 DEF DeriveInv, TypeOK
  <2>2. PICK n \in InSession(q) : rows[n].ts + Window >= now
    BY <2>1 DEF DeriveInv, Fresh
  <2>3. n \in InSession(q)' /\ rows'[n] = rows[n]
    BY <1>1, <2>1, <2>2 DEF InSession
  <2> QED
    BY <1>2, <2>2, <2>3 DEF Fresh
<1>9. (\A q \in Sessions : InSession(q) = {} => sessions[q] = None)'
  BY <1>1, <1>2 DEF DeriveInv
<1> QED
  BY <1>3, <1>4, <1>5, <1>6, <1>7, <1>8, <1>9 DEF DeriveInv

\* A commit of a failed tool call: only the rollup of its session is out of date.
LEMMA IngestErrorInv ==
  ASSUME DeriveInv, NEW s \in Sessions, IngestError(s)
  PROVE  DeriveInv'
<1>1. /\ rows' = rows /\ now' = now /\ sessions' = sessions /\ disordered' = disordered
      /\ touched' = touched \cup {s} /\ late \subseteq late' /\ late' \subseteq late \cup {s}
      /\ s \notin late' => Fresh(s)'
      /\ errors' = [errors EXCEPT ![s] = 1]
  BY DEF IngestError, Owed
<1>2. Stored' = Stored /\ \A m \in Stored : Kept(m)
  BY <1>1 DEF Stored, Kept
<1>3. /\ \A q \in Sessions : InSession(q)' = InSession(q) /\ InSession(q) \subseteq Stored
      /\ \A m \in Stored : Latency(m)' = Latency(m)
  BY <1>2, NothingAdded DEF InSession
<1>4. TypeOK'
  BY <1>1 DEF DeriveInv, TypeOK
<1>5. RollupsExact'
  <2> SUFFICES ASSUME NEW q \in Sessions, q \notin touched' \cup late'
               PROVE  sessions'[q] = IF InSession(q)' = {} THEN None ELSE Rollup(q)'
    BY DEF RollupsExact
  <2>1. q # s /\ q \notin touched \cup late
    BY <1>1
  <2>2. errors'[q] = errors[q]
    BY <1>1, <2>1 DEF DeriveInv, TypeOK
  <2>3. Rollup(q)' = Rollup(q)
    BY <1>2, <1>3, <2>2, RollupKept
  <2> QED
    BY <1>1, <1>3, <2>1, <2>3 DEF DeriveInv, RollupsExact
<1>6. LatenciesExact'
  BY <1>1, <1>2, <1>3 DEF DeriveInv, LatenciesExact
<1>7. (\A n \in Stored : rows[n].session \notin disordered => rows[n].latency \in {None, Latency(n)})'
  BY <1>1, <1>2, <1>3 DEF DeriveInv
<1>8. (\A q \in touched \ late : Fresh(q))'
  <2>1. ASSUME NEW q \in touched' \ late', q # s
        PROVE  Fresh(q)'
    <3>1. q \in Sessions /\ q \in touched \ late
      BY <1>1, <2>1 DEF DeriveInv, TypeOK
    <3> QED
      BY <1>1, <1>3, <3>1 DEF DeriveInv, Fresh
  <2> QED
    BY <1>1, <2>1
<1> QED
  BY <1>1, <1>2, <1>3, <1>4, <1>5, <1>6, <1>7, <1>8 DEF DeriveInv

\* Time goes on: what leaves the window before it was derived from is late.
LEMMA TickInv ==
  ASSUME DeriveInv, Tick
  PROVE  DeriveInv'
<1>1. /\ rows' = rows /\ errors' = errors /\ sessions' = sessions /\ touched' = touched
      /\ disordered' = disordered /\ now' = now + 1
      /\ late' = late \cup {s \in touched : ~Fresh(s)'}
  BY DEF Tick
<1>2. Stored' = Stored /\ \A m \in Stored : Kept(m)
  BY <1>1 DEF Stored, Kept
<1>3. /\ \A q \in Sessions : InSession(q)' = InSession(q) /\ InSession(q) \subseteq Stored
      /\ \A m \in Stored : Latency(m)' = Latency(m)
  BY <1>2, NothingAdded DEF InSession
<1>4. TypeOK'
  BY <1>1 DEF DeriveInv, TypeOK
<1>5. RollupsExact'
  <2>1. \A q \in Sessions : Rollup(q)' = Rollup(q)
    BY <1>1, <1>2, <1>3, RollupKept
  <2> QED
    BY <1>1, <1>3, <2>1 DEF DeriveInv, RollupsExact
<1>6. (\A m \in Stored : rows[m].ts <= now)'
  <2>1. \A m \in Stored : rows[m].ts \in Nat /\ rows[m].ts <= now /\ now \in Nat
    BY StoredFields DEF DeriveInv, TypeOK
  <2> QED
    BY <1>1, <1>2, <2>1
<1>7. LatenciesExact'
  BY <1>1, <1>2, <1>3 DEF DeriveInv, LatenciesExact
<1>8. (\A n \in Stored : rows[n].session \notin disordered => rows[n].latency \in {None, Latency(n)})'
  BY <1>1, <1>2, <1>3 DEF DeriveInv
<1> QED
  BY <1>1, <1>2, <1>3, <1>4, <1>5, <1>6, <1>7, <1>8 DEF DeriveInv

\* A derivation: every session that is owed one and in the window gets it.
LEMMA DeriveStepInv ==
  ASSUME DeriveInv, NEW full \in BOOLEAN, Derive(full)
  PROVE  DeriveInv'
<1>0. TypeOK
  BY DEF DeriveInv
<1>1. /\ sessions' = Rebuilt(full) /\ touched' = {} /\ now' = now /\ errors' = errors
      /\ late' = IF full THEN {} ELSE {s \in late : ~Fresh(s)}
      /\ disordered' = IF full THEN {} ELSE disordered
  BY DEF Derive
<1>2. /\ Stored' = Stored
      /\ \A m \in Stored : Kept(m)
      /\ \A m \in Stored :
           rows'[m].latency = IF full \/ rows[m].latency = None THEN Latency(m)
                              ELSE rows[m].latency
      /\ rows' \in [Messages -> MessageRow \cup {None}]
  BY <1>0, DeriveKeeps
<1>3. /\ \A q \in Sessions : InSession(q)' = InSession(q) /\ InSession(q) \subseteq Stored
      /\ \A m \in Stored : Latency(m)' = Latency(m)
  BY <1>2, NothingAdded DEF InSession
<1>4. \A q \in Sessions : Rollup(q)' = Rollup(q)
  BY <1>1, <1>2, <1>3, RollupKept
<1>5. \A q \in Sessions :
        sessions'[q] = IF InSession(q) # {} /\ (full \/ Recent(q)) THEN Rollup(q) ELSE sessions[q]
  BY <1>1 DEF Rebuilt
<1>6. TypeOK'
  <2>1. \A q \in Sessions : InSession(q) # {} => Rollup(q) \in SessionRow
    BY <1>0, RollupType DEF DeriveInv
  <2>2. sessions' \in [Sessions -> SessionRow \cup {None}]
    BY <1>0, <1>1, <2>1 DEF Rebuilt, TypeOK
  <2> QED
    BY <1>0, <1>1, <1>2, <2>2 DEF TypeOK
<1>7. ASSUME NEW q \in Sessions
      PROVE  Fresh(q) => InSession(q) # {} /\ Recent(q)
  <2>1. \A m \in InSession(q) : rows[m].ts \in Nat
    BY <1>0, <1>3, StoredFields
  <2> QED
    BY <1>0, <2>1, DeriveAssumption DEF Fresh, Recent, TypeOK
<1>8. ASSUME NEW q \in Sessions, InSession(q) = {}
      PROVE  sessions'[q] = None
  BY <1>5, <1>8 DEF DeriveInv
<1>9. RollupsExact'
  <2> SUFFICES ASSUME NEW q \in Sessions, q \notin late'
               PROVE  sessions'[q] = IF InSession(q) = {} THEN None ELSE Rollup(q)
    BY <1>1, <1>3, <1>4 DEF RollupsExact
  <2>1. CASE InSession(q) = {}
    BY <2>1, <1>8
  <2>2. CASE InSession(q) # {} /\ (full \/ Recent(q))
    BY <2>2, <1>5
  <2>3. CASE InSession(q) # {} /\ ~full /\ ~Recent(q)
    <3>1. ~Fresh(q)
      BY <2>3, <1>7
    <3>2. q \notin late
      BY <2>3, <1>1, <3>1
    <3>3. q \notin touched
      BY <3>1, <3>2 DEF DeriveInv
    <3> QED
      BY <2>3, <1>5, <3>2, <3>3 DEF DeriveInv, RollupsExact
  <2> QED
    BY <2>1, <2>2, <2>3
<1>10. ASSUME NEW m \in Stored, rows[m].session \notin disordered'
       PROVE  rows'[m].latency = Latency(m)
  <2>1. CASE full \/ rows[m].latency = None
    BY <2>1, <1>2
  <2>2. CASE ~full /\ rows[m].latency # None
    <3>1. rows[m].session \notin disordered
      BY <2>2, <1>1, <1>10
    <3>2. rows[m].latency = Latency(m)
      BY <2>2, <3>1 DEF DeriveInv
    <3> QED
      BY <2>2, <3>2, <1>2
  <2> QED
    BY <2>1, <2>2
<1>11. LatenciesExact'
  BY <1>2, <1>3, <1>10 DEF LatenciesExact, Kept
<1>12. (\A n \in Stored : rows[n].session \notin disordered => rows[n].latency \in {None, Latency(n)})'
  BY <1>2, <1>3, <1>10 DEF Kept
<1>13. (\A m \in Stored : rows[m].ts <= now)'
  BY <1>1, <1>2 DEF DeriveInv, Kept
<1> QED
  BY <1>1, <1>3, <1>6, <1>8, <1>9, <1>11, <1>12, <1>13 DEF DeriveInv

LEMMA DeriveNext == DeriveInv /\ [Next]_vars => DeriveInv'
<1> SUFFICES ASSUME DeriveInv, [Next]_vars
             PROVE  DeriveInv'
  OBVIOUS
<1>1. CASE UNCHANGED vars
  <2>1. UNCHANGED <<now, rows, errors, sessions, touched, late, disordered>>
    BY <1>1 DEF vars
  <2>2. Stored' = Stored /\ \A m \in Stored : Kept(m)
    BY <2>1 DEF Stored, Kept
  <2>3. /\ \A q \in Sessions : InSession(q)' = InSession(q) /\ InSession(q) \subseteq Stored
        /\ \A m \in Stored : Latency(m)' = Latency(m)
    BY <2>2, NothingAdded DEF InSession
  <2>4. \A q \in Sessions : Rollup(q)' = Rollup(q)
    BY <2>1, <2>2, <2>3, RollupKept
  <2>5. TypeOK'
    BY <2>1 DEF DeriveInv, TypeOK
  <2>6. RollupsExact' /\ LatenciesExact'
    BY <2>1, <2>2, <2>3, <2>4 DEF DeriveInv, RollupsExact, LatenciesExact
  <2>7. \A q \in Sessions : Fresh(q) => Fresh(q)'
    BY <2>1, <2>3 DEF Fresh
  <2>8. (\A q \in touched \ late : Fresh(q))'
    BY <2>1, <2>7 DEF DeriveInv, TypeOK
  <2> QED
    BY <2>1, <2>2, <2>3, <2>5, <2>6, <2>8 DEF DeriveInv
<1> QED
  BY <1>1, IngestInv, IngestErrorInv, DeriveStepInv, TickInv DEF Next

LEMMA Invariance == Spec => []DeriveInv
BY DeriveInit, DeriveNext, PTL DEF Spec

---------------------------------------------------------------------------------
\* Theorems.

\* Every reachable state is well typed: a rollup has a first and a last message, a
\* latency is a number or NULL.
THEOREM TypeCorrect == Spec => []TypeOK
<1>1. DeriveInv => TypeOK
  BY DEF DeriveInv
<1> QED
  BY <1>1, Invariance, PTL

\* A session without news since the last derivation, whose commits were derived
\* from while it had a message in the window, has the rollup of a full rebuild.
THEOREM Rollups == Spec => []RollupsExact
<1>1. DeriveInv => RollupsExact
  BY DEF DeriveInv
<1> QED
  BY <1>1, Invariance, PTL

\* The latencies of a session whose messages arrived in order are those of its
\* whole threads, whatever runs they arrived in.
THEOREM Latencies == Spec => []LatenciesExact
<1>1. DeriveInv => LatenciesExact
  BY DEF DeriveInv
<1> QED
  BY <1>1, Invariance, PTL

\* A full rebuild makes every latency and every rollup exact, whatever happened.
THEOREM FullRebuild == Spec => FullRebuildIsExact
<1>1. ASSUME TypeOK, Derive(TRUE)
      PROVE  /\ \A m \in Stored' : rows'[m].latency = Latency(m)'
             /\ \A s \in Sessions : InSession(s) # {} => sessions'[s] = Rollup(s)'
  <2>1. /\ Stored' = Stored
        /\ \A m \in Stored : Kept(m)
        /\ \A m \in Stored : rows'[m].latency = Latency(m)
    BY <1>1, DeriveKeeps
  <2>2. /\ \A q \in Sessions : InSession(q)' = InSession(q) /\ InSession(q) \subseteq Stored
        /\ \A m \in Stored : Latency(m)' = Latency(m)
    BY <2>1, NothingAdded DEF InSession
  <2>3. errors' = errors /\ sessions' = Rebuilt(TRUE)
    BY <1>1 DEF Derive
  <2>4. \A q \in Sessions : Rollup(q)' = Rollup(q)
    BY <2>1, <2>2, <2>3, RollupKept
  <2> QED
    BY <2>1, <2>2, <2>3, <2>4 DEF Rebuilt
<1>2. DeriveInv => TypeOK
  BY DEF DeriveInv
<1>3. TypeOK /\ [Next]_vars =>
        [Derive(TRUE) =>
           /\ \A m \in Stored' : rows'[m].latency = Latency(m)'
           /\ \A s \in Sessions : InSession(s) # {} => sessions'[s] = Rollup(s)']_vars
  BY <1>1
<1> QED
  BY <1>2, <1>3, Invariance, PTL DEF Spec, FullRebuildIsExact
=================================================================================
