--------------------------------- MODULE Derive ---------------------------------
(***************************************************************************)
(* What a collector run derives from the messages it stored: latencies     *)
(* (src/tracker/derive/latency.py), session rollups (derive/rollups.py),   *)
(* and the transaction of _cmd_collect in cli.py that does both.           *)
(*                                                                         *)
(* Messages are committed file by file and derived from later, by the same *)
(* run or, if it crashes or another run overlaps, by another one.  The     *)
(* steady state recomputes sessions with a message of the last two days    *)
(* and latencies that are NULL; --full-rebuild recomputes everything.      *)
(***************************************************************************)
EXTENDS Integers, FiniteSets, FiniteSetsExt

CONSTANTS
  None,
  Sessions,
  Messages,    \* dedup keys, a set of numbers: latency breaks ties by the key
  Unpriced,    \* messages of an unknown model, whose cost is NULL
  Window,      \* the two days of _cmd_collect, in ticks
  MaxLatency,  \* MAX_PLAUSIBLE_LATENCY_MS, in ticks
  MaxTime      \* bound on the clock

\* A row of the messages table.
MessageRow == [session : Sessions, sub : BOOLEAN, ts : Nat, latency : Nat \cup {None}]

ASSUME DeriveAssumption ==
  /\ Messages \subseteq Nat /\ IsFiniteSet(Messages) /\ Unpriced \subseteq Messages
  /\ {Window, MaxLatency, MaxTime} \subseteq Nat
  /\ None \notin Nat /\ None \notin MessageRow

VARIABLES
  now,      \* the clock
  rows,     \* messages: session, thread, timestamp, latency
  errors,   \* tool calls with is_error = 1, by session
  sessions, \* the rollup table
  touched,   \* history: sessions with a row committed since the last derivation
  late,      \* history: sessions whose commits left the window before a derivation
  disordered \* history: sessions with a message that arrived before an earlier one

vars == <<now, rows, errors, sessions, touched, late, disordered>>

---------------------------------------------------------------------------------
\* The derivations.

Stored       == {m \in Messages : rows[m] # None}
InSession(s) == {m \in Stored : rows[m].session = s}

\* PARTITION BY agent, session_id, agent_run_id
SameThread(m, n) == rows[m].session = rows[n].session /\ rows[m].sub = rows[n].sub

\* ORDER BY ts_epoch_ms, dedup_key
Precedes(m, n) ==
  rows[m].ts < rows[n].ts \/ (rows[m].ts = rows[n].ts /\ m < n)

\* Mutant: the previous message of the session, whatever its thread.
BeforeInSession(m) == {n \in Stored : rows[n].session = rows[m].session /\ Precedes(n, m)}

Before(m) == {n \in Stored : SameThread(n, m) /\ Precedes(n, m)}

\* Mutant: the next message instead of the previous one.
LatencyLead(m) ==
  LET after == {n \in Stored : SameThread(n, m) /\ Precedes(m, n)}
  IN  IF after = {} THEN None ELSE rows[m].ts - Min({rows[n].ts : n \in after})

\* ts - LAG(ts), NULL if there is no predecessor or nobody was waiting.
Latency(m) ==
  IF Before(m) = {} THEN None
  ELSE LET delta == rows[m].ts - Max({rows[n].ts : n \in Before(m)})
       IN  IF delta \in 0..MaxLatency THEN delta ELSE None

\* Mutant: a full rebuild fills in NULLs, too.
BackfilledOnlyNull(full) ==
  [m \in Messages |->
     IF m \in Stored /\ rows[m].latency = None
     THEN [rows[m] EXCEPT !.latency = Latency(m)] ELSE rows[m]]

\* backfill_latency: only_null unless this is a full rebuild.
Backfilled(full) ==
  [m \in Messages |->
     IF m \in Stored /\ (full \/ rows[m].latency = None)
     THEN [rows[m] EXCEPT !.latency = Latency(m)] ELSE rows[m]]

\* SUM(cost_usd) skips NULLs, and is NULL if there is nothing else.
Cost(s) ==
  LET priced == InSession(s) \ Unpriced
  IN  IF priced = {} THEN None ELSE Cardinality(priced)

Rollup(s) ==
  LET times == {rows[m].ts : m \in InSession(s)}
  IN  [count   |-> Cardinality(InSession(s)),
       subs    |-> Cardinality({m \in InSession(s) : rows[m].sub}),
       cost    |-> Cost(s),
       unknown |-> InSession(s) \cap Unpriced # {},
       started |-> Min(times), ended |-> Max(times),
       errors  |-> errors[s]]

\* Mutant: the last tick of the window is left out.
RecentStrictly(s) == \E m \in InSession(s) : rows[m].ts > now - Window

Recent(s) == \E m \in InSession(s) : rows[m].ts >= now - Window

\* rebuild_sessions: the sessions that have messages, with a recent one unless this
\* is a full rebuild.
Rebuilt(full) ==
  [s \in Sessions |->
     IF InSession(s) # {} /\ (full \/ Recent(s)) THEN Rollup(s) ELSE sessions[s]]

---------------------------------------------------------------------------------
\* Steps.

\* Whether a message of session s was written in the last Window ticks.
Fresh(s) == \E m \in InSession(s) : rows[m].ts + Window >= now

\* A commit for session s: it is owed a derivation, and late if it is old already.
Owed(s) ==
  /\ touched' = touched \cup {s}
  /\ late'    = IF Fresh(s)' THEN late ELSE late \cup {s}

\* A collector commits message m of session s, of its main thread or a subagent.
Ingest(m, s, sub, ts) ==
  /\ rows[m] = None
  /\ rows' = [rows EXCEPT ![m] = [session |-> s, sub |-> sub, ts |-> ts, latency |-> None]]
  /\ disordered' = IF \E n \in Stored : SameThread(n, m)' /\ Precedes(m, n)'
                   THEN disordered \cup {s} ELSE disordered
  /\ UNCHANGED <<now, errors, sessions>>
  /\ Owed(s)

\* A collector commits a failed tool call of session s.
IngestError(s) ==
  /\ errors[s] = 0
  /\ errors' = [errors EXCEPT ![s] = 1]
  /\ UNCHANGED <<now, rows, sessions, disordered>>
  /\ Owed(s)

\* The second transaction of a run.  A session that got a new message is made up
\* for, and a full rebuild makes up for everything.
Derive(full) ==
  /\ rows'       = Backfilled(full)
  /\ sessions'   = Rebuilt(full)
  /\ touched'    = {}
  /\ late'       = IF full THEN {} ELSE {s \in late : ~Fresh(s)}
  /\ disordered' = IF full THEN {} ELSE disordered
  /\ UNCHANGED <<now, errors>>

Tick ==
  /\ now < MaxTime
  /\ now' = now + 1
  /\ UNCHANGED <<rows, errors, sessions, touched, disordered>>
  /\ late' = late \cup {s \in touched : ~Fresh(s)'}

Init ==
  /\ now        = 0
  /\ rows       = [m \in Messages |-> None]
  /\ errors     = [s \in Sessions |-> 0]
  /\ sessions   = [s \in Sessions |-> None]
  /\ touched    = {}
  /\ late       = {}
  /\ disordered = {}

Next ==
  \/ \E m \in Messages, s \in Sessions, sub \in BOOLEAN, ts \in 0..now : Ingest(m, s, sub, ts)
  \/ \E s \in Sessions : IngestError(s)
  \/ \E full \in BOOLEAN : Derive(full)
  \/ Tick

Spec == Init /\ [][Next]_vars

---------------------------------------------------------------------------------
\* Types.

SessionRow == [count : Nat, subs : Nat, cost : Nat \cup {None}, unknown : BOOLEAN,
               started : Nat, ended : Nat, errors : Nat]

\* Every variable has the shape the code gives it.
TypeOK ==
  /\ now \in Nat
  /\ rows \in [Messages -> MessageRow \cup {None}]
  /\ errors \in [Sessions -> Nat]
  /\ sessions \in [Sessions -> SessionRow \cup {None}]
  /\ touched \cup late \cup disordered \subseteq Sessions

---------------------------------------------------------------------------------
\* Properties.

\* The steady-state path loses nothing against a full rebuild if commits are
\* derived from while their session has a message in the window: such a session,
\* unless it was touched since the last derivation, has the rollup a full rebuild
\* would give it.
RollupsExact ==
  \A s \in Sessions \ (touched \cup late) :
    sessions[s] = IF InSession(s) = {} THEN None ELSE Rollup(s)

\* The latencies that were filled in are those of the whole thread "regardless of
\* which run each row arrived in" (latency.py:8-9), if a thread arrives in order.
LatenciesExact ==
  \A m \in Stored :
    rows[m].session \notin touched \cup disordered => rows[m].latency = Latency(m)

\* A full rebuild makes up for everything: rows that arrived late or before rows
\* already processed, and derivations that never ran (latency.py:28-30).
FullRebuildIsExact ==
  [][Derive(TRUE) =>
       /\ \A m \in Stored' : rows'[m].latency = Latency(m)'
       /\ \A s \in Sessions : InSession(s) # {} => sessions'[s] = Rollup(s)']_vars

\* "Rollup, fully recomputed from messages for touched sessions each run"
\* (schema.py:111), the check "session rollups agree with the message grain" of
\* `tracker doctor` (report.py:207-217): after a derivation, the cost of every
\* session in the table is that of its messages.
RollupsAgree ==
  [][\A full \in BOOLEAN : Derive(full) =>
       \A s \in Sessions : sessions'[s] # None => sessions'[s].cost = Cost(s)']_vars

---------------------------------------------------------------------------------
(***************************************************************************)
(* The inductive invariant behind RollupsExact and LatenciesExact.  What   *)
(* is owed a derivation and is not late is in the window, so the next      *)
(* derivation finds it; a latency that was filled in is the one of the     *)
(* whole thread, or the session is known to be out of order.               *)
(***************************************************************************)
DeriveInv ==
  /\ TypeOK
  /\ \A m \in Stored : rows[m].ts <= now
  /\ RollupsExact
  /\ LatenciesExact
  /\ \A s \in touched \ late : Fresh(s)
  /\ \A s \in Sessions : InSession(s) = {} => sessions[s] = None
  /\ \A m \in Stored :
       rows[m].session \notin disordered => rows[m].latency \in {None, Latency(m)}
=================================================================================
