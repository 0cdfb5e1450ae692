------------------------------ MODULE SubagentRuns ------------------------------
(***************************************************************************)
(* The subagent_runs rows that a read of a Claude Code transcript makes:   *)
(* the end of parse_lines (sources/claude_code.py), the batches of         *)
(* _ingest_one_file (ingest/pipeline.py) and upsert_subagent_runs          *)
(* (db/store.py), on top of ClaudeTranscripts.                             *)
(*                                                                         *)
(* A line of a subagent carries its agentId and the session id of the      *)
(* parent; a transcript has one subagent here, so the key of its run,      *)
(* claude_subagent_run_key, is the transcript.  The model of a response    *)
(* stands for all that a record of it may say of the run.  parse_lines is  *)
(* called once per batch: the message ids it has seen are carried to the   *)
(* next batch, whether it announced the run is not.                        *)
(***************************************************************************)
EXTENDS ClaudeTranscripts

CONSTANTS
  Spawned,    \* the responses of the subagent; the others are of the main thread
  BatchSize   \* lines per batch

ASSUME SubagentAssumption == Spawned \subseteq Responses /\ BatchSize \in Nat \ {0}

VARIABLES
  runs,  \* the subagent_runs table: started_at and model by key
  batch  \* in a read: its view of the table, the lines in the batch, run announced

runVars == <<runs, batch>>

--------------------------------------------------------------------------------
\* Mutant: a later record overwrites the whole row.
UpsertRunLast(table, k, row) == [table EXCEPT ![k] = row]

\* upsert_subagent_runs: started_at is not among the columns that a conflict
\* updates; model is, with COALESCE(excluded, stored).
UpsertRun(table, k, row) ==
  [table EXCEPT ![k] = IF @ = None THEN row ELSE [@ EXCEPT !.model = row.model]]

\* Mutant: the run is announced before the message id is looked at.
AnnouncesEarly(r, b, l) == IsBlock(l) /\ l.msg \in Spawned \cup {None} /\ ~b.told

\* A line whose usage counts announces the run, once per batch.
Announces(r, b, l) == IsBlock(l) /\ ~Collapsed(r, l) /\ l.msg \in Spawned /\ ~b.told

\* The batch with the line l in it; a full one is flushed and the next begins.
BatchLine(r, b, l) ==
  LET told == b.told \/ Announces(r, b, l)
      full == b.n + 1 = BatchSize
  IN  [table |-> IF Announces(r, b, l)
                 THEN UpsertRun(b.table, r.t, [started |-> l.ts, model |-> l.msg])
                 ELSE b.table,
       n     |-> IF full THEN 0 ELSE b.n + 1,
       told  |-> told /\ ~full]

BeginFile(t) ==
  /\ BeginRead(t)
  /\ batch' = [table |-> runs, n |-> 0, told |-> FALSE]
  /\ UNCHANGED runs

ParseLine ==
  /\ ReadLine
  /\ batch' = BatchLine(read, batch, lines[read.t][read.pos + 1])
  /\ UNCHANGED runs

CommitFile ==
  /\ EndRead
  /\ runs' = batch.table
  /\ batch' = None

RollBackFile ==
  /\ AbortRead
  /\ batch' = None
  /\ UNCHANGED runs

--------------------------------------------------------------------------------
RunsInit == Init /\ runs = [t \in Transcripts |-> None] /\ batch = None

RunsNext ==
  \/ Agent /\ UNCHANGED runVars
  \/ \E t \in Transcripts : BeginFile(t)
  \/ ParseLine \/ CommitFile \/ RollBackFile

RunsSpec == RunsInit /\ [][RunsNext]_<<vars, runVars>>

--------------------------------------------------------------------------------
\* Types.

Run      == [started : Nat, model : Responses]
RunTable == [Transcripts -> Run \cup {None}]
Batch    == [table : RunTable, n : 0..(BatchSize - 1), told : BOOLEAN]

ASSUME NoneAssumption == None \notin Run \cup Batch \cup Read

\* Every variable has the shape the code gives it, and there is a batch exactly
\* while there is a read.
RunsTypeOK ==
  /\ runs \in RunTable
  /\ batch \in Batch \cup {None}
  /\ batch = None <=> read = None

--------------------------------------------------------------------------------
\* Properties.

\* Where the subagent speaks in the first n lines of t.
Spoken(t, n) == {x \in 1..n : IsBlock(lines[t][x]) /\ lines[t][x].msg \in Spawned}

\* A table has the row of the subagent that the first n lines of t make.
RunExact(table, t, n) ==
  /\ table[t] = None <=> Spoken(t, n) = {}
  /\ table[t] # None =>
       \E x \in Spoken(t, n) : /\ \A y \in Spoken(t, n) : x <= y
                               /\ table[t].started = lines[t][x].ts

\* "One run row per agentId" (claude_code.py:304): whatever pieces and batches a
\* transcript is read in, and however often, its subagent has a row if it has said
\* something, and the row starts where the subagent started.
SubagentRunExact == \A t \in Transcripts : RunExact(runs, t, db.off[t])

\* "later non-NULL values are allowed to complete the row" (store.py:163-164): a
\* value that is there is not replaced.
RunIsCompletedOnly ==
  [][\A t \in Transcripts : runs[t] # None => runs'[t] = runs[t]]_<<vars, runVars>>

--------------------------------------------------------------------------------
(***************************************************************************)
(* The inductive invariant behind SubagentRunExact.  A read knows of the   *)
(* file what is stored and what it has passed, whichever is more, and its  *)
(* table has the row of that.  What can keep it from announcing a run, the *)
(* batch that was told and an id that was seen, means that the subagent    *)
(* has been heard already.                                                 *)
(***************************************************************************)

RunsInv ==
  /\ SubagentRunExact
  /\ read # None =>
       /\ \A t \in Transcripts \ {read.t} : batch.table[t] = runs[t]
       /\ RunExact(batch.table, read.t, ReadEnd)
       /\ batch.told => batch.table[read.t] # None
       /\ read.seen \cap Spawned # {} => Spoken(read.t, read.pos) # {}
================================================================================
