--------------------------- MODULE ClaudeTranscripts ---------------------------
(***************************************************************************)
(* Claude Code transcripts from the agent's write to the rows of the       *)
(* store: parse_lines of src/tracker/sources/claude_code.py, the keys of   *)
(* normalize/dedup.py and the upserts of db/store.py.                      *)
(*                                                                         *)
(* One API response is written as several lines, one per content block,    *)
(* each with the complete usage; a resumed session starts with a copy of   *)
(* the history under its own session id.  A collector reads a transcript   *)
(* in pieces, from where the last read ended or from anywhere before (the  *)
(* module Collector says when), and the set of message ids it has seen     *)
(* lives for one read only.  A transcript stands for its session.          *)
(***************************************************************************)
EXTENDS ToolCalls, FiniteSets

CONSTANTS
  Transcripts,
  Responses,    \* message ids
  Tools,        \* tool_use ids
  SomeWithout,  \* whether lines of one response may differ in having a requestId
  MaxLines      \* bound: lines the agent writes, copies aside

ASSUME ClaudeAssumption ==
  /\ None \notin Transcripts \cup Responses \cup Tools
  /\ SomeWithout \in BOOLEAN
  /\ MaxLines \in Nat

VARIABLES
  lines,  \* the complete lines of each transcript
  now,    \* lines written so far, and the timestamp of the last one
  db,     \* the store: messages, tool calls, how far any run has stored each transcript
  read    \* the transaction in progress: position, seen ids, its view of the tables

vars == <<lines, now, db, read>>

--------------------------------------------------------------------------------
\* Lines.

Block(r, q, u, ts) == [type |-> "assistant", msg |-> r, req |-> q, tool |-> u, ts |-> ts]
Result(u, e, ts)   == [type |-> "user", tool |-> u, err |-> e, ts |-> ts]

IsBlock(l)     == l.type = "assistant"
LineSet(t)     == {lines[t][x] : x \in 1..Len(lines[t])}
HasBlock(t, r) == \E l \in LineSet(t) : IsBlock(l) /\ l.msg = r
Called(t, u)   == \E l \in LineSet(t) : IsBlock(l) /\ l.tool = u
Answered(t, u) == \E l \in LineSet(t) : ~IsBlock(l) /\ l.tool = u

Written(t, l) ==
  /\ now < MaxLines
  /\ now'   = now + 1
  /\ lines' = [lines EXCEPT ![t] = Append(@, l)]
  /\ UNCHANGED <<db, read>>

\* The agent writes a block of response r (None: a line with no message id) that
\* calls tool u (None: text).  A response is written to one transcript; its lines
\* agree on the requestId unless SomeWithout.
WriteBlock(t, r, q, u) ==
  /\ r # None => \A s \in Transcripts \ {t} : ~HasBlock(s, r)
  /\ r = None => ~q  \* which nothing reads then
  /\ u # None => \A s \in Transcripts : ~Called(s, u)
  /\ ~SomeWithout => \A l \in LineSet(t) : IsBlock(l) /\ l.msg = r => l.req = q
  /\ Written(t, Block(r, q, u, now + 1))

WriteResult(t, u, e) ==
  /\ Called(t, u) /\ ~Answered(t, u)
  /\ Written(t, Result(u, e, now + 1))

\* A session is resumed: the history of s is copied into a new transcript t.
Resume(s, t) ==
  /\ lines[s] # <<>> /\ lines[t] = <<>>
  /\ lines' = [lines EXCEPT ![t] = lines[s]]
  /\ UNCHANGED <<now, db, read>>

--------------------------------------------------------------------------------
\* The parser and the store.

\* Mutant: every content block has a key of its own.
MessageKeyPerBlock(l) == <<l.msg, l.tool # None>>

\* claude_message_key: the message id and the requestId or ''.
MessageKey(l) == <<l.msg, l.req>>

\* Mutant: the last write wins.
InsertLast(msgs, k, row) == [msgs EXCEPT ![k] = row]

\* upsert_messages: ON CONFLICT (dedup_key) DO NOTHING.
InsertFirst(msgs, k, row) == [msgs EXCEPT ![k] = IF @ = None THEN row ELSE @]

\* A user line: its results.
UserLine(r, l) ==
  [r EXCEPT !.pos = @ + 1,
            !.calls = UpsertCall(@, <<r.t, l.tool>>, ResultRow(l.ts, l.err))]

\* Every line of a response brings its tool calls, whether or not its usage counts.
WithCalls(r, l) ==
  IF l.tool = None THEN r.calls ELSE UpsertCall(r.calls, <<r.t, l.tool>>, CallRow(l.ts))

\* Mutant: a line with a tool call is taken for tool activity only.
CollapsedTools(r, l) == l.msg = None \/ l.msg \in r.seen \/ l.tool # None

\* Mutant: a line without a message id is not skipped.
CollapsedNoId(r, l) == l.msg \in r.seen

\* The collapse of ADR-0005: the usage counts on the first line of this read.
Collapsed(r, l) == l.msg = None \/ l.msg \in r.seen

AssistantLine(r, l) ==
  IF Collapsed(r, l)
  THEN [r EXCEPT !.pos = @ + 1, !.calls = WithCalls(r, l)]
  ELSE [r EXCEPT !.pos = @ + 1, !.calls = WithCalls(r, l),
                 !.seen = @ \cup {l.msg},
                 !.msgs = InsertFirst(@, MessageKey(l), r.t)]

\* carry = {}: a read starts with no id seen.
Starting(t, from) ==
  [t |-> t, pos |-> from, seen |-> {}, msgs |-> db.msgs, calls |-> db.calls]

\* A run reads t on from where it is stored to, or again from zero, or, with a
\* watermark that an overlapping run has made old, from anywhere before.
BeginRead(t) ==
  /\ read = None
  /\ \E from \in 0..db.off[t] :
       /\ from < Len(lines[t])
       /\ read' = Starting(t, from)
  /\ UNCHANGED <<lines, now, db>>

ReadLine ==
  /\ read # None
  /\ read.pos < Len(lines[read.t])
  /\ LET l == lines[read.t][read.pos + 1]
     IN  read' = IF IsBlock(l) THEN AssistantLine(read, l) ELSE UserLine(read, l)
  /\ UNCHANGED <<lines, now, db>>

\* The end of the file as it was when the run came to it: the rows are committed.
\* What has been stored already stays so, also if this run saw less of the file.
EndRead ==
  /\ read # None
  /\ db' = [msgs |-> read.msgs, calls |-> read.calls,
            off  |-> [db.off EXCEPT ![read.t] = IF read.pos > @ THEN read.pos ELSE @]]
  /\ read' = None
  /\ UNCHANGED <<lines, now>>

\* The transaction is rolled back (a crash, an OSError).
AbortRead ==
  /\ read # None
  /\ read' = None
  /\ UNCHANGED <<lines, now, db>>

--------------------------------------------------------------------------------
Init ==
  /\ lines = [t \in Transcripts |-> <<>>]
  /\ now   = 0
  /\ db    = [msgs  |-> [k \in Responses \X BOOLEAN |-> None],
              calls |-> [k \in Transcripts \X Tools |-> None],
              off   |-> [t \in Transcripts |-> 0]]
  /\ read  = None

Agent ==
  \E t \in Transcripts :
    \/ \E r \in Responses \cup {None}, q \in BOOLEAN, u \in Tools \cup {None} :
         WriteBlock(t, r, q, u)
    \/ \E u \in Tools, e \in BOOLEAN : WriteResult(t, u, e)
    \/ \E s \in Transcripts : Resume(s, t)

Next ==
  \/ Agent
  \/ \E t \in Transcripts : BeginRead(t)
  \/ ReadLine \/ EndRead \/ AbortRead

Spec == Init /\ [][Next]_vars

--------------------------------------------------------------------------------
\* Types.

Line == [type : {"assistant"}, msg : Responses \cup {None}, req : BOOLEAN,
         tool : Tools \cup {None}, ts : Nat]
        \cup [type : {"user"}, tool : Tools, err : BOOLEAN, ts : Nat]
Msgs  == [Responses \X BOOLEAN -> Transcripts \cup {None}]
Calls == [Transcripts \X Tools -> Row \cup {None}]
Read  == [t : Transcripts, pos : Nat, seen : SUBSET Responses, msgs : Msgs, calls : Calls]

\* Every variable has the shape the code gives it.
TypeOK ==
  /\ lines \in [Transcripts -> Seq(Line)]
  /\ now \in Nat
  /\ db \in [msgs : Msgs, calls : Calls, off : [Transcripts -> Nat]]
  /\ read \in Read \cup {None}

--------------------------------------------------------------------------------
\* Properties.

\* "no duplicate billing of one API response" (the check of `tracker doctor`,
\* report.py:181-190): one response has one row, whatever pieces its lines were
\* read in, however often, and in however many transcripts they are.
NoDuplicateBilling ==
  \A r \in Responses : ~(db.msgs[<<r, TRUE>>] # None /\ db.msgs[<<r, FALSE>>] # None)

\* Every response with a line below a stored offset has its row, also when the
\* read began in the middle of its lines.
EveryResponseBilled ==
  \A t \in Transcripts : \A x \in 1..db.off[t] :
    LET l == lines[t][x]
    IN  IsBlock(l) /\ l.msg # None =>
          db.msgs[<<l.msg, TRUE>>] # None \/ db.msgs[<<l.msg, FALSE>>] # None

\* The messages that the transcripts hold, and the ledger of them: what is stored is
\* of a transcript that has it, resumed or not, and is never dropped or moved.  "First
\* write wins on conflict ... so Session-level rollups are stable across re-runs"
\* (ADR-0005).
HeldBy(t) == {<<t, <<l.msg, l.req>>>> : l \in {m \in LineSet(t) : IsBlock(m) /\ m.msg # None}}
Held == UNION {HeldBy(t) : t \in Transcripts}

SessionLedger == INSTANCE Ledger
  WITH Paths <- Transcripts, Keys <- Responses \X BOOLEAN, written <- Held, rows <- db.msgs

ImplementsLedger == SessionLedger!Spec

\* The record of a line, and those of tool u in the first n lines of t.
RecordOf(l) == IF IsBlock(l) THEN CallRow(l.ts) ELSE ResultRow(l.ts, l.err)
RecordsOf(t, u, n) == [x \in {y \in 1..n : lines[t][y].tool = u} |-> RecordOf(lines[t][x])]

\* The row of a tool call is what one pass over the lines below the offset says:
\* where reads began and ended, and what was read twice, does not show
\* (store.py:134-136).
ToolRowsExact ==
  \A t \in Transcripts, u \in Tools :
    db.calls[<<t, u>>] = CallOf(RecordsOf(t, u, db.off[t]))

\* "a duplicated tool call in a resumed transcript is the same call being
\* described twice, which this key correctly merges" (dedup.py:80-82).
ToolCallsMerged ==
  \A u \in Tools : Cardinality({t \in Transcripts : db.calls[<<t, u>>] # None}) <= 1

--------------------------------------------------------------------------------
(***************************************************************************)
(* The inductive invariant behind NoDuplicateBilling, EveryResponseBilled  *)
(* and ImplementsLedger.  Any two lines of a response have its one key;    *)
(* what a line below an offset, or behind the position of a read, says is  *)
(* billed there; nothing is billed that no line says; and a read only adds *)
(* to the messages it started with.                                        *)
(***************************************************************************)

OneRequestId ==
  \A t, u \in Transcripts : \A x \in 1..Len(lines[t]), y \in 1..Len(lines[u]) :
    /\ IsBlock(lines[t][x]) /\ IsBlock(lines[u][y])
    /\ lines[t][x].msg # None /\ lines[t][x].msg = lines[u][y].msg
    => lines[t][x].req = lines[u][y].req

Billed(msgs, r) == msgs[<<r, TRUE>>] # None \/ msgs[<<r, FALSE>>] # None

BilledUpTo(msgs, t, n) ==
  \A x \in 1..Len(lines[t]) :
    x <= n /\ IsBlock(lines[t][x]) /\ lines[t][x].msg # None =>
      Billed(msgs, lines[t][x].msg)

FromLines(msgs) ==
  \A k \in Responses \X BOOLEAN : msgs[k] # None =>
    \E t \in Transcripts : \E x \in 1..Len(lines[t]) :
      IsBlock(lines[t][x]) /\ <<lines[t][x].msg, lines[t][x].req>> = k

OffsetsBilled ==
  \A t \in Transcripts : db.off[t] <= Len(lines[t]) /\ BilledUpTo(db.msgs, t, db.off[t])

ReadBilled ==
  read # None =>
    /\ read.pos <= Len(lines[read.t])
    /\ BilledUpTo(read.msgs, read.t, read.pos)
    /\ \A r \in read.seen : Billed(read.msgs, r)
    /\ FromLines(read.msgs)
    /\ \A k \in Responses \X BOOLEAN : db.msgs[k] # None => read.msgs[k] = db.msgs[k]

BillingInv ==
  /\ ~SomeWithout => OneRequestId
  /\ FromLines(db.msgs)
  /\ OffsetsBilled
  /\ ReadBilled

(***************************************************************************)
(* The inductive invariant behind ToolRowsExact.  A transcript has one     *)
(* line that calls a tool and one with its result, so a record that is     *)
(* read again says nothing new; and a read has the rows of what is stored  *)
(* of its transcript or of what it has passed, whichever is more.          *)
(***************************************************************************)

ToolsOnce ==
  \A t \in Transcripts : \A x, y \in 1..Len(lines[t]) :
    /\ lines[t][x].tool # None /\ lines[t][x].tool = lines[t][y].tool
    /\ IsBlock(lines[t][x]) = IsBlock(lines[t][y])
    => x = y

ReadEnd == IF read.pos > db.off[read.t] THEN read.pos ELSE db.off[read.t]

ToolInv ==
  /\ ToolsOnce
  /\ ToolRowsExact
  /\ read # None =>
       \A t \in Transcripts, u \in Tools :
         read.calls[<<t, u>>] =
           CallOf(RecordsOf(t, u, IF t = read.t THEN ReadEnd ELSE db.off[t]))

(***************************************************************************)
(* The inductive invariant behind ImplementsLedger: what is stored, or in  *)
(* the transaction of a read, is attributed to a transcript that has it.   *)
(***************************************************************************)

Attributed(msgs) == \A k \in Responses \X BOOLEAN : msgs[k] # None => <<msgs[k], k>> \in Held

LedgerInv == Attributed(db.msgs) /\ (read # None => Attributed(read.msgs))
================================================================================
