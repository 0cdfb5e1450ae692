------------------------------- MODULE PiSession -------------------------------
(***************************************************************************)
(* pi session files from the agent's write to the rows of the store:       *)
(* parse_lines and SessionState of src/tracker/sources/pi.py, the pi keys  *)
(* of normalize/dedup.py, the fallback session id of sources/discovery.py. *)
(*                                                                         *)
(* What a message needs is spread over a file: the header names the        *)
(* session, model_change entries the model that compactions inherit.  The  *)
(* SessionState that remembers them lives for one read, and a file is read *)
(* in pieces, from where the last read ended or from anywhere before.      *)
(* A forked session starts with a copy of the entries of another.          *)
(* A file stands for its session; each assistant entry stands for its id,  *)
(* timestamp and token count.  The parser skips an entry without an id or  *)
(* a timestamp, as it does one of a user: no module has such entries.      *)
(***************************************************************************)
EXTENDS ToolCalls, FiniteSetsExt

CONSTANTS
  Files,
  Turns,       \* assistant entries
  Compactions, \* compaction entries
  Models,
  Tools,       \* tool call ids
  Nested,      \* the files of subagent runs, whose names carry no session id
  OwnModel,    \* whether every assistant entry names its model
  MaxEntries   \* bound: entries pi writes, headers and copies aside

MaybeModel == Models \cup {None}

\* What a message and a compaction are attributed to.
Spend == [session : Files, model : MaybeModel]

ASSUME PiAssumption ==
  /\ None \notin Files \cup Turns \cup Compactions \cup Models \cup Tools
  /\ None \notin Spend
  /\ Nested \subseteq Files /\ OwnModel \in BOOLEAN /\ MaxEntries \in Nat

VARIABLES
  entries, \* the complete lines of each file
  now,     \* entries written so far
  db,      \* messages, compactions, tool calls, how far any run has stored each file
  read     \* the transaction in progress: position, SessionState, its view of the tables

vars == <<entries, now, db, read>>

--------------------------------------------------------------------------------
\* Entries.

Header         == [type |-> "session"]
ModelChange(m) == [type |-> "model_change", model |-> m]
Compaction(e)  == [type |-> "compaction", id |-> e]
Turn(e, m, b, u, ts) ==
  [type |-> "message", id |-> e, model |-> m, usage |-> b, tool |-> u, ts |-> ts]
ToolResult(u, ts) == [type |-> "toolResult", tool |-> u, ts |-> ts]

\* The entries that are spend.
Billed(l) == (l.type = "message" /\ l.usage) \/ l.type = "compaction"

EntrySet(f) == {entries[f][x] : x \in 1..Len(entries[f])}
Has(f, type, e)  == \E l \in EntrySet(f) : l.type = type /\ l.id = e
Calls(f, type, u) == \E l \in EntrySet(f) : l.type = type /\ l.tool = u

\* pi opens a file with its header.
StartFile(f) ==
  /\ entries[f] = <<>>
  /\ entries' = [entries EXCEPT ![f] = <<Header>>]
  /\ UNCHANGED <<now, db, read>>

Written(f, l) ==
  /\ entries[f] # <<>>
  /\ now < MaxEntries
  /\ now' = now + 1
  /\ entries' = [entries EXCEPT ![f] = Append(@, l)]
  /\ UNCHANGED <<db, read>>

WriteModelChange(f, m) == Written(f, ModelChange(m))

\* An assistant entry of model m (None: not named), with usage or, as b says, not,
\* that calls tool u (None: text).
WriteTurn(f, e, m, b, u) ==
  /\ \A g \in Files : ~Has(g, "message", e)
  /\ u # None => \A g \in Files : ~Calls(g, "message", u)
  /\ OwnModel => m # None
  /\ Written(f, Turn(e, m, b, u, now + 1))

WriteResult(f, u) ==
  /\ Calls(f, "message", u) /\ ~Calls(f, "toolResult", u)
  /\ Written(f, ToolResult(u, now + 1))

WriteCompaction(f, e) ==
  /\ \A g \in Files : ~Has(g, "compaction", e)
  /\ Written(f, Compaction(e))

\* A session is forked: its entries follow the header of a new file g.
Fork(f, g) ==
  /\ Len(entries[f]) > 1
  /\ entries[g] = <<>>
  /\ entries' = [entries EXCEPT ![g] = entries[f]]
  /\ UNCHANGED <<now, db, read>>

--------------------------------------------------------------------------------
\* The parser and the store.

\* Mutant: no file name is taken for a session id.
FallbackNone(f) == None

\* Mutant: the whole name of the file is taken for the id.
FallbackStem(f) == "stem"

\* _pi_session_id: the id in the name of the file, if it has one.
Fallback(f) == IF f \in Nested THEN None ELSE f

\* SessionState(source.session_id), one for each read.
Starting(f, from) ==
  [file |-> f, pos |-> from, session |-> Fallback(f), model |-> None,
   msgs |-> db.msgs, comps |-> db.comps, calls |-> db.calls]

\* Mutant: the key takes the active model, not the one of the entry.
TurnKeyActive(r, e, m) == <<e, r.model>>

\* pi_message_key: the entry and the model it is stored with.
TurnKey(r, e, m) == <<e, m>>

\* Mutant: the last write wins.
InsertLast(rows, k, row) == [rows EXCEPT ![k] = row]

InsertFirst(rows, k, row) == [rows EXCEPT ![k] = IF @ = None THEN row ELSE @]

HeaderLine(r) == [r EXCEPT !.session = r.file]

ModelLine(r, l) == [r EXCEPT !.model = l.model]

\* The tool call of an assistant entry, if it has one.
Called(r, l) ==
  IF l.tool = None THEN r
  ELSE [r EXCEPT !.calls = UpsertCall(@, <<r.session, l.tool>>, CallRow(l.ts))]

\* Its message, of model m.
Sent(r, l, m) ==
  [r EXCEPT !.msgs = InsertFirst(@, TurnKey(r, l.id, m), [session |-> r.session, model |-> m])]

\* Mutant: the model of an entry without usage becomes the active one.
TurnLineSetsModel(r, l) ==
  LET m == Coalesce(l.model, r.model)
      c == IF l.usage THEN Sent(Called(r, l), l, m) ELSE Called(r, l)
  IN  [c EXCEPT !.model = m]

\* An assistant entry: its tool call and, if it has usage, the active model and the
\* message.  Without usage it is not billable, and its model is not looked at.
TurnLine(r, l) ==
  LET m == Coalesce(l.model, r.model)
  IN  IF l.usage THEN [Sent(Called(r, l), l, m) EXCEPT !.model = m] ELSE Called(r, l)

ResultLine(r, l) ==
  [r EXCEPT !.calls = UpsertCall(@, <<r.session, l.tool>>, ResultRow(l.ts, FALSE))]

\* A compaction has no model of its own: it inherits the active one.
CompactionLine(r, l) ==
  [r EXCEPT !.comps = InsertFirst(@, l.id, [session |-> r.session, model |-> r.model])]

\* Every other entry needs a session, and is skipped (and counted) without one.
Parsed(r, l) ==
  CASE l.type = "session"      -> HeaderLine(r)
    [] l.type = "model_change" -> ModelLine(r, l)
    [] OTHER -> IF r.session = None THEN r
                ELSE CASE l.type = "message"    -> TurnLine(r, l)
                       [] l.type = "toolResult" -> ResultLine(r, l)
                       [] l.type = "compaction" -> CompactionLine(r, l)

\* A run reads f on from where it is stored to, or again from zero, or, with a
\* watermark that an overlapping run has made old, from anywhere before.
BeginRead(f) ==
  /\ read = None
  /\ \E from \in 0..db.off[f] :
       /\ from < Len(entries[f])
       /\ read' = Starting(f, from)
  /\ UNCHANGED <<entries, now, db>>

ReadLine ==
  /\ read # None
  /\ read.pos < Len(entries[read.file])
  /\ read' = [Parsed(read, entries[read.file][read.pos + 1]) EXCEPT !.pos = @ + 1]
  /\ UNCHANGED <<entries, now, db>>

\* The end of the file as it was when the run came to it.
EndRead ==
  /\ read # None
  /\ db' = [msgs |-> read.msgs, comps |-> read.comps, calls |-> read.calls,
            off  |-> [db.off EXCEPT ![read.file] = IF read.pos > @ THEN read.pos ELSE @]]
  /\ read' = None
  /\ UNCHANGED <<entries, now>>

--------------------------------------------------------------------------------
Init ==
  /\ entries = [f \in Files |-> <<>>]
  /\ now  = 0
  /\ db   = [msgs  |-> [k \in Turns \X MaybeModel |-> None],
             comps |-> [e \in Compactions |-> None],
             calls |-> [k \in Files \X Tools |-> None],
             off   |-> [f \in Files |-> 0]]
  /\ read = None

Agent ==
  \E f \in Files :
    \/ StartFile(f)
    \/ \E m \in Models : WriteModelChange(f, m)
    \/ \E e \in Turns, m \in MaybeModel, b \in BOOLEAN, u \in Tools \cup {None} :
         WriteTurn(f, e, m, b, u)
    \/ \E u \in Tools : WriteResult(f, u)
    \/ \E e \in Compactions : WriteCompaction(f, e)
    \/ \E g \in Files : Fork(f, g)

Next ==
  \/ Agent
  \/ \E f \in Files : BeginRead(f)
  \/ ReadLine \/ EndRead

Spec == Init /\ [][Next]_vars

--------------------------------------------------------------------------------
\* Types.

Entry == {Header} \cup {ModelChange(m) : m \in Models}
  \cup [type : {"message"}, id : Turns, model : MaybeModel, usage : BOOLEAN,
         tool : Tools \cup {None}, ts : Nat]
  \cup [type : {"toolResult"}, tool : Tools, ts : Nat]
  \cup {Compaction(e) : e \in Compactions}
Msgs  == [Turns \X MaybeModel -> Spend \cup {None}]
Comps == [Compactions -> Spend \cup {None}]
Rows  == [Files \X Tools -> Row \cup {None}]
Read  == [file : Files, pos : Nat, session : Files \cup {None}, model : MaybeModel,
          msgs : Msgs, comps : Comps, calls : Rows]

\* Every variable has the shape the code gives it.
TypeOK ==
  /\ entries \in [Files -> Seq(Entry)]
  /\ now \in Nat
  /\ db \in [msgs : Msgs, comps : Comps, calls : Rows, off : [Files -> Nat]]
  /\ read \in Read \cup {None}

--------------------------------------------------------------------------------
\* Properties.

\* "re-ingesting a file, re-reading a rotated file, or ingesting two transcripts
\* that both contain the same Message all converge on one row" (ADR-0005).
OneRowPerTurn ==
  \A e \in Turns, m, n \in MaybeModel :
    db.msgs[<<e, m>>] # None /\ db.msgs[<<e, n>>] # None => m = n

\* The spend of entry l has a row in t, the store or the view of a read.
Stored(t, l) ==
  \/ l.type = "message" /\ \E m \in MaybeModel : t.msgs[<<l.id, m>>] # None
  \/ l.type = "compaction" /\ t.comps[l.id] # None

SpendOf(f) ==
  \A x \in 1..db.off[f] :
    Billed(entries[f][x]) => Stored(db, entries[f][x])

\* All spend below the stored offset of a file that has its session in its name is
\* in the store: reads of nested files, which skip entries, do not get in the way.
SessionSpendStored == \A f \in Files \ Nested : SpendOf(f)

\* All spend below the stored offset of a file is in the store, that of nested
\* subagent sessions too: "real, uncounted subagent spend" (discovery.py:23-24).
EverySpendStored == \A f \in Files : SpendOf(f)

\* The model of the last of the entries of s that are numbered in set.
LastModel(s, set) == IF set = {} THEN None ELSE s[Max(set)].model

\* The model that is active at the x-th of the entries s: that of the last
\* model_change, or assistant entry with usage, before it that names one.
SetsModel(l) == /\ l.type = "model_change" \/ (l.type = "message" /\ l.usage)
                /\ l.model # None

ActiveModel(s, x) == LastModel(s, {y \in 1..(x - 1) : SetsModel(s[y])})

\* "A pi file is read across Collector Runs; the session header and the active
\* model are established once, early, and must persist" (test_source_pi.py:221-222):
\* a compaction is attributed to the model that was active when pi wrote it.
CompactionHasItsModel ==
  \A f \in Files : \A x \in 1..db.off[f] :
    entries[f][x].type = "compaction" =>
      db.comps[entries[f][x].id].model = ActiveModel(entries[f], x)

\* A compaction may lose its model to a read boundary, and is never given one that
\* was not active: the SessionState of a read knows the last change since it began,
\* whatever entries without usage and copies in forks come between.
CompactionModelNeverWrong ==
  \A f \in Files : \A x \in 1..db.off[f] :
    entries[f][x].type = "compaction" /\ db.comps[entries[f][x].id] # None =>
      db.comps[entries[f][x].id].model \in {None, ActiveModel(entries[f], x)}

\* The model of a compaction comes "from `model_change` entries and preceding assistant
\* messages" (architecture.md:65), those without usage among them.
NamesModel(l) == l.type \in {"model_change", "message"} /\ l.model # None

CompactionFollowsMessages ==
  \A f \in Files : \A x \in 1..db.off[f] :
    entries[f][x].type = "compaction" /\ db.comps[entries[f][x].id] # None =>
      db.comps[entries[f][x].id].model
        \in {None, LastModel(entries[f], {y \in 1..(x - 1) : NamesModel(entries[f][y])})}

\* The ledger of the turns and compactions that the files hold: what is stored is of
\* a session that has it, forked or not, and is never dropped or moved.
LedgerKeys == [type : {"message"}, id : Turns, model : MaybeModel]
  \cup [type : {"compaction"}, id : Compactions]

KeyOf(l) == IF l.type = "message" THEN [type |-> l.type, id |-> l.id, model |-> l.model]
            ELSE [type |-> l.type, id |-> l.id]

HeldBy(f) == {<<f, KeyOf(l)>> : l \in {m \in EntrySet(f) : Billed(m)}}
Held == UNION {HeldBy(f) : f \in Files}

RowOf(t, k) == IF k.type = "message" THEN t.msgs[<<k.id, k.model>>] ELSE t.comps[k.id]

Sessions == [k \in LedgerKeys |-> IF RowOf(db, k) = None THEN None ELSE RowOf(db, k).session]

SpendLedger == INSTANCE Ledger
  WITH Paths <- Files, Keys <- LedgerKeys, written <- Held, rows <- Sessions

ImplementsLedger == SpendLedger!Spec

\* The entries of tool u, the record of one, and those in the first n lines of f.
Of(l, u)    == l.type \in {"message", "toolResult"} /\ l.tool = u
RecordOf(l) == IF l.type = "message" THEN CallRow(l.ts) ELSE ResultRow(l.ts, FALSE)
RecordsOf(f, u, n) == [x \in {y \in 1..n : Of(entries[f][y], u)} |-> RecordOf(entries[f][x])]

\* The row of a tool call of a session that is in the name of its file is what one
\* pass over the lines below the offset says, wherever the reads began and ended.
ToolRowsExact ==
  \A f \in Files \ Nested, u \in Tools :
    db.calls[<<f, u>>] = CallOf(RecordsOf(f, u, db.off[f]))

--------------------------------------------------------------------------------
(***************************************************************************)
(* The inductive invariant behind OneRowPerTurn, SessionSpendStored and    *)
(* CompactionModelNeverWrong.  Copies of a turn name one model and copies  *)
(* of a compaction have one past; what is stored comes from an entry; what *)
(* is below an offset, or behind the position of a read, is stored there   *)
(* if the name of the file gives the session; and the model a read         *)
(* remembers is the active one, or none.                                   *)
(***************************************************************************)

OneModel(es) ==
  \A f, g \in Files : \A x \in 1..Len(es[f]), y \in 1..Len(es[g]) :
    es[f][x].type = "message" /\ es[g][y].type = "message" /\ es[f][x].id = es[g][y].id
    => es[f][x].model = es[g][y].model /\ es[f][x].model # None

OnePast(es) ==
  \A f, g \in Files : \A x \in 1..Len(es[f]), y \in 1..Len(es[g]) :
    es[f][x].type = "compaction" /\ es[g][y].type = "compaction" /\ es[f][x].id = es[g][y].id
    => x = y /\ \A z \in 1..x : es[f][z] = es[g][z]

HeaderFirst(es) ==
  \A f \in Files : \A x \in 1..Len(es[f]) : es[f][x].type = "session" => x = 1

TurnsFrom(es, msgs) ==
  \A k \in Turns \X MaybeModel : msgs[k] # None =>
    \E f \in Files : \E x \in 1..Len(es[f]) :
      es[f][x].type = "message" /\ <<es[f][x].id, es[f][x].model>> = k

CompsFrom(es, comps) ==
  \A e \in Compactions : comps[e] # None =>
    \E f \in Files : \E x \in 1..Len(es[f]) :
      /\ es[f][x].type = "compaction" /\ es[f][x].id = e
      /\ comps[e].model \in {None, ActiveModel(es[f], x)}

StoredUpTo(t, s, n) ==
  \A x \in 1..Len(s) : x <= n /\ Billed(s[x]) => Stored(t, s[x])

Origins(es, t) ==
  /\ OwnModel => TurnsFrom(es, t.msgs)
  /\ CompsFrom(es, t.comps)

Keeps(t, u) ==
  /\ \A k \in Turns \X MaybeModel : t.msgs[k] # None => u.msgs[k] # None
  /\ \A e \in Compactions : t.comps[e] # None => u.comps[e] # None

EntriesRight(es) ==
  /\ OwnModel => OneModel(es)
  /\ OnePast(es)
  /\ HeaderFirst(es)

OffsetsStored(es, t) ==
  \A f \in Files : /\ t.off[f] <= Len(es[f])
                   /\ f \notin Nested => StoredUpTo(t, es[f], t.off[f])

ReadRight(es, t, r) ==
  /\ r.pos <= Len(es[r.file])
  /\ r.pos = 0 => r.model = None
  /\ r.session # None => r.model \in {None, ActiveModel(es[r.file], r.pos + 1)}
  /\ Origins(es, r)
  /\ Keeps(t, r)
  /\ r.file \notin Nested => r.session # None /\ StoredUpTo(r, es[r.file], r.pos)

PiInv ==
  /\ EntriesRight(entries)
  /\ Origins(entries, db)
  /\ OffsetsStored(entries, db)
  /\ read # None => ReadRight(entries, db, read)

(***************************************************************************)
(* The inductive invariant behind ToolRowsExact.  A file has one entry     *)
(* that calls a tool and one with its result, so a record that is read     *)
(* again says nothing new; a read stores under no session but that of its  *)
(* file, and, if it has that from the name of the file, stores what is     *)
(* stored of the file or what it has passed, whichever is more.            *)
(***************************************************************************)

ToolsOnce ==
  \A f \in Files, u \in Tools : \A x, y \in 1..Len(entries[f]) :
    /\ Of(entries[f][x], u) /\ Of(entries[f][y], u)
    /\ entries[f][x].type = entries[f][y].type
    => x = y

ReadEnd == IF read.pos > db.off[read.file] THEN read.pos ELSE db.off[read.file]

ToolInv ==
  /\ ToolsOnce
  /\ ToolRowsExact
  /\ read # None =>
       /\ read.session \in {None, read.file}
       /\ \A f \in Files \ Nested, u \in Tools :
            read.calls[<<f, u>>] =
              CallOf(RecordsOf(f, u, IF f = read.file THEN ReadEnd ELSE db.off[f]))

(***************************************************************************)
(* The inductive invariant behind ImplementsLedger, where every assistant  *)
(* entry names its model: what is stored, or in the transaction of a read, *)
(* is attributed to a session that has it, and a read changes no row that  *)
(* it started with.                                                        *)
(***************************************************************************)

Attributed(t) ==
  \A k \in LedgerKeys : RowOf(t, k) # None => <<RowOf(t, k).session, k>> \in Held

LedgerInv ==
  /\ Attributed(db)
  /\ read # None =>
       /\ Attributed(read)
       /\ \A k \in LedgerKeys : RowOf(db, k) # None => RowOf(read, k) = RowOf(db, k)
================================================================================
