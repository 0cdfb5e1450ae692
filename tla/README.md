# TLA+ model of the local agent tracker

`tracker collect` runs every five minutes, reads the transcripts that Claude
Code and pi are writing at that very moment, and keeps one row per message,
tool call and subagent run in an SQLite store from which sessions, costs and
reports are derived. The numbers are only worth something if every message is
in the store once: not lost between two runs, not billed twice. This directory
holds TLA+ modules for the parts of the program that decide this, TLC
configurations that check them on small instances, and TLAPS proofs.

## Inventory of the system

| Part (under `src/tracker`) | State | Operations | Made correct by |
|---|---|---|---|
| discovery (`sources/discovery.py`) | none, reads the directory trees | `discover_all`, sorted by (kind, path) | a stable order, so that a budget cuts a prefix |
| watermarks (`ingest/watermarks.py`) | `ingest_files`: inode, size, mtime, offset, counters per path | `decide`, `save_watermark`, `load_all_watermarks` | never past data that was not stored; unchanged means all stored |
| reader (`ingest/reader.py`) | an open file and an offset | `iter_complete_lines` | offsets only at newlines |
| collector run (`ingest/pipeline.py`) | loaded watermarks, budgets, one open transaction | `collect`, `_ingest_one_file` | rows and watermark commit together; every file is eventually read |
| Claude parser (`sources/claude_code.py`) | ids seen in this read | `parse_lines` | one message per response, all its tool calls |
| pi parser (`sources/pi.py`), run history (`sources/pi_run_history.py`) | session id and model in force | `parse_lines` | a message keeps its session and model across reads |
| dedup keys (`normalize/dedup.py`), records (`normalize/models.py`) | none | key functions, `to_row` | stable for copies, distinct for different records |
| store (`db/store.py`, `db/schema.py`) | SQLite tables, WAL | `transaction`, `upsert_*`, `migrate` | first write wins for messages; tool calls merge without erasing |
| pricing (`pricing/`) | vendored table files, active version | `resolve`, `price_message`, `load`, `update` | stored prices never change under a version |
| latency, rollups (`derive/`) | `messages.latency_ms`, `sessions` | `backfill_latency`, `rebuild_sessions` | agree with the messages they are derived from |
| experiments (`experiments.py`) | `experiments` | `start`, `stop`, `report` | a window is opened once, keeps its start, and its end is never taken away |
| reports, doctor (`report.py`) | none, reads | `q_*`, `run_doctor` | a total that lacks a cost says so; the doctor's checks hold of a healthy store |
| cli, config, systemd, ship | process and flock | `collect` = ingest, then derive in a transaction of its own | a timer run never overlaps a timer run |

How they interact: the timer starts `tracker collect` under a non-blocking
`flock`; a user may start another one, which takes no lock. A run discovers the
files, loads every watermark once, and for each file decides from a fresh `stat`
whether and from where to read; the lines go through the parser of the file's
kind, the pricing table and the upserts into one transaction that also saves
the watermark. After the last file latencies and session rollups are derived
from the messages table, in another transaction. The agents share nothing with
the collector but the files. `experiment start` and `stop`, `report` and
`status` run in shells of their own while collectors commit.

What is hard about it: files change between discovery, `stat`, `open` and
`read`; a run can die at any point, and a power failure takes back commits
(`synchronous = NORMAL`); runs may overlap, each with watermarks as old as its
start; a response is several lines that may fall into different runs; copies of
a message turn up in other transcripts; derived tables are refreshed only for a
recent window; and a report, or a command on an experiment, is several
statements in autocommit mode, each of which may see another state of the store.

## Modules

| Module | Models | State |
|---|---|---|
| `Watermarks` | `decide`, `save_watermark`, `stat_file` as operators | - |
| `Collector` | collector runs against agents that write, delete and recreate transcripts; crashes, failing reads, power failures, budgets | files, store, each run |
| `Ledger` | what the messages table promises; `Collector`, `ClaudeTranscripts` and `PiSession` implement it | written, rows |
| `ToolCalls` | the merge of tool calls and results (`upsert_tool_calls`) | - |
| `ClaudeTranscripts` | Claude Code transcripts, `parse_lines`, message keys, upserts | lines, store, the read in progress |
| `PiSession` | pi session files, `parse_lines` and `SessionState` | entries, store, the read in progress |
| `SubagentRuns` | the `subagent_runs` row of a transcript: batches, announcements, `upsert_subagent_runs` | runs, the batch in progress |
| `Derive` | latencies, session rollups, the derive transaction of `collect` | messages, sessions |
| `Usage` | the counts of a usage block, `_usage_from` of both parsers and `TokenUsage` | - |
| `Pricing` | `pricing update`, conversion, loading, resolving and pricing | table files, ACTIVE, rows |
| `Experiments` | `experiment start` and `stop` in any number of shells | experiments, commands in progress |
| `Windows` | what the experiments table promises; `Experiments` implements it | clock, experiments |
| `Reports` | `report`, `status` and `experiment report` query by query | messages, the command in progress |
| `CollectorProofs`, `LedgerProofs`, `ToolCallProofs`, `ClaudeProofs`, `PiProofs`, `DeriveProofs`, `PricingProofs`, `ReportsProofs` | theorems | - |
| `MCCollector`, `MCClaude`, `MCPi`, `MCDerive`, `MCPricing`, `MCReports` | symmetries and values for TLC | - |

`Collector` EXTENDS `Watermarks` and instantiates `Ledger`; `Pricing` EXTENDS
`Usage`; `ClaudeTranscripts`
and `PiSession` EXTEND `ToolCalls` and instantiate `Ledger` too; `SubagentRuns` EXTENDS `ClaudeTranscripts`
and joins its own part to each step of a read; `Reports` EXTENDS `Experiments`,
which instantiates `Windows`. `Collector` says where a read starts and
which reads are committed, with a line reduced to the key of its row. The two
parser modules look inside a read: there a read starts from any offset up to where
the file is stored, and ends in a commit or a rollback. `Derive` starts from
committed messages, `Reports` too, and `Pricing` from the pricing of one message.

### Collector

`file` and `ino` are the directory entries and the inodes; an inode keeps its
content when its path is removed, as a file that a reader holds open does.
`db` is the store as every connection sees it, `disk` what of it a power failure
leaves. One file goes through `Visit` (stat, `decide`), `Open`, `ReadLine` per
line, `EndOfFile` and `Commit`, so that agents and other runs act between any two of
these: a run may commit less than what is on disk, or stored by another, by then;
`Skip` is the fast path, `Vanished` a failed stat, `OpenFails` and `ReadFails`
the `except OSError`, `ParseRaises` an exception that ends the run. `Crash`
stands for any death of the process and for "database is locked". Reads do not
wait for each other's transactions: `transaction` issues a plain BEGIN
(`store.py:59`), which takes the write lock at the first upsert only, and that is
made when a batch is full or at the end of the file. A transaction takes effect at its commit,
all at once, which is what SQLite gives a writer whose rows do not depend on what
it read. `goal` is a history variable.

A line is worth its dedup key, or is `Blank` (not yielded), `Bad` (counted,
skipped) or `Poison` (the parser raises). That holds of every kind of file, the
pi run history included, whose parser keeps no state: one line, one key, one
row. Lines have equal width and an
unfinished one is shorter, so a byte offset behind a newline is a number of
lines; an offset that lands inside a line, possible only after a replacement on
the same inode, would make the code read a torn line and skip it.

### ClaudeTranscripts, PiSession, ToolCalls, SubagentRuns

An action of the agent writes one line: a content block of a response, perhaps
with a tool call, or a result; `Resume` and `Fork` copy a history into a new
file. `ReadLine` applies the parser to a line and upserts what it yields into the
read's view of the tables, `EndRead` commits that view with the offset, and
`AbortRead` drops it. `Collector` shows which watermarks there are: none is past
what is stored, and with overlapping runs, or after a reset, they may be anywhere
before, and move back. So here `off` is how far a file has been stored by any run,
a read starts from anywhere up to it, and it ends wherever the file ended when the
run came to it. Reads that overlap are still one after the other, since SQLite has
one writer and what a read writes does not depend on what it has read from the store.
A line without a message id has no requestId in the model: nothing reads it. An
assistant entry of pi may be without `usage`: it yields its tool call and no message,
and leaves the active model alone. Entries without an id or a timestamp, and those of
users, which the parser skips, are left out. `seen` and `SessionState` start empty in every read, since
`carry = {}` in every `_ingest_one_file` (`pipeline.py:265`). Hashes are taken
for injective, keys are tuples of what is hashed. A response has one usage, on
all of its lines; the numbers in it are those of `Usage`, below.

A transcript of a subagent is parsed in batches. `seen` is carried from batch to
batch, the set of runs announced is not, so one read may upsert a run several
times, and a re-read again. `SubagentRuns` counts the lines of a batch, decides
from the read of `ClaudeTranscripts` which lines announce, and commits or drops
its table together with it.

### Derive

`Derive` commits messages and failed tool calls in any order and with any
timestamp up to now, ticks a clock, and runs the derive transaction, incremental
or full, at any time: a run that crashes before it is a `Derive` that comes
later. `late` and `disordered` are history variables; they name the sessions
whose commits left the two-day window before they were derived from, and those
where a message arrived before one of its thread that precedes it.

### Usage, Pricing

A usage block gives its cache writes as a total, as a split by lifetime, or
both, and each agent in its own way; `ClaudeUsage` and `PiUsage` make counts of
it and `TokenUsage` makes up a sum that is zero. `UsageOf` is where a message
brings its block to `Pricing`.

The two writes of an update are taken apart: `open` truncates the file,
`write` fills it, and `FailUpdate` may come at any of the four steps. A run
loads the active table once. Three of the five rates are modelled: `input`,
and the cache writes of five minutes and of an hour, the last of which `_convert`
makes up as twice the input when upstream has none. Output and cache reads are
counted and charged as input is. A message costs the sum over its counts; it is
priced as reported by pi, derived from the table, zero-rated or
unknown. The digest of an upstream table is the table, and the table the
repository ships with has none, so that the first update always finds a change.

### Experiments, Reports

The connection of these commands is in autocommit mode. `start` is a SELECT, a
reading of the clock and an INSERT; `stop` a SELECT, a clock reading and an
UPDATE, after one more SELECT if no name is given; all interleave. A refused
command leaves no trace, so it is one that does not begin. `raced` is history:
whether another command wrote since this one began.

A figure of a report is the set of messages it is computed from: `counted` those
in the token sums, `costed` those with a cost in the sum, `unpriced` those named
as such. `Queries` has the SELECTs of each command in the order of the code.

## Runs

| Run | Instance | Shows |
|---|---|---|
| `collectors` | 2 overlapping runs, 1 path, 2 inodes, 2 keys, 5 file operations, no faults (5.2M states) | `TypeOK`; no watermark passes an unstored message (`NoLoss`) and no offset its file (`OffsetInFile`), although runs save watermarks as old as their starts; a file the fast path would skip is stored to its end (`SkipIsSafe`) |
| `budget` | 2 paths, 3 inodes, --max-files 1, --max-seconds, bad and poison lines, a crash, a power failure (5.6M) | a run that says "complete" has stored what was there when it started (`CompleteRunIsComplete`); `LinesCountedOnce`; what is on disk is consistent (`NoLossOnDisk`) and the messages on disk implement `Ledger` |
| `progress` | 2 paths, a crash, a failed read, blank lines, fairness (0.8M) | every message of a transcript that stays gets its row (`EventuallyStored`); `NoLoss` and `SkipIsSafe` with failing reads |
| `claude` | 2 transcripts, 2 responses, both of a subagent, 1 tool, 4 lines, batches of 2, reads of stale watermarks, rollbacks (4.0M) | one row per response (`NoDuplicateBilling`), none without (`EveryResponseBilled`), the messages implement `Ledger`, so attribution is stable, tool rows are those of one pass (`ToolRowsExact`), a subagent has one row from its start (`SubagentRunExact`) |
| `pi_sessions` | a session and a nested file, 1 turn, 1 compaction, 2 models, 1 tool, 4 entries, turns with and without usage, forks, reads of stale watermarks (5.3M) | one row per turn, all spend of the session stored (`SessionSpendStored`), a compaction gets the model active where it was written or none (`CompactionModelNeverWrong`), tool rows of the session are those of one pass, turns and compactions implement `Ledger` |
| `derive` | 2 sessions, 3 messages, window 2, 4 ticks (0.4M) | rollups and latencies of what arrived on time and in order are exact without a full rebuild; a full rebuild makes all exact |
| `pricing` | 1 listed model and `<synthetic>`, 1 message, 7 usage blocks, 1 rate or none, 3 days (6.6M) | a row costs what its version says or what pi reported, `ACTIVE` never names an incomplete table, no stored price changes; the counts of a row add up (`TokensAddUp`), and each token is in a derived cost once (`EveryTokenCharged`) |
| `reports` | 2 experiments, 2 shells, 2 messages, one of them unpriced, 2 ticks (5.5M) | a total that lacks a cost names an unpriced message (`IncompleteIsSaid`); an experiment is credited only with what came after its start; `Experiments` implements `Windows`; a command that was not overtaken acts as if in one step (`SerialUnlessRaced`) |
| `inode_reuse` | inodes may be reused | `OffsetIsMeaningful` is violated |
| `pi_nested` | a nested session file | `EverySpendStored` is violated |
| `derive_late` | as `derive` | `RollupsAgree` is violated |
| `pricing_same_day` | two updates on a day | `PricedAsItsVersion` is violated |

The last four state what the documentation, a comment or `tracker doctor` says,
and what the code does not keep; `PROJECT.json` quotes both under "findings".

### Bounds

The bounds are `MaxWrites`, `MaxClock`, `MaxCrashes`, `MaxPowerLoss`,
`MaxIOErrors` (Collector), `MaxLines` (ClaudeTranscripts),
`MaxEntries` (PiSession), `MaxTime` (Derive, Experiments) and `MaxDay` (Pricing); all sit in
guards of the environment or of faults. `BatchSize` is a constant of the code,
2000 there and 2 here, so that four lines fill two batches. Five file operations are enough to
create a transcript, write to it, delete it, recreate it on another inode and
write again, with two runs at any point of this; four on two paths let a budget cut
between files that both change. One power failure after a sync and before the
next exercises every split of commits into kept and lost. Four lines are a
response of several blocks with a call and its result, split anywhere, before or
after a copy. Three messages make every order around one that already has a
latency. Three days are the shipped table, an update, and one more while a run
still prices with the first; messages are priced independently of each other, so
one is enough. Two names, two shells and two ticks have a window open while another
is started, stopped or raced for. Runs that stop at such a bound switch the deadlock check off
(ClaudeTranscripts, PiSession, Reports: when the agents have written all they may and all is read,
or every name is taken and every message stored, there may be nothing left to
do); the others keep it on.

`collectors` runs under the VIEW `ToCome`: what the steps to come depend on. It leaves
out `goal`, a history variable that no guard and none of the run's properties reads,
the loaded watermark of a file already visited, and what a read no longer needs: where
it started, which only a failed read saves, and its position once it is at the end.
The view is sound where no limit counts the files and no read fails, as in this run.
Power failures, crashes and failed reads under two runs are in the theorems, which
hold for any bounds; `budget` and `progress` have them with one run.

### Fairness

`FairSpec` assumes weak fairness of each collector's own steps, `Collect(c)`:
the timer fires every five minutes (`OnCalendar=*:0/5`, `Persistent=true`), and
a started process is scheduled. Nothing is assumed of agents and faults. A step
of a run is always enabled, so weak fairness says only that runs go on. Fairness
is not used by the safety properties.

### What the switches assume

A passing run that needs a fact about the environment names it as a constant.

- `Reuse = FALSE`: the file system does not hand a deleted transcript's inode to
  its replacement. `inode_reuse` shows what happens otherwise.
- `SomeWithout = FALSE`: all lines of a response carry a requestId or none does.
- `OwnModel = TRUE`: pi's assistant entries name their model. What `pi_sessions` says of
  spend and tool rows, it says of files that name their session; `pi_nested` is about
  the others.
- `OncePerDay = TRUE`: at most one pricing update in a day.
- `MCClaudeBlocks`, `MCPiBlocks`: a usage block agrees with itself, that is, its split
  makes up its total where it has both (`ClaudeAgrees`, `PiAgrees`).
- `MaxFiles = 0` and no `Poison` in `progress`: runs have time for every file, and no
  line makes the parser raise: with either, `EventuallyStored` or `EveryFileReached` is
  refuted. `MaxIOErrors = 0` in `budget`: no read fails, since
  the counters behind `LinesCountedOnce` do not survive that (below).

### Other documented promises that do not hold

The modules also define these; no run lists them. Each is refuted by TLC in
the instance named, as the only property.

| Property | Instance | What happens |
|---|---|---|
| `OffsetWithinSize` | `progress` | a line appended between stat and read leaves the offset past the saved size, which `doctor` reports (`report.py:218`) |
| `RewrittenWasNotAppended` | `progress` | the next run then takes the file for one rewritten in place and reads it from zero |
| `SameStatIsNotOpened` | `progress` | a file that ends in a blank or unfinished line is opened by every run |
| `LinesCountedOnce` | `progress` | the OSError handler forgets a reset, and the re-read adds to the old counter |
| `LinesCountedOnce` | `collectors` without its VIEW | a run reads again what an overlapping one has counted since, and adds to the newer counter |
| `EveryFileReached` | `progress` with `MaxFiles = 1` | a file that every run re-reads takes the budget each time |
| `EventuallyStored` | `progress` with `Lines = {k1, Poison}` | a JSON line with a field of another type aborts this and every later run |
| `NoDuplicateBilling` | `claude` with `SomeWithout = TRUE` | a read boundary between lines with and without a requestId bills twice |
| `ToolCallsMerged` | `claude` | a copied tool call has the copy's session id in its key, and a row of its own |
| `RunIsCompletedOnly` | `claude` | a later batch or read replaces the model of a subagent run that had one |
| `CompactionHasItsModel` | `pi_sessions` with `Nested = {}` | a compaction read in a later run than the model change has no model |
| `CompactionFollowsMessages` | `pi_sessions` | an assistant entry without usage names a model that a compaction after it does not get, although it is a "preceding assistant message" (`architecture.md:65`) |
| `OneRowPerTurn` | `pi_sessions` with `OwnModel = FALSE` | an inherited model is part of the key, and depends on where the read began |
| `TokensAddUp`, `EveryTokenCharged` | `pricing` with a block of 2 written, of which the split has 1 | what the split lacks of the total is counted and not charged |
| `FailedUpdateLeavesATable` | `pricing` | a failed write of ACTIVE leaves it empty |
| `NoRateIsUnknown` | `pricing` | a listed model without a rate costs 0 as derived |
| `EndIsFinal` | `reports` | two overlapping stops both succeed, and the second moves the end |
| `StopDoesNotGuess` | `reports` | a stop without a name ends the window it found although another was opened since |
| `StartIsRefusedByName` | `reports` | the loser of two starts gets an IntegrityError, not the message about the name |
| `ExperimentSaysIncomplete` | `reports` | the spend of an experiment omits unpriced messages without a word |

## Proofs

`CollectorProofs` proves, for any paths, inodes, keys, collectors and bounds,
`TypeCorrect`, and, if inodes are not reused, `NothingIsLost` (`NoLoss`),
`NothingIsLostOnDisk` and `OffsetsInFiles`. None of these is inductive: whether a
commit keeps `NoLoss` depends on what the read behind it has passed, and that on
the snapshot the read started from. `LossInv` says it of every watermark there
is - stored, on disk, in the snapshot of a run - and of every read: while the
watermark's inode is the one its path names, its offset is inside the file and
what is before it is stored; lines a read has passed are stored or in its
transaction. Two facts carry the argument. Rows are never removed except by a
power failure, which takes watermarks and rows back together and ends every
run. And a path that came to name another inode never names the old one again,
so stale snapshots and reads of a replaced file promise nothing more: that is
where the proof, and the program, need that inodes are not reused. `SkippingIsSafe`
(`SkipIsSafe`) follows: a stored offset that equals the size of its own inode leaves
nothing behind it, complete or not. So does `OffsetsAreMeaningful`
(`OffsetIsMeaningful`), which `inode_reuse` refutes: reuse is the one cause.

`CompleteRunsAreComplete` (`CompleteRunIsComplete`) needs `GoalInv` on top: while a
run goes on, what it found of a file that has not been replaced since is stored,
unless the file is still to be visited or is being read from its present inode. A
run ends as complete only when nothing is to be visited, and a power failure,
which alone could take rows back, ends the run. `EachLineCountedOnce`
(`LinesCountedOnce`) holds for one collector and as long as no read has failed, which
is what its hypotheses say; both are needed (see the table above). `CountInv` says
that the watermark a run has loaded of a file it has not finished is the stored one,
so that what a read counts belongs on top of it, or replaces it after a reset; the
number of lines below an offset is a cardinality, and one more line adds one.

`LedgerProofs` proves `LedgerImplemented`, that `Collector` implements `Ledger` if
inodes are not reused. `LedgerInv` says that every row, in the store, on disk or in
a transaction, is of a line that its transcript once held, and that what is on disk
is in the store with the same attribution. The second is why a power failure can
only postpone an insert of the `Ledger` and a later sync never re-attribute one;
the first needs that an inode keeps the transcript it was created for. The two
parser modules implement the same `Ledger` from the other side: theirs has the keys
of `normalize/dedup.py`, the copies that resumed and forked sessions make, and reads
that start anywhere. `ClaudeProofs` proves it without further assumption, `PiProofs`
if assistant entries name their model, since the key of one that inherits it depends
on where the read began. In both, the invariant (`LedgerInv` there) is that a row, of
the store or of a read, is of a session whose file has the message, because a read
stores under the session of its own file only.

`ClaudeProofs` proves `TypeCorrect`, `Billing` (`EveryResponseBilled`) and, if the lines
of a response agree on the requestId, `BilledOnce` (`NoDuplicateBilling`), for any transcripts,
responses, tools and bounds. The invariant is `BillingInv`: the requestId of a
response is the same in all transcripts; a stored key is that of some line;
responses below an offset, behind the position of a read or in its `seen` set
are billed; and a read's view of the messages extends the store's, since only
one read is in progress. `Resume` keeps the first because a copy adds no new line.

`ToolRows` (`ToolRowsExact`) is about the order in which a call and its result are
met, and how often. `ToolCallProofs` has what both agents need of `ToolCalls` for it:
if there is at most one call and one result, merging them one by one gives the row
of one pass (`CallOfNext`), and merging one of them again changes nothing
(`CallOfAgain`). `ToolInv` says that a transcript has one line of each per tool, and
that a read has the rows of what is stored of its file, or of what it has passed,
whichever is more: a read from before the offset repeats records until it gets past
it, and adds the next one from there on.

`RunsAreTranscripts` proves that the batched parser of `SubagentRuns` implements
`ClaudeTranscripts`: every theorem about the latter holds of it. `RunsTypeCorrect` is
`RunsTypeOK`; `OneRowPerSubagent` (`SubagentRunExact`) rests on `RunsInv`: the run row
in the table of a read is that of what is stored or passed of its transcript,
whichever is more: it is there as soon as the subagent has spoken in that, and starts
at its first line. A later announcement carries a later line, and the upsert keeps the
earlier start.

`PiProofs` proves `TypeCorrect`, `CompactionsRight` (`CompactionModelNeverWrong`),
`SpendStored` (`SessionSpendStored`) and `ToolRows` (`ToolRowsExact`) without further
assumption, and `TurnsOnce` (`OneRowPerTurn`) if every assistant entry names its model.
`SpendStored` and `ToolRows` are about files with a session id in their names, whatever
nested files there are besides; `AllSpendStored` says that without nested files
`EverySpendStored` holds, which `pi_nested` refutes: they are the one cause. `PiInv`
says that the copies of a turn name one model and the copies of a compaction have one
past, that rows come from entries, that what is below an offset or behind the
position of a read is stored if the name of the file gives the session, and that a
read with a session remembers the active model or none. `ToolInv` is as for Claude,
and says that a read stores under no session but that of its own file.
A read without a session may remember a wrong one, since it skips the entries that
change it (an assistant entry without usage never does); it then stores nothing, and the header that would give it a session is
only ever the first line. That is the argument the code leaves unsaid.

`DeriveProofs` proves `TypeCorrect`, `Rollups` (`RollupsExact`), `Latencies`
(`LatenciesExact`) and `FullRebuild` (`FullRebuildIsExact`) for any messages,
sessions, window and clock. `RollupsExact` alone is not kept by an incremental
derivation: it recomputes only sessions with a message in the window. `DeriveInv`
adds that a session owed a derivation and not late still has such a message, and
that a latency which was filled in is the one of the whole thread unless the
session is `disordered`.

`PricingProofs` proves `TypeCorrect` and `NotRepriced` (`NeverRepriced`), and, with
at most one update in a day, `Priced` (`PricedAsItsVersion`) and `ActiveTable`
(`ActiveIsComplete`). `PricingInv` says that an update writes only files that no
version in use names, so that the table a run has loaded, or a row was priced
with, is still there and unchanged. `OncePerDay` is what makes the file of the day
unnamed; `pricing_same_day` is the counterexample without it. If usage blocks agree
with themselves (`BlocksAgree`), `TokensSplit` proves `TokensAddUp`, and
`TokensCharged` proves `EveryTokenCharged` for any rates: a weighted sum of the
counts lies between their total at the lowest and at the highest weight.

`ReportsProofs` proves, of `Experiments`, `TypeCorrect`, `WindowsImplemented` (the refinement of
`Windows`) and `Serial` (`SerialUnlessRaced`) for any names and shells, by
`WindowsInv`: no timestamp is in the future, a stop read the clock after its
window started, and what a command has found out stays true until another
command writes. Of `Reports` it proves `ReportsTypeCorrect`, `Incomplete`
(`IncompleteIsSaid`) and `Credited` (`CreditedAfterStart`) by `ReadingInv`: what a
command has read stays true of the store while rows are only added and starts do
not move.

The proofs assume the named assumptions of the modules, `PathsAssumption`,
`NoneAssumption` (of `Collector` and of `SubagentRuns`), `LinesAssumption`,
`BoundsAssumption`, `NullAssumption`, `ClaudeAssumption`, `SubagentAssumption`,
`PiAssumption`, `DeriveAssumption`, `PricingAssumption`, `ExperimentsAssumption` and
`ReportsAssumption`, which are about the constants and are evaluated by TLC in every
run.

Every invariant and action property of a passing run has its theorem, and so has each
refinement. Only model-checked is the liveness property `EventuallyStored`: it needs
weak fairness, that is, ENABLED, which is out of this prover's reach. Of the
properties that a run refutes, `RollupsAgree` has no theorem; `RollupsExact` is what
holds instead of it.

## Not modelled

- Working directories, counters of a run, `RunStats`, formatting.
- Renamed transcripts, and transcripts that a power failure shortens: agents
  append, delete and recreate.
- Two reads in progress of `ClaudeTranscripts` or `PiSession`: SQLite serialises
  their transactions, and what else overlapping does to a read is where it starts
  and ends, which these modules leave open.
- The fields of a pi run history line: the line is a key, like any other.
  Its meta files (`parse_meta_json`) are read by nothing in the program.
- SQLite refusing a write: `SQLITE_BUSY` ends a command or a run, as `Crash` and
  `GiveUp` do. The first statement of the derive transaction is an UPDATE, which
  takes the write lock, so that transaction is one step.
- Two pricing updates at once; aliases, prefixes and the date suffix of model ids are
  the constant `TargetOf`.
- Grouping, sorting and rendering of reports, `list_all` (one SELECT), and the
  spelling of timestamps, which the program compares as strings.
- Configuration, argument parsing, and the ship seam (`ship` raises
  `NotImplementedError`): they change no state.

## Planned

Transcripts that are deleted and recreated in `ClaudeTranscripts` and `PiSession`,
which so far only `Collector` has; `ToolRowsExact` and `ImplementsLedger` would then
be about the lines a transcript has held, as they are in `Collector`.
