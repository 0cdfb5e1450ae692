------------------------------- MODULE Collector ------------------------------
(***************************************************************************)
(* The collector run of src/tracker/ingest/pipeline.py, with the reader of *)
(* ingest/reader.py and the writes of db/store.py, against agents that     *)
(* append to, delete and recreate the transcripts while they are read.     *)
(*                                                                         *)
(* Several collectors may run at once: the flock of the systemd service    *)
(* keeps two timer runs apart, not a timer run and `tracker collect`.      *)
(* A transcript line is the dedup key of the row it yields, or one of the  *)
(* three lines that yield none.  Lines have equal width (see Watermarks),  *)
(* so an offset taken in one file falls on a boundary of any other; in the *)
(* code the first line read there may be torn, and is skipped like Bad.    *)
(***************************************************************************)
EXTENDS Watermarks, Sequences, FiniteSets

CONSTANTS
  Paths,         \* transcript paths, numbered in the order discover_all sorts them
  Inodes,
  Keys,          \* dedup keys
  Blank,         \* a line of whitespace: the reader does not yield it
  Bad,           \* a line that does not parse: yielded, counted, no row
  Poison,        \* a JSON line whose fields make the parser raise
  Lines,         \* the lines agents write in this instance
  Collectors,
  MaxFiles,      \* --max-files, 0 is unlimited
  TimeBudget,    \* whether --max-seconds may run out
  Reuse,         \* whether the file system may hand out the inode of a deleted file again
  MaxWrites,     \* bound: file operations of the agents
  MaxClock,      \* bound: ticks of the file-timestamp clock
  MaxCrashes,    \* bound: collectors killed, or aborted by "database is locked"
  MaxPowerLoss,  \* bound: power failures
  MaxIOErrors    \* bound: reads that fail with OSError

ASSUME PathsAssumption  == Paths \subseteq Nat
ASSUME NoneAssumption   == None \notin Paths \cup Inodes \cup Keys
ASSUME LinesAssumption  == /\ Lines \subseteq Keys \cup {Blank, Bad, Poison}
                           /\ {Blank, Bad, Poison} \cap Keys = {}
ASSUME BoundsAssumption ==
  /\ {MaxFiles, MaxWrites, MaxClock, MaxCrashes, MaxPowerLoss, MaxIOErrors} \subseteq Nat
  /\ {TimeBudget, Reuse} \subseteq BOOLEAN

VARIABLES
  file,    \* the inode each path names, None if there is no file
  ino,     \* each inode: the path it was created at, complete lines, partial tail, mtime
  born,    \* inodes that have been in use
  clock,   \* the file-timestamp clock; it need not advance between two writes
  writes,  \* number of file operations so far
  db,      \* the store as readers see it: messages, ingest_files, last ingest_runs row
  disk,    \* the part of it that survives a power failure
  pc,      \* where each collector is: idle, scan (between files), open, read, end (of file)
  todo,    \* discovered paths it has not visited
  snap,    \* the watermarks it loaded when it started
  nread,   \* files it has read (stats.files_read)
  job,     \* the file it is at
  goal,    \* history: what each file held when the run started
  faults   \* number of faults of each kind so far

fileVars == <<file, ino, born, clock, writes>>
runVars  == <<pc, todo, snap, nread, job, goal>>
vars     == <<fileVars, db, disk, runVars, faults>>

-------------------------------------------------------------------------------
\* The files.

Content(i) == ino[i].lines
StatOf(i)  == FileStat(i, Len(Content(i)), ino[i].partial, ino[i].mtime)

\* One agent operation on inode i, stamped with a clock that may have advanced.
Touch(i, path, lines, partial) ==
  /\ writes < MaxWrites
  /\ writes' = writes + 1
  /\ clock'  \in {clock, clock + 1} \cap 0..MaxClock
  /\ ino'    = [ino EXCEPT ![i] = [home |-> path, lines |-> lines,
                                   partial |-> partial, mtime |-> clock']]

OpenInodes == {job[c].fd : c \in {d \in Collectors : pc[d] = "read"}}
FreeInodes == IF Reuse
              THEN Inodes \ ({file[p] : p \in Paths} \cup OpenInodes)
              ELSE Inodes \ born

\* A session starts (or a deleted transcript is recreated).
CreateFile(p, i) ==
  /\ file[p] = None
  /\ i \in FreeInodes
  /\ Touch(i, p, <<>>, FALSE)
  /\ file' = [file EXCEPT ![p] = i]
  /\ born' = born \cup {i}
  /\ UNCHANGED <<db, disk, runVars, faults>>

\* The agent writes the start of a line.
StartLine(p) ==
  /\ file[p] # None
  /\ ~ino[file[p]].partial
  /\ Touch(file[p], p, Content(file[p]), TRUE)
  /\ UNCHANGED <<file, born, db, disk, runVars, faults>>

\* The agent writes a line, or the rest of the one it started, and its newline.
WriteLine(p, l) ==
  /\ file[p] # None
  /\ Touch(file[p], p, Append(Content(file[p]), l), FALSE)
  /\ UNCHANGED <<file, born, db, disk, runVars, faults>>

RemoveFile(p) ==
  /\ file[p] # None
  /\ writes < MaxWrites
  /\ writes' = writes + 1
  /\ file' = [file EXCEPT ![p] = None]
  /\ UNCHANGED <<ino, born, clock, db, disk, runVars, faults>>

-------------------------------------------------------------------------------
\* The store.

NoMarks == [p \in Paths |-> None]
EmptyDb == [rows |-> [k \in Keys |-> None], marks |-> NoMarks, run |-> None]

\* Mutant: the last write wins.
InsertLast(rows, keys, p) == [k \in Keys |-> IF k \in keys THEN p ELSE rows[k]]

\* upsert_messages: ON CONFLICT (dedup_key) DO NOTHING; a row keeps its source_file.
Insert(rows, keys, p) ==
  [k \in Keys |-> IF k \in keys /\ rows[k] = None THEN p ELSE rows[k]]

\* Mutant: the offset of a path never goes back.
SetMarkMax(marks, p, st, offset, n, reset) ==
  LET old == IF marks[p] = None THEN 0 ELSE marks[p].offset
  IN  [marks EXCEPT ![p] = SavedMark(marks[p], st, IF old > offset THEN old ELSE offset, n, reset)]

\* save_watermark for path p, on whatever row is stored at that moment.
SetMark(marks, p, st, offset, n, reset) ==
  [marks EXCEPT ![p] = SavedMark(marks[p], st, offset, n, reset)]

-------------------------------------------------------------------------------
\* The collector.

FilesSpent(c) == MaxFiles > 0 /\ nread[c] >= MaxFiles

\* The loop goes on, with the file p.
NextPath(c, p) ==
  /\ ~FilesSpent(c)
  /\ p \in todo[c]
  /\ \A q \in todo[c] : p <= q

\* What is there for a run that starts now to find.
Present(p) == IF file[p] = None THEN None
              ELSE [inode |-> file[p], len |-> Len(Content(file[p]))]

\* discover_all, then load_all_watermarks.
StartRun(c) ==
  /\ pc[c] = "idle"
  /\ pc'    = [pc    EXCEPT ![c] = "scan"]
  /\ todo'  = [todo  EXCEPT ![c] = {p \in Paths : file[p] # None}]
  /\ snap'  = [snap  EXCEPT ![c] = db.marks]
  /\ nread' = [nread EXCEPT ![c] = 0]
  /\ goal'  = [goal  EXCEPT ![c] = [p \in Paths |-> Present(p)]]
  /\ UNCHANGED <<fileVars, db, disk, job, faults>>

\* stat_file fails: vanished between discovery and stat.
Vanished(c, p) ==
  /\ pc[c] = "scan"
  /\ NextPath(c, p)
  /\ file[p] = None
  /\ todo' = [todo EXCEPT ![c] = @ \ {p}]
  /\ UNCHANGED <<fileVars, db, disk, pc, snap, nread, job, goal, faults>>

\* The fast path: the file is not opened.
Skip(c, p) ==
  /\ pc[c] = "scan"
  /\ NextPath(c, p)
  /\ file[p] # None
  /\ Decide(snap[c][p], StatOf(file[p])) = "unchanged"
  /\ todo' = [todo EXCEPT ![c] = @ \ {p}]
  /\ UNCHANGED <<fileVars, db, disk, pc, snap, nread, job, goal, faults>>

NewJob(wm, p, st) ==
  [path  |-> p, stat |-> st, start |-> StartOffset(wm, st),
   reset |-> Decide(wm, st) \in Resets,
   fd    |-> None,                \* the open inode
   pos   |-> StartOffset(wm, st), \* lines behind the file object
   off   |-> StartOffset(wm, st), \* offset of the last line yielded
   got   |-> {},                  \* lines in the open transaction
   n     |-> 0]                   \* how many were yielded

\* The file is to be read; it has been stat'ed and not yet opened.
Visit(c, p) ==
  /\ pc[c] = "scan"
  /\ NextPath(c, p)
  /\ file[p] # None
  /\ Decide(snap[c][p], StatOf(file[p])) # "unchanged"
  /\ job'  = [job EXCEPT ![c] = NewJob(snap[c][p], p, StatOf(file[p]))]
  /\ pc'   = [pc   EXCEPT ![c] = "open"]
  /\ todo' = [todo EXCEPT ![c] = @ \ {p}]
  /\ UNCHANGED <<fileVars, db, disk, snap, nread, goal, faults>>

\* iter_complete_lines opens the path: it may name another inode by now.
Open(c) ==
  /\ pc[c] = "open"
  /\ file[job[c].path] # None
  /\ job' = [job EXCEPT ![c].fd = file[job[c].path]]
  /\ pc'  = [pc  EXCEPT ![c] = "read"]
  /\ UNCHANGED <<fileVars, db, disk, todo, snap, nread, goal, faults>>

\* The reader takes the line l; a blank one moves the file object, not the offset.
Yield(j, l) ==
  IF l = Blank
  THEN [j EXCEPT !.pos = @ + 1]
  ELSE [j EXCEPT !.pos = @ + 1, !.off = j.pos + 1, !.got = @ \cup {l}, !.n = @ + 1]

AtEnd(j) == j.pos >= Len(Content(j.fd))

ReadLine(c) ==
  /\ pc[c] = "read"
  /\ ~AtEnd(job[c])
  /\ job' = [job EXCEPT ![c] = Yield(@, Content(@.fd)[@.pos + 1])]
  /\ UNCHANGED <<fileVars, db, disk, pc, todo, snap, nread, goal, faults>>

\* The end of the file, or a partial line: the reader closes it.  Whatever is appended
\* or committed from here on, the transaction is of the lines it has yielded.
EndOfFile(c) ==
  /\ pc[c] = "read"
  /\ AtEnd(job[c])
  /\ job' = [job EXCEPT ![c].fd = None]
  /\ pc'  = [pc  EXCEPT ![c] = "end"]
  /\ UNCHANGED <<fileVars, db, disk, todo, snap, nread, goal, faults>>

\* Mutant: the watermark takes the size of the file for its offset.
IngestedToSize(d, j) ==
  [d EXCEPT !.rows  = Insert(@, j.got \cap Keys, j.path),
            !.marks = SetMark(@, j.path, j.stat, (j.stat.size + 1) \div 2, j.n, j.reset)]

\* The transaction of the file: its rows and its watermark.
Ingested(d, j) ==
  [d EXCEPT !.rows  = Insert(@, j.got \cap Keys, j.path),
            !.marks = SetMark(@, j.path, j.stat, j.off, j.n, j.reset)]

NextFile(c) ==
  /\ pc'    = [pc    EXCEPT ![c] = "scan"]
  /\ job'   = [job   EXCEPT ![c] = None]
  /\ nread' = [nread EXCEPT ![c] = @ + 1]

\* The rows and the watermark of what was read: COMMIT.
Commit(c) ==
  /\ pc[c] = "end"
  /\ Poison \notin job[c].got
  /\ db' = Ingested(db, job[c])
  /\ NextFile(c)
  /\ UNCHANGED <<fileVars, disk, todo, snap, goal, faults>>

\* except OSError: ROLLBACK, and a transaction of its own for the watermark.
Unread(d, j) == [d EXCEPT !.marks = SetMark(@, j.path, j.stat, j.start, 0, FALSE)]

\* The path is gone when the reader opens it.
OpenFails(c) ==
  /\ pc[c] = "open"
  /\ file[job[c].path] = None
  /\ db' = Unread(db, job[c])
  /\ NextFile(c)
  /\ UNCHANGED <<fileVars, disk, todo, snap, goal, faults>>

\* The open or a read fails; the run does not promise this file any more.
ReadFails(c) ==
  /\ pc[c] \in {"open", "read"}
  /\ faults.io < MaxIOErrors
  /\ faults' = [faults EXCEPT !.io = @ + 1]
  /\ db' = Unread(db, job[c])
  /\ NextFile(c)
  /\ goal' = [goal EXCEPT ![c][job[c].path] = None]
  /\ UNCHANGED <<fileVars, disk, todo, snap>>

\* What the end of the process forgets.
Forget(c) ==
  /\ pc'    = [pc    EXCEPT ![c] = "idle"]
  /\ todo'  = [todo  EXCEPT ![c] = {}]
  /\ snap'  = [snap  EXCEPT ![c] = NoMarks]
  /\ nread' = [nread EXCEPT ![c] = 0]
  /\ job'   = [job   EXCEPT ![c] = None]
  /\ goal'  = [goal  EXCEPT ![c] = NoMarks]

\* Mutant: a run that ran out of budget does not say so.
RunResultComplete(c) == "complete"

\* The loop ends, or a budget breaks it; the ingest_runs row tells which.
RunResult(c) == IF todo[c] = {} THEN "complete" ELSE "partial"

FinishRun(c) ==
  /\ pc[c] = "scan"
  /\ todo[c] = {} \/ TimeBudget \/ FilesSpent(c)
  /\ db' = [db EXCEPT !.run = RunResult(c)]
  /\ Forget(c)
  /\ UNCHANGED <<fileVars, disk, faults>>

\* An exception that is not an OSError leaves _ingest_one_file, and the run.
ParseRaises(c) ==
  /\ pc[c] = "end"
  /\ Poison \in job[c].got
  /\ Forget(c)
  /\ UNCHANGED <<fileVars, db, disk, faults>>

-------------------------------------------------------------------------------
\* Faults.

\* The process is killed, or gives up on a locked database: ROLLBACK.
Crash(c) ==
  /\ pc[c] # "idle"
  /\ faults.crash < MaxCrashes
  /\ faults' = [faults EXCEPT !.crash = @ + 1]
  /\ Forget(c)
  /\ UNCHANGED <<fileVars, db, disk>>

\* WAL with synchronous = NORMAL: a commit reaches the disk some time later.
Sync ==
  /\ faults.power < MaxPowerLoss
  /\ disk # db
  /\ disk' = db
  /\ UNCHANGED <<fileVars, db, runVars, faults>>

PowerLoss ==
  /\ faults.power < MaxPowerLoss
  /\ faults' = [faults EXCEPT !.power = @ + 1]
  /\ db'    = disk
  /\ pc'    = [c \in Collectors |-> "idle"]
  /\ todo'  = [c \in Collectors |-> {}]
  /\ snap'  = [c \in Collectors |-> NoMarks]
  /\ nread' = [c \in Collectors |-> 0]
  /\ job'   = [c \in Collectors |-> None]
  /\ goal'  = [c \in Collectors |-> NoMarks]
  /\ UNCHANGED <<fileVars, disk>>

-------------------------------------------------------------------------------
Init ==
  /\ file   = [p \in Paths |-> None]
  /\ ino    = [i \in Inodes |-> [home |-> None, lines |-> <<>>, partial |-> FALSE, mtime |-> 0]]
  /\ born   = {}
  /\ clock  = 0
  /\ writes = 0
  /\ db     = EmptyDb
  /\ disk   = EmptyDb
  /\ pc     = [c \in Collectors |-> "idle"]
  /\ todo   = [c \in Collectors |-> {}]
  /\ snap   = [c \in Collectors |-> NoMarks]
  /\ nread  = [c \in Collectors |-> 0]
  /\ job    = [c \in Collectors |-> None]
  /\ goal   = [c \in Collectors |-> NoMarks]
  /\ faults = [crash |-> 0, power |-> 0, io |-> 0]

Agent ==
  \E p \in Paths :
    \/ \E i \in Inodes : CreateFile(p, i)
    \/ \E l \in Lines : WriteLine(p, l)
    \/ StartLine(p)
    \/ RemoveFile(p)

Collect(c) ==
  \/ StartRun(c)
  \/ \E p \in Paths : Vanished(c, p) \/ Skip(c, p) \/ Visit(c, p)
  \/ Open(c) \/ OpenFails(c)
  \/ ReadLine(c) \/ EndOfFile(c)
  \/ Commit(c) \/ ParseRaises(c)
  \/ FinishRun(c)

Fault == Sync \/ PowerLoss \/ \E c \in Collectors : Crash(c) \/ ReadFails(c)

Next == Agent \/ Fault \/ \E c \in Collectors : Collect(c)

Spec == Init /\ [][Next]_vars

\* The timer keeps firing (OnCalendar=*:0/5) and a run that is not killed goes on.
FairSpec == Spec /\ \A c \in Collectors : WF_vars(Collect(c))

-------------------------------------------------------------------------------
\* Types.

Inode  == [home : Paths \cup {None}, lines : Seq(Lines), partial : BOOLEAN, mtime : Nat]
Stat   == [inode : Inodes, size : Nat, mtime : Nat]
Mark   == [inode : Inodes, size : Nat, mtime : Nat, offset : Nat, lines : Nat]
Marks  == [Paths -> Mark \cup {None}]
Db     == [rows : [Keys -> Paths \cup {None}], marks : Marks,
           run : {None, "complete", "partial"}]
Job    == [path : Paths, stat : Stat, start : Nat, reset : BOOLEAN,
           fd : Inodes \cup {None}, pos : Nat, off : Nat, got : SUBSET Lines, n : Nat]

\* Every variable has the shape the code gives it; a run at a file has a job,
\* and an open one once it reads.
TypeOK ==
  /\ file   \in [Paths -> Inodes \cup {None}]
  /\ ino    \in [Inodes -> Inode]
  /\ born   \subseteq Inodes
  /\ clock  \in Nat
  /\ writes \in Nat
  /\ db     \in Db
  /\ disk   \in Db
  /\ pc     \in [Collectors -> {"idle", "scan", "open", "read", "end"}]
  /\ todo   \in [Collectors -> SUBSET Paths]
  /\ snap   \in [Collectors -> Marks]
  /\ nread  \in [Collectors -> Nat]
  /\ job    \in [Collectors -> Job \cup {None}]
  /\ goal   \in [Collectors -> [Paths -> [inode : Inodes, len : Nat] \cup {None}]]
  /\ faults \in [crash : Nat, power : Nat, io : Nat]
  /\ \A c \in Collectors : /\ pc[c] \in {"open", "read", "end"} => job[c] \in Job
                           /\ pc[c] = "read" => job[c].fd \in Inodes

-------------------------------------------------------------------------------
\* Properties.

\* The rows of the first n lines of a file are in the store.
StoredUpTo(rows, lines, n) ==
  \A x \in 1..Len(lines) : x <= n /\ lines[x] \in Keys => rows[lines[x]] # None

\* No watermark is past data that was never stored (pipeline.py:5-9): whatever
\* collectors ran, crashed or overlapped, each message above the stored offset
\* of the file a path names has its row.
NoLoss ==
  \A p \in Paths :
    db.marks[p] # None /\ db.marks[p].inode = file[p] =>
      StoredUpTo(db.rows, Content(file[p]), db.marks[p].offset)

\* The same of what is on disk: a power failure reveals no loss either.
NoLossOnDisk ==
  \A p \in Paths :
    disk.marks[p] # None /\ disk.marks[p].inode = file[p] =>
      StoredUpTo(disk.rows, Content(file[p]), disk.marks[p].offset)

\* The fast path is safe: a file that the next run would not open has every
\* one of its messages in the store (watermarks.py:4-7).
SkipIsSafe ==
  \A p \in Paths :
    file[p] # None /\ Decide(db.marks[p], StatOf(file[p])) = "unchanged" =>
      /\ StoredUpTo(db.rows, Content(file[p]), Len(Content(file[p])))
      /\ ~ino[file[p]].partial

\* The stored offset is never past the newline of the last complete line of the
\* file it is for, so a line the agent is still writing is read when it is
\* finished (reader.py:4-14).
OffsetInFile ==
  \A p \in Paths :
    db.marks[p] # None /\ db.marks[p].inode = file[p] =>
      db.marks[p].offset <= Len(Content(file[p]))

\* A run that calls itself complete has stored what the files held when it
\* started, unless they were replaced meanwhile or could not be read.
CompleteRunIsComplete ==
  [][\A c \in Collectors : FinishRun(c) /\ db'.run = "complete" =>
       \A p \in Paths : goal[c][p] # None /\ goal[c][p].inode = file[p] =>
         StoredUpTo(db.rows, Content(file[p]), goal[c][p].len)]_vars

\* lines_ingested is the number of lines ingested of the present file, once
\* each: a re-read does not double it (watermarks.py:188-189).
LinesAt(lines, n)    == {x \in 1..Len(lines) : x <= n /\ lines[x] # Blank}
LinesBelow(lines, n) == Cardinality(LinesAt(lines, n))
LinesCountedOnce ==
  \A p \in Paths :
    db.marks[p] # None /\ db.marks[p].inode = file[p] =>
      db.marks[p].lines = LinesBelow(Content(file[p]), db.marks[p].offset)

\* "detecting when an offset has become meaningless" (watermarks.py:9-13): a file
\* that is read on from the stored offset has nothing before it that is not stored.
OffsetIsMeaningful ==
  \A p \in Paths :
    file[p] # None /\ Decide(db.marks[p], StatOf(file[p])) = "appended" =>
      StoredUpTo(db.rows, Content(file[p]), db.marks[p].offset)

\* "watermarks never exceed their file size" (the check of `tracker doctor`,
\* report.py:218-222).
OffsetWithinSize ==
  \A p \in Paths :
    db.marks[p] # None => Bytes(db.marks[p].offset) <= db.marks[p].size

\* A file that grew is never taken for one that was rewritten: what decide calls
\* rewritten "cannot have been appended to" (watermarks.py:140-142).  Without
\* inode reuse the agents of this model only append.
RewrittenWasNotAppended ==
  \A p \in Paths :
    file[p] # None => Decide(db.marks[p], StatOf(file[p])) # "rewritten"

\* "If (inode, size, mtime_ns) all match what was stored, the file is never
\* opened" (watermarks.py:5-6).
SameStatIsNotOpened ==
  \A p \in Paths :
    /\ file[p] # None /\ db.marks[p] # None
    /\ db.marks[p].inode = file[p] /\ SameStat(db.marks[p], StatOf(file[p]))
    => Decide(db.marks[p], StatOf(file[p])) = "unchanged"

\* "the next run picks up the files it never reached" (pipeline.py:12): a file
\* that stays is read by some run, whatever budget the runs have.
EveryFileReached ==
  \A p \in Paths : file[p] # None ~> db.marks[p] # None \/ file[p] = None

\* A message in a transcript that stays gets its row, or the file is replaced.
EventuallyStored ==
  \A p \in Paths, i \in Inodes, k \in Keys :
    file[p] = i /\ k \in {Content(i)[x] : x \in 1..Len(Content(i))}
      ~> db.rows[k] # None \/ file[p] # i

-------------------------------------------------------------------------------
(***************************************************************************)
(* The inductive invariant behind NoLoss and OffsetInFile, when inodes are *)
(* not reused.  A watermark (stored, on disk or in the snapshot of a run)  *)
(* is worth something only while its inode is the one the path names: then *)
(* its offset is inside the file and what is before it is stored.  A read  *)
(* keeps the same promise for the lines it has passed, which are stored or *)
(* in its transaction.  A path that came to name another inode never names *)
(* the old one again, so a read or a watermark that lost its file needs to *)
(* promise nothing more.                                                   *)
(***************************************************************************)

Covered(rows, lines, n) == n <= Len(lines) /\ StoredUpTo(rows, lines, n)

MarkCovered(rows, marks, p) ==
  marks[p] # None =>
    /\ marks[p].inode \in born
    /\ marks[p].inode = file[p] => Covered(rows, Content(file[p]), marks[p].offset)

MarksCovered(rows, marks) == \A p \in Paths : MarkCovered(rows, marks, p)

FilesBorn == \A p \in Paths : file[p] # None => file[p] \in born

\* The lines a read has passed are stored or in its transaction.
ReadCovered(rows, lines, j) ==
  /\ Covered(rows, lines, j.start)
  /\ j.pos <= Len(lines)
  /\ \A x \in 1..Len(lines) :
       x <= j.pos /\ lines[x] \in Keys => rows[lines[x]] # None \/ lines[x] \in j.got

JobCovered(rows, j) ==
  /\ j.stat.inode \in born
  /\ j.start <= j.off /\ j.off <= j.pos
  /\ j.stat.inode = file[j.path] => ReadCovered(rows, Content(file[j.path]), j)

JobsCovered ==
  \A c \in Collectors : pc[c] \in {"open", "read", "end"} =>
    /\ JobCovered(db.rows, job[c])
    /\ pc[c] = "read" /\ job[c].stat.inode = file[job[c].path]
         => job[c].fd = file[job[c].path]

LossInv ==
  /\ FilesBorn
  /\ MarksCovered(db.rows, db.marks)
  /\ MarksCovered(disk.rows, disk.marks)
  /\ \A c \in Collectors : MarksCovered(db.rows, snap[c])
  /\ JobsCovered

(***************************************************************************)
(* The invariant behind CompleteRunIsComplete, on top of LossInv.  While a *)
(* run goes on, what it found of a file that has not been replaced is      *)
(* stored, unless the file is still to be visited or is being read, and    *)
(* then to the end of what the run found.                                  *)
(***************************************************************************)

Reading(c, p) == pc[c] \in {"open", "read", "end"} /\ job[c].path = p

Pending(c, p) ==
  \/ p \in todo[c]
  \/ /\ Reading(c, p) /\ job[c].stat.inode = file[p]
     /\ pc[c] = "end" => goal[c][p].len <= job[c].pos

GoalKept(c, p) ==
  /\ pc[c] # "idle"
  /\ goal[c][p].inode \in born
  /\ goal[c][p].inode = file[p] =>
       /\ goal[c][p].len <= Len(Content(file[p]))
       /\ Pending(c, p) \/ StoredUpTo(db.rows, Content(file[p]), goal[c][p].len)

GoalInv == \A c \in Collectors, p \in Paths : goal[c][p] # None => GoalKept(c, p)

(***************************************************************************)
(* The invariant behind LinesCountedOnce, on top of LossInv, for a run     *)
(* that nobody overtakes and no read that fails.  The watermark a run has  *)
(* loaded for a file that it has not finished is the stored one, so what a *)
(* read has counted belongs on top of it, or replaces it after a reset.    *)
(***************************************************************************)

MarksCounted(marks) ==
  \A p \in Paths : marks[p] # None /\ marks[p].inode = file[p] =>
    marks[p].lines = LinesBelow(Content(file[p]), marks[p].offset)

SnapIsStored ==
  \A c \in Collectors, p \in Paths :
    p \in todo[c] \/ Reading(c, p) => snap[c][p] = db.marks[p]

JobResumes(c, j) ==
  /\ j.path \notin todo[c]
  /\ j.reset  => j.start = 0
  /\ ~j.reset => /\ snap[c][j.path] # None
                 /\ snap[c][j.path].inode = j.stat.inode
                 /\ snap[c][j.path].offset = j.start

JobCounted(lines, j) ==
  /\ LinesBelow(lines, j.pos) = LinesBelow(lines, j.off)
  /\ LinesBelow(lines, j.pos) = LinesBelow(lines, j.start) + j.n

CountInv ==
  /\ MarksCounted(db.marks)
  /\ MarksCounted(disk.marks)
  /\ SnapIsStored
  /\ \A c \in Collectors : pc[c] \in {"open", "read", "end"} =>
       /\ JobResumes(c, job[c])
       /\ job[c].stat.inode = file[job[c].path] =>
            JobCounted(Content(file[job[c].path]), job[c])

-------------------------------------------------------------------------------
\* Refinement.

\* What the transcripts have held: a deleted file keeps its inode's record here.
Holds(i, k) == \E x \in 1..Len(Content(i)) : Content(i)[x] = k
Written == {w \in Paths \X Keys : \E i \in born : ino[i].home = w[1] /\ Holds(i, w[2])}

DurableLedger == INSTANCE Ledger WITH written <- Written, rows <- disk.rows

\* The messages on disk are a ledger of what the transcripts held: the runs, their
\* crashes and a power failure never drop, invent or re-attribute one.
ImplementsLedger == DurableLedger!Spec

(***************************************************************************)
(* The inductive invariant behind it, when inodes are not reused.  A       *)
(* stored row, and a line in the transaction of a read, is one that a file *)
(* at that path has held, and what is on disk is part of what is in the    *)
(* store.                                                                  *)
(***************************************************************************)
HomesKnown == \A p \in Paths : file[p] # None => ino[file[p]].home = p

ReadsAttributed ==
  \A c \in Collectors :
    /\ pc[c] = "open" => job[c].got = {}
    /\ pc[c] = "read" => job[c].fd \in born /\ ino[job[c].fd].home = job[c].path
    /\ pc[c] \in {"read", "end"} =>
         \A k \in job[c].got \cap Keys : <<job[c].path, k>> \in Written

LedgerInv ==
  /\ FilesBorn
  /\ HomesKnown
  /\ ReadsAttributed
  /\ \A k \in Keys : db.rows[k] # None => <<db.rows[k], k>> \in Written
  /\ \A k \in Keys : disk.rows[k] # None => db.rows[k] = disk.rows[k]
===============================================================================
