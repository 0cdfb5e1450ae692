---------------------------- MODULE CollectorProofs ---------------------------
(***************************************************************************)
(* Theorems about Collector for every set of paths, inodes, keys and       *)
(* collectors and every bound: its type invariant, that no watermark       *)
(* passes a message that is not stored, that a run which says it is        *)
(* complete is, and that the line counter of a watermark counts the lines  *)
(* below its offset.                                                       *)
(***************************************************************************)
EXTENDS Collector, SequenceTheorems, FiniteSetTheorems, TLAPS

-------------------------------------------------------------------------------
\* What the helpers return.

LEMMA SavedMarkType ==
  ASSUME NEW old \in Mark \cup {None}, NEW st \in Stat, NEW offset \in Nat,
         NEW n \in Nat, NEW reset \in BOOLEAN
  PROVE  SavedMark(old, st, offset, n, reset) \in Mark
  BY DEF SavedMark, LinesAfter, Mark, Stat

LEMMA SetMarkType ==
  ASSUME NEW marks \in Marks, NEW p \in Paths, NEW st \in Stat, NEW offset \in Nat,
         NEW n \in Nat, NEW reset \in BOOLEAN
  PROVE  SetMark(marks, p, st, offset, n, reset) \in Marks
  <1>1. marks[p] \in Mark \cup {None}
    BY DEF Marks
  <1>2. SavedMark(marks[p], st, offset, n, reset) \in Mark
    BY <1>1, SavedMarkType
  <1> QED
    BY <1>2 DEF SetMark, Marks

\* A read starts at a line of the file, the first or the one after the watermark.
LEMMA StartOffsetType ==
  ASSUME NEW wm \in Mark \cup {None}, NEW st \in Stat
  PROVE  /\ StartOffset(wm, st) \in Nat
         /\ StartOffset(wm, st) = 0 \/ (/\ wm \in Mark
                                        /\ wm.inode = st.inode
                                        /\ StartOffset(wm, st) = wm.offset)
  BY DEF StartOffset, Decide, Resets, Mark, Stat

LEMMA StatOfType ==
  ASSUME TypeOK, NEW i \in Inodes
  PROVE  StatOf(i) \in Stat /\ StatOf(i).inode = i
  <1>1. ino[i] \in Inode
    BY DEF TypeOK
  <1>2. Len(ino[i].lines) \in Nat
    BY <1>1, LenProperties DEF Inode
  <1>3. \A n \in Nat : Bytes(n) \in Nat
    BY DEF Bytes
  <1>4. Bytes(Len(Content(i))) \in Nat
    BY <1>2, <1>3 DEF Content
  <1>5. Bytes(Len(Content(i))) + (IF ino[i].partial THEN 1 ELSE 0) \in Nat
    BY <1>4
  <1> QED
    BY <1>1, <1>5 DEF StatOf, FileStat, Stat, Inode

LEMMA NewJobType ==
  ASSUME NEW wm \in Mark \cup {None}, NEW p \in Paths, NEW st \in Stat
  PROVE  NewJob(wm, p, st) \in Job
  BY StartOffsetType DEF NewJob, Job

LEMMA YieldType ==
  ASSUME NEW j \in Job, NEW l \in Lines
  PROVE  Yield(j, l) \in Job /\ Yield(j, l).fd = j.fd
  <1>1. CASE l = Blank
    BY <1>1 DEF Yield, Job
  <1>2. CASE l # Blank
    <2>1. j.got \cup {l} \in SUBSET Lines /\ j.pos + 1 \in Nat /\ j.n + 1 \in Nat
      BY DEF Job
    <2> QED
      BY <1>2, <2>1 DEF Yield, Job
  <1> QED
    BY <1>1, <1>2

LEMMA IngestedType ==
  ASSUME NEW d \in Db, NEW j \in Job
  PROVE  Ingested(d, j) \in Db
  <1>1. Insert(d.rows, j.got \cap Keys, j.path) \in [Keys -> Paths \cup {None}]
    BY DEF Insert, Db, Job
  <1>2. SetMark(d.marks, j.path, j.stat, j.off, j.n, j.reset) \in Marks
    BY SetMarkType DEF Db, Job
  <1> QED
    BY <1>1, <1>2 DEF Ingested, Db

LEMMA UnreadType ==
  ASSUME NEW d \in Db, NEW j \in Job
  PROVE  Unread(d, j) \in Db
  <1>1. SetMark(d.marks, j.path, j.stat, j.start, 0, FALSE) \in Marks
    BY SetMarkType DEF Db, Job
  <1> QED
    BY <1>1 DEF Unread, Db

LEMMA NoMarksType == NoMarks \in Marks
  BY DEF NoMarks, Marks

-------------------------------------------------------------------------------
\* The type invariant.

\* An agent's write keeps the types of the files and touches nothing else.
LEMMA TouchType ==
  ASSUME TypeOK, NEW i \in Inodes, NEW p \in Paths, NEW lines \in Seq(Lines),
         NEW partial \in BOOLEAN, Touch(i, p, lines, partial)
  PROVE  writes' \in Nat /\ clock' \in Nat /\ ino' \in [Inodes -> Inode]
  <1>1. writes' \in Nat /\ clock' \in Nat
    BY DEF Touch, TypeOK
  <1>2. [home |-> p, lines |-> lines, partial |-> partial, mtime |-> clock'] \in Inode
    BY <1>1 DEF Inode
  <1> QED
    BY <1>1, <1>2 DEF Touch, TypeOK

LEMMA TypeInit == Init => TypeOK
  <1> SUFFICES ASSUME Init PROVE TypeOK
    OBVIOUS
  <1>1. [home |-> None, lines |-> <<>>, partial |-> FALSE, mtime |-> 0] \in Inode
    BY DEF Inode
  <1>2. EmptyDb \in Db
    BY NoMarksType DEF EmptyDb, Db
  <1>3. NoMarks \in [Paths -> [inode : Inodes, len : Nat] \cup {None}]
    BY DEF NoMarks
  <1> QED
    BY <1>1, <1>2, <1>3, NoMarksType DEF Init, TypeOK

\* The end of a run leaves a collector with nothing.
LEMMA ForgetType ==
  ASSUME TypeOK, NEW c \in Collectors, Forget(c)
  PROVE  /\ pc'    \in [Collectors -> {"idle", "scan", "open", "read", "end"}]
         /\ todo'  \in [Collectors -> SUBSET Paths]
         /\ snap'  \in [Collectors -> Marks]
         /\ nread' \in [Collectors -> Nat]
         /\ job'   \in [Collectors -> Job \cup {None}]
         /\ goal'  \in [Collectors -> [Paths -> [inode : Inodes, len : Nat] \cup {None}]]
         /\ \A d \in Collectors : /\ pc'[d] \in {"open", "read", "end"} => job'[d] \in Job
                                  /\ pc'[d] = "read" => job'[d].fd \in Inodes
  <1>1. NoMarks \in [Paths -> [inode : Inodes, len : Nat] \cup {None}]
    BY DEF NoMarks
  <1> QED
    BY <1>1, NoMarksType DEF Forget, TypeOK

\* So does the end of a file, except that the run goes on.
LEMMA NextFileType ==
  ASSUME TypeOK, NEW c \in Collectors, NextFile(c)
  PROVE  /\ pc'    \in [Collectors -> {"idle", "scan", "open", "read", "end"}]
         /\ nread' \in [Collectors -> Nat]
         /\ job'   \in [Collectors -> Job \cup {None}]
         /\ \A d \in Collectors : /\ pc'[d] \in {"open", "read", "end"} => job'[d] \in Job
                                  /\ pc'[d] = "read" => job'[d].fd \in Inodes
  BY DEF NextFile, TypeOK

LEMMA TypeAgent ==
  ASSUME TypeOK, Agent
  PROVE  TypeOK'
  <1> PICK p \in Paths : \/ \E i \in Inodes : CreateFile(p, i)
                         \/ \E l \in Lines : WriteLine(p, l)
                         \/ StartLine(p)
                         \/ RemoveFile(p)
    BY DEF Agent
  <1>1. ASSUME NEW i \in Inodes, CreateFile(p, i) PROVE TypeOK'
    <2>1. <<>> \in Seq(Lines)
      OBVIOUS
    <2>2. writes' \in Nat /\ clock' \in Nat /\ ino' \in [Inodes -> Inode]
      BY <1>1, <2>1, TouchType DEF CreateFile
    <2> QED
      BY <1>1, <2>2 DEF CreateFile, TypeOK, runVars
  <1>2. ASSUME NEW l \in Lines, WriteLine(p, l) PROVE TypeOK'
    <2>1. file[p] \in Inodes /\ ino[file[p]] \in Inode
      BY <1>2 DEF WriteLine, TypeOK
    <2>2. Append(Content(file[p]), l) \in Seq(Lines)
      BY <2>1, AppendProperties DEF Content, Inode
    <2>3. writes' \in Nat /\ clock' \in Nat /\ ino' \in [Inodes -> Inode]
      BY <1>2, <2>1, <2>2, TouchType DEF WriteLine
    <2> QED
      BY <1>2, <2>3 DEF WriteLine, TypeOK, runVars
  <1>3. ASSUME StartLine(p) PROVE TypeOK'
    <2>1. file[p] \in Inodes /\ Content(file[p]) \in Seq(Lines)
      BY <1>3 DEF StartLine, TypeOK, Content, Inode
    <2>2. writes' \in Nat /\ clock' \in Nat /\ ino' \in [Inodes -> Inode]
      BY <1>3, <2>1, TouchType DEF StartLine
    <2> QED
      BY <1>3, <2>2 DEF StartLine, TypeOK, runVars
  <1>4. ASSUME RemoveFile(p) PROVE TypeOK'
    BY <1>4 DEF RemoveFile, TypeOK, runVars
  <1> QED
    BY <1>1, <1>2, <1>3, <1>4

LEMMA TypeCollect ==
  ASSUME TypeOK, NEW c \in Collectors, Collect(c)
  PROVE  TypeOK'
  <1>1. CASE StartRun(c)
    <2>1. [p \in Paths |-> Present(p)] \in [Paths -> [inode : Inodes, len : Nat] \cup {None}]
      <3> SUFFICES ASSUME NEW p \in Paths, file[p] # None
                   PROVE  Present(p) \in [inode : Inodes, len : Nat]
        BY DEF Present
      <3>1. file[p] \in Inodes /\ Content(file[p]) \in Seq(Lines)
        BY DEF TypeOK, Content, Inode
      <3> QED
        BY <3>1, LenProperties DEF Present
    <2>2. db.marks \in Marks
      BY DEF TypeOK, Db
    <2> QED
      BY <1>1, <2>1, <2>2 DEF StartRun, TypeOK, fileVars
  <1>2. ASSUME NEW p \in Paths, Vanished(c, p) \/ Skip(c, p) PROVE TypeOK'
    BY <1>2 DEF Vanished, Skip, TypeOK, fileVars
  <1>3. ASSUME NEW p \in Paths, Visit(c, p) PROVE TypeOK'
    <2>1. StatOf(file[p]) \in Stat
      BY <1>3, StatOfType DEF Visit, TypeOK
    <2>2. snap[c][p] \in Mark \cup {None}
      BY DEF TypeOK, Marks
    <2>3. NewJob(snap[c][p], p, StatOf(file[p])) \in Job
      BY <2>1, <2>2, NewJobType
    <2> QED
      BY <1>3, <2>3 DEF Visit, TypeOK, fileVars
  <1>4. CASE Open(c)
    <2>1. job[c] \in Job
      BY <1>4 DEF Open, TypeOK
    <2>2. file[job[c].path] \in Inodes
      BY <1>4, <2>1 DEF Open, TypeOK, Job
    <2>3. /\ [job[c] EXCEPT !.fd = file[job[c].path]] \in Job
          /\ [job[c] EXCEPT !.fd = file[job[c].path]].fd \in Inodes
      BY <2>1, <2>2 DEF Job
    <2> QED
      BY <1>4, <2>3 DEF Open, TypeOK, fileVars
  <1>5. CASE ReadLine(c)
    <2>1. job[c] \in Job /\ job[c].fd \in Inodes
      BY <1>5 DEF ReadLine, TypeOK
    <2>2. Content(job[c].fd) \in Seq(Lines) /\ job[c].pos \in Nat
      BY <2>1 DEF TypeOK, Content, Inode, Job
    <2>3. job[c].pos + 1 \in 1..Len(Content(job[c].fd))
      BY <1>5, <2>2, LenProperties DEF ReadLine, AtEnd
    <2>4. Content(job[c].fd)[job[c].pos + 1] \in Lines
      BY <2>2, <2>3, ElementOfSeq
    <2>5. Yield(job[c], Content(job[c].fd)[job[c].pos + 1]) \in Job
      BY <2>1, <2>4, YieldType
    <2>6. Yield(job[c], Content(job[c].fd)[job[c].pos + 1]).fd \in Inodes
      BY <2>1, <2>4, YieldType
    <2> QED
      BY <1>5, <2>5, <2>6 DEF ReadLine, TypeOK, fileVars
  <1>6. CASE EndOfFile(c)
    <2>1. job[c] \in Job
      BY <1>6 DEF EndOfFile, TypeOK
    <2>2. [job[c] EXCEPT !.fd = None] \in Job
      BY <2>1 DEF Job
    <2> QED
      BY <1>6, <2>2 DEF EndOfFile, TypeOK, fileVars
  <1>7. CASE Commit(c)
    <2>1. db' \in Db
      BY <1>7, IngestedType DEF Commit, TypeOK
    <2> QED
      BY <1>7, <2>1, NextFileType DEF Commit, TypeOK, fileVars
  <1>8. CASE OpenFails(c)
    <2>1. db' \in Db
      BY <1>8, UnreadType DEF OpenFails, TypeOK
    <2> QED
      BY <1>8, <2>1, NextFileType DEF OpenFails, TypeOK, fileVars
  <1>9. CASE ParseRaises(c)
    BY <1>9, ForgetType DEF ParseRaises, TypeOK, fileVars
  <1>10. CASE FinishRun(c)
    <2>1. db' \in Db
      BY <1>10 DEF FinishRun, RunResult, TypeOK, Db
    <2> QED
      BY <1>10, <2>1, ForgetType DEF FinishRun, TypeOK, fileVars
  <1> QED
    BY <1>1, <1>2, <1>3, <1>4, <1>5, <1>6, <1>7, <1>8, <1>9, <1>10 DEF Collect

LEMMA TypeFault ==
  ASSUME TypeOK, Fault
  PROVE  TypeOK'
  <1>1. CASE Sync
    BY <1>1 DEF Sync, TypeOK, fileVars, runVars
  <1>2. CASE PowerLoss
    <2>1. NoMarks \in [Paths -> [inode : Inodes, len : Nat] \cup {None}]
      BY DEF NoMarks
    <2>2. faults' \in [crash : Nat, power : Nat, io : Nat]
      BY <1>2 DEF PowerLoss, TypeOK
    <2> QED
      BY <1>2, <2>1, <2>2, NoMarksType DEF PowerLoss, TypeOK, fileVars
  <1>3. ASSUME NEW c \in Collectors, Crash(c) PROVE TypeOK'
    <2>1. faults' \in [crash : Nat, power : Nat, io : Nat]
      BY <1>3 DEF Crash, TypeOK
    <2> QED
      BY <1>3, <2>1, ForgetType DEF Crash, TypeOK, fileVars
  <1>4. ASSUME NEW c \in Collectors, ReadFails(c) PROVE TypeOK'
    <2>1. job[c] \in Job
      BY <1>4 DEF ReadFails, TypeOK
    <2>2. db' \in Db
      BY <1>4, <2>1, UnreadType DEF ReadFails, TypeOK
    <2>3. goal' \in [Collectors -> [Paths -> [inode : Inodes, len : Nat] \cup {None}]]
      BY <1>4, <2>1 DEF ReadFails, TypeOK, Job
    <2>4. faults' \in [crash : Nat, power : Nat, io : Nat]
      BY <1>4 DEF ReadFails, TypeOK
    <2> QED
      BY <1>4, <2>2, <2>3, <2>4, NextFileType DEF ReadFails, TypeOK, fileVars
  <1> QED
    BY <1>1, <1>2, <1>3, <1>4 DEF Fault

LEMMA TypeNext == TypeOK /\ [Next]_vars => TypeOK'
  <1> SUFFICES ASSUME TypeOK, [Next]_vars PROVE TypeOK'
    OBVIOUS
  <1>1. CASE UNCHANGED vars
    BY <1>1 DEF vars, fileVars, runVars, TypeOK
  <1> QED
    BY <1>1, TypeAgent, TypeCollect, TypeFault DEF Next

\* Every reachable state has the types TypeOK gives it.
THEOREM TypeCorrect == Spec => []TypeOK
  BY TypeInit, TypeNext, PTL DEF Spec

-------------------------------------------------------------------------------
\* No loss.  What a step may do to the files and to the rows:

RowsGrow(rows, rows2) == \A k \in Keys : rows[k] # None => rows2[k] # None

Extends(lines, lines2) ==
  /\ Len(lines) <= Len(lines2)
  /\ \A x \in 1..Len(lines) : lines2[x] = lines[x]

\* A path keeps its inode, which is at most appended to, or names one that was
\* never in use, or none.
PathKept(p) ==
  \/ file'[p] = file[p] /\ Extends(ino[file[p]].lines, ino'[file[p]].lines)
  \/ file'[p] \notin born

FilesStep ==
  /\ born \subseteq born'
  /\ \A p \in Paths : PathKept(p)
  /\ \A p \in Paths : file'[p] # None =>
       file'[p] \in born' /\ ino'[file'[p]].lines \in Seq(Lines)

\* A step that leaves the files alone is such a step.
LEMMA NoFilesStep ==
  ASSUME TypeOK, FilesBorn, UNCHANGED fileVars
  PROVE  FilesStep
  <1> SUFFICES ASSUME NEW p \in Paths
               PROVE  /\ PathKept(p)
                      /\ file[p] # None => ino[file[p]].lines \in Seq(Lines)
    BY DEF FilesStep, FilesBorn, fileVars
  <1>1. CASE file[p] = None
    BY <1>1, NoneAssumption DEF PathKept, TypeOK, fileVars
  <1>2. CASE file[p] # None
    <2>1. ino[file[p]].lines \in Seq(Lines)
      BY <1>2 DEF TypeOK, Inode
    <2>2. Len(ino[file[p]].lines) \in Nat
      BY <2>1, LenProperties
    <2> QED
      BY <2>1, <2>2 DEF PathKept, Extends, fileVars
  <1> QED
    BY <1>1, <1>2

\* Without inode reuse every step of the agents is such a step.
LEMMA AgentFilesStep ==
  ASSUME TypeOK, TypeOK', FilesBorn, ~Reuse, Agent
  PROVE  FilesStep
  <1>1. \A p \in Paths : file[p] # None => ino[file[p]].lines \in Seq(Lines)
    BY DEF TypeOK, Inode
  <1>2. \A p \in Paths : file'[p] # None => ino'[file'[p]].lines \in Seq(Lines)
    BY DEF TypeOK, Inode
  <1>3. \A p \in Paths : file[p] # None => Extends(ino[file[p]].lines, ino[file[p]].lines)
    BY <1>1, LenProperties DEF Extends
  <1>4. None \notin born
    BY NoneAssumption DEF TypeOK
  <1> PICK p \in Paths : \/ \E i \in Inodes : CreateFile(p, i)
                         \/ \E l \in Lines : WriteLine(p, l)
                         \/ StartLine(p)
                         \/ RemoveFile(p)
    BY DEF Agent
  <1>5. ASSUME NEW i \in Inodes, CreateFile(p, i) PROVE FilesStep
    <2>1. i \notin born /\ born' = born \cup {i}
      BY <1>5 DEF CreateFile, FreeInodes
    <2>2. file' = [file EXCEPT ![p] = i]
      BY <1>5 DEF CreateFile
    <2>3. \A j \in Inodes \ {i} : ino'[j] = ino[j]
      BY <1>5 DEF CreateFile, Touch, TypeOK
    <2>4. ASSUME NEW q \in Paths PROVE PathKept(q)
      <3>1. CASE q = p
        BY <2>1, <2>2, <3>1 DEF PathKept, TypeOK
      <3>2. CASE q # p /\ file[q] = None
        BY <1>4, <2>2, <3>2 DEF PathKept, TypeOK
      <3>3. CASE q # p /\ file[q] # None
        <4>1. file[q] \in Inodes \ {i}
          BY <2>1, <3>3 DEF FilesBorn, TypeOK
        <4> QED
          BY <1>3, <2>2, <2>3, <3>3, <4>1 DEF PathKept, TypeOK
      <3> QED
        BY <3>1, <3>2, <3>3
    <2>5. \A q \in Paths : file'[q] # None => file'[q] \in born'
      BY <2>1, <2>2 DEF FilesBorn, TypeOK
    <2> QED
      BY <1>2, <2>1, <2>4, <2>5 DEF FilesStep
  <1>6. ASSUME NEW lines \in Seq(Lines), NEW partial \in BOOLEAN, file[p] # None,
               Touch(file[p], p, lines, partial), UNCHANGED <<file, born>>,
               Extends(ino[file[p]].lines, lines)
        PROVE  FilesStep
    <2>1. /\ ino'[file[p]].lines = lines
          /\ \A j \in Inodes \ {file[p]} : ino'[j] = ino[j]
      BY <1>6 DEF Touch, TypeOK
    <2>2. ASSUME NEW q \in Paths PROVE PathKept(q)
      <3>1. CASE file[q] = None
        BY <1>4, <1>6, <3>1 DEF PathKept
      <3>2. CASE file[q] = file[p]
        BY <1>6, <2>1, <3>2 DEF PathKept
      <3>3. CASE file[q] # None /\ file[q] # file[p]
        <4>1. ino'[file[q]] = ino[file[q]]
          BY <2>1, <3>3 DEF TypeOK
        <4> QED
          BY <1>3, <1>6, <3>3, <4>1 DEF PathKept
      <3> QED
        BY <3>1, <3>2, <3>3
    <2> QED
      BY <1>2, <1>6, <2>2 DEF FilesStep, FilesBorn
  <1>7. ASSUME NEW l \in Lines, WriteLine(p, l) PROVE FilesStep
    <2>1. file[p] # None /\ Content(file[p]) \in Seq(Lines)
      BY <1>1, <1>7 DEF WriteLine, Content
    <2>2. Append(Content(file[p]), l) \in Seq(Lines)
      BY <2>1, AppendProperties
    <2>3. Extends(ino[file[p]].lines, Append(Content(file[p]), l))
      BY <2>1, AppendProperties, LenProperties DEF Extends, Content
    <2> QED
      BY <1>6, <1>7, <2>1, <2>2, <2>3 DEF WriteLine
  <1>8. ASSUME StartLine(p) PROVE FilesStep
    BY <1>1, <1>3, <1>6, <1>8 DEF StartLine, Content
  <1>9. ASSUME RemoveFile(p) PROVE FilesStep
    <2>1. ASSUME NEW q \in Paths PROVE PathKept(q)
      BY <1>3, <1>4, <1>9 DEF PathKept, RemoveFile, TypeOK
    <2> QED
      BY <1>2, <1>9, <2>1 DEF FilesStep, FilesBorn, RemoveFile, TypeOK
  <1> QED
    BY <1>5, <1>7, <1>8, <1>9

\* What is covered stays covered when the file grows and rows are added.
LEMMA CoveredGrows ==
  ASSUME NEW rows, NEW rows2, RowsGrow(rows, rows2),
         NEW lines \in Seq(Lines), NEW lines2 \in Seq(Lines), Extends(lines, lines2),
         NEW n \in Nat, Covered(rows, lines, n)
  PROVE  Covered(rows2, lines2, n)
  <1>1. Len(lines) \in Nat /\ Len(lines2) \in Nat
    BY LenProperties
  <1>2. n <= Len(lines2)
    BY <1>1 DEF Covered, Extends
  <1>3. ASSUME NEW x \in 1..Len(lines2), x <= n, lines2[x] \in Keys
        PROVE  rows2[lines2[x]] # None
    <2>1. x \in 1..Len(lines)
      BY <1>1, <1>3 DEF Covered
    <2> QED
      BY <1>3, <2>1 DEF Covered, StoredUpTo, Extends, RowsGrow
  <1> QED
    BY <1>2, <1>3 DEF Covered, StoredUpTo

LEMMA MarkKept ==
  ASSUME TypeOK, FilesStep, NEW rows, NEW rows2, RowsGrow(rows, rows2),
         NEW p \in Paths, NEW mark \in Mark, mark.inode \in born,
         mark.inode = file[p] => Covered(rows, ino[file[p]].lines, mark.offset)
  PROVE  /\ mark.inode \in born'
         /\ mark.inode = file'[p] => Covered(rows2, ino'[file'[p]].lines, mark.offset)
  <1>1. mark.inode \in born'
    BY DEF FilesStep
  <1>2. ASSUME mark.inode = file'[p]
        PROVE  Covered(rows2, ino'[file'[p]].lines, mark.offset)
    <2>1. file'[p] = file[p] /\ Extends(ino[file[p]].lines, ino'[file[p]].lines)
      BY <1>2 DEF FilesStep, PathKept
    <2>2. file[p] \in Inodes
      BY <1>2, <2>1 DEF Mark
    <2>3. ino[file[p]].lines \in Seq(Lines)
      BY <2>2 DEF TypeOK, Inode
    <2>4. file'[p] # None
      BY <2>1, <2>2, NoneAssumption
    <2>5. ino'[file'[p]].lines \in Seq(Lines)
      BY <2>4 DEF FilesStep
    <2>6. mark.offset \in Nat /\ Covered(rows, ino[file[p]].lines, mark.offset)
      BY <1>2, <2>1 DEF Mark
    <2> QED
      BY <2>1, <2>3, <2>5, <2>6, CoveredGrows
  <1> QED
    BY <1>1, <1>2

LEMMA JobKept ==
  ASSUME TypeOK, FilesStep, NEW rows, NEW rows2, RowsGrow(rows, rows2),
         NEW j \in Job, j.stat.inode \in born,
         j.stat.inode = file[j.path] => ReadCovered(rows, ino[file[j.path]].lines, j)
  PROVE  /\ j.stat.inode \in born'
         /\ j.stat.inode = file'[j.path] =>
              /\ file'[j.path] = file[j.path]
              /\ ReadCovered(rows2, ino'[file'[j.path]].lines, j)
  <1>1. j.stat.inode \in born'
    BY DEF FilesStep
  <1>2. ASSUME j.stat.inode = file'[j.path]
        PROVE  /\ file'[j.path] = file[j.path]
               /\ ReadCovered(rows2, ino'[file'[j.path]].lines, j)
    <2> DEFINE old == ino[file[j.path]].lines
               new == ino'[file'[j.path]].lines
    <2>1. j.path \in Paths /\ j.start \in Nat /\ j.pos \in Nat /\ j.stat.inode \in Inodes
      BY DEF Job, Stat
    <2>2. file'[j.path] = file[j.path] /\ Extends(old, new)
      BY <1>2, <2>1 DEF FilesStep, PathKept
    <2>3. old \in Seq(Lines)
      BY <1>2, <2>1, <2>2 DEF TypeOK, Inode
    <2>4. file'[j.path] # None
      BY <1>2, <2>1, NoneAssumption
    <2>5. new \in Seq(Lines)
      BY <2>1, <2>4 DEF FilesStep
    <2>6. ReadCovered(rows, old, j)
      BY <1>2, <2>2
    <2>7. Covered(rows2, new, j.start)
      BY <2>1, <2>2, <2>3, <2>5, <2>6, CoveredGrows DEF ReadCovered
    <2>8. Len(old) \in Nat /\ Len(new) \in Nat /\ j.pos <= Len(old)
      BY <2>3, <2>5, <2>6, LenProperties DEF ReadCovered
    <2>9. ASSUME NEW x \in 1..Len(new), x <= j.pos, new[x] \in Keys
          PROVE  rows2[new[x]] # None \/ new[x] \in j.got
      <3>1. x \in 1..Len(old)
        BY <2>1, <2>8, <2>9
      <3>2. new[x] = old[x]
        BY <2>2, <3>1 DEF Extends
      <3> QED
        BY <2>6, <2>9, <3>1, <3>2 DEF ReadCovered, RowsGrow
    <2> HIDE DEF old, new
    <2>10. j.pos <= Len(new)
      BY <2>1, <2>2, <2>8 DEF Extends
    <2>11. ReadCovered(rows2, new, j)
      BY <2>7, <2>9, <2>10 DEF ReadCovered
    <2> QED
      BY <2>2, <2>11 DEF new
  <1> QED
    BY <1>1, <1>2

-------------------------------------------------------------------------------
\* The inductive invariant.

LEMMA LossInit == Init => LossInv
  BY NoneAssumption DEF Init, LossInv, FilesBorn, MarksCovered, MarkCovered, JobsCovered,
     NoMarks, EmptyDb

\* A table of watermarks that is not written stays covered.
LEMMA MarksKept ==
  ASSUME TypeOK, FilesStep, NEW rows, NEW rows2, RowsGrow(rows, rows2),
         NEW marks \in Marks, MarksCovered(rows, marks)
  PROVE  \A p \in Paths : marks[p] # None =>
           /\ marks[p].inode \in born'
           /\ marks[p].inode = file'[p] => Covered(rows2, ino'[file'[p]].lines, marks[p].offset)
  <1> SUFFICES ASSUME NEW p \in Paths, marks[p] # None
               PROVE  /\ marks[p].inode \in born'
                      /\ marks[p].inode = file'[p] =>
                           Covered(rows2, ino'[file'[p]].lines, marks[p].offset)
    OBVIOUS
  <1>1. marks[p] \in Mark
    BY DEF Marks
  <1>2. /\ marks[p].inode \in born
        /\ marks[p].inode = file[p] => Covered(rows, ino[file[p]].lines, marks[p].offset)
    BY DEF MarksCovered, MarkCovered, Content
  <1> QED
    BY <1>1, <1>2, MarkKept

\* A collector at a file whose job is not touched keeps its promise.
LEMMA JobsKept ==
  ASSUME TypeOK, FilesStep, JobsCovered, RowsGrow(db.rows, db'.rows), NEW c \in Collectors,
         pc'[c] \in {"open", "read", "end"}, pc'[c] = pc[c], job'[c] = job[c]
  PROVE  /\ JobCovered(db.rows, job[c])'
         /\ pc'[c] = "read" /\ job'[c].stat.inode = file'[job'[c].path]
              => job'[c].fd = file'[job'[c].path]
  <1>1. job[c] \in Job
    BY DEF TypeOK
  <1>2. /\ job[c].stat.inode \in born
        /\ job[c].stat.inode = file[job[c].path] =>
             ReadCovered(db.rows, ino[file[job[c].path]].lines, job[c])
        /\ job[c].start <= job[c].off /\ job[c].off <= job[c].pos
        /\ pc[c] = "read" /\ job[c].stat.inode = file[job[c].path]
              => job[c].fd = file[job[c].path]
    BY DEF JobsCovered, JobCovered, Content
  <1>3. /\ job[c].stat.inode \in born'
        /\ job[c].stat.inode = file'[job[c].path] =>
              /\ file'[job[c].path] = file[job[c].path]
              /\ ReadCovered(db'.rows, ino'[file'[job[c].path]].lines, job[c])
    BY <1>1, <1>2, JobKept
  <1> QED
    BY <1>2, <1>3 DEF JobCovered, Content

\* The agents disturb nothing the collectors and the store rely on.
LEMMA LossAgent ==
  ASSUME TypeOK, TypeOK', LossInv, ~Reuse, Agent
  PROVE  LossInv'
  <1>1. FilesStep
    BY AgentFilesStep DEF LossInv
  <1>2. UNCHANGED <<db, disk, runVars>>
    BY DEF Agent, CreateFile, WriteLine, StartLine, RemoveFile
  <1>3. RowsGrow(db.rows, db.rows) /\ RowsGrow(disk.rows, disk.rows)
    BY DEF RowsGrow
  <1>4. FilesBorn'
    BY <1>1 DEF FilesStep, FilesBorn
  <1>5. db.marks \in Marks /\ disk.marks \in Marks /\ \A c \in Collectors : snap[c] \in Marks
    BY DEF TypeOK, Db
  <1>6. MarksCovered(db.rows, db.marks)'
    BY <1>1, <1>2, <1>3, <1>5, MarksKept DEF LossInv, MarksCovered, MarkCovered, Content
  <1>7. MarksCovered(disk.rows, disk.marks)'
    BY <1>1, <1>2, <1>3, <1>5, MarksKept DEF LossInv, MarksCovered, MarkCovered, Content
  <1>8. \A c \in Collectors : MarksCovered(db.rows, snap[c])'
    BY <1>1, <1>2, <1>3, <1>5, MarksKept DEF LossInv, MarksCovered, MarkCovered, Content, runVars
  <1>9. JobsCovered'
    BY <1>1, <1>2, <1>3, JobsKept DEF LossInv, JobsCovered, runVars
  <1> QED
    BY <1>4, <1>6, <1>7, <1>8, <1>9 DEF LossInv

\* So does a step of a collector or a fault, outside of the job of one collector c:
\* what is left to prove of it are the stored watermarks, the snapshot and job of c.
LEMMA LossStep ==
  ASSUME TypeOK, TypeOK', LossInv, NEW c \in Collectors,
         UNCHANGED <<fileVars, disk>>, RowsGrow(db.rows, db'.rows),
         \A d \in Collectors \ {c} : pc'[d] = pc[d] /\ snap'[d] = snap[d] /\ job'[d] = job[d],
         snap'[c] \in {snap[c], db.marks, NoMarks},
         MarksCovered(db.rows, db.marks)',
         pc'[c] \in {"open", "read", "end"} =>
           \/ pc'[c] = pc[c] /\ job'[c] = job[c]
           \/ /\ JobCovered(db.rows, job[c])'
              /\ pc'[c] = "read" /\ job'[c].stat.inode = file[job'[c].path]
                   => job'[c].fd = file[job'[c].path]
  PROVE  LossInv'
  <1>1. FilesStep
    BY NoFilesStep DEF LossInv
  <1>2. FilesBorn' /\ MarksCovered(disk.rows, disk.marks)'
    BY DEF LossInv, FilesBorn, MarksCovered, MarkCovered, Content, fileVars
  <1>3. ASSUME NEW d \in Collectors PROVE MarksCovered(db.rows, snap[d])'
    <2>1. snap'[d] = NoMarks => MarksCovered(db.rows, snap[d])'
      BY DEF MarksCovered, MarkCovered, NoMarks
    <2>2. ASSUME NEW marks \in Marks, MarksCovered(db.rows, marks), snap'[d] = marks
          PROVE  MarksCovered(db.rows, snap[d])'
      BY <1>1, <2>2, MarksKept DEF MarksCovered, MarkCovered, Content
    <2>3. db.marks \in Marks /\ snap[d] \in Marks
      BY DEF TypeOK, Db
    <2> QED
      BY <2>1, <2>2, <2>3 DEF LossInv
  <1>4. JobsCovered'
    <2> SUFFICES ASSUME NEW d \in Collectors, pc'[d] \in {"open", "read", "end"}
                 PROVE  /\ JobCovered(db.rows, job[d])'
                        /\ pc'[d] = "read" /\ job'[d].stat.inode = file'[job'[d].path]
                             => job'[d].fd = file'[job'[d].path]
      BY DEF JobsCovered
    <2>1. CASE pc'[d] = pc[d] /\ job'[d] = job[d]
      BY <1>1, <2>1, JobsKept DEF LossInv
    <2>2. CASE ~(pc'[d] = pc[d] /\ job'[d] = job[d])
      <3>1. d = c
        BY <2>2
      <3> QED
        BY <2>2, <3>1 DEF fileVars
    <2> QED
      BY <2>1, <2>2
  <1> QED
    BY <1>2, <1>3, <1>4 DEF LossInv

LEMMA SavedMarkFields ==
  ASSUME NEW marks \in Marks, NEW p \in Paths, NEW st, NEW offset, NEW n,
         NEW reset \in BOOLEAN, NEW q \in Paths
  PROVE  LET mark == SetMark(marks, p, st, offset, n, reset)[q]
         IN  IF q = p THEN mark.inode = st.inode /\ mark.offset = offset
                      ELSE mark = marks[q]
  BY DEF SetMark, SavedMark, Marks

\* The transaction of a file covers its watermark with its rows.
LEMMA IngestedCovered ==
  ASSUME TypeOK, LossInv, NEW j \in Job, JobCovered(db.rows, j)
  PROVE  /\ RowsGrow(db.rows, Ingested(db, j).rows)
         /\ MarksCovered(Ingested(db, j).rows, Ingested(db, j).marks)
  <1> DEFINE d == Ingested(db, j)
  <1>1. /\ d.rows = Insert(db.rows, j.got \cap Keys, j.path)
        /\ d.marks = SetMark(db.marks, j.path, j.stat, j.off, j.n, j.reset)
    BY DEF Ingested, TypeOK, Db
  <1>2. /\ j.path \in Paths /\ j.path # None /\ j.reset \in BOOLEAN
        /\ j.start \in Nat /\ j.off \in Nat /\ j.pos \in Nat
    BY NoneAssumption DEF Job
  <1>3. \A k \in Keys : db.rows[k] # None \/ k \in j.got => d.rows[k] # None
    BY <1>1, <1>2 DEF Insert
  <1>4. db.marks \in Marks
    BY DEF TypeOK, Db
  <1>5. ASSUME NEW p \in Paths PROVE MarkCovered(d.rows, d.marks, p)
    <2>1. CASE p # j.path
      <3>1. d.marks[p] = db.marks[p]
        BY <1>1, <1>2, <1>4, <2>1, SavedMarkFields
      <3> QED
        BY <1>3, <3>1 DEF LossInv, MarksCovered, MarkCovered, Covered, StoredUpTo
    <2>2. CASE p = j.path
      <3>1. d.marks[p].inode = j.stat.inode /\ d.marks[p].offset = j.off
        BY <1>1, <1>2, <1>4, <2>2, SavedMarkFields
      <3>2. j.stat.inode \in born
        BY DEF JobCovered
      <3>3. ASSUME j.stat.inode = file[p] PROVE Covered(d.rows, Content(file[p]), j.off)
        <4>1. ReadCovered(db.rows, Content(file[p]), j) /\ j.off <= j.pos
          BY <2>2, <3>3 DEF JobCovered
        <4>2. file[p] \in Inodes
          BY <3>2, <3>3 DEF TypeOK
        <4>3. Len(Content(file[p])) \in Nat
          BY <4>2, LenProperties DEF TypeOK, Inode, Content
        <4>4. j.off <= Len(Content(file[p]))
          BY <1>2, <4>1, <4>3 DEF ReadCovered
        <4>5. \A x \in 1..Len(Content(file[p])) : x <= j.off => x <= j.pos
          BY <1>2, <4>1, <4>3
        <4> QED
          BY <1>3, <4>1, <4>4, <4>5 DEF Covered, StoredUpTo, ReadCovered
      <3> QED
        BY <3>1, <3>2, <3>3 DEF MarkCovered
    <2> QED
      BY <2>1, <2>2
  <1> QED
    BY <1>3, <1>5 DEF RowsGrow, MarksCovered

\* The watermark of a file that could not be read is where its read started.
LEMMA UnreadCovered ==
  ASSUME TypeOK, LossInv, NEW j \in Job, JobCovered(db.rows, j)
  PROVE  /\ Unread(db, j).rows = db.rows
         /\ MarksCovered(db.rows, Unread(db, j).marks)
  <1>1. /\ Unread(db, j).rows = db.rows
        /\ Unread(db, j).marks = SetMark(db.marks, j.path, j.stat, j.start, 0, FALSE)
    BY DEF Unread, TypeOK, Db
  <1>2. db.marks \in Marks /\ j.path \in Paths
    BY DEF TypeOK, Db, Job
  <1>3. ASSUME NEW p \in Paths PROVE MarkCovered(db.rows, Unread(db, j).marks, p)
    <2>1. CASE p # j.path
      BY <1>1, <1>2, <2>1 DEF LossInv, MarksCovered, MarkCovered, SetMark, Marks
    <2>2. CASE p = j.path
      <3>1. Unread(db, j).marks[p].inode = j.stat.inode /\ Unread(db, j).marks[p].offset = j.start
        BY <1>1, <1>2, <2>2 DEF SetMark, SavedMark, Marks
      <3> QED
        BY <2>2, <3>1 DEF MarkCovered, JobCovered, ReadCovered
    <2> QED
      BY <2>1, <2>2
  <1> QED
    BY <1>1, <1>3 DEF MarksCovered

\* A new job promises what its snapshot's watermark does, or nothing.
LEMMA VisitCovered ==
  ASSUME TypeOK, LossInv, NEW c \in Collectors, NEW p \in Paths, file[p] # None
  PROVE  JobCovered(db.rows, NewJob(snap[c][p], p, StatOf(file[p])))
  <1> DEFINE j  == NewJob(snap[c][p], p, StatOf(file[p]))
             wm == snap[c][p]
             st == StatOf(file[p])
             lines == Content(file[p])
  <1>1. file[p] \in Inodes /\ lines \in Seq(Lines)
    BY DEF TypeOK, Content, Inode
  <1>2. st \in Stat /\ st.inode = file[p] /\ wm \in Mark \cup {None} /\ Len(lines) \in Nat
    BY <1>1, StatOfType, LenProperties DEF TypeOK, Marks
  <1>3. /\ j.path = p /\ j.stat = st /\ j.got = {}
        /\ j.start = StartOffset(wm, st) /\ j.pos = j.start /\ j.off = j.start
    BY DEF NewJob
  <1>4. j.start \in Nat
    BY <1>2, <1>3, StartOffsetType
  <1>5. j.stat.inode \in born
    BY <1>2, <1>3 DEF LossInv, FilesBorn
  <1>6. Covered(db.rows, lines, j.start)
    <2>1. CASE StartOffset(wm, st) = 0
      BY <1>2, <1>3, <2>1 DEF Covered, StoredUpTo
    <2>2. CASE wm \in Mark /\ wm.inode = st.inode /\ StartOffset(wm, st) = wm.offset
      <3>1. wm # None \/ StartOffset(wm, st) = 0
        BY DEF StartOffset, Decide, Resets
      <3>2. wm # None => Covered(db.rows, lines, wm.offset)
        BY <1>2, <2>2 DEF LossInv, MarksCovered, MarkCovered
      <3> QED
        BY <1>3, <2>1, <2>2, <3>1, <3>2
    <2> QED
      BY <1>2, <2>1, <2>2, StartOffsetType
  <1>7. ReadCovered(db.rows, lines, j)
    BY <1>3, <1>4, <1>6 DEF ReadCovered, Covered, StoredUpTo
  <1> QED
    BY <1>3, <1>4, <1>5, <1>7 DEF JobCovered

LEMMA YieldCovered ==
  ASSUME TypeOK, NEW c \in Collectors, NEW j \in Job, NEW lines \in Seq(Lines),
         j.pos < Len(lines), ReadCovered(db.rows, lines, j)
  PROVE  ReadCovered(db.rows, lines, Yield(j, lines[j.pos + 1]))
  <1> DEFINE l == lines[j.pos + 1]
             y == Yield(j, l)
  <1>1. Len(lines) \in Nat /\ j.pos \in Nat
    BY LenProperties DEF Job
  <1>2. y.start = j.start /\ y.pos = j.pos + 1
    BY DEF Yield, Job
  <1>3. j.got \subseteq y.got /\ (l # Blank => l \in y.got)
    BY DEF Yield, Job
  <1>4. l \in Keys => l # Blank
    BY LinesAssumption
  <1>5. ASSUME NEW x \in 1..Len(lines), x <= y.pos, lines[x] \in Keys
        PROVE  db.rows[lines[x]] # None \/ lines[x] \in y.got
    <2>1. CASE x <= j.pos
      BY <1>3, <1>5, <2>1 DEF ReadCovered
    <2>2. CASE x = j.pos + 1
      BY <1>3, <1>4, <1>5, <2>2
    <2> QED
      BY <1>1, <1>2, <1>5, <2>1, <2>2
  <1>6. Covered(db.rows, lines, y.start) /\ y.pos <= Len(lines)
    BY <1>1, <1>2 DEF ReadCovered
  <1> QED
    BY <1>5, <1>6 DEF ReadCovered

LEMMA LossCollect ==
  ASSUME TypeOK, TypeOK', LossInv, NEW c \in Collectors, Collect(c)
  PROVE  LossInv'
  <1>1. RowsGrow(db.rows, db.rows)
    BY DEF RowsGrow
  <1>2. db' = db /\ UNCHANGED fileVars => MarksCovered(db.rows, db.marks)'
    BY DEF LossInv, MarksCovered, MarkCovered, Content, fileVars
  <1>3. CASE StartRun(c)
    BY <1>1, <1>2, <1>3, LossStep DEF StartRun, TypeOK
  <1>4. ASSUME NEW p \in Paths, Vanished(c, p) \/ Skip(c, p) PROVE LossInv'
    BY <1>1, <1>2, <1>4, LossStep DEF Vanished, Skip, TypeOK
  <1>5. ASSUME NEW p \in Paths, Visit(c, p) PROVE LossInv'
    <2> DEFINE j == NewJob(snap[c][p], p, StatOf(file[p]))
    <2>1. JobCovered(db.rows, j)
      BY <1>5, VisitCovered DEF Visit
    <2>2. job'[c] = j /\ pc'[c] = "open"
      BY <1>5 DEF Visit, TypeOK
    <2>3. JobCovered(db.rows, job[c])'
      BY <1>5, <2>1, <2>2 DEF JobCovered, Content, Visit, fileVars
    <2> QED
      BY <1>1, <1>2, <1>5, <2>2, <2>3, LossStep DEF Visit, TypeOK
  <1>6. CASE Open(c)
    <2>1. JobCovered(db.rows, job[c]) /\ job[c] \in Job
      BY <1>6 DEF Open, LossInv, JobsCovered, TypeOK
    <2>2. /\ job'[c] = [job[c] EXCEPT !.fd = file[job[c].path]]
          /\ pc'[c] = "read"
      BY <1>6 DEF Open, TypeOK
    <2>3. /\ job'[c].fd = file[job[c].path]
          /\ job'[c].path = job[c].path /\ job'[c].stat = job[c].stat
          /\ job'[c].start = job[c].start /\ job'[c].off = job[c].off
          /\ job'[c].pos = job[c].pos /\ job'[c].got = job[c].got
      BY <2>1, <2>2 DEF Job
    <2>4. JobCovered(db.rows, job[c])'
      BY <1>6, <2>1, <2>3 DEF JobCovered, ReadCovered, Content, Open, fileVars
    <2>5. job'[c].fd = file'[job'[c].path]
      BY <1>6, <2>3 DEF Open, fileVars
    <2>6. /\ UNCHANGED <<fileVars, db, disk, snap>>
          /\ \A d \in Collectors \ {c} : pc'[d] = pc[d] /\ job'[d] = job[d]
      BY <1>6 DEF Open, TypeOK
    <2> QED
      BY <1>1, <1>2, <2>4, <2>5, <2>6, LossStep DEF fileVars
  <1>7. CASE ReadLine(c)
    <2>1. /\ JobCovered(db.rows, job[c]) /\ job[c] \in Job
          /\ job[c].stat.inode = file[job[c].path] => job[c].fd = file[job[c].path]
      BY <1>7 DEF ReadLine, LossInv, JobsCovered, TypeOK
    <2> DEFINE lines == Content(job[c].fd)
               y == Yield(job[c], lines[job[c].pos + 1])
    <2>2. job'[c] = y /\ pc'[c] = "read" /\ pc[c] = "read"
      BY <1>7 DEF ReadLine, TypeOK
    <2>3. lines \in Seq(Lines) /\ Len(lines) \in Nat
      BY <2>2, LenProperties DEF TypeOK, Inode, Content
    <2>4. job[c].pos \in Nat /\ job[c].off \in Nat /\ job[c].pos < Len(lines)
      BY <1>7, <2>1, <2>3 DEF ReadLine, AtEnd, Job
    <2>5. /\ y.fd = job[c].fd /\ y.path = job[c].path /\ y.stat = job[c].stat
          /\ y.start = job[c].start /\ y.pos = job[c].pos + 1
          /\ y.off = job[c].off \/ y.off = y.pos
      BY <2>1 DEF Yield, Job
    <2>6. y.start <= y.off /\ y.off <= y.pos
      <3>1. job[c].start <= job[c].off /\ job[c].off <= job[c].pos /\ job[c].start \in Nat
        BY <2>1 DEF JobCovered, Job
      <3> QED
        BY <2>4, <2>5, <3>1
    <2>7. y.stat.inode = file[y.path] => ReadCovered(db.rows, Content(file[y.path]), y)
      <3> SUFFICES ASSUME y.stat.inode = file[y.path]
                   PROVE  ReadCovered(db.rows, Content(file[y.path]), y)
        OBVIOUS
      <3>1. Content(file[y.path]) = lines /\ ReadCovered(db.rows, lines, job[c])
        BY <2>1, <2>5 DEF JobCovered
      <3> QED
        BY <2>1, <2>3, <2>4, <3>1, YieldCovered
    <2>8. JobCovered(db.rows, y)
      BY <2>1, <2>5, <2>6, <2>7 DEF JobCovered
    <2> HIDE DEF y
    <2>9. /\ UNCHANGED <<fileVars, db, disk, snap>>
          /\ \A d \in Collectors \ {c} : pc'[d] = pc[d] /\ job'[d] = job[d]
      BY <1>7 DEF ReadLine, TypeOK
    <2>10. JobCovered(db.rows, job[c])'
      BY <2>2, <2>8, <2>9 DEF JobCovered, ReadCovered, Content, fileVars
    <2>11. job'[c].stat.inode = file[job'[c].path] => job'[c].fd = file[job'[c].path]
      BY <2>1, <2>2, <2>5
    <2> QED
      BY <1>1, <1>2, <2>9, <2>10, <2>11, LossStep DEF fileVars
  <1>8. CASE EndOfFile(c)
    <2>1. JobCovered(db.rows, job[c]) /\ job[c] \in Job
      BY <1>8 DEF EndOfFile, LossInv, JobsCovered, TypeOK
    <2>2. job'[c] = [job[c] EXCEPT !.fd = None] /\ pc'[c] = "end"
      BY <1>8 DEF EndOfFile, TypeOK
    <2>3. /\ job'[c].path = job[c].path /\ job'[c].stat = job[c].stat
          /\ job'[c].start = job[c].start /\ job'[c].off = job[c].off
          /\ job'[c].pos = job[c].pos /\ job'[c].got = job[c].got
      BY <2>1, <2>2 DEF Job
    <2>4. JobCovered(db.rows, job[c])'
      BY <1>8, <2>1, <2>3 DEF JobCovered, ReadCovered, Content, EndOfFile, fileVars
    <2>5. /\ UNCHANGED <<fileVars, db, disk, snap>>
          /\ \A d \in Collectors \ {c} : pc'[d] = pc[d] /\ job'[d] = job[d]
      BY <1>8 DEF EndOfFile, TypeOK
    <2> QED
      BY <1>1, <1>2, <2>2, <2>4, <2>5, LossStep DEF fileVars
  <1>9. CASE Commit(c)
    <2>1. JobCovered(db.rows, job[c]) /\ job[c] \in Job
      BY <1>9 DEF Commit, LossInv, JobsCovered, TypeOK
    <2>2. /\ RowsGrow(db.rows, db'.rows)
          /\ MarksCovered(db'.rows, db'.marks)
      BY <1>9, <2>1, IngestedCovered DEF Commit
    <2>3. MarksCovered(db.rows, db.marks)'
      BY <1>9, <2>2 DEF MarksCovered, MarkCovered, Content, Commit, fileVars
    <2> QED
      BY <1>9, <2>2, <2>3, LossStep DEF Commit, NextFile, TypeOK
  <1>10. CASE OpenFails(c)
    <2>1. JobCovered(db.rows, job[c]) /\ job[c] \in Job
      BY <1>10 DEF OpenFails, LossInv, JobsCovered, TypeOK
    <2>2. db'.rows = db.rows /\ MarksCovered(db.rows, db'.marks)
      BY <1>10, <2>1, UnreadCovered DEF OpenFails
    <2>3. MarksCovered(db.rows, db.marks)'
      BY <1>10, <2>2 DEF MarksCovered, MarkCovered, Content, OpenFails, fileVars
    <2> QED
      BY <1>1, <1>10, <2>2, <2>3, LossStep DEF OpenFails, NextFile, TypeOK
  <1>11. CASE ParseRaises(c)
    BY <1>1, <1>2, <1>11, LossStep DEF ParseRaises, Forget, TypeOK
  <1>12. CASE FinishRun(c)
    <2>1. db'.rows = db.rows /\ db'.marks = db.marks
      BY <1>12 DEF FinishRun, TypeOK, Db
    <2>2. MarksCovered(db.rows, db.marks)'
      BY <1>12, <2>1 DEF LossInv, MarksCovered, MarkCovered, Content, FinishRun, fileVars
    <2> QED
      BY <1>1, <1>12, <2>1, <2>2, LossStep DEF FinishRun, Forget, TypeOK
  <1> QED
    BY <1>3, <1>4, <1>5, <1>6, <1>7, <1>8, <1>9, <1>10, <1>11, <1>12 DEF Collect

LEMMA LossFault ==
  ASSUME TypeOK, TypeOK', LossInv, Fault
  PROVE  LossInv'
  <1>1. RowsGrow(db.rows, db.rows)
    BY DEF RowsGrow
  <1>2. db' = db /\ UNCHANGED fileVars => MarksCovered(db.rows, db.marks)'
    BY DEF LossInv, MarksCovered, MarkCovered, Content, fileVars
  <1>3. CASE Sync
    BY <1>3 DEF Sync, LossInv, FilesBorn, MarksCovered, MarkCovered, Content, JobsCovered,
       JobCovered, fileVars, runVars
  <1>4. CASE PowerLoss
    BY <1>4 DEF PowerLoss, LossInv, FilesBorn, MarksCovered, MarkCovered, Content, JobsCovered,
       NoMarks, fileVars
  <1>5. ASSUME NEW c \in Collectors, Crash(c) PROVE LossInv'
    BY <1>1, <1>2, <1>5, LossStep DEF Crash, Forget, TypeOK
  <1>6. ASSUME NEW c \in Collectors, ReadFails(c) PROVE LossInv'
    <2>1. JobCovered(db.rows, job[c]) /\ job[c] \in Job
      BY <1>6 DEF ReadFails, LossInv, JobsCovered, TypeOK
    <2>2. db'.rows = db.rows /\ MarksCovered(db.rows, db'.marks)
      BY <1>6, <2>1, UnreadCovered DEF ReadFails
    <2>3. MarksCovered(db.rows, db.marks)'
      BY <1>6, <2>2 DEF MarksCovered, MarkCovered, Content, ReadFails, fileVars
    <2> QED
      BY <1>1, <1>6, <2>2, <2>3, LossStep DEF ReadFails, NextFile, TypeOK
  <1> QED
    BY <1>3, <1>4, <1>5, <1>6 DEF Fault

LEMMA LossNext == ~Reuse /\ TypeOK /\ LossInv /\ [Next]_vars => LossInv'
  <1> SUFFICES ASSUME ~Reuse, TypeOK, LossInv, [Next]_vars PROVE LossInv'
    OBVIOUS
  <1>1. TypeOK'
    BY TypeNext
  <1>2. CASE UNCHANGED vars
    BY <1>2 DEF vars, fileVars, runVars, LossInv, FilesBorn, MarksCovered, MarkCovered, Content,
       JobsCovered, JobCovered
  <1> QED
    BY <1>1, <1>2, LossAgent, LossCollect, LossFault DEF Next

LEMMA LossAlways == ASSUME ~Reuse PROVE Spec => []LossInv
  <1>1. Init /\ [][Next]_vars /\ []TypeOK => []LossInv
    BY LossInit, LossNext, PTL
  <1> QED
    BY <1>1, TypeCorrect, PTL DEF Spec

\* Without inode reuse no watermark passes a message that is not stored: for any
\* number of collectors, crashes, failing reads and power failures (pipeline.py:5-9).
THEOREM NothingIsLost == ASSUME ~Reuse PROVE Spec => []NoLoss
  <1>1. LossInv => NoLoss
    BY DEF LossInv, MarksCovered, MarkCovered, Covered, NoLoss
  <1> QED
    BY <1>1, LossAlways, PTL

\* And none does after a power failure, whatever part of the commits it took back.
THEOREM NothingIsLostOnDisk == ASSUME ~Reuse PROVE Spec => []NoLossOnDisk
  <1>1. LossInv => NoLossOnDisk
    BY DEF LossInv, MarksCovered, MarkCovered, Covered, NoLossOnDisk
  <1> QED
    BY <1>1, LossAlways, PTL

\* Without inode reuse a stored offset lies within the complete lines of its file,
\* so the line an agent is still writing is read once it is finished (reader.py:4-14).
THEOREM OffsetsInFiles == ASSUME ~Reuse PROVE Spec => []OffsetInFile
  <1>1. LossInv => OffsetInFile
    BY DEF LossInv, MarksCovered, MarkCovered, Covered, OffsetInFile
  <1> QED
    BY <1>1, LossAlways, PTL

\* What decide calls unchanged has been read to its last newline, and has no line
\* in progress.
LEMMA UnchangedIsRead ==
  ASSUME NEW wm \in Mark \cup {None}, NEW inode, NEW n \in Nat, NEW partial \in BOOLEAN,
         NEW mtime, Decide(wm, FileStat(inode, n, partial, mtime)) = "unchanged"
  PROVE  wm # None /\ wm.inode = inode /\ wm.offset = n /\ ~partial
  <1> DEFINE st == FileStat(inode, n, partial, mtime)
  <1>1. st.inode = inode /\ st.size = 2 * n + (IF partial THEN 1 ELSE 0)
    BY DEF FileStat, Bytes
  <1>2. wm # None /\ wm.inode = st.inode /\ ~(st.size < Bytes(wm.offset)) /\ AtEof(wm, st)
    BY DEF Decide
  <1>3. wm \in Mark /\ wm.offset \in Nat
    BY <1>2 DEF Mark
  <1> HIDE DEF st
  <1>4. CASE partial
    <2>1. st.size = 2 * n + 1 /\ 2 * wm.offset = st.size
      BY <1>1, <1>2, <1>3, <1>4 DEF AtEof, Bytes
    <2> QED
      BY <1>3, <2>1
  <1>5. CASE ~partial
    <2>1. st.size = 2 * n /\ 2 * wm.offset = st.size
      BY <1>1, <1>2, <1>3, <1>5 DEF AtEof, Bytes
    <2> QED
      BY <1>1, <1>2, <1>3, <1>5, <2>1
  <1> QED
    BY <1>4, <1>5

\* Without inode reuse the fast path never passes over a message that is not stored
\* (watermarks.py:4-7), whichever stat was saved with whichever offset.
THEOREM SkippingIsSafe == ASSUME ~Reuse PROVE Spec => []SkipIsSafe
  <1>1. ASSUME TypeOK, LossInv PROVE SkipIsSafe
    <2> SUFFICES ASSUME NEW p \in Paths, file[p] # None,
                        Decide(db.marks[p], StatOf(file[p])) = "unchanged"
                 PROVE  /\ StoredUpTo(db.rows, Content(file[p]), Len(Content(file[p])))
                        /\ ~ino[file[p]].partial
      BY DEF SkipIsSafe
    <2>1. db.marks[p] \in Mark \cup {None}
      BY <1>1 DEF TypeOK, Db, Marks
    <2>2. /\ Len(Content(file[p])) \in Nat /\ ino[file[p]].partial \in BOOLEAN
      BY <1>1, LenProperties DEF TypeOK, Content, Inode
    <2>3. /\ db.marks[p] # None /\ db.marks[p].inode = file[p]
          /\ db.marks[p].offset = Len(Content(file[p])) /\ ~ino[file[p]].partial
      BY <2>1, <2>2, UnchangedIsRead DEF StatOf
    <2> QED
      BY <1>1, <2>3 DEF LossInv, MarksCovered, MarkCovered, Covered
  <1> QED
    BY <1>1, TypeCorrect, LossAlways, PTL

-------------------------------------------------------------------------------
\* Complete runs.

\* What a run still owes of a file, it owes after a step that keeps it pending or
\* stores what the file held.
LEMMA GoalStays ==
  ASSUME TypeOK, TypeOK', FilesStep, RowsGrow(db.rows, db'.rows),
         NEW c \in Collectors, NEW p \in Paths, goal[c][p] # None, GoalKept(c, p),
         goal'[c][p] = goal[c][p], pc'[c] # "idle",
         goal[c][p].inode = file[p] /\ file'[p] = file[p] /\ Pending(c, p) =>
           Pending(c, p)' \/ StoredUpTo(db'.rows, Content(file[p]), goal[c][p].len)
  PROVE  GoalKept(c, p)'
  <1> DEFINE i == goal[c][p].inode
             n == goal[c][p].len
  <1>1. i \in Inodes /\ n \in Nat /\ i # None
    BY NoneAssumption DEF TypeOK
  <1>2. i \in born'
    BY DEF GoalKept, FilesStep
  <1>3. ASSUME file'[p] = i
        PROVE  /\ n <= Len(ino'[i].lines)
               /\ Pending(c, p)' \/ StoredUpTo(db'.rows, ino'[i].lines, n)
    <2>1. file[p] = i /\ Extends(ino[i].lines, ino'[i].lines)
      BY <1>3 DEF GoalKept, FilesStep, PathKept
    <2>2. ino[i].lines \in Seq(Lines) /\ ino'[i].lines \in Seq(Lines)
      BY <1>1 DEF TypeOK, Inode
    <2>3. Len(ino[i].lines) \in Nat /\ Len(ino'[i].lines) \in Nat
      BY <2>2, LenProperties
    <2>4. n <= Len(ino[i].lines)
      BY <2>1 DEF GoalKept, Content
    <2>5. n <= Len(ino'[i].lines)
      <3>1. Len(ino[i].lines) <= Len(ino'[i].lines)
        BY <2>1 DEF Extends
      <3>2. \A a, b, m \in Nat : m <= a /\ a <= b => m <= b
        OBVIOUS
      <3> QED
        BY <1>1, <2>3, <2>4, <3>1, <3>2, Zenon
    <2>6. StoredUpTo(db.rows, ino[i].lines, n) => StoredUpTo(db'.rows, ino[i].lines, n)
      BY DEF StoredUpTo, RowsGrow
    <2>7. Pending(c, p)' \/ StoredUpTo(db'.rows, ino[i].lines, n)
      BY <1>3, <2>1, <2>6 DEF GoalKept, Content
    <2>8. StoredUpTo(db'.rows, ino[i].lines, n) => StoredUpTo(db'.rows, ino'[i].lines, n)
      <3>1. RowsGrow(db'.rows, db'.rows)
        BY DEF RowsGrow
      <3> QED
        BY <1>1, <2>1, <2>2, <2>4, <3>1, CoveredGrows DEF Covered
    <2> QED
      BY <2>5, <2>7, <2>8
  <1> QED
    BY <1>2, <1>3 DEF GoalKept, Content

\* The collectors that do not move keep what they owe.
LEMMA OthersGoalsStay ==
  ASSUME TypeOK, TypeOK', FilesStep, GoalInv, RowsGrow(db.rows, db'.rows),
         NEW c \in Collectors, NEW p \in Paths, goal'[c][p] # None,
         pc'[c] = pc[c], todo'[c] = todo[c], job'[c] = job[c], goal'[c] = goal[c]
  PROVE  GoalKept(c, p)'
  <1>1. GoalKept(c, p) /\ pc'[c] # "idle"
    BY DEF GoalInv, GoalKept
  <1>2. file'[p] = file[p] /\ Pending(c, p) => Pending(c, p)'
    BY DEF Pending, Reading
  <1> QED
    BY <1>1, <1>2, GoalStays

\* A step of the run c, which leaves the files alone.
LEMMA GoalStep ==
  ASSUME TypeOK, TypeOK', FilesStep, GoalInv, RowsGrow(db.rows, db'.rows), UNCHANGED fileVars,
         NEW c \in Collectors, pc'[c] # "idle",
         \A d \in Collectors \ {c} :
           pc'[d] = pc[d] /\ todo'[d] = todo[d] /\ job'[d] = job[d] /\ goal'[d] = goal[d],
         \A p \in Paths : goal'[c][p] # None =>
           /\ goal'[c][p] = goal[c][p]
           /\ goal[c][p].inode = file[p] /\ Pending(c, p) =>
                Pending(c, p)' \/ StoredUpTo(db'.rows, Content(file[p]), goal[c][p].len)
  PROVE  GoalInv'
  <1> SUFFICES ASSUME NEW d \in Collectors, NEW p \in Paths, goal'[d][p] # None
               PROVE  GoalKept(d, p)'
    BY DEF GoalInv
  <1>1. CASE d = c
    BY <1>1, GoalStays DEF GoalInv
  <1>2. CASE d # c
    BY <1>2, OthersGoalsStay
  <1> QED
    BY <1>1, <1>2

LEMMA GoalCollect ==
  ASSUME TypeOK, TypeOK', LossInv, GoalInv, NEW c \in Collectors, Collect(c)
  PROVE  GoalInv'
  <1>1. RowsGrow(db.rows, db.rows)
    BY DEF RowsGrow
  <1>2. UNCHANGED fileVars => FilesStep
    BY NoFilesStep DEF LossInv
  <1>3. CASE StartRun(c)
    <2> SUFFICES ASSUME NEW d \in Collectors, NEW p \in Paths, goal'[d][p] # None
                 PROVE  GoalKept(d, p)'
      BY DEF GoalInv
    <2>1. CASE d # c
      BY <1>1, <1>2, <1>3, <2>1, OthersGoalsStay DEF StartRun, TypeOK
    <2>2. CASE d = c
      <3>1. goal'[c][p] = Present(p) /\ todo'[c] = {q \in Paths : file[q] # None}
        BY <1>3 DEF StartRun, TypeOK
      <3>2. /\ file[p] # None
            /\ goal'[c][p] = [inode |-> file[p], len |-> Len(Content(file[p]))]
        BY <2>2, <3>1 DEF Present
      <3>3. p \in todo'[c] /\ pc'[c] # "idle" /\ file[p] \in born
        BY <1>3, <3>1, <3>2 DEF StartRun, TypeOK, LossInv, FilesBorn
      <3>4. Len(Content(file[p])) \in Nat
        BY <3>2, LenProperties DEF TypeOK, Content, Inode
      <3> QED
        BY <1>3, <2>2, <3>2, <3>3, <3>4 DEF GoalKept, Pending, StartRun, Content, fileVars
    <2> QED
      BY <2>1, <2>2
  <1>4. ASSUME NEW p \in Paths, Vanished(c, p) PROVE GoalInv'
    <2>1. \A q \in Paths : goal[c][q] # None /\ goal[c][q].inode = file[q] => q # p
      BY <1>4, NoneAssumption DEF Vanished, TypeOK
    <2>2. \A q \in Paths : q # p /\ Pending(c, q) => Pending(c, q)'
      BY <1>4 DEF Vanished, Pending, Reading, TypeOK, fileVars
    <2> QED
      BY <1>1, <1>2, <1>4, <2>1, <2>2, GoalStep DEF Vanished, TypeOK
  <1>5. ASSUME NEW p \in Paths, Skip(c, p) PROVE GoalInv'
    <2>1. snap[c][p] \in Mark \cup {None}
      BY DEF TypeOK, Marks
    <2>2. Len(Content(file[p])) \in Nat /\ ino[file[p]].partial \in BOOLEAN
      BY <1>5, LenProperties DEF Skip, TypeOK, Content, Inode
    <2>3. /\ snap[c][p] # None /\ snap[c][p].inode = file[p]
          /\ snap[c][p].offset = Len(Content(file[p]))
      BY <1>5, <2>1, <2>2, UnchangedIsRead DEF Skip, StatOf
    <2>4. StoredUpTo(db.rows, Content(file[p]), Len(Content(file[p])))
      BY <2>3 DEF LossInv, MarksCovered, MarkCovered, Covered
    <2>5. \A q \in Paths : goal[c][q] # None => goal[c][q].len \in Nat
      BY DEF TypeOK
    <2>6. goal[c][p] # None => StoredUpTo(db.rows, Content(file[p]), goal[c][p].len)
      BY <2>2, <2>4, <2>5 DEF StoredUpTo
    <2>7. \A q \in Paths : q # p /\ Pending(c, q) => Pending(c, q)'
      BY <1>5 DEF Skip, Pending, Reading, TypeOK, fileVars
    <2> QED
      BY <1>1, <1>2, <1>5, <2>6, <2>7, GoalStep DEF Skip, TypeOK
  <1>6. ASSUME NEW p \in Paths, Visit(c, p) PROVE GoalInv'
    <2>1. StatOf(file[p]).inode = file[p]
      BY <1>6, StatOfType DEF Visit, TypeOK
    <2>2. /\ job'[c] = NewJob(snap[c][p], p, StatOf(file[p])) /\ pc'[c] = "open"
          /\ pc[c] = "scan" /\ todo'[c] = todo[c] \ {p}
      BY <1>6 DEF Visit, TypeOK
    <2>3. job'[c].path = p /\ job'[c].stat.inode = file'[p]
      BY <1>6, <2>1, <2>2 DEF NewJob, Visit, fileVars
    <2>4. \A q \in Paths : Pending(c, q) => Pending(c, q)'
      BY <2>2, <2>3 DEF Pending, Reading
    <2> QED
      BY <1>1, <1>2, <1>6, <2>2, <2>4, GoalStep DEF Visit, TypeOK
  <1>7. CASE Open(c)
    <2>1. job[c] \in Job /\ job'[c] = [job[c] EXCEPT !.fd = file[job[c].path]] /\ pc'[c] = "read"
      BY <1>7 DEF Open, TypeOK
    <2>2. job'[c].path = job[c].path /\ job'[c].stat = job[c].stat
      BY <2>1 DEF Job
    <2>3. \A q \in Paths : Pending(c, q) => Pending(c, q)'
      BY <1>7, <2>1, <2>2 DEF Pending, Reading, Open, fileVars
    <2> QED
      BY <1>1, <1>2, <1>7, <2>1, <2>3, GoalStep DEF Open, TypeOK
  <1>8. CASE ReadLine(c)
    <2> DEFINE l == Content(job[c].fd)[job[c].pos + 1]
    <2>1. job[c] \in Job /\ job'[c] = Yield(job[c], l) /\ pc'[c] = "read"
      BY <1>8 DEF ReadLine, TypeOK
    <2>2. job'[c].path = job[c].path /\ job'[c].stat = job[c].stat
      BY <2>1 DEF Yield, Job
    <2>3. \A q \in Paths : Pending(c, q) => Pending(c, q)'
      BY <1>8, <2>1, <2>2 DEF Pending, Reading, ReadLine, fileVars
    <2> QED
      BY <1>1, <1>2, <1>8, <2>1, <2>3, GoalStep DEF ReadLine, TypeOK
  <1>9. CASE EndOfFile(c)
    <2> DEFINE j == job[c]
    <2>1. /\ j \in Job /\ job'[c] = [j EXCEPT !.fd = None] /\ pc[c] = "read" /\ pc'[c] = "end"
          /\ UNCHANGED <<fileVars, todo, goal>>
      BY <1>9 DEF EndOfFile, TypeOK
    <2>2. job'[c].path = j.path /\ job'[c].stat = j.stat /\ job'[c].pos = j.pos
      BY <2>1 DEF Job
    <2>3. ASSUME NEW q \in Paths, goal[c][q] # None, Pending(c, q), goal[c][q].inode = file[q]
          PROVE  Pending(c, q)'
      <3>1. CASE q \in todo[c]
        BY <2>1, <3>1 DEF Pending
      <3>2. CASE q \notin todo[c]
        <4>1. q = j.path /\ j.stat.inode = file[q]
          BY <2>3, <3>2 DEF Pending, Reading
        <4>2. j.fd = file[q]
          BY <2>1, <4>1 DEF LossInv, JobsCovered
        <4>3. j.pos >= Len(Content(file[q]))
          BY <1>9, <4>2 DEF EndOfFile, AtEnd
        <4>4. goal[c][q].len \in Nat /\ goal[c][q].len <= Len(Content(file[q]))
          BY <2>3 DEF GoalInv, GoalKept, TypeOK
        <4>5. j.pos \in Nat /\ Len(Content(file[q])) \in Nat
          <5>1. file[q] \in Inodes
            BY <2>1, <4>2 DEF TypeOK
          <5> QED
            BY <2>1, <5>1, LenProperties DEF TypeOK, Inode, Content, Job
        <4>6. goal[c][q].len <= j.pos
          BY <4>3, <4>4, <4>5
        <4> QED
          BY <2>1, <2>2, <4>1, <4>6 DEF Pending, Reading, fileVars
      <3> QED
        BY <3>1, <3>2
    <2> QED
      BY <1>1, <1>2, <1>9, <2>1, <2>3, GoalStep DEF EndOfFile, TypeOK
  <1>10. CASE Commit(c)
    <2> DEFINE j == job[c]
    <2>1. JobCovered(db.rows, j) /\ j \in Job
      BY <1>10 DEF Commit, LossInv, JobsCovered, TypeOK
    <2>2. RowsGrow(db.rows, db'.rows) /\ db' = Ingested(db, j) /\ pc[c] = "end" /\ pc'[c] = "scan"
      BY <1>10, <2>1, IngestedCovered DEF Commit, NextFile, TypeOK
    <2>3. ASSUME NEW q \in Paths, j.path = q, j.stat.inode = file[q],
                 NEW n \in Nat, n <= j.pos
          PROVE  StoredUpTo(db'.rows, Content(file[q]), n)
      <3>1. ReadCovered(db.rows, Content(file[q]), j)
        BY <2>1, <2>3 DEF JobCovered
      <3>2. j.path # None /\ j.pos \in Nat
        BY <2>1, NoneAssumption DEF Job
      <3>3. db'.rows = Insert(db.rows, j.got \cap Keys, j.path)
        BY <2>2 DEF Ingested, TypeOK, Db
      <3>4. \A k \in Keys : db.rows[k] # None \/ k \in j.got => db'.rows[k] # None
        BY <3>2, <3>3 DEF Insert
      <3>5. \A x \in 1..Len(Content(file[q])) : x <= n => x <= j.pos
        BY <2>3, <3>2
      <3> QED
        BY <3>1, <3>4, <3>5 DEF StoredUpTo, ReadCovered
    <2>4. ASSUME NEW q \in Paths, goal[c][q] # None, Pending(c, q), goal[c][q].inode = file[q]
          PROVE  Pending(c, q)' \/ StoredUpTo(db'.rows, Content(file[q]), goal[c][q].len)
      <3>1. CASE q \in todo[c]
        BY <1>10, <3>1 DEF Pending, Commit
      <3>2. CASE q \notin todo[c]
        <4>1. q = j.path /\ j.stat.inode = file[q] /\ goal[c][q].len <= j.pos
          BY <2>2, <2>4, <3>2 DEF Pending, Reading
        <4>2. goal[c][q].len \in Nat
          BY <2>4 DEF TypeOK
        <4> QED
          BY <2>3, <4>1, <4>2
      <3> QED
        BY <3>1, <3>2
    <2> QED
      BY <1>2, <1>10, <2>2, <2>4, GoalStep DEF Commit, NextFile, TypeOK
  <1>11. CASE OpenFails(c)
    <2>1. JobCovered(db.rows, job[c]) /\ job[c] \in Job
      BY <1>11 DEF OpenFails, LossInv, JobsCovered, TypeOK
    <2>2. db'.rows = db.rows /\ pc'[c] = "scan"
      BY <1>11, <2>1, UnreadCovered DEF OpenFails, NextFile, TypeOK
    <2>3. \A q \in Paths : goal[c][q] # None /\ goal[c][q].inode = file[q] => file[q] # None
      BY NoneAssumption DEF TypeOK
    <2>4. \A q \in Paths : file[q] # None /\ Pending(c, q) => Pending(c, q)'
      BY <1>11 DEF OpenFails, Pending, Reading
    <2> QED
      BY <1>1, <1>2, <1>11, <2>2, <2>3, <2>4, GoalStep DEF OpenFails, NextFile, TypeOK
  <1>12. CASE ParseRaises(c) \/ FinishRun(c)
    <2>1. db'.rows = db.rows /\ UNCHANGED fileVars /\ Forget(c)
      BY <1>12 DEF ParseRaises, FinishRun, TypeOK, Db
    <2>2. \A p \in Paths : goal'[c][p] = None
      BY <2>1 DEF Forget, NoMarks, TypeOK
    <2> QED
      BY <1>1, <1>2, <2>1, <2>2, OthersGoalsStay DEF GoalInv, Forget, TypeOK
  <1> QED
    BY <1>3, <1>4, <1>5, <1>6, <1>7, <1>8, <1>9, <1>10, <1>11, <1>12 DEF Collect

LEMMA GoalFault ==
  ASSUME TypeOK, TypeOK', LossInv, GoalInv, Fault
  PROVE  GoalInv'
  <1>1. RowsGrow(db.rows, db.rows)
    BY DEF RowsGrow
  <1>2. UNCHANGED fileVars => FilesStep
    BY NoFilesStep DEF LossInv
  <1>3. CASE Sync
    BY <1>1, <1>2, <1>3, OthersGoalsStay DEF Sync, GoalInv, runVars
  <1>4. CASE PowerLoss
    BY <1>4 DEF PowerLoss, GoalInv, NoMarks
  <1>5. ASSUME NEW c \in Collectors, Crash(c) PROVE GoalInv'
    <2>1. \A p \in Paths : goal'[c][p] = None
      BY <1>5 DEF Crash, Forget, NoMarks, TypeOK
    <2> QED
      BY <1>1, <1>2, <1>5, <2>1, OthersGoalsStay DEF GoalInv, Crash, Forget, TypeOK
  <1>6. ASSUME NEW c \in Collectors, ReadFails(c) PROVE GoalInv'
    <2>1. JobCovered(db.rows, job[c]) /\ job[c] \in Job
      BY <1>6 DEF ReadFails, LossInv, JobsCovered, TypeOK
    <2>2. db'.rows = db.rows /\ pc'[c] = "scan"
      BY <1>6, <2>1, UnreadCovered DEF ReadFails, NextFile, TypeOK
    <2>3. \A q \in Paths : goal'[c][q] # None => q # job[c].path /\ goal'[c][q] = goal[c][q]
      BY <1>6, <2>1 DEF ReadFails, TypeOK, Job
    <2>4. \A q \in Paths : q # job[c].path /\ Pending(c, q) => Pending(c, q)'
      BY <1>6 DEF ReadFails, Pending, Reading
    <2> QED
      BY <1>1, <1>2, <1>6, <2>2, <2>3, <2>4, GoalStep DEF ReadFails, NextFile, TypeOK
  <1> QED
    BY <1>3, <1>4, <1>5, <1>6 DEF Fault

LEMMA GoalNext == ~Reuse /\ TypeOK /\ LossInv /\ GoalInv /\ [Next]_vars => GoalInv'
  <1> SUFFICES ASSUME ~Reuse, TypeOK, LossInv, GoalInv, [Next]_vars PROVE GoalInv'
    OBVIOUS
  <1>1. TypeOK'
    BY TypeNext
  <1>2. RowsGrow(db.rows, db.rows)
    BY DEF RowsGrow
  <1>3. CASE UNCHANGED vars
    <2>1. FilesStep
      BY <1>3, NoFilesStep DEF LossInv, vars
    <2> QED
      BY <1>1, <1>2, <1>3, <2>1, OthersGoalsStay DEF GoalInv, vars, runVars
  <1>4. CASE Agent
    <2>1. FilesStep
      BY <1>1, <1>4, AgentFilesStep DEF LossInv
    <2>2. UNCHANGED <<db, runVars>>
      BY <1>4 DEF Agent, CreateFile, WriteLine, StartLine, RemoveFile
    <2> QED
      BY <1>1, <1>2, <2>1, <2>2, OthersGoalsStay DEF GoalInv, runVars
  <1> QED
    BY <1>1, <1>3, <1>4, GoalCollect, GoalFault DEF Next

\* A run that calls itself complete has stored what the files held when it started
\* (pipeline.py:12), for any number of collectors and agents at work meanwhile: a
\* path leaves the list of the run as a file that is stored to its end, or that is
\* no longer the one it found.
THEOREM CompleteRunsAreComplete == ASSUME ~Reuse PROVE Spec => CompleteRunIsComplete
  <1>1. Init => GoalInv
    BY DEF Init, GoalInv, NoMarks
  <1>2. ASSUME TypeOK, GoalInv, NEW c \in Collectors, FinishRun(c), db'.run = "complete",
               NEW p \in Paths, goal[c][p] # None, goal[c][p].inode = file[p]
        PROVE  StoredUpTo(db.rows, Content(file[p]), goal[c][p].len)
    <2>1. todo[c] = {} /\ pc[c] = "scan"
      BY <1>2 DEF FinishRun, RunResult, TypeOK, Db
    <2>2. ~Pending(c, p)
      BY <2>1 DEF Pending, Reading
    <2> QED
      BY <1>2, <2>2 DEF GoalInv, GoalKept
  <1>3. TypeOK /\ GoalInv =>
          [\A c \in Collectors : FinishRun(c) /\ db'.run = "complete" =>
             \A p \in Paths : goal[c][p] # None /\ goal[c][p].inode = file[p] =>
               StoredUpTo(db.rows, Content(file[p]), goal[c][p].len)]_vars
    BY <1>2
  <1>4. Init /\ [][Next]_vars /\ []TypeOK /\ []LossInv => [](TypeOK /\ GoalInv)
    BY <1>1, GoalNext, PTL
  <1> QED
    BY <1>3, <1>4, TypeCorrect, LossAlways, PTL DEF Spec, CompleteRunIsComplete

-------------------------------------------------------------------------------
\* The counter of ingested lines.

LEMMA LinesAtFinite ==
  ASSUME NEW lines \in Seq(Lines), NEW n \in Nat
  PROVE  IsFiniteSet(LinesAt(lines, n)) /\ LinesBelow(lines, n) \in Nat
  <1>1. LinesAt(lines, n) \subseteq 1..Len(lines)
    BY DEF LinesAt
  <1>2. IsFiniteSet(1..Len(lines))
    <2>1. 1 \in Int /\ Len(lines) \in Int
      BY LenProperties
    <2> QED
      BY <2>1, FS_Interval
  <1>3. IsFiniteSet(LinesAt(lines, n))
    BY <1>1, <1>2, FS_Subset
  <1> QED
    BY <1>3, FS_CardinalityType DEF LinesBelow

LEMMA NoLinesBelowZero ==
  ASSUME NEW lines \in Seq(Lines)
  PROVE  LinesBelow(lines, 0) = 0
  <1>1. LinesAt(lines, 0) = {}
    BY LenProperties DEF LinesAt
  <1> QED
    BY <1>1, FS_EmptySet DEF LinesBelow

\* One line more is counted unless it is blank.
LEMMA NextLineBelow ==
  ASSUME NEW lines \in Seq(Lines), NEW n \in Nat, n < Len(lines)
  PROVE  LinesBelow(lines, n + 1) =
           LinesBelow(lines, n) + (IF lines[n + 1] = Blank THEN 0 ELSE 1)
  <1>1. Len(lines) \in Nat /\ n + 1 \in 1..Len(lines)
    BY LenProperties
  <1>2. LinesAt(lines, n + 1) =
          LinesAt(lines, n) \cup {x \in {n + 1} : lines[x] # Blank}
    <2>1. \A x \in 1..Len(lines) : x <= n + 1 <=> x <= n \/ x = n + 1
      BY <1>1
    <2> QED
      BY <1>1, <2>1 DEF LinesAt
  <1>3. n + 1 \notin LinesAt(lines, n)
    BY DEF LinesAt
  <1>4. IsFiniteSet(LinesAt(lines, n)) /\ LinesBelow(lines, n) \in Nat
    BY LinesAtFinite
  <1>5. CASE lines[n + 1] = Blank
    <2>1. LinesAt(lines, n + 1) = LinesAt(lines, n)
      BY <1>2, <1>5
    <2> QED
      BY <1>4, <1>5, <2>1 DEF LinesBelow
  <1>6. CASE lines[n + 1] # Blank
    <2>1. LinesAt(lines, n + 1) = LinesAt(lines, n) \cup {n + 1}
      BY <1>2, <1>6
    <2>2. Cardinality(LinesAt(lines, n + 1)) = Cardinality(LinesAt(lines, n)) + 1
      BY <1>3, <1>4, <2>1, FS_AddElement
    <2> QED
      BY <1>6, <2>2 DEF LinesBelow
  <1> QED
    BY <1>5, <1>6

\* What is appended to a file does not change the count below a line it has.
LEMMA LinesBelowKept ==
  ASSUME NEW lines \in Seq(Lines), NEW lines2 \in Seq(Lines), Extends(lines, lines2),
         NEW n \in Nat, n <= Len(lines)
  PROVE  LinesBelow(lines2, n) = LinesBelow(lines, n)
  <1>1. Len(lines) \in Nat /\ Len(lines2) \in Nat
    BY LenProperties
  <1>2. \A x \in Nat : x <= n => (x \in 1..Len(lines2) <=> x \in 1..Len(lines))
    BY <1>1 DEF Extends
  <1>3. \A x \in 1..Len(lines) : lines2[x] = lines[x]
    BY DEF Extends
  <1>4. LinesAt(lines2, n) = LinesAt(lines, n)
    <2>1. ASSUME NEW x PROVE x \in LinesAt(lines2, n) <=> x \in LinesAt(lines, n)
      BY <1>1, <1>2, <1>3 DEF LinesAt
    <2> QED
      BY <2>1
  <1> QED
    BY <1>4 DEF LinesBelow

\* A file whose watermarks were counted is so after it has grown.
LEMMA MarksCountedKept ==
  ASSUME TypeOK, FilesStep, NEW rows, NEW marks \in Marks, MarksCovered(rows, marks),
         MarksCounted(marks)
  PROVE  \A p \in Paths : marks[p] # None /\ marks[p].inode = file'[p] =>
           marks[p].lines = LinesBelow(ino'[file'[p]].lines, marks[p].offset)
  <1> SUFFICES ASSUME NEW p \in Paths, marks[p] # None, marks[p].inode = file'[p]
               PROVE  marks[p].lines = LinesBelow(ino'[file'[p]].lines, marks[p].offset)
    OBVIOUS
  <1> DEFINE lines  == ino[file[p]].lines
             lines2 == ino'[file'[p]].lines
             n      == marks[p].offset
  <1>1. marks[p] \in Mark /\ n \in Nat /\ file'[p] \in Inodes /\ file'[p] # None
    BY NoneAssumption DEF Marks, Mark
  <1>2. marks[p].inode \in born
    BY DEF MarksCovered, MarkCovered
  <1>3. file'[p] = file[p] /\ Extends(lines, lines2)
    BY <1>2 DEF FilesStep, PathKept
  <1>4. n <= Len(lines) /\ marks[p].lines = LinesBelow(lines, n)
    BY <1>3 DEF MarksCovered, MarkCovered, Covered, MarksCounted, Content
  <1>5. lines \in Seq(Lines) /\ lines2 \in Seq(Lines)
    BY <1>1, <1>3 DEF TypeOK, Inode, FilesStep
  <1> HIDE DEF lines, lines2, n
  <1>6. LinesBelow(lines2, n) = LinesBelow(lines, n)
    BY <1>1, <1>3, <1>4, <1>5, LinesBelowKept
  <1> QED
    BY <1>4, <1>6 DEF lines2, n

\* So is what a read has counted of it.
LEMMA JobCountedKept ==
  ASSUME NEW lines \in Seq(Lines), NEW lines2 \in Seq(Lines), Extends(lines, lines2),
         NEW j \in Job, j.start <= j.off, j.off <= j.pos, j.pos <= Len(lines),
         JobCounted(lines, j)
  PROVE  JobCounted(lines2, j)
  <1>1. /\ Len(lines) \in Nat /\ j.start \in Nat /\ j.off \in Nat /\ j.pos \in Nat
        /\ j.start <= Len(lines) /\ j.off <= Len(lines)
    BY LenProperties DEF Job
  <1>2. /\ LinesBelow(lines2, j.start) = LinesBelow(lines, j.start)
        /\ LinesBelow(lines2, j.off) = LinesBelow(lines, j.off)
        /\ LinesBelow(lines2, j.pos) = LinesBelow(lines, j.pos)
    BY <1>1, LinesBelowKept
  <1> QED
    BY <1>2 DEF JobCounted

LEMMA CountAgent ==
  ASSUME TypeOK, TypeOK', LossInv, CountInv, ~Reuse, Agent
  PROVE  CountInv'
  <1>1. FilesStep
    BY AgentFilesStep DEF LossInv
  <1>2. UNCHANGED <<db, disk, runVars>>
    BY DEF Agent, CreateFile, WriteLine, StartLine, RemoveFile
  <1>3. db.marks \in Marks /\ disk.marks \in Marks
    BY DEF TypeOK, Db
  <1>4. MarksCounted(db.marks)' /\ MarksCounted(disk.marks)'
    BY <1>1, <1>2, <1>3, MarksCountedKept DEF LossInv, CountInv, MarksCounted, Content
  <1>5. SnapIsStored'
    BY <1>2 DEF CountInv, SnapIsStored, Reading, runVars
  <1>6. ASSUME NEW c \in Collectors, pc'[c] \in {"open", "read", "end"}
        PROVE  /\ JobResumes(c, job[c])'
               /\ job'[c].stat.inode = file'[job'[c].path] =>
                    JobCounted(Content(file[job[c].path]), job[c])'
    <2> DEFINE j == job[c]
               lines  == ino[file[j.path]].lines
               lines2 == ino'[file'[j.path]].lines
    <2>1. j \in Job /\ job'[c] = j /\ pc[c] \in {"open", "read", "end"}
      BY <1>2, <1>6 DEF TypeOK, runVars
    <2>2. JobResumes(c, job[c])'
      BY <1>2, <2>1 DEF CountInv, JobResumes, runVars
    <2>3. ASSUME j.stat.inode = file'[j.path] PROVE JobCounted(lines2, j)
      <3>1. j.stat.inode \in Inodes /\ j.stat.inode # None /\ j.path \in Paths
        BY <2>1, NoneAssumption DEF Job, Stat
      <3>2. j.stat.inode \in born /\ j.start <= j.off /\ j.off <= j.pos
        BY <2>1 DEF LossInv, JobsCovered, JobCovered
      <3>3. file'[j.path] = file[j.path] /\ Extends(lines, lines2)
        <4>1. file'[j.path] \in born /\ PathKept(j.path)
          BY <1>1, <2>3, <3>1, <3>2 DEF FilesStep
        <4> QED
          BY <4>1 DEF PathKept
      <3>4. j.pos <= Len(lines) /\ JobCounted(lines, j)
        BY <2>1, <2>3, <3>3 DEF LossInv, JobsCovered, JobCovered, ReadCovered, CountInv, Content
      <3>5. lines \in Seq(Lines) /\ lines2 \in Seq(Lines)
        BY <1>1, <2>3, <3>1, <3>3 DEF TypeOK, Inode, FilesStep
      <3> HIDE DEF j, lines, lines2
      <3> QED
        BY <2>1, <3>2, <3>3, <3>4, <3>5, JobCountedKept
    <2> QED
      BY <2>1, <2>2, <2>3 DEF Content
  <1> QED
    BY <1>4, <1>5, <1>6 DEF CountInv

\* A step of the only run leaves the files alone: what is left to prove of it.
LEMMA CountStep ==
  ASSUME CountInv, UNCHANGED <<fileVars, disk>>, \A d, e \in Collectors : d = e,
         NEW c \in Collectors, MarksCounted(db'.marks),
         \A p \in Paths : p \in todo'[c] \/ Reading(c, p)' => snap'[c][p] = db'.marks[p],
         pc'[c] \in {"open", "read", "end"} =>
           /\ JobResumes(c, job[c])'
           /\ job'[c].stat.inode = file[job'[c].path] =>
                JobCounted(Content(file[job'[c].path]), job'[c])
  PROVE  CountInv'
  <1>1. MarksCounted(db.marks)' /\ MarksCounted(disk.marks)'
    BY DEF CountInv, MarksCounted, Content, fileVars
  <1>2. \A d \in Collectors : d = c
    OBVIOUS
  <1>3. SnapIsStored'
    BY <1>2 DEF SnapIsStored
  <1> QED
    BY <1>1, <1>2, <1>3 DEF CountInv, Content, JobCounted, fileVars

\* A read resumes at the watermark of its file, or starts it again.
LEMMA VisitCounted ==
  ASSUME TypeOK, NEW c \in Collectors, NEW p \in Paths, file[p] # None
  PROVE  LET j == NewJob(snap[c][p], p, StatOf(file[p]))
         IN  /\ j.path = p
             /\ j.reset => j.start = 0
             /\ ~j.reset => /\ snap[c][p] # None
                            /\ snap[c][p].inode = j.stat.inode
                            /\ snap[c][p].offset = j.start
             /\ j.start <= Len(Content(file[p])) => JobCounted(Content(file[p]), j)
  <1> DEFINE j  == NewJob(snap[c][p], p, StatOf(file[p]))
             wm == snap[c][p]
             st == StatOf(file[p])
             lines == Content(file[p])
  <1>1. /\ j.path = p /\ j.stat = st /\ j.n = 0 /\ j.reset = (Decide(wm, st) \in Resets)
        /\ j.start = StartOffset(wm, st) /\ j.pos = j.start /\ j.off = j.start
    BY DEF NewJob
  <1>2. lines \in Seq(Lines) /\ wm \in Mark \cup {None} /\ st \in Stat
    BY StatOfType DEF TypeOK, Content, Inode, Marks
  <1>3. j.start \in Nat
    BY <1>1, <1>2, StartOffsetType
  <1>4. LinesBelow(lines, j.start) \in Nat
    BY <1>2, <1>3, LinesAtFinite
  <1>5. JobCounted(lines, j)
    BY <1>1, <1>4 DEF JobCounted
  <1>6. /\ j.reset => j.start = 0
        /\ ~j.reset => wm # None /\ wm.inode = st.inode /\ wm.offset = j.start
    BY <1>1 DEF StartOffset, Decide, Resets
  <1> HIDE DEF j
  <1> QED
    BY <1>1, <1>5, <1>6 DEF j

\* A read counts a line exactly when it is not blank.
LEMMA YieldCounted ==
  ASSUME NEW j \in Job, NEW lines \in Seq(Lines), j.pos < Len(lines), JobCounted(lines, j)
  PROVE  JobCounted(lines, Yield(j, lines[j.pos + 1]))
  <1> DEFINE l == lines[j.pos + 1]
             y == Yield(j, l)
  <1>1. j.pos \in Nat /\ j.off \in Nat /\ j.start \in Nat /\ j.n \in Nat
    BY DEF Job
  <1>2. /\ LinesBelow(lines, j.pos) \in Nat /\ LinesBelow(lines, j.start) \in Nat
        /\ LinesBelow(lines, j.pos + 1) = LinesBelow(lines, j.pos) + (IF l = Blank THEN 0 ELSE 1)
    BY <1>1, LinesAtFinite, NextLineBelow
  <1>3. /\ y.start = j.start /\ y.pos = j.pos + 1
        /\ y.off = IF l = Blank THEN j.off ELSE j.pos + 1
        /\ y.n = IF l = Blank THEN j.n ELSE j.n + 1
    BY DEF Yield, Job
  <1> HIDE DEF y, l
  <1>4. LinesBelow(lines, y.pos) = LinesBelow(lines, y.start) + y.n
    BY <1>1, <1>2, <1>3 DEF JobCounted
  <1>5. LinesBelow(lines, y.pos) = LinesBelow(lines, y.off)
    <2>1. CASE l = Blank
      <3>1. LinesBelow(lines, j.pos + 1) = LinesBelow(lines, j.pos)
        BY <1>2, <2>1
      <3>2. y.pos = j.pos + 1 /\ y.off = j.off
        BY <1>3, <2>1
      <3>3. LinesBelow(lines, j.pos) = LinesBelow(lines, j.off)
        BY DEF JobCounted
      <3> QED
        BY <3>1, <3>2, <3>3
    <2>2. CASE l # Blank
      BY <1>3, <2>2
    <2> QED
      BY <2>1, <2>2
  <1> QED
    BY <1>4, <1>5 DEF JobCounted, y, l

\* The watermark of a transaction counts what was counted before it and what it read,
\* or only the latter.
LEMMA IngestedCounted ==
  ASSUME TypeOK, LossInv, CountInv, NEW c \in Collectors, pc[c] = "end"
  PROVE  MarksCounted(Ingested(db, job[c]).marks)
  <1> DEFINE j == job[c]
             marks == Ingested(db, j).marks
  <1>1. j \in Job /\ j.path \in Paths /\ j.off \in Nat /\ j.n \in Nat /\ j.start \in Nat
        /\ j.pos \in Nat
    BY DEF TypeOK, Job
  <1>2. db.marks \in Marks /\ marks = SetMark(db.marks, j.path, j.stat, j.off, j.n, j.reset)
    BY DEF Ingested, TypeOK, Db
  <1> SUFFICES ASSUME NEW p \in Paths, marks[p] # None, marks[p].inode = file[p]
               PROVE  marks[p].lines = LinesBelow(Content(file[p]), marks[p].offset)
    BY DEF MarksCounted
  <1>3. CASE p # j.path
    <2>1. marks[p] = db.marks[p]
      BY <1>1, <1>2, <1>3 DEF SetMark, Marks
    <2> QED
      BY <2>1 DEF CountInv, MarksCounted
  <1>4. CASE p = j.path
    <2> DEFINE lines == Content(file[p])
    <2>1. marks[p] = SavedMark(db.marks[p], j.stat, j.off, j.n, j.reset)
      BY <1>1, <1>2, <1>4 DEF SetMark, Marks
    <2>2. /\ marks[p].inode = j.stat.inode /\ marks[p].offset = j.off
          /\ marks[p].lines = LinesAfter(db.marks[p], j.n, j.reset)
      BY <2>1 DEF SavedMark
    <2>3. JobCounted(lines, j) /\ JobResumes(c, j)
      BY <1>4, <2>2 DEF CountInv
    <2>4. file[p] \in Inodes /\ lines \in Seq(Lines)
      <3>1. j.stat.inode \in Inodes
        BY <1>1 DEF Job, Stat
      <3> QED
        BY <2>2, <3>1 DEF TypeOK, Inode, Content
    <2>5. LinesBelow(lines, j.start) \in Nat /\ LinesBelow(lines, j.off) = LinesBelow(lines, j.start) + j.n
      BY <1>1, <2>3, <2>4, LinesAtFinite DEF JobCounted
    <2>6. CASE j.reset
      <3>1. LinesBelow(lines, j.start) = 0
        BY <2>3, <2>4, <2>6, NoLinesBelowZero DEF JobResumes
      <3> QED
        BY <1>1, <2>2, <2>5, <2>6, <3>1 DEF LinesAfter
    <2>7. CASE ~j.reset
      <3>1. snap[c][p] = db.marks[p]
        BY <1>4 DEF CountInv, SnapIsStored, Reading
      <3>2. db.marks[p] # None /\ db.marks[p].inode = file[p] /\ db.marks[p].offset = j.start
        BY <1>4, <2>2, <2>3, <2>7, <3>1 DEF JobResumes
      <3>3. db.marks[p].lines = LinesBelow(lines, j.start)
        BY <3>2 DEF CountInv, MarksCounted
      <3> QED
        BY <2>2, <2>5, <2>7, <3>2, <3>3 DEF LinesAfter
    <2> QED
      BY <2>6, <2>7
  <1> QED
    BY <1>3, <1>4

LEMMA CountCollect ==
  ASSUME TypeOK, TypeOK', LossInv, CountInv, \A d, e \in Collectors : d = e,
         NEW c \in Collectors, Collect(c)
  PROVE  CountInv'
  <1>1. /\ MarksCounted(db.marks)
        /\ \A p \in Paths : p \in todo[c] \/ Reading(c, p) => snap[c][p] = db.marks[p]
    BY DEF CountInv, SnapIsStored
  <1>2. CASE StartRun(c)
    BY <1>1, <1>2, CountStep DEF StartRun, TypeOK, Reading
  <1>3. ASSUME NEW p \in Paths, Vanished(c, p) \/ Skip(c, p) PROVE CountInv'
    BY <1>1, <1>3, CountStep DEF Vanished, Skip, TypeOK, Reading
  <1>4. ASSUME NEW p \in Paths, Visit(c, p) PROVE CountInv'
    <2> DEFINE j == NewJob(snap[c][p], p, StatOf(file[p]))
    <2>1. /\ j.path = p /\ j.reset => j.start = 0
          /\ ~j.reset => /\ snap[c][p] # None /\ snap[c][p].inode = j.stat.inode
                         /\ snap[c][p].offset = j.start
          /\ j.start <= Len(Content(file[p])) => JobCounted(Content(file[p]), j)
          /\ j.path = p
      BY <1>4, VisitCounted DEF Visit
    <2>2. /\ job'[c] = j /\ pc'[c] = "open" /\ todo'[c] = todo[c] \ {p} /\ p \in todo[c]
          /\ UNCHANGED <<fileVars, db, disk, snap>>
      BY <1>4 DEF Visit, NextPath, TypeOK
    <2>3. j.stat.inode = file[p] => j.start <= Len(Content(file[p]))
      BY <1>4, <2>1, VisitCovered DEF Visit, JobCovered, ReadCovered, Covered
    <2> HIDE DEF j
    <2>4. \A q \in Paths : q \in todo'[c] \/ Reading(c, q)' => snap'[c][q] = db'.marks[q]
      BY <1>1, <2>1, <2>2 DEF Reading
    <2>5. JobResumes(c, job[c])'
      BY <2>1, <2>2 DEF JobResumes
    <2>6. job'[c].stat.inode = file[job'[c].path] =>
            JobCounted(Content(file[job'[c].path]), job'[c])
      BY <2>1, <2>2, <2>3
    <2> QED
      BY <1>1, <2>2, <2>4, <2>5, <2>6, CountStep
  <1>5. CASE Open(c)
    <2>1. /\ job[c] \in Job /\ job'[c] = [job[c] EXCEPT !.fd = file[job[c].path]]
          /\ pc[c] = "open" /\ UNCHANGED <<fileVars, db, disk, snap, todo>>
      BY <1>5 DEF Open, TypeOK
    <2>2. /\ job'[c].path = job[c].path /\ job'[c].stat = job[c].stat
          /\ job'[c].start = job[c].start /\ job'[c].reset = job[c].reset
          /\ job'[c].pos = job[c].pos /\ job'[c].off = job[c].off /\ job'[c].n = job[c].n
      BY <2>1 DEF Job
    <2>3. JobResumes(c, job[c])'
      BY <2>1, <2>2 DEF CountInv, JobResumes
    <2>4. job'[c].stat.inode = file[job'[c].path] =>
            JobCounted(Content(file[job'[c].path]), job'[c])
      BY <2>1, <2>2 DEF CountInv, JobCounted
    <2>5. \A q \in Paths : q \in todo'[c] \/ Reading(c, q)' => snap'[c][q] = db'.marks[q]
      BY <1>1, <2>1, <2>2 DEF Reading
    <2> QED
      BY <1>1, <2>1, <2>3, <2>4, <2>5, CountStep
  <1>6. CASE ReadLine(c)
    <2> DEFINE j == job[c]
               lines == Content(j.fd)
               y == Yield(j, lines[j.pos + 1])
    <2>1. /\ j \in Job /\ job'[c] = y /\ pc[c] = "read" /\ j.fd \in Inodes
          /\ UNCHANGED <<fileVars, db, disk, snap, todo>>
      BY <1>6 DEF ReadLine, TypeOK
    <2>2. /\ y.path = j.path /\ y.stat = j.stat /\ y.start = j.start /\ y.reset = j.reset
      BY <2>1 DEF Yield, Job
    <2>3. lines \in Seq(Lines) /\ j.pos < Len(lines)
      <3>1. lines \in Seq(Lines) /\ j.pos \in Nat
        BY <2>1 DEF TypeOK, Inode, Content, Job
      <3> QED
        BY <1>6, <3>1, LenProperties DEF ReadLine, AtEnd
    <2>4. ASSUME y.stat.inode = file[y.path] PROVE JobCounted(Content(file[y.path]), y)
      <3>1. Content(file[y.path]) = lines
        BY <2>1, <2>2, <2>4 DEF LossInv, JobsCovered
      <3>2. JobCounted(lines, j)
        BY <2>1, <2>2, <2>4, <3>1 DEF CountInv
      <3> QED
        BY <2>1, <2>3, <3>1, <3>2, YieldCounted
    <2> HIDE DEF y
    <2>5. JobResumes(c, job[c])'
      BY <2>1, <2>2 DEF CountInv, JobResumes
    <2>6. \A q \in Paths : q \in todo'[c] \/ Reading(c, q)' => snap'[c][q] = db'.marks[q]
      BY <1>1, <2>1, <2>2 DEF Reading
    <2> QED
      BY <1>1, <2>1, <2>4, <2>5, <2>6, CountStep
  <1>7. CASE EndOfFile(c)
    <2>1. /\ job[c] \in Job /\ job'[c] = [job[c] EXCEPT !.fd = None]
          /\ pc[c] = "read" /\ UNCHANGED <<fileVars, db, disk, snap, todo>>
      BY <1>7 DEF EndOfFile, TypeOK
    <2>2. /\ job'[c].path = job[c].path /\ job'[c].stat = job[c].stat
          /\ job'[c].start = job[c].start /\ job'[c].reset = job[c].reset
          /\ job'[c].pos = job[c].pos /\ job'[c].off = job[c].off /\ job'[c].n = job[c].n
      BY <2>1 DEF Job
    <2>3. JobResumes(c, job[c])'
      BY <2>1, <2>2 DEF CountInv, JobResumes
    <2>4. job'[c].stat.inode = file[job'[c].path] =>
            JobCounted(Content(file[job'[c].path]), job'[c])
      BY <2>1, <2>2 DEF CountInv, JobCounted
    <2>5. \A q \in Paths : q \in todo'[c] \/ Reading(c, q)' => snap'[c][q] = db'.marks[q]
      BY <1>1, <2>1, <2>2 DEF Reading
    <2> QED
      BY <1>1, <2>1, <2>3, <2>4, <2>5, CountStep
  <1>8. CASE Commit(c) \/ OpenFails(c)
    <2> DEFINE j == job[c]
    <2>1. /\ j \in Job /\ j.path \in Paths /\ pc[c] \in {"open", "read", "end"}
          /\ pc'[c] = "scan" /\ UNCHANGED <<fileVars, disk, snap, todo>>
      BY <1>8 DEF Commit, OpenFails, NextFile, TypeOK, Job
    <2>2. db.marks \in Marks
      BY DEF TypeOK, Db
    <2>3. MarksCounted(db'.marks)
      <3>1. CASE Commit(c)
        BY <3>1, IngestedCounted DEF Commit
      <3>2. CASE OpenFails(c)
        <4>1. db'.marks = SetMark(db.marks, j.path, j.stat, j.start, 0, FALSE)
          BY <3>2 DEF OpenFails, Unread, TypeOK, Db
        <4>2. j.stat.inode # file[j.path]
          BY <2>1, <3>2, NoneAssumption DEF OpenFails, Job, Stat
        <4>3. \A p \in Paths \ {j.path} : db'.marks[p] = db.marks[p]
          BY <2>2, <4>1 DEF SetMark, Marks
        <4>4. db'.marks[j.path].inode = j.stat.inode
          BY <2>1, <2>2, <4>1 DEF SetMark, SavedMark, Marks
        <4> QED
          BY <1>1, <4>2, <4>3, <4>4 DEF MarksCounted
      <3> QED
        BY <1>8, <3>1, <3>2
    <2>4. \A p \in Paths \ {j.path} : db'.marks[p] = db.marks[p]
      <3>1. \/ db'.marks = SetMark(db.marks, j.path, j.stat, j.off, j.n, j.reset)
            \/ db'.marks = SetMark(db.marks, j.path, j.stat, j.start, 0, FALSE)
        BY <1>8 DEF Commit, OpenFails, Ingested, Unread, TypeOK, Db
      <3> QED
        BY <2>2, <3>1 DEF SetMark, Marks
    <2>5. j.path \notin todo[c]
      BY <2>1 DEF CountInv, JobResumes
    <2>6. \A q \in Paths : q \in todo'[c] \/ Reading(c, q)' => snap'[c][q] = db'.marks[q]
      BY <1>1, <2>1, <2>4, <2>5 DEF Reading
    <2> QED
      BY <2>1, <2>3, <2>6, CountStep
  <1>9. CASE ParseRaises(c) \/ FinishRun(c)
    <2>1. db'.marks = db.marks /\ Forget(c) /\ UNCHANGED <<fileVars, disk>>
      BY <1>9 DEF ParseRaises, FinishRun, TypeOK, Db
    <2>2. pc'[c] = "idle" /\ todo'[c] = {}
      BY <2>1 DEF Forget, TypeOK
    <2> QED
      BY <1>1, <2>1, <2>2, CountStep DEF Reading
  <1> QED
    BY <1>2, <1>3, <1>4, <1>5, <1>6, <1>7, <1>8, <1>9 DEF Collect

LEMMA CountFault ==
  ASSUME TypeOK, CountInv, \A d, e \in Collectors : d = e, faults'.io = 0, Fault
  PROVE  CountInv'
  <1>1. CASE Sync
    BY <1>1 DEF Sync, CountInv, MarksCounted, SnapIsStored, Reading, JobResumes, Content,
       fileVars, runVars
  <1>2. CASE PowerLoss
    <2>1. MarksCounted(db.marks)' /\ MarksCounted(disk.marks)'
      BY <1>2 DEF PowerLoss, CountInv, MarksCounted, Content, fileVars
    <2>2. \A c \in Collectors : pc'[c] = "idle" /\ todo'[c] = {}
      BY <1>2 DEF PowerLoss
    <2> QED
      BY <2>1, <2>2 DEF CountInv, SnapIsStored, Reading
  <1>3. ASSUME NEW c \in Collectors, Crash(c) PROVE CountInv'
    <2>1. pc'[c] = "idle" /\ todo'[c] = {} /\ UNCHANGED <<fileVars, db, disk>>
      BY <1>3 DEF Crash, Forget, TypeOK
    <2> QED
      BY <2>1, CountStep DEF CountInv, Reading
  <1>4. ASSUME NEW c \in Collectors, ReadFails(c) PROVE CountInv'
    <2>1. faults'.io = faults.io + 1 /\ faults.io \in Nat
      BY <1>4 DEF ReadFails, TypeOK
    <2> QED
      BY <2>1
  <1> QED
    BY <1>1, <1>2, <1>3, <1>4 DEF Fault

\* Once a read has failed, one has failed.
LEMMA FailuresStay ==
  ASSUME TypeOK, [Next]_vars, faults'.io = 0
  PROVE  faults.io = 0
  <1>1. faults.io \in Nat /\ faults \in [crash : Nat, power : Nat, io : Nat]
    BY DEF TypeOK
  <1>2. CASE UNCHANGED faults
    BY <1>2
  <1>3. CASE PowerLoss
    BY <1>1, <1>3 DEF PowerLoss
  <1>4. ASSUME NEW c \in Collectors, Crash(c) PROVE faults.io = 0
    BY <1>1, <1>4 DEF Crash
  <1>5. ASSUME NEW c \in Collectors, ReadFails(c) PROVE faults.io = 0
    BY <1>1, <1>5 DEF ReadFails
  <1>6. Agent \/ Sync \/ (\E c \in Collectors : Collect(c)) => UNCHANGED faults
    BY DEF Agent, CreateFile, WriteLine, StartLine, RemoveFile, Sync, Collect, StartRun, Vanished,
       Skip, Visit, Open, OpenFails, ReadLine, EndOfFile, Commit, ParseRaises, FinishRun
  <1> QED
    BY <1>2, <1>3, <1>4, <1>5, <1>6 DEF Next, Fault, vars

LEMMA CountNext ==
  ASSUME ~Reuse, \A d, e \in Collectors : d = e
  PROVE  TypeOK /\ LossInv /\ (faults.io = 0 => CountInv) /\ [Next]_vars
           => (faults.io = 0 => CountInv)'
  <1> SUFFICES ASSUME TypeOK, LossInv, faults.io = 0 => CountInv, [Next]_vars, faults'.io = 0
               PROVE  CountInv'
    OBVIOUS
  <1>1. TypeOK' /\ CountInv
    BY TypeNext, FailuresStay
  <1>2. CASE UNCHANGED vars
    <2>1. UNCHANGED <<file, ino, db, disk, pc, todo, snap, job>>
      BY <1>2 DEF vars, fileVars, runVars
    <2> QED
      BY <1>1, <2>1 DEF CountInv, MarksCounted, SnapIsStored, Reading, JobResumes, Content
  <1> QED
    BY <1>1, <1>2, CountAgent, CountCollect, CountFault DEF Next

\* lines_ingested counts every line of the present file once (watermarks.py:188-189),
\* whatever was rotated, re-read, killed or lost to a power failure, as long as runs
\* do not overlap and no read has failed: a failed read of a replaced file keeps the
\* count of the old one, and of two overlapping runs the second adds to the first.
THEOREM EachLineCountedOnce ==
  ASSUME ~Reuse, \A c, d \in Collectors : c = d
  PROVE  Spec => [](faults.io = 0 => LinesCountedOnce)
  <1>1. Init => CountInv
    BY DEF Init, CountInv, MarksCounted, SnapIsStored, Reading, NoMarks, EmptyDb
  <1>2. CountInv => LinesCountedOnce
    BY DEF CountInv, MarksCounted, LinesCountedOnce
  <1>3. TypeOK /\ LossInv /\ (faults.io = 0 => CountInv) /\ [Next]_vars
          => (faults.io = 0 => CountInv)'
    BY CountNext
  <1>4. Init /\ [][Next]_vars /\ []TypeOK /\ []LossInv => [](faults.io = 0 => CountInv)
    BY <1>1, <1>3, PTL
  <1> QED
    BY <1>2, <1>4, TypeCorrect, LossAlways, PTL DEF Spec

-------------------------------------------------------------------------------
\* Without inode reuse a file that is read on from its stored offset has nothing
\* before the offset that is not stored (watermarks.py:9-13): the reuse of an inode
\* is all that the counterexample of the run inode_reuse rests on.
THEOREM OffsetsAreMeaningful == ASSUME ~Reuse PROVE Spec => []OffsetIsMeaningful
  <1>1. ASSUME TypeOK, LossInv PROVE OffsetIsMeaningful
    <2> SUFFICES ASSUME NEW p \in Paths, file[p] # None,
                        Decide(db.marks[p], StatOf(file[p])) = "appended"
                 PROVE  StoredUpTo(db.rows, Content(file[p]), db.marks[p].offset)
      BY DEF OffsetIsMeaningful
    <2>1. StatOf(file[p]).inode = file[p]
      BY <1>1, StatOfType DEF TypeOK
    <2>2. db.marks[p] # None /\ db.marks[p].inode = file[p]
      BY <2>1 DEF Decide
    <2> QED
      BY <1>1, <2>2 DEF LossInv, MarksCovered, MarkCovered, Covered
  <1> QED
    BY <1>1, TypeCorrect, LossAlways, PTL
===============================================================================
