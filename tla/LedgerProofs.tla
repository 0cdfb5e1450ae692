------------------------------ MODULE LedgerProofs ------------------------------
(***************************************************************************)
(* The collector implements the Ledger: for any paths, inodes, keys,       *)
(* collectors and bounds, as long as inodes are not reused, no step of     *)
(* agents, runs, crashes or power failures drops, invents or re-attributes *)
(* a message on disk.                                                      *)
(***************************************************************************)
EXTENDS CollectorProofs

--------------------------------------------------------------------------------
\* What the agents do to the lines the transcripts have held.

LEMMA HoldsAppended ==
  ASSUME NEW s \in Seq(Lines), NEW l \in Lines, NEW k
  PROVE  (\E x \in 1..Len(Append(s, l)) : Append(s, l)[x] = k)
           <=> (\E x \in 1..Len(s) : s[x] = k) \/ k = l
  <1>1. Len(s) \in Nat
    BY LenProperties
  <1>2. /\ Len(Append(s, l)) = Len(s) + 1
        /\ Append(s, l)[Len(s) + 1] = l
        /\ \A x \in 1..Len(s) : Append(s, l)[x] = s[x]
    BY AppendProperties
  <1>3. 1..Len(Append(s, l)) = 1..Len(s) \cup {Len(s) + 1}
    BY <1>1, <1>2
  <1> QED
    BY <1>2, <1>3

\* A step of the agents leaves what was held, or adds one message to it; the file
\* a path names is one created there.
LEMMA AgentWrites ==
  ASSUME TypeOK, ~Reuse, FilesBorn, HomesKnown, Agent
  PROVE  /\ Written' = Written \/ \E p \in Paths, k \in Keys : Written' = Written \cup {<<p, k>>}
         /\ FilesBorn' /\ HomesKnown'
         /\ born \subseteq born'
         /\ \A i \in born : ino'[i].home = ino[i].home
         /\ UNCHANGED <<db, disk, pc, job>>
  <1> PICK p \in Paths : \/ \E i \in Inodes : CreateFile(p, i)
                         \/ \E l \in Lines : WriteLine(p, l)
                         \/ StartLine(p)
                         \/ RemoveFile(p)
    BY DEF Agent
  <1>1. ASSUME NEW i \in Inodes, CreateFile(p, i)
        PROVE  /\ Written' = Written /\ FilesBorn' /\ HomesKnown' /\ born \subseteq born'
               /\ \A j \in born : ino'[j].home = ino[j].home
               /\ UNCHANGED <<db, disk, pc, job>>
    <2>1. /\ i \notin born /\ born' = born \cup {i}
          /\ file' = [file EXCEPT ![p] = i]
          /\ UNCHANGED <<db, disk, pc, job>>
      BY <1>1 DEF CreateFile, FreeInodes, runVars
    <2>2. /\ ino'[i].home = p /\ ino'[i].lines = <<>>
          /\ \A j \in Inodes \ {i} : ino'[j] = ino[j]
      BY <1>1 DEF CreateFile, Touch, TypeOK
    <2>3. \A j \in born : ino'[j] = ino[j]
      BY <2>1, <2>2 DEF TypeOK
    <2>4. \A k \in Keys : ~Holds(i, k)'
      BY <2>2 DEF Holds, Content
    <2>5. \A j \in born, k \in Keys : Holds(j, k)' <=> Holds(j, k)
      BY <2>3 DEF Holds, Content
    <2>6. Written' = Written
      BY <2>1, <2>3, <2>4, <2>5 DEF Written
    <2>7. FilesBorn' /\ HomesKnown'
      BY <2>1, <2>2, <2>3 DEF FilesBorn, HomesKnown, TypeOK
    <2> QED
      BY <2>1, <2>3, <2>6, <2>7
  <1>2. ASSUME NEW lines \in Seq(Lines), NEW partial \in BOOLEAN, file[p] # None,
               Touch(file[p], p, lines, partial), UNCHANGED <<file, born>>
        PROVE  /\ FilesBorn' /\ HomesKnown'
               /\ \A j \in born : ino'[j].home = ino[j].home
               /\ file[p] \in born /\ ino[file[p]].home = p
               /\ ino'[file[p]].lines = lines
               /\ \A j \in born \ {file[p]} : ino'[j] = ino[j]
    <2>1. file[p] \in born /\ file[p] \in Inodes /\ ino[file[p]].home = p
      BY <1>2 DEF FilesBorn, HomesKnown, TypeOK
    <2>2. /\ ino'[file[p]].home = p /\ ino'[file[p]].lines = lines
          /\ \A j \in Inodes \ {file[p]} : ino'[j] = ino[j]
      BY <1>2, <2>1 DEF Touch, TypeOK
    <2>3. \A j \in born : ino'[j].home = ino[j].home
      BY <2>1, <2>2 DEF TypeOK
    <2>4. FilesBorn' /\ HomesKnown'
      BY <1>2, <2>3 DEF FilesBorn, HomesKnown
    <2> QED
      BY <2>1, <2>2, <2>3, <2>4 DEF TypeOK
  <1>3. ASSUME NEW l \in Lines, WriteLine(p, l)
        PROVE  /\ Written' = Written \/ \E k \in Keys : Written' = Written \cup {<<p, k>>}
               /\ FilesBorn' /\ HomesKnown' /\ born' = born
               /\ \A j \in born : ino'[j].home = ino[j].home
               /\ UNCHANGED <<db, disk, pc, job>>
    <2> PICK f \in Inodes : f = file[p]
      BY <1>3 DEF WriteLine, TypeOK
    <2>1. f # None /\ f = file[p] /\ ino[f].lines \in Seq(Lines)
      BY <1>3 DEF WriteLine, TypeOK, Inode
    <2>2. Append(ino[f].lines, l) \in Seq(Lines)
      BY <2>1, AppendProperties
    <2>3. /\ Touch(f, p, Append(ino[f].lines, l), FALSE)
          /\ UNCHANGED <<file, born, db, disk, pc, job>>
      BY <1>3 DEF WriteLine, Content, runVars
    <2>4. /\ FilesBorn' /\ HomesKnown'
          /\ \A j \in born : ino'[j].home = ino[j].home
          /\ f \in born /\ ino[f].home = p
          /\ ino'[f].lines = Append(ino[f].lines, l)
          /\ \A j \in born \ {f} : ino'[j] = ino[j]
      BY <1>2, <2>1, <2>2, <2>3
    <2>5. \A k \in Keys : Holds(f, k)' <=> Holds(f, k) \/ k = l
      <3> SUFFICES ASSUME NEW k \in Keys PROVE Holds(f, k)' <=> Holds(f, k) \/ k = l
        OBVIOUS
      <3>1. (\E x \in 1..Len(Append(ino[f].lines, l)) : Append(ino[f].lines, l)[x] = k)
              <=> (\E x \in 1..Len(ino[f].lines) : ino[f].lines[x] = k) \/ k = l
        BY <2>1, HoldsAppended
      <3>2. (\E x \in 1..Len(ino'[f].lines) : ino'[f].lines[x] = k)
              <=> (\E x \in 1..Len(ino[f].lines) : ino[f].lines[x] = k) \/ k = l
        BY <2>4, <3>1
      <3> QED
        BY <2>3, <3>2 DEF Holds, Content
    <2>6. \A j \in born \ {f}, k \in Keys : Holds(j, k)' <=> Holds(j, k)
      BY <2>4 DEF Holds, Content
    <2>7. \A w \in Paths \X Keys : w \in Written' <=> w \in Written \/ w = <<p, l>>
      <3> SUFFICES ASSUME NEW q \in Paths, NEW k \in Keys
                   PROVE  <<q, k>> \in Written' <=> <<q, k>> \in Written \/ <<q, k>> = <<p, l>>
        OBVIOUS
      <3>1. <<q, k>> \in Written <=> \E i \in born : ino[i].home = q /\ Holds(i, k)
        BY DEF Written
      <3>2. <<q, k>> \in Written' <=> \E i \in born : ino[i].home = q /\ Holds(i, k)'
        BY <2>3, <2>4 DEF Written
      <3>3. \A i \in born : Holds(i, k)' <=> Holds(i, k) \/ (i = f /\ k = l)
        BY <2>4, <2>5, <2>6
      <3>4. (\E i \in born : ino[i].home = q /\ Holds(i, k)')
              <=> (\E i \in born : ino[i].home = q /\ Holds(i, k)) \/ (q = p /\ k = l)
        <4>1. ASSUME NEW i \in born, ino[i].home = q, Holds(i, k)'
              PROVE  (\E j \in born : ino[j].home = q /\ Holds(j, k)) \/ (q = p /\ k = l)
          BY <2>4, <3>3, <4>1
        <4>2. ASSUME NEW i \in born, ino[i].home = q, Holds(i, k)
              PROVE  \E j \in born : ino[j].home = q /\ Holds(j, k)'
          BY <3>3, <4>2
        <4>3. ASSUME q = p, k = l
              PROVE  \E j \in born : ino[j].home = q /\ Holds(j, k)'
          BY <2>4, <3>3, <4>3
        <4> QED
          BY <4>1, <4>2, <4>3
      <3> QED
        BY <3>1, <3>2, <3>4
    <2>8. Written \subseteq Paths \X Keys /\ Written' \subseteq Paths \X Keys
      BY DEF Written
    <2>9. Written' = Written \/ \E k \in Keys : Written' = Written \cup {<<p, k>>}
      <3>1. CASE l \in Keys
        <4>1. Written' = Written \cup {<<p, l>>}
          BY <2>7, <2>8, <3>1
        <4> QED
          BY <3>1, <4>1
      <3>2. CASE l \notin Keys
        BY <2>7, <2>8, <3>2
      <3> QED
        BY <3>1, <3>2
    <2> QED
      BY <2>3, <2>4, <2>9
  <1>4. ASSUME StartLine(p)
        PROVE  /\ Written' = Written /\ FilesBorn' /\ HomesKnown' /\ born' = born
               /\ \A j \in born : ino'[j].home = ino[j].home
               /\ UNCHANGED <<db, disk, pc, job>>
    <2>1. /\ file[p] # None /\ ino[file[p]].lines \in Seq(Lines)
          /\ Touch(file[p], p, ino[file[p]].lines, TRUE)
          /\ UNCHANGED <<file, born, db, disk, pc, job>>
      BY <1>4 DEF StartLine, TypeOK, Inode, Content, runVars
    <2>2. /\ FilesBorn' /\ HomesKnown'
          /\ \A j \in born : ino'[j].home = ino[j].home
          /\ ino'[file[p]].lines = ino[file[p]].lines
          /\ \A j \in born \ {file[p]} : ino'[j] = ino[j]
      BY <1>2, <2>1
    <2>3. \A j \in born, k \in Keys : Holds(j, k)' <=> Holds(j, k)
      BY <2>2 DEF Holds, Content
    <2>4. Written' = Written
      BY <2>1, <2>2, <2>3 DEF Written
    <2> QED
      BY <2>1, <2>2, <2>4
  <1>5. ASSUME RemoveFile(p)
        PROVE  /\ Written' = Written /\ FilesBorn' /\ HomesKnown' /\ born' = born
               /\ \A j \in born : ino'[j].home = ino[j].home
               /\ UNCHANGED <<db, disk, pc, job>>
    <2>1. UNCHANGED <<ino, born, db, disk, pc, job>> /\ file' = [file EXCEPT ![p] = None]
      BY <1>5 DEF RemoveFile, runVars
    <2>2. FilesBorn' /\ HomesKnown'
      BY <2>1 DEF FilesBorn, HomesKnown, TypeOK
    <2>3. Written' = Written
      BY <2>1 DEF Written, Holds, Content
    <2> QED
      BY <2>1, <2>2, <2>3
  <1> QED
    BY <1>1, <1>3, <1>4, <1>5

--------------------------------------------------------------------------------
\* The invariant.

LEMMA SameFiles ==
  ASSUME UNCHANGED fileVars
  PROVE  Written' = Written
  BY DEF Written, Holds, Content, fileVars

LEMMA LedgerInit == Init => LedgerInv
  BY DEF Init, LedgerInv, FilesBorn, HomesKnown, ReadsAttributed, EmptyDb

\* A step of one collector is about its own job.
LEMMA OneRead ==
  ASSUME ReadsAttributed, UNCHANGED fileVars, NEW c \in Collectors,
         \A d \in Collectors \ {c} : pc'[d] = pc[d] /\ job'[d] = job[d],
         pc'[c] = "open" => job'[c].got = {},
         pc'[c] = "read" =>
           job'[c].fd \in born /\ ino[job'[c].fd].home = job'[c].path,
         pc'[c] \in {"read", "end"} =>
           \A k \in job'[c].got \cap Keys : <<job'[c].path, k>> \in Written
  PROVE  ReadsAttributed'
  <1>1. Written' = Written /\ born' = born /\ ino' = ino
    BY SameFiles DEF fileVars
  <1> SUFFICES ASSUME NEW d \in Collectors
               PROVE  /\ pc'[d] = "open" => job'[d].got = {}
                      /\ pc'[d] = "read" =>
                           job'[d].fd \in born /\ ino[job'[d].fd].home = job'[d].path
                      /\ pc'[d] \in {"read", "end"} =>
                           \A k \in job'[d].got \cap Keys : <<job'[d].path, k>> \in Written
    BY <1>1 DEF ReadsAttributed
  <1>2. CASE d = c
    BY <1>2
  <1>3. CASE d # c
    BY <1>3 DEF ReadsAttributed
  <1> QED
    BY <1>2, <1>3

\* What an ended run or read leaves.
LEMMA NoRead ==
  ASSUME TypeOK, ReadsAttributed, UNCHANGED fileVars, NEW c \in Collectors, Forget(c) \/ NextFile(c)
  PROVE  ReadsAttributed'
  <1>1. /\ \A d \in Collectors \ {c} : pc'[d] = pc[d] /\ job'[d] = job[d]
        /\ pc'[c] \in {"idle", "scan"}
    BY DEF Forget, NextFile, TypeOK
  <1> QED
    BY <1>1, OneRead

\* The store and the disk after a step that leaves the files alone.
LEMMA StoreStep ==
  ASSUME LedgerInv, UNCHANGED fileVars, ReadsAttributed',
         \A k \in Keys : db'.rows[k] # None => <<db'.rows[k], k>> \in Written,
         \A k \in Keys : disk'.rows[k] # None => db'.rows[k] = disk'.rows[k]
  PROVE  LedgerInv'
  <1>1. Written' = Written
    BY SameFiles
  <1>2. FilesBorn' /\ HomesKnown'
    BY DEF LedgerInv, FilesBorn, HomesKnown, fileVars
  <1> QED
    BY <1>1, <1>2 DEF LedgerInv

LEMMA SameStore ==
  ASSUME LedgerInv, UNCHANGED fileVars, ReadsAttributed', db'.rows = db.rows, disk' = disk
  PROVE  LedgerInv'
  BY StoreStep DEF LedgerInv

LEMMA LedgerCollect ==
  ASSUME TypeOK, TypeOK', LedgerInv, NEW c \in Collectors, Collect(c)
  PROVE  LedgerInv' /\ UNCHANGED fileVars /\ UNCHANGED disk
  <1>0. ReadsAttributed
    BY DEF LedgerInv
  <1>1. CASE StartRun(c)
    <2>1. UNCHANGED <<fileVars, db, disk, job>> /\ pc' = [pc EXCEPT ![c] = "scan"]
      BY <1>1 DEF StartRun
    <2>2. ReadsAttributed'
      BY <1>0, <2>1, OneRead DEF TypeOK
    <2> QED
      BY <2>1, <2>2, SameStore
  <1>2. ASSUME NEW p \in Paths, Vanished(c, p) \/ Skip(c, p)
        PROVE  LedgerInv' /\ UNCHANGED fileVars /\ UNCHANGED disk
    <2>1. UNCHANGED <<fileVars, db, disk, pc, job>>
      BY <1>2 DEF Vanished, Skip
    <2>2. ReadsAttributed'
      BY <1>0, <2>1, SameFiles DEF ReadsAttributed, fileVars
    <2> QED
      BY <2>1, <2>2, SameStore
  <1>3. ASSUME NEW p \in Paths, Visit(c, p)
        PROVE  LedgerInv' /\ UNCHANGED fileVars /\ UNCHANGED disk
    <2>1. /\ UNCHANGED <<fileVars, db, disk>>
          /\ job' = [job EXCEPT ![c] = NewJob(snap[c][p], p, StatOf(file[p]))]
          /\ pc' = [pc EXCEPT ![c] = "open"]
      BY <1>3 DEF Visit
    <2>2. NewJob(snap[c][p], p, StatOf(file[p])).got = {}
      BY DEF NewJob
    <2>3. /\ \A d \in Collectors \ {c} : pc'[d] = pc[d] /\ job'[d] = job[d]
          /\ pc'[c] = "open" /\ job'[c].got = {}
      BY <2>1, <2>2 DEF TypeOK
    <2>4. ReadsAttributed'
      BY <1>0, <2>1, <2>3, OneRead
    <2> QED
      BY <2>1, <2>4, SameStore
  <1>4. CASE Open(c)
    <2>1. /\ UNCHANGED <<fileVars, db, disk>> /\ pc[c] = "open" /\ file[job[c].path] # None
          /\ job' = [job EXCEPT ![c] = [job[c] EXCEPT !.fd = file[job[c].path]]]
          /\ pc' = [pc EXCEPT ![c] = "read"]
      BY <1>4 DEF Open
    <2>2. job[c] \in Job /\ job[c].got = {}
      BY <1>0, <2>1 DEF TypeOK, ReadsAttributed
    <2>3. /\ file[job[c].path] \in born /\ ino[file[job[c].path]].home = job[c].path
      BY <2>1, <2>2 DEF LedgerInv, FilesBorn, HomesKnown, Job
    <2>4. /\ \A d \in Collectors \ {c} : pc'[d] = pc[d] /\ job'[d] = job[d]
          /\ pc'[c] = "read"
          /\ job'[c].fd = file[job[c].path] /\ job'[c].path = job[c].path /\ job'[c].got = {}
      BY <2>1, <2>2 DEF TypeOK, Job
    <2>5. ReadsAttributed'
      BY <1>0, <2>1, <2>3, <2>4, OneRead
    <2> QED
      BY <2>1, <2>5, SameStore
  <1>5. CASE ReadLine(c)
    <2> DEFINE l == Content(job[c].fd)[job[c].pos + 1]
    <2>1. /\ UNCHANGED <<fileVars, db, disk, pc>> /\ pc[c] = "read" /\ ~AtEnd(job[c])
          /\ job' = [job EXCEPT ![c] = Yield(job[c], l)]
      BY <1>5 DEF ReadLine
    <2>2. /\ job[c] \in Job /\ job[c].fd \in Inodes
          /\ job[c].fd \in born /\ ino[job[c].fd].home = job[c].path
          /\ \A k \in job[c].got \cap Keys : <<job[c].path, k>> \in Written
      BY <1>0, <2>1 DEF TypeOK, ReadsAttributed
    <2>3. /\ job[c].pos \in Nat /\ job[c].path \in Paths
          /\ Content(job[c].fd) \in Seq(Lines)
      BY <2>2 DEF TypeOK, Content, Inode, Job
    <2>4. job[c].pos + 1 \in 1..Len(Content(job[c].fd))
      BY <2>1, <2>3, LenProperties DEF AtEnd
    <2>5. l \in Keys => <<job[c].path, l>> \in Written
      BY <2>2, <2>3, <2>4 DEF Written, Holds
    <2> HIDE DEF l
    <2>6. /\ Yield(job[c], l).fd = job[c].fd /\ Yield(job[c], l).path = job[c].path
          /\ Yield(job[c], l).got \subseteq job[c].got \cup {l}
      BY <2>2 DEF Yield, Job
    <2>7. /\ \A d \in Collectors \ {c} : pc'[d] = pc[d] /\ job'[d] = job[d]
          /\ pc'[c] = "read" /\ job'[c] = Yield(job[c], l)
      BY <2>1 DEF TypeOK
    <2>8. \A k \in job'[c].got \cap Keys : <<job'[c].path, k>> \in Written
      BY <2>2, <2>5, <2>6, <2>7
    <2>9. ReadsAttributed'
      BY <1>0, <2>1, <2>2, <2>6, <2>7, <2>8, OneRead
    <2> QED
      BY <2>1, <2>9, SameStore
  <1>6. CASE EndOfFile(c)
    <2>1. /\ UNCHANGED <<fileVars, db, disk>> /\ pc[c] = "read"
          /\ job' = [job EXCEPT ![c] = [job[c] EXCEPT !.fd = None]]
          /\ pc' = [pc EXCEPT ![c] = "end"]
      BY <1>6 DEF EndOfFile
    <2>2. /\ \A d \in Collectors \ {c} : pc'[d] = pc[d] /\ job'[d] = job[d]
          /\ pc'[c] = "end" /\ job'[c].path = job[c].path /\ job'[c].got = job[c].got
      BY <2>1 DEF TypeOK, Job
    <2>3. ReadsAttributed'
      BY <1>0, <2>1, <2>2, OneRead DEF ReadsAttributed
    <2> QED
      BY <2>1, <2>3, SameStore
  <1>7. CASE Commit(c)
    <2>1. /\ UNCHANGED <<fileVars, disk>> /\ pc[c] = "end" /\ NextFile(c)
          /\ db' = Ingested(db, job[c])
      BY <1>7 DEF Commit
    <2>2. \A k \in job[c].got \cap Keys : <<job[c].path, k>> \in Written
      BY <1>0, <2>1 DEF ReadsAttributed
    <2>3. db'.rows = Insert(db.rows, job[c].got \cap Keys, job[c].path)
      BY <2>1 DEF Ingested, TypeOK, Db
    <2>4. ASSUME NEW k \in Keys
          PROVE  db'.rows[k] = IF k \in job[c].got \cap Keys /\ db.rows[k] = None
                               THEN job[c].path ELSE db.rows[k]
      BY <2>3 DEF Insert
    <2>5. \A k \in Keys : db'.rows[k] # None => <<db'.rows[k], k>> \in Written
      BY <2>2, <2>4 DEF LedgerInv
    <2>6. \A k \in Keys : disk'.rows[k] # None => db'.rows[k] = disk'.rows[k]
      BY <2>1, <2>4 DEF LedgerInv
    <2>7. ReadsAttributed'
      BY <1>0, <2>1, NoRead
    <2> QED
      BY <2>1, <2>5, <2>6, <2>7, StoreStep
  <1>8. CASE OpenFails(c)
    <2>1. UNCHANGED <<fileVars, disk>> /\ NextFile(c) /\ db' = Unread(db, job[c])
      BY <1>8 DEF OpenFails
    <2>2. db'.rows = db.rows
      BY <2>1 DEF Unread, TypeOK, Db
    <2> QED
      BY <1>0, <2>1, <2>2, NoRead, SameStore
  <1>9. CASE ParseRaises(c)
    <2>1. UNCHANGED <<fileVars, db, disk>> /\ Forget(c)
      BY <1>9 DEF ParseRaises
    <2> QED
      BY <1>0, <2>1, NoRead, SameStore
  <1>10. CASE FinishRun(c)
    <2>1. UNCHANGED <<fileVars, disk>> /\ Forget(c) /\ db'.rows = db.rows
      BY <1>10 DEF FinishRun, TypeOK, Db
    <2> QED
      BY <1>0, <2>1, NoRead, SameStore
  <1> QED
    BY <1>1, <1>2, <1>3, <1>4, <1>5, <1>6, <1>7, <1>8, <1>9, <1>10 DEF Collect

LEMMA LedgerFault ==
  ASSUME TypeOK, LedgerInv, Fault
  PROVE  LedgerInv' /\ UNCHANGED fileVars /\ (disk' = disk \/ disk' = db)
  <1>0. ReadsAttributed
    BY DEF LedgerInv
  <1>1. CASE Sync
    <2>1. UNCHANGED <<fileVars, db, pc, job>> /\ disk' = db
      BY <1>1 DEF Sync, runVars
    <2>2. ReadsAttributed'
      BY <1>0, <2>1, SameFiles DEF ReadsAttributed, fileVars
    <2> QED
      BY <2>1, <2>2, StoreStep DEF LedgerInv
  <1>2. CASE PowerLoss
    <2>1. UNCHANGED <<fileVars, disk>> /\ db' = disk /\ \A c \in Collectors : pc'[c] = "idle"
      BY <1>2 DEF PowerLoss
    <2>2. ReadsAttributed'
      BY <2>1 DEF ReadsAttributed
    <2>3. \A k \in Keys : disk.rows[k] # None => <<disk.rows[k], k>> \in Written
      BY DEF LedgerInv
    <2> QED
      BY <2>1, <2>2, <2>3, StoreStep
  <1>3. ASSUME NEW c \in Collectors, Crash(c)
        PROVE  LedgerInv' /\ UNCHANGED fileVars /\ disk' = disk
    <2>1. UNCHANGED <<fileVars, db, disk>> /\ Forget(c)
      BY <1>3 DEF Crash
    <2> QED
      BY <1>0, <2>1, NoRead, SameStore
  <1>4. ASSUME NEW c \in Collectors, ReadFails(c)
        PROVE  LedgerInv' /\ UNCHANGED fileVars /\ disk' = disk
    <2>1. UNCHANGED <<fileVars, disk>> /\ NextFile(c) /\ db' = Unread(db, job[c])
      BY <1>4 DEF ReadFails
    <2>2. db'.rows = db.rows
      BY <2>1 DEF Unread, TypeOK, Db
    <2> QED
      BY <1>0, <2>1, <2>2, NoRead, SameStore
  <1> QED
    BY <1>1, <1>2, <1>3, <1>4 DEF Fault

\* The agents' steps: what is attributed stays so, since what was held stays held.
LEMMA LedgerAgent ==
  ASSUME TypeOK, ~Reuse, LedgerInv, Agent
  PROVE  LedgerInv'
  <1>1. /\ Written \subseteq Written'
        /\ FilesBorn' /\ HomesKnown'
        /\ born \subseteq born'
        /\ \A i \in born : ino'[i].home = ino[i].home
        /\ UNCHANGED <<db, disk, pc, job>>
    BY AgentWrites DEF LedgerInv
  <1>2. ReadsAttributed'
    BY <1>1 DEF LedgerInv, ReadsAttributed
  <1> QED
    BY <1>1, <1>2 DEF LedgerInv

--------------------------------------------------------------------------------
\* The refinement.

\* Each step is one of the ledger, or none.
LEMMA LedgerNext ==
  ASSUME TypeOK, TypeOK', ~Reuse, LedgerInv, [Next]_vars
  PROVE  LedgerInv' /\ [DurableLedger!Next]_<<Written, disk.rows>>
  <1>1. CASE Agent
    <2>1. disk' = disk
      BY <1>1, AgentWrites DEF LedgerInv
    <2>2. Written \subseteq Written' /\ Written' \subseteq Paths \X Keys
      BY <1>1, AgentWrites DEF LedgerInv, Written
    <2> QED
      BY <1>1, <2>1, <2>2, LedgerAgent DEF DurableLedger!Next, DurableLedger!Write
  <1>2. ASSUME NEW c \in Collectors, Collect(c)
        PROVE  LedgerInv' /\ UNCHANGED <<Written, disk.rows>>
    BY <1>2, LedgerCollect, SameFiles
  <1>3. CASE Fault
    <2>1. LedgerInv' /\ UNCHANGED fileVars /\ (disk' = disk \/ disk' = db)
      BY <1>3, LedgerFault
    <2>2. Written' = Written
      BY <2>1, SameFiles
    <2>3. CASE disk' = db
      <3>1. disk'.rows \in [Keys -> Paths \cup {None}]
        BY <2>3 DEF TypeOK, Db
      <3>2. ASSUME NEW k \in Keys
            PROVE  \/ disk'.rows[k] = disk.rows[k]
                   \/ disk.rows[k] = None /\ disk'.rows[k] \in DurableLedger!Attributions(k)
        <4>1. CASE disk.rows[k] # None
          BY <2>3, <4>1 DEF LedgerInv
        <4>2. CASE disk.rows[k] = None /\ db.rows[k] # None
          <5>1. <<db.rows[k], k>> \in Written /\ db.rows[k] \in Paths
            BY <4>2 DEF LedgerInv, TypeOK, Db
          <5> QED
            BY <2>3, <4>2, <5>1 DEF DurableLedger!Attributions
        <4>3. CASE disk.rows[k] = None /\ db.rows[k] = None
          BY <2>3, <4>3
        <4> QED
          BY <4>1, <4>2, <4>3
      <3> QED
        BY <2>1, <2>2, <3>1, <3>2 DEF DurableLedger!Next, DurableLedger!Record
    <2> QED
      BY <2>1, <2>2, <2>3
  <1>4. CASE UNCHANGED vars
    <2>1. UNCHANGED <<fileVars, db, disk, pc, job>>
      BY <1>4 DEF vars, runVars
    <2>2. ReadsAttributed'
      BY <2>1, SameFiles DEF LedgerInv, ReadsAttributed, fileVars
    <2> QED
      BY <2>1, <2>2, SameStore, SameFiles
  <1> QED
    BY <1>1, <1>2, <1>3, <1>4 DEF Next

\* "First write wins" (docs/adr/0005), for the store as a power failure would leave
\* it: agents, overlapping runs, crashes and failing reads together only ever write
\* messages and record written ones, each for the transcript that has it.
THEOREM LedgerImplemented == ASSUME ~Reuse PROVE Spec => ImplementsLedger
  <1>1. Init => DurableLedger!Init
    BY DEF Init, DurableLedger!Init, Written, EmptyDb
  <1>2. Init /\ [][Next]_vars /\ []TypeOK => []LedgerInv
    BY LedgerInit, LedgerNext, PTL
  <1>3. Init /\ [][Next]_vars /\ []TypeOK /\ []LedgerInv =>
          [][DurableLedger!Next]_<<Written, disk.rows>>
    BY LedgerNext, PTL
  <1> QED
    BY <1>1, <1>2, <1>3, TypeCorrect, PTL DEF Spec, ImplementsLedger, DurableLedger!Spec
================================================================================
