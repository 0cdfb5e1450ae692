------------------------------ MODULE ClaudeProofs ------------------------------
(***************************************************************************)
(* Theorems about ClaudeTranscripts and SubagentRuns for every set of      *)
(* transcripts, responses and tools and every bound: their types; that a   *)
(* response is billed once; that messages are a ledger of what the         *)
(* transcripts hold, each for the session it was first stored for; and     *)
(* that the rows of a tool call and of a subagent are those of one pass    *)
(* over the stored lines, whatever reads and batches they came in.         *)
(***************************************************************************)
EXTENDS SubagentRuns, ToolCallProofs, SequenceTheorems

--------------------------------------------------------------------------------
\* What the lines and the rows of tool calls are.

LEMMA LineTypes ==
  ASSUME NEW ts \in Nat
  PROVE  /\ \A r \in Responses \cup {None}, q \in BOOLEAN, u \in Tools \cup {None} :
              Block(r, q, u, ts) \in Line
         /\ \A u \in Tools, e \in BOOLEAN : Result(u, e, ts) \in Line
  BY DEF Block, Result, Line

LEMMA LineFields ==
  ASSUME NEW l \in Line
  PROVE  /\ l.ts \in Nat
         /\ IsBlock(l)  => /\ l.msg \in Responses \cup {None} /\ l.req \in BOOLEAN
                           /\ l.tool \in Tools \cup {None}
         /\ ~IsBlock(l) => l.tool \in Tools /\ l.err \in BOOLEAN
  BY DEF Line, IsBlock

LEMMA AssistantLineType ==
  ASSUME NEW r \in Read, NEW l \in Line, IsBlock(l)
  PROVE  AssistantLine(r, l) \in Read
  <1>1. WithCalls(r, l) \in Calls
    <2>1. CASE l.tool = None
      BY <2>1 DEF WithCalls, Read
    <2>2. CASE l.tool # None
      <3>1. <<r.t, l.tool>> \in Transcripts \X Tools /\ r.calls \in Calls
        BY <2>2, LineFields DEF Read
      <3>2. CallRow(l.ts) \in Row
        BY LineFields, HalfRows
      <3> QED
        BY <2>2, <3>1, <3>2, UpsertedCalls DEF WithCalls, Calls
    <2> QED
      BY <2>1, <2>2
  <1>2. r.pos + 1 \in Nat
    BY DEF Read
  <1>3. CASE Collapsed(r, l)
    BY <1>1, <1>2, <1>3 DEF AssistantLine, Read
  <1>4. CASE ~Collapsed(r, l)
    <2>1. l.msg \in Responses /\ l.req \in BOOLEAN
      BY <1>4, LineFields DEF Collapsed
    <2>2. InsertFirst(r.msgs, MessageKey(l), r.t) \in Msgs
      BY <2>1 DEF InsertFirst, MessageKey, Msgs, Read
    <2>3. r.seen \cup {l.msg} \in SUBSET Responses
      BY <2>1 DEF Read
    <2> QED
      BY <1>1, <1>2, <1>4, <2>2, <2>3 DEF AssistantLine, Read
  <1> QED
    BY <1>3, <1>4

LEMMA UserLineType ==
  ASSUME NEW r \in Read, NEW l \in Line, ~IsBlock(l)
  PROVE  UserLine(r, l) \in Read
  <1>1. <<r.t, l.tool>> \in Transcripts \X Tools /\ r.calls \in Calls /\ r.pos + 1 \in Nat
    BY LineFields DEF Read
  <1>2. ResultRow(l.ts, l.err) \in Row
    BY LineFields, HalfRows
  <1>3. UpsertCall(r.calls, <<r.t, l.tool>>, ResultRow(l.ts, l.err)) \in Calls
    BY <1>1, <1>2, UpsertedCalls DEF Calls
  <1> QED
    BY <1>1, <1>3 DEF UserLine, Read

--------------------------------------------------------------------------------
\* Types.

LEMMA InitType == Init => TypeOK
  BY ClaudeAssumption DEF Init, TypeOK, Msgs, Calls

\* An agent's line is one of those the readers know.
LEMMA WrittenType ==
  ASSUME TypeOK, NEW t \in Transcripts, NEW l \in Line, Written(t, l)
  PROVE  TypeOK'
  <1>1. lines[t] \in Seq(Line)
    BY DEF TypeOK
  <1>2. Append(lines[t], l) \in Seq(Line)
    BY <1>1, AppendProperties
  <1> QED
    BY <1>2 DEF Written, TypeOK

LEMMA AgentType ==
  ASSUME TypeOK, NEW t \in Transcripts,
         \/ \E r \in Responses \cup {None}, q \in BOOLEAN, u \in Tools \cup {None} :
              WriteBlock(t, r, q, u)
         \/ \E u \in Tools, e \in BOOLEAN : WriteResult(t, u, e)
  PROVE  \E l \in Line : Written(t, l)
  <1>1. now + 1 \in Nat
    BY DEF TypeOK
  <1> QED
    BY <1>1, LineTypes DEF WriteBlock, WriteResult

LEMMA StepType ==
  ASSUME TypeOK, [Next]_vars
  PROVE  TypeOK'
  <1>1. ASSUME NEW t \in Transcripts,
               \/ \E r \in Responses \cup {None}, q \in BOOLEAN, u \in Tools \cup {None} :
                    WriteBlock(t, r, q, u)
               \/ \E u \in Tools, e \in BOOLEAN : WriteResult(t, u, e)
        PROVE  TypeOK'
    BY <1>1, AgentType, WrittenType
  <1>2. ASSUME NEW t \in Transcripts, NEW s \in Transcripts, Resume(s, t)
        PROVE  TypeOK'
    BY <1>2 DEF Resume, TypeOK
  <1>3. ASSUME NEW t \in Transcripts, BeginRead(t)
        PROVE  TypeOK'
    <2>1. PICK from \in 0..db.off[t] : read' = Starting(t, from)
      BY <1>3 DEF BeginRead
    <2>2. from \in Nat
      BY DEF TypeOK
    <2>3. read' \in Read
      BY <2>1, <2>2 DEF Starting, Read, TypeOK
    <2> QED
      BY <1>3, <2>3 DEF BeginRead, TypeOK
  <1>4. CASE ReadLine
    <2>1. read \in Read /\ lines[read.t] \in Seq(Line)
      BY <1>4 DEF ReadLine, TypeOK, Read
    <2> DEFINE l == lines[read.t][read.pos + 1]
    <2>2. read.pos + 1 \in 1..Len(lines[read.t])
      BY <1>4, <2>1, LenProperties DEF ReadLine, Read
    <2>3. l \in Line
      BY <2>1, <2>2, ElementOfSeq
    <2>4. read' = IF IsBlock(l) THEN AssistantLine(read, l) ELSE UserLine(read, l)
      BY <1>4 DEF ReadLine
    <2>5. read' \in Read
      <3> HIDE DEF l
      <3> QED
        BY <2>1, <2>3, <2>4, AssistantLineType, UserLineType
    <2> QED
      BY <1>4, <2>5 DEF ReadLine, TypeOK
  <1>5. CASE EndRead
    <2>1. read \in Read
      BY <1>5 DEF EndRead, TypeOK
    <2> QED
      BY <1>5, <2>1 DEF EndRead, TypeOK, Read
  <1>6. CASE AbortRead
    BY <1>6 DEF AbortRead, TypeOK
  <1>7. CASE UNCHANGED vars
    BY <1>7 DEF vars, TypeOK
  <1> QED
    BY <1>1, <1>2, <1>3, <1>4, <1>5, <1>6, <1>7 DEF Next, Agent

\* Every reachable state is well typed: a message without an id never becomes a
\* row, and a merged tool row has a duration or none.
THEOREM TypeCorrect == Spec => []TypeOK
  <1> QED
    BY InitType, StepType, PTL DEF Spec

--------------------------------------------------------------------------------
\* The invariant.

\* Transcripts only grow.
Grows ==
  \A t \in Transcripts :
    /\ Len(lines[t]) <= Len(lines'[t])
    /\ \A x \in 1..Len(lines[t]) : lines'[t][x] = lines[t][x]

LEMMA WrittenGrows ==
  ASSUME TypeOK, NEW t \in Transcripts, NEW l \in Line, Written(t, l)
  PROVE  /\ Grows
         /\ \A s \in Transcripts : Len(lines'[s]) \in Nat
         /\ Len(lines'[t]) = Len(lines[t]) + 1
         /\ lines'[t][Len(lines[t]) + 1] = l
         /\ \A s \in Transcripts \ {t} : lines'[s] = lines[s]
  <1>1. \A s \in Transcripts : lines[s] \in Seq(Line) /\ Len(lines[s]) \in Nat
    BY LenProperties DEF TypeOK
  <1>2. lines' = [lines EXCEPT ![t] = Append(lines[t], l)]
    BY DEF Written
  <1>3. lines'[t] = Append(lines[t], l) /\ \A s \in Transcripts \ {t} : lines'[s] = lines[s]
    BY <1>2 DEF TypeOK
  <1>4. /\ Len(Append(lines[t], l)) = Len(lines[t]) + 1
        /\ Append(lines[t], l)[Len(lines[t]) + 1] = l
        /\ \A x \in 1..Len(lines[t]) : Append(lines[t], l)[x] = lines[t][x]
    BY <1>1, AppendProperties
  <1> QED
    BY <1>1, <1>3, <1>4 DEF Grows

LEMMA ResumeGrows ==
  ASSUME TypeOK, NEW t \in Transcripts, NEW s \in Transcripts, Resume(s, t)
  PROVE  /\ Grows
         /\ lines'[t] = lines[s]
         /\ \A u \in Transcripts \ {t} : lines'[u] = lines[u]
  <1>1. \A u \in Transcripts : lines[u] \in Seq(Line) /\ Len(lines[u]) \in Nat
    BY LenProperties DEF TypeOK
  <1>2. lines[t] = <<>> /\ lines' = [lines EXCEPT ![t] = lines[s]]
    BY DEF Resume
  <1>3. lines'[t] = lines[s] /\ \A u \in Transcripts \ {t} : lines'[u] = lines[u]
    BY <1>2 DEF TypeOK
  <1>4. Len(lines[t]) = 0
    BY <1>2
  <1> QED
    BY <1>1, <1>3, <1>4 DEF Grows

\* What is billed stays billed, and what no line said is not billed.
LEMMA GrowthKeeps ==
  ASSUME TypeOK, Grows, UNCHANGED <<db, read>>,
         FromLines(db.msgs), OffsetsBilled, ReadBilled,
         \A t \in Transcripts : Len(lines'[t]) \in Nat
  PROVE  FromLines(db.msgs)' /\ OffsetsBilled' /\ ReadBilled'
  <1>1. \A t \in Transcripts : Len(lines[t]) \in Nat
    BY LenProperties DEF TypeOK
  <1>2. \A t \in Transcripts : db.off[t] \in Nat
    BY DEF TypeOK
  <1>3. ASSUME NEW msgs, FromLines(msgs)
        PROVE  \A k \in Responses \X BOOLEAN : msgs[k] # None =>
                 \E t \in Transcripts : \E x \in 1..Len(lines'[t]) :
                   IsBlock(lines'[t][x]) /\ <<lines'[t][x].msg, lines'[t][x].req>> = k
    <2> SUFFICES ASSUME NEW k \in Responses \X BOOLEAN, msgs[k] # None
                 PROVE  \E t \in Transcripts : \E x \in 1..Len(lines'[t]) :
                          IsBlock(lines'[t][x]) /\ <<lines'[t][x].msg, lines'[t][x].req>> = k
      OBVIOUS
    <2>1. PICK t \in Transcripts : \E x \in 1..Len(lines[t]) :
            IsBlock(lines[t][x]) /\ <<lines[t][x].msg, lines[t][x].req>> = k
      BY <1>3 DEF FromLines
    <2>2. PICK x \in 1..Len(lines[t]) :
            IsBlock(lines[t][x]) /\ <<lines[t][x].msg, lines[t][x].req>> = k
      BY <2>1
    <2>3. x \in 1..Len(lines'[t]) /\ lines'[t][x] = lines[t][x]
      BY <1>1 DEF Grows
    <2> QED
      BY <2>2, <2>3
  <1>4. ASSUME NEW msgs, NEW t \in Transcripts, NEW n \in Nat, n <= Len(lines[t]),
               BilledUpTo(msgs, t, n)
        PROVE  /\ n <= Len(lines'[t])
               /\ \A x \in 1..Len(lines'[t]) :
                    x <= n /\ IsBlock(lines'[t][x]) /\ lines'[t][x].msg # None =>
                      Billed(msgs, lines'[t][x].msg)
    <2>1. \A x \in 1..Len(lines'[t]) : x <= n => x \in 1..Len(lines[t]) /\ lines'[t][x] = lines[t][x]
      BY <1>1, <1>4 DEF Grows
    <2> QED
      BY <1>1, <1>4, <2>1 DEF BilledUpTo, Grows
  <1>5. FromLines(db.msgs)'
    BY <1>3 DEF FromLines
  <1>6. OffsetsBilled'
    BY <1>2, <1>4 DEF OffsetsBilled, BilledUpTo, Billed
  <1>7. ReadBilled'
    <2> SUFFICES ASSUME read # None  PROVE ReadBilled'
      BY DEF ReadBilled
    <2>1. read \in Read /\ read.t \in Transcripts /\ read.pos \in Nat
      BY DEF TypeOK, Read
    <2>2. FromLines(read.msgs)'
      BY <1>3 DEF FromLines, ReadBilled
    <2>3. (read.pos <= Len(lines[read.t]) /\ BilledUpTo(read.msgs, read.t, read.pos))'
      BY <1>4, <2>1 DEF BilledUpTo, Billed, ReadBilled
    <2> QED
      BY <2>2, <2>3 DEF ReadBilled, Billed
  <1> QED
    BY <1>5, <1>6, <1>7

\* A new line with the requestId of every line of its response keeps the ids one.
LEMMA WrittenKeepsIds ==
  ASSUME TypeOK, OneRequestId, NEW t \in Transcripts, NEW l \in Line, Written(t, l),
         \A s \in Transcripts : \A y \in 1..Len(lines[s]) :
           /\ IsBlock(l) /\ IsBlock(lines[s][y])
           /\ l.msg # None /\ l.msg = lines[s][y].msg
           => l.req = lines[s][y].req
  PROVE  OneRequestId'
  <1>1. /\ Len(lines'[t]) = Len(lines[t]) + 1
        /\ lines'[t][Len(lines[t]) + 1] = l
        /\ \A s \in Transcripts \ {t} : lines'[s] = lines[s]
        /\ \A x \in 1..Len(lines[t]) : lines'[t][x] = lines[t][x]
    BY WrittenGrows DEF Grows
  <1>2. \A s \in Transcripts : Len(lines[s]) \in Nat
    BY LenProperties DEF TypeOK
  \* Every line of the new state is the new one or one of the old state.
  <1>3. \A s \in Transcripts : \A x \in 1..Len(lines'[s]) :
          \/ lines'[s][x] = l
          \/ x \in 1..Len(lines[s]) /\ lines'[s][x] = lines[s][x]
    BY <1>1, <1>2
  <1>4. SUFFICES ASSUME NEW a \in Transcripts, NEW b \in Transcripts,
                        NEW x \in 1..Len(lines'[a]), NEW y \in 1..Len(lines'[b]),
                        IsBlock(lines'[a][x]), IsBlock(lines'[b][y]),
                        lines'[a][x].msg # None, lines'[a][x].msg = lines'[b][y].msg
                 PROVE  lines'[a][x].req = lines'[b][y].req
    BY DEF OneRequestId, IsBlock
  <1>5. CASE lines'[a][x] = l /\ lines'[b][y] = l
    BY <1>5
  <1>6. CASE lines'[a][x] = l /\ y \in 1..Len(lines[b]) /\ lines'[b][y] = lines[b][y]
    BY <1>4, <1>6
  <1>7. CASE x \in 1..Len(lines[a]) /\ lines'[a][x] = lines[a][x] /\ lines'[b][y] = l
    BY <1>4, <1>7
  <1>8. CASE /\ x \in 1..Len(lines[a]) /\ lines'[a][x] = lines[a][x]
             /\ y \in 1..Len(lines[b]) /\ lines'[b][y] = lines[b][y]
    BY <1>4, <1>8 DEF OneRequestId
  <1> QED
    BY <1>3, <1>5, <1>6, <1>7, <1>8

LEMMA AgentKeepsIds ==
  ASSUME TypeOK, ~SomeWithout, OneRequestId, Agent
  PROVE  OneRequestId'
  <1>0. now + 1 \in Nat
    BY DEF TypeOK
  <1>1. ASSUME NEW t \in Transcripts, NEW r \in Responses \cup {None}, NEW q \in BOOLEAN,
               NEW u \in Tools \cup {None}, WriteBlock(t, r, q, u)
        PROVE  OneRequestId'
    <2> DEFINE l == Block(r, q, u, now + 1)
    <2>1. l \in Line /\ Written(t, l)
      BY <1>0, <1>1, LineTypes DEF WriteBlock
    <2>2. l.msg = r /\ l.req = q
      BY DEF Block
    <2>3. ASSUME NEW s \in Transcripts, NEW y \in 1..Len(lines[s]),
                 IsBlock(lines[s][y]), r # None, r = lines[s][y].msg
          PROVE  lines[s][y].req = q
      <3>1. HasBlock(s, r) /\ lines[s][y] \in LineSet(s)
        BY <2>3 DEF HasBlock, LineSet
      <3>2. s = t
        BY <1>1, <2>3, <3>1 DEF WriteBlock
      <3> QED
        BY <1>1, <2>3, <3>1, <3>2 DEF WriteBlock
    <2> HIDE DEF l
    <2> QED
      BY <2>1, <2>2, <2>3, WrittenKeepsIds
  <1>2. ASSUME NEW t \in Transcripts, NEW u \in Tools, NEW e \in BOOLEAN, WriteResult(t, u, e)
        PROVE  OneRequestId'
    <2> DEFINE l == Result(u, e, now + 1)
    <2>1. l \in Line /\ Written(t, l) /\ ~IsBlock(l)
      BY <1>0, <1>2, LineTypes DEF WriteResult, Result, IsBlock
    <2> HIDE DEF l
    <2> QED
      BY <2>1, WrittenKeepsIds
  <1>3. ASSUME NEW t \in Transcripts, NEW s \in Transcripts, Resume(s, t)
        PROVE  OneRequestId'
    <2>1. lines'[t] = lines[s] /\ \A a \in Transcripts \ {t} : lines'[a] = lines[a]
      BY <1>3, ResumeGrows
    <2>2. \A a \in Transcripts : \E b \in Transcripts : lines'[a] = lines[b]
      BY <2>1
    <2>3. SUFFICES ASSUME NEW a \in Transcripts, NEW b \in Transcripts,
                          NEW x \in 1..Len(lines'[a]), NEW y \in 1..Len(lines'[b]),
                          IsBlock(lines'[a][x]), IsBlock(lines'[b][y]),
                          lines'[a][x].msg # None, lines'[a][x].msg = lines'[b][y].msg
                   PROVE  lines'[a][x].req = lines'[b][y].req
      BY DEF OneRequestId, IsBlock
    <2>4. PICK c \in Transcripts : lines'[a] = lines[c]
      BY <2>2
    <2>5. PICK d \in Transcripts : lines'[b] = lines[d]
      BY <2>2
    <2> QED
      BY <2>3, <2>4, <2>5 DEF OneRequestId
  <1> QED
    BY <1>1, <1>2, <1>3 DEF Agent

LEMMA AgentGrows ==
  ASSUME TypeOK, Agent
  PROVE  Grows /\ UNCHANGED <<db, read>>
  <1>1. ASSUME NEW t \in Transcripts,
               \/ \E r \in Responses \cup {None}, q \in BOOLEAN, u \in Tools \cup {None} :
                    WriteBlock(t, r, q, u)
               \/ \E u \in Tools, e \in BOOLEAN : WriteResult(t, u, e)
        PROVE  Grows /\ UNCHANGED <<db, read>>
    <2>1. PICK l \in Line : Written(t, l)
      BY <1>1, AgentType
    <2> QED
      BY <2>1, WrittenGrows DEF Written
  <1>2. ASSUME NEW t \in Transcripts, NEW s \in Transcripts, Resume(s, t)
        PROVE  Grows /\ UNCHANGED <<db, read>>
    BY <1>2, ResumeGrows DEF Resume
  <1> QED
    BY <1>1, <1>2 DEF Agent

LEMMA InitInv == Init => BillingInv
  <1> SUFFICES ASSUME Init  PROVE BillingInv
    OBVIOUS
  <1>1. \A t \in Transcripts : lines[t] = <<>> /\ Len(lines[t]) = 0 /\ db.off[t] = 0
    BY DEF Init
  <1>2. \A k \in Responses \X BOOLEAN : db.msgs[k] = None
    BY DEF Init
  <1>3. read = None
    BY DEF Init
  <1>4. OneRequestId
    BY <1>1 DEF OneRequestId
  <1>5. FromLines(db.msgs)
    BY <1>2 DEF FromLines
  <1>6. OffsetsBilled
    BY <1>1 DEF OffsetsBilled, BilledUpTo
  <1> QED
    BY <1>3, <1>4, <1>5, <1>6 DEF BillingInv, ReadBilled

\* A read from the offset or from before it starts with what is billed below it.
LEMMA BeginReadInv ==
  ASSUME TypeOK, BillingInv, NEW t \in Transcripts, BeginRead(t)
  PROVE  BillingInv'
  <1>1. PICK from \in 0..db.off[t] : from < Len(lines[t]) /\ read' = Starting(t, from)
    BY DEF BeginRead
  <1>2. /\ read'.t = t /\ read'.pos = from /\ read'.seen = {} /\ read'.msgs = db.msgs
        /\ UNCHANGED <<lines, db>>
    BY <1>1 DEF Starting, BeginRead
  <1>3. from \in Nat /\ Len(lines[t]) \in Nat /\ db.off[t] \in Nat
    BY LenProperties DEF TypeOK
  <1>4. from <= Len(lines[t]) /\ from <= db.off[t]
    BY <1>1, <1>3
  <1>5. BilledUpTo(db.msgs, t, from)
    BY <1>3, <1>4 DEF BillingInv, OffsetsBilled, BilledUpTo
  <1>6. FromLines(db.msgs)' /\ OffsetsBilled' /\ (~SomeWithout => OneRequestId')
    <2>1. FromLines(db.msgs)'
      BY <1>2 DEF BillingInv, FromLines
    <2>2. OffsetsBilled'
      BY <1>2 DEF BillingInv, OffsetsBilled, BilledUpTo, Billed
    <2>3. ~SomeWithout => OneRequestId'
      BY <1>2 DEF BillingInv, OneRequestId
    <2> QED
      BY <2>1, <2>2, <2>3
  <1>7. FromLines(read.msgs)' /\ BilledUpTo(read.msgs, read.t, read.pos)'
    BY <1>2, <1>5, <1>6 DEF FromLines, BilledUpTo, Billed
  <1>8. ReadBilled'
    BY <1>2, <1>4, <1>7 DEF ReadBilled
  <1> QED
    BY <1>6, <1>8 DEF BillingInv

LEMMA EndReadInv ==
  ASSUME TypeOK, BillingInv, EndRead
  PROVE  /\ BillingInv'
         /\ \A k \in Responses \X BOOLEAN : db.msgs[k] # None => db'.msgs[k] = db.msgs[k]
  <1>1. /\ db'.msgs = read.msgs /\ read' = None /\ lines' = lines
        /\ db'.off = [db.off EXCEPT ![read.t] = IF read.pos > @ THEN read.pos ELSE @]
    BY DEF EndRead
  <1>2. read # None /\ read \in Read /\ read.t \in Transcripts /\ ReadBilled
    BY DEF EndRead, TypeOK, Read, BillingInv
  <1>3. /\ db'.off[read.t] \in {read.pos, db.off[read.t]}
        /\ \A t \in Transcripts \ {read.t} : db'.off[t] = db.off[t]
    BY <1>1, <1>2 DEF TypeOK
  <1>4. \A k \in Responses \X BOOLEAN : db.msgs[k] # None => db'.msgs[k] = db.msgs[k]
    BY <1>1, <1>2 DEF ReadBilled
  <1>5. ASSUME NEW r \in Responses, Billed(db.msgs, r)  PROVE Billed(db'.msgs, r)
    BY <1>4, <1>5 DEF Billed
  <1>6. ASSUME NEW t \in Transcripts
        PROVE  db'.off[t] <= Len(lines[t]) /\ BilledUpTo(db'.msgs, t, db'.off[t])
    <2>1. CASE db'.off[t] = read.pos /\ t = read.t
      BY <1>1, <1>2, <2>1 DEF ReadBilled
    <2>2. CASE db'.off[t] = db.off[t]
      <3>1. db.off[t] <= Len(lines[t]) /\ BilledUpTo(db.msgs, t, db.off[t])
        BY DEF BillingInv, OffsetsBilled
      <3>2. \A x \in 1..Len(lines[t]) : lines[t][x] \in Line
        BY ElementOfSeq DEF TypeOK
      <3>3. \A x \in 1..Len(lines[t]) : IsBlock(lines[t][x]) /\ lines[t][x].msg # None =>
              lines[t][x].msg \in Responses
        BY <3>2, LineFields
      <3> QED
        BY <1>3, <1>5, <2>2, <3>1, <3>3 DEF BilledUpTo
    <2> QED
      BY <1>3, <2>1, <2>2
  <1>7. OffsetsBilled'
    BY <1>1, <1>6 DEF OffsetsBilled, BilledUpTo, Billed
  <1>8. FromLines(db.msgs)' /\ (~SomeWithout => OneRequestId')
    BY <1>1, <1>2 DEF ReadBilled, BillingInv, FromLines, OneRequestId
  <1> QED
    BY <1>1, <1>4, <1>7, <1>8 DEF BillingInv, ReadBilled

\* Inserting a line's message bills its response and changes no other row.
LEMMA InsertFirstBills ==
  ASSUME NEW msgs \in Msgs, NEW t \in Transcripts, NEW l \in Line,
         IsBlock(l), l.msg # None
  PROVE  LET new == InsertFirst(msgs, MessageKey(l), t)
         IN  /\ Billed(new, l.msg)
             /\ \A k \in Responses \X BOOLEAN : msgs[k] # None => new[k] = msgs[k]
             /\ \A k \in Responses \X BOOLEAN :
                  new[k] # None => msgs[k] # None \/ k = <<l.msg, l.req>>
  <1> DEFINE key == <<l.msg, l.req>>
             new == InsertFirst(msgs, MessageKey(l), t)
  <1>1. l.msg \in Responses /\ l.req \in BOOLEAN /\ key \in Responses \X BOOLEAN
    BY LineFields
  <1>2. new = [msgs EXCEPT ![key] = IF msgs[key] = None THEN t ELSE msgs[key]]
    BY DEF InsertFirst, MessageKey
  <1>3. t # None
    BY ClaudeAssumption
  <1>4. new[key] # None
    BY <1>1, <1>2, <1>3 DEF Msgs
  <1>5. \A k \in Responses \X BOOLEAN : k # key => new[k] = msgs[k]
    BY <1>1, <1>2 DEF Msgs
  <1>6. msgs[key] # None => new[key] = msgs[key]
    BY <1>1, <1>2 DEF Msgs
  <1>7. Billed(new, l.msg)
    <2>1. CASE l.req = TRUE
      BY <1>4, <2>1 DEF Billed
    <2>2. CASE l.req = FALSE
      BY <1>4, <2>2 DEF Billed
    <2> QED
      BY <1>1, <2>1, <2>2
  <1> HIDE DEF new
  <1> QED
    BY <1>5, <1>6, <1>7 DEF new

\* One line on: it is billed by now, or has nothing to bill.
LEMMA ReadLineInv ==
  ASSUME TypeOK, BillingInv, ReadLine
  PROVE  BillingInv'
  <1> DEFINE l == lines[read.t][read.pos + 1]
  <1>1. /\ read # None /\ read \in Read /\ read.t \in Transcripts /\ read.pos \in Nat
        /\ lines[read.t] \in Seq(Line) /\ Len(lines[read.t]) \in Nat
        /\ read.pos < Len(lines[read.t])
    BY LenProperties DEF ReadLine, TypeOK, Read
  <1>2. l \in Line
    BY <1>1, ElementOfSeq
  <1>3. /\ read' = IF IsBlock(l) THEN AssistantLine(read, l) ELSE UserLine(read, l)
        /\ UNCHANGED <<lines, db>>
    BY DEF ReadLine
  <1>4. /\ BilledUpTo(read.msgs, read.t, read.pos)
        /\ \A r \in read.seen : Billed(read.msgs, r)
        /\ FromLines(read.msgs)
        /\ \A k \in Responses \X BOOLEAN : db.msgs[k] # None => read.msgs[k] = db.msgs[k]
    BY <1>1 DEF BillingInv, ReadBilled
  <1>5. read'.t = read.t /\ read'.pos = read.pos + 1
    <2>1. AssistantLine(read, l).t = read.t /\ AssistantLine(read, l).pos = read.pos + 1
      BY <1>1 DEF AssistantLine, Read
    <2>2. UserLine(read, l).t = read.t /\ UserLine(read, l).pos = read.pos + 1
      BY <1>1 DEF UserLine, Read
    <2> HIDE DEF l
    <2> QED
      BY <1>3, <2>1, <2>2
  \* What the step does to the messages and the ids seen.
  <1>6. \/ /\ read'.msgs = read.msgs /\ read'.seen = read.seen
           /\ IsBlock(l) /\ l.msg # None => l.msg \in read.seen
        \/ /\ IsBlock(l) /\ l.msg # None
           /\ read'.msgs = InsertFirst(read.msgs, MessageKey(l), read.t)
           /\ read'.seen = read.seen \cup {l.msg}
    <2>1. CASE ~IsBlock(l)
      BY <1>1, <1>3, <2>1 DEF UserLine, Read
    <2>2. CASE IsBlock(l) /\ Collapsed(read, l)
      BY <1>1, <1>3, <2>2 DEF AssistantLine, Collapsed, Read
    <2>3. CASE IsBlock(l) /\ ~Collapsed(read, l)
      BY <1>1, <1>3, <2>3 DEF AssistantLine, Collapsed, Read
    <2> QED
      BY <2>1, <2>2, <2>3
  <1>7. /\ \A k \in Responses \X BOOLEAN : read.msgs[k] # None => read'.msgs[k] = read.msgs[k]
        /\ \A k \in Responses \X BOOLEAN : read'.msgs[k] # None =>
             read.msgs[k] # None \/ (IsBlock(l) /\ k = <<l.msg, l.req>>)
        /\ IsBlock(l) /\ l.msg # None => Billed(read'.msgs, l.msg)
        /\ \A r \in read'.seen : Billed(read'.msgs, r)
    <2> HIDE DEF l
    <2>1. read.msgs \in Msgs /\ read.seen \in SUBSET Responses
      BY <1>1 DEF Read
    <2>2. CASE /\ read'.msgs = read.msgs /\ read'.seen = read.seen
               /\ IsBlock(l) /\ l.msg # None => l.msg \in read.seen
      BY <1>4, <2>2
    <2>3. CASE /\ IsBlock(l) /\ l.msg # None
               /\ read'.msgs = InsertFirst(read.msgs, MessageKey(l), read.t)
               /\ read'.seen = read.seen \cup {l.msg}
      <3>1. /\ Billed(read'.msgs, l.msg)
            /\ \A k \in Responses \X BOOLEAN :
                 read.msgs[k] # None => read'.msgs[k] = read.msgs[k]
            /\ \A k \in Responses \X BOOLEAN :
                 read'.msgs[k] # None => read.msgs[k] # None \/ k = <<l.msg, l.req>>
        BY <1>1, <1>2, <2>1, <2>3, InsertFirstBills
      <3>2. ASSUME NEW r \in read.seen  PROVE Billed(read'.msgs, r)
        <4>1. r \in Responses /\ Billed(read.msgs, r)
          BY <1>4, <2>1
        <4> QED
          BY <3>1, <4>1 DEF Billed
      <3> QED
        BY <2>3, <3>1, <3>2
    <2> QED
      BY <1>6, <2>2, <2>3
  <1>8. ASSUME NEW x \in 1..Len(lines[read.t]), x <= read.pos + 1,
               IsBlock(lines[read.t][x]), lines[read.t][x].msg # None
        PROVE  Billed(read'.msgs, lines[read.t][x].msg)
    <2>1. CASE x = read.pos + 1
      BY <1>7, <1>8, <2>1
    <2>2. CASE x <= read.pos
      <3>1. lines[read.t][x].msg \in Responses
        <4>1. lines[read.t][x] \in Line
          BY <1>1, ElementOfSeq
        <4> QED
          BY <1>8, <4>1, LineFields
      <3>2. Billed(read.msgs, lines[read.t][x].msg)
        BY <1>4, <1>8, <2>2 DEF BilledUpTo
      <3> QED
        BY <1>7, <3>1, <3>2 DEF Billed
    <2> QED
      BY <1>1, <1>8, <2>1, <2>2
  <1>9. FromLines(read'.msgs)
    <2> SUFFICES ASSUME NEW k \in Responses \X BOOLEAN, read'.msgs[k] # None
                 PROVE  \E t \in Transcripts : \E x \in 1..Len(lines[t]) :
                          IsBlock(lines[t][x]) /\ <<lines[t][x].msg, lines[t][x].req>> = k
      BY DEF FromLines
    <2>1. CASE read.msgs[k] # None
      BY <1>4, <2>1 DEF FromLines
    <2>2. CASE IsBlock(l) /\ k = <<l.msg, l.req>>
      <3>1. read.pos + 1 \in 1..Len(lines[read.t])
        BY <1>1
      <3> QED
        BY <1>1, <2>2, <3>1
    <2> QED
      BY <1>7, <2>1, <2>2
  <1> HIDE DEF l
  <1>10. ReadBilled'
    <2>1. FromLines(read.msgs)'
      BY <1>3, <1>9 DEF FromLines
    <2>2. BilledUpTo(read.msgs, read.t, read.pos)'
      BY <1>3, <1>5, <1>8 DEF BilledUpTo, Billed
    <2>3. (\A r \in read.seen : Billed(read.msgs, r))'
      BY <1>7 DEF Billed
    <2>4. \A k \in Responses \X BOOLEAN : db'.msgs[k] # None => read'.msgs[k] = db'.msgs[k]
      BY <1>3, <1>4, <1>7
    <2>5. read'.pos <= Len(lines'[read'.t])
      BY <1>1, <1>3, <1>5
    <2> QED
      BY <2>1, <2>2, <2>3, <2>4, <2>5 DEF ReadBilled
  <1>11. FromLines(db.msgs)'
    BY <1>3 DEF BillingInv, FromLines
  <1>12. OffsetsBilled'
    BY <1>3 DEF BillingInv, OffsetsBilled, BilledUpTo, Billed
  <1>13. ~SomeWithout => OneRequestId'
    BY <1>3 DEF BillingInv, OneRequestId
  <1> QED
    BY <1>10, <1>11, <1>12, <1>13 DEF BillingInv

--------------------------------------------------------------------------------
\* The step, and the theorems.

LEMMA SameInv ==
  ASSUME TypeOK, BillingInv, UNCHANGED <<lines, db>>, read' = None \/ read' = read
  PROVE  BillingInv'
  <1>1. FromLines(db.msgs)'
    BY DEF BillingInv, FromLines
  <1>2. OffsetsBilled'
    BY DEF BillingInv, OffsetsBilled, BilledUpTo, Billed
  <1>3. ~SomeWithout => OneRequestId'
    BY DEF BillingInv, OneRequestId
  <1>4. ReadBilled'
    BY DEF BillingInv, ReadBilled, BilledUpTo, Billed, FromLines
  <1> QED
    BY <1>1, <1>2, <1>3, <1>4 DEF BillingInv

LEMMA StepInv ==
  ASSUME TypeOK, BillingInv, [Next]_vars
  PROVE  BillingInv'
  <1>1. CASE Agent
    <2>1. TypeOK' /\ Grows /\ UNCHANGED <<db, read>>
      BY <1>1, AgentGrows, StepType DEF Next
    <2>2. \A t \in Transcripts : Len(lines'[t]) \in Nat
      BY <2>1, LenProperties DEF TypeOK
    <2>3. FromLines(db.msgs)' /\ OffsetsBilled' /\ ReadBilled'
      BY <2>1, <2>2, GrowthKeeps DEF BillingInv
    <2>4. ~SomeWithout => OneRequestId'
      BY <1>1, AgentKeepsIds DEF BillingInv
    <2> QED
      BY <2>1, <2>3, <2>4 DEF BillingInv
  <1>2. ASSUME NEW t \in Transcripts, BeginRead(t)
        PROVE  BillingInv'
    BY <1>2, BeginReadInv
  <1>3. CASE ReadLine
    BY <1>3, ReadLineInv
  <1>4. CASE EndRead
    BY <1>4, EndReadInv
  <1>5. CASE AbortRead
    BY <1>5, SameInv DEF AbortRead
  <1>6. CASE UNCHANGED vars
    BY <1>6, SameInv DEF vars
  <1> QED
    BY <1>1, <1>2, <1>3, <1>4, <1>5, <1>6 DEF Next

THEOREM Invariance == Spec => [](TypeOK /\ BillingInv)
  <1>1. Init => TypeOK /\ BillingInv
    BY InitType, InitInv
  <1>2. TypeOK /\ BillingInv /\ [Next]_vars => (TypeOK /\ BillingInv)'
    BY StepType, StepInv
  <1> QED
    BY <1>1, <1>2, PTL DEF Spec

\* If the lines of a response agree on its requestId, it never has two rows,
\* however its lines are cut into reads, re-read and copied (report.py:181-190).
THEOREM BilledOnce == ASSUME ~SomeWithout  PROVE Spec => []NoDuplicateBilling
  <1>1. BillingInv => NoDuplicateBilling
    <2> SUFFICES ASSUME BillingInv, NEW r \in Responses,
                        db.msgs[<<r, TRUE>>] # None, db.msgs[<<r, FALSE>>] # None
                 PROVE  FALSE
      BY DEF NoDuplicateBilling
    <2>1. PICK t \in Transcripts : \E x \in 1..Len(lines[t]) :
            IsBlock(lines[t][x]) /\ <<lines[t][x].msg, lines[t][x].req>> = <<r, TRUE>>
      BY DEF BillingInv, FromLines
    <2>2. PICK x \in 1..Len(lines[t]) :
            IsBlock(lines[t][x]) /\ <<lines[t][x].msg, lines[t][x].req>> = <<r, TRUE>>
      BY <2>1
    <2>3. PICK u \in Transcripts : \E y \in 1..Len(lines[u]) :
            IsBlock(lines[u][y]) /\ <<lines[u][y].msg, lines[u][y].req>> = <<r, FALSE>>
      BY DEF BillingInv, FromLines
    <2>4. PICK y \in 1..Len(lines[u]) :
            IsBlock(lines[u][y]) /\ <<lines[u][y].msg, lines[u][y].req>> = <<r, FALSE>>
      BY <2>3
    <2>5. r # None
      BY ClaudeAssumption
    <2>6. lines[t][x].msg = r /\ lines[t][x].req = TRUE
      BY <2>2
    <2>7. lines[u][y].msg = r /\ lines[u][y].req = FALSE
      BY <2>4
    <2>8. OneRequestId
      BY DEF BillingInv
    <2>9. lines[t][x].msg # None /\ lines[t][x].msg = lines[u][y].msg
      BY <2>5, <2>6, <2>7
    <2>10. lines[t][x].req = lines[u][y].req
      BY <2>2, <2>4, <2>8, <2>9, Zenon DEF OneRequestId
    <2> QED
      BY <2>6, <2>7, <2>10
  <1> QED
    BY <1>1, Invariance, PTL

\* Every response with a line below a stored offset has its row, also when its
\* first lines were read by a run whose seen ids are forgotten (pipeline.py:265).
THEOREM Billing == Spec => []EveryResponseBilled
  <1>1. TypeOK /\ BillingInv => EveryResponseBilled
    <2> SUFFICES ASSUME TypeOK, BillingInv, NEW t \in Transcripts, NEW x \in 1..db.off[t],
                        IsBlock(lines[t][x]), lines[t][x].msg # None
                 PROVE  Billed(db.msgs, lines[t][x].msg)
      BY DEF EveryResponseBilled, Billed
    <2>1. db.off[t] \in Nat /\ Len(lines[t]) \in Nat
      BY LenProperties DEF TypeOK
    <2>2. x \in 1..Len(lines[t]) /\ x <= db.off[t]
      BY <2>1 DEF BillingInv, OffsetsBilled
    <2> QED
      BY <2>2 DEF BillingInv, OffsetsBilled, BilledUpTo
  <1> QED
    BY <1>1, Invariance, PTL

--------------------------------------------------------------------------------
\* Tool calls.

\* The records of a tool are halves of one row, at most one of each.
LEMMA RecordsSingle ==
  ASSUME TypeOK, ToolsOnce, NEW t \in Transcripts, NEW u \in Tools, NEW n \in Nat,
         n <= Len(lines[t])
  PROVE  Single(RecordsOf(t, u, n))
  <1> DEFINE recs == RecordsOf(t, u, n)
  <1>1. DOMAIN recs = {y \in 1..n : lines[t][y].tool = u} /\ DOMAIN recs \subseteq Nat
    BY DEF RecordsOf
  <1>2. lines[t] \in Seq(Line) /\ Len(lines[t]) \in Nat /\ u # None
    BY LenProperties, ClaudeAssumption DEF TypeOK
  <1>3. ASSUME NEW x \in DOMAIN recs
        PROVE  /\ x \in 1..Len(lines[t]) /\ lines[t][x].tool = u
               /\ IsBlock(lines[t][x])  => IsCall(recs[x])
               /\ ~IsBlock(lines[t][x]) => IsResult(recs[x])
    <2>1. x \in 1..Len(lines[t]) /\ lines[t][x].tool = u
      BY <1>1, <1>2
    <2>2. lines[t][x] \in Line
      BY <1>2, <2>1, ElementOfSeq
    <2>3. recs[x] = RecordOf(lines[t][x])
      BY <1>1 DEF RecordsOf
    <2> QED
      BY <2>1, <2>2, <2>3, LineFields DEF RecordOf, IsCall, IsResult
  <1> HIDE DEF recs
  <1>4. \A x \in DOMAIN recs : /\ IsCall(recs[x]) \/ IsResult(recs[x])
                               /\ IsCall(recs[x]) <=> IsBlock(lines[t][x])
                               /\ IsResult(recs[x]) <=> ~IsBlock(lines[t][x])
    BY <1>3, EitherHalf
  <1>5. ASSUME NEW x \in DOMAIN recs, NEW y \in DOMAIN recs,
               IsBlock(lines[t][x]) <=> IsBlock(lines[t][y])
        PROVE  x = y
    <2>1. IsBlock(lines[t][x]) = IsBlock(lines[t][y])
      BY <1>5 DEF IsBlock
    <2> QED
      BY <1>2, <1>3, <2>1 DEF ToolsOnce
  <1> QED
    BY <1>1, <1>4, <1>5 DEF recs, Single

\* What is appended to a transcript adds nothing to the records before it.
LEMMA RecordsStay ==
  ASSUME TypeOK, Grows, NEW t \in Transcripts, NEW u \in Tools, NEW n \in Nat,
         n <= Len(lines[t])
  PROVE  RecordsOf(t, u, n)' = RecordsOf(t, u, n)
  <1>1. Len(lines[t]) \in Nat
    BY LenProperties DEF TypeOK
  <1>2. \A x \in 1..n : lines'[t][x] = lines[t][x]
    BY <1>1 DEF Grows
  <1> QED
    BY <1>2 DEF RecordsOf, RecordOf, IsBlock

\* A call or a result that is written is the first of its tool in its transcript.
LEMMA AgentKeepsTools ==
  ASSUME TypeOK, ToolsOnce, Agent
  PROVE  ToolsOnce'
  <1>0. /\ now + 1 \in Nat
        /\ \A s \in Transcripts : lines[s] \in Seq(Line) /\ Len(lines[s]) \in Nat
    BY LenProperties DEF TypeOK
  <1>1. ASSUME NEW t \in Transcripts, NEW l \in Line, Written(t, l),
               \A y \in 1..Len(lines[t]) :
                 l.tool # None /\ lines[t][y].tool = l.tool => IsBlock(lines[t][y]) # IsBlock(l)
        PROVE  ToolsOnce'
    <2>1. /\ Len(lines'[t]) = Len(lines[t]) + 1
          /\ lines'[t][Len(lines[t]) + 1] = l
          /\ \A s \in Transcripts \ {t} : lines'[s] = lines[s]
          /\ \A x \in 1..Len(lines[t]) : lines'[t][x] = lines[t][x]
      BY <1>1, WrittenGrows DEF Grows
    <2> SUFFICES ASSUME NEW s \in Transcripts,
                        NEW x \in 1..Len(lines'[s]), NEW y \in 1..Len(lines'[s]),
                        lines'[s][x].tool # None, lines'[s][x].tool = lines'[s][y].tool,
                        IsBlock(lines'[s][x]) = IsBlock(lines'[s][y])
                 PROVE  x = y
      BY DEF ToolsOnce, IsBlock
    <2>2. CASE s # t
      <3>1. lines'[s] = lines[s]
        BY <2>1, <2>2
      <3> QED
        BY <3>1 DEF ToolsOnce
    <2>3. CASE s = t
      <3>1. x \in 1..Len(lines[t]) \/ (x = Len(lines[t]) + 1 /\ lines'[t][x] = l)
        BY <1>0, <2>1, <2>3
      <3>2. y \in 1..Len(lines[t]) \/ (y = Len(lines[t]) + 1 /\ lines'[t][y] = l)
        BY <1>0, <2>1, <2>3
      <3>3. CASE x \in 1..Len(lines[t]) /\ y \in 1..Len(lines[t])
        <4>1. lines'[t][x] = lines[t][x] /\ lines'[t][y] = lines[t][y]
          BY <2>1, <3>3
        <4> QED
          BY <2>3, <3>3, <4>1 DEF ToolsOnce
      <3>4. CASE x \in 1..Len(lines[t]) /\ lines'[t][y] = l
        BY <1>1, <2>1, <2>3, <3>4
      <3>5. CASE lines'[t][x] = l /\ y \in 1..Len(lines[t])
        BY <1>1, <2>1, <2>3, <3>5
      <3> QED
        BY <3>1, <3>2, <3>3, <3>4, <3>5
    <2> QED
      BY <2>2, <2>3
  <1>2. ASSUME NEW t \in Transcripts, NEW r \in Responses \cup {None}, NEW q \in BOOLEAN,
               NEW u \in Tools \cup {None}, WriteBlock(t, r, q, u)
        PROVE  ToolsOnce'
    <2> DEFINE l == Block(r, q, u, now + 1)
    <2>1. l \in Line /\ Written(t, l) /\ l.tool = u /\ IsBlock(l)
      BY <1>0, <1>2, LineTypes DEF WriteBlock, Block, IsBlock
    <2>2. ASSUME NEW y \in 1..Len(lines[t]), u # None, lines[t][y].tool = u
          PROVE  ~IsBlock(lines[t][y])
      BY <1>2, <2>2 DEF WriteBlock, Called, LineSet
    <2> HIDE DEF l
    <2> QED
      BY <1>1, <2>1, <2>2
  <1>3. ASSUME NEW t \in Transcripts, NEW u \in Tools, NEW e \in BOOLEAN, WriteResult(t, u, e)
        PROVE  ToolsOnce'
    <2> DEFINE l == Result(u, e, now + 1)
    <2>1. l \in Line /\ Written(t, l) /\ l.tool = u /\ ~IsBlock(l)
      BY <1>0, <1>3, LineTypes DEF WriteResult, Result, IsBlock
    <2>2. ASSUME NEW y \in 1..Len(lines[t]), lines[t][y].tool = u
          PROVE  IsBlock(lines[t][y])
      BY <1>3, <2>2 DEF WriteResult, Answered, LineSet
    <2> HIDE DEF l
    <2> QED
      BY <1>1, <2>1, <2>2
  <1>4. ASSUME NEW t \in Transcripts, NEW s \in Transcripts, Resume(s, t)
        PROVE  ToolsOnce'
    <2>1. \A a \in Transcripts : \E b \in Transcripts : lines'[a] = lines[b]
      BY <1>4, ResumeGrows
    <2> SUFFICES ASSUME NEW a \in Transcripts,
                        NEW x \in 1..Len(lines'[a]), NEW y \in 1..Len(lines'[a]),
                        lines'[a][x].tool # None, lines'[a][x].tool = lines'[a][y].tool,
                        IsBlock(lines'[a][x]) = IsBlock(lines'[a][y])
                 PROVE  x = y
      BY DEF ToolsOnce, IsBlock
    <2>2. PICK b \in Transcripts : lines'[a] = lines[b]
      BY <2>1
    <2> QED
      BY <2>2 DEF ToolsOnce
  <1> QED
    BY <1>2, <1>3, <1>4 DEF Agent

\* What is stored of a file, and what a read has passed, is in the file.
LEMMA EndsInFile ==
  ASSUME TypeOK, BillingInv
  PROVE  /\ \A t \in Transcripts :
              /\ lines[t] \in Seq(Line) /\ Len(lines[t]) \in Nat
              /\ db.off[t] \in Nat /\ db.off[t] <= Len(lines[t])
         /\ read # None =>
              /\ read \in Read /\ read.t \in Transcripts /\ read.pos \in Nat
              /\ ReadEnd \in Nat /\ read.pos <= ReadEnd /\ ReadEnd <= Len(lines[read.t])
              /\ db.off[read.t] <= ReadEnd
  <1>1. \A t \in Transcripts :
          /\ lines[t] \in Seq(Line) /\ Len(lines[t]) \in Nat
          /\ db.off[t] \in Nat /\ db.off[t] <= Len(lines[t])
    BY LenProperties DEF TypeOK, BillingInv, OffsetsBilled
  <1>2. ASSUME read # None
        PROVE  /\ read \in Read /\ read.t \in Transcripts /\ read.pos \in Nat
               /\ read.pos <= Len(lines[read.t])
    BY <1>2 DEF TypeOK, Read, BillingInv, ReadBilled
  <1> QED
    BY <1>1, <1>2 DEF ReadEnd

\* The line a read comes to, and the end of what is known of the file: it stays
\* as it is, with the line below it, or it moves on with the read.
LEMMA LineRead ==
  ASSUME TypeOK, BillingInv, ReadLine, NEW l, l = lines[read.t][read.pos + 1]
  PROVE  /\ read # None /\ l \in Line /\ read.pos + 1 \in 1..Len(lines[read.t])
         /\ read' = IF IsBlock(l) THEN AssistantLine(read, l) ELSE UserLine(read, l)
         /\ UNCHANGED <<lines, db>>
         /\ read' # None /\ read'.t = read.t /\ read'.pos = read.pos + 1
         /\ \/ ReadEnd' = ReadEnd /\ read.pos + 1 <= ReadEnd
            \/ ReadEnd' = ReadEnd + 1 /\ read.pos = ReadEnd
  <1>1. /\ read # None /\ read \in Read /\ read.t \in Transcripts /\ read.pos \in Nat
        /\ lines[read.t] \in Seq(Line) /\ Len(lines[read.t]) \in Nat
        /\ read.pos + 1 \in 1..Len(lines[read.t])
        /\ db.off[read.t] \in Nat
    BY EndsInFile DEF ReadLine
  <1>2. l \in Line
    BY <1>1, ElementOfSeq
  <1>3. /\ read' = IF IsBlock(l) THEN AssistantLine(read, l) ELSE UserLine(read, l)
        /\ UNCHANGED <<lines, db>>
    BY DEF ReadLine
  <1>4. read'.t = read.t /\ read'.pos = read.pos + 1
    <2>1. AssistantLine(read, l).t = read.t /\ AssistantLine(read, l).pos = read.pos + 1
      BY <1>1 DEF AssistantLine, Read
    <2>2. UserLine(read, l).t = read.t /\ UserLine(read, l).pos = read.pos + 1
      BY <1>1 DEF UserLine, Read
    <2> QED
      BY <1>3, <2>1, <2>2
  <1>5. read' # None
    <2>1. read' \in Read
      BY <1>1, <1>2, <1>3, AssistantLineType, UserLineType
    <2> QED
      BY <2>1, NoneAssumption
  <1>6. ReadEnd' = IF read.pos + 1 > db.off[read.t] THEN read.pos + 1 ELSE db.off[read.t]
    BY <1>3, <1>4 DEF ReadEnd
  <1>7. \/ ReadEnd' = ReadEnd /\ read.pos + 1 <= ReadEnd
        \/ ReadEnd' = ReadEnd + 1 /\ read.pos = ReadEnd
    BY <1>1, <1>6 DEF ReadEnd
  <1> QED
    BY <1>1, <1>2, <1>3, <1>4, <1>5, <1>7

\* A line's record is the only one the read merges.
LEMMA LineRecord ==
  ASSUME NEW r \in Read, NEW l \in Line
  PROVE  LET q == IF IsBlock(l) THEN AssistantLine(r, l) ELSE UserLine(r, l)
         IN  q.calls = IF l.tool = None
                       THEN r.calls ELSE UpsertCall(r.calls, <<r.t, l.tool>>, RecordOf(l))
  <1>1. CASE IsBlock(l)
    <2>1. AssistantLine(r, l).calls = WithCalls(r, l)
      BY DEF AssistantLine, Read
    <2> QED
      BY <1>1, <2>1 DEF WithCalls, RecordOf
  <1>2. CASE ~IsBlock(l)
    <2>1. l.tool # None
      BY <1>2, LineFields, ClaudeAssumption
    <2>2. UserLine(r, l).calls = UpsertCall(r.calls, <<r.t, l.tool>>, ResultRow(l.ts, l.err))
      BY DEF UserLine, Read
    <2> QED
      BY <1>2, <2>1, <2>2 DEF RecordOf
  <1> QED
    BY <1>1, <1>2

\* The row of a tool after one line more, or one line again.
LEMMA NextRecord ==
  ASSUME TypeOK, ToolsOnce, NEW t \in Transcripts, NEW u \in Tools,
         NEW n \in Nat, NEW m \in Nat, NEW x \in 1..Len(lines[t]), n <= m, m <= Len(lines[t]),
         \/ m = n /\ x <= n
         \/ m = n + 1 /\ x = m
  PROVE  CallOf(RecordsOf(t, u, m)) =
           IF lines[t][x].tool = u
           THEN LET old == CallOf(RecordsOf(t, u, n))
                IN  IF old = None THEN RecordOf(lines[t][x])
                    ELSE MergeRow(old, RecordOf(lines[t][x]))
           ELSE CallOf(RecordsOf(t, u, n))
  <1> DEFINE recs == RecordsOf(t, u, n)
             more == RecordsOf(t, u, m)
  <1>0. Len(lines[t]) \in Nat /\ n <= Len(lines[t])
    BY LenProperties DEF TypeOK
  <1>1. Single(recs) /\ Single(more)
    BY <1>0, RecordsSingle
  <1>2. /\ DOMAIN recs = {y \in 1..n : lines[t][y].tool = u}
        /\ DOMAIN more = {y \in 1..m : lines[t][y].tool = u}
        /\ \A y \in DOMAIN recs : recs[y] = RecordOf(lines[t][y])
        /\ \A y \in DOMAIN more : more[y] = RecordOf(lines[t][y])
    BY DEF RecordsOf
  <1>3. CASE m = n /\ x <= n
    <2>1. CASE lines[t][x].tool = u
      <3>1. x \in DOMAIN recs
        BY <1>0, <1>2, <1>3, <2>1
      <3>2. CallOf(recs) # None /\ MergeRow(CallOf(recs), recs[x]) = CallOf(recs)
        BY <1>1, <3>1, CallOfAgain
      <3> QED
        BY <1>2, <1>3, <2>1, <3>1, <3>2
    <2> QED
      BY <1>3, <2>1
  <1>4. CASE m = n + 1 /\ x = m
    <2>1. CASE lines[t][x].tool = u
      <3>1. /\ DOMAIN more = DOMAIN recs \cup {x} /\ x \notin DOMAIN recs
            /\ \A y \in DOMAIN recs : more[y] = recs[y]
        BY <1>2, <1>4, <2>1
      <3> HIDE DEF recs, more
      <3>2. CallOf(more) = IF CallOf(recs) = None THEN more[x] ELSE MergeRow(CallOf(recs), more[x])
        BY <1>1, <3>1, CallOfNext
      <3>3. more[x] = RecordOf(lines[t][x])
        BY <1>2, <3>1
      <3> QED
        BY <2>1, <3>2, <3>3 DEF recs, more
    <2>2. CASE lines[t][x].tool # u
      <3>1. {y \in 1..m : lines[t][y].tool = u} = {y \in 1..n : lines[t][y].tool = u}
        BY <1>4, <2>2
      <3>2. more = recs
        BY <3>1 DEF RecordsOf
      <3> QED
        BY <2>2, <3>2
    <2> QED
      BY <2>1, <2>2
  <1> QED
    BY <1>3, <1>4

LEMMA InitTools == Init => ToolInv
  <1> SUFFICES ASSUME Init  PROVE ToolInv
    OBVIOUS
  <1>1. ToolsOnce
    BY DEF Init, ToolsOnce
  <1>2. ASSUME NEW t \in Transcripts, NEW u \in Tools
        PROVE  db.calls[<<t, u>>] = CallOf(RecordsOf(t, u, db.off[t]))
    <2>1. db.calls[<<t, u>>] = None /\ db.off[t] = 0
      BY DEF Init
    <2>2. DOMAIN RecordsOf(t, u, db.off[t]) = {}
      BY <2>1 DEF RecordsOf
    <2> QED
      BY <2>1, <2>2, Zenon DEF CallOf
  <1> QED
    BY <1>1, <1>2 DEF ToolInv, ToolRowsExact, Init

\* A read line merges into the row of its tool what one pass finds there.
LEMMA ReadLineTools ==
  ASSUME TypeOK, BillingInv, ToolInv, ReadLine
  PROVE  ToolInv'
  <1> DEFINE l == lines[read.t][read.pos + 1]
  <1>1. /\ read # None /\ l \in Line /\ read.pos + 1 \in 1..Len(lines[read.t])
        /\ read' = IF IsBlock(l) THEN AssistantLine(read, l) ELSE UserLine(read, l)
        /\ UNCHANGED <<lines, db>>
        /\ read'.t = read.t
        /\ \/ ReadEnd' = ReadEnd /\ read.pos + 1 <= ReadEnd
           \/ ReadEnd' = ReadEnd + 1 /\ read.pos = ReadEnd
    BY LineRead
  <1>2. /\ read \in Read /\ read.t \in Transcripts /\ read.pos \in Nat /\ ReadEnd \in Nat
        /\ ReadEnd <= Len(lines[read.t]) /\ Len(lines[read.t]) \in Nat
    BY <1>1, EndsInFile
  <1>3. read'.calls = IF l.tool = None
                      THEN read.calls
                      ELSE UpsertCall(read.calls, <<read.t, l.tool>>, RecordOf(l))
    BY <1>1, <1>2, LineRecord
  <1>4. read.calls \in [Transcripts \X Tools -> Row \cup {None}]
    BY <1>2 DEF Read, Calls
  <1>5. \A t \in Transcripts, u \in Tools :
          read'.calls[<<t, u>>] =
            IF t = read.t /\ l.tool = u
            THEN IF read.calls[<<t, u>>] = None THEN RecordOf(l)
                 ELSE MergeRow(read.calls[<<t, u>>], RecordOf(l))
            ELSE read.calls[<<t, u>>]
    <2> HIDE DEF l
    <2>1. CASE l.tool = None
      BY <1>3, <2>1, ClaudeAssumption
    <2>2. CASE l.tool # None
      <3>1. read'.calls = [read.calls EXCEPT ![<<read.t, l.tool>>] =
                             IF read.calls[<<read.t, l.tool>>] = None THEN RecordOf(l)
                             ELSE MergeRow(read.calls[<<read.t, l.tool>>], RecordOf(l))]
        BY <1>3, <2>2 DEF UpsertCall
      <3> QED
        BY <1>4, <3>1
    <2> QED
      BY <2>1, <2>2
  <1>6. ASSUME NEW t \in Transcripts, NEW u \in Tools
        PROVE  read'.calls[<<t, u>>] =
                 CallOf(RecordsOf(t, u, IF t = read.t THEN ReadEnd' ELSE db.off[t]))
    <2>1. read.calls[<<t, u>>] =
            CallOf(RecordsOf(t, u, IF t = read.t THEN ReadEnd ELSE db.off[t]))
      BY <1>1 DEF ToolInv
    <2>2. CASE t = read.t
      <3>1. ReadEnd' \in Nat /\ ReadEnd <= ReadEnd' /\ ReadEnd' <= Len(lines[t])
        BY <1>1, <1>2, <2>2
      <3>2. \/ ReadEnd' = ReadEnd /\ read.pos + 1 <= ReadEnd
            \/ ReadEnd' = ReadEnd + 1 /\ read.pos + 1 = ReadEnd'
        BY <1>1, <1>2
      <3>3. CallOf(RecordsOf(t, u, ReadEnd')) =
              IF lines[t][read.pos + 1].tool = u
              THEN LET old == CallOf(RecordsOf(t, u, ReadEnd))
                   IN  IF old = None THEN RecordOf(lines[t][read.pos + 1])
                       ELSE MergeRow(old, RecordOf(lines[t][read.pos + 1]))
              ELSE CallOf(RecordsOf(t, u, ReadEnd))
        BY <1>1, <1>2, <2>2, <3>1, <3>2, NextRecord DEF ToolInv
      <3> QED
        BY <1>5, <2>1, <2>2, <3>3
    <2>3. CASE t # read.t
      BY <1>5, <2>1, <2>3
    <2> QED
      BY <2>2, <2>3
  <1>7. ASSUME NEW t \in Transcripts, NEW u \in Tools
        PROVE  /\ RecordsOf(t, u, db.off[t])' = RecordsOf(t, u, db.off[t])
               /\ RecordsOf(t, u, IF t = read.t THEN ReadEnd ELSE db.off[t])'
                    = RecordsOf(t, u, IF t = read.t THEN ReadEnd' ELSE db.off[t])
    BY <1>1 DEF RecordsOf, RecordOf, IsBlock
  <1> HIDE DEF l
  <1>8. ToolsOnce'
    BY <1>1 DEF ToolInv, ToolsOnce, IsBlock
  <1>9. ToolRowsExact'
    BY <1>1, <1>7 DEF ToolInv, ToolRowsExact
  <1> QED
    BY <1>1, <1>6, <1>7, <1>8, <1>9 DEF ToolInv

\* What one pass finds below an offset, it finds there when the agent has written on.
LEMMA AgentTools ==
  ASSUME TypeOK, BillingInv, ToolInv, Agent
  PROVE  ToolInv'
  <1>1. Grows /\ UNCHANGED <<db, read>>
    BY AgentGrows
  <1>2. ToolsOnce'
    BY AgentKeepsTools DEF ToolInv
  <1>3. ASSUME NEW t \in Transcripts, NEW u \in Tools, NEW n \in Nat, n <= Len(lines[t])
        PROVE  RecordsOf(t, u, n)' = RecordsOf(t, u, n)
    BY <1>1, <1>3, RecordsStay
  <1>4. \A t \in Transcripts : db.off[t] \in Nat /\ db.off[t] <= Len(lines[t])
    BY EndsInFile
  <1>5. ASSUME NEW t \in Transcripts, NEW u \in Tools
        PROVE  RecordsOf(t, u, db.off[t])' = RecordsOf(t, u, db.off[t])
    BY <1>1, <1>4, RecordsStay
  <1>6. ToolRowsExact'
    BY <1>1, <1>5 DEF ToolInv, ToolRowsExact
  <1>7. ASSUME read # None, NEW t \in Transcripts, NEW u \in Tools
        PROVE  (read.calls[<<t, u>>] =
                  CallOf(RecordsOf(t, u, IF t = read.t THEN ReadEnd ELSE db.off[t])))'
    <2>1. ReadEnd \in Nat /\ ReadEnd <= Len(lines[read.t]) /\ ReadEnd' = ReadEnd
      BY <1>1, <1>7, EndsInFile DEF ReadEnd
    <2>2. CASE t = read.t
      <3>1. RecordsOf(t, u, ReadEnd)' = RecordsOf(t, u, ReadEnd)
        BY <1>1, <2>1, <2>2, RecordsStay
      <3> QED
        BY <1>1, <1>7, <2>2, <3>1 DEF ToolInv
    <2>3. CASE t # read.t
      BY <1>1, <1>5, <1>7, <2>3 DEF ToolInv
    <2> QED
      BY <2>2, <2>3
  <1> QED
    BY <1>1, <1>2, <1>6, <1>7 DEF ToolInv

LEMMA StepTools ==
  ASSUME TypeOK, BillingInv, ToolInv, [Next]_vars
  PROVE  ToolInv'
  <1>0. ASSUME UNCHANGED lines  PROVE ToolsOnce'
    BY <1>0 DEF ToolInv, ToolsOnce, IsBlock
  <1>1. ASSUME UNCHANGED <<lines, db>>  PROVE ToolRowsExact'
    <2>1. ASSUME NEW t \in Transcripts, NEW u \in Tools
          PROVE  RecordsOf(t, u, db.off[t])' = RecordsOf(t, u, db.off[t])
      BY <1>1 DEF RecordsOf, RecordOf, IsBlock
    <2> QED
      BY <1>1, <2>1 DEF ToolInv, ToolRowsExact
  <1>2. CASE Agent
    BY <1>2, AgentTools
  <1>3. ASSUME NEW t \in Transcripts, BeginRead(t)
        PROVE  ToolInv'
    <2>1. PICK from \in 0..db.off[t] : read' = Starting(t, from)
      BY <1>3 DEF BeginRead
    <2>2. db.off[t] \in Nat
      BY EndsInFile
    <2>3. /\ read'.t = t /\ read'.calls = db.calls /\ ReadEnd' = db.off[t]
          /\ UNCHANGED <<lines, db>>
      BY <1>3, <2>1, <2>2 DEF Starting, BeginRead, ReadEnd
    <2>4. ASSUME NEW s \in Transcripts, NEW u \in Tools
          PROVE  RecordsOf(s, u, IF s = read.t THEN ReadEnd ELSE db.off[s])'
                   = RecordsOf(s, u, db.off[s])
      BY <2>3 DEF RecordsOf, RecordOf, IsBlock
    <2>5. ToolsOnce' /\ ToolRowsExact'
      BY <1>0, <1>1, <2>3
    <2>6. \A s \in Transcripts, u \in Tools :
            read'.calls[<<s, u>>] = CallOf(RecordsOf(s, u, db.off[s]))
      BY <2>3 DEF ToolInv, ToolRowsExact
    <2> QED
      BY <2>4, <2>5, <2>6 DEF ToolInv
  <1>4. CASE ReadLine
    BY <1>4, ReadLineTools
  <1>5. CASE EndRead
    <2>1. /\ read # None /\ read' = None /\ lines' = lines /\ db'.calls = read.calls
          /\ db'.off = [db.off EXCEPT ![read.t] = ReadEnd]
      BY <1>5 DEF EndRead, ReadEnd
    <2>2. \A t \in Transcripts : db'.off[t] = IF t = read.t THEN ReadEnd ELSE db.off[t]
      BY <2>1 DEF TypeOK
    <2>3. ASSUME NEW t \in Transcripts, NEW u \in Tools
          PROVE  RecordsOf(t, u, db.off[t])'
                   = RecordsOf(t, u, IF t = read.t THEN ReadEnd ELSE db.off[t])
      BY <2>1, <2>2 DEF RecordsOf, RecordOf, IsBlock
    <2>4. ASSUME NEW t \in Transcripts, NEW u \in Tools
          PROVE  (db.calls[<<t, u>>] = CallOf(RecordsOf(t, u, db.off[t])))'
      <3>1. read.calls[<<t, u>>] =
              CallOf(RecordsOf(t, u, IF t = read.t THEN ReadEnd ELSE db.off[t]))
        BY <2>1, Zenon DEF ToolInv
      <3> QED
        BY <2>1, <2>3, <3>1
    <2>5. ToolRowsExact'
      BY <2>4 DEF ToolRowsExact
    <2> QED
      BY <1>0, <2>1, <2>5 DEF ToolInv
  <1>6. CASE AbortRead
    BY <1>0, <1>1, <1>6 DEF AbortRead, ToolInv
  <1>7. CASE UNCHANGED vars
    <2>1. UNCHANGED <<lines, db, read>> /\ ReadEnd' = ReadEnd
      BY <1>7 DEF vars, ReadEnd
    <2>2. ASSUME NEW t \in Transcripts, NEW u \in Tools
          PROVE  RecordsOf(t, u, IF t = read.t THEN ReadEnd ELSE db.off[t])'
                   = RecordsOf(t, u, IF t = read.t THEN ReadEnd ELSE db.off[t])
      BY <2>1 DEF RecordsOf, RecordOf, IsBlock
    <2> QED
      BY <1>0, <1>1, <2>1, <2>2 DEF ToolInv
  <1> QED
    BY <1>2, <1>3, <1>4, <1>5, <1>6, <1>7 DEF Next

\* The row of a tool call is what one pass over the stored lines says, whatever
\* pieces the lines were read in and however often: the upsert may meet a call and
\* its result in either order and again (store.py:130-152).
THEOREM ToolRows == Spec => []ToolRowsExact
  <1>1. TypeOK /\ BillingInv /\ ToolInv /\ [Next]_vars => ToolInv'
    BY StepTools
  <1>2. ToolInv => ToolRowsExact
    BY DEF ToolInv
  <1> QED
    BY <1>1, <1>2, InitTools, Invariance, PTL DEF Spec

--------------------------------------------------------------------------------
\* The ledger.

LEMMA HeldIs ==
  \A w : w \in Held <=>
    \E t \in Transcripts : \E x \in 1..Len(lines[t]) :
      /\ IsBlock(lines[t][x]) /\ lines[t][x].msg # None
      /\ w = <<t, <<lines[t][x].msg, lines[t][x].req>>>>
  BY DEF Held, HeldBy, LineSet

LEMMA HeldInLedger ==
  ASSUME TypeOK'
  PROVE  Held' \subseteq Transcripts \X (Responses \X BOOLEAN)
  <1> SUFFICES ASSUME NEW t \in Transcripts, NEW x \in 1..Len(lines'[t]),
                      IsBlock(lines'[t][x]), lines'[t][x].msg # None
               PROVE  <<t, <<lines'[t][x].msg, lines'[t][x].req>>>>
                        \in Transcripts \X (Responses \X BOOLEAN)
    BY DEF Held, HeldBy, LineSet, IsBlock
  <1>1. lines'[t][x] \in Line
    BY ElementOfSeq DEF TypeOK
  <1> QED
    BY <1>1, LineFields

\* What the transcripts hold stays held.
LEMMA HeldGrows ==
  ASSUME TypeOK, TypeOK', Grows
  PROVE  Held \subseteq Held'
  <1> SUFFICES ASSUME NEW w \in Held  PROVE w \in Held'
    OBVIOUS
  <1>0. PICK t \in Transcripts : \E x \in 1..Len(lines[t]) :
          /\ IsBlock(lines[t][x]) /\ lines[t][x].msg # None
          /\ w = <<t, <<lines[t][x].msg, lines[t][x].req>>>>
    BY HeldIs
  <1>1. PICK x \in 1..Len(lines[t]) :
          /\ IsBlock(lines[t][x]) /\ lines[t][x].msg # None
          /\ w = <<t, <<lines[t][x].msg, lines[t][x].req>>>>
    BY <1>0
  <1>2. Len(lines[t]) \in Nat /\ Len(lines'[t]) \in Nat
    BY LenProperties DEF TypeOK
  <1>3. x \in 1..Len(lines'[t]) /\ lines'[t][x] = lines[t][x]
    BY <1>2 DEF Grows
  <1>4. lines'[t][x] \in LineSet(t)' /\ IsBlock(lines'[t][x])
    BY <1>1, <1>3 DEF LineSet
  <1>5. w \in HeldBy(t)'
    BY <1>1, <1>3, <1>4 DEF HeldBy, IsBlock
  <1> QED
    BY <1>5 DEF Held

\* A line adds the row of its own message, for the transcript that is read.
LEMMA LineAttributes ==
  ASSUME NEW r \in Read, NEW l \in Line, NEW k \in Responses \X BOOLEAN
  PROVE  LET new == IF IsBlock(l) THEN AssistantLine(r, l) ELSE UserLine(r, l)
         IN  \/ new.msgs[k] = r.msgs[k]
             \/ /\ IsBlock(l) /\ l.msg # None /\ k = <<l.msg, l.req>>
                /\ new.msgs[k] = r.t
  <1> DEFINE new == IF IsBlock(l) THEN AssistantLine(r, l) ELSE UserLine(r, l)
  <1>1. CASE ~IsBlock(l) \/ Collapsed(r, l)
    <2>1. new.msgs = r.msgs
      BY <1>1 DEF AssistantLine, UserLine, Read
    <2> QED
      BY <2>1
  <1>2. CASE IsBlock(l) /\ ~Collapsed(r, l)
    <2>1. l.msg # None
      BY <1>2 DEF Collapsed
    <2>2. new.msgs = InsertFirst(r.msgs, MessageKey(l), r.t)
      BY <1>2 DEF AssistantLine, Read
    <2>3. r.msgs \in [Responses \X BOOLEAN -> Transcripts \cup {None}]
      BY DEF Read, Msgs
    <2>4. new.msgs[k] = IF k = <<l.msg, l.req>> /\ r.msgs[k] = None THEN r.t ELSE r.msgs[k]
      BY <2>2, <2>3 DEF InsertFirst, MessageKey
    <2> QED
      BY <1>2, <2>1, <2>4
  <1> QED
    BY <1>1, <1>2

LEMMA InitLedger == Init => LedgerInv
  BY DEF Init, LedgerInv, Attributed

LEMMA StepLedger ==
  ASSUME TypeOK, TypeOK', BillingInv, LedgerInv, [Next]_vars
  PROVE  LedgerInv' /\ [SessionLedger!Next]_<<Held, db.msgs>>
  <1>1. ASSUME UNCHANGED lines  PROVE Held' = Held
    BY <1>1 DEF Held, HeldBy, LineSet, IsBlock
  <1>2. CASE Agent
    <2>1. Held \subseteq Held' /\ UNCHANGED <<db, read>>
      BY <1>2, AgentGrows, HeldGrows
    <2>2. LedgerInv'
      BY <2>1 DEF LedgerInv, Attributed
    <2>3. Held' \subseteq Transcripts \X (Responses \X BOOLEAN)
      BY HeldInLedger
    <2> QED
      BY <2>1, <2>2, <2>3 DEF SessionLedger!Next, SessionLedger!Write
  <1>3. ASSUME NEW t \in Transcripts, BeginRead(t)
        PROVE  LedgerInv' /\ UNCHANGED <<Held, db.msgs>>
    <2>1. read'.msgs = db.msgs /\ UNCHANGED <<lines, db>>
      BY <1>3 DEF BeginRead, Starting
    <2> QED
      BY <1>1, <2>1 DEF LedgerInv, Attributed
  <1>4. CASE ReadLine
    <2> DEFINE l == lines[read.t][read.pos + 1]
    <2>1. /\ read # None /\ read \in Read /\ l \in Line /\ read.t \in Transcripts
          /\ read.pos + 1 \in 1..Len(lines[read.t])
          /\ read' = IF IsBlock(l) THEN AssistantLine(read, l) ELSE UserLine(read, l)
          /\ UNCHANGED <<lines, db>>
      BY <1>4, LineRead, EndsInFile
    <2>2. IsBlock(l) /\ l.msg # None => <<read.t, <<l.msg, l.req>>>> \in Held
      BY <2>1, HeldIs
    <2> HIDE DEF l
    <2>3. ASSUME NEW k \in Responses \X BOOLEAN, read'.msgs[k] # None
          PROVE  <<read'.msgs[k], k>> \in Held
      <3>1. CASE read'.msgs[k] = read.msgs[k]
        BY <2>1, <2>3, <3>1 DEF LedgerInv, Attributed
      <3>2. CASE /\ IsBlock(l) /\ l.msg # None /\ k = <<l.msg, l.req>>
                 /\ read'.msgs[k] = read.t
        BY <2>2, <3>2
      <3> QED
        BY <2>1, <3>1, <3>2, LineAttributes
    <2> QED
      BY <1>1, <2>1, <2>3 DEF LedgerInv, Attributed
  <1>5. CASE EndRead
    <2>1. read # None /\ read' = None /\ lines' = lines /\ db'.msgs = read.msgs
      BY <1>5 DEF EndRead
    <2>2. Held' = Held /\ Attributed(read.msgs)
      BY <1>1, <2>1 DEF LedgerInv
    <2>3. LedgerInv'
      BY <2>1, <2>2 DEF LedgerInv, Attributed
    <2>4. db'.msgs \in [Responses \X BOOLEAN -> Transcripts \cup {None}]
      BY DEF TypeOK, Msgs
    <2>5. ASSUME NEW k \in Responses \X BOOLEAN
          PROVE  \/ db'.msgs[k] = db.msgs[k]
                 \/ /\ db.msgs[k] = None
                    /\ db'.msgs[k] \in SessionLedger!Attributions(k)
      <3>1. CASE db.msgs[k] # None
        BY <1>5, <3>1, EndReadInv
      <3>2. CASE db.msgs[k] = None /\ db'.msgs[k] # None
        <4>1. db'.msgs[k] \in Transcripts /\ <<db'.msgs[k], k>> \in Held
          BY <2>1, <2>2, <2>4, <3>2 DEF Attributed
        <4> QED
          BY <3>2, <4>1 DEF SessionLedger!Attributions
      <3> QED
        BY <3>1, <3>2
    <2> QED
      BY <2>2, <2>3, <2>4, <2>5 DEF SessionLedger!Next, SessionLedger!Record
  <1>6. CASE AbortRead \/ UNCHANGED vars
    BY <1>1, <1>6 DEF AbortRead, vars, LedgerInv, Attributed
  <1> QED
    BY <1>2, <1>3, <1>4, <1>5, <1>6 DEF Next

\* "First write wins" (docs/adr/0005) with the keys and the collapse of the parser:
\* blocks of one response, resumed copies and reads from anywhere only ever record
\* messages that are written, each for a session that has it.
THEOREM LedgerImplemented == Spec => ImplementsLedger
  <1>1. Init => SessionLedger!Init
    <2> SUFFICES ASSUME Init  PROVE SessionLedger!Init
      OBVIOUS
    <2>1. \A t \in Transcripts : Len(lines[t]) = 0
      BY DEF Init
    <2>2. Held = {}
      BY <2>1, HeldIs
    <2> QED
      BY <2>2 DEF Init, SessionLedger!Init
  <1>2. TypeOK /\ TypeOK' /\ BillingInv /\ LedgerInv /\ [Next]_vars =>
          LedgerInv' /\ [SessionLedger!Next]_<<Held, db.msgs>>
    BY StepLedger
  <1>3. Spec => [](TypeOK /\ BillingInv)
    BY Invariance
  <1> QED
    BY <1>1, <1>2, <1>3, InitLedger, PTL DEF Spec, ImplementsLedger, SessionLedger!Spec

--------------------------------------------------------------------------------
\* Subagent runs: the step, and what it does to a transcript.

\* What the module adds to a step leaves the transcripts and their rows alone.
LEMMA StepOfTranscripts ==
  ASSUME [RunsNext]_<<vars, runVars>>
  PROVE  [Next]_vars
  BY DEF RunsNext, Next, BeginFile, ParseLine, CommitFile, RollBackFile

\* Every theorem about the transcripts holds of them here, too.
THEOREM RunsAreTranscripts == RunsSpec => Spec
  <1>1. RunsInit => Init
    BY DEF RunsInit
  <1>2. [RunsNext]_<<vars, runVars>> => [Next]_vars
    BY StepOfTranscripts
  <1> QED
    BY <1>1, <1>2, PTL DEF RunsSpec, Spec

LEMMA SomethingIsThere ==
  /\ \A row : row \in Run => row # None
  /\ \A b : b \in Batch => b # None
  /\ \A r : r \in Read => r # None
  BY NoneAssumption

\* A run that is announced has a row, and keeps where it started.
LEMMA AnnouncedRun ==
  ASSUME NEW table \in RunTable, NEW k \in Transcripts, NEW row \in Run
  PROVE  LET new == UpsertRun(table, k, row)
         IN  /\ new \in RunTable /\ new[k] # None
             /\ new[k].started = IF table[k] = None THEN row.started ELSE table[k].started
             /\ \A s \in Transcripts \ {k} : new[s] = table[s]
  <1> DEFINE new  == UpsertRun(table, k, row)
             done == [table[k] EXCEPT !.model = row.model]
  <1>1. new = [table EXCEPT ![k] = IF table[k] = None THEN row ELSE done]
    BY DEF UpsertRun
  <1>2. CASE table[k] = None
    <2>1. new = [table EXCEPT ![k] = row]
      BY <1>1, <1>2
    <2> QED
      BY <1>2, <2>1, SomethingIsThere DEF RunTable
  <1>3. CASE table[k] # None
    <2>1. table[k] \in Run
      BY <1>3 DEF RunTable
    <2>2. done \in Run /\ done.started = table[k].started
      BY <2>1 DEF Run
    <2>3. new = [table EXCEPT ![k] = done]
      BY <1>1, <1>3
    <2> HIDE DEF new, done
    <2>4. new \in RunTable /\ new[k] = done /\ \A s \in Transcripts \ {k} : new[s] = table[s]
      BY <2>2, <2>3 DEF RunTable
    <2> QED
      BY <1>3, <2>2, <2>4, SomethingIsThere DEF new
  <1> QED
    BY <1>2, <1>3

\* The batch after a line.
LEMMA NextBatch ==
  ASSUME NEW r \in Read, NEW b \in Batch, NEW l \in Line
  PROVE  LET c == BatchLine(r, b, l)
         IN  /\ c \in Batch
             /\ c.table = IF Announces(r, b, l)
                          THEN UpsertRun(b.table, r.t, [started |-> l.ts, model |-> l.msg])
                          ELSE b.table
             /\ c.told => b.told \/ Announces(r, b, l)
             /\ Announces(r, b, l) => /\ IsBlock(l) /\ l.msg \in Spawned
                                      /\ [started |-> l.ts, model |-> l.msg] \in Run
  <1>1. Announces(r, b, l) => /\ IsBlock(l) /\ l.msg \in Spawned
                              /\ [started |-> l.ts, model |-> l.msg] \in Run
    BY LineFields, SubagentAssumption DEF Announces, Run
  <1> DEFINE tab == IF Announces(r, b, l)
                    THEN UpsertRun(b.table, r.t, [started |-> l.ts, model |-> l.msg])
                    ELSE b.table
             n   == IF b.n + 1 = BatchSize THEN 0 ELSE b.n + 1
             tld == (b.told \/ Announces(r, b, l)) /\ ~(b.n + 1 = BatchSize)
  <1>2. b.table \in RunTable /\ b.n \in 0..(BatchSize - 1) /\ r.t \in Transcripts
    BY DEF Batch, Read
  <1>3. tab \in RunTable
    BY <1>1, <1>2, AnnouncedRun
  <1>4. n \in 0..(BatchSize - 1)
    BY <1>2, SubagentAssumption
  <1>5. tld \in BOOLEAN
    OBVIOUS
  <1>6. BatchLine(r, b, l) = [table |-> tab, n |-> n, told |-> tld]
    BY DEF BatchLine
  <1>7. (tld => b.told \/ Announces(r, b, l))
    OBVIOUS
  <1>8. tab = IF Announces(r, b, l)
              THEN UpsertRun(b.table, r.t, [started |-> l.ts, model |-> l.msg])
              ELSE b.table
    OBVIOUS
  <1> HIDE DEF tab, n, tld
  <1> QED
    BY <1>1, <1>3, <1>4, <1>5, <1>6, <1>7, <1>8 DEF Batch

LEMMA InitRuns == RunsInit => RunsTypeOK
  BY DEF RunsInit, Init, RunsTypeOK, RunTable

LEMMA StepRunsType ==
  ASSUME TypeOK, BillingInv, RunsTypeOK, [RunsNext]_<<vars, runVars>>
  PROVE  RunsTypeOK'
  <1>1. CASE Agent /\ UNCHANGED runVars
    BY <1>1, AgentGrows DEF runVars, RunsTypeOK
  <1>2. ASSUME NEW t \in Transcripts, BeginFile(t)
        PROVE  RunsTypeOK'
    <2>1. read' # None
      <3>1. read' \in Read
        <4>1. PICK from \in 0..db.off[t] : read' = Starting(t, from)
          BY <1>2 DEF BeginFile, BeginRead
        <4>2. from \in Nat
          BY DEF TypeOK
        <4> QED
          BY <4>1, <4>2 DEF Starting, Read, TypeOK
      <3> QED
        BY <3>1, SomethingIsThere
    <2>2. [table |-> runs, n |-> 0, told |-> FALSE] \in Batch
      BY SubagentAssumption DEF RunsTypeOK, Batch
    <2> QED
      BY <1>2, <2>1, <2>2, SomethingIsThere DEF BeginFile, RunsTypeOK
  <1>3. CASE ParseLine
    <2>1. read # None /\ read' # None /\ read \in Read /\ batch \in Batch
          /\ lines[read.t][read.pos + 1] \in Line
      BY <1>3, LineRead, EndsInFile DEF ParseLine, RunsTypeOK
    <2>2. batch' \in Batch
      BY <1>3, <2>1, NextBatch DEF ParseLine
    <2> QED
      BY <1>3, <2>1, <2>2, SomethingIsThere DEF ParseLine, RunsTypeOK
  <1>4. CASE CommitFile
    <2>1. read' = None /\ batch' = None /\ runs' = batch.table /\ batch \in Batch
      BY <1>4 DEF CommitFile, EndRead, RunsTypeOK
    <2> QED
      BY <2>1 DEF RunsTypeOK, Batch
  <1>5. CASE RollBackFile
    BY <1>5 DEF RollBackFile, AbortRead, RunsTypeOK
  <1>6. CASE UNCHANGED <<vars, runVars>>
    BY <1>6 DEF vars, runVars, RunsTypeOK
  <1> QED
    BY <1>1, <1>2, <1>3, <1>4, <1>5, <1>6 DEF RunsNext

\* What holds of the transcripts, and the types of the runs.
LEMMA RunsInvariance == RunsSpec => [](TypeOK /\ BillingInv /\ RunsTypeOK)
  <1>1. TypeOK /\ BillingInv /\ RunsTypeOK /\ [RunsNext]_<<vars, runVars>> => RunsTypeOK'
    BY StepRunsType
  <1> QED
    BY <1>1, InitRuns, RunsAreTranscripts, Invariance, PTL DEF RunsSpec

\* The row of a run has its start and its model, and a batch lives as long as its
\* read: nothing of a file that was rolled back is left for the next one.
THEOREM RunsTypeCorrect == RunsSpec => []RunsTypeOK
  <1> QED
    BY RunsInvariance, PTL

--------------------------------------------------------------------------------
\* Subagent runs: the row and the lines.

\* Lines that stay, in a table that stays, have the row they had.
LEMMA RunStays ==
  ASSUME TypeOK, Grows, NEW t \in Transcripts, NEW n \in Nat, n <= Len(lines[t]),
         NEW table
  PROVE  /\ Spoken(t, n)' = Spoken(t, n)
         /\ RunExact(table, t, n) => RunExact(table, t, n)'
  <1>1. \A x \in 1..n : lines'[t][x] = lines[t][x]
    <2>1. Len(lines[t]) \in Nat
      BY LenProperties DEF TypeOK
    <2> QED
      BY <2>1 DEF Grows
  <1>2. Spoken(t, n)' = Spoken(t, n)
    BY <1>1 DEF Spoken, IsBlock
  <1>3. Spoken(t, n) \subseteq 1..n
    BY DEF Spoken
  <1>4. RunExact(table, t, n) => RunExact(table, t, n)'
    BY <1>1, <1>2, <1>3 DEF RunExact
  <1> QED
    BY <1>2, <1>4

\* One line more, or one line again.
LEMMA NextRun ==
  ASSUME TypeOK, NEW t \in Transcripts, NEW n \in Nat, NEW m \in Nat,
         NEW x \in 1..m,
         (m = n /\ x <= n) \/ (m = n + 1 /\ x = m),
         NEW table, NEW new, RunExact(table, t, n),
         \* The row is kept as it was begun, or begun here ...
         table[t] # None => new[t] # None /\ new[t].started = table[t].started,
         table[t] = None /\ new[t] # None =>
           x \in Spoken(t, m) /\ new[t].started = lines[t][x].ts,
         \* ... if the subagent speaks here.
         x \in Spoken(t, m) => new[t] # None
  PROVE  RunExact(new, t, m)
  <1>1. Spoken(t, n) \subseteq 1..n /\ Spoken(t, n) \subseteq Spoken(t, m)
    BY DEF Spoken
  <1>2. Spoken(t, m) = IF x \in Spoken(t, m) THEN Spoken(t, n) \cup {x} ELSE Spoken(t, n)
    BY DEF Spoken
  <1>3. CASE table[t] # None
    <2>1. PICK y \in Spoken(t, n) : /\ \A z \in Spoken(t, n) : y <= z
                                    /\ table[t].started = lines[t][y].ts
      BY <1>3 DEF RunExact
    <2>2. y \in Spoken(t, m) /\ y <= n
      BY <1>1, <2>1
    <2>3. x \in Spoken(t, m) => y <= x
      <3>1. CASE m = n + 1 /\ x = m
        BY <1>1, <2>2, <3>1
      <3>2. CASE m = n /\ x <= n
        BY <2>1, <3>2
      <3> QED
        BY <3>1, <3>2
    <2>4. \A z \in Spoken(t, m) : y <= z
      BY <1>1, <1>2, <2>1, <2>3
    <2>5. new[t].started = lines[t][y].ts /\ new[t] # None
      BY <1>3, <2>1
    <2> QED
      BY <2>2, <2>4, <2>5 DEF RunExact
  <1>4. CASE table[t] = None
    <2>1. Spoken(t, n) = {}
      BY <1>4 DEF RunExact
    <2>2. CASE x \in Spoken(t, m)
      <3>1. Spoken(t, m) = {x}
        BY <1>2, <2>1, <2>2
      <3>2. new[t] # None /\ new[t].started = lines[t][x].ts
        BY <1>4, <2>2
      <3> QED
        BY <3>1, <3>2 DEF RunExact
    <2>3. CASE x \notin Spoken(t, m)
      <3>1. Spoken(t, m) = {} /\ new[t] = None
        BY <1>2, <1>4, <2>1, <2>3
      <3> QED
        BY <3>1 DEF RunExact
    <2> QED
      BY <2>2, <2>3
  <1> QED
    BY <1>3, <1>4

LEMMA InitRunsInv == RunsInit => RunsInv
  <1> SUFFICES ASSUME RunsInit  PROVE RunsInv
    OBVIOUS
  <1>1. \A t \in Transcripts : runs[t] = None /\ db.off[t] = 0
    BY DEF RunsInit, Init
  <1>2. \A t \in Transcripts : Spoken(t, db.off[t]) = {}
    BY <1>1 DEF Spoken
  <1> QED
    BY <1>1, <1>2 DEF RunsInv, SubagentRunExact, RunExact, RunsInit, Init

\* A line of the subagent is the first one, or one that the table has a row for.
LEMMA ParseLineRuns ==
  ASSUME TypeOK, BillingInv, RunsTypeOK, RunsInv, ParseLine
  PROVE  RunsInv'
  <1> DEFINE l   == lines[read.t][read.pos + 1]
             run == [started |-> l.ts, model |-> l.msg]
  <1>0. ReadLine /\ UNCHANGED runs /\ batch' = BatchLine(read, batch, l)
    BY DEF ParseLine
  <1>1. /\ read # None /\ l \in Line /\ read.pos + 1 \in 1..Len(lines[read.t])
        /\ read' = IF IsBlock(l) THEN AssistantLine(read, l) ELSE UserLine(read, l)
        /\ UNCHANGED <<lines, db>>
        /\ read' # None /\ read'.t = read.t /\ read'.pos = read.pos + 1
        /\ \/ ReadEnd' = ReadEnd /\ read.pos + 1 <= ReadEnd
           \/ ReadEnd' = ReadEnd + 1 /\ read.pos = ReadEnd
    BY <1>0, LineRead
  <1>2. /\ read \in Read /\ read.t \in Transcripts /\ read.pos \in Nat /\ ReadEnd \in Nat
        /\ read.pos <= ReadEnd /\ ReadEnd <= Len(lines[read.t]) /\ Len(lines[read.t]) \in Nat
    BY <1>1, EndsInFile
  <1>3. batch \in Batch /\ batch.table \in RunTable
    BY <1>1 DEF RunsTypeOK, Batch
  <1>4. /\ batch'.table = IF Announces(read, batch, l)
                          THEN UpsertRun(batch.table, read.t, run)
                          ELSE batch.table
        /\ batch'.told => batch.told \/ Announces(read, batch, l)
        /\ Announces(read, batch, l) => IsBlock(l) /\ l.msg \in Spawned /\ run \in Run
    BY <1>0, <1>1, <1>2, <1>3, NextBatch
  <1>5. /\ \A t \in Transcripts \ {read.t} : batch.table[t] = runs[t]
        /\ RunExact(batch.table, read.t, ReadEnd)
        /\ batch.told => batch.table[read.t] # None
        /\ read.seen \cap Spawned # {} => Spoken(read.t, read.pos) # {}
        /\ SubagentRunExact
    BY <1>1 DEF RunsInv
  <1>6. /\ read.pos + 1 \in 1..ReadEnd' /\ ReadEnd' \in Nat
        /\ \/ ReadEnd' = ReadEnd /\ read.pos + 1 <= ReadEnd
           \/ ReadEnd' = ReadEnd + 1 /\ read.pos + 1 = ReadEnd'
    BY <1>1, <1>2
  <1>7. \A n \in Nat : read.pos + 1 <= n =>
          (read.pos + 1 \in Spoken(read.t, n) <=> IsBlock(l) /\ l.msg \in Spawned)
    BY <1>2 DEF Spoken
  <1>8. Spoken(read.t, read.pos) # {} => batch.table[read.t] # None
    <2>1. Spoken(read.t, read.pos) \subseteq Spoken(read.t, ReadEnd)
      BY <1>2 DEF Spoken
    <2> QED
      BY <1>5, <2>1 DEF RunExact
  \* What keeps the read from announcing the run says that it has a row.
  <1>9. IsBlock(l) /\ l.msg \in Spawned => Announces(read, batch, l) \/ batch.table[read.t] # None
    <2> HIDE DEF l
    <2> SUFFICES ASSUME IsBlock(l), l.msg \in Spawned, ~Announces(read, batch, l)
                 PROVE  batch.table[read.t] # None
      OBVIOUS
    <2>1. l.msg # None
      BY SubagentAssumption, ClaudeAssumption
    <2>2. l.msg \in read.seen \/ batch.told
      BY <2>1 DEF Announces, Collapsed
    <2> QED
      BY <1>5, <1>8, <2>2
  <1>10. RunExact(batch'.table, read.t, ReadEnd')
    <2> HIDE DEF l, run
    <2>1. CASE Announces(read, batch, l)
      <3>1. /\ batch'.table[read.t] # None
            /\ batch'.table[read.t].started =
                 IF batch.table[read.t] = None THEN run.started ELSE batch.table[read.t].started
        BY <1>2, <1>3, <1>4, <2>1, AnnouncedRun
      <3>2. read.pos + 1 \in Spoken(read.t, ReadEnd')
        BY <1>4, <1>6, <1>7, <2>1
      <3>3. run.started = lines[read.t][read.pos + 1].ts
        BY DEF run, l
      <3>4. /\ batch.table[read.t] # None =>
                 batch'.table[read.t].started = batch.table[read.t].started
            /\ batch.table[read.t] = None =>
                 batch'.table[read.t].started = lines[read.t][read.pos + 1].ts
        BY <3>1, <3>3
      <3> QED
        BY <1>2, <1>5, <1>6, <3>1, <3>2, <3>4, NextRun
    <2>2. CASE ~Announces(read, batch, l)
      <3>1. batch'.table = batch.table
        BY <1>4, <2>2
      <3>2. read.pos + 1 \in Spoken(read.t, ReadEnd') => batch'.table[read.t] # None
        BY <1>6, <1>7, <1>9, <2>2, <3>1
      <3> QED
        BY <1>2, <1>5, <1>6, <3>1, <3>2, NextRun
    <2> QED
      BY <2>1, <2>2
  <1>11. \A t \in Transcripts \ {read.t} : batch'.table[t] = runs[t]
    BY <1>2, <1>3, <1>4, <1>5, AnnouncedRun
  <1>12. batch'.told => batch'.table[read.t] # None
    BY <1>2, <1>3, <1>4, <1>5, AnnouncedRun
  <1>13. read'.seen \cap Spawned # {} => Spoken(read.t, read.pos + 1) # {}
    <2>1. read'.seen = read.seen \/ (IsBlock(l) /\ read'.seen = read.seen \cup {l.msg})
      <3> HIDE DEF l
      <3>1. UserLine(read, l).seen = read.seen
        BY <1>2 DEF UserLine, Read
      <3>2. Collapsed(read, l) => AssistantLine(read, l).seen = read.seen
        BY <1>2 DEF AssistantLine, Read
      <3>3. ~Collapsed(read, l) => AssistantLine(read, l).seen = read.seen \cup {l.msg}
        BY <1>2 DEF AssistantLine, Read
      <3> QED
        BY <1>1, <3>1, <3>2, <3>3
    <2>2. Spoken(read.t, read.pos) \subseteq Spoken(read.t, read.pos + 1)
      BY <1>2 DEF Spoken
    <2>3. IsBlock(l) /\ l.msg \in Spawned => read.pos + 1 \in Spoken(read.t, read.pos + 1)
      BY <1>2, <1>7
    <2> HIDE DEF l
    <2> QED
      BY <1>5, <2>1, <2>2, <2>3
  <1> HIDE DEF l, run
  <1>14. \A t \in Transcripts, n \in Nat : Spoken(t, n)' = Spoken(t, n)
    BY <1>1 DEF Spoken, IsBlock
  <1>15. SubagentRunExact'
    BY <1>0, <1>1, <1>5 DEF SubagentRunExact, RunExact, Spoken, IsBlock
  <1>16. RunExact(batch.table, read.t, ReadEnd)'
    BY <1>1, <1>10 DEF RunExact, Spoken, IsBlock
  <1>17. Spoken(read.t, read.pos)' = Spoken(read.t, read.pos + 1)
    BY <1>1 DEF Spoken, IsBlock
  <1> QED
    BY <1>0, <1>1, <1>11, <1>12, <1>13, <1>15, <1>16, <1>17 DEF RunsInv

LEMMA StepRunsInv ==
  ASSUME TypeOK, BillingInv, RunsTypeOK, RunsInv, [RunsNext]_<<vars, runVars>>
  PROVE  RunsInv'
  <1>0. ASSUME UNCHANGED <<lines, db, runs>>  PROVE SubagentRunExact'
    BY <1>0 DEF RunsInv, SubagentRunExact, RunExact, Spoken, IsBlock
  <1>1. CASE Agent /\ UNCHANGED runVars
    <2>1. Grows /\ UNCHANGED <<db, read, runs, batch>> /\ ReadEnd' = ReadEnd
      BY <1>1, AgentGrows DEF runVars, ReadEnd
    <2>2. \A t \in Transcripts : db.off[t] \in Nat /\ db.off[t] <= Len(lines[t])
      BY EndsInFile
    <2>3. ASSUME NEW t \in Transcripts
          PROVE  RunExact(runs, t, db.off[t])'
      <3>1. RunExact(runs, t, db.off[t])
        BY DEF RunsInv, SubagentRunExact
      <3> QED
        BY <2>1, <2>2, <3>1, RunStays
    <2>4. SubagentRunExact'
      BY <2>3 DEF SubagentRunExact
    <2>5. ASSUME read # None
          PROVE  /\ RunExact(batch.table, read.t, ReadEnd)'
                 /\ Spoken(read.t, read.pos)' = Spoken(read.t, read.pos)
      <3>1. /\ read.t \in Transcripts /\ read.pos \in Nat /\ read.pos <= Len(lines[read.t])
            /\ ReadEnd \in Nat /\ ReadEnd <= Len(lines[read.t])
        BY <2>5, EndsInFile, LenProperties
      <3>2. RunExact(batch.table, read.t, ReadEnd)
        BY <2>5 DEF RunsInv
      <3> QED
        BY <2>1, <3>1, <3>2, RunStays
    <2> QED
      BY <2>1, <2>4, <2>5 DEF RunsInv
  <1>2. ASSUME NEW t \in Transcripts, BeginFile(t)
        PROVE  RunsInv'
    <2>1. PICK from \in 0..db.off[t] : read' = Starting(t, from)
      BY <1>2 DEF BeginFile, BeginRead
    <2>2. db.off[t] \in Nat
      BY EndsInFile
    <2>3. /\ read'.t = t /\ read'.seen = {} /\ ReadEnd' = db.off[t]
          /\ batch'.table = runs /\ batch'.told = FALSE
          /\ UNCHANGED <<lines, db, runs>>
      BY <1>2, <2>1, <2>2 DEF Starting, BeginFile, BeginRead, ReadEnd
    <2>4. SubagentRunExact' /\ RunExact(runs, t, db.off[t])'
      BY <1>0, <2>3 DEF SubagentRunExact
    <2>5. RunExact(batch.table, read.t, ReadEnd)'
      BY <2>3, <2>4
    <2> QED
      BY <2>3, <2>4, <2>5 DEF RunsInv
  <1>3. CASE ParseLine
    BY <1>3, ParseLineRuns
  <1>4. CASE CommitFile
    <2>1. /\ read # None /\ read' = None /\ lines' = lines /\ runs' = batch.table
          /\ db'.off = [db.off EXCEPT ![read.t] = ReadEnd]
      BY <1>4 DEF CommitFile, EndRead, ReadEnd
    <2>2. \A t \in Transcripts : db'.off[t] = IF t = read.t THEN ReadEnd ELSE db.off[t]
      BY <2>1 DEF TypeOK
    <2>3. ASSUME NEW t \in Transcripts
          PROVE  RunExact(runs', t, db'.off[t])
      <3>1. CASE t = read.t
        BY <2>1, <2>2, <3>1 DEF RunsInv
      <3>2. CASE t # read.t
        BY <2>1, <2>2, <3>2 DEF RunsInv, SubagentRunExact, RunExact
      <3> QED
        BY <3>1, <3>2
    <2>4. ASSUME NEW t \in Transcripts
          PROVE  RunExact(runs, t, db.off[t])'
      BY <2>1, <2>3 DEF RunExact, Spoken, IsBlock
    <2>5. SubagentRunExact'
      BY <2>4 DEF SubagentRunExact
    <2> QED
      BY <2>1, <2>5 DEF RunsInv
  <1>5. CASE RollBackFile
    BY <1>0, <1>5 DEF RollBackFile, AbortRead, RunsInv
  <1>6. CASE UNCHANGED <<vars, runVars>>
    <2>1. UNCHANGED <<lines, db, read, runs, batch>> /\ ReadEnd' = ReadEnd
      BY <1>6 DEF vars, runVars, ReadEnd
    <2>2. SubagentRunExact'
      BY <1>0, <2>1
    <2> QED
      BY <2>1, <2>2 DEF RunsInv, RunExact, Spoken, IsBlock
  <1> QED
    BY <1>1, <1>2, <1>3, <1>4, <1>5, <1>6 DEF RunsNext

\* A subagent has one row as soon as a line of it is stored, and the row starts at
\* its first line, whatever batches and reads the lines came in (claude_code.py:304).
THEOREM OneRowPerSubagent == RunsSpec => []SubagentRunExact
  <1>1. TypeOK /\ BillingInv /\ RunsTypeOK /\ RunsInv /\ [RunsNext]_<<vars, runVars>> => RunsInv'
    BY StepRunsInv
  <1>2. RunsInv => SubagentRunExact
    BY DEF RunsInv
  <1> QED
    BY <1>1, <1>2, InitRunsInv, RunsInvariance, PTL DEF RunsSpec
================================================================================
