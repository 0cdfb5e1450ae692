-------------------------------- MODULE PiProofs --------------------------------
(***************************************************************************)
(* Theorems about PiSession for every set of files, turns, compactions,    *)
(* models and tools and every bound: its type invariant, that a turn is    *)
(* stored once, that no spend is passed over, that a compaction never gets *)
(* a model that was not active, that the row of a tool call is that of one *)
(* pass over the stored entries, and that turns and compactions are a      *)
(* ledger of what the files hold.                                          *)
(***************************************************************************)
EXTENDS PiSession, ToolCallProofs, SequenceTheorems, WellFoundedInduction

--------------------------------------------------------------------------------
\* What the entries and the rows of tool calls are.

LEMMA EntryTypes ==
  ASSUME NEW ts \in Nat
  PROVE  /\ Header \in Entry
         /\ \A m \in Models : ModelChange(m) \in Entry
         /\ \A e \in Turns, m \in MaybeModel, b \in BOOLEAN, u \in Tools \cup {None} :
              Turn(e, m, b, u, ts) \in Entry
         /\ \A u \in Tools : ToolResult(u, ts) \in Entry
         /\ \A e \in Compactions : Compaction(e) \in Entry
  <1>1. Header \in Entry
    BY DEF Entry
  <1>2. \A m \in Models : ModelChange(m) \in Entry
    BY DEF Entry
  <1>3. \A e \in Turns, m \in MaybeModel, b \in BOOLEAN, u \in Tools \cup {None} :
          Turn(e, m, b, u, ts) \in Entry
    BY DEF Entry, Turn
  <1>4. \A u \in Tools : ToolResult(u, ts) \in Entry
    BY DEF Entry, ToolResult
  <1>5. \A e \in Compactions : Compaction(e) \in Entry
    BY DEF Entry
  <1> QED
    BY <1>1, <1>2, <1>3, <1>4, <1>5

LEMMA EntryFields ==
  ASSUME NEW l \in Entry
  PROVE  /\ l.type \in {"session", "model_change", "message", "toolResult", "compaction"}
         /\ l.type = "model_change" => l.model \in Models
         /\ l.type = "message" => /\ l.id \in Turns /\ l.model \in MaybeModel
                                  /\ l.usage \in BOOLEAN
                                  /\ l.tool \in Tools \cup {None} /\ l.ts \in Nat
         /\ l.type = "toolResult" => l.tool \in Tools /\ l.ts \in Nat
         /\ l.type = "compaction" => l.id \in Compactions
  <1>1. CASE l = Header
    BY <1>1 DEF Header
  <1>2. CASE \E m \in Models : l = ModelChange(m)
    BY <1>2 DEF ModelChange
  <1>3. CASE l \in [type : {"message"}, id : Turns, model : MaybeModel, usage : BOOLEAN,
                    tool : Tools \cup {None}, ts : Nat]
    BY <1>3
  <1>4. CASE l \in [type : {"toolResult"}, tool : Tools, ts : Nat]
    BY <1>4
  <1>5. CASE \E e \in Compactions : l = Compaction(e)
    BY <1>5 DEF Compaction
  <1> QED
    BY <1>1, <1>2, <1>3, <1>4, <1>5 DEF Entry

\* A call or a result of a session leaves the table of tool calls one.
LEMMA CallStored ==
  ASSUME NEW calls \in Rows, NEW f \in Files, NEW u \in Tools, NEW row \in Row
  PROVE  UpsertCall(calls, <<f, u>>, row) \in Rows
  BY UpsertedCalls DEF Rows

\* An assistant entry changes the tool calls of a read that has a session and, if it
\* has usage, the active model and the messages.
LEMMA TurnLineIs ==
  ASSUME NEW r \in Read, r.session \in Files, NEW l \in Entry, l.type = "message"
  PROVE  /\ TurnLine(r, l) \in Read
         /\ TurnLine(r, l).file = r.file /\ TurnLine(r, l).pos = r.pos
         /\ TurnLine(r, l).session = r.session /\ TurnLine(r, l).comps = r.comps
         /\ TurnLine(r, l).calls =
              IF l.tool = None THEN r.calls
              ELSE UpsertCall(r.calls, <<r.session, l.tool>>, CallRow(l.ts))
         /\ l.usage = TRUE =>
              /\ TurnLine(r, l).model = Coalesce(l.model, r.model)
              /\ TurnLine(r, l).msgs =
                   InsertFirst(r.msgs, <<l.id, Coalesce(l.model, r.model)>>,
                     [session |-> r.session, model |-> Coalesce(l.model, r.model)])
         /\ l.usage = FALSE =>
              TurnLine(r, l).model = r.model /\ TurnLine(r, l).msgs = r.msgs
  <1> DEFINE m == Coalesce(l.model, r.model)
             c == IF l.tool = None THEN r.calls
                  ELSE UpsertCall(r.calls, <<r.session, l.tool>>, CallRow(l.ts))
             s == InsertFirst(r.msgs, <<l.id, m>>, [session |-> r.session, model |-> m])
             k == [r EXCEPT !.calls = c]
  <1>1. m \in MaybeModel
    BY EntryFields DEF Coalesce, Read
  <1>2. c \in Rows
    <2>1. r.calls \in Rows /\ l.tool \in Tools \cup {None} /\ l.ts \in Nat
      BY EntryFields DEF Read
    <2>2. CASE l.tool = None
      BY <2>1, <2>2
    <2>3. CASE l.tool # None
      BY <2>1, <2>3, HalfRows, CallStored
    <2> QED
      BY <2>2, <2>3
  <1>3. s \in Msgs
    <2>1. r.msgs \in Msgs /\ <<l.id, m>> \in Turns \X MaybeModel
      BY <1>1, EntryFields DEF Read
    <2>2. [session |-> r.session, model |-> m] \in Spend
      BY <1>1 DEF Spend
    <2> HIDE DEF m
    <2> QED
      BY <2>1, <2>2 DEF InsertFirst, Msgs
  <1>4. Called(r, l) = k
    <2>1. CASE l.tool = None
      <3>1. c = r.calls
        BY <2>1
      <3> HIDE DEF c
      <3>2. k = r
        BY <3>1 DEF Read
      <3> QED
        BY <2>1, <3>2 DEF Called
    <2>2. CASE l.tool # None
      BY <2>2, Zenon DEF Called
    <2> QED
      BY <2>1, <2>2
  <1>5. Sent(k, l, m) = [k EXCEPT !.msgs = s]
    <2>1. k.msgs = r.msgs /\ k.session = r.session
      BY DEF Read
    <2> HIDE DEF k, m
    <2> QED
      BY <2>1, Zenon DEF Sent, TurnKey
  <1>6. TurnLine(r, l) = IF l.usage THEN [[k EXCEPT !.msgs = s] EXCEPT !.model = m] ELSE k
    BY <1>4, <1>5, Zenon DEF TurnLine
  <1>7. l.usage \in BOOLEAN
    BY EntryFields
  <1> HIDE DEF m, c, s
  <1>8. /\ TurnLine(r, l) \in Read
        /\ TurnLine(r, l).file = r.file /\ TurnLine(r, l).pos = r.pos
        /\ TurnLine(r, l).session = r.session /\ TurnLine(r, l).comps = r.comps
        /\ TurnLine(r, l).calls = c
        /\ l.usage = TRUE  => TurnLine(r, l).model = m /\ TurnLine(r, l).msgs = s
        /\ l.usage = FALSE => TurnLine(r, l).model = r.model /\ TurnLine(r, l).msgs = r.msgs
    BY <1>1, <1>2, <1>3, <1>6, <1>7 DEF Read
  <1> QED
    BY <1>1, <1>8, Zenon DEF m, c, s

\* A line of any type leaves a read a read of the same file at the same place.
LEMMA ParsedType ==
  ASSUME NEW r \in Read, NEW l \in Entry
  PROVE  Parsed(r, l) \in Read /\ Parsed(r, l).file = r.file /\ Parsed(r, l).pos = r.pos
  <1>1. CASE l.type = "session"
    <2>1. Parsed(r, l) = [r EXCEPT !.session = r.file]
      BY <1>1 DEF Parsed, HeaderLine
    <2> QED
      BY <2>1 DEF Read
  <1>2. CASE l.type = "model_change"
    <2>1. Parsed(r, l) = [r EXCEPT !.model = l.model] /\ l.model \in MaybeModel
      BY <1>2, EntryFields DEF Parsed, ModelLine, MaybeModel
    <2> QED
      BY <2>1 DEF Read
  <1>3. CASE l.type \notin {"session", "model_change"} /\ r.session = None
    BY <1>3 DEF Parsed
  <1>4. CASE l.type = "message" /\ r.session # None
    <2>1. Parsed(r, l) = TurnLine(r, l) /\ r.session \in Files
      BY <1>4 DEF Parsed, Read
    <2>2. /\ TurnLine(r, l) \in Read
          /\ TurnLine(r, l).file = r.file /\ TurnLine(r, l).pos = r.pos
      BY <1>4, <2>1, TurnLineIs
    <2> QED
      BY <2>1, <2>2
  <1>5. CASE l.type = "toolResult" /\ r.session # None
    <2> DEFINE c == UpsertCall(r.calls, <<r.session, l.tool>>, ResultRow(l.ts, FALSE))
    <2>1. Parsed(r, l) = [r EXCEPT !.calls = c]
      BY <1>5, Zenon DEF Parsed, ResultLine
    <2>2. r.calls \in Rows /\ r.session \in Files /\ l.tool \in Tools /\ l.ts \in Nat
      BY <1>5, EntryFields DEF Read
    <2>3. c \in Rows
      BY <2>2, HalfRows, CallStored
    <2> HIDE DEF c
    <2> QED
      BY <2>1, <2>3 DEF Read
  <1>6. CASE l.type = "compaction" /\ r.session # None
    <2> DEFINE c == InsertFirst(r.comps, l.id, [session |-> r.session, model |-> r.model])
    <2>1. Parsed(r, l) = [r EXCEPT !.comps = c]
      BY <1>6, Zenon DEF Parsed, CompactionLine
    <2>2. r.comps \in Comps /\ l.id \in Compactions
      BY <1>6, EntryFields DEF Read
    <2>3. [session |-> r.session, model |-> r.model] \in Spend
      BY <1>6 DEF Read, Spend
    <2>4. c \in Comps
      BY <2>2, <2>3 DEF InsertFirst, Comps
    <2> HIDE DEF c
    <2> QED
      BY <2>1, <2>4 DEF Read
  <1> QED
    BY <1>1, <1>2, <1>3, <1>4, <1>5, <1>6, EntryFields

--------------------------------------------------------------------------------
\* Types.

LEMMA InitType == Init => TypeOK
  BY PiAssumption DEF Init, TypeOK, Msgs, Comps, Rows

LEMMA WrittenType ==
  ASSUME TypeOK, NEW f \in Files, NEW l \in Entry, Written(f, l)
  PROVE  TypeOK'
  <1>1. entries[f] \in Seq(Entry)
    BY DEF TypeOK
  <1>2. Append(entries[f], l) \in Seq(Entry)
    BY <1>1, AppendProperties
  <1> QED
    BY <1>2 DEF Written, TypeOK

\* What pi writes to a file, headers and copies aside, is an entry.
PiWrites(f) ==
  \/ \E m \in Models : WriteModelChange(f, m)
  \/ \E e \in Turns, m \in MaybeModel, b \in BOOLEAN, u \in Tools \cup {None} :
       WriteTurn(f, e, m, b, u)
  \/ \E u \in Tools : WriteResult(f, u)
  \/ \E e \in Compactions : WriteCompaction(f, e)

LEMMA WritesEntry ==
  ASSUME TypeOK, NEW f \in Files, PiWrites(f)
  PROVE  \E l \in Entry : l.type # "session" /\ Written(f, l)
  <1>1. now + 1 \in Nat
    BY DEF TypeOK
  <1>2. ASSUME NEW m \in Models, WriteModelChange(f, m)
        PROVE  \E l \in Entry : l.type # "session" /\ Written(f, l)
    <2>1. ModelChange(m) \in Entry /\ ModelChange(m).type # "session"
      BY <1>1, EntryTypes DEF ModelChange
    <2> QED
      BY <1>2, <2>1 DEF WriteModelChange
  <1>3. ASSUME NEW e \in Turns, NEW m \in MaybeModel, NEW b \in BOOLEAN,
               NEW u \in Tools \cup {None}, WriteTurn(f, e, m, b, u)
        PROVE  \E l \in Entry : l.type # "session" /\ Written(f, l)
    <2>1. Turn(e, m, b, u, now + 1) \in Entry /\ Turn(e, m, b, u, now + 1).type # "session"
      BY <1>1, EntryTypes DEF Turn
    <2> QED
      BY <1>3, <2>1 DEF WriteTurn
  <1>4. ASSUME NEW u \in Tools, WriteResult(f, u)
        PROVE  \E l \in Entry : l.type # "session" /\ Written(f, l)
    <2>1. ToolResult(u, now + 1) \in Entry /\ ToolResult(u, now + 1).type # "session"
      BY <1>1, EntryTypes DEF ToolResult
    <2> QED
      BY <1>4, <2>1 DEF WriteResult
  <1>5. ASSUME NEW e \in Compactions, WriteCompaction(f, e)
        PROVE  \E l \in Entry : l.type # "session" /\ Written(f, l)
    <2>1. Compaction(e) \in Entry /\ Compaction(e).type # "session"
      BY <1>1, EntryTypes DEF Compaction
    <2> QED
      BY <1>5, <2>1 DEF WriteCompaction
  <1> QED
    BY <1>2, <1>3, <1>4, <1>5 DEF PiWrites

LEMMA StepType ==
  ASSUME TypeOK, [Next]_vars
  PROVE  TypeOK'
  <1>1. ASSUME NEW f \in Files, PiWrites(f) PROVE TypeOK'
    BY <1>1, WritesEntry, WrittenType
  <1>2. ASSUME NEW f \in Files, StartFile(f) PROVE TypeOK'
    <2>1. <<Header>> \in Seq(Entry)
      BY EntryTypes
    <2> QED
      BY <1>2, <2>1 DEF StartFile, TypeOK
  <1>3. ASSUME NEW f \in Files, NEW g \in Files, Fork(f, g) PROVE TypeOK'
    BY <1>3 DEF Fork, TypeOK
  <1>4. ASSUME NEW f \in Files, BeginRead(f) PROVE TypeOK'
    <2>1. PICK from \in 0..db.off[f] : read' = Starting(f, from)
      BY <1>4 DEF BeginRead
    <2>2. from \in Nat /\ Fallback(f) \in Files \cup {None} /\ None \in MaybeModel
      BY DEF TypeOK, Fallback, MaybeModel
    <2>3. read' \in Read
      BY <2>1, <2>2 DEF Starting, Read, TypeOK
    <2> QED
      BY <1>4, <2>3 DEF BeginRead, TypeOK
  <1>5. CASE ReadLine
    <2>1. read \in Read /\ entries[read.file] \in Seq(Entry) /\ read.pos + 1 \in Nat
      BY <1>5 DEF ReadLine, TypeOK, Read
    <2> DEFINE l == entries[read.file][read.pos + 1]
    <2>2. read.pos + 1 \in 1..Len(entries[read.file])
      BY <1>5, <2>1, LenProperties DEF ReadLine, Read
    <2>3. l \in Entry
      BY <2>1, <2>2, ElementOfSeq
    <2>4. read' = [Parsed(read, l) EXCEPT !.pos = @ + 1]
      BY <1>5 DEF ReadLine
    <2> HIDE DEF l
    <2>5. Parsed(read, l) \in Read /\ Parsed(read, l).pos + 1 \in Nat
      BY <2>1, <2>3, ParsedType
    <2>6. read' \in Read
      BY <2>4, <2>5 DEF Read
    <2> QED
      BY <1>5, <2>6 DEF ReadLine, TypeOK
  <1>6. CASE EndRead
    <2>1. read \in Read
      BY <1>6 DEF EndRead, TypeOK
    <2> QED
      BY <1>6, <2>1 DEF EndRead, TypeOK, Read
  <1>7. CASE UNCHANGED vars
    BY <1>7 DEF vars, TypeOK
  <1> QED
    BY <1>1, <1>2, <1>3, <1>4, <1>5, <1>6, <1>7 DEF Next, Agent, PiWrites

\* Every reachable state is well typed: what a read makes of an entry, with or
\* without a session and a model, is always a row of its table.
THEOREM TypeCorrect == Spec => []TypeOK
  <1> QED
    BY InitType, StepType, PTL DEF Spec

--------------------------------------------------------------------------------
\* The active model.

LEMMA LeastNumber ==
  ASSUME NEW S \in SUBSET Nat, S # {}
  PROVE  \E x \in S : \A y \in S : x <= y
  <1>1. PICK x \in S : \A y \in S : <<y, x>> \notin OpToRel(<, Nat)
    BY NatLessThanWellFounded, WFMin
  <1>2. \A y \in S : ~(y < x)
    BY <1>1 DEF OpToRel
  <1> QED
    BY <1>2

\* A bounded set of numbers that is not empty has a greatest one.
LEMMA Greatest ==
  ASSUME NEW b \in Nat, NEW S \in SUBSET (1..b), S # {}
  PROVE  Max(S) \in S /\ \A y \in S : Max(S) >= y
  <1> DEFINE T == {b - x : x \in S}
  <1>1. \A x \in S : b - x \in Nat
    OBVIOUS
  <1>2. T \in SUBSET Nat /\ T # {}
    BY <1>1
  <1>3. PICK t \in T : \A u \in T : t <= u
    BY <1>2, LeastNumber
  <1>4. PICK x \in S : t = b - x
    BY <1>3
  <1>5. ASSUME NEW y \in S PROVE x >= y
    <2>1. b - y \in T
      OBVIOUS
    <2>2. b - x <= b - y
      BY <1>3, <1>4, <2>1, Zenon
    <2>3. x \in 1..b /\ y \in 1..b
      OBVIOUS
    <2> QED
      BY <2>2, <2>3
  <1> HIDE DEF T
  <1>6. (CHOOSE z \in S : \A y \in S : z >= y) \in S
        /\ \A y \in S : (CHOOSE z \in S : \A w \in S : z >= w) >= y
    BY <1>5, Zenon
  <1> QED
    BY <1>6, Zenon DEF Max

LEMMA ActiveFirst ==
  ASSUME NEW s
  PROVE  ActiveModel(s, 1) = None
  <1> DEFINE S == {y \in 1..(1 - 1) : SetsModel(s[y])}
  <1>1. S = {}
    OBVIOUS
  <1>2. ActiveModel(s, 1) = IF S = {} THEN None ELSE s[Max(S)].model
    BY DEF ActiveModel, LastModel
  <1> HIDE DEF S
  <1> QED
    BY <1>1, <1>2

\* An entry that names a model makes it the active one, any other leaves it.
LEMMA ActiveNext ==
  ASSUME NEW s, NEW x \in Nat \ {0}
  PROVE  ActiveModel(s, x + 1) = IF SetsModel(s[x]) THEN s[x].model ELSE ActiveModel(s, x)
  <1> DEFINE T == {y \in 1..((x + 1) - 1) : SetsModel(s[y])}
             S == {y \in 1..(x - 1) : SetsModel(s[y])}
  <1>1. (x + 1) - 1 = x /\ 1..x = 1..(x - 1) \cup {x}
    OBVIOUS
  <1>2. ActiveModel(s, x + 1) = IF T = {} THEN None ELSE s[Max(T)].model
    BY DEF ActiveModel, LastModel
  <1>3. ActiveModel(s, x) = IF S = {} THEN None ELSE s[Max(S)].model
    BY DEF ActiveModel, LastModel
  <1>4. CASE SetsModel(s[x])
    <2>1. x \in T /\ T \in SUBSET (1..x)
      BY <1>1, <1>4
    <2> HIDE DEF T
    <2>2. Max(T) \in T /\ Max(T) >= x
      BY <2>1, Greatest
    <2>3. Max(T) = x
      <3>1. Max(T) \in 1..x
        BY <2>1, <2>2, Zenon
      <3> QED
        BY <2>2, <3>1
    <2>4. T # {}
      BY <2>1
    <2> HIDE DEF SetsModel
    <2>5. ActiveModel(s, x + 1) = s[Max(T)].model
      BY <1>2, <2>4, Zenon
    <2> QED
      BY <1>4, <2>3, <2>5, Zenon
  <1>5. CASE ~SetsModel(s[x])
    <2>1. T = S
      BY <1>1, <1>5
    <2> HIDE DEF S, T
    <2> QED
      BY <1>2, <1>3, <1>5, <2>1
  <1> QED
    BY <1>4, <1>5

\* It depends only on what comes before.
LEMMA ActivePast ==
  ASSUME NEW s, NEW t, NEW x \in Nat \ {0}, \A z \in 1..(x - 1) : s[z] = t[z]
  PROVE  ActiveModel(s, x) = ActiveModel(t, x)
  <1> DEFINE S == {y \in 1..(x - 1) : SetsModel(s[y])}
             T == {y \in 1..(x - 1) : SetsModel(t[y])}
  <1>1. S = T /\ \A y \in S : s[y] = t[y]
    OBVIOUS
  <1>2. ActiveModel(s, x) = IF S = {} THEN None ELSE s[Max(S)].model
    BY DEF ActiveModel, LastModel
  <1>3. ActiveModel(t, x) = IF T = {} THEN None ELSE t[Max(T)].model
    BY DEF ActiveModel, LastModel
  <1>4. S \in SUBSET (1..(x - 1)) /\ x - 1 \in Nat
    OBVIOUS
  <1> HIDE DEF S, T
  <1>5. S # {} => Max(S) \in S
    BY <1>4, Greatest
  <1> QED
    BY <1>1, <1>2, <1>3, <1>5

--------------------------------------------------------------------------------
\* The entries grow: a line is appended, or a copy put into an empty file.

Logs == [Files -> Seq(Entry)]

Extended(es, fs) ==
  \A f \in Files : /\ Len(es[f]) <= Len(fs[f])
                   /\ \A x \in 1..Len(es[f]) : fs[f][x] = es[f][x]

Appended(es, f, l) == [es EXCEPT ![f] = Append(@, l)]

LEMMA AppendedAt ==
  ASSUME NEW es \in Logs, NEW f \in Files, NEW l \in Entry,
         NEW fs, fs = Appended(es, f, l)
  PROVE  /\ fs \in Logs
         /\ Extended(es, fs)
         /\ \A g \in Files : \A x \in 1..Len(fs[g]) :
              \/ x \in 1..Len(es[g]) /\ fs[g][x] = es[g][x]
              \/ g = f /\ x = Len(es[f]) + 1 /\ fs[g][x] = l
  <1>1. es[f] \in Seq(Entry) /\ fs[f] = Append(es[f], l)
    BY DEF Logs, Appended
  <1>2. \A g \in Files : g # f => fs[g] = es[g]
    BY DEF Logs, Appended
  <1>3. /\ Append(es[f], l) \in Seq(Entry)
        /\ Len(Append(es[f], l)) = Len(es[f]) + 1
        /\ \A x \in 1..Len(es[f]) : Append(es[f], l)[x] = es[f][x]
        /\ Append(es[f], l)[Len(es[f]) + 1] = l
    BY <1>1, AppendProperties
  <1>4. \A g \in Files : es[g] \in Seq(Entry) /\ Len(es[g]) \in Nat
    BY LenProperties DEF Logs
  <1>5. fs \in Logs
    BY <1>1, <1>3 DEF Logs, Appended
  <1>6. Extended(es, fs)
    BY <1>1, <1>2, <1>3, <1>4 DEF Extended
  <1>7. ASSUME NEW g \in Files, NEW x \in 1..Len(fs[g])
        PROVE  \/ x \in 1..Len(es[g]) /\ fs[g][x] = es[g][x]
               \/ g = f /\ x = Len(es[f]) + 1 /\ fs[g][x] = l
    BY <1>1, <1>2, <1>3, <1>4
  <1> QED
    BY <1>5, <1>6, <1>7

\* What was active at a line, or at the end, stays so.
LEMMA ActiveStays ==
  ASSUME NEW es \in Logs, NEW fs \in Logs, Extended(es, fs),
         NEW f \in Files, NEW x \in 1..(Len(es[f]) + 1)
  PROVE  ActiveModel(fs[f], x) = ActiveModel(es[f], x)
  <1>1. Len(es[f]) \in Nat
    BY LenProperties DEF Logs
  <1>2. x \in Nat \ {0} /\ \A z \in 1..(x - 1) : es[f][z] = fs[f][z]
    BY <1>1 DEF Extended
  <1> QED
    BY <1>2, ActivePast

LEMMA OriginsStay ==
  ASSUME NEW es \in Logs, NEW fs \in Logs, Extended(es, fs), NEW t, Origins(es, t)
  PROVE  Origins(fs, t)
  <1>1. \A f \in Files : Len(es[f]) \in Nat /\ Len(fs[f]) \in Nat
    BY LenProperties DEF Logs
  <1>2. \A f \in Files : \A x \in 1..Len(es[f]) :
          /\ x \in 1..Len(fs[f]) /\ fs[f][x] = es[f][x]
          /\ ActiveModel(fs[f], x) = ActiveModel(es[f], x)
    BY <1>1, ActiveStays DEF Extended
  <1>3. TurnsFrom(es, t.msgs) => TurnsFrom(fs, t.msgs)
    BY <1>2 DEF TurnsFrom
  <1>4. CompsFrom(es, t.comps) => CompsFrom(fs, t.comps)
    <2> SUFFICES ASSUME CompsFrom(es, t.comps), NEW e \in Compactions, t.comps[e] # None
                 PROVE  \E f \in Files : \E x \in 1..Len(fs[f]) :
                          /\ fs[f][x].type = "compaction" /\ fs[f][x].id = e
                          /\ t.comps[e].model \in {None, ActiveModel(fs[f], x)}
      BY DEF CompsFrom
    <2>1. PICK f \in Files : \E x \in 1..Len(es[f]) :
            /\ es[f][x].type = "compaction" /\ es[f][x].id = e
            /\ t.comps[e].model \in {None, ActiveModel(es[f], x)}
      BY Zenon DEF CompsFrom
    <2>2. PICK x \in 1..Len(es[f]) :
            /\ es[f][x].type = "compaction" /\ es[f][x].id = e
            /\ t.comps[e].model \in {None, ActiveModel(es[f], x)}
      BY <2>1, Zenon
    <2>3. /\ x \in 1..Len(fs[f]) /\ fs[f][x] = es[f][x]
          /\ ActiveModel(fs[f], x) = ActiveModel(es[f], x)
      BY <1>2, Zenon
    <2>4. /\ fs[f][x].type = "compaction" /\ fs[f][x].id = e
          /\ t.comps[e].model \in {None, ActiveModel(fs[f], x)}
      BY <2>2, <2>3
    <2> QED
      BY <2>3, <2>4, Zenon
  <1> QED
    BY <1>3, <1>4 DEF Origins

\* A line that is not a header and brings no id again keeps what entries say.
LEMMA AppendedRight ==
  ASSUME NEW es \in Logs, NEW f \in Files, NEW l \in Entry,
         NEW fs, fs = Appended(es, f, l),
         EntriesRight(es), l.type # "session",
         l.type = "message" =>
           /\ OwnModel => l.model # None
           /\ \A g \in Files : \A x \in 1..Len(es[g]) :
                ~(es[g][x].type = "message" /\ es[g][x].id = l.id),
         l.type = "compaction" =>
           \A g \in Files : \A x \in 1..Len(es[g]) :
             ~(es[g][x].type = "compaction" /\ es[g][x].id = l.id)
  PROVE  EntriesRight(fs)
  <1>1. /\ Extended(es, fs)
        /\ \A g \in Files : \A x \in 1..Len(fs[g]) :
             \/ x \in 1..Len(es[g]) /\ fs[g][x] = es[g][x]
             \/ g = f /\ x = Len(es[f]) + 1 /\ fs[g][x] = l
    BY AppendedAt
  <1>2. ASSUME OwnModel, OneModel(es) PROVE OneModel(fs)
    <2> SUFFICES ASSUME NEW g \in Files, NEW h \in Files,
                        NEW x \in 1..Len(fs[g]), NEW y \in 1..Len(fs[h]),
                        fs[g][x].type = "message", fs[h][y].type = "message",
                        fs[g][x].id = fs[h][y].id
                 PROVE  fs[g][x].model = fs[h][y].model /\ fs[g][x].model # None
      BY DEF OneModel
    <2>1. CASE x \in 1..Len(es[g]) /\ fs[g][x] = es[g][x]
      <3>1. CASE y \in 1..Len(es[h]) /\ fs[h][y] = es[h][y]
        BY <1>2, <2>1, <3>1 DEF OneModel
      <3>2. CASE fs[h][y] = l
        BY <2>1, <3>2
      <3> QED
        BY <1>1, <3>1, <3>2
    <2>2. CASE fs[g][x] = l
      <3>1. CASE y \in 1..Len(es[h]) /\ fs[h][y] = es[h][y]
        BY <2>2, <3>1
      <3>2. CASE fs[h][y] = l
        BY <1>2, <2>2, <3>2
      <3> QED
        BY <1>1, <3>1, <3>2
    <2> QED
      BY <1>1, <2>1, <2>2
  <1>3. ASSUME OnePast(es) PROVE OnePast(fs)
    <2> SUFFICES ASSUME NEW g \in Files, NEW h \in Files,
                        NEW x \in 1..Len(fs[g]), NEW y \in 1..Len(fs[h]),
                        fs[g][x].type = "compaction", fs[h][y].type = "compaction",
                        fs[g][x].id = fs[h][y].id
                 PROVE  x = y /\ \A z \in 1..x : fs[g][z] = fs[h][z]
      BY DEF OnePast
    <2>1. CASE x \in 1..Len(es[g]) /\ fs[g][x] = es[g][x]
      <3>1. CASE y \in 1..Len(es[h]) /\ fs[h][y] = es[h][y]
        <4>1. x = y /\ \A z \in 1..x : es[g][z] = es[h][z]
          BY <1>3, <2>1, <3>1 DEF OnePast
        <4>2. \A z \in 1..x : z \in 1..Len(es[g]) /\ z \in 1..Len(es[h])
          BY <2>1, <3>1, <4>1, LenProperties DEF Logs
        <4> QED
          BY <1>1, <4>1, <4>2 DEF Extended
      <3>2. CASE fs[h][y] = l
        BY <2>1, <3>2
      <3> QED
        BY <1>1, <3>1, <3>2
    <2>2. CASE g = f /\ x = Len(es[f]) + 1 /\ fs[g][x] = l
      <3>1. CASE y \in 1..Len(es[h]) /\ fs[h][y] = es[h][y]
        BY <2>2, <3>1
      <3>2. CASE h = f /\ y = Len(es[f]) + 1 /\ fs[h][y] = l
        BY <2>2, <3>2
      <3> QED
        BY <1>1, <3>1, <3>2
    <2> QED
      BY <1>1, <2>1, <2>2
  <1>4. ASSUME HeaderFirst(es) PROVE HeaderFirst(fs)
    <2> SUFFICES ASSUME NEW g \in Files, NEW x \in 1..Len(fs[g]), fs[g][x].type = "session"
                 PROVE  x = 1
      BY DEF HeaderFirst
    <2>1. x \in 1..Len(es[g]) /\ es[g][x].type = "session"
      BY <1>1
    <2> QED
      BY <1>4, <2>1 DEF HeaderFirst
  <1> QED
    BY <1>2, <1>3, <1>4 DEF EntriesRight

\* So does a whole file, its header alone or a copy, put into an empty one.
LEMMA CopiedRight ==
  ASSUME NEW es \in Logs, EntriesRight(es), NEW g \in Files, es[g] = <<>>,
         NEW s \in Seq(Entry), s = <<Header>> \/ \E f \in Files : s = es[f],
         NEW fs, fs = [es EXCEPT ![g] = s]
  PROVE  fs \in Logs /\ Extended(es, fs) /\ EntriesRight(fs)
  <1>1. fs \in Logs /\ fs[g] = s /\ \A h \in Files : h # g => fs[h] = es[h]
    BY DEF Logs
  <1>2. Extended(es, fs)
    <2>1. Len(es[g]) = 0 /\ Len(s) \in Nat /\ \A h \in Files : Len(es[h]) \in Nat
      BY LenProperties DEF Logs
    <2> QED
      BY <1>1, <2>1 DEF Extended
  <1>3. \A h \in Files : (\E f \in Files : fs[h] = es[f]) \/ fs[h] = <<Header>>
    BY <1>1
  <1>4. \A x \in 1..Len(<<Header>>) : x = 1 /\ <<Header>>[x].type = "session"
    BY DEF Header
  <1>5. ASSUME OneModel(es) PROVE OneModel(fs)
    BY <1>3, <1>4, <1>5 DEF OneModel
  <1>6. ASSUME OnePast(es) PROVE OnePast(fs)
    BY <1>3, <1>4, <1>6 DEF OnePast
  <1>7. ASSUME HeaderFirst(es) PROVE HeaderFirst(fs)
    BY <1>3, <1>4, <1>7 DEF HeaderFirst
  <1> QED
    BY <1>1, <1>2, <1>5, <1>6, <1>7 DEF EntriesRight

--------------------------------------------------------------------------------
\* A read.

LEMMA InsertedFirst ==
  ASSUME NEW D, NEW rows \in [D -> Spend \cup {None}], NEW k \in D, NEW row \in Spend
  PROVE  /\ InsertFirst(rows, k, row)[k] # None
         /\ rows[k] # None => InsertFirst(rows, k, row)[k] = rows[k]
         /\ rows[k] = None => InsertFirst(rows, k, row)[k] = row
         /\ \A j \in D : j # k => InsertFirst(rows, k, row)[j] = rows[j]
  BY PiAssumption DEF InsertFirst

\* What has a row keeps it.
LEMMA StillStored ==
  ASSUME NEW t, NEW u, Keeps(t, u), NEW l \in Entry, Stored(t, l)
  PROVE  Stored(u, l)
  <1>1. l.type = "message" => \A m \in MaybeModel : <<l.id, m>> \in Turns \X MaybeModel
    BY EntryFields
  <1>2. l.type = "compaction" => l.id \in Compactions
    BY EntryFields
  <1> QED
    BY <1>1, <1>2 DEF Stored, Keeps

\* One line of a read that is right so far.
LEMMA ParsedRight ==
  ASSUME NEW es \in Logs, EntriesRight(es), NEW r \in Read, NEW x, x = r.pos + 1,
         x \in 1..Len(es[r.file]), NEW l \in Entry, l = es[r.file][x],
         r.pos = 0 => r.model = None,
         r.session # None => r.model \in {None, ActiveModel(es[r.file], x)},
         Origins(es, r)
  PROVE  LET p == Parsed(r, l)
         IN  /\ p.session # None => p.model \in {None, ActiveModel(es[r.file], x + 1)}
             /\ Origins(es, p)
             /\ Keeps(r, p)
             /\ r.session # None =>
                  p.session # None /\ (Billed(l) => Stored(p, l))
  <1> DEFINE f == r.file
             p == Parsed(r, l)
  <1>1. x \in Nat \ {0} /\ f \in Files /\ r.pos \in Nat
    BY DEF Read
  <1>2. ActiveModel(es[f], x + 1) = IF SetsModel(l) THEN l.model ELSE ActiveModel(es[f], x)
    BY <1>1, ActiveNext
  <1>3. CASE l.type = "session"
    <2>1. p = [r EXCEPT !.session = r.file] /\ ~Billed(l)
      BY <1>3 DEF Parsed, HeaderLine, Billed
    <2>2. r.model = None
      BY <1>1, <1>3 DEF EntriesRight, HeaderFirst
    <2>3. p.session = f /\ p.model = None /\ p.msgs = r.msgs /\ p.comps = r.comps
      BY <2>1, <2>2 DEF Read
    <2> QED
      BY <1>1, <1>3, <2>1, <2>3, PiAssumption DEF Origins, Keeps
  <1>4. CASE l.type = "model_change"
    <2>1. p = [r EXCEPT !.model = l.model] /\ ~Billed(l)
      BY <1>4 DEF Parsed, ModelLine, Billed
    <2>2. l.model # None
      BY <1>4, EntryFields, PiAssumption
    <2>3. p.session = r.session /\ p.model = l.model /\ p.msgs = r.msgs /\ p.comps = r.comps
      BY <2>1 DEF Read
    <2>4. ActiveModel(es[f], x + 1) = l.model
      BY <1>2, <1>4, <2>2 DEF SetsModel
    <2> QED
      BY <1>4, <2>1, <2>3, <2>4 DEF Origins, Keeps
  <1>5. CASE l.type \notin {"session", "model_change"} /\ r.session = None
    BY <1>5 DEF Parsed, Keeps
  <1>6. CASE l.type = "message" /\ l.usage /\ r.session # None
    <2> DEFINE m   == Coalesce(l.model, r.model)
               k   == <<l.id, m>>
               row == [session |-> r.session, model |-> m]
    <2>1. /\ r.session \in Files /\ l.id \in Turns /\ r.msgs \in Msgs
          /\ m \in MaybeModel /\ p = TurnLine(r, l)
      BY <1>6, EntryFields DEF Read, Parsed, Coalesce
    <2>2. /\ TurnLine(r, l).session = r.session /\ TurnLine(r, l).comps = r.comps
          /\ TurnLine(r, l).model = m /\ TurnLine(r, l).msgs = InsertFirst(r.msgs, k, row)
      <3>1. r.session \in Files
        BY <2>1
      <3> QED
        BY <1>6, <3>1, TurnLineIs
    <2>3. /\ p.session = r.session /\ p.comps = r.comps
          /\ p.model = m /\ p.msgs = InsertFirst(r.msgs, k, row)
      BY <2>1, <2>2
    <2>4. m \in {None, ActiveModel(es[f], x + 1)}
      BY <1>2, <1>6 DEF SetsModel, Coalesce
    <2>5. k \in Turns \X MaybeModel /\ row \in Spend
      BY <2>1 DEF Spend
    <2>6. OwnModel => k = <<l.id, l.model>>
      BY <1>1, <1>6 DEF EntriesRight, OneModel, Coalesce
    <2> HIDE DEF m, k, row
    <2>7. /\ p.msgs[k] # None
          /\ \A j \in Turns \X MaybeModel : j # k => p.msgs[j] = r.msgs[j]
      BY <2>1, <2>3, <2>5, InsertedFirst DEF Msgs
    <2>8. OwnModel /\ TurnsFrom(es, r.msgs) => TurnsFrom(es, p.msgs)
      <3> SUFFICES ASSUME OwnModel, TurnsFrom(es, r.msgs),
                          NEW j \in Turns \X MaybeModel, p.msgs[j] # None
                   PROVE  \E g \in Files : \E y \in 1..Len(es[g]) :
                            es[g][y].type = "message" /\ <<es[g][y].id, es[g][y].model>> = j
        BY Zenon DEF TurnsFrom
      <3>1. CASE j = k
        BY <1>1, <1>6, <2>6, <3>1
      <3>2. CASE j # k
        BY <2>7, <3>2, Zenon DEF TurnsFrom
      <3> QED
        BY <3>1, <3>2
    <2>9. Keeps(r, p)
      <3>1. \A j \in Turns \X MaybeModel : r.msgs[j] # None => p.msgs[j] # None
        BY <2>7, Zenon
      <3> QED
        BY <2>3, <3>1, Zenon DEF Keeps
    <2>10. Stored(p, l)
      BY <1>6, <2>1, <2>7 DEF Stored, k
    <2> QED
      BY <1>6, <2>3, <2>4, <2>8, <2>9, <2>10 DEF Origins
  <1>7. CASE l.type = "message" /\ ~l.usage /\ r.session # None
    <2>1. r.session \in Files /\ p = TurnLine(r, l)
      BY <1>7 DEF Read, Parsed
    <2>2. /\ TurnLine(r, l).session = r.session /\ TurnLine(r, l).model = r.model
          /\ TurnLine(r, l).msgs = r.msgs /\ TurnLine(r, l).comps = r.comps
      <3>1. r.session \in Files /\ l.usage = FALSE
        BY <1>7, <2>1, EntryFields
      <3> QED
        BY <1>7, <3>1, TurnLineIs
    <2>3. ~SetsModel(l) /\ ~Billed(l)
      BY <1>7 DEF SetsModel, Billed
    <2> QED
      BY <1>2, <1>7, <2>1, <2>2, <2>3 DEF Origins, Keeps
  <1>8. CASE l.type = "toolResult" /\ r.session # None
    <2>1. /\ p.session = r.session /\ p.model = r.model
          /\ p.msgs = r.msgs /\ p.comps = r.comps
      BY <1>8 DEF Parsed, ResultLine, Read
    <2> QED
      BY <1>2, <1>8, <2>1 DEF SetsModel, Billed, Origins, Keeps
  <1>9. CASE l.type = "compaction" /\ r.session # None
    <2> DEFINE row == [session |-> r.session, model |-> r.model]
    <2>1. p = [r EXCEPT !.comps = InsertFirst(@, l.id, row)]
      BY <1>9, Zenon DEF Parsed, CompactionLine
    <2>2. /\ r.session \in Files /\ r.model \in MaybeModel /\ r.comps \in Comps
          /\ l.id \in Compactions
      BY <1>9, EntryFields DEF Read
    <2>3. row \in Spend /\ row.model = r.model
      BY <2>2 DEF Spend
    <2>4. /\ p.session = r.session /\ p.model = r.model /\ p.msgs = r.msgs
          /\ p.comps = InsertFirst(r.comps, l.id, row)
      BY <2>1 DEF Read
    <2> HIDE DEF row, p
    <2>5. /\ p.comps[l.id] # None
          /\ r.comps[l.id] # None => p.comps[l.id] = r.comps[l.id]
          /\ r.comps[l.id] = None => p.comps[l.id] = row
          /\ \A e \in Compactions : e # l.id => p.comps[e] = r.comps[e]
      BY <2>2, <2>3, <2>4, InsertedFirst DEF Comps
    <2>6. CompsFrom(es, p.comps)
      <3> SUFFICES ASSUME NEW e \in Compactions, p.comps[e] # None
                   PROVE  \E g \in Files : \E y \in 1..Len(es[g]) :
                            /\ es[g][y].type = "compaction" /\ es[g][y].id = e
                            /\ p.comps[e].model \in {None, ActiveModel(es[g], y)}
        BY DEF CompsFrom
      <3>1. CASE p.comps[e] = r.comps[e]
        BY <3>1, Zenon DEF Origins, CompsFrom
      <3>2. CASE e = l.id /\ p.comps[e] = row
        <4>1. p.comps[e].model \in {None, ActiveModel(es[f], x)}
          BY <1>9, <2>3, <3>2
        <4> QED
          BY <1>1, <1>9, <3>2, <4>1
      <3> QED
        BY <2>5, <3>1, <3>2
    <2>7. Keeps(r, p)
      BY <2>4, <2>5 DEF Keeps
    <2>8. Stored(p, l)
      BY <1>9, <2>5 DEF Stored
    <2>9. p.session # None => p.model \in {None, ActiveModel(es[f], x + 1)}
      BY <1>2, <1>9, <2>4 DEF SetsModel
    <2> QED
      BY <1>9, <2>4, <2>6, <2>7, <2>8, <2>9 DEF Origins, p
  <1> QED
    BY <1>3, <1>4, <1>5, <1>6, <1>7, <1>8, <1>9, EntryFields

--------------------------------------------------------------------------------
\* The inductive invariant.

LEMMA InitInv == Init => PiInv
  <1> SUFFICES ASSUME Init PROVE PiInv
    OBVIOUS
  <1>1. \A f \in Files : entries[f] = <<>> /\ Len(entries[f]) = 0 /\ db.off[f] = 0
    BY DEF Init
  <1>2. /\ \A k \in Turns \X MaybeModel : db.msgs[k] = None
        /\ \A e \in Compactions : db.comps[e] = None
    BY DEF Init
  <1>3. EntriesRight(entries)
    BY <1>1 DEF EntriesRight, OneModel, OnePast, HeaderFirst
  <1>4. Origins(entries, db)
    BY <1>2 DEF Origins, TurnsFrom, CompsFrom
  <1>5. OffsetsStored(entries, db)
    BY <1>1 DEF OffsetsStored, StoredUpTo
  <1>6. read = None
    BY DEF Init
  <1> QED
    BY <1>3, <1>4, <1>5, <1>6 DEF PiInv

\* A read and the store do not notice that files grow.
LEMMA GrowthKeeps ==
  ASSUME TypeOK, PiInv, UNCHANGED <<db, read>>,
         entries' \in Logs, Extended(entries, entries'), EntriesRight(entries')
  PROVE  PiInv'
  <1>1. entries \in Logs /\ \A f \in Files : Len(entries[f]) \in Nat /\ Len(entries'[f]) \in Nat
    BY LenProperties DEF TypeOK, Logs
  <1>2. Origins(entries', db')
    BY <1>1, OriginsStay DEF PiInv
  <1>3. ASSUME NEW t, NEW f \in Files, NEW n \in Nat, n <= Len(entries[f]),
               StoredUpTo(t, entries[f], n)
        PROVE  StoredUpTo(t, entries'[f], n)
    <2> SUFFICES ASSUME NEW x \in 1..Len(entries'[f]), x <= n,
                        Billed(entries'[f][x])
                 PROVE  Stored(t, entries'[f][x])
      BY DEF StoredUpTo
    <2>1. x \in 1..Len(entries[f])
      BY <1>1, <1>3
    <2>2. entries'[f][x] = entries[f][x]
      BY <2>1 DEF Extended
    <2> QED
      BY <1>3, <2>1, <2>2 DEF StoredUpTo
  <1>4. OffsetsStored(entries', db')
    <2> SUFFICES ASSUME NEW f \in Files
                 PROVE  /\ db.off[f] <= Len(entries'[f])
                        /\ f \notin Nested => StoredUpTo(db, entries'[f], db.off[f])
      BY DEF OffsetsStored
    <2>1. /\ db.off[f] \in Nat /\ db.off[f] <= Len(entries[f])
          /\ f \notin Nested => StoredUpTo(db, entries[f], db.off[f])
      BY DEF PiInv, OffsetsStored, TypeOK
    <2>2. db.off[f] <= Len(entries'[f])
      BY <1>1, <2>1 DEF Extended
    <2> QED
      BY <1>3, <2>1, <2>2
  <1>5. ASSUME read # None PROVE ReadRight(entries', db', read')
    <2> DEFINE f == read.file
    <2>1. f \in Files /\ read.pos \in Nat
      BY <1>5 DEF TypeOK, Read
    <2>2. ReadRight(entries, db, read)
      BY <1>5 DEF PiInv
    <2>3. read.pos <= Len(entries[f]) /\ read.pos <= Len(entries'[f])
      BY <1>1, <2>1, <2>2 DEF ReadRight, Extended
    <2>4. ActiveModel(entries'[f], read.pos + 1) = ActiveModel(entries[f], read.pos + 1)
      BY <1>1, <2>1, <2>3, ActiveStays
    <2>5. Origins(entries', read)
      BY <1>1, <2>2, OriginsStay DEF ReadRight
    <2>6. f \notin Nested => read.session # None /\ StoredUpTo(read, entries'[f], read.pos)
      BY <1>3, <2>1, <2>2, <2>3 DEF ReadRight
    <2> QED
      BY <2>2, <2>3, <2>4, <2>5, <2>6 DEF ReadRight
  <1> QED
    BY <1>2, <1>4, <1>5 DEF PiInv

LEMMA AgentKeeps ==
  ASSUME TypeOK, PiInv, Agent
  PROVE  PiInv'
  <1>1. entries \in Logs /\ EntriesRight(entries) /\ now + 1 \in Nat
    BY DEF TypeOK, Logs, PiInv
  <1>2. ASSUME NEW f \in Files, NEW l \in Entry, Written(f, l), l.type # "session",
               l.type = "message" =>
                 /\ OwnModel => l.model # None
                 /\ \A g \in Files : ~Has(g, "message", l.id),
               l.type = "compaction" => \A g \in Files : ~Has(g, "compaction", l.id)
        PROVE  PiInv'
    <2>1. entries' = Appended(entries, f, l) /\ UNCHANGED <<db, read>>
      BY <1>2, Zenon DEF Written, Appended
    <2>2. \A g \in Files : \A type, e : ~Has(g, type, e) =>
            \A x \in 1..Len(entries[g]) : ~(entries[g][x].type = type /\ entries[g][x].id = e)
      BY Zenon DEF Has, EntrySet
    <2>3. EntriesRight(entries')
      BY <1>1, <1>2, <2>1, <2>2, AppendedRight
    <2> QED
      BY <1>1, <2>1, <2>3, AppendedAt, GrowthKeeps
  <1>3. ASSUME NEW f \in Files, StartFile(f) PROVE PiInv'
    <2>1. <<Header>> \in Seq(Entry)
      BY EntryTypes
    <2>2. /\ entries[f] = <<>> /\ entries' = [entries EXCEPT ![f] = <<Header>>]
          /\ UNCHANGED <<db, read>>
      BY <1>3 DEF StartFile
    <2>3. entries' \in Logs /\ Extended(entries, entries') /\ EntriesRight(entries')
      BY <1>1, <2>1, <2>2, CopiedRight
    <2> QED
      BY <2>2, <2>3, GrowthKeeps
  <1>4. ASSUME NEW f \in Files, NEW m \in Models, WriteModelChange(f, m) PROVE PiInv'
    <2>1. ModelChange(m) \in Entry /\ ModelChange(m).type = "model_change"
      BY <1>1, EntryTypes DEF ModelChange
    <2> QED
      BY <1>2, <1>4, <2>1 DEF WriteModelChange
  <1>5. ASSUME NEW f \in Files, NEW e \in Turns, NEW m \in MaybeModel, NEW b \in BOOLEAN,
               NEW u \in Tools \cup {None}, WriteTurn(f, e, m, b, u)
        PROVE  PiInv'
    <2> DEFINE l == Turn(e, m, b, u, now + 1)
    <2>1. l \in Entry /\ l.type = "message" /\ l.id = e /\ l.model = m
      BY <1>1, EntryTypes DEF Turn
    <2>2. /\ OwnModel => m # None
          /\ \A g \in Files : ~Has(g, "message", e)
          /\ Written(f, l)
      BY <1>5 DEF WriteTurn
    <2> HIDE DEF l
    <2> QED
      BY <1>2, <2>1, <2>2
  <1>6. ASSUME NEW f \in Files, NEW u \in Tools, WriteResult(f, u) PROVE PiInv'
    <2>1. ToolResult(u, now + 1) \in Entry /\ ToolResult(u, now + 1).type = "toolResult"
      BY <1>1, EntryTypes DEF ToolResult
    <2> QED
      BY <1>2, <1>6, <2>1 DEF WriteResult
  <1>7. ASSUME NEW f \in Files, NEW e \in Compactions, WriteCompaction(f, e) PROVE PiInv'
    <2> DEFINE l == Compaction(e)
    <2>1. l \in Entry /\ l.type = "compaction" /\ l.id = e
      BY <1>1, EntryTypes DEF Compaction
    <2>2. (\A g \in Files : ~Has(g, "compaction", e)) /\ Written(f, l)
      BY <1>7 DEF WriteCompaction
    <2> HIDE DEF l
    <2> QED
      BY <1>2, <2>1, <2>2
  <1>8. ASSUME NEW f \in Files, NEW g \in Files, Fork(f, g) PROVE PiInv'
    <2>1. /\ entries[g] = <<>> /\ entries' = [entries EXCEPT ![g] = entries[f]]
          /\ UNCHANGED <<db, read>> /\ entries[f] \in Seq(Entry)
      BY <1>8 DEF Fork, TypeOK
    <2>2. entries' \in Logs /\ Extended(entries, entries') /\ EntriesRight(entries')
      BY <1>1, <2>1, CopiedRight
    <2> QED
      BY <2>1, <2>2, GrowthKeeps
  <1> QED
    BY <1>3, <1>4, <1>5, <1>6, <1>7, <1>8 DEF Agent

LEMMA BeginKeeps ==
  ASSUME TypeOK, PiInv, NEW f \in Files, BeginRead(f)
  PROVE  PiInv'
  <1>1. PICK from \in 0..db.off[f] : from < Len(entries[f]) /\ read' = Starting(f, from)
    BY DEF BeginRead
  <1>2. entries' = entries /\ db' = db
    BY DEF BeginRead
  <1>3. /\ read'.file = f /\ read'.pos = from /\ read'.session = Fallback(f)
        /\ read'.model = None /\ read'.msgs = db.msgs /\ read'.comps = db.comps
    BY <1>1 DEF Starting
  <1>4. Origins(entries, read') /\ Keeps(db, read')
    BY <1>3 DEF PiInv, Origins, Keeps
  <1>5. ASSUME f \notin Nested PROVE read'.session # None /\ StoredUpTo(read', entries[f], from)
    <2>1. read'.session # None
      BY <1>3, <1>5, PiAssumption DEF Fallback
    <2>2. StoredUpTo(db, entries[f], from)
      <3>1. db.off[f] \in Nat /\ from \in 0..db.off[f] /\ Len(entries[f]) \in Nat
        BY <1>1, LenProperties DEF TypeOK
      <3>2. StoredUpTo(db, entries[f], db.off[f])
        BY <1>5 DEF PiInv, OffsetsStored
      <3> QED
        BY <3>1, <3>2 DEF StoredUpTo
    <2>3. \A l : Stored(db, l) => Stored(read', l)
      BY <1>3 DEF Stored
    <2> QED
      BY <2>1, <2>2, <2>3 DEF StoredUpTo
  <1>6. from \in Nat /\ Len(entries[f]) \in Nat
    BY LenProperties DEF TypeOK
  <1>7. ReadRight(entries, db, read')
    BY <1>1, <1>3, <1>4, <1>5, <1>6 DEF ReadRight
  <1> QED
    BY <1>2, <1>7 DEF PiInv

LEMMA LineKeeps ==
  ASSUME TypeOK, PiInv, ReadLine
  PROVE  PiInv'
  <1> DEFINE f == read.file
             x == read.pos + 1
             l == entries[f][x]
             p == Parsed(read, l)
  <1>1. entries \in Logs /\ read \in Read /\ EntriesRight(entries) /\ ReadRight(entries, db, read)
    BY DEF TypeOK, Logs, PiInv, ReadLine
  <1>2. f \in Files /\ read.pos \in Nat /\ x \in 1..Len(entries[f])
    BY <1>1, LenProperties DEF Read, Logs, ReadLine
  <1>3. l \in Entry
    BY <1>1, <1>2, ElementOfSeq DEF Logs
  <1>4. p \in Read /\ p.file = f /\ p.pos = read.pos
    BY <1>1, <1>3, ParsedType
  <1>5. /\ p.session # None => p.model \in {None, ActiveModel(entries[f], x + 1)}
        /\ Origins(entries, p)
        /\ Keeps(read, p)
        /\ read.session # None =>
             p.session # None /\ (Billed(l) => Stored(p, l))
    BY <1>1, <1>2, <1>3, ParsedRight DEF ReadRight
  <1>6. read' = [p EXCEPT !.pos = @ + 1] /\ entries' = entries /\ db' = db
    BY DEF ReadLine
  <1>7. \A y \in 1..Len(entries[f]) : entries[f][y] \in Entry
    BY <1>1, <1>2, ElementOfSeq DEF Logs
  <1> HIDE DEF p
  <1>8. /\ read'.file = f /\ read'.pos = x /\ read'.session = p.session
        /\ read'.model = p.model /\ read'.msgs = p.msgs /\ read'.comps = p.comps
    BY <1>4, <1>6 DEF Read
  <1>9. Origins(entries, read') /\ Keeps(read, read') /\ \A e : Stored(p, e) => Stored(read', e)
    BY <1>5, <1>8 DEF Origins, Keeps, Stored
  <1>10. Keeps(db, read')
    BY <1>1, <1>9 DEF ReadRight, Keeps
  <1>11. ASSUME f \notin Nested PROVE read'.session # None /\ StoredUpTo(read', entries[f], x)
    <2>1. read.session # None /\ StoredUpTo(read, entries[f], read.pos)
      BY <1>1, <1>11 DEF ReadRight
    <2>2. ASSUME NEW y \in 1..Len(entries[f]), y <= x,
                 Billed(entries[f][y])
          PROVE  Stored(read', entries[f][y])
      <3>1. CASE y = x
        BY <1>5, <1>9, <2>1, <2>2, <3>1
      <3>2. CASE y # x
        <4>1. y <= read.pos
          BY <1>2, <2>2, <3>2
        <4>2. Stored(read, entries[f][y])
          BY <2>1, <2>2, <4>1 DEF StoredUpTo
        <4> QED
          BY <1>7, <1>9, <4>2, StillStored
      <3> QED
        BY <3>1, <3>2
    <2> QED
      BY <1>5, <1>8, <2>1, <2>2 DEF StoredUpTo
  <1>12. ReadRight(entries, db, read')
    <2>1. x <= Len(entries[f]) /\ x # 0
      BY <1>2
    <2>2. read'.session # None => read'.model \in {None, ActiveModel(entries[f], x + 1)}
      BY <1>5, <1>8
    <2> HIDE DEF x, f
    <2> QED
      BY <1>8, <1>9, <1>10, <1>11, <2>1, <2>2 DEF ReadRight
  <1> QED
    BY <1>1, <1>6, <1>12 DEF PiInv

LEMMA EndKeeps ==
  ASSUME TypeOK, PiInv, EndRead
  PROVE  PiInv'
  <1> DEFINE f == read.file
  <1>1. /\ f \in Files /\ read.pos <= Len(entries[f]) /\ ReadRight(entries, db, read)
        /\ entries \in Logs /\ entries' = entries /\ read' = None
    BY DEF TypeOK, Logs, Read, PiInv, EndRead, ReadRight
  <1>2. /\ db'.msgs = read.msgs /\ db'.comps = read.comps
        /\ db'.off = [db.off EXCEPT ![f] = IF read.pos > @ THEN read.pos ELSE @]
    BY DEF EndRead
  <1>3. Origins(entries, db') /\ Keeps(db, db') /\ \A e : Stored(read, e) => Stored(db', e)
    BY <1>1, <1>2 DEF ReadRight, Origins, Keeps, Stored
  <1>4. ASSUME NEW g \in Files
        PROVE  /\ db'.off[g] <= Len(entries[g])
               /\ g \notin Nested => StoredUpTo(db', entries[g], db'.off[g])
    <2>1. db.off \in [Files -> Nat] /\ Len(entries[g]) \in Nat
      BY LenProperties DEF TypeOK
    <2>2. CASE g = f /\ db'.off[g] = read.pos
      <3>1. g \notin Nested => StoredUpTo(read, entries[g], read.pos)
        BY <1>1, <2>2 DEF ReadRight
      <3> QED
        BY <1>1, <1>3, <2>1, <2>2, <3>1 DEF StoredUpTo
    <2>3. CASE db'.off[g] = db.off[g]
      <3>1. /\ db.off[g] <= Len(entries[g])
            /\ g \notin Nested => StoredUpTo(db, entries[g], db.off[g])
        BY DEF PiInv, OffsetsStored
      <3>2. \A y \in 1..Len(entries[g]) : entries[g][y] \in Entry
        BY <1>1, ElementOfSeq DEF Logs
      <3>3. ASSUME NEW y \in 1..Len(entries[g]), Stored(db, entries[g][y])
            PROVE  Stored(db', entries[g][y])
        BY <1>3, <3>2, <3>3, StillStored
      <3> QED
        BY <2>3, <3>1, <3>3 DEF StoredUpTo
    <2> QED
      BY <1>2, <2>1, <2>2, <2>3
  <1> QED
    BY <1>1, <1>3, <1>4 DEF PiInv, OffsetsStored

LEMMA StepInv ==
  ASSUME TypeOK, PiInv, [Next]_vars
  PROVE  PiInv'
  <1>1. CASE UNCHANGED vars
    BY <1>1 DEF vars, PiInv
  <1> QED
    BY <1>1, AgentKeeps, BeginKeeps, LineKeeps, EndKeeps DEF Next

LEMMA InvariantHolds == Spec => [](TypeOK /\ PiInv)
  <1>1. Init => TypeOK /\ PiInv
    BY InitType, InitInv
  <1>2. TypeOK /\ PiInv /\ [Next]_vars => TypeOK' /\ PiInv'
    BY StepType, StepInv
  <1> QED
    BY <1>1, <1>2, PTL DEF Spec

--------------------------------------------------------------------------------
\* A compaction never gets a model that was not active where pi wrote it, that of the
\* last model_change or assistant entry with usage (pi.py:195-197, 301-309): the copies
\* of its entry agree on all that is before it, and a read knows the last change of
\* model since it began, or none (SessionState), whatever turns without usage it passes.
THEOREM CompactionsRight == Spec => []CompactionModelNeverWrong
  <1>1. ASSUME TypeOK, PiInv PROVE CompactionModelNeverWrong
    <2> SUFFICES ASSUME NEW f \in Files, NEW x \in 1..db.off[f],
                        entries[f][x].type = "compaction", db.comps[entries[f][x].id] # None
                 PROVE  db.comps[entries[f][x].id].model \in {None, ActiveModel(entries[f], x)}
      BY DEF CompactionModelNeverWrong
    <2> DEFINE e == entries[f][x].id
    <2>1. entries \in Logs /\ Len(entries[f]) \in Nat /\ x \in 1..Len(entries[f])
      BY <1>1, LenProperties DEF TypeOK, Logs, PiInv, OffsetsStored
    <2>2. e \in Compactions
      BY <2>1, ElementOfSeq, EntryFields DEF Logs
    <2>3. CompsFrom(entries, db.comps)
      BY <1>1 DEF PiInv, Origins
    <2>4. PICK g \in Files : \E y \in 1..Len(entries[g]) :
            /\ entries[g][y].type = "compaction" /\ entries[g][y].id = e
            /\ db.comps[e].model \in {None, ActiveModel(entries[g], y)}
      BY <2>2, <2>3 DEF CompsFrom
    <2>5. PICK y \in 1..Len(entries[g]) :
            /\ entries[g][y].type = "compaction" /\ entries[g][y].id = e
            /\ db.comps[e].model \in {None, ActiveModel(entries[g], y)}
      BY <2>4
    <2>6. x = y /\ \A z \in 1..x : entries[f][z] = entries[g][z]
      BY <1>1, <2>1, <2>5 DEF PiInv, EntriesRight, OnePast
    <2>7. ActiveModel(entries[f], x) = ActiveModel(entries[g], x)
      BY <2>1, <2>6, ActivePast
    <2> QED
      BY <2>5, <2>6, <2>7
  <1> QED
    BY <1>1, InvariantHolds, PTL

\* Where every assistant entry names its model, a turn has one row however often
\* its file, or a fork's, is read (pi_message_key).
THEOREM TurnsOnce == ASSUME OwnModel PROVE Spec => []OneRowPerTurn
  <1>1. ASSUME PiInv PROVE OneRowPerTurn
    <2> SUFFICES ASSUME NEW e \in Turns, NEW m \in MaybeModel, NEW n \in MaybeModel,
                        db.msgs[<<e, m>>] # None, db.msgs[<<e, n>>] # None
                 PROVE  m = n
      BY DEF OneRowPerTurn
    <2>1. OneModel(entries) /\ TurnsFrom(entries, db.msgs)
      BY <1>1 DEF PiInv, EntriesRight, Origins
    <2>2. ASSUME NEW k \in Turns \X MaybeModel, db.msgs[k] # None
          PROVE  \E f \in Files : \E x \in 1..Len(entries[f]) :
                   entries[f][x].type = "message" /\ <<entries[f][x].id, entries[f][x].model>> = k
      BY <2>1, <2>2, Zenon DEF TurnsFrom
    <2>3. PICK f \in Files : \E x \in 1..Len(entries[f]) :
            entries[f][x].type = "message" /\ <<entries[f][x].id, entries[f][x].model>> = <<e, m>>
      BY <2>2
    <2>4. PICK g \in Files : \E y \in 1..Len(entries[g]) :
            entries[g][y].type = "message" /\ <<entries[g][y].id, entries[g][y].model>> = <<e, n>>
      BY <2>2
    <2> QED
      BY <2>1, <2>3, <2>4 DEF OneModel
  <1> QED
    BY <1>1, InvariantHolds, PTL

\* All spend below the stored offset of a file that has its session in its name is
\* in the store: a read of it has a session from its first line on (SessionState),
\* and skips no entry.
THEOREM SpendStored == Spec => []SessionSpendStored
  <1>1. ASSUME TypeOK, PiInv PROVE SessionSpendStored
    <2> SUFFICES ASSUME NEW f \in Files \ Nested, NEW x \in 1..db.off[f],
                        Billed(entries[f][x])
                 PROVE  Stored(db, entries[f][x])
      BY DEF SessionSpendStored, SpendOf
    <2>1. /\ db.off[f] \in Nat /\ Len(entries[f]) \in Nat /\ db.off[f] <= Len(entries[f])
          /\ StoredUpTo(db, entries[f], db.off[f])
      BY <1>1, LenProperties DEF TypeOK, PiInv, OffsetsStored
    <2> QED
      BY <2>1 DEF StoredUpTo
  <1> QED
    BY <1>1, InvariantHolds, PTL

\* Nested files are all that stands between the code and "real, uncounted subagent
\* spend" (discovery.py:23-24): without them no spend is passed over.
THEOREM AllSpendStored == ASSUME Nested = {} PROVE Spec => []EverySpendStored
  <1>1. SessionSpendStored => EverySpendStored
    BY DEF SessionSpendStored, EverySpendStored
  <1> QED
    BY <1>1, SpendStored, PTL

--------------------------------------------------------------------------------
\* Tool calls.

\* What is stored of a file, and what a read has passed, is in the file.
LEMMA EndsInFile ==
  ASSUME TypeOK, PiInv
  PROVE  /\ entries \in Logs
         /\ \A f \in Files :
              /\ entries[f] \in Seq(Entry) /\ Len(entries[f]) \in Nat
              /\ db.off[f] \in Nat /\ db.off[f] <= Len(entries[f])
         /\ read # None =>
              /\ read \in Read /\ read.file \in Files /\ read.pos \in Nat
              /\ ReadEnd \in Nat /\ read.pos <= ReadEnd /\ ReadEnd <= Len(entries[read.file])
  <1>1. \A f \in Files :
          /\ entries[f] \in Seq(Entry) /\ Len(entries[f]) \in Nat
          /\ db.off[f] \in Nat /\ db.off[f] <= Len(entries[f])
    BY LenProperties DEF TypeOK, PiInv, OffsetsStored
  <1>2. ASSUME read # None
        PROVE  /\ read \in Read /\ read.file \in Files /\ read.pos \in Nat
               /\ read.pos <= Len(entries[read.file])
    BY <1>2 DEF TypeOK, Read, PiInv, ReadRight
  <1>3. entries \in Logs
    BY DEF TypeOK, Logs
  <1> QED
    BY <1>1, <1>2, <1>3 DEF ReadEnd

\* The records of a tool are halves of one row, at most one of each.
LEMMA RecordsSingle ==
  ASSUME entries \in Logs, ToolsOnce, NEW f \in Files, NEW u \in Tools, NEW n \in Nat,
         n <= Len(entries[f])
  PROVE  Single(RecordsOf(f, u, n))
  <1> DEFINE recs == RecordsOf(f, u, n)
  <1>1. DOMAIN recs = {y \in 1..n : Of(entries[f][y], u)} /\ DOMAIN recs \subseteq Nat
    BY DEF RecordsOf
  <1>2. entries[f] \in Seq(Entry) /\ Len(entries[f]) \in Nat
    BY LenProperties DEF Logs
  <1>3. ASSUME NEW x \in DOMAIN recs
        PROVE  /\ x \in 1..Len(entries[f]) /\ Of(entries[f][x], u)
               /\ entries[f][x].type = "message"    => IsCall(recs[x])
               /\ entries[f][x].type = "toolResult" => IsResult(recs[x])
    <2>1. x \in 1..Len(entries[f]) /\ Of(entries[f][x], u)
      BY <1>1, <1>2
    <2>2. entries[f][x] \in Entry
      BY <1>2, <2>1, ElementOfSeq
    <2>3. recs[x] = RecordOf(entries[f][x])
      BY <1>1 DEF RecordsOf
    <2> QED
      BY <2>1, <2>2, <2>3, EntryFields DEF RecordOf, IsCall, IsResult
  <1> HIDE DEF recs
  <1>4. \A x \in DOMAIN recs : /\ entries[f][x].type \in {"message", "toolResult"}
                               /\ IsCall(recs[x]) <=> entries[f][x].type = "message"
                               /\ IsResult(recs[x]) <=> entries[f][x].type = "toolResult"
    BY <1>3, EitherHalf DEF Of
  <1>5. ASSUME NEW x \in DOMAIN recs, NEW y \in DOMAIN recs,
               entries[f][x].type = entries[f][y].type
        PROVE  x = y
    BY <1>3, <1>5 DEF ToolsOnce
  <1> QED
    BY <1>1, <1>4, <1>5 DEF recs, Single

\* What is written later adds nothing to the records before it.
LEMMA RecordsStay ==
  ASSUME entries \in Logs, Extended(entries, entries'),
         NEW f \in Files, NEW u \in Tools, NEW n \in Nat, n <= Len(entries[f])
  PROVE  RecordsOf(f, u, n)' = RecordsOf(f, u, n)
  <1>1. Len(entries[f]) \in Nat
    BY LenProperties DEF Logs
  <1>2. \A x \in 1..n : entries'[f][x] = entries[f][x]
    BY <1>1 DEF Extended
  <1> QED
    BY <1>2 DEF RecordsOf, RecordOf, Of

\* A call or a result that is written is the first of its tool in its file.
LEMMA AgentKeepsTools ==
  ASSUME TypeOK, PiInv, ToolsOnce, Agent
  PROVE  ToolsOnce' /\ Extended(entries, entries') /\ UNCHANGED <<db, read>>
  <1>0. entries \in Logs /\ EntriesRight(entries) /\ now + 1 \in Nat
    BY DEF TypeOK, Logs, PiInv
  <1> DEFINE Kept == ToolsOnce' /\ Extended(entries, entries') /\ UNCHANGED <<db, read>>
  <1>1. ASSUME NEW f \in Files, NEW l \in Entry, Written(f, l),
               \A u \in Tools : Of(l, u) => ~Calls(f, l.type, u)
        PROVE  Kept
    <2>1. entries' = Appended(entries, f, l) /\ UNCHANGED <<db, read>>
      BY <1>1, Zenon DEF Written, Appended
    <2>2. /\ Extended(entries, entries')
          /\ \A g \in Files : \A x \in 1..Len(entries'[g]) :
               \/ x \in 1..Len(entries[g]) /\ entries'[g][x] = entries[g][x]
               \/ g = f /\ x = Len(entries[f]) + 1 /\ entries'[g][x] = l
      BY <1>0, <2>1, AppendedAt
    <2>3. ASSUME NEW u \in Tools, Of(l, u), NEW y \in 1..Len(entries[f]), Of(entries[f][y], u)
          PROVE  entries[f][y].type # l.type
      BY <1>1, <2>3 DEF Calls, EntrySet, Of
    <2>4. ASSUME NEW g \in Files, NEW u \in Tools,
                 NEW x \in 1..Len(entries'[g]), NEW y \in 1..Len(entries'[g]),
                 Of(entries'[g][x], u), Of(entries'[g][y], u),
                 entries'[g][x].type = entries'[g][y].type
          PROVE  x = y
      <3>1. CASE /\ x \in 1..Len(entries[g]) /\ entries'[g][x] = entries[g][x]
                 /\ y \in 1..Len(entries[g]) /\ entries'[g][y] = entries[g][y]
        BY <2>4, <3>1 DEF ToolsOnce
      <3>2. CASE g = f /\ entries'[g][x] = l /\ y \in 1..Len(entries[g])
                 /\ entries'[g][y] = entries[g][y]
        BY <2>3, <2>4, <3>2
      <3>3. CASE g = f /\ entries'[g][y] = l /\ x \in 1..Len(entries[g])
                 /\ entries'[g][x] = entries[g][x]
        BY <2>3, <2>4, <3>3
      <3>4. CASE x = Len(entries[f]) + 1 /\ y = Len(entries[f]) + 1
        BY <3>4
      <3> QED
        BY <2>2, <3>1, <3>2, <3>3, <3>4
    <2>5. ToolsOnce'
      BY <2>4 DEF ToolsOnce, Of
    <2> QED
      BY <2>1, <2>2, <2>5
  <1>2. ASSUME NEW g \in Files, entries[g] = <<>>,
               NEW s \in Seq(Entry), s = <<Header>> \/ \E f \in Files : s = entries[f],
               entries' = [entries EXCEPT ![g] = s], UNCHANGED <<db, read>>
        PROVE  Kept
    <2>1. Extended(entries, entries')
      BY <1>0, <1>2, CopiedRight
    <2>2. \A h \in Files : (\E f \in Files : entries'[h] = entries[f]) \/ entries'[h] = <<Header>>
      BY <1>0, <1>2 DEF Logs
    <2>3. \A x \in 1..Len(<<Header>>), u \in Tools : ~Of(<<Header>>[x], u)
      BY DEF Header, Of
    <2>4. ASSUME NEW h \in Files, NEW u \in Tools,
                 NEW x \in 1..Len(entries'[h]), NEW y \in 1..Len(entries'[h]),
                 Of(entries'[h][x], u), Of(entries'[h][y], u),
                 entries'[h][x].type = entries'[h][y].type
          PROVE  x = y
      <3>1. CASE entries'[h] = <<Header>>
        BY <2>3, <2>4, <3>1
      <3>2. CASE \E f \in Files : entries'[h] = entries[f]
        BY <2>4, <3>2 DEF ToolsOnce
      <3> QED
        BY <2>2, <3>1, <3>2
    <2>5. ToolsOnce'
      BY <2>4 DEF ToolsOnce, Of
    <2> QED
      BY <1>2, <2>1, <2>5
  <1> HIDE DEF Kept
  <1>3. ASSUME NEW f \in Files, StartFile(f) PROVE Kept
    <2>1. <<Header>> \in Seq(Entry)
      BY EntryTypes
    <2> QED
      BY <1>2, <1>3, <2>1 DEF StartFile
  <1>4. ASSUME NEW f \in Files, NEW m \in Models, WriteModelChange(f, m) PROVE Kept
    <2>1. ModelChange(m) \in Entry /\ \A u : ~Of(ModelChange(m), u)
      BY <1>0, EntryTypes DEF ModelChange, Of
    <2> QED
      BY <1>1, <1>4, <2>1 DEF WriteModelChange
  <1>5. ASSUME NEW f \in Files, NEW e \in Turns, NEW m \in MaybeModel,
               NEW b \in BOOLEAN, NEW v \in Tools \cup {None}, WriteTurn(f, e, m, b, v)
        PROVE  Kept
    <2> DEFINE l == Turn(e, m, b, v, now + 1)
    <2>1. l \in Entry /\ l.type = "message" /\ l.tool = v
      BY <1>0, EntryTypes DEF Turn
    <2>2. Written(f, l) /\ (v # None => ~Calls(f, "message", v))
      BY <1>5 DEF WriteTurn
    <2> HIDE DEF l
    <2>3. \A u \in Tools : Of(l, u) => ~Calls(f, l.type, u)
      BY <2>1, <2>2, PiAssumption DEF Of
    <2> QED
      BY <1>1, <2>1, <2>2, <2>3
  <1>6. ASSUME NEW f \in Files, NEW v \in Tools, WriteResult(f, v) PROVE Kept
    <2> DEFINE l == ToolResult(v, now + 1)
    <2>1. l \in Entry /\ l.type = "toolResult" /\ l.tool = v
      BY <1>0, EntryTypes DEF ToolResult
    <2>2. Written(f, l) /\ ~Calls(f, "toolResult", v)
      BY <1>6 DEF WriteResult
    <2> HIDE DEF l
    <2>3. \A u \in Tools : Of(l, u) => ~Calls(f, l.type, u)
      BY <2>1, <2>2 DEF Of
    <2> QED
      BY <1>1, <2>1, <2>2, <2>3
  <1>7. ASSUME NEW f \in Files, NEW e \in Compactions, WriteCompaction(f, e) PROVE Kept
    <2>1. Compaction(e) \in Entry /\ \A u : ~Of(Compaction(e), u)
      BY <1>0, EntryTypes DEF Compaction, Of
    <2> QED
      BY <1>1, <1>7, <2>1 DEF WriteCompaction
  <1>8. ASSUME NEW f \in Files, NEW g \in Files, Fork(f, g) PROVE Kept
    <2>1. entries[f] \in Seq(Entry)
      BY <1>0 DEF Logs
    <2> QED
      BY <1>2, <1>8, <2>1 DEF Fork
  <1> QED
    BY <1>3, <1>4, <1>5, <1>6, <1>7, <1>8 DEF Agent, Kept

\* The row of a tool after one line more, or one line again.
LEMMA NextRecord ==
  ASSUME entries \in Logs, ToolsOnce, NEW f \in Files, NEW u \in Tools,
         NEW n \in Nat, NEW m \in Nat, NEW x \in 1..Len(entries[f]),
         n <= m, m <= Len(entries[f]),
         \/ m = n /\ x <= n
         \/ m = n + 1 /\ x = m
  PROVE  CallOf(RecordsOf(f, u, m)) =
           IF Of(entries[f][x], u)
           THEN LET old == CallOf(RecordsOf(f, u, n))
                IN  IF old = None THEN RecordOf(entries[f][x])
                    ELSE MergeRow(old, RecordOf(entries[f][x]))
           ELSE CallOf(RecordsOf(f, u, n))
  <1> DEFINE recs == RecordsOf(f, u, n)
             more == RecordsOf(f, u, m)
  <1>0. Len(entries[f]) \in Nat /\ n <= Len(entries[f])
    BY LenProperties DEF Logs
  <1>1. Single(recs) /\ Single(more)
    BY <1>0, RecordsSingle
  <1>2. /\ DOMAIN recs = {y \in 1..n : Of(entries[f][y], u)}
        /\ DOMAIN more = {y \in 1..m : Of(entries[f][y], u)}
        /\ \A y \in DOMAIN recs : recs[y] = RecordOf(entries[f][y])
        /\ \A y \in DOMAIN more : more[y] = RecordOf(entries[f][y])
    BY DEF RecordsOf
  <1>3. CASE m = n /\ x <= n
    <2>1. CASE Of(entries[f][x], u)
      <3>1. x \in DOMAIN recs
        BY <1>0, <1>2, <1>3, <2>1
      <3>2. CallOf(recs) # None /\ MergeRow(CallOf(recs), recs[x]) = CallOf(recs)
        BY <1>1, <3>1, CallOfAgain
      <3> QED
        BY <1>2, <1>3, <2>1, <3>1, <3>2
    <2> QED
      BY <1>3, <2>1
  <1>4. CASE m = n + 1 /\ x = m
    <2>1. CASE Of(entries[f][x], u)
      <3>1. /\ DOMAIN more = DOMAIN recs \cup {x} /\ x \notin DOMAIN recs
            /\ \A y \in DOMAIN recs : more[y] = recs[y]
        BY <1>2, <1>4, <2>1
      <3> HIDE DEF recs, more
      <3>2. CallOf(more) = IF CallOf(recs) = None THEN more[x] ELSE MergeRow(CallOf(recs), more[x])
        BY <1>1, <3>1, CallOfNext
      <3>3. more[x] = RecordOf(entries[f][x])
        BY <1>2, <3>1
      <3> QED
        BY <2>1, <3>2, <3>3 DEF recs, more
    <2>2. CASE ~Of(entries[f][x], u)
      <3>1. {y \in 1..m : Of(entries[f][y], u)} = {y \in 1..n : Of(entries[f][y], u)}
        BY <1>4, <2>2
      <3>2. more = recs
        BY <3>1 DEF RecordsOf
      <3> QED
        BY <2>2, <3>2
    <2> QED
      BY <2>1, <2>2
  <1> QED
    BY <1>3, <1>4

\* A line's record is the only one the read merges, and it goes to the session of
\* the file.
LEMMA LineRecord ==
  ASSUME NEW r \in Read, r.session = r.file, NEW l \in Entry
  PROVE  /\ Parsed(r, l).session = r.file
         /\ \A f \in Files, u \in Tools :
              Parsed(r, l).calls[<<f, u>>] =
                IF f = r.file /\ Of(l, u)
                THEN IF r.calls[<<f, u>>] = None THEN RecordOf(l)
                     ELSE MergeRow(r.calls[<<f, u>>], RecordOf(l))
                ELSE r.calls[<<f, u>>]
  <1>0. /\ r.calls \in [Files \X Tools -> Row \cup {None}]
        /\ r.file \in Files /\ r.session # None /\ r.session \in Files
    BY PiAssumption DEF Read, Rows
  <1>1. \A row : \A v \in Tools, f \in Files, u \in Tools :
          UpsertCall(r.calls, <<r.session, v>>, row)[<<f, u>>] =
            IF f = r.file /\ u = v
            THEN IF r.calls[<<f, u>>] = None THEN row ELSE MergeRow(r.calls[<<f, u>>], row)
            ELSE r.calls[<<f, u>>]
    <2> TAKE row
    <2> TAKE v \in Tools, f \in Files, u \in Tools
    <2>1. UpsertCall(r.calls, <<r.session, v>>, row) =
            [r.calls EXCEPT ![<<r.file, v>>] =
               IF r.calls[<<r.file, v>>] = None THEN row ELSE MergeRow(r.calls[<<r.file, v>>], row)]
      BY DEF UpsertCall
    <2> QED
      BY <1>0, <2>1
  <1>2. CASE l.type = "message"
    <2> DEFINE q == TurnLine(r, l)
    <2>1. Parsed(r, l) = q
      BY <1>0, <1>2 DEF Parsed
    <2>2. q.session = r.file
      BY <1>0, <1>2, TurnLineIs
    <2>3. q.calls = IF l.tool = None THEN r.calls
                    ELSE UpsertCall(r.calls, <<r.session, l.tool>>, CallRow(l.ts))
      BY <1>0, <1>2, TurnLineIs
    <2>4. RecordOf(l) = CallRow(l.ts) /\ \A u \in Tools : Of(l, u) <=> l.tool = u
      BY <1>2 DEF RecordOf, Of
    <2> HIDE DEF q
    <2>5. CASE l.tool = None
      <3>1. \A u \in Tools : ~Of(l, u)
        BY <2>4, <2>5, PiAssumption
      <3> QED
        BY <2>1, <2>2, <2>3, <2>5, <3>1
    <2>6. CASE l.tool # None
      <3>1. l.tool \in Tools
        BY <1>2, <2>6, EntryFields
      <3> QED
        BY <1>1, <2>1, <2>2, <2>3, <2>4, <2>6, <3>1
    <2> QED
      BY <2>5, <2>6
  <1>3. CASE l.type = "toolResult"
    <2> DEFINE q   == ResultLine(r, l)
               row == ResultRow(l.ts, FALSE)
    <2>1. Parsed(r, l) = q
      BY <1>0, <1>3 DEF Parsed
    <2>2. q.session = r.file /\ q.calls = UpsertCall(r.calls, <<r.session, l.tool>>, row)
      BY DEF ResultLine, Read
    <2>3. RecordOf(l) = row /\ \A u \in Tools : Of(l, u) <=> l.tool = u
      BY <1>3 DEF RecordOf, Of
    <2>4. l.tool \in Tools
      BY <1>3, EntryFields
    <2> HIDE DEF q, row
    <2>5. \A f \in Files, u \in Tools :
            q.calls[<<f, u>>] =
              IF f = r.file /\ u = l.tool
              THEN IF r.calls[<<f, u>>] = None THEN RecordOf(l)
                   ELSE MergeRow(r.calls[<<f, u>>], RecordOf(l))
              ELSE r.calls[<<f, u>>]
      <3>1. \A f \in Files, u \in Tools :
              q.calls[<<f, u>>] =
                IF f = r.file /\ u = l.tool
                THEN IF r.calls[<<f, u>>] = None THEN row ELSE MergeRow(r.calls[<<f, u>>], row)
                ELSE r.calls[<<f, u>>]
        <4> TAKE f \in Files, u \in Tools
        <4>1. UpsertCall(r.calls, <<r.session, l.tool>>, row)[<<f, u>>] =
                IF f = r.file /\ u = l.tool
                THEN IF r.calls[<<f, u>>] = None THEN row ELSE MergeRow(r.calls[<<f, u>>], row)
                ELSE r.calls[<<f, u>>]
          BY <1>1, <2>4
        <4>2. q.calls = UpsertCall(r.calls, <<r.session, l.tool>>, row)
          BY <2>2
        <4> QED
          BY <4>1, <4>2
      <3>2. RecordOf(l) = row
        BY <2>3
      <3> QED
        BY <3>1, <3>2, Zenon
    <2> QED
      BY <2>1, <2>2, <2>3, <2>5
  <1>4. CASE l.type \in {"session", "model_change", "compaction"}
    <2>1. Parsed(r, l).calls = r.calls /\ Parsed(r, l).session = r.file
      <3>1. CASE l.type = "session"
        BY <3>1 DEF Parsed, HeaderLine, Read
      <3>2. CASE l.type = "model_change"
        BY <3>2 DEF Parsed, ModelLine, Read
      <3>3. CASE l.type = "compaction"
        BY <1>0, <3>3 DEF Parsed, CompactionLine, Read
      <3> QED
        BY <1>4, <3>1, <3>2, <3>3
    <2>2. \A u : ~Of(l, u)
      BY <1>4 DEF Of
    <2> QED
      BY <2>1, <2>2
  <1> QED
    BY <1>2, <1>3, <1>4, EntryFields

\* Without a session a read passes over what it cannot attribute.
LEMMA SkippedLine ==
  ASSUME NEW r \in Read, r.session = None, NEW l \in Entry
  PROVE  Parsed(r, l).calls = r.calls /\ Parsed(r, l).session \in {None, r.file}
  <1>1. CASE l.type = "session"
    BY <1>1 DEF Parsed, HeaderLine, Read
  <1>2. CASE l.type = "model_change"
    BY <1>2 DEF Parsed, ModelLine, Read
  <1>3. CASE l.type \in {"message", "toolResult", "compaction"}
    BY <1>3 DEF Parsed
  <1> QED
    BY <1>1, <1>2, <1>3, EntryFields

LEMMA InitTools == Init => ToolInv
  <1> SUFFICES ASSUME Init  PROVE ToolInv
    OBVIOUS
  <1>1. ToolsOnce
    BY DEF Init, ToolsOnce
  <1>2. ASSUME NEW f \in Files \ Nested, NEW u \in Tools
        PROVE  db.calls[<<f, u>>] = CallOf(RecordsOf(f, u, db.off[f]))
    <2>1. db.calls[<<f, u>>] = None /\ db.off[f] = 0
      BY DEF Init
    <2>2. DOMAIN RecordsOf(f, u, db.off[f]) = {}
      BY <2>1 DEF RecordsOf
    <2> QED
      BY <2>1, <2>2, Zenon DEF CallOf
  <1> QED
    BY <1>1, <1>2 DEF ToolInv, ToolRowsExact, Init

\* What one pass finds below an offset, it finds there when pi has written on.
LEMMA AgentTools ==
  ASSUME TypeOK, PiInv, ToolInv, Agent
  PROVE  ToolInv'
  <1>1. ToolsOnce' /\ Extended(entries, entries') /\ UNCHANGED <<db, read>>
    BY AgentKeepsTools DEF ToolInv
  <1>2. entries \in Logs /\ \A f \in Files : db.off[f] \in Nat /\ db.off[f] <= Len(entries[f])
    BY EndsInFile
  <1>3. ASSUME NEW f \in Files \ Nested, NEW u \in Tools
        PROVE  RecordsOf(f, u, db.off[f])' = RecordsOf(f, u, db.off[f])
    BY <1>1, <1>2, RecordsStay
  <1>4. ToolRowsExact'
    BY <1>1, <1>3 DEF ToolInv, ToolRowsExact
  <1>5. ASSUME read # None, NEW f \in Files \ Nested, NEW u \in Tools
        PROVE  (read.calls[<<f, u>>] =
                  CallOf(RecordsOf(f, u, IF f = read.file THEN ReadEnd ELSE db.off[f])))'
    <2>1. ReadEnd \in Nat /\ ReadEnd <= Len(entries[read.file]) /\ ReadEnd' = ReadEnd
      BY <1>1, <1>5, EndsInFile DEF ReadEnd
    <2>2. CASE f = read.file
      <3>1. RecordsOf(f, u, ReadEnd)' = RecordsOf(f, u, ReadEnd)
        BY <1>1, <1>2, <2>1, <2>2, RecordsStay
      <3> QED
        BY <1>1, <1>5, <2>2, <3>1 DEF ToolInv
    <2>3. CASE f # read.file
      BY <1>1, <1>3, <1>5, <2>3 DEF ToolInv
    <2> QED
      BY <2>2, <2>3
  <1> QED
    BY <1>1, <1>4, <1>5 DEF ToolInv

\* A read line merges into the row of its tool what one pass finds there.
LEMMA ReadLineTools ==
  ASSUME TypeOK, PiInv, ToolInv, ReadLine
  PROVE  ToolInv'
  <1> DEFINE l == entries[read.file][read.pos + 1]
             p == Parsed(read, l)
  <1>1. /\ entries \in Logs /\ read # None /\ read \in Read /\ read.file \in Files
        /\ read.pos \in Nat /\ ReadEnd \in Nat /\ ReadEnd <= Len(entries[read.file])
        /\ entries[read.file] \in Seq(Entry) /\ Len(entries[read.file]) \in Nat
        /\ read.pos + 1 \in 1..Len(entries[read.file]) /\ db.off[read.file] \in Nat
        /\ read.session \in {None, read.file}
    BY EndsInFile DEF ReadLine, ToolInv
  <1>2. l \in Entry
    BY <1>1, ElementOfSeq
  <1>3. p \in Read /\ p.file = read.file /\ p.pos = read.pos
    BY <1>1, <1>2, ParsedType
  <1>4. read' = [p EXCEPT !.pos = @ + 1] /\ UNCHANGED <<entries, db>>
    BY DEF ReadLine
  <1>5. /\ p.session \in {None, read.file}
        /\ \A f \in Files \ Nested, u \in Tools :
             p.calls[<<f, u>>] =
               IF f = read.file /\ Of(l, u)
               THEN IF read.calls[<<f, u>>] = None THEN RecordOf(l)
                    ELSE MergeRow(read.calls[<<f, u>>], RecordOf(l))
               ELSE read.calls[<<f, u>>]
    <2>1. CASE read.session = read.file
      BY <1>1, <1>2, <2>1, LineRecord
    <2>2. CASE read.session = None
      <3>1. read.file \in Nested
        BY <1>1, <2>2 DEF PiInv, ReadRight
      <3> QED
        BY <1>1, <1>2, <2>2, <3>1, SkippedLine
    <2> QED
      BY <1>1, <2>1, <2>2
  <1> HIDE DEF p
  <1>6. /\ read'.file = read.file /\ read'.pos = read.pos + 1
        /\ read'.session \in {None, read.file} /\ read'.calls = p.calls
    BY <1>3, <1>4, <1>5 DEF Read
  <1>7. ReadEnd' = IF read.pos + 1 > db.off[read.file] THEN read.pos + 1 ELSE db.off[read.file]
    BY <1>4, <1>6 DEF ReadEnd
  <1>8. /\ ReadEnd' \in Nat /\ ReadEnd <= ReadEnd' /\ ReadEnd' <= Len(entries[read.file])
        /\ \/ ReadEnd' = ReadEnd /\ read.pos + 1 <= ReadEnd
           \/ ReadEnd' = ReadEnd + 1 /\ read.pos + 1 = ReadEnd'
    BY <1>1, <1>7 DEF ReadEnd
  <1>9. ASSUME NEW f \in Files \ Nested, NEW u \in Tools
        PROVE  read'.calls[<<f, u>>] =
                 CallOf(RecordsOf(f, u, IF f = read.file THEN ReadEnd' ELSE db.off[f]))
    <2>1. read.calls[<<f, u>>] =
            CallOf(RecordsOf(f, u, IF f = read.file THEN ReadEnd ELSE db.off[f]))
      BY <1>1 DEF ToolInv
    <2>2. CASE f = read.file
      <3>1. CallOf(RecordsOf(f, u, ReadEnd')) =
              IF Of(entries[f][read.pos + 1], u)
              THEN LET old == CallOf(RecordsOf(f, u, ReadEnd))
                   IN  IF old = None THEN RecordOf(entries[f][read.pos + 1])
                       ELSE MergeRow(old, RecordOf(entries[f][read.pos + 1]))
              ELSE CallOf(RecordsOf(f, u, ReadEnd))
        BY <1>1, <1>8, <2>2, NextRecord DEF ToolInv
      <3> QED
        BY <1>5, <1>6, <2>1, <2>2, <3>1
    <2>3. CASE f # read.file
      BY <1>5, <1>6, <2>1, <2>3
    <2> QED
      BY <2>2, <2>3
  <1> HIDE DEF l
  <1>10. ASSUME NEW f \in Files \ Nested, NEW u \in Tools
         PROVE  /\ RecordsOf(f, u, db.off[f])' = RecordsOf(f, u, db.off[f])
                /\ RecordsOf(f, u, IF f = read.file THEN ReadEnd ELSE db.off[f])'
                     = RecordsOf(f, u, IF f = read.file THEN ReadEnd' ELSE db.off[f])
    BY <1>4, <1>6 DEF RecordsOf, RecordOf, Of
  <1>11. ToolsOnce'
    BY <1>4 DEF ToolInv, ToolsOnce, Of
  <1>12. ToolRowsExact'
    <2>1. ASSUME NEW f \in Files \ Nested, NEW u \in Tools
          PROVE  (db.calls[<<f, u>>] = CallOf(RecordsOf(f, u, db.off[f])))'
      BY <1>4, <1>10 DEF ToolInv, ToolRowsExact
    <2> QED
      BY <2>1 DEF ToolRowsExact
  <1> QED
    BY <1>6, <1>9, <1>10, <1>11, <1>12 DEF ToolInv

LEMMA StepTools ==
  ASSUME TypeOK, PiInv, ToolInv, [Next]_vars
  PROVE  ToolInv'
  <1>0. ASSUME UNCHANGED entries  PROVE ToolsOnce'
    BY <1>0 DEF ToolInv, ToolsOnce, Of
  <1>1. ASSUME UNCHANGED <<entries, db>>  PROVE ToolRowsExact'
    <2>1. ASSUME NEW f \in Files \ Nested, NEW u \in Tools
          PROVE  RecordsOf(f, u, db.off[f])' = RecordsOf(f, u, db.off[f])
      BY <1>1 DEF RecordsOf, RecordOf, Of
    <2> QED
      BY <1>1, <2>1 DEF ToolInv, ToolRowsExact
  <1>2. CASE Agent
    BY <1>2, AgentTools
  <1>3. ASSUME NEW f \in Files, BeginRead(f)
        PROVE  ToolInv'
    <2>1. PICK from \in 0..db.off[f] : read' = Starting(f, from)
      BY <1>3 DEF BeginRead
    <2>2. db.off[f] \in Nat
      BY EndsInFile
    <2>3. /\ read'.file = f /\ read'.session \in {None, f} /\ read'.calls = db.calls
          /\ ReadEnd' = db.off[f] /\ UNCHANGED <<entries, db>>
      BY <1>3, <2>1, <2>2 DEF Starting, Fallback, BeginRead, ReadEnd
    <2>4. ASSUME NEW g \in Files \ Nested, NEW u \in Tools
          PROVE  RecordsOf(g, u, IF g = read.file THEN ReadEnd ELSE db.off[g])'
                   = RecordsOf(g, u, db.off[g])
      BY <2>3 DEF RecordsOf, RecordOf, Of
    <2>5. ToolsOnce' /\ ToolRowsExact'
      BY <1>0, <1>1, <2>3
    <2>6. \A g \in Files \ Nested, u \in Tools :
            read'.calls[<<g, u>>] = CallOf(RecordsOf(g, u, db.off[g]))
      BY <2>3 DEF ToolInv, ToolRowsExact
    <2> QED
      BY <2>3, <2>4, <2>5, <2>6 DEF ToolInv
  <1>4. CASE ReadLine
    BY <1>4, ReadLineTools
  <1>5. CASE EndRead
    <2>1. /\ read # None /\ read' = None /\ entries' = entries /\ db'.calls = read.calls
          /\ db'.off = [db.off EXCEPT ![read.file] = ReadEnd]
      BY <1>5 DEF EndRead, ReadEnd
    <2>2. \A f \in Files : db'.off[f] = IF f = read.file THEN ReadEnd ELSE db.off[f]
      BY <2>1 DEF TypeOK
    <2>3. ASSUME NEW f \in Files \ Nested, NEW u \in Tools
          PROVE  RecordsOf(f, u, db.off[f])'
                   = RecordsOf(f, u, IF f = read.file THEN ReadEnd ELSE db.off[f])
      BY <2>1, <2>2 DEF RecordsOf, RecordOf, Of
    <2>4. ASSUME NEW f \in Files \ Nested, NEW u \in Tools
          PROVE  (db.calls[<<f, u>>] = CallOf(RecordsOf(f, u, db.off[f])))'
      <3>1. read.calls[<<f, u>>] =
              CallOf(RecordsOf(f, u, IF f = read.file THEN ReadEnd ELSE db.off[f]))
        BY <2>1, Zenon DEF ToolInv
      <3> QED
        BY <2>1, <2>3, <3>1
    <2>5. ToolRowsExact'
      BY <2>4 DEF ToolRowsExact
    <2> QED
      BY <1>0, <2>1, <2>5 DEF ToolInv
  <1>6. CASE UNCHANGED vars
    <2>1. UNCHANGED <<entries, db, read>> /\ ReadEnd' = ReadEnd
      BY <1>6 DEF vars, ReadEnd
    <2>2. ASSUME NEW f \in Files \ Nested, NEW u \in Tools
          PROVE  RecordsOf(f, u, IF f = read.file THEN ReadEnd ELSE db.off[f])'
                   = RecordsOf(f, u, IF f = read.file THEN ReadEnd ELSE db.off[f])
      BY <2>1 DEF RecordsOf, RecordOf, Of
    <2> QED
      BY <1>0, <1>1, <2>1, <2>2 DEF ToolInv
  <1> QED
    BY <1>2, <1>3, <1>4, <1>5, <1>6 DEF Next

\* The row of a tool call of a session that is in the name of its file is what one
\* pass over the stored entries says, wherever the reads began and ended and
\* whichever half of the row they met first (store.py:130-152).
THEOREM ToolRows == Spec => []ToolRowsExact
  <1>1. TypeOK /\ PiInv /\ ToolInv /\ [Next]_vars => ToolInv'
    BY StepTools
  <1>2. ToolInv => ToolRowsExact
    BY DEF ToolInv
  <1> QED
    BY <1>1, <1>2, InitTools, InvariantHolds, PTL DEF Spec

--------------------------------------------------------------------------------
\* The ledger.

LEMMA KeyFields ==
  ASSUME NEW k \in LedgerKeys
  PROVE  \/ k.type = "message" /\ k.id \in Turns /\ k.model \in MaybeModel
         \/ k.type = "compaction" /\ k.id \in Compactions
  BY DEF LedgerKeys

LEMMA KeyInLedger ==
  ASSUME NEW l \in Entry, Billed(l)
  PROVE  KeyOf(l) \in LedgerKeys
  BY EntryFields DEF Billed, KeyOf, LedgerKeys

LEMMA RowInTable ==
  ASSUME NEW t, t.msgs \in Msgs, t.comps \in Comps, NEW k \in LedgerKeys
  PROVE  /\ RowOf(t, k) \in Spend \cup {None}
         /\ RowOf(t, k) # None => RowOf(t, k).session \in Files
  <1>1. RowOf(t, k) \in Spend \cup {None}
    BY KeyFields DEF RowOf, Msgs, Comps
  <1> QED
    BY <1>1 DEF Spend

LEMMA HeldIs ==
  \A w : w \in Held <=>
    \E f \in Files : \E x \in 1..Len(entries[f]) :
      /\ Billed(entries[f][x])
      /\ w = <<f, KeyOf(entries[f][x])>>
  BY DEF Held, HeldBy, EntrySet

LEMMA HeldInLedger ==
  ASSUME TypeOK'
  PROVE  Held' \subseteq Files \X LedgerKeys
  <1> SUFFICES ASSUME NEW f \in Files, NEW x \in 1..Len(entries'[f]),
                      Billed(entries'[f][x])
               PROVE  <<f, KeyOf(entries'[f][x])>> \in Files \X LedgerKeys
    BY DEF Held, HeldBy, EntrySet, KeyOf
  <1>1. entries'[f][x] \in Entry
    BY ElementOfSeq DEF TypeOK
  <1> QED
    BY <1>1, KeyInLedger

\* What the files hold stays held.
LEMMA HeldGrows ==
  ASSUME TypeOK, TypeOK', Extended(entries, entries')
  PROVE  Held \subseteq Held'
  <1> SUFFICES ASSUME NEW w \in Held  PROVE w \in Held'
    OBVIOUS
  <1>1. PICK f \in Files : \E x \in 1..Len(entries[f]) :
          /\ Billed(entries[f][x])
          /\ w = <<f, KeyOf(entries[f][x])>>
    BY HeldIs
  <1>2. PICK x \in 1..Len(entries[f]) :
          /\ Billed(entries[f][x])
          /\ w = <<f, KeyOf(entries[f][x])>>
    BY <1>1
  <1>3. Len(entries[f]) \in Nat /\ Len(entries'[f]) \in Nat
    BY LenProperties DEF TypeOK
  <1>4. x \in 1..Len(entries'[f]) /\ entries'[f][x] = entries[f][x]
    BY <1>3 DEF Extended
  <1>5. entries[f][x] \in EntrySet(f)'
    BY <1>4 DEF EntrySet
  <1>6. w \in HeldBy(f)'
    BY <1>2, <1>5 DEF HeldBy, KeyOf
  <1> QED
    BY <1>6 DEF Held

\* An entry with usage that names its model, or a compaction, gets its own row, for the
\* session of the file, if it has none; no other row changes.
LEMMA LineAttributes ==
  ASSUME NEW r \in Read, r.session \in {None, r.file}, NEW l \in Entry,
         l.type = "message" => l.model # None, NEW k \in LedgerKeys
  PROVE  \/ RowOf(Parsed(r, l), k) = RowOf(r, k)
         \/ /\ RowOf(r, k) = None
            /\ Billed(l) /\ k = KeyOf(l)
            /\ RowOf(Parsed(r, l), k).session = r.file
  <1> DEFINE p == Parsed(r, l)
  <1>1. CASE l.type = "message" /\ l.usage /\ r.session # None
    <2> DEFINE row == [session |-> r.session, model |-> l.model]
    <2>1. r.session = r.file /\ r.session \in Files /\ p = TurnLine(r, l)
      BY <1>1 DEF Parsed, Read
    <2>2. Coalesce(l.model, r.model) = l.model
      BY <1>1 DEF Coalesce
    <2>3. /\ p.msgs = InsertFirst(r.msgs, <<l.id, l.model>>, row)
          /\ p.comps = r.comps
      <3>1. /\ TurnLine(r, l).msgs = InsertFirst(r.msgs, <<l.id, Coalesce(l.model, r.model)>>,
                 [session |-> r.session, model |-> Coalesce(l.model, r.model)])
            /\ TurnLine(r, l).comps = r.comps
        <4>1. r.session \in Files /\ l.usage = TRUE
          BY <1>1, <2>1, EntryFields
        <4> QED
          BY <1>1, <4>1, TurnLineIs
      <3> QED
        BY <2>1, <2>2, <3>1
    <2>4. r.msgs \in [Turns \X MaybeModel -> Spend \cup {None}] /\ l.model \in MaybeModel
          /\ l.id \in Turns /\ row \in Spend
      BY <1>1, <2>1, EntryFields DEF Read, Msgs, Spend
    <2>5. row.session = r.file
      BY <2>1
    <2> HIDE DEF p, row
    <2>6. CASE k.type = "message" /\ <<k.id, k.model>> = <<l.id, l.model>>
      <3>1. k = KeyOf(l)
        BY <1>1, <2>6, KeyFields DEF KeyOf, LedgerKeys
      <3>2. r.msgs[<<k.id, k.model>>] = None => p.msgs[<<k.id, k.model>>] = row
        BY <2>3, <2>4, <2>6 DEF InsertFirst
      <3>3. r.msgs[<<k.id, k.model>>] # None => p.msgs[<<k.id, k.model>>] = r.msgs[<<k.id, k.model>>]
        BY <2>3, <2>4, <2>6 DEF InsertFirst
      <3> QED
        BY <1>1, <2>5, <2>6, <3>1, <3>2, <3>3 DEF RowOf, Billed, p
    <2>7. CASE k.type = "message" /\ <<k.id, k.model>> # <<l.id, l.model>>
      <3>1. p.msgs[<<k.id, k.model>>] = r.msgs[<<k.id, k.model>>]
        BY <2>3, <2>4, <2>7, KeyFields DEF InsertFirst
      <3> QED
        BY <2>7, <3>1 DEF RowOf, p
    <2>8. CASE k.type = "compaction"
      BY <2>3, <2>8 DEF RowOf, p
    <2> QED
      BY <2>6, <2>7, <2>8, KeyFields
  <1>2. CASE l.type = "compaction" /\ r.session # None
    <2> DEFINE row == [session |-> r.session, model |-> r.model]
    <2>1. r.session = r.file /\ r.session \in Files /\ p = CompactionLine(r, l)
      BY <1>2 DEF Parsed, Read
    <2>2. p.comps = InsertFirst(r.comps, l.id, row) /\ p.msgs = r.msgs
      BY <1>2, <2>1 DEF CompactionLine, Read
    <2>3. /\ r.comps \in [Compactions -> Spend \cup {None}] /\ l.id \in Compactions
          /\ row.session = r.file
      BY <1>2, <2>1, EntryFields DEF Read, Comps
    <2> HIDE DEF p, row
    <2>4. CASE k.type = "compaction" /\ k.id = l.id
      <3>1. k = KeyOf(l)
        BY <1>2, <2>4 DEF KeyOf, LedgerKeys
      <3>2. p.comps[k.id] = IF r.comps[k.id] = None THEN row ELSE r.comps[k.id]
        BY <2>2, <2>3, <2>4 DEF InsertFirst
      <3> QED
        BY <1>2, <2>3, <2>4, <3>1, <3>2 DEF RowOf, Billed, p
    <2>5. CASE k.type = "compaction" /\ k.id # l.id
      <3>1. p.comps[k.id] = r.comps[k.id]
        BY <2>2, <2>3, <2>5, KeyFields DEF InsertFirst
      <3> QED
        BY <2>5, <3>1 DEF RowOf, p
    <2>6. CASE k.type = "message"
      BY <2>2, <2>6 DEF RowOf, p
    <2> QED
      BY <2>4, <2>5, <2>6, KeyFields
  <1>3. CASE ~Billed(l) \/ r.session = None
    <2>1. p.msgs = r.msgs /\ p.comps = r.comps
      <3>1. CASE l.type = "session"
        BY <3>1 DEF Parsed, HeaderLine, Read
      <3>2. CASE l.type = "model_change"
        BY <3>2 DEF Parsed, ModelLine, Read
      <3>3. CASE l.type = "toolResult"
        BY <3>3 DEF Parsed, ResultLine, Read
      <3>4. CASE l.type \in {"message", "compaction"} /\ r.session = None
        BY <3>4 DEF Parsed
      <3>5. CASE l.type = "message" /\ ~l.usage /\ r.session # None
        <4>1. r.session \in Files /\ Parsed(r, l) = TurnLine(r, l) /\ l.usage = FALSE
          BY <3>5, EntryFields DEF Parsed, Read
        <4>2. TurnLine(r, l).msgs = r.msgs /\ TurnLine(r, l).comps = r.comps
          <5>1. r.session \in Files /\ l.usage = FALSE
            BY <4>1
          <5> QED
            BY <3>5, <5>1, TurnLineIs
        <4> QED
          BY <4>1, <4>2
      <3> QED
        BY <1>3, <3>1, <3>2, <3>3, <3>4, <3>5, EntryFields DEF Billed
    <2> QED
      BY <2>1 DEF RowOf
  <1> QED
    BY <1>1, <1>2, <1>3 DEF Billed

LEMMA InitLedger == Init => LedgerInv
  <1> SUFFICES ASSUME Init  PROVE LedgerInv
    OBVIOUS
  <1>1. ASSUME NEW k \in LedgerKeys  PROVE RowOf(db, k) = None
    BY KeyFields DEF Init, RowOf
  <1> QED
    BY <1>1 DEF Init, LedgerInv, Attributed

LEMMA StepLedger ==
  ASSUME TypeOK, TypeOK', PiInv, ToolInv, OwnModel, LedgerInv, [Next]_vars
  PROVE  LedgerInv' /\ [SpendLedger!Next]_<<Held, Sessions>>
  <1>1. ASSUME UNCHANGED entries  PROVE Held' = Held
    BY <1>1 DEF Held, HeldBy, EntrySet, KeyOf
  <1>2. ASSUME UNCHANGED db
        PROVE  Sessions' = Sessions /\ \A k : RowOf(db, k)' = RowOf(db, k)
    BY <1>2 DEF Sessions, RowOf
  <1>3. ASSUME UNCHANGED read  PROVE \A k : RowOf(read, k)' = RowOf(read, k)
    BY <1>3 DEF RowOf
  <1>4. CASE Agent
    <2>1. Extended(entries, entries') /\ UNCHANGED <<db, read>>
      BY <1>4, AgentKeepsTools DEF ToolInv
    <2>2. Held \subseteq Held' /\ Held' \subseteq Files \X LedgerKeys
      BY <2>1, HeldGrows, HeldInLedger
    <2>3. LedgerInv'
      BY <1>2, <1>3, <2>1, <2>2 DEF LedgerInv, Attributed
    <2> QED
      BY <1>2, <2>1, <2>2, <2>3 DEF SpendLedger!Next, SpendLedger!Write
  <1>5. ASSUME NEW f \in Files, BeginRead(f)
        PROVE  LedgerInv' /\ UNCHANGED <<Held, Sessions>>
    <2>1. /\ read'.msgs = db.msgs /\ read'.comps = db.comps /\ UNCHANGED <<entries, db>>
      BY <1>5 DEF BeginRead, Starting
    <2>2. \A k : RowOf(read, k)' = RowOf(db, k)
      BY <2>1 DEF RowOf
    <2> QED
      BY <1>1, <1>2, <2>1, <2>2 DEF LedgerInv, Attributed
  <1>6. CASE ReadLine
    <2> DEFINE l == entries[read.file][read.pos + 1]
    <2>1. /\ read # None /\ read \in Read /\ read.file \in Files /\ read.pos \in Nat
          /\ entries[read.file] \in Seq(Entry) /\ Len(entries[read.file]) \in Nat
          /\ read.pos + 1 \in 1..Len(entries[read.file])
          /\ read.session \in {None, read.file}
      BY <1>6, EndsInFile DEF ReadLine, ToolInv
    <2>2. l \in Entry
      BY <2>1, ElementOfSeq
    <2>3. l.type = "message" => l.model # None
      BY <2>1 DEF PiInv, EntriesRight, OneModel
    <2>4. Billed(l) => <<read.file, KeyOf(l)>> \in Held
      BY <2>1, HeldIs
    <2>5. read' = [Parsed(read, l) EXCEPT !.pos = @ + 1] /\ UNCHANGED <<entries, db>>
      BY <1>6 DEF ReadLine
    <2>6. Parsed(read, l) \in Read
      BY <2>1, <2>2, ParsedType
    <2> HIDE DEF l
    <2>7. read'.msgs = Parsed(read, l).msgs /\ read'.comps = Parsed(read, l).comps
      BY <2>5, <2>6 DEF Read
    <2>8. \A k : RowOf(read, k)' = RowOf(Parsed(read, l), k)
      BY <2>7 DEF RowOf
    <2>9. ASSUME NEW k \in LedgerKeys
          PROVE  \/ RowOf(read, k)' = RowOf(read, k)
                 \/ /\ RowOf(read, k) = None
                    /\ Billed(l) /\ k = KeyOf(l)
                    /\ RowOf(read, k)'.session = read.file
      BY <2>1, <2>2, <2>3, <2>8, LineAttributes
    <2>10. ASSUME NEW k \in LedgerKeys, RowOf(read, k)' # None
           PROVE  <<RowOf(read, k)'.session, k>> \in Held
      <3>1. CASE RowOf(read, k)' = RowOf(read, k)
        BY <2>1, <2>10, <3>1 DEF LedgerInv, Attributed
      <3> QED
        BY <2>4, <2>9, <3>1
    <2>11. ASSUME NEW k \in LedgerKeys, RowOf(db, k) # None
           PROVE  RowOf(read, k)' = RowOf(db, k)
      <3>1. RowOf(read, k) = RowOf(db, k)
        BY <2>1, <2>11 DEF LedgerInv
      <3> QED
        BY <2>9, <2>11, <3>1
    <2> QED
      BY <1>1, <1>2, <2>5, <2>10, <2>11 DEF LedgerInv, Attributed
  <1>7. CASE EndRead
    <2>1. /\ read # None /\ read' = None /\ entries' = entries
          /\ db'.msgs = read.msgs /\ db'.comps = read.comps
      BY <1>7 DEF EndRead
    <2>2. \A k : RowOf(db, k)' = RowOf(read, k)
      BY <2>1 DEF RowOf
    <2>3. Held' = Held
      BY <1>1, <2>1
    <2>4. LedgerInv'
      BY <2>1, <2>2, <2>3 DEF LedgerInv, Attributed
    <2>5. ASSUME NEW k \in LedgerKeys
          PROVE  RowOf(db, k)' # None =>
                   /\ RowOf(db, k)'.session \in Files
                   /\ <<RowOf(db, k)'.session, k>> \in Held
      <3>1. read.msgs \in Msgs /\ read.comps \in Comps /\ Attributed(read)
        BY <2>1 DEF TypeOK, Read, LedgerInv
      <3> QED
        BY <2>2, <3>1, RowInTable DEF Attributed
    <2>6. ASSUME NEW k \in LedgerKeys
          PROVE  /\ Sessions[k] = IF RowOf(db, k) = None THEN None ELSE RowOf(db, k).session
                 /\ Sessions'[k] = IF RowOf(db, k)' = None THEN None ELSE RowOf(db, k)'.session
      BY DEF Sessions
    <2>7. Sessions' \in [LedgerKeys -> Files \cup {None}]
      <3>1. \A k \in LedgerKeys : Sessions'[k] \in Files \cup {None}
        BY <2>5, <2>6
      <3>2. Sessions' = [k \in LedgerKeys |-> Sessions'[k]]
        BY DEF Sessions
      <3> QED
        BY <3>1, <3>2
    <2>8. ASSUME NEW k \in LedgerKeys
          PROVE  \/ Sessions'[k] = Sessions[k]
                 \/ Sessions[k] = None /\ Sessions'[k] \in SpendLedger!Attributions(k)
      <3>1. CASE RowOf(db, k) # None
        <4>1. RowOf(db, k)' = RowOf(db, k)
          BY <2>1, <2>2, <3>1 DEF LedgerInv
        <4> QED
          BY <2>6, <4>1
      <3>2. CASE RowOf(db, k) = None /\ RowOf(db, k)' = None
        BY <2>6, <3>2
      <3>3. CASE RowOf(db, k) = None /\ RowOf(db, k)' # None
        BY <2>5, <2>6, <3>3 DEF SpendLedger!Attributions
      <3> QED
        BY <3>1, <3>2, <3>3
    <2> QED
      BY <2>3, <2>4, <2>7, <2>8 DEF SpendLedger!Next, SpendLedger!Record
  <1>8. CASE UNCHANGED vars
    <2>1. UNCHANGED <<entries, db, read>>
      BY <1>8 DEF vars
    <2> QED
      BY <1>1, <1>2, <1>3, <2>1 DEF LedgerInv, Attributed
  <1> QED
    BY <1>4, <1>5, <1>6, <1>7, <1>8 DEF Next

\* "First write wins" (docs/adr/0005) for pi: where assistant entries name their
\* model, forks, read boundaries and nested files only ever lead to rows of turns and
\* compactions that are written, each for a session that has it.
THEOREM LedgerImplemented == ASSUME OwnModel PROVE Spec => ImplementsLedger
  <1>1. Init => SpendLedger!Init
    <2> SUFFICES ASSUME Init  PROVE SpendLedger!Init
      OBVIOUS
    <2>1. \A f \in Files : Len(entries[f]) = 0
      BY DEF Init
    <2>2. Held = {}
      BY <2>1, HeldIs
    <2>3. ASSUME NEW k \in LedgerKeys  PROVE RowOf(db, k) = None
      BY KeyFields DEF Init, RowOf
    <2>4. Sessions = [k \in LedgerKeys |-> None]
      BY <2>3 DEF Sessions
    <2> QED
      BY <2>2, <2>4 DEF SpendLedger!Init
  <1>2. TypeOK /\ TypeOK' /\ PiInv /\ ToolInv /\ LedgerInv /\ [Next]_vars =>
          LedgerInv' /\ [SpendLedger!Next]_<<Held, Sessions>>
    BY StepLedger
  <1>3. Spec => [](TypeOK /\ PiInv)
    BY InvariantHolds
  <1>4. Init /\ [][Next]_vars /\ [](TypeOK /\ PiInv) => []ToolInv
    <2>1. TypeOK /\ PiInv /\ ToolInv /\ [Next]_vars => ToolInv'
      BY StepTools
    <2> QED
      BY <2>1, InitTools, PTL
  <1> QED
    BY <1>1, <1>2, <1>3, <1>4, InitLedger, PTL DEF Spec, ImplementsLedger, SpendLedger!Spec
================================================================================
