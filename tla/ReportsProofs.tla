----------------------------- MODULE ReportsProofs -----------------------------
(***************************************************************************)
(* Theorems about Experiments and about Reports, which extends it, for any *)
(* messages, names, shells and clock.  The table of windows implements     *)
(* Windows, and a command that nobody overtook does what it would have     *)
(* done in one step: both rest on WindowsInv.  What a command prints is    *)
(* about the store, although each of its queries sees another state of it: *)
(* that rests on ReadingInv.                                               *)
(***************************************************************************)
EXTENDS Reports, TLAPS

-------------------------------------------------------------------------------
\* A command that begins, of the given fields, and its place among the others.
LEMMA CommandType ==
  ASSUME NEW op \in {"start", "stop"}, NEW n \in Names, NEW s \in {"check", "clock", "write"},
         NEW b \in BOOLEAN
  PROVE  Command(op, n, s, b) \in Cmd
BY DEF Command, Cmd

LEMMA TypeInit == Init => TypeOK
BY ExperimentsAssumption DEF Init, TypeOK

\* Every step keeps the shape of the variables.
LEMMA TypeStep == TypeOK /\ [Next]_vars => TypeOK'
<1> SUFFICES ASSUME TypeOK, [Next]_vars PROVE TypeOK'
  OBVIOUS
<1> USE DEF TypeOK
<1>1. ASSUME Tick PROVE TypeOK'
  BY <1>1 DEF Tick
<1>2. ASSUME NEW u \in Users, NEW n \in Names, CheckStart(u, n) PROVE TypeOK'
  BY <1>2, CommandType DEF CheckStart, Command
<1>3. ASSUME NEW u \in Users, NEW n \in Names, CheckStop(u, n) PROVE TypeOK'
  BY <1>3, CommandType DEF CheckStop, MayStop, IsOpen, Command
<1>4. ASSUME NEW u \in Users, NEW n \in Names, LookForOpen(u, n) PROVE TypeOK'
  <2>1. IsOpen(n)
    BY <1>4 DEF LookForOpen, OnlyOpen
  <2> QED BY <1>4, <2>1, CommandType DEF LookForOpen, IsOpen, Command
<1>5. ASSUME NEW u \in Users, CheckFound(u) PROVE TypeOK'
  BY <1>5 DEF CheckFound, At, Cmd
<1>6. ASSUME NEW u \in Users, ReadClock(u) PROVE TypeOK'
  BY <1>6 DEF ReadClock, At, Cmd
<1>7. ASSUME NEW u \in Users, InsertRow(u) PROVE TypeOK'
  BY <1>7 DEF InsertRow, Inserted, At, Wrote, Cmd, Window
<1>8. ASSUME NEW u \in Users, InsertRaises(u) PROVE TypeOK'
  BY <1>8 DEF InsertRaises, Done
<1>9. ASSUME NEW u \in Users, UpdateRow(u) PROVE TypeOK'
  BY <1>9, ExperimentsAssumption DEF UpdateRow, At, Wrote, Cmd, Window
<1>10. ASSUME NEW u \in Users, GiveUp(u) PROVE TypeOK'
  BY <1>10 DEF GiveUp, Done
<1>11. CASE UNCHANGED vars
  BY <1>11 DEF vars
<1> QED BY <1>1, <1>2, <1>3, <1>4, <1>5, <1>6, <1>7, <1>8, <1>9, <1>10, <1>11 DEF Next, Run

\* Type correctness: every variable has the shape the code gives it, and a stop
\* that found its row still has one.
THEOREM TypeCorrect == Spec => []TypeOK
<1>1. TypeOK /\ [Next]_vars => TypeOK'
  BY TypeStep
<1> QED BY <1>1, TypeInit, PTL DEF Spec

-------------------------------------------------------------------------------
\* Timestamps are read from a clock that does not go back.
LEMMA TimelyStep == TypeOK /\ TypeOK' /\ Timely /\ [Next]_vars => Timely'
<1> SUFFICES ASSUME TypeOK, TypeOK', Timely, [Next]_vars PROVE Timely'
  OBVIOUS
<1> USE DEF TypeOK, Timely, At
<1>1. ASSUME Tick PROVE Timely'
  BY <1>1, ExperimentsAssumption DEF Tick, Window, Cmd
<1>2. ASSUME NEW u \in Users, NEW n \in Names, CheckStart(u, n) PROVE Timely'
  BY <1>2 DEF CheckStart, Command
<1>3. ASSUME NEW u \in Users, NEW n \in Names, CheckStop(u, n) PROVE Timely'
  BY <1>3 DEF CheckStop, Command
<1>4. ASSUME NEW u \in Users, NEW n \in Names, LookForOpen(u, n) PROVE Timely'
  BY <1>4 DEF LookForOpen, Command
<1>5. ASSUME NEW u \in Users, CheckFound(u) PROVE Timely'
  BY <1>5 DEF CheckFound, Cmd
<1>6. ASSUME NEW u \in Users, ReadClock(u) PROVE Timely'
  BY <1>6 DEF ReadClock, Cmd, Window
<1>7. ASSUME NEW u \in Users, InsertRow(u) PROVE Timely'
  BY <1>7 DEF InsertRow, Inserted, Wrote, Cmd, Window
<1>8. ASSUME NEW u \in Users, InsertRaises(u) PROVE Timely'
  BY <1>8 DEF InsertRaises, Done
<1>9. ASSUME NEW u \in Users, UpdateRow(u) PROVE Timely'
  BY <1>9 DEF UpdateRow, Wrote, Cmd, Window
<1>10. ASSUME NEW u \in Users, GiveUp(u) PROVE Timely'
  BY <1>10 DEF GiveUp, Done
<1>11. CASE UNCHANGED vars
  BY <1>11 DEF vars
<1> QED BY <1>1, <1>2, <1>3, <1>4, <1>5, <1>6, <1>7, <1>8, <1>9, <1>10, <1>11 DEF Next, Run

\* What a command has found out.
Unraced == \A u \in Users : cmd[u] # None /\ ~cmd[u].raced => StillTrue(u)

\* A step that leaves the table and the command of v alone leaves what v has found out.
LEMMA Untouched ==
  ASSUME NEW v \in Users, StillTrue(v), exps' = exps, cmd'[v] = cmd[v]
  PROVE  StillTrue(v)'
BY DEF StillTrue, IsOpen

\* After a write nobody else is sure of anything.
LEMMA WroteRaces ==
  ASSUME TypeOK, NEW u \in Users, Wrote(u)
  PROVE  Unraced'
<1> SUFFICES ASSUME NEW v \in Users, cmd'[v] # None, ~cmd'[v].raced PROVE FALSE
  BY DEF Unraced
<1>1. v # u /\ cmd[v] # None
  BY DEF Wrote
<1>2. cmd[v] \in Cmd
  BY <1>1 DEF TypeOK
<1>3. cmd'[v] = [cmd[v] EXCEPT !.raced = TRUE]
  BY <1>1 DEF Wrote
<1> QED BY <1>2, <1>3 DEF Cmd

LEMMA UnracedStep == TypeOK /\ Unraced /\ [Next]_vars => Unraced'
<1> SUFFICES ASSUME TypeOK, Unraced, [Next]_vars PROVE Unraced'
  OBVIOUS
<1>1. ASSUME NEW u \in Users, exps' = exps, \A v \in Users \ {u} : cmd'[v] = cmd[v],
             cmd'[u] # None /\ ~cmd'[u].raced => StillTrue(u)'
      PROVE  Unraced'
  BY <1>1, Untouched DEF Unraced
<1>2. ASSUME NEW u \in Users, NEW n \in Names, CheckStart(u, n) PROVE Unraced'
  <2>1. cmd'[u] = Command("start", n, "clock", FALSE)
    BY <1>2 DEF CheckStart, TypeOK
  <2>2. StillTrue(u)'
    BY <1>2, <2>1 DEF CheckStart, MayStart, StillTrue, Command
  <2> QED BY <1>1, <1>2, <2>2 DEF CheckStart, TypeOK
<1>3. ASSUME NEW u \in Users, NEW n \in Names, CheckStop(u, n) PROVE Unraced'
  <2>1. cmd'[u] = Command("stop", n, "clock", FALSE)
    BY <1>3 DEF CheckStop, TypeOK
  <2>2. StillTrue(u)'
    BY <1>3, <2>1 DEF CheckStop, MayStop, StillTrue, IsOpen, Command
  <2> QED BY <1>1, <1>3, <2>2 DEF CheckStop, TypeOK
<1>4. ASSUME NEW u \in Users, NEW n \in Names, LookForOpen(u, n) PROVE Unraced'
  <2>1. cmd'[u] = Command("stop", n, "check", TRUE)
    BY <1>4 DEF LookForOpen, TypeOK
  <2>2. \A m \in Names : IsOpen(m) => m = n
    BY <1>4 DEF LookForOpen, OnlyOpen
  <2>3. StillTrue(u)'
    BY <1>4, <2>1, <2>2 DEF LookForOpen, StillTrue, IsOpen, Command
  <2> QED BY <1>1, <1>4, <2>3 DEF LookForOpen, TypeOK
<1>5. ASSUME NEW u \in Users, CheckFound(u) PROVE Unraced'
  <2>1. cmd[u] \in Cmd /\ exps' = exps
    BY <1>5 DEF CheckFound, At, TypeOK
  <2>2. ASSUME cmd'[u] # None, ~cmd'[u].raced PROVE StillTrue(u)'
    <3>1. MayStop(cmd[u].name) /\ cmd'[u] = [cmd[u] EXCEPT !.step = "clock"]
      BY <1>5, <2>2 DEF CheckFound, TypeOK
    <3>2. StillTrue(u) /\ cmd[u].op = "stop" => IsOpen(cmd[u].name)
      BY <3>1 DEF MayStop
    <3>3. StillTrue(u)
      BY <1>5, <2>1, <2>2, <3>1 DEF Unraced, CheckFound, At, Cmd
    <3> QED BY <2>1, <3>1, <3>3 DEF StillTrue, MayStop, IsOpen, Cmd
  <2> QED BY <1>1, <1>5, <2>2 DEF CheckFound, TypeOK
<1>6. ASSUME NEW u \in Users, ReadClock(u) PROVE Unraced'
  <2>1. cmd[u] \in Cmd /\ cmd'[u] = [cmd[u] EXCEPT !.step = "write", !.ts = now] /\ exps' = exps
    BY <1>6 DEF ReadClock, At, TypeOK
  <2>2. ASSUME ~cmd'[u].raced PROVE StillTrue(u)'
    <3>1. StillTrue(u) /\ cmd[u].step = "clock"
      BY <1>6, <2>1, <2>2 DEF Unraced, ReadClock, At, Cmd
    <3> QED BY <2>1, <3>1 DEF StillTrue, IsOpen, Cmd
  <2> QED BY <1>1, <1>6, <2>2 DEF ReadClock, TypeOK
<1>7. ASSUME NEW u \in Users, InsertRow(u) \/ UpdateRow(u) PROVE Unraced'
  BY <1>7, WroteRaces DEF InsertRow, UpdateRow
<1>8. ASSUME NEW u \in Users, InsertRaises(u) \/ GiveUp(u) PROVE Unraced'
  BY <1>1, <1>8 DEF InsertRaises, GiveUp, Done, TypeOK
<1>9. CASE Tick \/ UNCHANGED vars
  BY <1>9, Untouched DEF Tick, vars, Unraced
<1> QED BY <1>2, <1>3, <1>4, <1>5, <1>6, <1>7, <1>8, <1>9 DEF Next, Run

LEMMA WindowsInvariant == Spec => []WindowsInv
<1>1. Init => WindowsInv
  BY TypeInit DEF Init, WindowsInv, Timely, At
<1>2. WindowsInv /\ [Next]_vars => WindowsInv'
  BY TypeStep, TimelyStep, UnracedStep DEF WindowsInv, Unraced
<1> QED BY <1>1, <1>2, PTL DEF Spec

-------------------------------------------------------------------------------
\* Each step is a step of Windows or leaves the table and the clock as they were.
LEMMA WindowsStep == WindowsInv /\ [Next]_vars => [Table!Next]_<<now, exps>>
<1> SUFFICES ASSUME WindowsInv, [Next]_vars PROVE [Table!Next]_<<now, exps>>
  OBVIOUS
<1> USE DEF WindowsInv, TypeOK
<1>1. CASE Tick
  BY <1>1 DEF Tick, Table!Next, Table!Advance
<1>2. ASSUME NEW u \in Users, InsertRow(u) PROVE Table!Next
  <2>1. cmd[u] \in Cmd /\ cmd[u].ts \in 0..now
    BY <1>2 DEF InsertRow, At, Timely, Cmd
  <2> QED BY <1>2, <2>1 DEF InsertRow, Inserted, Table!Next, Table!Open, Cmd
<1>3. ASSUME NEW u \in Users, UpdateRow(u) PROVE Table!Next
  <2>1. cmd[u] \in Cmd /\ exps[cmd[u].name] # None /\ exps[cmd[u].name] \in Window
    BY <1>3 DEF UpdateRow, At, Cmd
  <2>2. cmd[u].ts \in exps[cmd[u].name].started..now
    BY <1>3, <2>1 DEF UpdateRow, At, Timely, Cmd, Window
  <2> QED BY <1>3, <2>1, <2>2 DEF UpdateRow, Table!Next, Table!Close, Cmd
<1>4. CASE UNCHANGED <<now, exps>>
  BY <1>4
<1> QED
  BY <1>1, <1>2, <1>3, <1>4
  DEF Next, Run, vars, CheckStart, CheckStop, LookForOpen, CheckFound, ReadClock, InsertRaises, GiveUp

\* Whatever commands overlap or break off, the experiments table is a table of
\* windows as Windows says (start and stop of experiments.py).
THEOREM WindowsImplemented == Spec => ImplementsWindows
<1>1. Init => Table!Init
  BY DEF Init, Table!Init
<1> QED BY <1>1, WindowsStep, WindowsInvariant, PTL DEF Spec, ImplementsWindows, Table!Spec

\* A command during which no other one wrote does what it would have done in one
\* step: its check still holds when it writes.
THEOREM Serial == Spec => SerialUnlessRaced
<1> DEFINE A == \A u \in Users : cmd[u] # None /\ ~cmd[u].raced =>
       /\ ~InsertRaises(u)
       /\ UpdateRow(u) => /\ IsOpen(cmd[u].name)
                          /\ cmd[u].unnamed =>
                               \A n \in Names : IsOpen(n) => n = cmd[u].name
<1>1. WindowsInv => A
  BY DEF WindowsInv, StillTrue, InsertRaises, Inserted, UpdateRow, At
<1>2. WindowsInv /\ [Next]_vars => [A]_vars
  BY <1>1
<1> HIDE DEF A
<1>3. Spec => [][A]_vars
  BY <1>2, WindowsInvariant, PTL DEF Spec
<1> QED BY <1>3 DEF A, SerialUnlessRaced

-------------------------------------------------------------------------------
\* Commands of the other shells are steps of Experiments.
LEMMA ReportsStep ==
  ReportsTypeOK /\ [ReportsNext]_allVars => [Next]_vars
BY DEF ReportsNext, allVars, Ingest, Call, Query, Return

\* The windows stay what they are under ReportsSpec.
LEMMA ReportsWindows == ReportsSpec => []WindowsInv
<1>1. ReportsInit => WindowsInv
  BY TypeInit DEF ReportsInit, Init, WindowsInv, Timely, At
<1>2. [ReportsNext]_allVars => [Next]_vars
  BY DEF ReportsNext, allVars, Ingest, Call, Query, Return
<1>3. WindowsInv /\ [Next]_vars => WindowsInv'
  BY TypeStep, TimelyStep, UnracedStep DEF WindowsInv, Unraced
<1> QED BY <1>1, <1>2, <1>3, PTL DEF ReportsSpec

\* Which query comes next, by what has been asked.
LEMMA NextQuery ==
  ASSUME NEW v \in View, ~Finished(v), NEW q, q = Queries(v.op)[v.asked + 1],
         v.op = "experiment" => v.asked <= 2
  PROVE  \/ v.op = "report"     /\ v.asked \in {0, 1} /\ q = "totals"
         \/ v.op = "report"     /\ v.asked = 2        /\ q = "unpriced"
         \/ v.op = "status"     /\ v.asked = 0        /\ q = "count"
         \/ v.op = "status"     /\ v.asked = 1        /\ q = "cost"
         \/ v.op = "status"     /\ v.asked = 2        /\ q = "unpriced"
         \/ v.op = "experiment" /\ v.asked = 0        /\ q = "window"
         \/ v.op = "experiment" /\ v.asked = 1        /\ q = "totals"
<1>1. CASE v.op = "report"
  <2>1. Queries(v.op) = <<"totals", "totals", "unpriced">>
    BY <1>1 DEF Queries
  <2>2. Len(Queries(v.op)) = 3
    BY <2>1
  <2>3. Queries(v.op)[1] = "totals" /\ Queries(v.op)[2] = "totals" /\ Queries(v.op)[3] = "unpriced"
    BY <2>1
  <2>4. v.asked # 3
    BY <2>2, Zenon DEF Finished
  <2>5. v.asked \in {0, 1, 2}
    BY <1>1, <2>4 DEF View
  <2> QED BY <1>1, <2>3, <2>5
<1>2. CASE v.op = "status"
  <2>1. Queries(v.op) = <<"count", "cost", "unpriced">>
    BY <1>2 DEF Queries
  <2>2. Len(Queries(v.op)) = 3
    BY <2>1
  <2>3. Queries(v.op)[1] = "count" /\ Queries(v.op)[2] = "cost" /\ Queries(v.op)[3] = "unpriced"
    BY <2>1
  <2>4. v.asked # 3
    BY <2>2, Zenon DEF Finished
  <2>5. v.asked \in {0, 1, 2}
    BY <1>2, <2>4 DEF View
  <2> QED BY <1>2, <2>3, <2>5
<1>3. CASE v.op = "experiment"
  <2>1. Queries(v.op) = <<"window", "totals">>
    BY <1>3 DEF Queries
  <2>2. Len(Queries(v.op)) = 2
    BY <2>1
  <2>3. Queries(v.op)[1] = "window" /\ Queries(v.op)[2] = "totals"
    BY <2>1
  <2>4. v.asked # 2
    BY <2>2, Zenon DEF Finished
  <2>5. v.asked \in {0, 1}
    BY <1>3, <2>4 DEF View
  <2> QED BY <1>3, <2>3, <2>5
<1> QED BY <1>1, <1>2, <1>3 DEF View

\* What is selected is stored.
LEMMA SelectedStored ==
  ASSUME NEW v \in View
  PROVE  Selected(v) \subseteq Stored /\ Stored \subseteq Messages
<1>1. CASE v.op = "report"
  BY <1>1 DEF Selected, Since, Stored
<1>2. CASE v.op = "status"
  BY <1>2 DEF Selected, Stored
<1>3. CASE v.op = "experiment"
  BY <1>3 DEF Selected, InWindow, Stored
<1> QED BY <1>1, <1>2, <1>3 DEF View

-------------------------------------------------------------------------------
\* The fields of a command may take any value of their type.
LEMMA ViewType ==
  ASSUME NEW v \in View
  PROVE  /\ \A w \in Window \cup {None} : [v EXCEPT !.window = w] \in View
         /\ \A a \in 0..3 : [v EXCEPT !.asked = a] \in View
         /\ \A C, D \in SUBSET Messages : [v EXCEPT !.counted = C, !.costed = D] \in View
         /\ \A C \in SUBSET Messages : /\ [v EXCEPT !.counted = C] \in View
                                       /\ [v EXCEPT !.costed = C] \in View
                                       /\ [v EXCEPT !.unpriced = C] \in View
BY Zenon DEF View

\* What the answer to each query changes.
LEMMA Answers ==
  ASSUME NEW v, NEW q
  PROVE  /\ q = "totals" => Answered(v, q) = [v EXCEPT !.counted = @ \cup Selected(v),
                                                       !.costed = @ \cup Costed(Selected(v))]
         /\ q = "count" => Answered(v, q) = [v EXCEPT !.counted = Selected(v)]
         /\ q = "cost" => Answered(v, q) = [v EXCEPT !.costed = Costed(Selected(v))]
         /\ q = "unpriced" => Answered(v, q) = [v EXCEPT !.unpriced = Stored \cap Unpriced]
         /\ q = "window" => Answered(v, q) = [v EXCEPT !.window = exps[v.name]]
BY DEF Answered

LEMMA AnswerType ==
  ASSUME NEW v \in View, NEW q \in {"totals", "count", "cost", "unpriced", "window"},
         q = "window" => exps[v.name] \in Window \cup {None}
  PROVE  Answered(v, q) \in View
<1>1. Selected(v) \in SUBSET Messages /\ Costed(Selected(v)) \in SUBSET Messages
  BY SelectedStored DEF Costed
<1>2. /\ v.counted \cup Selected(v) \in SUBSET Messages
      /\ v.costed \cup Costed(Selected(v)) \in SUBSET Messages
      /\ Stored \cap Unpriced \in SUBSET Messages
  BY <1>1, ReportsAssumption DEF View
<1>3. CASE q = "totals"
  <2>1. Answered(v, q) = [v EXCEPT !.counted = v.counted \cup Selected(v),
                                !.costed = v.costed \cup Costed(Selected(v))]
    BY <1>3, Answers
  <2>2. \A C, D \in SUBSET Messages : [v EXCEPT !.counted = C, !.costed = D] \in View
    BY ViewType
  <2> QED BY <1>2, <2>1, <2>2, Zenon
<1>4. CASE q = "count"
  <2>1. Answered(v, q) = [v EXCEPT !.counted = Selected(v)]
    BY <1>4, Answers
  <2>2. \A C \in SUBSET Messages : [v EXCEPT !.counted = C] \in View
    BY ViewType, Zenon
  <2> QED BY <1>1, <2>1, <2>2, Zenon
<1>5. CASE q = "cost"
  <2>1. Answered(v, q) = [v EXCEPT !.costed = Costed(Selected(v))]
    BY <1>5, Answers
  <2>2. \A C \in SUBSET Messages : [v EXCEPT !.costed = C] \in View
    BY ViewType, Zenon
  <2> QED BY <1>1, <2>1, <2>2, Zenon
<1>6. CASE q = "unpriced"
  <2>1. Answered(v, q) = [v EXCEPT !.unpriced = Stored \cap Unpriced]
    BY <1>6, Answers
  <2>2. \A C \in SUBSET Messages : [v EXCEPT !.unpriced = C] \in View
    BY ViewType, Zenon
  <2> QED BY <1>2, <2>1, <2>2, Zenon
<1>7. CASE q = "window"
  <2>1. Answered(v, q) = [v EXCEPT !.window = exps[v.name]]
    BY <1>7, Answers
  <2>2. \A w \in Window \cup {None} : [v EXCEPT !.window = w] \in View
    BY ViewType, Zenon
  <2> QED BY <1>7, <2>1, <2>2, Zenon
<1> QED BY <1>3, <1>4, <1>5, <1>6, <1>7

\* One query: the shape of what has been read, and that it is true.
LEMMA QueryStep ==
  ASSUME ReportsTypeOK, ReadingInv, Query
  PROVE  view' \in View /\ ReadingInv'
<1> DEFINE q == Queries(view.op)[view.asked + 1]
<1>1. view # None /\ view \in View /\ ~Finished(view) /\ ~Failed(view)
  BY DEF Query, ReportsTypeOK
<1>2. view' = [Answered(view, q) EXCEPT !.asked = view.asked + 1]
  BY DEF Query
<1>3. UNCHANGED <<rows, exps>> /\ Stored' = Stored
  BY DEF Query, vars, Stored
<1>4. Selected(view) \subseteq Stored /\ Stored \subseteq Messages
  BY <1>1, SelectedStored
<1>5. /\ view.counted \subseteq Messages /\ view.costed \subseteq Messages
      /\ view.unpriced \subseteq Messages /\ Unpriced \subseteq Messages
  BY <1>1, ReportsAssumption DEF View
<1>6. view.op = "experiment" => view.asked <= 2 /\ view.name \in Names
  BY <1>1 DEF ReadingInv
<1>7. ASSUME q = "totals" /\ view.op = "report" /\ view.asked \in {0, 1}
      PROVE  ReadingInv'
  <2>1. view' = [view EXCEPT !.counted = view.counted \cup Selected(view),
                             !.costed = view.costed \cup (Selected(view) \ Unpriced),
                             !.asked = view.asked + 1]
    BY <1>1, <1>2, <1>7 DEF Answered, Costed, View
  <2>2. view.counted \subseteq Stored /\ view.counted \ view.costed \subseteq Unpriced
    BY <1>1, <1>7 DEF ReadingInv
  <2>3. /\ view'.op = "report" /\ view'.asked \in {1, 2}
        /\ view'.counted = view.counted \cup Selected(view)
        /\ view'.costed = view.costed \cup (Selected(view) \ Unpriced)
    BY <1>1, <1>7, <2>1 DEF View
  <2>4. view'.counted \subseteq Stored /\ view'.counted \ view'.costed \subseteq Unpriced
    BY <1>4, <2>2, <2>3
  <2> QED BY <1>3, <2>3, <2>4 DEF ReadingInv
<1>8. ASSUME q = "unpriced" /\ view.op \in {"report", "status"} /\ view.asked = 2
      PROVE  ReadingInv'
  <2>1. view' = [view EXCEPT !.unpriced = Stored \cap Unpriced, !.asked = 3]
    BY <1>1, <1>2, <1>8 DEF Answered, View
  <2>2. view.counted \subseteq Stored /\ view.counted \ view.costed \subseteq Unpriced
    BY <1>1, <1>8 DEF ReadingInv
  <2>3. /\ view'.op = view.op /\ view'.asked = 3 /\ view'.counted = view.counted
        /\ view'.costed = view.costed /\ view'.unpriced = Stored \cap Unpriced
    BY <1>1, <2>1 DEF View
  <2> QED BY <1>3, <1>8, <2>2, <2>3 DEF ReadingInv
<1>9. ASSUME q = "count" /\ view.op = "status" /\ view.asked = 0
      PROVE  ReadingInv'
  <2>1. view' = [view EXCEPT !.counted = Stored, !.asked = 1] /\ Selected(view) = Stored
    BY <1>1, <1>2, <1>9 DEF Answered, Selected, View
  <2>2. view'.op = "status" /\ view'.asked = 1 /\ view'.counted = Stored
    BY <1>1, <1>9, <2>1 DEF View
  <2> QED BY <1>3, <2>2 DEF ReadingInv
<1>10. ASSUME q = "cost" /\ view.op = "status" /\ view.asked = 1
      PROVE  ReadingInv'
  <2>1. view' = [view EXCEPT !.costed = Stored \ Unpriced, !.asked = 2]
    BY <1>1, <1>2, <1>10 DEF Answered, Selected, Costed, View
  <2>2. view.counted \subseteq Stored
    BY <1>1, <1>10 DEF ReadingInv
  <2>3. /\ view'.op = "status" /\ view'.asked = 2 /\ view'.counted = view.counted
        /\ view'.costed = Stored \ Unpriced
    BY <1>1, <1>10, <2>1 DEF View
  <2> QED BY <1>3, <2>2, <2>3 DEF ReadingInv
<1>11. ASSUME q = "window" /\ view.op = "experiment" /\ view.asked = 0
      PROVE  ReadingInv'
  <2>1. view' = [view EXCEPT !.window = exps[view.name], !.asked = 1]
    BY <1>1, <1>2, <1>11 DEF Answered, View
  <2>2. exps[view.name] \in Window \cup {None}
    BY <1>6, <1>11 DEF ReportsTypeOK, TypeOK
  <2>3. /\ view'.op = "experiment" /\ view'.asked = 1 /\ view'.name = view.name
        /\ view'.window = exps[view.name] /\ view'.counted = view.counted
    BY <1>1, <1>11, <2>1 DEF View
  <2>4. view.counted = {}
    BY <1>1, <1>11 DEF ReadingInv
  <2> QED BY <1>3, <1>6, <1>11, <2>3, <2>4 DEF ReadingInv
<1>12. ASSUME q = "totals" /\ view.op = "experiment" /\ view.asked = 1
      PROVE  ReadingInv'
  <2>1. view' = [view EXCEPT !.counted = view.counted \cup Selected(view),
                             !.costed = view.costed \cup (Selected(view) \ Unpriced),
                             !.asked = 2]
    BY <1>1, <1>2, <1>12 DEF Answered, Costed, View
  <2>2. /\ view.counted = {} /\ view.window # None
        /\ exps[view.name] # None /\ exps[view.name].started = view.window.started
    BY <1>1, <1>12 DEF ReadingInv, Failed
  <2>3. /\ view'.op = "experiment" /\ view'.asked = 2 /\ view'.name = view.name
        /\ view'.counted = Selected(view)
    BY <1>1, <1>12, <2>1, <2>2 DEF View
  <2>4. \A m \in Selected(view) : m \in Stored /\ rows[m] >= exps[view.name].started
    BY <1>12, <2>2 DEF Selected, InWindow
  <2> QED BY <1>3, <1>6, <1>12, <2>2, <2>3, <2>4 DEF ReadingInv
<1>13. \/ view.op = "report"     /\ view.asked \in {0, 1} /\ q = "totals"
       \/ view.op = "report"     /\ view.asked = 2        /\ q = "unpriced"
       \/ view.op = "status"     /\ view.asked = 0        /\ q = "count"
       \/ view.op = "status"     /\ view.asked = 1        /\ q = "cost"
       \/ view.op = "status"     /\ view.asked = 2        /\ q = "unpriced"
       \/ view.op = "experiment" /\ view.asked = 0        /\ q = "window"
       \/ view.op = "experiment" /\ view.asked = 1        /\ q = "totals"
  BY <1>1, <1>6, NextQuery DEF q
<1>14. view' \in View
  <2>1. q \in {"totals", "count", "cost", "unpriced", "window"} /\ view.asked + 1 \in 0..3
    BY <1>13
  <2>2. q = "window" => exps[view.name] \in Window \cup {None}
    BY <1>6, <1>13 DEF ReportsTypeOK, TypeOK
  <2>3. Answered(view, q) \in View
    BY <1>1, <2>1, <2>2, AnswerType
  <2> QED BY <1>2, <2>1, <2>3, ViewType
<1> HIDE DEF q
<1> QED BY <1>7, <1>8, <1>9, <1>10, <1>11, <1>12, <1>13, <1>14

-------------------------------------------------------------------------------
LEMMA ReportsTypeInit == ReportsInit => ReportsTypeOK /\ ReadingInv
BY TypeInit DEF ReportsInit, ReportsTypeOK, ReadingInv

\* A step of another shell, or of the clock: a window keeps its start.
LEMMA OthersStep ==
  ASSUME ReportsTypeOK, WindowsInv, ReadingInv, [Next]_vars, UNCHANGED <<rows, view>>
  PROVE  ReadingInv'
<1>1. \A n \in Names : exps[n] # None => exps'[n] # None /\ exps'[n].started = exps[n].started
  <2>1. CASE Table!Next
    <3>1. ASSUME NEW k \in Names, Table!Open(k), NEW n \in Names, exps[n] # None
          PROVE  exps'[n] = exps[n]
      BY <3>1 DEF Table!Open, ReportsTypeOK, TypeOK
    <3>2. ASSUME NEW k \in Names, Table!Close(k), NEW n \in Names, exps[n] # None
          PROVE  exps'[n] # None /\ exps'[n].started = exps[n].started
      <4>1. PICK t \in exps[k].started..now : exps' = [exps EXCEPT ![k].ended = t]
        BY <3>2 DEF Table!Close
      <4>2. exps[k] \in Window /\ t \in Nat
        BY <3>2, <4>1 DEF Table!Close, ReportsTypeOK, TypeOK, Window
      <4> QED BY <3>2, <4>1, <4>2, ExperimentsAssumption DEF ReportsTypeOK, TypeOK, Window
    <3> QED BY <2>1, <3>1, <3>2 DEF Table!Next
  <2> QED BY <2>1, WindowsStep
<1>2. UNCHANGED <<rows, view, Stored>>
  BY DEF Stored
<1>3. view # None => view.asked \in 0..3
  BY DEF ReportsTypeOK, View
<1>4. CASE view = None
  BY <1>2, <1>4 DEF ReadingInv
<1>5. CASE view # None /\ view.op # "experiment"
  BY <1>2, <1>5 DEF ReadingInv
<1>6. CASE view # None /\ view.op = "experiment"
  <2>1. view.name \in Names /\ (view.asked = 2 => exps[view.name] # None)
    BY <1>6 DEF ReadingInv
  <2>2. CASE view.asked < 2
    BY <1>1, <1>2, <1>6, <2>1, <2>2 DEF ReadingInv
  <2>3. CASE view.asked = 2
    BY <1>1, <1>2, <1>6, <2>1, <2>3 DEF ReadingInv
  <2> QED BY <1>3, <1>6, <2>2, <2>3 DEF ReadingInv
<1> QED BY <1>4, <1>5, <1>6

\* A message that is committed meanwhile was not counted yet.
LEMMA IngestStep ==
  ASSUME ReportsTypeOK, ReadingInv, NEW m \in Messages, NEW ts \in 0..now, Ingest(m, ts)
  PROVE  ReportsTypeOK' /\ ReadingInv'
<1>1. ts \in Nat /\ rows' = [rows EXCEPT ![m] = ts] /\ UNCHANGED <<vars, view>>
  BY DEF Ingest, ReportsTypeOK, TypeOK
<1>2. Stored \subseteq Stored' /\ \A k \in Stored : rows'[k] = rows[k]
  BY <1>1, ExperimentsAssumption DEF Stored, Ingest, ReportsTypeOK
<1>3. ReportsTypeOK'
  BY <1>1 DEF ReportsTypeOK, TypeOK, vars
<1>4. exps' = exps /\ view' = view
  BY <1>1 DEF vars
<1>5. ReadingInv'
  BY <1>2, <1>4 DEF ReadingInv
<1> QED BY <1>3, <1>5

\* A command that is called has read nothing.
LEMMA CallStep ==
  ASSUME ReportsTypeOK, NEW op \in {"report", "status", "experiment"}, NEW since \in Nat,
         NEW n \in Names \cup {None}, op = "experiment" => n \in Names,
         Call(Reading(op, since, n))
  PROVE  ReportsTypeOK' /\ ReadingInv'
<1>1. view' = Reading(op, since, n) /\ UNCHANGED <<vars, rows>>
  BY DEF Call
<1>2. Reading(op, since, n) \in View
  BY DEF Reading, View
<1>3. ReportsTypeOK'
  BY <1>1, <1>2 DEF ReportsTypeOK, TypeOK, vars
<1> QED BY <1>1, <1>3 DEF ReadingInv, Reading

LEMMA ReadingStep ==
  ReportsTypeOK /\ WindowsInv /\ ReadingInv /\ [ReportsNext]_allVars => ReportsTypeOK' /\ ReadingInv'
<1> SUFFICES ASSUME ReportsTypeOK, WindowsInv, ReadingInv, [ReportsNext]_allVars
             PROVE  ReportsTypeOK' /\ ReadingInv'
  OBVIOUS
<1>1. CASE [Next]_vars /\ UNCHANGED <<rows, view>>
  BY <1>1, TypeStep, OthersStep DEF ReportsTypeOK
<1>2. ASSUME NEW m \in Messages, NEW ts \in 0..now, Ingest(m, ts) PROVE ReportsTypeOK' /\ ReadingInv'
  BY <1>2, IngestStep
<1>3. ASSUME NEW t \in 0..now, Call(Reading("report", t, None)) PROVE ReportsTypeOK' /\ ReadingInv'
  <2>1. t \in Nat
    BY DEF ReportsTypeOK, TypeOK
  <2> QED BY <1>3, <2>1, CallStep
<1>4. CASE Call(Reading("status", 0, None))
  BY <1>4, CallStep
<1>5. ASSUME NEW n \in Names, Call(Reading("experiment", 0, n)) PROVE ReportsTypeOK' /\ ReadingInv'
  BY <1>5, CallStep
<1>6. CASE Query
  <2>1. ReportsTypeOK'
    BY <1>6, QueryStep DEF Query, ReportsTypeOK, TypeOK, vars
  <2> QED BY <1>6, <2>1, QueryStep
<1>7. CASE Return
  <2>1. ReportsTypeOK'
    BY <1>7 DEF Return, ReportsTypeOK, TypeOK, vars
  <2> QED BY <1>7, <2>1 DEF Return, ReadingInv
<1>8. CASE UNCHANGED allVars
  BY <1>1, <1>8 DEF allVars
<1> QED BY <1>1, <1>2, <1>3, <1>4, <1>5, <1>6, <1>7, <1>8 DEF ReportsNext

LEMMA ReadingInvariant == ReportsSpec => [](ReportsTypeOK /\ WindowsInv /\ ReadingInv)
<1>1. ReportsTypeOK /\ WindowsInv /\ ReadingInv /\ [ReportsNext]_allVars
        => ReportsTypeOK' /\ ReadingInv'
  BY ReadingStep
<1> QED BY <1>1, ReportsTypeInit, ReportsWindows, PTL DEF ReportsSpec

\* Type correctness: every variable has the shape the code gives it.
THEOREM ReportsTypeCorrect == ReportsSpec => []ReportsTypeOK
BY ReadingInvariant, PTL

\* Whatever is committed while it is put together, a report or a status that names
\* no unpriced message has the cost of every message it counts (report.py and
\* _cmd_report, _cmd_status of cli.py).
THEOREM Incomplete == ReportsSpec => []IncompleteIsSaid
<1>1. ReportsTypeOK /\ ReadingInv => IncompleteIsSaid
  <2> SUFFICES ASSUME ReportsTypeOK, ReadingInv, Printed("report") \/ Printed("status"), view.unpriced = {}
               PROVE  view.counted \subseteq view.costed
    BY DEF IncompleteIsSaid
  <2>1. view # None /\ view.op # "experiment" /\ view.asked = Len(Queries(view.op))
    BY DEF Printed, Finished
  <2>2. Queries(view.op) = <<"totals", "totals", "unpriced">>
        \/ Queries(view.op) = <<"count", "cost", "unpriced">>
    BY DEF Printed, Queries
  <2>3. Len(Queries(view.op)) = 3
    BY <2>2
  <2>4. view.asked = 3
    BY <2>1, <2>3, Zenon
  <2> QED BY <2>1, <2>4 DEF ReadingInv
<1> QED BY <1>1, ReadingInvariant, PTL

\* An experiment is credited only with messages from after its start, although its
\* window is read before the messages and other commands go on (experiments.report).
THEOREM Credited == ReportsSpec => []CreditedAfterStart
<1>1. ReadingInv => CreditedAfterStart
  BY DEF ReadingInv, CreditedAfterStart, Printed
<1> QED BY <1>1, ReadingInvariant, PTL
===============================================================================
