----------------------------- MODULE PricingProofs -----------------------------
(***************************************************************************)
(* Theorems about Pricing, for any models, tables, messages and calendar.  *)
(* TypeCorrect and NotRepriced are unconditional; that rows agree with     *)
(* their version, and that ACTIVE names a table, is proved for at most one *)
(* update in a day (OncePerDay), without which the code keeps neither.     *)
(***************************************************************************)
EXTENDS Pricing, TLAPS

--------------------------------------------------------------------------------
\* Facts about the operators.

\* The cost of an hour of cache is a rate, published, made up or none.
LEMMA HourIsARate ==
  ASSUME NEW e \in Entry
  PROVE  Hour(e) \in Nat \cup {NoRate}
<1>1. e.input \in Nat \cup {NoRate} /\ e.hour \in Nat \cup {NoRate}
  BY PricingAssumption DEF Entry
<1> QED
  BY <1>1 DEF Hour

\* Conversion makes a payload of every upstream table.
LEMMA PayloadType ==
  ASSUME NEW t \in Tables
  PROVE  Payload(t) \in Payloads
<1>1. ASSUME NEW n \in Names, t[n] # Unlisted
      PROVE  [t[n] EXCEPT !.hour = Hour(t[n])] \in ModelRates
  <2>1. t[n] \in Entry
    BY <1>1 DEF Tables
  <2>2. Hour(t[n]) \in Nat \cup {NoRate}
    BY <2>1, HourIsARate
  <2>3. t[n] \in ModelRates
    BY <2>1, PricingAssumption DEF Entry, ModelRates
  <2> QED
    BY <2>2, <2>3, Zenon DEF ModelRates
<1>2. Convert(t) \in [Names -> ModelRates \cup {Unlisted}]
  BY <1>1 DEF Convert
<1> QED
  BY <1>2 DEF Payload, Payloads

\* A run: a version with the rates of its table.
Runs == [version : Days, models : [Names -> ModelRates \cup {Unlisted}]]

\* What is said of a message has an id, a usage block and perhaps a cost.
LEMMA SaidFields ==
  ASSUME NEW m \in Said
  PROVE  /\ m.model \in Models
         /\ m.agent = "claude-code" => m.block \in ClaudeBlocks
         /\ m.agent # "claude-code" => m.block \in PiBlocks
         /\ m.reported \in Nat \cup {None}
BY PricingAssumption DEF Said

\* Both parsers make token counts of a block, and counts that add up of one that
\* agrees with itself.
LEMMA CountsType ==
  ASSUME NEW u \in Tokens
  PROVE  TokenUsage(u) \in Tokens
<1> DEFINE w == Or(u.written, u.five + u.hour)
           t == Or(u.total, u.input + w)
<1>1. w \in Nat
  BY DEF Or, Tokens
<1>2. t \in Nat
  BY <1>1 DEF Or, Tokens
<1>3. TokenUsage(u) = [u EXCEPT !.written = w, !.total = t]
  BY Zenon DEF TokenUsage
<1> HIDE DEF w, t
<1> QED
  BY <1>1, <1>2, <1>3 DEF Tokens

LEMMA ClaudeCounts ==
  ASSUME NEW b \in ClaudeBlock
  PROVE  ClaudeUsage(b) \in Tokens /\ (ClaudeAgrees(b) => AddsUp(ClaudeUsage(b)))
<1> DEFINE split == IF b.creation = None THEN [five |-> b.written, hour |-> 0] ELSE b.creation
           u     == [input |-> b.input, five |-> split.five, hour |-> split.hour,
                     written |-> Or(b.written, split.five + split.hour), total |-> 0]
<1>1. split \in Split /\ b.written \in Nat /\ b.input \in Nat
  BY DEF ClaudeBlock, Split
<1>2. ClaudeAgrees(b) => b.written \in {0, split.five + split.hour}
  BY <1>1 DEF ClaudeAgrees, Split
<1>3. ClaudeUsage(b) = TokenUsage(u)
  BY DEF ClaudeUsage
<1> HIDE DEF split
<1>4. u \in Tokens /\ u.input = b.input /\ u.total = 0
      /\ u.written = Or(b.written, u.five + u.hour)
  BY <1>1 DEF Tokens, Split, Or
<1>5. ClaudeAgrees(b) => u.written = u.five + u.hour
  BY <1>1, <1>2 DEF Or, Split
<1> HIDE DEF u
<1>6. TokenUsage(u) \in Tokens
  BY <1>4, CountsType
<1>7. u.written = u.five + u.hour => AddsUp(TokenUsage(u))
  BY <1>4 DEF TokenUsage, Or, AddsUp, Tokens
<1> QED
  BY <1>3, <1>5, <1>6, <1>7

LEMMA PiCounts ==
  ASSUME NEW b \in PiBlock
  PROVE  PiUsage(b) \in Tokens /\ (PiAgrees(b) => AddsUp(PiUsage(b)))
<1> DEFINE five == IF b.hour = 0 THEN b.written
                   ELSE IF b.written > b.hour THEN b.written - b.hour ELSE 0
           u    == [input |-> b.input, five |-> five, hour |-> b.hour,
                    written |-> Or(b.written, five + b.hour), total |-> b.total]
<1>1. /\ b.written \in Nat /\ b.input \in Nat /\ b.hour \in Nat /\ b.total \in Nat
      /\ five \in Nat
  BY DEF PiBlock
<1>2. PiAgrees(b) => Or(b.written, b.hour) = five + b.hour
  BY <1>1 DEF PiAgrees, Or
<1>3. PiUsage(b) = TokenUsage(u)
  BY DEF PiUsage
<1>4. PiAgrees(b) => b.total \in {0, b.input + (five + b.hour)}
  BY <1>1, <1>2 DEF PiAgrees
<1>5. PiAgrees(b) => Or(b.written, five + b.hour) = five + b.hour
  BY <1>1, <1>2 DEF Or
<1> HIDE DEF five
<1>6. u \in Tokens
  BY <1>1 DEF Tokens, Or
<1>7. PiAgrees(b) => u.written = u.five + u.hour /\ u.total \in {0, u.input + u.written}
  BY <1>1, <1>4, <1>5
<1> HIDE DEF u
<1>8. TokenUsage(u) \in Tokens
  BY <1>6, CountsType
<1>9. u.written = u.five + u.hour /\ u.total \in {0, u.input + u.written}
        => AddsUp(TokenUsage(u))
  BY <1>6 DEF TokenUsage, Or, AddsUp, Tokens
<1> QED
  BY <1>3, <1>7, <1>8, <1>9

\* Every block of the transcripts agrees with itself.
BlocksAgree ==
  (\A b \in ClaudeBlocks : ClaudeAgrees(b)) /\ (\A b \in PiBlocks : PiAgrees(b))

LEMMA UsageType ==
  ASSUME NEW m \in Said
  PROVE  UsageOf(m) \in Tokens /\ (BlocksAgree => AddsUp(UsageOf(m)))
BY SaidFields, ClaudeCounts, PiCounts, PricingAssumption DEF UsageOf, BlocksAgree

\* Counts at rates are a cost.
LEMMA TotalIsACost ==
  ASSUME NEW u \in Tokens, NEW rates \in ModelRates
  PROVE  Total(u, rates) \in Nat
<1>1. \A c \in {"input", "five", "hour"} : Charged(rates[c]) \in Nat
  BY DEF ModelRates, Charged
<1>2. Charged(rates.input) \in Nat /\ Charged(rates.five) \in Nat /\ Charged(rates.hour) \in Nat
  BY <1>1
<1>3. u.input \in Nat /\ u.five \in Nat /\ u.hour \in Nat
  BY DEF Tokens
<1>4. \A x, y \in Nat : x * y \in Nat
  OBVIOUS
<1> QED
  BY <1>2, <1>3, <1>4 DEF Total

\* A derived cost is a row that names the version of the run, or none.
LEMMA DerivedRow ==
  ASSUME NEW r \in Runs, NEW m \in Said
  PROVE  /\ DeriveCost(r, m) \in CostRow
         /\ DeriveCost(r, m).said = m /\ DeriveCost(r, m).usage = UsageOf(m)
         /\ DeriveCost(r, m).version = None => DeriveCost(r, m).cost = None
         /\ DeriveCost(r, m).version # None => DeriveCost(r, m).version = r.version
<1> DEFINE rates == Resolve(r.models, m.model)
<1>1. m.model \in Models /\ UsageOf(m) \in Tokens
  BY SaidFields, UsageType
<1>2. r.models \in [Names -> ModelRates \cup {Unlisted}] /\ r.version \in Days
  BY DEF Runs
<1>3. r.version # None
  BY <1>2, PricingAssumption DEF Days
<1>4. rates = ZeroRated \/ rates = None \/ rates \in ModelRates
  BY <1>1, <1>2, PricingAssumption DEF Resolve
<1>5. CASE rates = ZeroRated
  <2>1. DeriveCost(r, m) = Costs(m, 0, "zero-rated", r.version)
    BY <1>5 DEF DeriveCost
  <2> QED
    BY <2>1, <1>2, <1>3, UsageType DEF Costs, CostRow
<1>6. CASE rates # ZeroRated /\ rates = None
  <2>1. DeriveCost(r, m) = Costs(m, None, "unknown", None)
    BY <1>6 DEF DeriveCost
  <2> QED
    BY <2>1, UsageType DEF Costs, CostRow
<1>7. CASE rates # ZeroRated /\ rates # None
  <2> DEFINE cost == Total(UsageOf(m), rates)
  <2>1. rates \in ModelRates
    BY <1>4, <1>7
  <2> HIDE DEF rates
  <2>2. cost \in Nat
    BY <1>1, <2>1, TotalIsACost
  <2>3. DeriveCost(r, m) = Costs(m, cost, "derived", r.version)
    BY <1>7, Zenon DEF DeriveCost, rates
  <2> HIDE DEF cost
  <2> QED
    BY <2>2, <2>3, <1>2, <1>3, UsageType DEF Costs, CostRow
<1> QED
  BY <1>5, <1>6, <1>7

\* The price of a message is a row; it is derived from the table, or it names no
\* version and has the cost that was reported.
LEMMA PricedRow ==
  ASSUME NEW r \in Runs, NEW m \in Said
  PROVE  /\ PriceMessage(r, m) \in CostRow
         /\ PriceMessage(r, m).said = m /\ PriceMessage(r, m).usage = UsageOf(m)
         /\ \/ PriceMessage(r, m).version = None /\ PriceMessage(r, m).cost = m.reported
            \/ PriceMessage(r, m).version = r.version /\ PriceMessage(r, m) = DeriveCost(r, m)
<1>1. m.reported \in Nat \cup {None}
  BY SaidFields
<1>2. CASE m.reported # None
  <2>1. PriceMessage(r, m) = Costs(m, m.reported, "reported", None)
    BY <1>2 DEF PriceMessage
  <2> QED
    BY <2>1, <1>1, UsageType DEF Costs, CostRow
<1>3. CASE m.reported = None /\ m.agent # "claude-code"
  <2>1. PriceMessage(r, m) = Costs(m, None, "unknown", None)
    BY <1>3 DEF PriceMessage
  <2> QED
    BY <2>1, <1>3, UsageType DEF Costs, CostRow
<1>4. CASE m.reported = None /\ m.agent = "claude-code"
  <2>1. PriceMessage(r, m) = DeriveCost(r, m)
    BY <1>4 DEF PriceMessage
  <2> QED
    BY <2>1, <1>4, DerivedRow
<1> QED
  BY <1>2, <1>3, <1>4

\* Neither a broken file nor the lack of one is a version.
LEMMA NoFileIsADay == None \notin Days /\ Broken \notin Days
BY PricingAssumption DEF Days

\* The calendar goes on up to its bound.
LEMMA NextDayIsADay ==
  ASSUME NEW d \in Days, d < MaxDay
  PROVE  d + 1 \in Days
BY PricingAssumption DEF Days

--------------------------------------------------------------------------------
\* Types.

LEMMA TypeInit == Init => TypeOK
<1> SUFFICES ASSUME Init
             PROVE  TypeOK
  OBVIOUS
<1>1. 0 \in Days
  BY PricingAssumption DEF Days
<1>2. PICK t \in Tables :
        files = [d \in Days |-> IF d = 0 THEN [Payload(t) EXCEPT !.sha = None] ELSE None]
  BY DEF Init
<1>3. [Payload(t) EXCEPT !.sha = None] \in Payloads
  BY PayloadType, Zenon DEF Payloads
<1> QED
  BY <1>1, <1>2, <1>3 DEF Init, TypeOK

LEMMA TypeNext == TypeOK /\ [Next]_vars => TypeOK'
<1> SUFFICES ASSUME TypeOK, [Next]_vars
             PROVE  TypeOK'
  OBVIOUS
<1> USE DEF TypeOK
<1> DEFINE Steps == {"open table", "write table", "open active", "write active"}
           Updates == [payload : Payloads, version : Days, step : Steps]
<1>0. update # None => update \in Updates
  OBVIOUS
<1>1. CASE NextDay
  <2>1. day' \in Days
    BY <1>1, NextDayIsADay DEF NextDay
  <2> QED
    BY <1>1, <2>1 DEF NextDay
<1>2. ASSUME NEW t \in Tables, Publish(t)
      PROVE  TypeOK'
  BY <1>2 DEF Publish
<1>3. CASE StartUpdate
  <2>1. update' \in Updates
    BY <1>3, PayloadType DEF StartUpdate
  <2> QED
    BY <1>3, <2>1 DEF StartUpdate
<1>4. ASSUME NEW step \in Steps, update # None, Goto(step)
      PROVE  update' \in Updates
  BY <1>4, <1>0, Zenon DEF Goto
<1>5. ASSUME NEW x \in Payloads \cup {Broken}, update # None, SetTable(x)
      PROVE  files' \in [Days -> Payloads \cup {None, Broken}]
  BY <1>5, <1>0 DEF SetTable
<1>6. CASE OpenTable
  <2>1. update' \in Updates
    BY <1>6, <1>4 DEF OpenTable, At
  <2>2. files' \in [Days -> Payloads \cup {None, Broken}]
    BY <1>6, <1>5 DEF OpenTable, At
  <2> QED
    BY <1>6, <2>1, <2>2 DEF OpenTable
<1>7. CASE WriteTable
  <2>1. update' \in Updates
    BY <1>7, <1>4 DEF WriteTable, At
  <2>2. update.payload \in Payloads
    BY <1>7, <1>0 DEF WriteTable, At
  <2>3. files' \in [Days -> Payloads \cup {None, Broken}]
    BY <1>7, <1>5, <2>2 DEF WriteTable, At
  <2> QED
    BY <1>7, <2>1, <2>3 DEF WriteTable
<1>8. CASE OpenActive
  <2>1. update' \in Updates
    BY <1>8, <1>4 DEF OpenActive, At
  <2> QED
    BY <1>8, <2>1 DEF OpenActive
<1>9. CASE WriteActive
  BY <1>9, <1>0 DEF WriteActive, At
<1>10. CASE FailUpdate
  BY <1>10 DEF FailUpdate
<1>11. CASE StartRun
  <2>1. active \in Days /\ files[active] \in Payloads
    BY <1>11 DEF StartRun, Readable
  <2>2. run' \in Runs
    BY <1>11, <2>1 DEF StartRun, Runs, Payloads
  <2> QED
    BY <1>11, <2>2 DEF StartRun, Runs
<1>12. CASE EndRun
  BY <1>12 DEF EndRun
<1>13. ASSUME NEW msg \in Messages, NEW m \in Said, Price(msg, m)
       PROVE  TypeOK'
  <2>1. run \in Runs
    BY <1>13 DEF Price, Runs
  <2>2. PriceMessage(run, m) \in CostRow
    BY <2>1, PricedRow
  <2>3. rows' \in [Messages -> CostRow \cup {None}]
    BY <1>13, <2>2 DEF Price, StoreFirst
  <2> QED
    BY <1>13, <2>3 DEF Price
<1>14. CASE UNCHANGED vars
  BY <1>14 DEF vars
<1> QED
  BY <1>1, <1>2, <1>3, <1>6, <1>7, <1>8, <1>9, <1>10, <1>11, <1>12, <1>13, <1>14
     DEF Next, Update, Collector

\* Every reachable state is well typed: a row has a cost, or none and says so.
THEOREM TypeCorrect == Spec => []TypeOK
BY TypeInit, TypeNext, PTL DEF Spec

\* No update, no other version and no re-read changes the row of a stored message.
THEOREM NotRepriced == Spec => NeverRepriced
<1>1. ASSUME TypeOK, [Next]_vars, NEW msg \in Messages, rows[msg] # None
      PROVE  rows'[msg] = rows[msg]
  <2>1. CASE rows' = rows
    BY <2>1
  <2>2. ASSUME NEW other \in Messages, NEW m \in Said, Price(other, m)
        PROVE  rows'[msg] = rows[msg]
    BY <2>2, <1>1 DEF Price, StoreFirst, TypeOK
  <2> QED
    BY <1>1, <2>1, <2>2
       DEF Next, NextDay, Publish, Update, StartUpdate, OpenTable, WriteTable, OpenActive,
           WriteActive, FailUpdate, Collector, StartRun, EndRun, vars
<1>2. TypeOK /\ [Next]_vars =>
        [\A msg \in Messages : rows[msg] # None => rows'[msg] = rows[msg]]_vars
  BY <1>1
<1> QED
  BY <1>2, TypeInit, TypeNext, PTL DEF Spec, NeverRepriced

--------------------------------------------------------------------------------
\* The prices.

\* What can be read is a payload, and the other way round.
LEMMA ReadablePayload ==
  ASSUME TypeOK, NEW v \in Days
  PROVE  Readable(v) <=> files[v] \in Payloads
BY PricingAssumption DEF Readable, TypeOK

LEMMA PricingInit == Init => PricingInv
<1> SUFFICES ASSUME Init
             PROVE  PricingInv
  OBVIOUS
<1>1. TypeOK
  BY TypeInit
<1>2. 0 \in Days
  BY PricingAssumption DEF Days
<1>3. PICK t \in Tables :
        files = [d \in Days |-> IF d = 0 THEN [Payload(t) EXCEPT !.sha = None] ELSE None]
  BY DEF Init
<1>4. [Payload(t) EXCEPT !.sha = None] \in Payloads
  BY PayloadType, Zenon DEF Payloads
<1>5. Readable(0)
  BY <1>1, <1>2, <1>3, <1>4, ReadablePayload
<1> QED
  BY <1>1, <1>5 DEF Init, PricingInv, ActiveIsComplete, Unnamed, Loaded

LEMMA PricingNext == OncePerDay /\ PricingInv /\ [Next]_vars => PricingInv'
<1> SUFFICES ASSUME OncePerDay, PricingInv, [Next]_vars
             PROVE  PricingInv'
  OBVIOUS
<1>1. TypeOK /\ TypeOK'
  BY TypeNext DEF PricingInv
<1>2. update # None => update.version \in Days /\ update.payload \in Payloads
  BY <1>1 DEF TypeOK
\* An update opens and writes only a file that cannot be read.
<1>3. \A v \in Days : Readable(v) => files'[v] = files[v]
  <2>1. CASE files' = files
    BY <2>1
  <2>2. CASE OpenTable \/ WriteTable
    <3>1. ~Readable(update.version) /\ \E x : files' = [files EXCEPT ![update.version] = x]
      BY <2>2 DEF OpenTable, WriteTable, At, SetTable, PricingInv, Unnamed
    <3> QED
      BY <3>1, <1>1 DEF TypeOK
  <2> QED
    BY <2>1, <2>2
       DEF Next, NextDay, Publish, Update, StartUpdate, OpenActive, WriteActive, FailUpdate,
           Collector, StartRun, EndRun, Price, vars
<1>4. \A v \in Days : Readable(v) => Readable(v)'
  BY <1>3 DEF Readable
<1>5. ActiveIsComplete' /\ Unnamed'
  <2>1. CASE UNCHANGED <<active, update>> /\ files' = files
    BY <2>1 DEF PricingInv, ActiveIsComplete, Unnamed, Readable
  <2>2. CASE StartUpdate
    <3>1. files[day] = None
      BY <2>2 DEF StartUpdate
    <3>2. ~Readable(day)
      BY <3>1 DEF Readable
    <3>3. update'.version = day /\ update'.step = "open table"
      BY <2>2 DEF StartUpdate
    <3>4. files' = files /\ active' = active
      BY <2>2 DEF StartUpdate
    <3> QED
      BY <3>2, <3>3, <3>4 DEF PricingInv, ActiveIsComplete, Unnamed, Readable
  <2>3. CASE OpenTable
    <3>1. update'.version = update.version /\ update'.step = "write table"
      BY <2>3, <1>1 DEF OpenTable, At, Goto, TypeOK
    <3>2. files'[update.version] = Broken /\ active' = active
      BY <2>3, <1>1, <1>2 DEF OpenTable, At, SetTable, TypeOK
    <3>3. ~Readable(update.version)'
      BY <3>1, <3>2 DEF Readable
    <3> QED
      BY <3>1, <3>2, <3>3, <1>4 DEF PricingInv, ActiveIsComplete, Unnamed
  <2>4. CASE WriteTable
    <3>1. update'.version = update.version /\ update'.step = "open active"
      BY <2>4, <1>1 DEF WriteTable, At, Goto, TypeOK
    <3>2. files'[update.version] \in Payloads /\ active' = active
      BY <2>4, <1>1, <1>2 DEF WriteTable, At, SetTable, TypeOK
    <3>3. update'.version \in Days
      BY <2>4, <1>2, <3>1 DEF WriteTable, At
    <3>4. Readable(update.version)'
      BY <3>1, <3>2, <3>3, PricingAssumption DEF Readable
    <3> QED
      BY <3>1, <3>2, <3>4, <1>4 DEF PricingInv, ActiveIsComplete, Unnamed
  <2>5. CASE OpenActive
    <3>1. update'.version = update.version /\ update'.step = "write active"
      BY <2>5, <1>1 DEF OpenActive, At, Goto, TypeOK
    <3>2. Readable(update.version) /\ update.version \in Days
      BY <2>5, <1>2 DEF OpenActive, At, PricingInv, Unnamed
    <3>3. ActiveIsComplete'
      BY <2>5, NoFileIsADay DEF OpenActive, ActiveIsComplete
    <3>4. Readable(update.version)'
      BY <3>1, <3>2, <1>4
    <3> QED
      BY <3>1, <3>3, <3>4 DEF Unnamed
  <2>6. CASE WriteActive
    <3>1. Readable(update.version) /\ update.version \in Days
      BY <2>6, <1>2 DEF WriteActive, At, PricingInv, Unnamed
    <3> QED
      BY <2>6, <3>1, <1>4 DEF WriteActive, ActiveIsComplete, Unnamed
  <2>7. CASE FailUpdate
    BY <2>7, <1>4 DEF FailUpdate, PricingInv, ActiveIsComplete, Unnamed, Readable
  <2> QED
    BY <2>1, <2>2, <2>3, <2>4, <2>5, <2>6, <2>7
       DEF Next, NextDay, Publish, Update, Collector, StartRun, EndRun, Price, vars
<1>6. Loaded'
  <2>1. CASE run' = run
    <3>1. run # None => run.version \in Days
      BY <1>1 DEF TypeOK
    <3> QED
      BY <2>1, <3>1, <1>3, <1>4 DEF PricingInv, Loaded
  <2>2. CASE StartRun
    BY <2>2 DEF StartRun, Loaded, Readable
  <2>3. CASE EndRun
    BY <2>3 DEF EndRun, Loaded
  <2> QED
    BY <2>1, <2>2, <2>3
       DEF Next, NextDay, Publish, Update, StartUpdate, OpenTable, WriteTable, OpenActive,
           WriteActive, FailUpdate, Collector, Price, vars
\* A row is new, and priced from what the run has loaded, or it was there.
<1>7. \A msg \in Messages : rows'[msg] # None => PricedFrom(rows'[msg])
  <2>1. CASE rows' = rows
    BY <2>1 DEF PricingInv
  <2>2. ASSUME NEW other \in Messages, NEW m \in Said, Price(other, m),
               NEW msg \in Messages, rows'[msg] # None
        PROVE  PricedFrom(rows'[msg])
    <3>1. rows'[msg] = rows[msg] \/ rows'[msg] = PriceMessage(run, m)
      BY <2>2, <1>1 DEF Price, StoreFirst, TypeOK
    <3>2. CASE rows'[msg] = rows[msg]
      BY <2>2, <3>2 DEF PricingInv
    <3>3. CASE rows'[msg] = PriceMessage(run, m)
      <4> DEFINE row == PriceMessage(run, m)
      <4>1. run \in Runs /\ Readable(run.version) /\ files[run.version].models = run.models
        BY <2>2, <1>1 DEF Price, PricingInv, Loaded, TypeOK, Runs
      <4>2. /\ row.said = m
            /\ \/ row.version = None /\ row.cost = m.reported
               \/ row.version = run.version /\ row = DeriveCost(run, m)
        BY <4>1, PricedRow
      <4>3. [version |-> run.version, models |-> files[run.version].models] = run
        BY <4>1, Zenon DEF Runs
      <4>4. run.version # None
        BY <4>1, PricingAssumption DEF Runs, Days
      <4> HIDE DEF row
      <4>5. PricedFrom(row)
        BY <4>1, <4>2, <4>3, <4>4 DEF PricedFrom
      <4> QED
        BY <4>5, <3>3 DEF row
    <3> QED
      BY <3>1, <3>2, <3>3
  <2> QED
    BY <2>1, <2>2
       DEF Next, NextDay, Publish, Update, StartUpdate, OpenTable, WriteTable, OpenActive,
           WriteActive, FailUpdate, Collector, StartRun, EndRun, vars
<1>8. (\A msg \in Messages : rows[msg] # None => PricedFrom(rows[msg]))'
  <2>1. \A msg \in Messages : rows'[msg] # None => rows'[msg].version \in Days \cup {None}
    BY <1>1 DEF TypeOK, CostRow
  <2> SUFFICES ASSUME NEW msg \in Messages, rows'[msg] # None
               PROVE  PricedFrom(rows[msg])'
    OBVIOUS
  <2>2. PricedFrom(rows'[msg])
    BY <1>7
  <2>3. CASE rows'[msg].version = None
    BY <2>2, <2>3 DEF PricedFrom
  <2>4. CASE rows'[msg].version # None
    <3>1. rows'[msg].version \in Days /\ Readable(rows'[msg].version)
      BY <2>1, <2>2, <2>4 DEF PricedFrom
    <3>2. files'[rows'[msg].version] = files[rows'[msg].version] /\ Readable(rows[msg].version)'
      BY <3>1, <1>3, <1>4
    <3> QED
      BY <2>2, <2>4, <3>2 DEF PricedFrom
  <2> QED
    BY <2>3, <2>4
<1> QED
  BY <1>1, <1>5, <1>6, <1>8 DEF PricingInv

LEMMA Invariance == ASSUME OncePerDay PROVE Spec => []PricingInv
<1>1. PricingInv /\ [Next]_vars => PricingInv'
  BY PricingNext
<1> QED
  BY <1>1, PricingInit, PTL DEF Spec

LEMMA InvPriced == PricingInv => PricedAsItsVersion
<1> SUFFICES ASSUME PricingInv, NEW msg \in Messages, rows[msg] # None
             PROVE  /\ rows[msg].version = None => rows[msg].cost = rows[msg].said.reported
                    /\ Readable(rows[msg].version) =>
                         DeriveCost([version |-> rows[msg].version,
                                     models |-> files[rows[msg].version].models],
                                    rows[msg].said) = rows[msg]
  BY DEF PricedAsItsVersion
<1>1. PricedFrom(rows[msg])
  BY DEF PricingInv
<1>2. Readable(rows[msg].version) => rows[msg].version # None
  BY PricingAssumption DEF Readable, Days
<1> QED
  BY <1>1, <1>2 DEF PricedFrom

\* With one update a day at most, the table of the version a row names gives the
\* cost the row has, whatever updates and failures came in between.
THEOREM Priced == ASSUME OncePerDay PROVE Spec => []PricedAsItsVersion
BY Invariance, InvPriced, PTL

\* With one update a day at most, a collector that can read ACTIVE can load its
\* table, at every step of an update and after every failure.
THEOREM ActiveTable == ASSUME OncePerDay PROVE Spec => []ActiveIsComplete
<1>1. PricingInv => ActiveIsComplete
  BY DEF PricingInv
<1> QED
  BY <1>1, Invariance, PTL

--------------------------------------------------------------------------------
\* The tokens.

\* A row keeps the counts of what was said.
Counted == \A msg \in Messages : rows[msg] # None => rows[msg].usage = UsageOf(rows[msg].said)

LEMMA CountedNext == TypeOK /\ Counted /\ [Next]_vars => Counted'
<1> SUFFICES ASSUME TypeOK, Counted, [Next]_vars, NEW msg \in Messages, rows'[msg] # None
             PROVE  rows'[msg].usage = UsageOf(rows'[msg].said)
  BY DEF Counted
<1>1. CASE rows' = rows
  BY <1>1 DEF Counted
<1>2. ASSUME NEW other \in Messages, NEW m \in Said, Price(other, m)
      PROVE  rows'[msg].usage = UsageOf(rows'[msg].said)
  <2>1. rows'[msg] = rows[msg] \/ rows'[msg] = PriceMessage(run, m)
    BY <1>2 DEF Price, StoreFirst, TypeOK
  <2>2. run \in Runs
    BY <1>2 DEF Price, TypeOK, Runs
  <2>3. PriceMessage(run, m).said = m /\ PriceMessage(run, m).usage = UsageOf(m)
    BY <2>2, PricedRow
  <2> QED
    BY <2>1, <2>3 DEF Counted
<1> QED
  BY <1>1, <1>2
     DEF Next, NextDay, Publish, Update, StartUpdate, OpenTable, WriteTable, OpenActive,
         WriteActive, FailUpdate, Collector, StartRun, EndRun, vars

LEMMA AllCounted == Spec => [](TypeOK /\ Counted)
<1>1. Init => Counted
  BY DEF Init, Counted
<1> QED
  BY <1>1, CountedNext, TypeInit, TypeNext, PTL DEF Spec

\* If usage blocks agree with themselves, the counts of every row add up.
THEOREM TokensSplit == ASSUME BlocksAgree PROVE Spec => []TokensAddUp
<1>1. TypeOK /\ Counted => TokensAddUp
  <2> SUFFICES ASSUME TypeOK, Counted, NEW msg \in Messages, rows[msg] # None
               PROVE  AddsUp(rows[msg].usage)
    BY DEF TokensAddUp
  <2>1. rows[msg].said \in Said /\ rows[msg].usage = UsageOf(rows[msg].said)
    BY DEF TypeOK, CostRow, Counted
  <2> QED
    BY <2>1, UsageType
<1> QED
  BY <1>1, AllCounted, PTL

LEMMA TimesGrows ==
  ASSUME NEW x \in Nat, NEW a \in Nat, NEW b \in Nat, a <= b
  PROVE  x * a <= x * b
OBVIOUS

\* A weighted sum lies between its weights.
Between(x, y, z, a, b, c) ==
  /\ \E low \in {a, b, c}  : (x + (y + z)) * low <= x * a + y * b + z * c
  /\ \E high \in {a, b, c} : x * a + y * b + z * c <= (x + (y + z)) * high

LEMMA AllBetween == \A x, y, z, a, b, c \in Nat : Between(x, y, z, a, b, c)
<1> TAKE x, y, z, a, b, c \in Nat
<1>1. \A r \in Nat : (x + (y + z)) * r = x * r + y * r + z * r
  OBVIOUS
<1>2. ASSUME NEW r \in {a, b, c}, r <= a, r <= b, r <= c
      PROVE  (x + (y + z)) * r <= x * a + y * b + z * c
  <2>1. x * r <= x * a /\ y * r <= y * b /\ z * r <= z * c
    BY <1>2, TimesGrows
  <2>2. \A i, j \in Nat : i * j \in Nat
    OBVIOUS
  <2> QED
    BY <1>1, <2>1, <2>2
<1>3. ASSUME NEW r \in {a, b, c}, a <= r, b <= r, c <= r
      PROVE  x * a + y * b + z * c <= (x + (y + z)) * r
  <2>1. x * a <= x * r /\ y * b <= y * r /\ z * c <= z * r
    BY <1>3, TimesGrows
  <2>2. \A i, j \in Nat : i * j \in Nat
    OBVIOUS
  <2> QED
    BY <1>1, <2>1, <2>2
<1>4. \E r \in {a, b, c} : r <= a /\ r <= b /\ r <= c
  OBVIOUS
<1>5. \E r \in {a, b, c} : a <= r /\ b <= r /\ c <= r
  OBVIOUS
<1> QED
  BY <1>2, <1>3, <1>4, <1>5 DEF Between

\* If usage blocks agree with themselves, and there is at most one update in a day,
\* a derived cost lies between the counted tokens at the lowest published rate and
\* at the highest: none is left out and none is charged twice.
THEOREM TokensCharged == ASSUME OncePerDay, BlocksAgree PROVE Spec => []EveryTokenCharged
<1>1. PricingInv /\ TokensAddUp => EveryTokenCharged
  <2> SUFFICES ASSUME PricingInv, TokensAddUp, NEW msg \in Messages, rows[msg] # None,
                      rows[msg].source = "derived", Readable(rows[msg].version),
                      NEW rates,
                      rates = Resolve(files[rows[msg].version].models, rows[msg].said.model),
                      NEW all, all = {rates[k] : k \in {"input", "five", "hour"}},
                      NoRate \notin all
               PROVE  /\ \E low \in all  : rows[msg].usage.total * low <= rows[msg].cost
                      /\ \E high \in all : rows[msg].cost <= rows[msg].usage.total * high
    BY DEF EveryTokenCharged
  <2> DEFINE row == rows[msg]
             r   == [version |-> row.version, models |-> files[row.version].models]
  <2>1. row \in CostRow /\ AddsUp(row.usage) /\ PricedFrom(row)
    BY DEF PricingInv, TypeOK, TokensAddUp
  <2>2. row.version \in Days /\ row.said \in Said /\ row.usage \in Tokens
    BY <2>1 DEF Readable, CostRow
  <2>3. DeriveCost(r, row.said) = row
    BY <2>1, <2>2, NoFileIsADay DEF PricedFrom
  <2>4. r \in Runs
    BY <2>2, ReadablePayload DEF Runs, Payloads, PricingInv
  <2>5. rates = Resolve(r.models, row.said.model)
    OBVIOUS
  <2> HIDE DEF row, r
  <2>6. /\ rates # ZeroRated /\ rates # None
        /\ row = Costs(row.said, Total(UsageOf(row.said), rates), "derived", r.version)
    <3>1. row.source = "derived"
      BY DEF row
    <3>2. CASE rates = ZeroRated
      BY <2>3, <2>5, <3>1, <3>2 DEF DeriveCost, Costs
    <3>3. CASE rates # ZeroRated /\ rates = None
      BY <2>3, <2>5, <3>1, <3>3 DEF DeriveCost, Costs
    <3>4. CASE rates # ZeroRated /\ rates # None
      BY <2>3, <2>5, <3>4, Zenon DEF DeriveCost
    <3> QED
      BY <3>2, <3>3, <3>4
  <2>7. rates \in ModelRates
    BY <2>2, <2>4, <2>5, <2>6, SaidFields, PricingAssumption DEF Resolve, Runs
  <2>8. row.cost = Total(UsageOf(row.said), rates) /\ row.usage = UsageOf(row.said)
    BY <2>6 DEF Costs
  <2> DEFINE u == row.usage
  <2>9. /\ rates.input \in Nat /\ rates.five \in Nat /\ rates.hour \in Nat
        /\ all = {rates.input, rates.five, rates.hour}
    BY <2>7 DEF ModelRates
  <2>10. row.cost = u.input * rates.input + u.five * rates.five + u.hour * rates.hour
    <3>1. NoRate # rates.input /\ NoRate # rates.five /\ NoRate # rates.hour
      BY <2>9
    <3> QED
      BY <2>8, <3>1 DEF Total, Charged
  <2>11. /\ u.input \in Nat /\ u.five \in Nat /\ u.hour \in Nat
         /\ u.total = u.input + (u.five + u.hour)
    BY <2>1, <2>2 DEF AddsUp, Tokens, row
  <2>12. Between(u.input, u.five, u.hour, rates.input, rates.five, rates.hour)
    BY <2>9, <2>11, AllBetween, Zenon
  <2>13. /\ \E low \in all  : u.total * low <= row.cost
         /\ \E high \in all : row.cost <= u.total * high
    BY <2>9, <2>10, <2>11, <2>12, Zenon DEF Between
  <2> QED
    BY <2>13 DEF row
<1> QED
  BY <1>1, Invariance, TokensSplit, PTL
================================================================================
