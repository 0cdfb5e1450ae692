-------------------------------- MODULE Pricing --------------------------------
(***************************************************************************)
(* The vendored rate tables: `tracker pricing update`                      *)
(* (src/tracker/pricing/litellm.py), the load of the active table and the  *)
(* price of a message (pricing/__init__.py), and the rows that keep it.    *)
(*                                                                         *)
(* An update writes the table of the day, then the file ACTIVE that names  *)
(* it; each write truncates its file first and can fail in between.  A     *)
(* collector loads the active table once (get_pricing_table is cached).    *)
(* Three of the five rates are modelled: input, and the cache writes of    *)
(* five minutes and of an hour, the one that conversion may have to make   *)
(* up.  Output and cache reads are converted and charged like input.       *)
(***************************************************************************)
EXTENDS Usage

CONSTANTS
  Names,        \* models of the upstream table under the vendored prefixes
  Models,       \* model ids in transcripts
  TargetOf,     \* what the aliases and the date suffix make of an id: a name, or
  ZeroRated,    \* the null alias of <synthetic>
  NoRate,       \* a rate that is not published
  Unlisted,     \* a name upstream does not list
  Broken,       \* a truncated file
  Messages,
  ClaudeBlocks, \* usage blocks in transcripts
  PiBlocks,
  Rates,        \* published rates, and costs that pi reports
  OncePerDay,   \* whether there is at most one update in a day
  MaxDay        \* bound on the calendar

Days == 0..MaxDay

\* Upstream tables: what LiteLLM says of a model.
Entry  == [{"input", "five", "hour"} -> Rates \cup {NoRate}]
Tables == [Names -> Entry \cup {Unlisted}]

\* Vendored tables, and a payload: the rates with the digest of the upstream table.
ModelRates == [{"input", "five", "hour"} -> Nat \cup {NoRate}]
Payloads   == [sha : Tables \cup {None}, models : [Names -> ModelRates \cup {Unlisted}]]

\* What a transcript says of a message; Claude Code reports no cost.
Said ==
  [agent : {"claude-code"}, model : Models, block : ClaudeBlocks, reported : {None}]
    \cup [agent : {"pi"}, model : Models, block : PiBlocks, reported : Rates \cup {None}]

ASSUME PricingAssumption ==
  /\ TargetOf \in [Models -> Names \cup {ZeroRated}]
  /\ ClaudeBlocks \subseteq ClaudeBlock /\ PiBlocks \subseteq PiBlock
  /\ Rates \subseteq Nat /\ MaxDay \in Nat /\ OncePerDay \in BOOLEAN
  /\ {None, Broken, NoRate, Unlisted} \cap Nat = {}
  /\ None \notin Payloads /\ Broken \notin Payloads

VARIABLES
  day,
  upstream, \* the table LiteLLM publishes
  files,    \* pricing-<day>.json: absent (None), Broken, or rates and upstream_sha256
  active,   \* ACTIVE: a day, or Broken
  update,   \* the update in progress: its payload, its version, its next step
  run,      \* the version and the rates a collector has loaded
  rows      \* messages: what was said, cost, cost_source, pricing_version

vars == <<day, upstream, files, active, update, run, rows>>

--------------------------------------------------------------------------------
\* tracker pricing update.

NextDay ==
  /\ day < MaxDay
  /\ day' = day + 1
  /\ UNCHANGED <<upstream, files, active, update, run, rows>>

Publish(t) ==
  /\ upstream' = t
  /\ UNCHANGED <<day, files, active, update, run, rows>>

\* A file that can be read and parsed.
Readable(v) == v \in Days /\ files[v] \notin {None, Broken}

\* _convert: an hour of cache that has no rate is twice the input.
Hour(e) ==
  CASE e.hour # NoRate                      -> e.hour
    [] e.hour = NoRate /\ e.input # NoRate  -> 2 * e.input
    [] e.hour = NoRate /\ e.input = NoRate  -> NoRate

Convert(t) ==
  [n \in Names |-> IF t[n] = Unlisted THEN Unlisted ELSE [t[n] EXCEPT !.hour = Hour(t[n])]]

\* The payload; the digest of a table stands for it.
Payload(t) == [sha |-> t, models |-> Convert(t)]

\* Upstream differs from the active version.  An empty ACTIVE counts as no version;
\* a truncated table ends the command with an error.
StartUpdate ==
  /\ update = None
  /\ active \in Days => files[active] \notin {Broken, Payload(upstream)}
  /\ OncePerDay => files[day] = None
  /\ update' = [payload |-> Payload(upstream), version |-> day, step |-> "open table"]
  /\ UNCHANGED <<day, upstream, files, active, run, rows>>

At(step)     == update # None /\ update.step = step
Goto(step)   == update' = [update EXCEPT !.step = step]
SetTable(x)  == files' = [files EXCEPT ![update.version] = x]

\* Mutant: ACTIVE is written before the table it names.
OpenTableLast ==
  /\ At("open table")
  /\ active' = update.version
  /\ Goto("write table")
  /\ UNCHANGED <<day, upstream, files, run, rows>>

\* target.write_text: the file is truncated ...
OpenTable ==
  /\ At("open table")
  /\ SetTable(Broken)
  /\ Goto("write table")
  /\ UNCHANGED <<day, upstream, active, run, rows>>

\* ... and written.
WriteTable ==
  /\ At("write table")
  /\ SetTable(update.payload)
  /\ Goto("open active")
  /\ UNCHANGED <<day, upstream, active, run, rows>>

\* active_path.write_text
OpenActive ==
  /\ At("open active")
  /\ active' = Broken
  /\ Goto("write active")
  /\ UNCHANGED <<day, upstream, files, run, rows>>

WriteActive ==
  /\ At("write active")
  /\ active' = update.version
  /\ update' = None
  /\ UNCHANGED <<day, upstream, files, run, rows>>

\* A write fails, or the process is killed.
FailUpdate ==
  /\ update # None
  /\ update' = None
  /\ UNCHANGED <<day, upstream, files, active, run, rows>>

--------------------------------------------------------------------------------
\* A collector run.

\* load_pricing_table; without a readable table the run ends with an exception.
StartRun ==
  /\ run = None
  /\ Readable(active)
  /\ run' = [version |-> active, models |-> files[active].models]
  /\ UNCHANGED <<day, upstream, files, active, update, rows>>

EndRun ==
  /\ run # None
  /\ run' = None
  /\ UNCHANGED <<day, upstream, files, active, update, rows>>

\* resolve: the rates of a model id, None if it is unknown.
Resolve(models, id) ==
  IF TargetOf[id] = ZeroRated THEN ZeroRated
  ELSE IF models[TargetOf[id]] = Unlisted THEN None ELSE models[TargetOf[id]]

\* The counts of a message.
UsageOf(m) == IF m.agent = "claude-code" THEN ClaudeUsage(m.block) ELSE PiUsage(m.block)

Costs(m, cost, source, version) ==
  [said |-> m, usage |-> UsageOf(m), cost |-> cost, source |-> source, version |-> version]

\* A rate that is not published counts as 0.0.
Charged(rate) == IF rate = NoRate THEN 0 ELSE rate

\* Mutant: the writes of an hour are left out.
TotalWithoutHour(u, rates) == u.input * Charged(rates.input) + u.five * Charged(rates.five)

\* Mutant: a rate that is not published makes the cost one.
TotalNoDefault(u, rates) ==
  IF rates.input = NoRate THEN NoRate
  ELSE u.input * rates.input + u.five * Charged(rates.five) + u.hour * Charged(rates.hour)

Total(u, rates) ==
  u.input * Charged(rates.input) + u.five * Charged(rates.five) + u.hour * Charged(rates.hour)

\* derive_cost
DeriveCost(r, m) ==
  LET rates == Resolve(r.models, m.model)
  IN  IF rates = ZeroRated THEN Costs(m, 0, "zero-rated", r.version)
      ELSE IF rates = None THEN Costs(m, None, "unknown", None)
      ELSE Costs(m, Total(UsageOf(m), rates), "derived", r.version)

\* price_message: a reported cost wins, and pi is not priced from the table.
PriceMessage(r, m) ==
  IF m.reported # None THEN Costs(m, m.reported, "reported", None)
  ELSE IF m.agent # "claude-code" THEN Costs(m, None, "unknown", None)
  ELSE DeriveCost(r, m)

\* Mutant: a message that is read again is priced again.
StoreLast(msg, row) == [rows EXCEPT ![msg] = row]

\* ON CONFLICT (dedup_key) DO NOTHING
StoreFirst(msg, row) == [rows EXCEPT ![msg] = IF @ = None THEN row ELSE @]

\* Mutant: the row takes the version that is active when it is written.
PriceAsActive(msg, m) ==
  /\ run # None /\ active \in Days
  /\ rows[msg] # None => rows[msg].said = m
  /\ rows' = StoreFirst(msg, PriceMessage([run EXCEPT !.version = active], m))
  /\ UNCHANGED <<day, upstream, files, active, update, run>>

\* The collector reads a message, for the first time or again.
Price(msg, m) ==
  /\ run # None
  /\ rows[msg] # None => rows[msg].said = m
  /\ rows' = StoreFirst(msg, PriceMessage(run, m))
  /\ UNCHANGED <<day, upstream, files, active, update, run>>

--------------------------------------------------------------------------------
\* The repository ships with a version, seeded by hand: no digest.
Init ==
  /\ day = 0
  /\ upstream \in Tables
  /\ files  \in {[d \in Days |-> IF d = 0 THEN [Payload(t) EXCEPT !.sha = None] ELSE None] :
                  t \in Tables}
  /\ active = 0
  /\ update = None
  /\ run    = None
  /\ rows   = [msg \in Messages |-> None]

Update == StartUpdate \/ OpenTable \/ WriteTable \/ OpenActive \/ WriteActive \/ FailUpdate

Collector == StartRun \/ EndRun \/ \E msg \in Messages, m \in Said : Price(msg, m)

Next == NextDay \/ (\E t \in Tables : Publish(t)) \/ Update \/ Collector

Spec == Init /\ [][Next]_vars

--------------------------------------------------------------------------------
\* Types.

CostRow == [said : Said, usage : Tokens, cost : Nat \cup {None},
            source : {"reported", "zero-rated", "unknown", "derived"}, version : Days \cup {None}]

\* Every variable has the shape the code gives it.
TypeOK ==
  /\ day \in Days
  /\ upstream \in Tables
  /\ files \in [Days -> Payloads \cup {None, Broken}]
  /\ active \in Days \cup {Broken}
  /\ update \in [payload : Payloads, version : Days,
                 step : {"open table", "write table", "open active", "write active"}]
                \cup {None}
  /\ run \in [version : Days, models : [Names -> ModelRates \cup {Unlisted}]] \cup {None}
  /\ rows \in [Messages -> CostRow \cup {None}]

--------------------------------------------------------------------------------
\* Properties.

\* "Every message row stores the pricing version used" (ADR-0004): the table of the
\* version a row names gives the cost the row has, and a row that names none has
\* the cost that was reported, or none.
PricedAsItsVersion ==
  \A msg \in Messages : rows[msg] # None =>
    /\ rows[msg].version = None => rows[msg].cost = rows[msg].said.reported
    /\ Readable(rows[msg].version) =>
         DeriveCost([version |-> rows[msg].version, models |-> files[rows[msg].version].models],
                    rows[msg].said) = rows[msg]

\* "so past costs are never silently repriced" (ADR-0004): no update and no re-read
\* changes the cost of a stored message.
NeverRepriced ==
  [][\A msg \in Messages : rows[msg] # None => rows'[msg] = rows[msg]]_vars

\* "cache_write is their sum" (models.py:40) and total that of all classes (models.py:34):
\* if usage blocks agree with themselves, the counts of every row do, whichever
\* parser wrote it and whichever parts the block had.
TokensAddUp == \A msg \in Messages : rows[msg] # None => AddsUp(rows[msg].usage)

\* Every token that a row counts is in its derived cost, and once: at published rates
\* the cost lies between the total at the lowest of them and at the highest.
EveryTokenCharged ==
  \A msg \in Messages :
    rows[msg] # None /\ rows[msg].source = "derived" /\ Readable(rows[msg].version) =>
      LET rates == Resolve(files[rows[msg].version].models, rows[msg].said.model)
          all   == {rates[c] : c \in {"input", "five", "hour"}}
      IN  NoRate \notin all =>
            /\ \E low \in all  : rows[msg].usage.total * low <= rows[msg].cost
            /\ \E high \in all : rows[msg].cost <= rows[msg].usage.total * high

\* A version that ACTIVE names is complete: a collector that can read ACTIVE can
\* load its table, at every step of an update.
ActiveIsComplete == active \in Days => Readable(active)

\* "The vendored table is unchanged; collection stays deterministic" (cli.py:500,
\* printed when an update fails): whatever step of an update fails, a collector can
\* load a table afterwards.
FailedUpdateLeavesATable ==
  [][FailUpdate => Readable(active')]_vars

\* "model(s) have no input rate upstream and will price as unknown" (cli.py:510-511)
NoRateIsUnknown ==
  \A msg \in Messages :
    rows[msg] # None /\ run # None /\ rows[msg].version = run.version =>
      LET rates == Resolve(run.models, rows[msg].said.model)
      IN  rates # ZeroRated => rates.input # NoRate

--------------------------------------------------------------------------------
(***************************************************************************)
(* The inductive invariant behind PricedAsItsVersion and ActiveIsComplete: *)
(* an update writes a file that nobody names yet, so a file that can be    *)
(* read stays as it is, and what a run has loaded and what a row was       *)
(* priced with is still there.                                             *)
(***************************************************************************)
Unnamed ==
  update # None =>
    /\ update.step \in {"open table", "write table"} => ~Readable(update.version)
    /\ update.step \in {"open active", "write active"} => Readable(update.version)

Loaded == run # None => Readable(run.version) /\ files[run.version].models = run.models

PricedFrom(row) ==
  /\ row.version = None => row.cost = row.said.reported
  /\ row.version # None =>
       /\ Readable(row.version)
       /\ DeriveCost([version |-> row.version, models |-> files[row.version].models], row.said) = row

PricingInv ==
  /\ TypeOK
  /\ ActiveIsComplete
  /\ Unnamed
  /\ Loaded
  /\ \A msg \in Messages : rows[msg] # None => PricedFrom(rows[msg])
================================================================================
