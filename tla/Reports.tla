-------------------------------- MODULE Reports --------------------------------
(***************************************************************************)
(* What the reading commands of src/tracker/cli.py print while collectors  *)
(* add messages and other shells start and stop experiments: `report` and  *)
(* `status` (the queries of report.py) and `experiment report`.            *)
(*                                                                         *)
(* Each query is a SELECT of its own, outside any transaction, so one      *)
(* command may see several states of the store.  A figure stands for the   *)
(* set of messages it is about; how a table groups them is left out.       *)
(***************************************************************************)
EXTENDS Experiments, Sequences

CONSTANTS
  Messages,
  Unpriced   \* those of an unknown model, whose cost is NULL

ASSUME ReportsAssumption == Unpriced \subseteq Messages

VARIABLES
  rows,  \* the timestamp of each stored message, None if it is not stored
  view   \* the command in progress, with what it has read; None if there is none

allVars == <<vars, rows, view>>

--------------------------------------------------------------------------------
\* The queries.

Stored      == {m \in Messages : rows[m] # None}
Since(t)    == {m \in Stored : rows[m] >= t}
InWindow(w) == {m \in Stored : rows[m] >= w.started /\ (w.ended = None \/ rows[m] <= w.ended)}

\* SUM(cost_usd) skips NULL.
Costed(S) == S \ Unpriced

\* Mutant: what has no price is asked before the totals.
QueriesUnpricedFirst(op) ==
  CASE op = "report"     -> <<"unpriced", "totals", "totals">>
    [] op = "status"     -> <<"unpriced", "count", "cost">>
    [] op = "experiment" -> <<"window", "totals">>

\* The SELECTs of a command, in their order: q_daily, q_models, q_unknown_models;
\* the scalars of q_status; the two of experiments.report.
Queries(op) ==
  CASE op = "report"     -> <<"totals", "totals", "unpriced">>
    [] op = "status"     -> <<"count", "cost", "unpriced">>
    [] op = "experiment" -> <<"window", "totals">>

\* The messages the WHERE clause of a command lets through.
Selected(v) ==
  CASE v.op = "report"     -> Since(v.since)
    [] v.op = "status"     -> Stored
    [] v.op = "experiment" -> InWindow(v.window)

\* What command v has read after query q.
Answered(v, q) ==
  CASE q = "totals"   -> [v EXCEPT !.counted = @ \cup Selected(v), !.costed = @ \cup Costed(Selected(v))]
    [] q = "count"    -> [v EXCEPT !.counted = Selected(v)]
    [] q = "cost"     -> [v EXCEPT !.costed = Costed(Selected(v))]
    [] q = "unpriced" -> [v EXCEPT !.unpriced = Stored \cap Unpriced]
    [] q = "window"   -> [v EXCEPT !.window = exps[v.name]]

--------------------------------------------------------------------------------
\* Steps.

\* A collector commits a message, which may be of any age.
Ingest(m, ts) ==
  /\ rows[m] = None
  /\ rows' = [rows EXCEPT ![m] = ts]
  /\ UNCHANGED <<vars, view>>

Reading(op, since, n) ==
  [op |-> op, since |-> since, name |-> n, window |-> None, asked |-> 0,
   counted |-> {}, costed |-> {}, unpriced |-> {}]

\* A command is called: report with --since, status, experiment report with a name.
Call(v) ==
  /\ view = None
  /\ view' = v
  /\ UNCHANGED <<vars, rows>>

Finished(v) == v.asked = Len(Queries(v.op))

\* ExperimentError: there is no row.
Failed(v) == v.op = "experiment" /\ v.asked = 1 /\ v.window = None

Query ==
  /\ view # None
  /\ ~Finished(view) /\ ~Failed(view)
  /\ view' = LET n == view.asked + 1
             IN  [Answered(view, Queries(view.op)[n]) EXCEPT !.asked = n]
  /\ UNCHANGED <<vars, rows>>

\* The command prints what it has read, or the error, and is over.
Return ==
  /\ view # None
  /\ Finished(view) \/ Failed(view)
  /\ view' = None
  /\ UNCHANGED <<vars, rows>>

ReportsInit ==
  /\ Init
  /\ rows = [m \in Messages |-> None]
  /\ view = None

ReportsNext ==
  \/ Next /\ UNCHANGED <<rows, view>>
  \/ \E m \in Messages, ts \in 0..now : Ingest(m, ts)
  \/ \E t \in 0..now : Call(Reading("report", t, None))
  \/ Call(Reading("status", 0, None))
  \/ \E n \in Names : Call(Reading("experiment", 0, n))
  \/ Query \/ Return

ReportsSpec == ReportsInit /\ [][ReportsNext]_allVars

--------------------------------------------------------------------------------
\* Types.

View == [op : {"report", "status", "experiment"}, since : Nat, name : Names \cup {None},
         window : Window \cup {None}, asked : 0..3, counted : SUBSET Messages,
         costed : SUBSET Messages, unpriced : SUBSET Messages]

\* Every variable has the shape the code gives it.
ReportsTypeOK ==
  /\ TypeOK
  /\ rows \in [Messages -> Nat \cup {None}]
  /\ view \in View \cup {None}

--------------------------------------------------------------------------------
\* Properties.

Printed(op) == view # None /\ view.op = op /\ Finished(view)

\* "totals above are incomplete, not low" (cli.py:270-274): whatever is committed
\* while a report or a status is being put together, one that names no unpriced
\* message has the cost of every message it counts.
IncompleteIsSaid ==
  Printed("report") \/ Printed("status") =>
    view.unpriced # {} \/ view.counted \subseteq view.costed

\* What an experiment is credited with was written after its window opened,
\* although the window is read before the messages and commands go on meanwhile.
CreditedAfterStart ==
  Printed("experiment") =>
    \A m \in view.counted : rows[m] >= exps[view.name].started

\* "SUM(cost_usd) skips NULLs, so a day containing unpriced Messages otherwise
\* renders as a smaller number with no indication that it is incomplete"
\* (report.py:9-11): the spend of an experiment says so, too.
ExperimentSaysIncomplete == Printed("experiment") => view.counted \subseteq view.costed

--------------------------------------------------------------------------------
(***************************************************************************)
(* The inductive invariant behind IncompleteIsSaid and CreditedAfterStart: *)
(* what a command in progress has read stays true of the store.  Rows are  *)
(* only added, so what lacks a price of what was counted is still stored,  *)
(* and unpriced, when the unpriced are asked for; and a window keeps its   *)
(* start.                                                                  *)
(***************************************************************************)
ReadingInv ==
  view # None =>
    /\ view.op # "experiment" =>
         /\ view.counted \subseteq Stored
         /\ view.op = "report" \/ view.asked # 1 => view.counted \ view.costed \subseteq Unpriced
         /\ view.asked = 3 => view.counted \ view.costed \subseteq view.unpriced
    /\ view.op = "experiment" =>
         /\ view.name \in Names
         /\ view.asked <= 2
         /\ view.asked < 2 => view.counted = {}
         /\ view.asked = 1 /\ view.window # None =>
              exps[view.name] # None /\ exps[view.name].started = view.window.started
         /\ view.asked = 2 => exps[view.name] # None
         /\ \A m \in view.counted : m \in Stored /\ rows[m] >= exps[view.name].started
================================================================================
