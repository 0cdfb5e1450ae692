------------------------------ MODULE Experiments ------------------------------
(***************************************************************************)
(* Experiment windows: start and stop of src/tracker/experiments.py, run   *)
(* by `tracker experiment` in any number of shells at once.                *)
(*                                                                         *)
(* The connection is in autocommit mode (isolation_level=None), so every   *)
(* statement is a transaction of its own: between the SELECT that checks,  *)
(* the reading of the clock and the INSERT or UPDATE, other commands run.  *)
(* A check that fails ends the command with an ExperimentError and leaves  *)
(* everything as it was, so a refused command is a command not begun.      *)
(***************************************************************************)
EXTENDS Integers, FiniteSets

CONSTANTS
  None,     \* NULL, and no row
  Names,
  Users,    \* shells in which a command may run
  MaxTime   \* bound on the clock

\* A row of the experiments table: started_at and ended_at.
Window == [started : Nat, ended : Nat \cup {None}]

ASSUME ExperimentsAssumption ==
  /\ None \notin Nat
  /\ None \notin Window
  /\ MaxTime \in Nat

VARIABLES
  now,   \* the clock
  exps,  \* the experiments table by name, None if there is no row
  cmd    \* the command in each shell, None if there is none

vars == <<now, exps, cmd>>

--------------------------------------------------------------------------------
\* A command: what it is about to do next, and whether another command wrote
\* since it began (history).
Command(op, n, step, unnamed) ==
  [op |-> op, name |-> n, step |-> step, ts |-> 0, unnamed |-> unnamed, raced |-> FALSE]

IsOpen(n) == exps[n] # None /\ exps[n].ended = None

At(u, step) == cmd[u] # None /\ cmd[u].step = step

\* start: no row of that name, neither open nor ended.
MayStart(n) == exps[n] = None

\* start: SELECT.
CheckStart(u, n) ==
  /\ cmd[u] = None
  /\ MayStart(n)
  /\ cmd' = [cmd EXCEPT ![u] = Command("start", n, "clock", FALSE)]
  /\ UNCHANGED <<now, exps>>

OnlyOpen(n) == {m \in Names : IsOpen(m)} = {n}

\* stop without a name: SELECT the open rows.  There has to be one.
LookForOpen(u, n) ==
  /\ cmd[u] = None
  /\ OnlyOpen(n)
  /\ cmd' = [cmd EXCEPT ![u] = Command("stop", n, "check", TRUE)]
  /\ UNCHANGED <<now, exps>>

\* Mutant: that there is no row is not looked at.
MayStopMissing(n) == exps[n] = None \/ exps[n].ended = None

\* Mutant: an ended window may be stopped again.
MayStopAny(n) == exps[n] # None

MayStop(n) == IsOpen(n)

\* stop with a name: SELECT.
CheckStop(u, n) ==
  /\ cmd[u] = None
  /\ MayStop(n)
  /\ cmd' = [cmd EXCEPT ![u] = Command("stop", n, "clock", FALSE)]
  /\ UNCHANGED <<now, exps>>

\* The same SELECT after the one that found the name.
CheckFound(u) ==
  /\ At(u, "check")
  /\ cmd' = [cmd EXCEPT ![u] = IF MayStop(cmd[u].name) THEN [@ EXCEPT !.step = "clock"] ELSE None]
  /\ UNCHANGED <<now, exps>>

\* _utcnow_iso
ReadClock(u) ==
  /\ At(u, "clock")
  /\ cmd' = [cmd EXCEPT ![u].step = "write", ![u].ts = now]
  /\ UNCHANGED <<now, exps>>

\* The command of u is over; if it wrote, the others in progress were overtaken.
Done(u) == cmd' = [cmd EXCEPT ![u] = None]
Wrote(u) ==
  cmd' = [v \in Users |-> IF v = u \/ cmd[v] = None THEN None
                          ELSE [cmd[v] EXCEPT !.raced = TRUE]]

\* Mutant: INSERT OR REPLACE.
InsertedAnyway(n) == TRUE

\* name is the primary key: the INSERT raises if there is a row by now.
Inserted(n) == exps[n] = None

InsertRow(u) ==
  /\ At(u, "write") /\ cmd[u].op = "start"
  /\ Inserted(cmd[u].name)
  /\ exps' = [exps EXCEPT ![cmd[u].name] = [started |-> cmd[u].ts, ended |-> None]]
  /\ Wrote(u)
  /\ UNCHANGED now

InsertRaises(u) ==
  /\ At(u, "write") /\ cmd[u].op = "start"
  /\ ~Inserted(cmd[u].name)
  /\ Done(u)
  /\ UNCHANGED <<now, exps>>

\* stop: UPDATE ... WHERE name = ?, whatever the row says by now.
UpdateRow(u) ==
  /\ At(u, "write") /\ cmd[u].op = "stop"
  /\ exps' = [exps EXCEPT ![cmd[u].name].ended = cmd[u].ts]
  /\ Wrote(u)
  /\ UNCHANGED now

\* "database is locked", or the command is interrupted.
GiveUp(u) ==
  /\ cmd[u] # None
  /\ Done(u)
  /\ UNCHANGED <<now, exps>>

Tick ==
  /\ now < MaxTime
  /\ now' = now + 1
  /\ UNCHANGED <<exps, cmd>>

--------------------------------------------------------------------------------
Init ==
  /\ now  = 0
  /\ exps = [n \in Names |-> None]
  /\ cmd  = [u \in Users |-> None]

Run(u) ==
  \/ \E n \in Names : CheckStart(u, n) \/ CheckStop(u, n) \/ LookForOpen(u, n)
  \/ CheckFound(u) \/ ReadClock(u)
  \/ InsertRow(u) \/ InsertRaises(u) \/ UpdateRow(u)
  \/ GiveUp(u)

Next == Tick \/ \E u \in Users : Run(u)

Spec == Init /\ [][Next]_vars

--------------------------------------------------------------------------------
\* Types.

Cmd == [op : {"start", "stop"}, name : Names, step : {"check", "clock", "write"},
        ts : Nat, unnamed : BOOLEAN, raced : BOOLEAN]

\* Every variable has the shape the code gives it, and a stop that found its
\* row still has one.
TypeOK ==
  /\ now \in Nat
  /\ exps \in [Names -> Window \cup {None}]
  /\ cmd \in [Users -> Cmd \cup {None}]
  /\ \A u \in Users : cmd[u] # None /\ cmd[u].op = "stop" => exps[cmd[u].name] # None

--------------------------------------------------------------------------------
\* Properties.

Table == INSTANCE Windows

\* Whatever commands overlap or break off, the table is a table of windows: a
\* name is opened once, "reuse would merge two different harness states under
\* one label" (experiments.py:40-43), its start never moves, and its end is never
\* before its start, taken away or in the future.
ImplementsWindows == Table!Spec

\* What overlapping commands can do to each other: a command during which no other
\* one wrote does what it would have done in one step.  start finds the name still
\* free, stop ends a window that is still open and, without a name, still the only
\* one.
SerialUnlessRaced ==
  [][\A u \in Users : cmd[u] # None /\ ~cmd[u].raced =>
       /\ ~InsertRaises(u)
       /\ UpdateRow(u) => /\ IsOpen(cmd[u].name)
                          /\ cmd[u].unnamed =>
                               \A n \in Names : IsOpen(n) => n = cmd[u].name]_vars

\* "experiment ... already ended" (experiments.py:72-73): a window that has an end
\* keeps it.
EndIsFinal ==
  [][\A n \in Names : exps[n] # None /\ exps[n].ended # None => exps'[n] = exps[n]]_vars

\* "Overlapping windows are allowed (ADR-0003), so this must not guess"
\* (test_experiments.py:38): stop without a name ends the only open window.
StopDoesNotGuess ==
  [][\A u \in Users : UpdateRow(u) /\ cmd[u].unnamed =>
       \A n \in Names : IsOpen(n) => n = cmd[u].name]_vars

\* "A user-facing problem, reported as a message rather than a traceback"
\* (experiments.py:25): a start that loses a race is refused by its check.
StartIsRefusedByName == [][\A u \in Users : ~InsertRaises(u)]_vars

--------------------------------------------------------------------------------
(***************************************************************************)
(* The inductive invariant behind ImplementsWindows and SerialUnlessRaced. *)
(* No timestamp is in the future, and a stop that has read the clock has   *)
(* read it after its window started.  What a command has found out stays   *)
(* true until another command writes.                                      *)
(***************************************************************************)
Timely ==
  /\ \A n \in Names : exps[n] # None => exps[n].started <= now
  /\ \A u \in Users : At(u, "write") =>
       /\ cmd[u].ts <= now
       /\ cmd[u].op = "stop" => exps[cmd[u].name].started <= cmd[u].ts

StillTrue(u) ==
  /\ cmd[u].op = "start" => exps[cmd[u].name] = None
  /\ cmd[u].op = "stop" /\ cmd[u].step # "check" => IsOpen(cmd[u].name)
  /\ cmd[u].unnamed => \A n \in Names : IsOpen(n) => n = cmd[u].name

WindowsInv ==
  /\ TypeOK
  /\ Timely
  /\ \A u \in Users : cmd[u] # None /\ ~cmd[u].raced => StillTrue(u)
================================================================================
