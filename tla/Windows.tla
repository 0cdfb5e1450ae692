-------------------------------- MODULE Windows --------------------------------
(***************************************************************************)
(* What the experiments table promises (src/tracker/experiments.py): a     *)
(* name is opened once and keeps its start for ever, and an end, once      *)
(* there, may move but never goes away or before the start.  No timestamp  *)
(* is in the future.                                                       *)
(***************************************************************************)
EXTENDS Naturals

CONSTANTS Names, None

VARIABLES now, exps

Advance == now' >= now

Open(n) ==
  /\ exps[n] = None
  /\ \E t \in 0..now : exps' = [exps EXCEPT ![n] = [started |-> t, ended |-> None]]

Close(n) ==
  /\ exps[n] # None
  /\ \E t \in exps[n].started..now : exps' = [exps EXCEPT ![n].ended = t]

Init == now \in Nat /\ exps = [n \in Names |-> None]

Next ==
  \/ Advance /\ UNCHANGED exps
  \/ UNCHANGED now /\ \E n \in Names : Open(n) \/ Close(n)

Spec == Init /\ [][Next]_<<now, exps>>
================================================================================
