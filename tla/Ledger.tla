-------------------------------- MODULE Ledger --------------------------------
(***************************************************************************)
(* What the program promises of its messages table, whatever happens to    *)
(* runs, files and power: a row is only ever added, it is for a message    *)
(* some transcript holds, and it stays with the transcript it was first    *)
(* read from ("first write wins", docs/adr/0005).  Collector implements it *)
(* with its runs and faults, ClaudeTranscripts and PiSession with their    *)
(* keys, copied histories and reads from anywhere.                         *)
(***************************************************************************)
EXTENDS Naturals

CONSTANTS Paths, Keys, None

VARIABLES written,   \* <<path, key>> for each message line a transcript has held
          rows       \* the transcript each stored message is attributed to

Init == /\ written = {}
        /\ rows = [k \in Keys |-> None]

\* A transcript gets a message, or the copy of another's.
Write == /\ UNCHANGED rows
         /\ written \subseteq written' /\ written' \subseteq Paths \X Keys

Attributions(k) == {p \in Paths : <<p, k>> \in written}

\* Some of the messages without a row get theirs.
Record == /\ rows' \in [Keys -> Paths \cup {None}]
          /\ \A k \in Keys : \/ rows'[k] = rows[k]
                             \/ rows[k] = None /\ rows'[k] \in Attributions(k)
          /\ UNCHANGED written

Next == Write \/ Record

Spec == Init /\ [][Next]_<<written, rows>>
===============================================================================
