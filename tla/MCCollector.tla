------------------------------ MODULE MCCollector -----------------------------
\* Instances of Collector for TLC: the symmetries and the sets the runs share.
EXTENDS Collector, TLC

CONSTANTS i1, i2, i3, k1, k2, c1, c2

\* Inodes are only compared for equality.  Not used with liveness properties.
InodeSymmetry == Permutations(Inodes)

Symmetry == InodeSymmetry \cup Permutations(Keys)

Symmetry2 == Symmetry \cup Permutations(Collectors)

\* What the steps to come depend on, for a run without CompleteRunIsComplete, a limit
\* of files or failing reads: no guard reads `goal`, which is history; a loaded watermark
\* is read when its file is visited, `start` when the file cannot be opened, `pos` until
\* the end of the file.
SnapToCome(c) == [p \in Paths |-> IF p \in todo[c] THEN snap[c][p] ELSE None]
JobToCome(c) ==
  CASE pc[c] = "read" -> [job[c] EXCEPT !.start = 0]
    [] pc[c] = "end"  -> [job[c] EXCEPT !.start = 0, !.pos = 0]
    [] OTHER          -> job[c]
ToCome == <<file, ino, born, clock, writes, db, disk, pc, todo, faults,
            [c \in Collectors |-> SnapToCome(c)], [c \in Collectors |-> JobToCome(c)]>>
===============================================================================
