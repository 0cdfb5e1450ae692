------------------------------ MODULE Watermarks ------------------------------
(***************************************************************************)
(* src/tracker/ingest/watermarks.py: what the store remembers about a      *)
(* source file, and what the next run decides from it.                     *)
(*                                                                         *)
(* A file is a sequence of newline-terminated lines, with perhaps a last   *)
(* line the agent is still writing.  Every complete line has the same      *)
(* width here, and an unfinished one is shorter, so a byte offset that     *)
(* points just past a newline is told by the number of lines before it:    *)
(* Bytes(n) is the byte offset just past the n-th line.                    *)
(***************************************************************************)
EXTENDS Naturals

CONSTANT None   \* no watermark, no file at a path, no row for a key

Bytes(n) == 2 * n

\* os.stat of a file with n complete lines and perhaps an unfinished one.
FileStat(inode, n, partial, mtime) ==
  [inode |-> inode, size |-> Bytes(n) + (IF partial THEN 1 ELSE 0), mtime |-> mtime]

SameStat(wm, st) == wm.size = st.size /\ wm.mtime = st.mtime
AtEof(wm, st)    == Bytes(wm.offset) >= st.size

\* Mutant: the unchanged check does not look at the offset.
DecideNoEof(wm, st) ==
  IF      wm = None                  THEN "new"
  ELSE IF wm.inode # st.inode        THEN "rotated"
  ELSE IF st.size < Bytes(wm.offset) THEN "truncated"
  ELSE IF SameStat(wm, st)           THEN "unchanged"
  ELSE IF AtEof(wm, st)              THEN "rewritten"
  ELSE                                    "appended"

(***************************************************************************)
(* decide: the first case that holds.  The inode column is never NULL in a *)
(* stored watermark: save_watermark always writes the one of the stat.     *)
(***************************************************************************)
Decide(wm, st) ==
  IF      wm = None                                   THEN "new"
  ELSE IF wm.inode # st.inode                         THEN "rotated"
  ELSE IF st.size < Bytes(wm.offset)                  THEN "truncated"
  ELSE IF SameStat(wm, st) /\ AtEof(wm, st)           THEN "unchanged"
  ELSE IF AtEof(wm, st)                               THEN "rewritten"
  ELSE                                                     "appended"

Resets     == {"new", "rotated", "truncated", "rewritten"}
Rotations  == {"rotated", "truncated", "rewritten"}
Decisions  == Resets \cup {"unchanged", "appended"}

\* Mutant: the read resumes a line early.
StartOffsetEarly(wm, st) == IF Decide(wm, st) \in Resets THEN 0 ELSE wm.offset - 1

\* Where the read starts, in lines.
StartOffset(wm, st) == IF Decide(wm, st) \in Resets THEN 0 ELSE wm.offset

\* Mutant: the counter accumulates over a reset.
LinesAlwaysAdd(old, n, reset) == IF old = None THEN n ELSE old.lines + n

(***************************************************************************)
(* save_watermark: the row is inserted or updated; the counter of ingested *)
(* lines accumulates on the stored one unless the offset was reset.        *)
(* lines_skipped accumulates in the same way and is left out, as are the   *)
(* timestamps and last_error, which nothing reads back.                    *)
(***************************************************************************)
LinesAfter(old, n, reset) == IF reset \/ old = None THEN n ELSE old.lines + n

SavedMark(old, st, offset, n, reset) ==
  [inode  |-> st.inode, size |-> st.size, mtime |-> st.mtime,
   offset |-> offset,   lines |-> LinesAfter(old, n, reset)]
===============================================================================
