------------------------------- MODULE LogTail ------------------------------
(***************************************************************************)
(* The log tail of raidwatch/modules/fika.py: _tail_logs and _tail_file,   *)
(* once per collection cycle in a worker thread, on a log that a game      *)
(* server appends to and rotates meanwhile.  Positions count lines of the  *)
(* file of the current generation; every line is one the classifier keeps, *)
(* and is written whole.  What becomes of an event once it is in the ring   *)
(* of recent events (the first 50 of a poll go into the snapshot) is left   *)
(* out.                                                                    *)
(***************************************************************************)
EXTENDS Naturals

CONSTANTS
  MaxLines,     \* bound: length of the log
  MaxRotations, \* bound: truncations of the log
  MaxErrors     \* bound: reads that end with OSError

ASSUME LogTailAssumption ==
  /\ MaxLines \in Nat /\ MaxRotations \in Nat /\ MaxErrors \in Nat

VARIABLES
  size,       \* lines in the log now
  rotations,  \* truncations so far
  errors,     \* failed reads so far
  known,      \* the file is in _log_initialized
  offset,     \* _log_offsets of the file
  start,      \* history: where the tail of this generation of the log begins,
              \* the end of the file at its first poll; None before it
  from,       \* the local offset of _tail_file between stat and read, or None
  reads       \* history: reads[n], how often line n has become an event

vars == <<size, rotations, errors, known, offset, start, from, reads>>

Line == 1..MaxLines
None == MaxLines + 1

\* The lines a read from position n to the end m of the file finds.
Lines(n, m) == n + 1..m

Init ==
  /\ size = 0 /\ rotations = 0 /\ errors = 0
  /\ known = FALSE /\ offset = 0 /\ start = None /\ from = None
  /\ reads = [n \in Line |-> 0]

-----------------------------------------------------------------------------
(* The game server.                                                        *)

Append1 ==
  /\ size < MaxLines /\ size' = size + 1
  /\ UNCHANGED <<rotations, errors, known, offset, start, from, reads>>

Rotate ==
  /\ rotations < MaxRotations /\ rotations' = rotations + 1
  /\ size' = 0
  /\ reads' = [n \in Line |-> 0] /\ start' = None
  /\ UNCHANGED <<errors, known, offset, from>>

-----------------------------------------------------------------------------
(* One poll: stat, then open, seek and read.                                *)

\* The first poll seeks to the end.
Open ==
  /\ from = None /\ ~known
  /\ known' = TRUE /\ offset' = size /\ start' = size
  /\ UNCHANGED <<size, rotations, errors, from, reads>>

\* MUTANT: one new line is taken for none.
Stat_LeavesOne ==
  /\ from = None /\ known
  /\ from' = IF offset + 1 < size THEN offset ELSE None
  /\ start' = IF start = None THEN size ELSE start
  /\ UNCHANGED <<size, rotations, errors, known, offset, reads>>

\* stat: a shorter file resets the local offset to its end; without anything
\* new the poll is over, and the stored offset stays what it was.
Stat ==
  /\ from = None /\ known
  /\ from' = IF offset < size THEN offset ELSE None
  /\ start' = IF start = None THEN size ELSE start
  /\ UNCHANGED <<size, rotations, errors, known, offset, reads>>

\* Lines become events.
Emit(new) == reads' = [n \in Line |-> IF n \in new THEN reads[n] + 1 ELSE reads[n]]

\* MUTANT: the offset skips one line.
Read_SkipsOne ==
  /\ from # None /\ from' = None
  /\ Emit(Lines(from + 1, size))
  /\ offset' = IF size > from THEN size ELSE from
  /\ UNCHANGED <<size, rotations, errors, known, start>>

\* MUTANT: the offset is not stored.
Read_KeepsOffset ==
  /\ from # None /\ from' = None
  /\ Emit(Lines(from, size))
  /\ UNCHANGED <<size, rotations, errors, known, start, offset>>

\* Read to the end of what is there by now and store the position.  A file
\* truncated since the stat reads as empty and the position stays.
Read ==
  /\ from # None /\ from' = None
  /\ Emit(Lines(from, size))
  /\ offset' = IF size > from THEN size ELSE from
  /\ UNCHANGED <<size, rotations, errors, known, start>>

\* An OSError after some of the lines: they are events, the position is not
\* stored.
ReadFails ==
  /\ from # None /\ errors < MaxErrors
  /\ from' = None /\ errors' = errors + 1
  /\ \E m \in from..size : Emit(Lines(from, m))
  /\ UNCHANGED <<size, rotations, known, offset, start>>

Poll == Open \/ Stat \/ Read \/ ReadFails
Next == Append1 \/ Rotate \/ Poll

\* The collector polls for ever; nothing makes the server log.
Spec == Init /\ [][Next]_vars /\ WF_vars(Poll)

-----------------------------------------------------------------------------
\* The types of the state, and an offset within a log that was not rotated
\* (fika.py:52-59).
TypeOK ==
  /\ size \in 0..MaxLines /\ rotations \in 0..MaxRotations
  /\ errors \in 0..MaxErrors /\ known \in BOOLEAN
  /\ offset \in 0..MaxLines /\ (rotations = 0 => offset <= size)
  /\ start \in 0..None
  /\ from \in 0..MaxLines \cup {None}
  /\ reads \in [Line -> Nat]

\* As long as the log is not rotated, every line between the place tailing
\* began, the end of the log found at start-up, and the stored offset has been
\* shown, and none of the backlog before it (fika.py:354-399).
ShownFromStart == rotations = 0 => \A n \in Line :
  /\ n <= start => reads[n] = 0
  /\ known /\ start < n /\ n <= offset => reads[n] >= 1

\* A line is shown once, and again only for a read that failed, even when the
\* log is rotated and grows while a poll is between its stat and its read.
NoRepeat == \A n \in Line : reads[n] <= 1 + errors

\* Every line logged after the first poll of a log that is not rotated is
\* shown, whatever read failed.
Tails == \A n \in Line :
  (known /\ start < n /\ n <= size) ~> (reads[n] >= 1 \/ rotations > 0)

\* "Rotation-safe": the same of what a rotation has left of the log, for the
\* lines that are not removed by it.
TailsRotated == \A n \in Line :
  (known /\ start < n /\ n <= size) ~> (reads[n] >= 1 \/ size < n)
=============================================================================
