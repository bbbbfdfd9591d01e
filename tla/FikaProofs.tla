----------------------------- MODULE FikaProofs -----------------------------
(* Theorems about the log tail: they hold for a log of any length, with any *)
(* number of rotations and failing reads, whenever the collector calls it.  *)
EXTENDS Fika, TLAPS

USE LogTailAssumption DEF None

-----------------------------------------------------------------------------
(* A gathering tails the log as LogTail has it.                             *)

\* Every step of the module is a step of the tail, or leaves it alone.
LEMMA StepOfTail == [FikaNext]_fikaVars => [Next]_vars
<1> SUFFICES ASSUME [FikaNext]_fikaVars PROVE [Next]_vars
  OBVIOUS
<1>1. CASE Server
  BY <1>1 DEF Server, Next
<1>2. CASE Tail
  BY <1>2 DEF Tail, Next
<1>3. ASSUME Programs \/ Skip \/ Discover \/ DiscoverFails \/ Decide
      PROVE  UNCHANGED vars
  BY <1>3 DEF Programs, Skip, Discover, DiscoverFails, Decide
<1>4. CASE UNCHANGED fikaVars
  BY <1>4 DEF fikaVars
<1> QED
  BY <1>1, <1>2, <1>3, <1>4 DEF FikaNext, Cycle

\* FikaModule.gather implements the safety of the log tail.
THEOREM GatheringTails == FikaSpec => Init /\ [][Next]_vars
<1>1. FikaInit => Init
  BY DEF FikaInit
<1> QED
  BY <1>1, StepOfTail, PTL DEF FikaSpec

-----------------------------------------------------------------------------
(* The inductive invariant.                                                 *)

\* The tail begins with the first poll, and between stat and read the local
\* offset is the stored one.  What lies beyond it has been shown by failed reads
\* only.  In a log that was not rotated it is not before the start of the tail.
TailInv ==
  /\ TypeOK
  /\ ~known => start = None /\ offset = 0
  /\ from = None \/ (known /\ from = offset)
  /\ NoRepeat
  /\ \A n \in Line : n > offset => reads[n] <= errors
  /\ rotations = 0 /\ known => start <= offset
  /\ ShownFromStart

LEMMA TailStep == TailInv /\ [Next]_vars => TailInv'
<1> SUFFICES ASSUME TailInv, [Next]_vars PROVE TailInv'
  OBVIOUS
<1> USE DEF TailInv, TypeOK, NoRepeat, ShownFromStart, Line
<1>1. CASE Append1
  BY <1>1 DEF Append1
<1>2. CASE Rotate
  BY <1>2 DEF Rotate
<1>3. CASE Open
  BY <1>3 DEF Open
<1>4. CASE Stat
  BY <1>4 DEF Stat
<1>5. CASE Read
  <2>1. reads' = [n \in Line |-> IF n \in from + 1 .. size THEN reads[n] + 1 ELSE reads[n]]
    BY <1>5 DEF Read, Emit, Lines
  <2>2. /\ from = offset /\ offset' = (IF size > offset THEN size ELSE offset)
        /\ from' = None
        /\ UNCHANGED <<size, rotations, errors, known, start>>
    BY <1>5 DEF Read
  <2>3. reads' \in [Line -> Nat]
    BY <2>1
  <2>4. \A n \in Line : reads'[n] = IF n > offset /\ n <= size THEN reads[n] + 1 ELSE reads[n]
    BY <2>1, <2>2
  <2> QED
    BY <2>2, <2>3, <2>4
<1>6. CASE ReadFails
  <2>1. PICK m \in from .. size : Emit(Lines(from, m))
    BY <1>6 DEF ReadFails
  <2>2. reads' = [n \in Line |-> IF n \in from + 1 .. m THEN reads[n] + 1 ELSE reads[n]]
    BY <2>1 DEF Emit, Lines
  <2>3. /\ from = offset /\ from' = None /\ errors' = errors + 1 /\ errors < MaxErrors
        /\ UNCHANGED <<size, rotations, known, offset, start>>
    BY <1>6 DEF ReadFails
  <2>4. reads' \in [Line -> Nat]
    BY <2>2
  <2>5. \A n \in Line : reads'[n] = IF n > offset /\ n <= m THEN reads[n] + 1 ELSE reads[n]
    BY <2>2, <2>3
  <2>6. TypeOK'
    BY <2>3, <2>4
  <2>7. \A n \in Line : reads[n] \in Nat /\ errors \in Nat
    OBVIOUS
  <2>8. NoRepeat' /\ \A n \in Line : n > offset' => reads'[n] <= errors'
    <3>1. ASSUME NEW n \in Line PROVE reads'[n] <= 1 + errors'
      BY <2>3, <2>5, <2>7
    <3>2. ASSUME NEW n \in Line, n > offset PROVE reads'[n] <= errors'
      BY <2>3, <2>5, <2>7, <3>2
    <3> QED
      BY <2>3, <3>1, <3>2
  <2>9. ShownFromStart'
    BY <2>3, <2>5, <2>7
  <2> QED
    BY <2>3, <2>6, <2>8, <2>9
<1>7. CASE UNCHANGED vars
  BY <1>7 DEF vars
<1> QED
  BY <1>1, <1>2, <1>3, <1>4, <1>5, <1>6, <1>7 DEF Next, Poll

LEMMA TailInvariant == FikaSpec => []TailInv
<1>1. Init => TailInv
  <2> SUFFICES ASSUME Init PROVE TailInv
    OBVIOUS
  <2>1. reads \in [Line -> Nat] /\ \A n \in Line : reads[n] = 0
    BY DEF Init
  <2>2. TypeOK
    <3>1. size \in 0..MaxLines /\ rotations \in 0..MaxRotations /\ errors \in 0..MaxErrors
      BY DEF Init
    <3>2. known \in BOOLEAN
      BY DEF Init
    <3>3. offset \in 0..MaxLines /\ (rotations = 0 => offset <= size)
      BY DEF Init
    <3>4. start \in 0..None
      BY DEF Init
    <3>5. from \in 0..MaxLines \cup {None}
      BY DEF Init
    <3> QED
      BY <2>1, <3>1, <3>2, <3>3, <3>4, <3>5 DEF TypeOK
  <2>3. NoRepeat /\ ShownFromStart
    BY <2>1 DEF Init, NoRepeat, ShownFromStart
  <2> QED
    BY <2>1, <2>2, <2>3 DEF Init, TailInv
<1> QED
  BY <1>1, TailStep, GatheringTails, PTL

-----------------------------------------------------------------------------
\* A line is shown at most once more than there were failed reads, in whatever
\* order the log grows, is rotated and is polled (fika.py:354-399).
THEOREM LinesAreNotRepeated == FikaSpec => []NoRepeat
<1>1. TailInv => NoRepeat
  BY DEF TailInv
<1> QED
  BY <1>1, TailInvariant, PTL

\* Until a log is rotated, what is shown of it is everything from the place
\* tailing began, and nothing of what was there before (fika.py:354-399).
THEOREM ShownIsWhole == FikaSpec => []ShownFromStart
<1>1. TailInv => ShownFromStart
  BY DEF TailInv
<1> QED
  BY <1>1, TailInvariant, PTL
=============================================================================
