-------------------------- MODULE RecordingProofs ---------------------------
(* Theorems about Recording: they hold for every number of statements in    *)
(* the migration, every backoff and any number of crashes.                  *)
EXTENDS Recording, TLAPS

Places == {"off", "config", "version", "migrate", "open", "disabled"}

\* SchemaWhole with the types it rests on: a program that reads a version of 1,
\* or finds nothing left to make, meets a whole schema.
SchemaInv ==
  /\ version \in {0, 1}
  /\ opener \in [Openers -> Places]
  /\ SchemaWhole

LEMMA SchemaStep == SchemaInv /\ [Next]_vars => SchemaInv'
<1> SUFFICES ASSUME SchemaInv, [Next]_vars PROVE SchemaInv'
  OBVIOUS
<1> USE DEF SchemaInv, SchemaWhole, Openers, Places
<1>1. CASE LoadConfig
  BY <1>1 DEF LoadConfig
<1>2. CASE Connect
  BY <1>2 DEF Connect, disk
<1>3. ASSUME NEW o \in Openers, ReadVersion(o) PROVE SchemaInv'
  BY <1>3 DEF ReadVersion, disk
<1>4. ASSUME NEW o \in Openers, Migrate(o) PROVE SchemaInv'
  <2>1. CASE made # Schema
    BY <1>4, <2>1 DEF Migrate
  <2>2. CASE made = Schema
    BY <1>4, <2>2 DEF Migrate, Schema
  <2> QED
    BY <2>1, <2>2
<1>5. ASSUME NEW o \in Openers, OpenFails(o) PROVE SchemaInv'
  BY <1>5 DEF OpenFails, disk
<1>6. ASSUME NEW o \in Openers, Crash(o) PROVE SchemaInv'
  BY <1>6 DEF Crash, disk
<1>7. CASE Stop
  BY <1>7 DEF Stop, disk
<1>8. CASE UNCHANGED <<disk, opener>>
  BY <1>8 DEF disk
<1>9. ASSUME \/ Start \/ RunStarts \/ RunStopped \/ Show \/ Collects \/ Hangs \/ Returns
             \/ WMICollect \/ Gather \/ Insert \/ InsertFails \/ Wakes \/ Tick
      PROVE  UNCHANGED <<disk, opener>>
  BY <1>9 DEF Start, RunStarts, RunStopped, Show, Collects, Hangs, Returns, WMICollect, Gather,
              Insert, InsertFails, Wakes, Tick
<1>10. CASE DatabaseFaults
  BY <1>10 DEF DatabaseFaults, disk
<1>11. CASE UNCHANGED vars
  BY <1>11, <1>8 DEF vars
<1> QED
  BY <1>1, <1>2, <1>3, <1>4, <1>5, <1>6, <1>7, <1>8, <1>9, <1>10, <1>11 DEF Next

\* A schema of version 1 is whole, and so is one a program works on, wherever
\* the two migrations are interrupted and however they interleave
\* (rw_database.cpp:145-151, database.py:153-166).
THEOREM SchemaIsWhole == Spec => []SchemaWhole
<1>1. Init => SchemaInv
  BY DEF Init, SchemaInv, SchemaWhole, Openers, Places
<1>2. SchemaInv => SchemaWhole
  BY DEF SchemaInv
<1> QED
  BY <1>1, <1>2, SchemaStep, PTL DEF Spec

-----------------------------------------------------------------------------
(* The rows come on time.                                                   *)

\* The ticks until the thread tries to write a row, at most.
Remaining == IF loop = "sleep" THEN left + 1 ELSE IF loop = "wait" THEN 1 - waited ELSE 0

\* Either the last attempt succeeded and the next one is near, or the database
\* has not been without faults for longer than the backoff and the wait.
TimeInv ==
  /\ loop \in {"off", "wait", "read", "proc", "insert", "sleep"}
  /\ left \in 0 .. Backoff /\ waited \in {0, 1}
  /\ gap \in Nat /\ quiet \in Nat /\ (faulty => quiet = 0)
  /\ loop # "off" => gap + Remaining <= 2 \/ quiet + Remaining <= Backoff + 2

\* A sleep that follows a fault at once ends within the backoff.
LEMMA SleepFits ==
  ASSUME NEW b \in Nat, NEW l \in 0 .. b, NEW q, q = 0
  PROVE  q + (l + 1) <= b + 2
OBVIOUS

LEMMA TimeStep == TimeInv /\ [Next]_vars => TimeInv'
<1> SUFFICES ASSUME TimeInv, [Next]_vars PROVE TimeInv'
  OBVIOUS
<1>0. Backoff \in Nat /\ Backoff >= 1
  BY RecordingAssumption
<1> USE <1>0 DEF TimeInv, Remaining
<1>1. CASE Start
  BY <1>1 DEF Start
<1>2. CASE Gather
  BY <1>2 DEF Gather, InCycle, history
<1>3. CASE Insert
  BY <1>3, RecordingAssumption DEF Insert, InCycle, Sleep, Cadence
<1>4. CASE InsertFails
  <2>1. left' \in 0 .. Backoff
    BY <1>4 DEF InsertFails, Sleep, Cadence
  <2>2. /\ loop = "insert" /\ loop' = "sleep" /\ quiet = 0
        /\ UNCHANGED <<faulty, waited, gap, quiet>>
    BY <1>4 DEF InsertFails, InCycle, history
  <2>3. quiet' = 0
    BY <2>2
  <2>4. quiet' + (left' + 1) <= Backoff + 2
    BY ONLY <1>0, <2>1, <2>3, SleepFits
  <2> QED
    BY <2>1, <2>2, <2>4
<1>5. CASE Wakes
  BY <1>5 DEF Wakes, InCycle, history
<1>6. CASE Tick
  <2>1. /\ loop' = loop
        /\ left' = IF Sleeping THEN left - 1 ELSE left
        /\ waited' = IF loop = "wait" THEN waited + 1 ELSE waited
        /\ faulty' = faulty
        /\ gap' = IF loop = "off" THEN 0 ELSE AtMost(gap + 1, 3)
        /\ quiet' = IF faulty \/ loop = "off" THEN 0 ELSE AtMost(quiet + 1, Backoff + 3)
    BY <1>6 DEF Tick
  <2>2. loop = "off" \/ Sleeping \/ (loop = "wait" /\ waited = 0)
    BY <1>6 DEF Tick, Await
  <2>3. gap' \in Nat /\ gap' <= gap + 1
    BY <2>1 DEF AtMost
  <2>4. quiet' \in Nat /\ quiet' <= quiet + 1
    BY <2>1 DEF AtMost
  <2> QED
    BY <2>1, <2>2, <2>3, <2>4 DEF Sleeping
<1>7. CASE DatabaseFaults
  <2>1. quiet' = 0 /\ UNCHANGED <<loop, left, waited, gap>>
    BY <1>7 DEF DatabaseFaults, cycle
  <2>2. Remaining <= Backoff + 1
    OBVIOUS
  <2> QED
    BY <2>1, <2>2
<1>8. CASE Fresh /\ UNCHANGED faulty
  BY <1>8 DEF Fresh
<1>9. CASE UNCHANGED <<cycle, faulty, gap, quiet>>
  BY <1>9 DEF cycle
<1>10. ASSUME NEW o \in Openers, Crash(o) PROVE TimeInv'
  BY <1>8, <1>9, <1>10 DEF Crash, history
<1>11. CASE Stop
  BY <1>8, <1>11 DEF Stop
<1>12. ASSUME \/ LoadConfig \/ Connect \/ RunStarts \/ RunStopped \/ Show \/ Collects \/ Hangs
              \/ Returns \/ WMICollect
              \/ \E o \in Openers : ReadVersion(o) \/ Migrate(o) \/ OpenFails(o)
       PROVE  UNCHANGED <<cycle, faulty, gap, quiet>>
  BY <1>12 DEF LoadConfig, Connect, RunStarts, RunStopped, Show, Collects, Hangs, Returns, WMICollect,
               ReadVersion, Migrate, OpenFails, history
<1>13. CASE UNCHANGED vars
  BY <1>9, <1>13 DEF vars, history
<1> QED
  BY <1>1, <1>2, <1>3, <1>4, <1>5, <1>6, <1>7, <1>9, <1>10, <1>11, <1>12, <1>13 DEF Next

\* After any faults of the database, hangs and crashes the rows are back at
\* their rate within the backoff and the wait, whatever their lengths
\* (rw_collector.cpp:84-126, rw_collector.hpp:76-80).
THEOREM RowsComeOnTime == Spec => []RowsOnTime
<1>1. Init => TimeInv
  BY RecordingAssumption DEF Init, TimeInv
<1>2. TimeInv => RowsOnTime
  <2> SUFFICES ASSUME TimeInv, loop # "off", quiet > Backoff + 2 PROVE gap <= 2
    BY DEF RowsOnTime
  <2>1. Remaining \in Nat
    BY DEF TimeInv, Remaining
  <2> QED
    BY <2>1, RecordingAssumption DEF TimeInv
<1> QED
  BY <1>1, <1>2, TimeStep, PTL DEF Spec
-----------------------------------------------------------------------------
(* The rows are current.                                                    *)

\* The run has passed the source.
Passed(s) == \E i \in 1 .. 4 : Order[i] = s /\ i < runner

\* What a whole run has passed is no older than the run itself, so that all of
\* the boxes are once it has ended.
CurrentInv ==
  /\ shown \in Choices /\ runner \in 0 .. 4 /\ age \in [Sources -> 0 .. Old] /\ since \in 0 .. Old
  /\ begun \in 0 .. Old /\ kind \in {"whole", "part"}
  /\ kind = "whole" => runner # 0
  /\ kind = "whole" => \A s \in Sources \cap shown : Passed(s) => age[s] <= begun
  /\ \A s \in Sources \cap shown : age[s] <= since

\* Some box is the first of those shown.
LEMMA SmallMin ==
  ASSUME NEW later \in SUBSET (1 .. 4), later # {}
  PROVE  \E i \in later : \A j \in later : i <= j
<1>1. CASE 1 \in later
  BY <1>1
<1>2. CASE 1 \notin later /\ 2 \in later
  BY <1>2
<1>3. CASE later \cap {1, 2} = {} /\ 3 \in later
  BY <1>3
<1>4. CASE later \cap {1, 2, 3} = {} /\ 4 \in later
  BY <1>4
<1>5. PICK i \in 1 .. 4 : i \in later
  OBVIOUS
<1>6. i = 1 \/ i = 2 \/ i = 3 \/ i = 4
  BY <1>5
<1> QED
  BY <1>1, <1>2, <1>3, <1>4, <1>5, <1>6

\* The next box is the first one that is shown.
LEMMA NextIsFirst ==
  ASSUME NEW n \in 1 .. 5
  PROVE  /\ Next4(n) = 0 \/ Next4(n) \in n .. 4
         /\ \A j \in n .. 4 : Order[j] \in shown => 0 < Next4(n) /\ Next4(n) <= j
<1> DEFINE later == {i \in n .. 4 : Order[i] \in shown}
<1>1. CASE later = {}
  BY <1>1 DEF Next4
<1>2. CASE later # {}
  <2>1. \E i \in later : \A j \in later : i <= j
    BY <1>2, SmallMin
  <2>2. Next4(n) = CHOOSE i \in later : \A j \in later : i <= j
    BY <1>2 DEF Next4
  <2>3. Next4(n) \in later /\ \A j \in later : Next4(n) <= j
    BY <2>1, <2>2
  <2> QED
    BY <2>3
<1> QED
  BY <1>1, <1>2

LEMMA CurrentStep == CurrentInv /\ [Next]_vars => CurrentInv'
<1> SUFFICES ASSUME CurrentInv, [Next]_vars PROVE CurrentInv'
  OBVIOUS
<1> USE DEF CurrentInv, Sources
<1>1. CASE RunStarts
  <2>1. /\ runner' = Next4(1) /\ kind' \in {"whole", "part"} /\ begun' = 0 /\ runner = 0
        /\ UNCHANGED <<shown, age, since>>
    BY <1>1 DEF RunStarts
  <2>2. "cpu" \in shown
    BY DEF Choices
  <2> QED
    BY <2>1, <2>2, NextIsFirst DEF Passed, Order, Old
<1>2. CASE Collects
  <2>1. /\ runner \in 1 .. 4 /\ runner' = Next4(runner + 1)
        /\ UNCHANGED shown
    BY <1>2 DEF Collects, CollectCpu, CollectMem, CollectNet, CollectProc, Leaves, AtSource, Order
  <2>2. /\ runner' = 0 \/ runner' \in runner + 1 .. 4
        /\ \A j \in runner + 1 .. 4 : Order[j] \in shown => 0 < runner' /\ runner' <= j
    BY <2>1, NextIsFirst
  <2>3. CASE /\ kind' = "part" /\ begun' = 0 /\ since' = since
             /\ age' \in {age, [age EXCEPT ![Order[runner]] = 0]}
    <3>1. runner' \in 0 .. 4 /\ shown' = shown
      BY <2>1, <2>2
    <3>2. age' \in [Sources -> 0 .. Old] /\ \A s \in Sources : age'[s] <= age[s]
      BY <2>3, <2>1 DEF Order, Old
    <3> QED
      BY <2>3, <3>1, <3>2 DEF Old
  <2>4. CASE /\ kind = "whole" /\ kind' = IF runner' = 0 THEN "part" ELSE "whole"
             /\ begun' = IF runner' = 0 THEN 0 ELSE begun
             /\ since' = IF runner' = 0 THEN begun ELSE since
             /\ \/ age' = [age EXCEPT ![Order[runner]] = 0]
                \/ runner = 4 /\ age' = age
    <3>1. runner' \in 0 .. 4 /\ age' \in [Sources -> 0 .. Old]
      BY <2>1, <2>2, <2>4 DEF Order, Old
    <3>2. \A s \in Sources \cap shown :
            (\E i \in 1 .. 4 : Order[i] = s /\ i <= runner) => age'[s] <= begun
      BY <2>1, <2>4 DEF Passed, Order, Old
    <3>3. CASE runner' = 0
      <4>1. \A s \in Sources \cap shown : \E i \in 1 .. 4 : Order[i] = s /\ i <= runner
        BY <2>1, <2>2, <3>3 DEF Order
      <4>2. kind' = "part" /\ begun' = 0 /\ since' = begun
        BY <2>4, <3>3
      <4> QED
        BY <2>1, <3>1, <3>2, <4>1, <4>2 DEF Old
    <3>4. CASE runner' # 0
      <4>1. kind' = "whole" /\ begun' = begun /\ since' = since
        BY <2>4, <3>4
      <4>2. \A s \in Sources \cap shown : Passed(s)' =>
              \E i \in 1 .. 4 : Order[i] = s /\ i <= runner
        BY <2>1, <2>2, <3>4 DEF Passed, Order
      <4>3. \A s \in Sources \cap shown : age'[s] <= age[s]
        BY <2>1, <2>4 DEF Order, Old
      <4> QED
        BY <2>1, <3>1, <3>2, <3>4, <4>1, <4>2, <4>3 DEF Old
    <3> QED
      BY <3>3, <3>4
  <2> QED
    BY <1>2, <2>1, <2>3, <2>4 DEF Collects, CollectCpu, CollectMem, CollectNet, CollectProc,
         Leaves, New, AtSource, Order
<1>3. CASE Tick
  <2>1. /\ age' = [s \in Sources |-> Older(age[s])] /\ since' = Older(since)
        /\ begun' = IF kind = "whole" THEN Older(begun) ELSE 0
        /\ UNCHANGED <<shown, runner, kind>>
    BY <1>3 DEF Tick
  <2> QED
    BY <2>1 DEF Older, AtMost, Old, Passed
<1>4. CASE RunStopped
  BY <1>4 DEF RunStopped, Old
<1>5. CASE Show
  <2>1. /\ runner = 0 /\ since' = Old /\ shown' \in Choices /\ UNCHANGED <<runner, kind, begun>>
        /\ age' = [s \in Sources |-> IF s \in shown \cap shown' THEN age[s] ELSE Old]
    BY <1>5 DEF Show
  <2> QED
    BY <2>1 DEF Old
<1>6. CASE Fresh /\ UNCHANGED shown
  <2>1. since' = Old /\ runner' = 0 /\ kind' = "part" /\ begun' = 0
        /\ age' = [s \in Sources |-> IF s \in shown \ {"net"} THEN 0 ELSE Old]
    BY <1>6 DEF Fresh
  <2> QED
    BY <1>6, <2>1 DEF Old
<1>7. CASE UNCHANGED <<shown, age, runner, kind, begun, since>>
  BY <1>7 DEF Passed
<1>8. ASSUME NEW o \in Openers, Crash(o) PROVE CurrentInv'
  BY <1>6, <1>7, <1>8 DEF Crash, collectors
<1>9. CASE Stop
  BY <1>6, <1>9 DEF Stop
<1>10. ASSUME \/ LoadConfig \/ Connect \/ Start \/ Hangs \/ Returns \/ WMICollect \/ Gather
              \/ Insert \/ InsertFails \/ Wakes \/ DatabaseFaults
              \/ \E o \in Openers : ReadVersion(o) \/ Migrate(o) \/ OpenFails(o)
       PROVE  UNCHANGED <<shown, age, runner, kind, begun, since>>
  BY <1>10 DEF LoadConfig, Connect, Start, Hangs, Returns, WMICollect, Gather, Insert, InsertFails,
               Wakes, DatabaseFaults, ReadVersion, Migrate, OpenFails, collectors
<1>11. CASE UNCHANGED vars
  BY <1>7, <1>11 DEF vars, collectors
<1> QED
  BY <1>1, <1>2, <1>3, <1>4, <1>5, <1>7, <1>8, <1>9, <1>10, <1>11 DEF Next

\* Of a box that is shown a row holds nothing older than the last run that has
\* collected all of them, whatever keys, resizes, hangs and failed reads come
\* between (rw_collector.cpp:133-251).
THEOREM RowsAreCurrent == Spec => []RowsCurrent
<1>1. Init => CurrentInv
  <2> SUFFICES ASSUME Init PROVE CurrentInv
    OBVIOUS
  <2> QED
    BY DEF Init, CurrentInv, Sources, Old
<1>2. CurrentInv => RowsCurrent
  BY DEF CurrentInv, RowsCurrent, Sources
<1> QED
  BY <1>1, <1>2, CurrentStep, PTL DEF Spec
=============================================================================
