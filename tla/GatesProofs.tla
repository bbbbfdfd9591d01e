---------------------------- MODULE GatesProofs ----------------------------
(* Theorems about Gates: they hold for every number of gates, threshold,    *)
(* duration, set of readings and bound, with any number of faults.          *)
EXTENDS Gates, TLAPS

-----------------------------------------------------------------------------
(* Types.                                                                  *)

LEMMA EmptyDatabaseType == EmptyDatabase \in Database
BY DEF EmptyDatabase, Database, DefaultRow, Row, Log, Time, NoTime

LEMMA DefaultRowType == DefaultRow \in Row
BY DEF DefaultRow, Row, Time, NoTime

LEMMA WithRowType ==
  ASSUME NEW db \in Database, NEW g \in Gate, NEW r \in Row
  PROVE  WithRow(db, g, r) \in Database
BY DEF WithRow, Database

LEMMA WithEventType ==
  ASSUME NEW db \in Database, NEW g \in Gate, NEW r \in Row
  PROVE  WithEvent(db, g, r) \in Database
<1>1. db.log[g] \in Log
  BY DEF Database
<1>2. [db.log[g] EXCEPT !.triggered = @ + 1] \in Log
  BY <1>1 DEF Log
<1>3. [db.log[g] EXCEPT !.cleared = @ + 1] \in Log
  BY <1>1 DEF Log
<1> QED
  BY <1>2, <1>3 DEF WithEvent, Database

LEMMA TimedType ==
  ASSUME TypeOK, NEW r \in Row
  PROVE  Timed(r) \in Row
<1>1. now \in Time /\ Mono \in Time
  BY DEF TypeOK, Mono, Time
<1> QED
  BY <1>1 DEF Timed, Row

LEMMA RowStepTypes ==
  ASSUME TypeOK, NEW r \in Row
  PROVE  /\ Streak(r) \in Row
         /\ Fire(r) \in Row
         /\ [r EXCEPT !.streakAt = NoTime] \in Row
         /\ Clear(r) \in Row
<1>1. now \in Time /\ NoTime \in Time /\ r.count + 1 \in Nat
  BY DEF TypeOK, Time, Row
<1>3. Fire(r) \in Row
  BY <1>1 DEF Fire, Row
<1>4. Clear(r) \in Row
  BY <1>1 DEF Clear, Row
<1> QED
  BY <1>1, <1>3, <1>4 DEF Streak, Row

LEMMA DecisionType ==
  ASSUME TypeOK, NEW g \in Gate, NEW r \in Row, NEW v
  PROVE  Decision(g, r, v) \in Row
<1>1. Streak(Timed(r)) \in Row /\ Fire(Streak(Timed(r))) \in Row
  BY TimedType, RowStepTypes
<1>2. [r EXCEPT !.streakAt = NoTime] \in Row
  BY RowStepTypes
<1>3. Clear([r EXCEPT !.streakAt = NoTime]) \in Row
  BY <1>2, RowStepTypes
<1> QED
  BY <1>1, <1>2, <1>3 DEF Decision

\* Types are preserved by every step.
LEMMA TypeStep == TypeOK /\ [Next]_vars => TypeOK'
<1> SUFFICES ASSUME TypeOK, [Next]_vars PROVE TypeOK'
  OBVIOUS
<1> USE GatesAssumption
<1>0. 1 \in Gate
  BY DEF Gate
<1>1. CASE Persist
  BY <1>0, <1>1 DEF TypeOK, Persist
<1>2. CASE PersistFails
  BY <1>2 DEF TypeOK, PersistFails
<1>3. CASE Decide
  <2>1. view.row[cur] \in Row
    BY DEF TypeOK, Database
  <2>2. pend' \in Row
    BY <1>3, <2>1, DecisionType DEF Decide, TypeOK
  <2> QED
    BY <1>3, <2>2 DEF TypeOK, Decide
<1>4. CASE InsertEvent
  <2>1. view' \in Database
    BY <1>4, WithEventType DEF TypeOK, InsertEvent
  <2> QED
    BY <1>4, <2>1 DEF TypeOK, InsertEvent
<1>5. CASE Upsert
  <2>1. view' \in Database
    BY <1>5, WithRowType DEF TypeOK, Upsert
  <2>2. firing' \in SUBSET Gate
    BY <1>5 DEF TypeOK, Upsert
  <2>3. stage' \in {"idle", "decide"} /\ cur' \in Gate /\ active' \in SUBSET Gate
    <3>1. CASE cur = NumGates
      BY <1>0, <1>5, <2>2, <3>1 DEF Upsert
    <3>2. CASE cur # NumGates
      <4>1. cur + 1 \in Gate
        BY <3>2 DEF TypeOK, Gate
      <4> QED
        BY <1>5, <3>2, <4>1 DEF TypeOK, Upsert
    <3> QED
      BY <3>1, <3>2
  <2> QED
    BY <1>5, <2>1, <2>2, <2>3, DefaultRowType DEF TypeOK, Upsert
<1>6. CASE EvaluationFails
  <2>1. view' \in Database
    BY <1>6, WithEventType, WithRowType DEF TypeOK, EvaluationFails
  <2> QED
    BY <1>0, <1>6, <2>1, DefaultRowType DEF TypeOK, EvaluationFails
<1>7. CASE Restart
  BY <1>0, <1>7, DefaultRowType DEF TypeOK, Restart
<1>8. CASE Tick
  BY <1>8 DEF TypeOK, Tick
<1>9. CASE UNCHANGED vars
  BY <1>9 DEF TypeOK, vars
<1> QED
  BY <1>1, <1>2, <1>3, <1>4, <1>5, <1>6, <1>7, <1>8, <1>9 DEF Next

\* The state of the evaluator and of both images of the database has its type.
THEOREM TypeCorrect == Spec => []TypeOK
<1>1. Init => TypeOK
  BY GatesAssumption, EmptyDatabaseType, DefaultRowType
     DEF Init, TypeOK, Gate
<1> QED
  BY <1>1, TypeStep, PTL DEF Spec

-----------------------------------------------------------------------------
(* Durations.  A timed crossing never claims to be older than it is: a      *)
(* reboot moves `boot' forward, so a persisted last_crossed can only look   *)
(* younger, and looks exactly its age if it is later than the boot; a clear *)
(* erases the crossing, so a timed one is later than the clear, and no later*)
(* than the unbroken run of crossings that still goes on.                   *)

Fresh(r) == boot = 0 \/ r.seenAt > boot

RowTimed(r) ==
  /\ r.lastCrossed # NoTime => /\ r.seenAt <= r.lastCrossed + boot
                               /\ Fresh(r) => r.seenAt = r.lastCrossed + boot
                               /\ r.clearedAt <= r.seenAt
                               /\ r.seenAt <= now
  /\ r.streakAt # NoTime => r.lastCrossed # NoTime /\ r.seenAt <= r.streakAt
  /\ r.clearedAt <= now

TableTimed(db) == \A g \in Gate : RowTimed(db.row[g])

TimedInv == TableTimed(view) /\ TableTimed(disk) /\ RowTimed(pend)

LEMMA DefaultRowTimed == TypeOK => RowTimed(DefaultRow)
BY DEF TypeOK, RowTimed, DefaultRow, NoTime

\* What the decision makes of a timed row, and when it fires.
LEMMA DecisionTimed ==
  ASSUME TypeOK, NEW g \in Gate, NEW r \in Row, RowTimed(r), NEW v
  PROVE  /\ RowTimed(Decision(g, r, v))
         /\ (Decision(g, r, v).triggered /\ ~r.triggered) =>
              /\ now >= Decision(g, r, v).seenAt + Duration[g]
              /\ now >= Decision(g, r, v).clearedAt + Duration[g]
         /\ /\ Decision(g, r, v).streakAt # NoTime
            /\ now >= Decision(g, r, v).streakAt + Duration[g]
            /\ Fresh(Decision(g, r, v))
            => Decision(g, r, v).triggered
<1> DEFINE t == Streak(Timed(r))
<1>0. now \in Nat /\ boot \in Nat /\ Mono \in Nat /\ Mono + boot = now
      /\ Duration[g] \in Nat
  BY GatesAssumption DEF TypeOK, Mono
<1>1. CASE Crossed(g, v)
  <2>1. /\ t \in Row /\ t.triggered = r.triggered
        /\ t.clearedAt = r.clearedAt
        /\ t.lastCrossed # NoTime /\ RowTimed(t)
    <3>1. t \in Row
      BY TimedType, RowStepTypes
    <3>2. CASE r.lastCrossed = NoTime
      BY <1>0, <3>1, <3>2 DEF Timed, Streak, RowTimed, Fresh, Row, NoTime
    <3>3. CASE r.lastCrossed # NoTime
      BY <1>0, <3>1, <3>3 DEF Timed, Streak, RowTimed, Fresh, Row, Time, NoTime
    <3> QED
      BY <3>2, <3>3
  <2> HIDE DEF t
  <2>2. CASE Due(g, t)
    <3>1. Decision(g, r, v) = Fire(t)
      BY <1>1, <2>2 DEF Decision, t
    <3>2. /\ Fire(t).lastCrossed = t.lastCrossed /\ Fire(t).seenAt = t.seenAt
          /\ Fire(t).clearedAt = t.clearedAt /\ Fire(t).triggered
          /\ Fire(t).streakAt = t.streakAt
      BY <2>1 DEF Fire, Row
    <3>3. now >= t.seenAt + Duration[g] /\ t.clearedAt <= t.seenAt
      BY <1>0, <2>1, <2>2 DEF Due, RowTimed, Row, Time, NoTime
    <3>4. RowTimed(Fire(t))
      BY <2>1, <3>2 DEF RowTimed, Fresh
    <3> QED
      BY <1>0, <2>1, <3>1, <3>2, <3>3, <3>4 DEF Row, Time, NoTime
  <2>3. CASE ~Due(g, t)
    <3>1. Decision(g, r, v) = t
      BY <1>1, <2>3 DEF Decision, t
    <3>2. t.triggered \/ Mono - t.lastCrossed < Duration[g]
      BY <1>0, <2>1, <2>3 DEF Due, Row, Time, NoTime
    <3>3. t.streakAt # NoTime /\ Fresh(t) => t.lastCrossed + boot <= t.streakAt
      BY <2>1 DEF RowTimed
    <3> QED
      BY <1>0, <2>1, <3>1, <3>2, <3>3 DEF Row, Time, NoTime
  <2> QED
    BY <2>2, <2>3
<1>2. CASE ~Crossed(g, v)
  <2> DEFINE u == [r EXCEPT !.streakAt = NoTime]
  <2>1. /\ RowTimed(u) /\ u \in Row /\ u.triggered = r.triggered
        /\ u.streakAt = NoTime
    BY RowStepTypes DEF RowTimed, Fresh, Row
  <2>2. RowTimed(Clear(u)) /\ ~Clear(u).triggered /\ Clear(u).streakAt = NoTime
    BY <1>0, <2>1 DEF Clear, RowTimed, Fresh, Row
  <2>3. Decision(g, r, v) = u \/ Decision(g, r, v) = Clear(u)
    BY <1>2 DEF Decision
  <2> QED
    BY <2>1, <2>2, <2>3
<1> QED
  BY <1>1, <1>2

LEMMA TimedStep == TypeOK /\ TypeOK' /\ TimedInv /\ [Next]_vars => TimedInv'
<1> SUFFICES ASSUME TypeOK, TypeOK', TimedInv, [Next]_vars PROVE TimedInv'
  OBVIOUS
\* Rows stay timed while the clocks move on.
<1>1. ASSUME NEW r \in Row, RowTimed(r), now' >= now, boot' \in {boot, now}
      PROVE  RowTimed(r)'
  BY <1>1 DEF RowTimed, Fresh, TypeOK, Row, Time, NoTime
<1>2. now' >= now /\ boot' \in {boot, now}
  BY DEF TypeOK, Next, vars, Persist, PersistFails, Decide, InsertEvent,
         Upsert, EvaluationFails, Restart, Tick
<1>3. ASSUME NEW db \in Database, TableTimed(db)
      PROVE  TableTimed(db)'
  BY <1>1, <1>2, <1>3 DEF TableTimed, Database
<1>4. ASSUME NEW r \in Row, RowTimed(r), pend' = r
      PROVE  RowTimed(pend)'
  BY <1>1, <1>2, <1>4 DEF RowTimed, Fresh
<1>5. RowTimed(DefaultRow)
  BY DefaultRowTimed
<1>6. \A db \in Database : TableTimed(WithEvent(db, cur, pend)) = TableTimed(db)
  BY DEF TableTimed, WithEvent, Database, TypeOK
<1>7. TableTimed(WithRow(view, cur, pend))
  BY DEF TimedInv, TableTimed, WithRow, Database, TypeOK
<1>8. /\ WithRow(view, cur, pend) \in Database
      /\ WithEvent(view, cur, pend) \in Database
  BY WithRowType, WithEventType DEF TypeOK
<1>9. ASSUME NEW db \in {view, disk, WithRow(view, cur, pend),
                         WithEvent(view, cur, pend)}
      PROVE  db \in Database /\ TableTimed(db)'
  BY <1>3, <1>6, <1>7, <1>8 DEF TypeOK, TimedInv
<1>10. /\ view' \in {view, disk, WithRow(view, cur, pend),
                     WithEvent(view, cur, pend)}
       /\ disk' \in {disk, view'}
  BY DEF Next, vars, Persist, PersistFails, Decide, InsertEvent, Upsert,
         EvaluationFails, Restart, Tick
<1>11. TableTimed(view)' /\ TableTimed(disk)'
  BY <1>9, <1>10 DEF TableTimed, RowTimed, Fresh
<1>12. pend' \in {pend, DefaultRow}
       \/ \E v : pend' = Decision(cur, view.row[cur], v)
  BY DEF Next, vars, Persist, PersistFails, Decide, InsertEvent, Upsert,
         EvaluationFails, Restart, Tick
<1>13. CASE pend' \in {pend, DefaultRow}
  BY <1>4, <1>5, <1>11, <1>13, DefaultRowType DEF TypeOK, TimedInv
<1>14. CASE \E v : pend' = Decision(cur, view.row[cur], v)
  <2>1. PICK v : pend' = Decision(cur, view.row[cur], v)
    BY <1>14
  <2>2. cur \in Gate /\ view.row[cur] \in Row /\ RowTimed(view.row[cur])
    BY DEF TypeOK, Database, TimedInv, TableTimed
  <2>3. pend' \in Row /\ RowTimed(Decision(cur, view.row[cur], v))
    BY <2>1, <2>2, DecisionTimed DEF TypeOK
  <2> QED
    BY <1>4, <1>11, <2>1, <2>3 DEF TimedInv
<1> QED
  BY <1>12, <1>13, <1>14

LEMMA TimedInvariant == Spec => [](TypeOK /\ TimedInv)
<1>1. Init => TypeOK /\ TimedInv
  <2> SUFFICES ASSUME Init PROVE TypeOK /\ TimedInv
    OBVIOUS
  <2>1. TypeOK
    BY GatesAssumption, EmptyDatabaseType, DefaultRowType
       DEF Init, TypeOK, Gate
  <2>2. \A g \in Gate : EmptyDatabase.row[g] = DefaultRow
    BY DEF EmptyDatabase
  <2> QED
    BY <2>1, <2>2, DefaultRowTimed DEF Init, TimedInv, TableTimed
<1>2. TypeOK /\ TimedInv /\ [Next]_vars => (TypeOK /\ TimedInv)'
  BY TypeStep, TimedStep
<1> QED
  BY <1>1, <1>2, PTL DEF Spec

\* What DecisionTimed says of the step that decides about gate g.
LEMMA EvaluatesTimed ==
  ASSUME TypeOK, TimedInv, [Next]_vars, NEW g \in Gate, Evaluates(g)
  PROVE  /\ Fires(g) => /\ now >= pend'.seenAt + Duration[g]
                        /\ now >= pend'.clearedAt + Duration[g]
         /\ CompletesDuration(g) /\ Fresh(pend') => pend'.triggered
<1>1. stage = "decide" /\ cur = g /\ stage' \in {"event", "upsert"}
  BY DEF Evaluates
<1>2. CASE Decide
  <2>1. PICK v : pend' = Decision(g, view.row[g], v)
    BY <1>1, <1>2 DEF Decide
  <2>2. view.row[g] \in Row /\ RowTimed(view.row[g])
    BY DEF TypeOK, Database, TimedInv, TableTimed
  <2> QED
    BY <2>1, <2>2, DecisionTimed DEF Fires, CompletesDuration
<1>3. CASE ~Decide
  BY <1>1, <1>3 DEF Next, vars, Persist, PersistFails, InsertEvent, Upsert,
                    EvaluationFails, Restart, Tick
<1> QED
  BY <1>2, <1>3

\* No gate fires before its duration has passed in real time, whatever
\* crashes, reboots and failing statements happen (gates.py:150-160).
THEOREM FiringIsNeverEarly == Spec => NeverEarly
<1>1. TypeOK /\ TimedInv /\ [Next]_vars
        => [\A g \in Gate : Fires(g) => now >= pend'.seenAt + Duration[g]]_vars
  BY EvaluatesTimed DEF Fires
<1> QED
  BY <1>1, TimedInvariant, PTL DEF Spec, NeverEarly

\* A cleared gate does not fire again within its duration (gates.py:192-194).
THEOREM ClearedGateWaits == Spec => NoFlap
<1>1. TypeOK /\ TimedInv /\ [Next]_vars
        => [\A g \in Gate : Fires(g) /\ pend'.clearedAt # NoTime
                              => now >= pend'.clearedAt + Duration[g]]_vars
  BY EvaluatesTimed DEF Fires
<1> QED
  BY <1>1, TimedInvariant, PTL DEF Spec, NoFlap

\* A crossing that has lasted its duration fires at once, unless the machine
\* was booted since it was timed (gates.py:150-160).
THEOREM LastingCrossingFires == Spec => Prompt
<1>1. TypeOK /\ TimedInv /\ [Next]_vars
        => [\A g \in Gate :
              CompletesDuration(g) /\ (boot = 0 \/ pend'.seenAt > boot)
                => pend'.triggered]_vars
  BY EvaluatesTimed DEF CompletesDuration, Fresh
<1> QED
  BY <1>1, TimedInvariant, PTL DEF Spec, Prompt

-----------------------------------------------------------------------------
(* The event log.  While gate cur waits for its upsert, the log already     *)
(* accounts for the row that is about to be written.                        *)

AccountedRow(l, r, n) ==
  /\ r.count <= l.triggered /\ l.triggered <= r.count + n
  /\ ClearCount(r) <= l.cleared /\ l.cleared <= ClearCount(r) + n

Accounted(db, n) == \A g \in Gate : AccountedRow(db.log[g], db.row[g], n)

HistoryInv ==
  /\ Accounted(disk, IF stage = "upsert" THEN faults + 1 ELSE faults)
  /\ Accounted(view, IF stage = "upsert" THEN faults + 1 ELSE faults)
  /\ stage # "idle" => disk = view
  /\ stage = "event" =>
       /\ pend.triggered # view.row[cur].triggered
       /\ pend.count = view.row[cur].count + (IF pend.triggered THEN 1 ELSE 0)
  /\ stage = "upsert" =>
       /\ AccountedRow(view.log[cur], pend, faults)
       /\ \A g \in Gate \ {cur} :
            AccountedRow(view.log[g], view.row[g], faults)

LEMMA DecisionCounts ==
  ASSUME TypeOK, NEW g \in Gate, NEW r \in Row, NEW v
  PROVE  Decision(g, r, v).count =
           r.count + (IF Decision(g, r, v).triggered /\ ~r.triggered
                      THEN 1 ELSE 0)
<1> DEFINE t == Streak(Timed(r))
           u == [r EXCEPT !.streakAt = NoTime]
<1>1. t \in Row /\ u \in Row
  BY TimedType, RowStepTypes
<1>2. t.count = r.count /\ t.triggered = r.triggered
  BY DEF Timed, Streak, Row
<1>3. u.count = r.count /\ u.triggered = r.triggered
  BY DEF Row
<1>4. r.count \in Nat
  BY DEF Row
<1>5. CASE Crossed(g, v)
  <2>1. Fire(t).count = r.count + 1 /\ Fire(t).triggered
    BY <1>1, <1>2 DEF Fire, Row
  <2>2. Due(g, t) => ~r.triggered
    BY <1>2 DEF Due
  <2> QED
    BY <1>2, <1>4, <1>5, <2>1, <2>2 DEF Decision
<1>6. CASE ~Crossed(g, v)
  <2>1. Clear(u).count = r.count /\ ~Clear(u).triggered
    BY <1>1, <1>3 DEF Clear, Row
  <2> QED
    BY <1>3, <1>4, <1>6, <2>1 DEF Decision
<1> QED
  BY <1>5, <1>6

LEMMA AccountedWeaken ==
  ASSUME NEW db \in Database, NEW n \in Nat, Accounted(db, n)
  PROVE  Accounted(db, n + 1)
BY DEF Accounted, AccountedRow, Database, Log, Row, ClearCount

LEMMA HistoryStep == TypeOK /\ HistoryInv /\ [Next]_vars => HistoryInv'
<1> SUFFICES ASSUME TypeOK, HistoryInv, [Next]_vars PROVE HistoryInv'
  OBVIOUS
<1>0. /\ faults \in Nat /\ view \in Database /\ disk \in Database
      /\ pend \in Row /\ cur \in Gate
  BY DEF TypeOK
<1>a. view.row[cur] \in Row /\ view.log[cur] \in Log
  BY <1>0 DEF Database
<1>b. ASSUME NEW db \in {view, disk}
      PROVE  Accounted(db, faults + 1)
  BY <1>0, <1>b, AccountedWeaken DEF HistoryInv
<1>1. CASE Persist
  BY <1>1 DEF Persist, HistoryInv
<1>2. CASE PersistFails
  BY <1>2, <1>b DEF PersistFails, HistoryInv
<1>3. CASE Decide
  <2>1. PICK v : pend' = Decision(cur, view.row[cur], v)
    BY <1>3 DEF Decide
  <2>2. /\ Accounted(view, faults) /\ disk = view /\ view' = view
        /\ disk' = disk /\ faults' = faults /\ cur' = cur
        /\ stage' = IF pend'.triggered # view.row[cur].triggered
                    THEN "event" ELSE "upsert"
    BY <1>3 DEF Decide, HistoryInv
  <2>3. /\ pend'.count = view.row[cur].count
             + (IF pend'.triggered /\ ~view.row[cur].triggered THEN 1 ELSE 0)
        /\ pend' \in Row
    BY <1>0, <1>a, <2>1, DecisionCounts, DecisionType
  <2>4. CASE pend'.triggered # view.row[cur].triggered
    BY <2>2, <2>3, <2>4, <1>a DEF HistoryInv, Row
  <2>5. CASE pend'.triggered = view.row[cur].triggered
    <3>1. pend'.count = view.row[cur].count
      BY <2>3, <2>5, <1>a DEF Row
    <3>2. AccountedRow(view.log[cur], pend', faults)
      BY <1>0, <2>2, <2>5, <3>1 DEF Accounted, AccountedRow, ClearCount
    <3> QED
      BY <1>b, <1>0, <2>2, <2>5, <3>2 DEF HistoryInv, Accounted
  <2> QED
    BY <2>4, <2>5
<1>4. CASE InsertEvent
  <2>1. /\ Accounted(view, faults) /\ disk = view
        /\ pend.triggered # view.row[cur].triggered
        /\ pend.count = view.row[cur].count + (IF pend.triggered THEN 1 ELSE 0)
        /\ view' = WithEvent(view, cur, pend) /\ disk' = view'
        /\ stage' = "upsert" /\ cur' = cur /\ pend' = pend /\ faults' = faults
    BY <1>4 DEF InsertEvent, HistoryInv
  <2>2. /\ view'.row = view.row
        /\ \A g \in Gate \ {cur} : view'.log[g] = view.log[g]
        /\ view'.log[cur].triggered =
             view.log[cur].triggered + (IF pend.triggered THEN 1 ELSE 0)
        /\ view'.log[cur].cleared =
             view.log[cur].cleared + (IF pend.triggered THEN 0 ELSE 1)
    BY <1>0, <1>a, <2>1 DEF WithEvent, Database, Log
  <2>3. AccountedRow(view.log[cur], view.row[cur], faults)
    BY <1>0, <2>1 DEF Accounted
  <2>4. /\ AccountedRow(view'.log[cur], pend, faults)
        /\ AccountedRow(view'.log[cur], view.row[cur], faults + 1)
    BY <1>0, <1>a, <2>1, <2>2, <2>3 DEF AccountedRow, ClearCount, Row, Log
  <2>5. \A g \in Gate \ {cur} : AccountedRow(view'.log[g], view'.row[g], faults)
    BY <2>1, <2>2 DEF Accounted
  <2>6. Accounted(view', faults + 1)
    BY <1>b, <2>2, <2>4 DEF Accounted
  <2> QED
    BY <2>1, <2>4, <2>5, <2>6 DEF HistoryInv
<1>5. CASE Upsert
  <2>1. /\ AccountedRow(view.log[cur], pend, faults)
        /\ \A g \in Gate \ {cur} :
             AccountedRow(view.log[g], view.row[g], faults)
        /\ view' = WithRow(view, cur, pend) /\ disk' = view'
        /\ stage' \in {"idle", "decide"} /\ faults' = faults
    BY <1>5 DEF Upsert, HistoryInv
  <2>2. /\ view'.log = view.log
        /\ \A g \in Gate : view'.row[g] = IF g = cur THEN pend ELSE view.row[g]
    BY <1>0, <2>1 DEF WithRow, Database
  <2>3. Accounted(view', faults)
    BY <2>1, <2>2 DEF Accounted
  <2> QED
    BY <2>1, <2>3 DEF HistoryInv
<1>6. CASE EvaluationFails
  <2>1. Accounted(view', faults + 1)
    <3>1. CASE view' \in {view, disk}
      BY <1>b, <3>1
    <3>2. CASE stage = "event" /\ view' = WithEvent(view, cur, pend)
      <4>1. /\ view'.row = view.row
            /\ \A g \in Gate \ {cur} : view'.log[g] = view.log[g]
            /\ view'.log[cur].triggered =
                 view.log[cur].triggered + (IF pend.triggered THEN 1 ELSE 0)
            /\ view'.log[cur].cleared =
                 view.log[cur].cleared + (IF pend.triggered THEN 0 ELSE 1)
        BY <1>0, <1>a, <3>2 DEF WithEvent, Database, Log
      <4>2. AccountedRow(view.log[cur], view.row[cur], faults)
        BY <1>0, <3>2 DEF HistoryInv, Accounted
      <4>3. AccountedRow(view'.log[cur], view.row[cur], faults + 1)
        BY <1>0, <1>a, <4>1, <4>2 DEF AccountedRow, ClearCount, Row, Log
      <4> QED
        BY <1>b, <4>1, <4>3 DEF Accounted
    <3>3. CASE stage = "upsert" /\ view' = WithRow(view, cur, pend)
      <4>1. /\ view'.log = view.log
            /\ \A g \in Gate : view'.row[g] = IF g = cur THEN pend ELSE view.row[g]
        BY <1>0, <3>3 DEF WithRow, Database
      <4>2. AccountedRow(view.log[cur], pend, faults + 1)
        BY <1>0, <1>a, <3>3 DEF HistoryInv, AccountedRow, ClearCount, Row, Log
      <4> QED
        BY <1>b, <4>1, <4>2 DEF Accounted
    <3> QED
      BY <1>6, <3>1, <3>2, <3>3 DEF EvaluationFails
  <2> QED
    BY <1>6, <1>b, <2>1 DEF EvaluationFails, HistoryInv
<1>7. CASE Restart
  BY <1>7, <1>b DEF Restart, HistoryInv
<1>8. CASE Tick
  BY <1>8 DEF Tick, HistoryInv
<1>9. CASE UNCHANGED vars
  BY <1>9 DEF vars, HistoryInv
<1> QED
  BY <1>1, <1>2, <1>3, <1>4, <1>5, <1>6, <1>7, <1>8, <1>9 DEF Next

LEMMA HistoryInvariant == Spec => [](TypeOK /\ HistoryInv)
<1>1. Init => HistoryInv
  <2> SUFFICES ASSUME Init PROVE HistoryInv
    OBVIOUS
  <2>1. Accounted(EmptyDatabase, 0)
    BY DEF Accounted, AccountedRow, ClearCount, EmptyDatabase, DefaultRow
  <2> QED
    BY <2>1 DEF Init, HistoryInv
<1> QED
  BY <1>1, TypeCorrect, HistoryStep, PTL DEF Spec

\* gate_events accounts for every state of gate_state, on the connection and
\* on disk, after any sequence of crashes and failing statements.
THEOREM HistoryIsComplete == Spec => []HistoryCoversState
<1>1. TypeOK /\ HistoryInv => HistoryCoversState
  BY DEF HistoryInv, HistoryCoversState, Covers, Accounted, AccountedRow,
         TypeOK, Database, Row, Log, ClearCount
<1> QED
  BY <1>1, HistoryInvariant, PTL

\* Between evaluations each fault has repeated at most one event of a kind.
THEOREM DriftIsBounded == Spec => []DriftBounded
<1>1. HistoryInv => DriftBounded
  BY DEF HistoryInv, DriftBounded, Drift, Accounted, AccountedRow
<1> QED
  BY <1>1, HistoryInvariant, PTL
-----------------------------------------------------------------------------
(* The report.  While an evaluation is under way the list holds the gates   *)
(* it has been through whose rows are triggered.                            *)

ReportInv ==
  stage # "idle" => firing = {g \in Gate : g < cur /\ view.row[g].triggered}

LEMMA UpsertReports ==
  ASSUME TypeOK, ReportInv, Upsert
  PROVE  firing' = {g \in Gate : g <= cur /\ view'.row[g].triggered}
<1>1. \A g \in Gate : view'.row[g] = IF g = cur THEN pend ELSE view.row[g]
  BY DEF Upsert, WithRow, TypeOK, Database
<1>2. firing = {g \in Gate : g < cur /\ view.row[g].triggered}
  BY DEF Upsert, ReportInv
<1>3. firing' = IF pend.triggered THEN firing \cup {cur} ELSE firing
  BY DEF Upsert
<1>4. cur \in Gate /\ Gate \subseteq Int
  BY DEF TypeOK, Gate
<1>5. \A g \in Gate : g <= cur <=> g < cur \/ g = cur
  BY <1>4
<1>6. \A g \in Gate : g < cur => g # cur
  BY <1>4
<1> QED
  BY <1>1, <1>2, <1>3, <1>4, <1>5, <1>6

LEMMA ReportStep == TypeOK /\ ReportInv /\ [Next]_vars => ReportInv'
<1> SUFFICES ASSUME TypeOK, ReportInv, [Next]_vars PROVE ReportInv'
  OBVIOUS
<1>1. CASE Persist
  BY <1>1 DEF Persist, ReportInv, Gate
<1>2. CASE PersistFails
  BY <1>2 DEF PersistFails, ReportInv
<1>3. CASE Decide
  BY <1>3 DEF Decide, ReportInv
<1>4. CASE InsertEvent
  <2>1. view'.row = view.row
    BY <1>4 DEF InsertEvent, WithEvent, TypeOK, Database
  <2> QED
    BY <1>4, <2>1 DEF InsertEvent, ReportInv
<1>5. CASE Upsert
  <2>1. firing' = {g \in Gate : g <= cur /\ view'.row[g].triggered}
    BY <1>5, UpsertReports
  <2>2. stage' # "idle" => cur' = cur + 1
    BY <1>5 DEF Upsert
  <2>3. \A g \in Gate : g <= cur <=> g < cur + 1
    BY DEF TypeOK, Gate
  <2> QED
    BY <2>1, <2>2, <2>3 DEF ReportInv
<1>6. CASE EvaluationFails
  BY <1>6 DEF EvaluationFails, ReportInv
<1>7. CASE Restart
  BY <1>7 DEF Restart, ReportInv
<1>8. CASE Tick
  BY <1>8 DEF Tick, ReportInv
<1>9. CASE UNCHANGED vars
  BY <1>9 DEF vars, ReportInv
<1> QED
  BY <1>1, <1>2, <1>3, <1>4, <1>5, <1>6, <1>7, <1>8, <1>9 DEF Next

\* What the status pill reports after an evaluation is what the table says,
\* however many gates there are and whatever failed before.
THEOREM ReportIsTable == Spec => ReportMatchesTable
<1>1. Init => ReportInv
  BY DEF Init, ReportInv
<1>2. TypeOK /\ ReportInv /\ [Next]_vars
        => [stage = "upsert" /\ stage' = "idle" /\ faults' = faults
              => active' = {g \in Gate : view'.row[g].triggered}]_vars
  <2> SUFFICES ASSUME TypeOK, ReportInv, [Next]_vars,
                      stage = "upsert", stage' = "idle", faults' = faults
               PROVE  active' = {g \in Gate : view'.row[g].triggered}
    OBVIOUS
  <2>1. Upsert
    BY DEF Next, vars, Persist, PersistFails, Decide, InsertEvent,
           EvaluationFails, Restart, Tick, TypeOK
  <2>2. firing' = {g \in Gate : g <= cur /\ view'.row[g].triggered}
    BY <2>1, UpsertReports
  <2>3. cur = NumGates /\ active' = firing'
    BY <2>1 DEF Upsert
  <2>4. \A g \in Gate : g <= NumGates
    BY GatesAssumption DEF Gate
  <2> QED
    BY <2>2, <2>3, <2>4
<1> QED
  BY <1>1, <1>2, TypeCorrect, ReportStep, PTL DEF Spec, ReportMatchesTable
=============================================================================
