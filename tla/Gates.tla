------------------------------- MODULE Gates -------------------------------
(***************************************************************************)
(* The alert gates of the Python service: raidwatch/gates.py on top of the *)
(* gate_state and gate_events tables of raidwatch/database.py, driven by   *)
(* the gate part of Collector._cycle in raidwatch/collector.py.            *)
(*                                                                         *)
(* One evaluation walks the enabled gates in configuration order.  For     *)
(* each gate it reads the persisted row, decides, inserts an event if the  *)
(* gate changes state, and upserts the row.  Every write is an execute     *)
(* followed by a commit; either may fail, and the process may die at any   *)
(* await.  `view' is what the shared connection reads (committed rows plus *)
(* its open transaction), `disk' is what a restart finds.                  *)
(*                                                                         *)
(* Time is real time in whole ticks.  time.monotonic() is the time since   *)
(* the machine booted, so it restarts from 0 at a reboot although the      *)
(* value persisted in last_crossed_monotonic does not.                     *)
(***************************************************************************)
EXTENDS Integers

CONSTANTS
  NumGates,    \* how many gates are enabled
  Operator,    \* Operator[g]: the comparison of gate g, a string
  Threshold,   \* Threshold[g], in the metric's unit
  Duration,    \* Duration[g]: duration_seconds, in ticks
  Values,      \* the readings a metric may have
  NoValue,     \* the metric is missing from the snapshot (None)
  MaxTime,     \* bound: the clock stops here
  MaxFaults,   \* bound: crashes, reboots and failing statements
  Reboots      \* may a crash take the machine down with it?

Gate == 1..NumGates
NoTime == -1   \* a NULL timestamp column

ASSUME GatesAssumption ==
  /\ NumGates \in Nat \ {0}
  /\ Threshold \in [Gate -> Int]
  /\ Duration \in [Gate -> Nat]
  /\ Values \subseteq Int
  /\ NoValue \notin Int
  /\ MaxTime \in Nat
  /\ MaxFaults \in Nat
  /\ Reboots \in BOOLEAN

VARIABLES
  now,      \* real time
  boot,     \* real time of the last boot, the zero of time.monotonic()
  disk,     \* committed database
  view,     \* the database as the connection sees it
  stage,    \* where the gate part of the cycle is
  cur,      \* the gate being evaluated
  pend,     \* the row decided for it, not yet upserted
  firing,   \* the local list `triggered' of evaluate()
  active,   \* collector.triggered_gates
  faults    \* faults so far (bound, and the yardstick of DriftBounded)

vars == <<now, boot, disk, view, stage, cur, pend, firing, active, faults>>

Mono == now - boot

-----------------------------------------------------------------------------
(* Tables.  A row carries three columns of gate_state (last_triggered_ts,   *)
(* which nothing reads back, is left out), then the history the properties  *)
(* speak of: seenAt, the real time at which last_crossed was recorded;      *)
(* streakAt, the real time of the first of the latest unbroken run of       *)
(* crossing evaluations; clearedAt, the real time of the last clear.        *)
(* gate_events is kept as the number of events of each kind.                *)

Time == Nat \cup {NoTime}

Row == [lastCrossed : Time, triggered : BOOLEAN, count : Nat,
        seenAt : Time, streakAt : Time, clearedAt : Time]

DefaultRow == [lastCrossed |-> NoTime, triggered |-> FALSE, count |-> 0,
               seenAt |-> NoTime, streakAt |-> NoTime, clearedAt |-> NoTime]

Log == [triggered : Nat, cleared : Nat]
Database == [row : [Gate -> Row], log : [Gate -> Log]]

EmptyDatabase == [row |-> [g \in Gate |-> DefaultRow],
                  log |-> [g \in Gate |-> [triggered |-> 0, cleared |-> 0]]]

WithRow(db, g, r) == [db EXCEPT !.row[g] = r]
WithEvent(db, g, r) ==
  IF r.triggered THEN [db EXCEPT !.log[g].triggered = @ + 1]
                 ELSE [db EXCEPT !.log[g].cleared = @ + 1]

-----------------------------------------------------------------------------
(* The decision for one gate.                                              *)

CheckOperator(v, op, t) ==
  \/ op = ">"  /\ v > t
  \/ op = "<"  /\ v < t
  \/ op = ">=" /\ v >= t
  \/ op = "<=" /\ v <= t
  \/ op = "==" /\ v = t
  \/ op = "!=" /\ v # t

Crossed(g, v) == v # NoValue /\ CheckOperator(v, Operator[g], Threshold[g])

\* The metric is beyond the hysteresis zone: below 0.9 of the threshold for
\* an upper bound, above threshold / 0.9 for a lower one.  An equality gate
\* has no such zone.
BeyondHysteresis(g, v) ==
  /\ v # NoValue
  /\ \/ Operator[g] \in {">", ">="} /\ 10 * v < 9 * Threshold[g]
     \/ Operator[g] \in {"<", "<="} /\ 9 * v > 10 * Threshold[g]

Clears(g, r, v) == r.triggered /\ (v = NoValue \/ BeyondHysteresis(g, v))

\* The first crossing records the monotonic clock.
Timed(r) ==
  IF r.lastCrossed = NoTime
  THEN [r EXCEPT !.lastCrossed = Mono, !.seenAt = now]
  ELSE r

Streak(r) == IF r.streakAt = NoTime THEN [r EXCEPT !.streakAt = now] ELSE r

\* Mistakes the properties must catch are defined before the definition they
\* stand for, with the same name and a suffix.  This one rounds up.
Due_RoundedUp(g, r) == Mono - r.lastCrossed + 1 >= Duration[g] /\ ~r.triggered

\* Fires one tick late.
Due_Strict(g, r) == Mono - r.lastCrossed > Duration[g] /\ ~r.triggered

\* A gate fires once the timed crossing is old enough on the monotonic clock.
Due(g, r) == Mono - r.lastCrossed >= Duration[g] /\ ~r.triggered

\* The count is not advanced.
Fire_NotCounted(r) == [r EXCEPT !.triggered = TRUE]

Fire(r) == [r EXCEPT !.triggered = TRUE, !.count = @ + 1]

\* last_crossed survives the clear.
Clear_KeepsCrossing(r) == [r EXCEPT !.triggered = FALSE, !.clearedAt = now]

Clear(r) == [r EXCEPT !.triggered = FALSE, !.lastCrossed = NoTime,
                      !.seenAt = NoTime, !.clearedAt = now]

\* The row after gate g in row r has seen the reading v.
Decision(g, r, v) ==
  IF Crossed(g, v)
  THEN LET t == Streak(Timed(r)) IN IF Due(g, t) THEN Fire(t) ELSE t
  ELSE LET t == [r EXCEPT !.streakAt = NoTime]
       IN IF Clears(g, r, v) THEN Clear(t) ELSE t

-----------------------------------------------------------------------------
Init ==
  /\ now = 0 /\ boot = 0
  /\ disk = EmptyDatabase /\ view = EmptyDatabase
  /\ stage = "idle" /\ cur = 1 /\ pend = DefaultRow
  /\ firing = {} /\ active = {}
  /\ faults = 0

\* The metrics row of the cycle is written first.  Its commit also commits
\* whatever an earlier failing commit left in the open transaction.
Persist ==
  /\ stage = "idle"
  /\ disk' = view
  /\ stage' = "decide" /\ cur' = 1 /\ firing' = {}
  /\ UNCHANGED <<now, boot, view, pend, active, faults>>

\* The metrics row is not written: the cycle ends here and the gates, their
\* reported set included, keep the values of the last cycle.  SQLite may roll
\* the open transaction back.
PersistFails ==
  /\ stage = "idle" /\ faults < MaxFaults
  /\ faults' = faults + 1
  /\ view' \in {view, disk}
  /\ UNCHANGED <<now, boot, disk, stage, cur, pend, firing, active>>

\* get_gate_state and the decision.  No other task writes the row meanwhile.
Decide ==
  /\ stage = "decide"
  /\ \E v \in Values \cup {NoValue} :
       pend' = Decision(cur, view.row[cur], v)
  /\ stage' = IF pend'.triggered # view.row[cur].triggered
              THEN "event" ELSE "upsert"
  /\ UNCHANGED <<now, boot, disk, view, cur, firing, active, faults>>

\* The row is written where the event should be.
InsertEvent_RowFirst ==
  /\ stage = "event"
  /\ view' = WithRow(view, cur, pend)
  /\ disk' = view'
  /\ stage' = "upsert"
  /\ UNCHANGED <<now, boot, cur, pend, firing, active, faults>>

InsertEvent ==
  /\ stage = "event"
  /\ view' = WithEvent(view, cur, pend)
  /\ disk' = view'
  /\ stage' = "upsert"
  /\ UNCHANGED <<now, boot, cur, pend, firing, active, faults>>

\* The loop runs past the last gate.
Upsert_PastEnd ==
  /\ stage = "upsert"
  /\ view' = WithRow(view, cur, pend)
  /\ disk' = view'
  /\ firing' = IF pend.triggered THEN firing \cup {cur} ELSE firing
  /\ cur' = cur + 1 /\ stage' = "decide" /\ pend' = DefaultRow
  /\ UNCHANGED <<now, boot, active, faults>>

\* The list is reported before the last gate is appended.
Upsert_ReportsEarly ==
  /\ stage = "upsert"
  /\ view' = WithRow(view, cur, pend)
  /\ disk' = view'
  /\ firing' = IF pend.triggered THEN firing \cup {cur} ELSE firing
  /\ IF cur = NumGates
     THEN active' = firing /\ stage' = "idle" /\ cur' = 1
     ELSE cur' = cur + 1 /\ stage' = "decide" /\ UNCHANGED active
  /\ pend' = DefaultRow
  /\ UNCHANGED <<now, boot, faults>>

\* The upsert, the append to the list of triggered gates, and after the last
\* gate the assignment of that list to collector.triggered_gates.
Upsert ==
  /\ stage = "upsert"
  /\ view' = WithRow(view, cur, pend)
  /\ disk' = view'
  /\ firing' = IF pend.triggered THEN firing \cup {cur} ELSE firing
  /\ IF cur = NumGates
     THEN /\ active' = firing'
          /\ stage' = "idle" /\ cur' = 1
     ELSE /\ cur' = cur + 1
          /\ stage' = "decide"
          /\ UNCHANGED active
  /\ pend' = DefaultRow
  /\ UNCHANGED <<now, boot, faults>>

\* A statement of the evaluation raises: the collector catches it, reports no
\* triggered gate, and the gates that were still to come are not evaluated.
\* Either nothing was executed, or the commit failed and SQLite rolled back,
\* or the commit failed and the statement stays in the open transaction.
EvaluationFails ==
  /\ stage # "idle" /\ faults < MaxFaults
  /\ faults' = faults + 1
  /\ \/ view' \in {view, disk}
     \/ stage = "event" /\ view' = WithEvent(view, cur, pend)
     \/ stage = "upsert" /\ view' = WithRow(view, cur, pend)
  /\ active' = {}
  /\ stage' = "idle" /\ cur' = 1 /\ pend' = DefaultRow /\ firing' = {}
  /\ UNCHANGED <<now, boot, disk>>

\* The process dies, possibly with the machine, and comes back: the open
\* transaction is lost and a new Collector and GateEvaluator read the disk.
Restart ==
  /\ faults < MaxFaults
  /\ faults' = faults + 1
  /\ view' = disk
  /\ active' = {}
  /\ stage' = "idle" /\ cur' = 1 /\ pend' = DefaultRow /\ firing' = {}
  /\ boot' \in IF Reboots THEN {boot, now} ELSE {boot}
  /\ UNCHANGED <<now, disk>>

Tick ==
  /\ now < MaxTime
  /\ now' = now + 1
  /\ UNCHANGED <<boot, disk, view, stage, cur, pend, firing, active, faults>>

Next == \/ Persist \/ PersistFails \/ Decide \/ InsertEvent \/ Upsert
        \/ EvaluationFails \/ Restart \/ Tick

Spec == Init /\ [][Next]_vars

-----------------------------------------------------------------------------
(* What the gates promise.                                                 *)

TypeOK ==
  /\ now \in Nat /\ boot \in 0..now
  /\ disk \in Database /\ view \in Database
  /\ stage \in {"idle", "decide", "event", "upsert"}
  /\ cur \in Gate /\ pend \in Row
  /\ firing \in SUBSET Gate /\ active \in SUBSET Gate
  /\ faults \in Nat

\* How many clears the row of a gate has been through.
ClearCount(r) == r.count - (IF r.triggered THEN 1 ELSE 0)

Covers(db) == \A g \in Gate :
  /\ db.log[g].triggered >= db.row[g].count
  /\ db.log[g].cleared >= ClearCount(db.row[g])

\* The event of a transition is committed before the row that shows it, so
\* neither the connection nor a restart ever sees a state that gate_events
\* does not account for, whatever failed or died in between.
HistoryCoversState == Covers(view) /\ Covers(disk)

Drift(db, n) == \A g \in Gate :
  /\ db.log[g].triggered <= db.row[g].count + n
  /\ db.log[g].cleared <= ClearCount(db.row[g]) + n

\* Between evaluations gate_events holds at most one event per gate and kind
\* beyond the transitions of the row for each fault there has been: a fault
\* may repeat an event, and nothing else does.
DriftBounded == stage = "idle" => Drift(view, faults) /\ Drift(disk, faults)

\* This step decides about gate g; it decides to fire it.
Evaluates(g) == stage = "decide" /\ cur = g /\ stage' \in {"event", "upsert"}
Fires(g) == Evaluates(g) /\ pend'.triggered /\ ~view.row[g].triggered

\* A gate never fires before duration_seconds of real time have passed since
\* the crossing it timed, across crashes and reboots alike.
NeverEarly == [][\A g \in Gate : Fires(g) =>
                   now >= pend'.seenAt + Duration[g]]_vars

\* A gate that cleared does not fire again before a crossing later than the
\* clear has lasted duration_seconds (the hysteresis cannot be defeated by a
\* stale last_crossed).
NoFlap == [][\A g \in Gate :
               Fires(g) /\ pend'.clearedAt # NoTime
                 => now >= pend'.clearedAt + Duration[g]]_vars

\* When an evaluation completes, the gates the status pill and the console
\* report are those /api/gates shows as triggered from the table.
ReportMatchesTable ==
  [][stage = "upsert" /\ stage' = "idle" /\ faults' = faults
       => active' = {g \in Gate : view'.row[g].triggered}]_vars

\* The decision about g ends a run of evaluations that all found its metric
\* across the threshold and that has lasted duration_seconds.
CompletesDuration(g) ==
  Evaluates(g) /\ pend'.streakAt # NoTime /\ now >= pend'.streakAt + Duration[g]

\* A gate whose metric was across the threshold at every evaluation for
\* duration_seconds is triggered by the evaluation that completes them, if the
\* crossing it timed is later than the last boot of the machine; crashes of
\* the service do not delay it.
Prompt ==
  [][\A g \in Gate :
       CompletesDuration(g) /\ (boot = 0 \/ pend'.seenAt > boot)
         => pend'.triggered]_vars

\* "it survives restarts": the same, whenever the machine was booted.
PromptAcrossReboots ==
  [][\A g \in Gate : CompletesDuration(g) => pend'.triggered]_vars

\* "metric sustained for a duration": a gate fires only when every evaluation
\* of the last duration_seconds found its metric across the threshold.
SustainedTrigger == [][\A g \in Gate : Fires(g) =>
                        now >= pend'.streakAt + Duration[g]]_vars
=============================================================================
