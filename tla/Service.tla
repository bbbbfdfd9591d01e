------------------------------ MODULE Service ------------------------------
(***************************************************************************)
(* The life of the Python service: the lifespan of raidwatch/main.py, the  *)
(* Collector task of raidwatch/collector.py, the Supervisor task of        *)
(* raidwatch/supervisor.py that restarts it, the /health verdict of        *)
(* raidwatch/health.py, and outside the process NSSM, which restarts a     *)
(* service whose process has exited, and the scheduled task of             *)
(* scripts/install_service.ps1, which restarts one that does not answer    *)
(* /health.                                                                *)
(*                                                                         *)
(* The tasks share one event loop, so a step runs from one await to the    *)
(* next.  Faults are chosen from a set, to ask which of them the layers    *)
(* heal:                                                                   *)
(*   "cancel"  the collector task is cancelled                             *)
(*   "raise"   it ends with an exception that is not an Exception          *)
(*   "hang"    a module never returns from its worker thread               *)
(*   "freeze"  native code holds the GIL and the whole process stands still*)
(*   "die"     the process exits                                           *)
(***************************************************************************)
EXTENDS Naturals

CONSTANTS
  Faults,                  \* the faults that may happen
  STALE_THRESHOLD_CYCLES,  \* missed cycles before the data is stale
  MaxFaults                \* bound: faults and stop requests of one behaviour

ASSUME ServiceAssumption ==
  /\ Faults \subseteq {"cancel", "raise", "hang", "freeze", "die"}
  /\ STALE_THRESHOLD_CYCLES \in Nat
  /\ MaxFaults \in Nat

VARIABLES
  proc,       \* the process: "up", "frozen" or "down"
  main,       \* the lifespan, down to the await it is suspended at
  coll,       \* collector._task
  stopEvent,  \* collector._stop_event
  sup,        \* supervisor._task, at the await it is suspended at
  supCancel,  \* supervisor._task.cancel() was called
  stopReq,    \* supervisor._stop_requested
  dbOpen,     \* the shared connection
  age,        \* intervals since last_tick_ts, AgeCap and beyond as one
  failures,   \* collector.consecutive_failures, likewise capped
  struck,     \* history: the faults there have been
  faults      \* faults and stop requests so far (bound)

vars == <<proc, main, coll, stopEvent, sup, supCancel, stopReq, dbOpen, age,
          failures, struck, faults>>
lifecycle == <<proc, main, stopReq, dbOpen, struck, faults>>

AgeCap == STALE_THRESHOLD_CYCLES + 2
Never == AgeCap + 1                      \* last_tick_ts is None
FailureCap == STALE_THRESHOLD_CYCLES + 1
Min2(a, b) == IF a < b THEN a ELSE b

Ended == {"returned", "cancelled", "raised"}
Working == {"sleeping", "cycling", "hung"}
Idle(c) == c \in Ended \cup {"none"}     \* _task is None or done()

-----------------------------------------------------------------------------
\* Startup of the lifespan up to its yield.
Fresh(p, m, c, e, s, sc, sr, d, a, f) ==
  /\ p = "up" /\ m = "serving" /\ c = "sleeping" /\ e = FALSE
  /\ s = "created" /\ sc = FALSE /\ sr = FALSE /\ d = TRUE
  /\ a = Never /\ f = 0

Init ==
  /\ Fresh(proc, main, coll, stopEvent, sup, supCancel, stopReq, dbOpen, age,
           failures)
  /\ struck = {} /\ faults = 0

-----------------------------------------------------------------------------
(* The collector task.  "sleeping" is the wait for stop_event between       *)
(* cycles, the test of the loop included.                                   *)

CollectorStep(from, to) == proc = "up" /\ coll = from /\ coll' = to

StartCycle ==
  /\ ~stopEvent /\ CollectorStep("sleeping", "cycling")
  /\ UNCHANGED <<lifecycle, stopEvent, sup, supCancel, age, failures>>

\* A cycle that gets past the gathering stamps last_tick_ts; it then succeeds
\* or fails at the write of the metrics row.
EndCycle ==
  /\ CollectorStep("cycling", "sleeping")
  /\ age' = 0
  /\ failures' \in {0, Min2(failures + 1, FailureCap)}
  /\ UNCHANGED <<lifecycle, stopEvent, sup, supCancel>>

\* The gathering raises: the loop goes on, with no new tick.
FailCycle ==
  /\ CollectorStep("cycling", "sleeping")
  /\ failures' = Min2(failures + 1, FailureCap)
  /\ UNCHANGED <<lifecycle, stopEvent, sup, supCancel, age>>

LeaveLoop ==
  /\ stopEvent /\ CollectorStep("sleeping", "returned")
  /\ UNCHANGED <<lifecycle, stopEvent, sup, supCancel, age, failures>>

-----------------------------------------------------------------------------
(* The supervisor task.                                                    *)

\* The loop does not look at the stop request.
SupervisorLoop_IgnoresStop ==
  sup' = IF Idle(coll) THEN "delay" ELSE "watching"

\* The head of the loop of _run, up to the next await.
SupervisorLoop ==
  sup' = CASE stopReq -> "ended"
           [] ~stopReq /\ Idle(coll) -> "delay"
           [] OTHER -> "watching"

SupervisorRuns ==
  /\ proc = "up" /\ ~supCancel
  /\ \/ sup \in {"created", "settling"}
     \/ sup = "watching" /\ (coll = "returned" \/ stopReq)
  /\ SupervisorLoop
  /\ UNCHANGED <<lifecycle, coll, stopEvent, supCancel, age, failures>>

\* A cancelled collector looks like a cancelled supervisor to the wait, and
\* any other exception of the collector leaves _run.
SupervisorGivesUp ==
  /\ proc = "up" /\ ~supCancel
  /\ sup = "watching" /\ coll \in {"cancelled", "raised"}
  /\ sup' = "ended"
  /\ UNCHANGED <<lifecycle, coll, stopEvent, supCancel, age, failures>>

\* After the delay: collector.start().
SupervisorRestarts ==
  /\ proc = "up" /\ ~supCancel
  /\ sup = "delay"
  /\ sup' = "settling"
  /\ IF Idle(coll) THEN coll' = "sleeping" /\ stopEvent' = FALSE
                   ELSE UNCHANGED <<coll, stopEvent>>
  /\ UNCHANGED <<lifecycle, supCancel, age, failures>>

SupervisorCancelled ==
  /\ proc = "up" /\ supCancel /\ sup # "ended"
  /\ sup' = "ended"
  /\ UNCHANGED <<lifecycle, coll, stopEvent, supCancel, age, failures>>

-----------------------------------------------------------------------------
(* The shutdown half of the lifespan: supervisor.stop(), which awaits       *)
(* collector.stop() and then the cancelled supervisor; broker and database. *)

\* The supervisor is not cancelled.
Awaited_NoCancel(c) ==
  IF c \in {"returned", "none"}
  THEN coll' = "none" /\ main' = "reaping" /\ UNCHANGED supCancel
  ELSE main' = "failed" /\ UNCHANGED <<coll, supCancel>>

\* `await self._task' of Collector.stop, given how the task ended.
Awaited(c) ==
  IF c \in {"returned", "none"}
  THEN coll' = "none" /\ supCancel' = TRUE /\ main' = "reaping"
  ELSE main' = "failed" /\ UNCHANGED <<coll, supCancel>>

StopRequest ==
  /\ proc = "up" /\ main = "serving" /\ faults < MaxFaults
  /\ faults' = faults + 1
  /\ stopReq' = TRUE /\ stopEvent' = TRUE
  /\ IF Idle(coll) THEN Awaited(coll)
     ELSE main' = "joining" /\ UNCHANGED <<coll, supCancel>>
  /\ UNCHANGED <<proc, sup, dbOpen, age, failures, struck>>

CollectorJoined ==
  /\ proc = "up" /\ main = "joining" /\ Idle(coll)
  /\ Awaited(coll)
  /\ UNCHANGED <<proc, stopReq, dbOpen, struck, faults, stopEvent, sup, age,
                 failures>>

\* The database is closed while the supervisor may still run.
CloseDown_NoReap ==
  /\ proc = "up" /\ main = "reaping"
  /\ main' = "closed" /\ dbOpen' = FALSE
  /\ UNCHANGED <<proc, stopReq, struck, faults, coll, stopEvent, sup, supCancel,
                 age, failures>>

CloseDown ==
  /\ proc = "up" /\ main = "reaping" /\ sup = "ended"
  /\ main' = "closed" /\ dbOpen' = FALSE
  /\ UNCHANGED <<proc, stopReq, struck, faults, coll, stopEvent, sup, supCancel,
                 age, failures>>

Exit ==
  /\ proc = "up" /\ main \in {"closed", "failed"}
  /\ proc' = "down"
  /\ UNCHANGED <<main, stopReq, dbOpen, struck, faults, coll, stopEvent, sup,
                 supCancel, age, failures>>

-----------------------------------------------------------------------------
(* /health.                                                                *)

\* A limit no age exceeds.
compute_status_LateLimit ==
  IF age # Never /\ age > STALE_THRESHOLD_CYCLES + 2 THEN "critical"
  ELSE IF failures > STALE_THRESHOLD_CYCLES THEN "degraded" ELSE "operational"

compute_status ==
  CASE age = Never -> "critical"
    [] age # Never /\ age > STALE_THRESHOLD_CYCLES + 1 -> "critical"
    [] OTHER -> IF failures > STALE_THRESHOLD_CYCLES THEN "degraded"
                ELSE "operational"

\* The endpoint answers 200 whatever the status it computes.
HealthAnswers200 == proc = "up" /\ main = "serving"

\* An interval of wall-clock time passes.
Clock ==
  /\ proc # "down"
  /\ age' = IF age < AgeCap THEN age + 1 ELSE age
  /\ UNCHANGED <<lifecycle, coll, stopEvent, sup, supCancel, failures>>

-----------------------------------------------------------------------------
(* Faults, and the two layers outside the process.                          *)

Fault(kind) == kind \in Faults /\ proc = "up" /\ faults < MaxFaults
               /\ faults' = faults + 1 /\ struck' = struck \cup {kind}

CollectorFault ==
  /\ \/ Fault("cancel") /\ coll \in Working /\ coll' = "cancelled"
     \/ Fault("raise") /\ coll = "cycling" /\ coll' = "raised"
     \/ Fault("hang") /\ coll = "cycling" /\ coll' = "hung"
  /\ UNCHANGED <<proc, main, stopReq, dbOpen, stopEvent, sup, supCancel, age,
                 failures>>

ProcessFault ==
  /\ \/ Fault("freeze") /\ coll = "cycling" /\ proc' = "frozen"
     \/ Fault("die") /\ proc' = "down"
  /\ UNCHANGED <<main, stopReq, dbOpen, coll, stopEvent, sup, supCancel, age,
                 failures>>

StartProcess ==
  /\ Fresh(proc', main', coll', stopEvent', sup', supCancel', stopReq',
           dbOpen', age', failures')
  /\ UNCHANGED <<struck, faults>>

\* NSSM restarts a process that exits; an operator starts a stopped service.
ServiceRestart == proc = "down" /\ StartProcess

\* The watchdog restarts only what has exited already.
Watchdog_OnlyExited == proc = "down" /\ StartProcess

\* The scheduled task asks /health and restarts the service on no answer or a
\* status code other than 200.
Watchdog == ~HealthAnswers200 /\ StartProcess

-----------------------------------------------------------------------------
CollectorNext == StartCycle \/ EndCycle \/ FailCycle \/ LeaveLoop
SupervisorNext == SupervisorRuns \/ SupervisorGivesUp \/ SupervisorRestarts
                  \/ SupervisorCancelled
MainNext == CollectorJoined \/ CloseDown \/ Exit

Next == \/ CollectorNext \/ SupervisorNext \/ MainNext \/ StopRequest
        \/ Clock \/ CollectorFault \/ ProcessFault
        \/ ServiceRestart \/ Watchdog

\* The event loop runs every ready task, time passes, NSSM and the scheduler
\* do their work.  Nothing makes a fault or a stop request happen, or a hung
\* worker thread return.
Fairness == /\ WF_vars(CollectorNext) /\ WF_vars(SupervisorNext)
            /\ WF_vars(MainNext) /\ WF_vars(Clock)
            /\ WF_vars(ServiceRestart) /\ WF_vars(Watchdog)

Spec == Init /\ [][Next]_vars /\ Fairness

-----------------------------------------------------------------------------
Collecting == proc = "up" /\ coll \in {"sleeping", "cycling"}

TypeOK ==
  /\ proc \in {"up", "frozen", "down"}
  /\ main \in {"serving", "joining", "reaping", "closed", "failed"}
  /\ coll \in Working \cup Ended \cup {"none"}
  /\ coll = "none" => stopReq /\ supCancel   \* only a shutdown drops the task
  /\ sup \in {"created", "watching", "delay", "settling", "ended"}
  /\ {stopEvent, supCancel, stopReq, dbOpen} \subseteq BOOLEAN
  /\ age \in 0..Never /\ failures \in 0..FailureCap
  /\ struck \subseteq Faults /\ faults \in 0..MaxFaults

\* The shared connection is closed only once neither the collector nor the
\* supervisor can run again: no task meets a closed database.
NoUseAfterClose == proc = "up" /\ ~dbOpen => coll = "none" /\ sup = "ended"

\* Once a stop is requested the supervisor starts no collector, unless the
\* shutdown itself has already failed.
StopWins ==
  [][stopReq /\ stopReq' /\ Idle(coll) /\ coll' \in Working
       => main = "failed"]_vars

\* When collection has stopped for good in a process that answers, /health
\* says so for good, whichever layer failed to heal it.
StaleSurfaces ==
  <>[](~Collecting /\ HealthAnswers200) => <>[](compute_status = "critical")

\* A process that froze or died, however often and at whatever moment, comes
\* back to collecting, and a stopped one too.
SelfHeals == [](struck \subseteq {"freeze", "die"}) => <>[]Collecting

\* "the irreducible native-hang backstop": the same whatever the fault.
AlwaysHeals == <>[]Collecting
=============================================================================
