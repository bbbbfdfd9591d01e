---------------------------- MODULE ServiceProofs ---------------------------
(* Theorems about Service: they hold for every set of faults, staleness      *)
(* threshold and bound.                                                     *)
EXTENDS Service, TLAPS

-----------------------------------------------------------------------------
(* Types.                                                                  *)

\* A process that has just started has the types it should have, and meets the
\* invariants below.
LEMMA FreshState ==
  ASSUME NEW p, NEW m, NEW c, NEW e, NEW s, NEW sc, NEW sr, NEW d, NEW a, NEW f,
         Fresh(p, m, c, e, s, sc, sr, d, a, f)
  PROVE  /\ p = "up" /\ m = "serving" /\ c = "sleeping" /\ s = "created"
         /\ {e, sc, sr, d} \subseteq BOOLEAN /\ ~sr /\ d
         /\ a \in 0 .. Never /\ f \in 0 .. FailureCap
<1>1. Never \in 0 .. Never /\ 0 \in 0 .. FailureCap
  BY ServiceAssumption DEF Never, AgeCap, FailureCap
<1> QED
  BY <1>1, Zenon DEF Fresh

\* A fault is one of the set and is counted.
LEMMA FaultTypes ==
  ASSUME TypeOK, NEW kind, Fault(kind)
  PROVE  faults' \in 0 .. MaxFaults /\ struck' \subseteq Faults
<1>1. faults' \in 0 .. MaxFaults
  BY ServiceAssumption DEF Fault, TypeOK
<1>2. struck' \subseteq Faults
  BY Zenon DEF Fault, TypeOK
<1> QED
  BY <1>1, <1>2

\* The types hold because no shutdown begins without a stop request.
TypeInv == TypeOK /\ (main # "serving" => stopReq)

LEMMA TypeStep == TypeInv /\ [Next]_vars => TypeInv'
<1> SUFFICES ASSUME TypeInv, [Next]_vars PROVE TypeInv'
  OBVIOUS
<1> USE ServiceAssumption
<1> USE DEF TypeInv, TypeOK, lifecycle, Working, Ended, Idle, Never, AgeCap, FailureCap, CollectorStep
<1>1. CASE StartCycle
  BY <1>1 DEF StartCycle
<1>2. CASE EndCycle
  BY <1>2 DEF EndCycle, Min2
<1>3. CASE FailCycle
  BY <1>3 DEF FailCycle, Min2
<1>4. CASE LeaveLoop
  BY <1>4 DEF LeaveLoop
<1>5. CASE SupervisorRuns
  BY <1>5 DEF SupervisorRuns, SupervisorLoop
<1>6. CASE SupervisorGivesUp
  BY <1>6 DEF SupervisorGivesUp
<1>7. CASE SupervisorRestarts
  BY <1>7 DEF SupervisorRestarts
<1>8. CASE SupervisorCancelled
  BY <1>8 DEF SupervisorCancelled
<1>9. CASE CollectorJoined
  BY <1>9 DEF CollectorJoined, Awaited
<1>10. CASE CloseDown
  BY <1>10 DEF CloseDown
<1>11. CASE Exit
  BY <1>11 DEF Exit
<1>12. CASE StopRequest
  <2>1. faults' \in 0 .. MaxFaults
    BY <1>12 DEF StopRequest
  <2>2. CASE Idle(coll)
    BY <1>12, <2>1, <2>2 DEF StopRequest, Awaited
  <2>3. CASE ~Idle(coll)
    BY <1>12, <2>1, <2>3 DEF StopRequest
  <2> QED
    BY <2>2, <2>3
<1>13. CASE Clock
  BY <1>13 DEF Clock
<1>14. CASE CollectorFault
  <2>1. faults' \in 0 .. MaxFaults /\ struck' \subseteq Faults
    BY <1>14, FaultTypes DEF CollectorFault
  <2> QED
    BY <1>14, <2>1 DEF CollectorFault
<1>15. CASE ProcessFault
  <2>1. faults' \in 0 .. MaxFaults /\ struck' \subseteq Faults
    BY <1>15, FaultTypes DEF ProcessFault
  <2> QED
    BY <1>15, <2>1 DEF ProcessFault
<1>16. CASE StartProcess
  <2>1. /\ proc' = "up" /\ main' = "serving" /\ coll' = "sleeping" /\ sup' = "created"
        /\ {stopEvent', supCancel', stopReq', dbOpen'} \subseteq BOOLEAN
        /\ age' \in 0 .. Never /\ failures' \in 0 .. FailureCap
    BY <1>16, FreshState DEF StartProcess
  <2> QED
    BY <1>16, <2>1 DEF StartProcess
<1>17. CASE UNCHANGED vars
  BY <1>17 DEF vars
<1> QED
  BY <1>1, <1>2, <1>3, <1>4, <1>5, <1>6, <1>7, <1>8, <1>9, <1>10, <1>11, <1>12, <1>13,
     <1>14, <1>15, <1>16, <1>17
  DEF Next, CollectorNext, SupervisorNext, MainNext, ServiceRestart, Watchdog

\* Every behaviour keeps the types (lifespan of main.py, start and _run_forever of
\* collector.py, _run of supervisor.py).
THEOREM TypeCorrect == Spec => []TypeOK
<1>1. Init => TypeInv
  BY FreshState, ServiceAssumption DEF Init, TypeInv, TypeOK, Working
<1>2. TypeInv => TypeOK
  BY DEF TypeInv
<1> QED
  BY <1>1, <1>2, TypeStep, PTL DEF Spec

-----------------------------------------------------------------------------
(* The order of the shutdown.                                               *)

\* From the reaping on there is no collector and the supervisor is cancelled;
\* the database is closed last.  A supervisor in its delay has no collector,
\* and after a stop request it is cancelled, unless the shutdown has failed.
ShutdownInv ==
  /\ main \in {"reaping", "closed"} => coll = "none" /\ supCancel
  /\ main = "closed" => sup = "ended"
  /\ ~dbOpen => main = "closed"
  /\ sup = "delay" => Idle(coll) /\ (stopReq => supCancel \/ main = "failed")

LEMMA ShutdownStep == TypeOK /\ ShutdownInv /\ [Next]_vars => ShutdownInv'
<1> SUFFICES ASSUME TypeOK, ShutdownInv, [Next]_vars PROVE ShutdownInv'
  OBVIOUS
<1> USE DEF TypeOK, ShutdownInv, lifecycle, Working, Ended, Idle, CollectorStep
<1>1. CASE StartCycle
  BY <1>1 DEF StartCycle
<1>2. CASE EndCycle \/ FailCycle
  BY <1>2 DEF EndCycle, FailCycle
<1>3. CASE LeaveLoop
  BY <1>3 DEF LeaveLoop
<1>4. CASE SupervisorRuns
  BY <1>4 DEF SupervisorRuns, SupervisorLoop
<1>5. CASE SupervisorGivesUp
  BY <1>5 DEF SupervisorGivesUp
<1>6. CASE SupervisorRestarts
  BY <1>6 DEF SupervisorRestarts
<1>7. CASE SupervisorCancelled
  BY <1>7 DEF SupervisorCancelled
<1>8. CASE CollectorJoined
  BY <1>8 DEF CollectorJoined, Awaited
<1>9. CASE CloseDown
  BY <1>9 DEF CloseDown
<1>10. CASE Exit
  BY <1>10 DEF Exit
<1>11. CASE StopRequest
  BY <1>11 DEF StopRequest, Awaited
<1>12. CASE Clock
  BY <1>12 DEF Clock
<1>13. CASE CollectorFault
  BY <1>13 DEF CollectorFault, Fault
<1>14. CASE ProcessFault
  BY <1>14 DEF ProcessFault, Fault
<1>15. CASE StartProcess
  BY <1>15, FreshState DEF StartProcess
<1>16. CASE UNCHANGED vars
  BY <1>16 DEF vars
<1> QED
  BY <1>1, <1>2, <1>3, <1>4, <1>5, <1>6, <1>7, <1>8, <1>9, <1>10, <1>11, <1>12, <1>13,
     <1>14, <1>15, <1>16
  DEF Next, CollectorNext, SupervisorNext, MainNext, ServiceRestart, Watchdog

LEMMA ShutdownInvariant == Spec => [](TypeOK /\ ShutdownInv)
<1>1. Init => ShutdownInv
  BY FreshState DEF Init, ShutdownInv
<1> QED
  BY <1>1, TypeCorrect, ShutdownStep, PTL DEF Spec

\* No task meets a closed database, whatever faults come before or during the
\* shutdown (main.py:78-81, supervisor.py:45-53).
THEOREM ClosedLast == Spec => []NoUseAfterClose
<1>1. ShutdownInv => NoUseAfterClose
  BY DEF ShutdownInv, NoUseAfterClose
<1> QED
  BY <1>1, ShutdownInvariant, PTL

\* A supervisor that sleeps before a restart when the stop is requested does not
\* restart the collector (supervisor.py:58-76).
THEOREM StopIsFinal == Spec => StopWins
<1>1. TypeOK /\ ShutdownInv /\ [Next]_vars =>
        [stopReq /\ stopReq' /\ Idle(coll) /\ coll' \in Working => main = "failed"]_vars
  <2> SUFFICES ASSUME TypeOK, ShutdownInv, Next, stopReq, stopReq', Idle(coll), coll' \in Working
               PROVE  main = "failed"
    OBVIOUS
  <2> USE DEF Working, Ended, Idle
  <2>1. CASE SupervisorRestarts
    BY <2>1 DEF SupervisorRestarts, ShutdownInv
  <2>2. CASE StartProcess
    BY <2>2, Zenon DEF StartProcess, Fresh
  <2>3. CASE CollectorNext
    BY <2>3 DEF CollectorNext, StartCycle, EndCycle, FailCycle, LeaveLoop, CollectorStep
  <2>4. CASE SupervisorRuns \/ SupervisorGivesUp \/ SupervisorCancelled
    BY <2>4 DEF SupervisorRuns, SupervisorGivesUp, SupervisorCancelled
  <2>5. CASE MainNext \/ StopRequest
    BY <2>5 DEF MainNext, CollectorJoined, CloseDown, Exit, StopRequest, Awaited
  <2>6. CASE Clock \/ CollectorFault \/ ProcessFault
    BY <2>6 DEF Clock, CollectorFault, ProcessFault
  <2> QED
    BY <2>1, <2>2, <2>3, <2>4, <2>5, <2>6
    DEF Next, SupervisorNext, ServiceRestart, Watchdog
<1> QED
  BY <1>1, ShutdownInvariant, PTL DEF Spec, StopWins
=============================================================================
