---------------------------- MODULE RunnerProofs ----------------------------
(* Theorems about Runner: they hold for every number of stalls after which  *)
(* the main thread quits, and any number of hangs, exceptions, resizes and  *)
(* keys.                                                                    *)
EXTENDS Runner, TLAPS

-----------------------------------------------------------------------------
(* Types, in three parts that different steps change.                      *)

PlacesOK ==
  /\ pc \in [main : MainPlaces,
             ctrl : {"idle", "returned", "stopWait", "join", "joining", "save"},
             runner : {"top", "acquire", "check", "lock", "work", "proc", "end"},
             rows : {"off", "loop", "cycle", "done"}]
  /\ back \in [unlock : {"fit", "trigger", "key"}, stop : {"join", "unlock"}]

FlagsOK ==
  /\ active \in BOOLEAN /\ stopping \in BOOLEAN /\ token \in {0, 1}
  /\ holds \in BOOLEAN /\ exception \in BOOLEAN /\ hung \in BOOLEAN
  /\ quitting \in {"no", "main", "ctrl"}
  /\ resized \in BOOLEAN /\ winch \in BOOLEAN /\ small \in BOOLEAN
  /\ locked \in BOOLEAN /\ pending \in BOOLEAN
  /\ published \in BOOLEAN /\ stop \in BOOLEAN /\ dbOpen \in BOOLEAN
  /\ exited \in BOOLEAN

CountsOK == stalls \in 0 .. StallLimit - 1 /\ events \in 0 .. MaxEvents

Types == PlacesOK /\ FlagsOK /\ CountsOK

LEMMA TypeParts == TypeOK <=> Types
BY DEF TypeOK, Types, PlacesOK, FlagsOK, CountsOK

LEMMA TypeStep == Types /\ [Next]_vars => Types'
<1> SUFFICES ASSUME Types, [Next]_vars PROVE Types'
  OBVIOUS
<1> USE RunnerAssumption
<1> USE DEF Types, PlacesOK, FlagsOK, CountsOK, MainPlaces, flags, screen, config, store, env
<1>1. CASE RunnerTop
  BY <1>1 DEF RunnerTop, At, Go
<1>2. CASE RunnerAcquire
  BY <1>2 DEF RunnerAcquire, At, Go
<1>3. CASE RunnerCheck
  BY <1>3 DEF RunnerCheck, At, Go
<1>4. CASE RunnerLock
  BY <1>4 DEF RunnerLock, At, Go
<1>5. CASE RunnerWork
  BY <1>5 DEF RunnerWork, At, Go
<1>6. CASE RunnerPrint
  <2>1. PlacesOK'
    BY <1>6 DEF RunnerPrint, At, Go
  <2>2. FlagsOK'
    <3>1. active' \in BOOLEAN /\ holds' \in BOOLEAN
      BY <1>6, Zenon DEF RunnerPrint
    <3> QED
      BY <1>6, <3>1 DEF RunnerPrint
  <2>3. CountsOK'
    BY <1>6 DEF RunnerPrint
  <2> QED
    BY <2>1, <2>2, <2>3
<1>7. CASE RunnerThrows
  <2>1. PlacesOK'
    BY <1>7 DEF RunnerThrows, Go
  <2>2. FlagsOK'
    BY <1>7 DEF RunnerThrows, Event
  <2>3. CountsOK'
    BY <1>7 DEF RunnerThrows, Event
  <2> QED
    BY <2>1, <2>2, <2>3
<1>8. CASE RunnerHangs
  <2>1. PlacesOK'
    BY <1>8 DEF RunnerHangs
  <2>2. FlagsOK'
    BY <1>8 DEF RunnerHangs, Event
  <2>3. CountsOK'
    BY <1>8 DEF RunnerHangs, Event
  <2> QED
    BY <2>1, <2>2, <2>3
<1>9. CASE StartPersistence
  <2>1. PlacesOK'
    BY <1>9 DEF StartPersistence, At, Go
  <2>2. FlagsOK'
    <3>1. dbOpen' \in BOOLEAN
      BY <1>9, Zenon DEF StartPersistence
    <3> QED
      BY <1>9, <3>1 DEF StartPersistence
  <2>3. CountsOK'
    BY <1>9 DEF StartPersistence
  <2> QED
    BY <2>1, <2>2, <2>3
<1>10. CASE Publish
  BY <1>10 DEF Publish, At, Go
<1>11. CASE LoopTop
  BY <1>11 DEF LoopTop, At, Go
<1>12. CASE QuitOnException
  <2>1. CASE quitting = "no"
    <3>1. PlacesOK'
      BY <1>12, <2>1 DEF QuitOnException, At, Go, Quit, StopBegin
    <3>2. FlagsOK'
      BY <1>12, <2>1 DEF QuitOnException, Quit, StopBegin
    <3>3. CountsOK'
      BY <1>12 DEF QuitOnException
    <3> QED
      BY <3>1, <3>2, <3>3
  <2>2. CASE quitting # "no"
    <3>1. PlacesOK'
      BY <1>12, <2>2 DEF QuitOnException, At, Go, Quit
    <3>2. FlagsOK'
      BY <1>12, <2>2 DEF QuitOnException, Quit
    <3>3. CountsOK'
      BY <1>12 DEF QuitOnException
    <3> QED
      BY <3>1, <3>2, <3>3
  <2> QED
    BY <2>1, <2>2
<1>13. CASE TermResize
  <2>1. PlacesOK'
    BY <1>13 DEF TermResize, At, Go
  <2>2. FlagsOK'
    <3>1. resized' \in BOOLEAN /\ winch' \in BOOLEAN /\ stopping' \in BOOLEAN
      BY <1>13, Zenon DEF TermResize
    <3> QED
      BY <1>13, <3>1 DEF TermResize
  <2>3. CountsOK'
    BY <1>13 DEF TermResize
  <2> QED
    BY <2>1, <2>2, <2>3
<1>14. CASE FitQuit
  <2>1. CASE quitting = "no"
    <3>1. PlacesOK'
      BY <1>14, <2>1 DEF FitQuit, At, Go, Quit, StopBegin
    <3>2. FlagsOK'
      BY <1>14, <2>1 DEF FitQuit, Quit, StopBegin
    <3>3. CountsOK'
      BY <1>14 DEF FitQuit
    <3> QED
      BY <3>1, <3>2, <3>3
  <2>2. CASE quitting # "no"
    <3>1. PlacesOK'
      BY <1>14, <2>2 DEF FitQuit, At, Go, Quit
    <3>2. FlagsOK'
      BY <1>14, <2>2 DEF FitQuit, Quit
    <3>3. CountsOK'
      BY <1>14 DEF FitQuit
    <3> QED
      BY <3>1, <3>2, <3>3
  <2> QED
    BY <2>1, <2>2
<1>15. CASE FitToggle
  <2>1. PlacesOK'
    BY <1>15 DEF FitToggle, At
  <2>2. FlagsOK'
    BY <1>15 DEF FitToggle, Event
  <2>3. CountsOK'
    BY <1>15 DEF FitToggle, Event
  <2> QED
    BY <2>1, <2>2, <2>3
<1>16. CASE Fits
  <2>1. PlacesOK'
    BY <1>16 DEF Fits, At, Go
  <2>2. FlagsOK'
    <3>1. winch' \in BOOLEAN
      BY <1>16, Zenon DEF Fits
    <3> QED
      BY <1>16, <3>1 DEF Fits
  <2>3. CountsOK'
    BY <1>16 DEF Fits
  <2> QED
    BY <2>1, <2>2, <2>3
<1>17. CASE CalcSizes
  <2>1. PlacesOK'
    BY <1>17 DEF CalcSizes, At, Go
  <2>2. FlagsOK'
    <3>1. resized' \in BOOLEAN
      BY <1>17, Zenon DEF CalcSizes
    <3> QED
      BY <1>17, <3>1 DEF CalcSizes
  <2>3. CountsOK'
    BY <1>17 DEF CalcSizes
  <2> QED
    BY <2>1, <2>2, <2>3
<1>18. CASE Due
  BY <1>18 DEF Due, At, Go
<1>19. CASE Run
  <2>1. PlacesOK'
    BY <1>19 DEF Run, At, Go
  <2>2. FlagsOK'
    BY <1>19 DEF Run
  <2>3. CountsOK'
    BY <1>19 DEF Run
  <2> QED
    BY <2>1, <2>2, <2>3
<1>20. CASE RunStalled
  <2>1. PlacesOK'
    BY <1>20 DEF RunStalled, At, Go
  <2>2. FlagsOK'
    BY <1>20 DEF RunStalled
  <2>3. CountsOK'
    BY <1>20 DEF RunStalled
  <2> QED
    BY <2>1, <2>2, <2>3
<1>21. CASE StallQuits
  <2>1. CASE quitting = "no"
    <3>1. PlacesOK'
      BY <1>21, <2>1 DEF StallQuits, At, Go, Quit, StopBegin
    <3>2. FlagsOK'
      <4>1. active' \in BOOLEAN /\ stopping' \in BOOLEAN
        BY <1>21, <2>1, Zenon DEF StallQuits, Quit, StopBegin
      <4> QED
        BY <1>21, <2>1, <4>1 DEF StallQuits, Quit, StopBegin
    <3>3. CountsOK'
      BY <1>21 DEF StallQuits
    <3> QED
      BY <3>1, <3>2, <3>3
  <2>2. CASE quitting # "no"
    <3>1. PlacesOK'
      BY <1>21, <2>2 DEF StallQuits, At, Go, Quit
    <3>2. FlagsOK'
      <4>1. active' \in BOOLEAN /\ stopping' \in BOOLEAN
        BY <1>21, <2>2, Zenon DEF StallQuits, Quit
      <4> QED
        BY <1>21, <2>2, <4>1 DEF StallQuits, Quit
    <3>3. CountsOK'
      BY <1>21 DEF StallQuits
    <3> QED
      BY <3>1, <3>2, <3>3
  <2> QED
    BY <2>1, <2>2
<1>22. CASE Unlock
  <2>1. PlacesOK'
    BY <1>22 DEF Unlock, At, Go
  <2>2. FlagsOK'
    <3>1. locked' \in BOOLEAN /\ pending' \in BOOLEAN
      BY <1>22, Zenon DEF Unlock
    <3> QED
      BY <1>22, <3>1 DEF Unlock
  <2>3. CountsOK'
    BY <1>22 DEF Unlock
  <2> QED
    BY <2>1, <2>2, <2>3
<1>23. CASE Trigger
  BY <1>23 DEF Trigger, At, Go
<1>24. CASE NoInput
  BY <1>24 DEF NoInput, At, Go
<1>25. CASE Input
  BY <1>25 DEF Input, At, Go
<1>26. CASE KeyQuit
  <2>1. CASE quitting = "no"
    <3>1. PlacesOK'
      BY <1>26, <2>1 DEF KeyQuit, At, Go, Quit, StopBegin
    <3>2. FlagsOK'
      BY <1>26, <2>1 DEF KeyQuit, Quit, StopBegin
    <3>3. CountsOK'
      BY <1>26 DEF KeyQuit
    <3> QED
      BY <3>1, <3>2, <3>3
  <2>2. CASE quitting # "no"
    <3>1. PlacesOK'
      BY <1>26, <2>2 DEF KeyQuit, At, Go, Quit
    <3>2. FlagsOK'
      BY <1>26, <2>2 DEF KeyQuit, Quit
    <3>3. CountsOK'
      BY <1>26 DEF KeyQuit
    <3> QED
      BY <3>1, <3>2, <3>3
  <2> QED
    BY <2>1, <2>2
<1>27. CASE KeySet
  <2>1. PlacesOK'
    BY <1>27 DEF KeySet, At, Go
  <2>2. FlagsOK'
    BY <1>27 DEF KeySet, Event
  <2>3. CountsOK'
    BY <1>27 DEF KeySet, Event
  <2> QED
    BY <2>1, <2>2, <2>3
<1>28. CASE KeyWaits
  <2>1. PlacesOK'
    BY <1>28 DEF KeyWaits, At, Go
  <2>2. FlagsOK'
    BY <1>28 DEF KeyWaits, Event
  <2>3. CountsOK'
    BY <1>28 DEF KeyWaits, Event
  <2> QED
    BY <2>1, <2>2, <2>3
<1>29. CASE KeyBox
  BY <1>29 DEF KeyBox, At, Go
<1>30. CASE KeyNothing
  BY <1>30 DEF KeyNothing, At, Go
<1>31. CASE CtrlHandler
  <2>1. CASE quitting = "no"
    <3>1. PlacesOK'
      BY <1>31, <2>1 DEF CtrlHandler, At, Go, Quit, StopBegin
    <3>2. FlagsOK'
      BY <1>31, <2>1 DEF CtrlHandler, Quit, StopBegin
    <3>3. CountsOK'
      BY <1>31 DEF CtrlHandler
    <3> QED
      BY <3>1, <3>2, <3>3
  <2>2. CASE quitting # "no"
    <3>1. PlacesOK'
      BY <1>31, <2>2 DEF CtrlHandler, At, Go, Quit
    <3>2. FlagsOK'
      BY <1>31, <2>2 DEF CtrlHandler, Quit
    <3>3. CountsOK'
      BY <1>31 DEF CtrlHandler
    <3> QED
      BY <3>1, <3>2, <3>3
  <2> QED
    BY <2>1, <2>2
<1>32. CASE RowsLoop
  BY <1>32 DEF RowsLoop, At, Go
<1>33. CASE RowsCycle
  BY <1>33 DEF RowsCycle, At, Go
<1>34. CASE Resize
  <2>1. PlacesOK'
    BY <1>34 DEF Resize
  <2>2. FlagsOK'
    BY <1>34 DEF Resize, Event
  <2>3. CountsOK'
    BY <1>34 DEF Resize, Event
  <2> QED
    BY <2>1, <2>2, <2>3
<1>35. CASE SensorsChange
  <2>1. PlacesOK'
    BY <1>35 DEF SensorsChange
  <2>2. FlagsOK'
    BY <1>35 DEF SensorsChange, Event
  <2>3. CountsOK'
    BY <1>35 DEF SensorsChange, Event
  <2> QED
    BY <2>1, <2>2, <2>3
<1>36. ASSUME NEW t \in {"main", "ctrl"}, StopEnd(t) PROVE Types'
  <2>1. PlacesOK'
    BY <1>36 DEF StopEnd, At, Go
  <2>2. FlagsOK'
    <3>1. stopping' \in BOOLEAN
      BY <1>36, Zenon DEF StopEnd
    <3> QED
      BY <1>36, <3>1 DEF StopEnd
  <2>3. CountsOK'
    BY <1>36 DEF StopEnd
  <2> QED
    BY <2>1, <2>2, <2>3
<1>37. ASSUME NEW t \in {"main", "ctrl"}, StopPersistence(t) PROVE Types'
  BY <1>37 DEF StopPersistence, At, Go
<1>38. ASSUME NEW t \in {"main", "ctrl"}, Joined(t) PROVE Types'
  <2>1. PlacesOK'
    BY <1>38 DEF Joined, At, Go
  <2>2. FlagsOK'
    <3>1. published' \in BOOLEAN /\ dbOpen' \in BOOLEAN
      BY <1>38, Zenon DEF Joined
    <3> QED
      BY <1>38, <3>1 DEF Joined
  <2>3. CountsOK'
    BY <1>38 DEF Joined
  <2> QED
    BY <2>1, <2>2, <2>3
<1>39. ASSUME NEW t \in {"main", "ctrl"}, SaveAndExit(t) PROVE Types'
  BY <1>39 DEF SaveAndExit, At
<1>40. CASE UNCHANGED vars
  BY <1>40 DEF vars
<1> QED
  BY <1>1, <1>2, <1>3, <1>4, <1>5, <1>6, <1>7, <1>8, <1>9, <1>10,
     <1>11, <1>12, <1>13, <1>14, <1>15, <1>16, <1>17, <1>18, <1>19, <1>20,
     <1>21, <1>22, <1>23, <1>24, <1>25, <1>26, <1>27, <1>28, <1>29, <1>30,
     <1>31, <1>32, <1>33, <1>34, <1>35, <1>36, <1>37, <1>38, <1>39, <1>40
  DEF Next, RunnerStep, MainStep, UserStep, RowsStep, Leaving

\* Every behaviour keeps the types (btop.cpp:251-258).
THEOREM TypeCorrect == Spec => []TypeOK
<1>1. Init => Types
  <2> SUFFICES ASSUME Init PROVE Types
    OBVIOUS
  <2>1. PlacesOK
    BY DEF Init, PlacesOK, MainPlaces
  <2>2. FlagsOK
    BY DEF Init, FlagsOK
  <2>3. CountsOK
    BY RunnerAssumption DEF Init, CountsOK
  <2> QED
    BY <2>1, <2>2, <2>3 DEF Types
<1> QED
  BY <1>1, TypeParts, TypeStep, PTL DEF Spec

-----------------------------------------------------------------------------
(* Who quits, and in which order.                                           *)

LEMMA QuitStep == Types /\ QuitsOnce /\ [Next]_vars => QuitsOnce'
<1> SUFFICES ASSUME Types, QuitsOnce, [Next]_vars PROVE QuitsOnce'
  OBVIOUS
<1> USE DEF Types, PlacesOK, MainPlaces, QuitsOnce, Leaves, flags, screen, config, store, env
<1>1. CASE RunnerTop
  BY <1>1 DEF RunnerTop, At, Go
<1>2. CASE RunnerAcquire
  BY <1>2 DEF RunnerAcquire, At, Go
<1>3. CASE RunnerCheck
  BY <1>3 DEF RunnerCheck, At, Go
<1>4. CASE RunnerLock
  BY <1>4 DEF RunnerLock, At, Go
<1>5. CASE RunnerWork
  BY <1>5 DEF RunnerWork, At, Go
<1>6. CASE RunnerPrint
  BY <1>6 DEF RunnerPrint, At, Go
<1>7. CASE RunnerThrows
  BY <1>7 DEF RunnerThrows, Go, Event
<1>8. CASE RunnerHangs
  BY <1>8 DEF RunnerHangs, Event
<1>9. CASE StartPersistence
  BY <1>9 DEF StartPersistence, At, Go
<1>10. CASE Publish
  BY <1>10 DEF Publish, At, Go
<1>11. CASE LoopTop
  BY <1>11 DEF LoopTop, At, Go
<1>12. CASE QuitOnException
  BY <1>12 DEF QuitOnException, At, Quit, StopBegin, Go
<1>13. CASE TermResize
  BY <1>13 DEF TermResize, At, Go
<1>14. CASE FitQuit
  BY <1>14 DEF FitQuit, At, Quit, StopBegin, Go
<1>15. CASE FitToggle
  BY <1>15 DEF FitToggle, At, Event
<1>16. CASE Fits
  BY <1>16 DEF Fits, At, Go
<1>17. CASE CalcSizes
  BY <1>17 DEF CalcSizes, At, Go
<1>18. CASE Due
  BY <1>18 DEF Due, At, Go
<1>19. CASE Run
  BY <1>19 DEF Run, At, Go
<1>20. CASE RunStalled
  BY <1>20 DEF RunStalled, At, Go
<1>21. CASE StallQuits
  BY <1>21 DEF StallQuits, At, Quit, StopBegin, Go
<1>22. CASE Unlock
  BY <1>22 DEF Unlock, At, Go
<1>23. CASE Trigger
  BY <1>23 DEF Trigger, At, Go
<1>24. CASE NoInput
  BY <1>24 DEF NoInput, At, Go
<1>25. CASE Input
  BY <1>25 DEF Input, At, Go
<1>26. CASE KeyQuit
  BY <1>26 DEF KeyQuit, At, Quit, StopBegin, Go
<1>27. CASE KeySet
  BY <1>27 DEF KeySet, At, Go, Event
<1>28. CASE KeyWaits
  BY <1>28 DEF KeyWaits, At, Go, Event
<1>29. CASE KeyBox
  BY <1>29 DEF KeyBox, At, Go
<1>30. CASE KeyNothing
  BY <1>30 DEF KeyNothing, At, Go
<1>31. CASE CtrlHandler
  BY <1>31 DEF CtrlHandler, At, Quit, StopBegin, Go
<1>32. CASE RowsLoop
  BY <1>32 DEF RowsLoop, At, Go
<1>33. CASE RowsCycle
  BY <1>33 DEF RowsCycle, At, Go
<1>34. CASE Resize
  BY <1>34 DEF Resize, Event
<1>35. CASE SensorsChange
  BY <1>35 DEF SensorsChange, Event
<1>36. ASSUME NEW u \in {"main", "ctrl"}, StopEnd(u) PROVE QuitsOnce'
  BY <1>36 DEF StopEnd, At, Go
<1>37. ASSUME NEW u \in {"main", "ctrl"}, StopPersistence(u) PROVE QuitsOnce'
  BY <1>37 DEF StopPersistence, At, Go
<1>38. ASSUME NEW u \in {"main", "ctrl"}, Joined(u) PROVE QuitsOnce'
  BY <1>38 DEF Joined, At, Go
<1>39. ASSUME NEW u \in {"main", "ctrl"}, SaveAndExit(u) PROVE QuitsOnce'
  BY <1>39 DEF SaveAndExit, At
<1>40. CASE UNCHANGED vars
  BY <1>40 DEF vars
<1> QED
  BY <1>1, <1>2, <1>3, <1>4, <1>5, <1>6, <1>7, <1>8, <1>9, <1>10,
     <1>11, <1>12, <1>13, <1>14, <1>15, <1>16, <1>17, <1>18, <1>19, <1>20,
     <1>21, <1>22, <1>23, <1>24, <1>25, <1>26, <1>27, <1>28, <1>29, <1>30,
     <1>31, <1>32, <1>33, <1>34, <1>35, <1>36, <1>37, <1>38, <1>39, <1>40
  DEF Next, RunnerStep, MainStep, UserStep, RowsStep, Leaving

\* A thread that quits does so alone, however a key, an exception, a stalled
\* runner and the closing of the console coincide (clean_quit).
THEOREM OneThreadQuits == Spec => []QuitsOnce
<1>1. Init => QuitsOnce
  BY DEF Init, QuitsOnce, Leaves
<1> QED
  BY <1>1, TypeCorrect, TypeParts, QuitStep, PTL DEF Spec

\* The flag is set for a thread that is published only, which the main thread
\* does after it has started it; whoever sets it waits for the thread, and
\* closes the database after it.
StopInv ==
  /\ pc["rows"] \in {"loop", "cycle"} => dbOpen
  /\ pc["main"] \in {"start", "publish"} => ~published /\ ~stop
  /\ stop => \/ pc["main"] = "joining" \/ pc["ctrl"] = "joining"
             \/ pc["rows"] = "done" /\ ~dbOpen
  /\ exited /\ stop => pc["rows"] = "done" /\ ~dbOpen

LEMMA StopStep == Types /\ QuitsOnce /\ StopInv /\ [Next]_vars => StopInv'
<1> SUFFICES ASSUME Types, QuitsOnce, StopInv, [Next]_vars PROVE StopInv'
  OBVIOUS
<1> USE DEF Types, PlacesOK, MainPlaces, QuitsOnce, Leaves, StopInv
<1> USE DEF flags, screen, config, store, env
<1>1. CASE RunnerTop
  BY <1>1 DEF RunnerTop, At, Go
<1>2. CASE RunnerAcquire
  BY <1>2 DEF RunnerAcquire, At, Go
<1>3. CASE RunnerCheck
  BY <1>3 DEF RunnerCheck, At, Go
<1>4. CASE RunnerLock
  BY <1>4 DEF RunnerLock, At, Go
<1>5. CASE RunnerWork
  BY <1>5 DEF RunnerWork, At, Go
<1>6. CASE RunnerPrint
  BY <1>6 DEF RunnerPrint, At, Go
<1>7. CASE RunnerThrows
  BY <1>7 DEF RunnerThrows, Go, Event
<1>8. CASE RunnerHangs
  BY <1>8 DEF RunnerHangs, Event
<1>9. CASE StartPersistence
  BY <1>9 DEF StartPersistence, At, Go
<1>10. CASE Publish
  BY <1>10 DEF Publish, At, Go
<1>11. CASE LoopTop
  BY <1>11 DEF LoopTop, At, Go
<1>12. CASE QuitOnException
  BY <1>12 DEF QuitOnException, At, Quit, StopBegin, Go
<1>13. CASE TermResize
  BY <1>13 DEF TermResize, At, Go
<1>14. CASE FitQuit
  BY <1>14 DEF FitQuit, At, Quit, StopBegin, Go
<1>15. CASE FitToggle
  BY <1>15 DEF FitToggle, At, Event
<1>16. CASE Fits
  BY <1>16 DEF Fits, At, Go
<1>17. CASE CalcSizes
  BY <1>17 DEF CalcSizes, At, Go
<1>18. CASE Due
  BY <1>18 DEF Due, At, Go
<1>19. CASE Run
  BY <1>19 DEF Run, At, Go
<1>20. CASE RunStalled
  BY <1>20 DEF RunStalled, At, Go
<1>21. CASE StallQuits
  BY <1>21 DEF StallQuits, At, Quit, StopBegin, Go
<1>22. CASE Unlock
  BY <1>22 DEF Unlock, At, Go
<1>23. CASE Trigger
  BY <1>23 DEF Trigger, At, Go
<1>24. CASE NoInput
  BY <1>24 DEF NoInput, At, Go
<1>25. CASE Input
  BY <1>25 DEF Input, At, Go
<1>26. CASE KeyQuit
  BY <1>26 DEF KeyQuit, At, Quit, StopBegin, Go
<1>27. CASE KeySet
  BY <1>27 DEF KeySet, At, Go, Event
<1>28. CASE KeyWaits
  BY <1>28 DEF KeyWaits, At, Go, Event
<1>29. CASE KeyBox
  BY <1>29 DEF KeyBox, At, Go
<1>30. CASE KeyNothing
  BY <1>30 DEF KeyNothing, At, Go
<1>31. CASE CtrlHandler
  BY <1>31 DEF CtrlHandler, At, Quit, StopBegin, Go
<1>32. CASE RowsLoop
  BY <1>32 DEF RowsLoop, At, Go
<1>33. CASE RowsCycle
  BY <1>33 DEF RowsCycle, At, Go
<1>34. CASE Resize
  BY <1>34 DEF Resize, Event
<1>35. CASE SensorsChange
  BY <1>35 DEF SensorsChange, Event
<1>36. ASSUME NEW u \in {"main", "ctrl"}, StopEnd(u) PROVE StopInv'
  BY <1>36 DEF StopEnd, At, Go
<1>37. ASSUME NEW u \in {"main", "ctrl"}, StopPersistence(u) PROVE StopInv'
  BY <1>37 DEF StopPersistence, At, Go
<1>38. ASSUME NEW u \in {"main", "ctrl"}, Joined(u) PROVE StopInv'
  BY <1>38 DEF Joined, At, Go
<1>39. ASSUME NEW u \in {"main", "ctrl"}, SaveAndExit(u) PROVE StopInv'
  BY <1>39 DEF SaveAndExit, At
<1>40. CASE UNCHANGED vars
  BY <1>40 DEF vars
<1> QED
  BY <1>1, <1>2, <1>3, <1>4, <1>5, <1>6, <1>7, <1>8, <1>9, <1>10,
     <1>11, <1>12, <1>13, <1>14, <1>15, <1>16, <1>17, <1>18, <1>19, <1>20,
     <1>21, <1>22, <1>23, <1>24, <1>25, <1>26, <1>27, <1>28, <1>29, <1>30,
     <1>31, <1>32, <1>33, <1>34, <1>35, <1>36, <1>37, <1>38, <1>39, <1>40
  DEF Next, RunnerStep, MainStep, UserStep, RowsStep, Leaving

\* The collection thread never meets a closed database, and a process that told
\* it to stop does not end before it has (rw_collector.cpp:289-294).
THEOREM StopsInOrder == Spec => []StoppedInOrder
<1>1. Init => StopInv
  BY DEF Init, StopInv
<1>2. StopInv => StoppedInOrder
  BY DEF StopInv, StoppedInOrder
<1> QED
  BY <1>1, <1>2, TypeCorrect, TypeParts, OneThreadQuits, StopStep, PTL DEF Spec
=============================================================================
