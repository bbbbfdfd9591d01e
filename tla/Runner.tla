------------------------------- MODULE Runner -------------------------------
(***************************************************************************)
(* The threads of the C++ port and how they hand the program to each other *)
(* (src/native/btop4win/src/btop.cpp, btop_config.cpp, btop_tools.cpp and  *)
(* raidwatch/rw_collector.cpp):                                            *)
(*                                                                         *)
(*   main     the main loop: resizes, starts runs, takes keys, quits       *)
(*   ctrl     the console control thread, which only quits                 *)
(*   runner   Runner::_runner, which collects and draws                    *)
(*   rows     RwCollector::run_loop, which writes the metrics rows         *)
(*                                                                         *)
(* There is no lock between them except WMImutex.  The runner is kept      *)
(* apart by the flags active, stopping and resized and by a binary         *)
(* semaphore.  atomic_wait waits as long as it takes; atomic_wait_for      *)
(* gives up, which here it may do at any moment, so a wait whose outcome   *)
(* the code does not look at is no step of its own.                        *)
(***************************************************************************)
EXTENDS Integers

CONSTANTS
  StallLimit, \* waits of five seconds before the main thread quits (12)
  MaxEvents   \* bound: hangs and exceptions of the runner, changes of the
              \* terminal and of the sensors, keys that change something

ASSUME RunnerAssumption ==
  /\ StallLimit \in Nat \ {0}
  /\ MaxEvents \in Nat

VARIABLES
  pc,         \* where each of the four threads is
  back,       \* where the main thread goes after unlock and stop
  active,     \* Runner::active
  stopping,   \* Runner::stopping
  token,      \* Runner::do_work; a second release leaves the build's at one
  holds,      \* the runner holds Proc::WMImutex
  exception,  \* Global::thread_exception
  hung,       \* the runner is in a call that does not return
  quitting,   \* Global::quitting, with the thread that set it
  resized,    \* Global::resized
  winch,      \* the terminal has a size the program has not seen
  small,      \* the terminal is smaller than the shown boxes need
  locked,     \* Config::locked
  pending,    \* a change of an option waits in the Tmp maps
  stalls,     \* stall_count of Runner::run
  published,  \* g_state holds the persistence
  stop,       \* RwCollector::stop_
  dbOpen,     \* the persistence database is open
  exited,     \* the process has ended
  events      \* how many events there have been

flags == <<active, stopping, token, holds, exception>>
screen == <<resized, winch, small>>
config == <<locked, pending>>
store == <<published, stop, dbOpen>>
env == <<hung, events>>
vars == <<pc, back, flags, quitting, screen, config, stalls, store, exited, env>>

At(t, where) == ~exited /\ pc[t] = where
Go(t, where) == pc' = [pc EXCEPT ![t] = where]
Event == events < MaxEvents /\ events' = events + 1

Init ==
  /\ pc = [main |-> "start", ctrl |-> "idle", runner |-> "top", rows |-> "off"]
  /\ back = [unlock |-> "key", stop |-> "join"]
  /\ active = FALSE /\ stopping = FALSE /\ token = 0
  /\ holds = FALSE /\ exception = FALSE /\ hung = FALSE
  /\ quitting = "no"
  /\ resized = FALSE /\ winch = FALSE /\ small = FALSE
  /\ locked = FALSE /\ pending = FALSE
  /\ stalls = 0
  /\ published = FALSE /\ stop = FALSE /\ dbOpen = FALSE
  /\ exited = FALSE
  /\ events = 0

(***************************************************************************)
(* The runner thread.  The wait for the end of another run after the       *)
(* semaphore is no step: nobody but the runner sets active.                *)
(***************************************************************************)
RunnerTop ==
  /\ At("runner", "top")
  /\ Go("runner", IF quitting = "no" THEN "acquire" ELSE "end")
  /\ UNCHANGED <<back, flags, quitting, screen, config, stalls, store, exited, env>>

RunnerAcquire ==
  /\ At("runner", "acquire") /\ token = 1
  /\ token' = 0
  /\ Go("runner", "check")
  /\ UNCHANGED <<back, active, stopping, holds, exception, quitting, screen, config, stalls, store, exited, env>>

RunnerCheck ==
  /\ At("runner", "check")
  /\ Go("runner", IF stopping \/ resized THEN "top" ELSE "lock")
  /\ UNCHANGED <<back, flags, quitting, screen, config, stalls, store, exited, env>>

RunnerLock ==
  /\ At("runner", "lock")
  /\ active' = TRUE
  /\ Go("runner", "work")
  /\ UNCHANGED <<back, stopping, token, holds, exception, quitting, screen, config, stalls, store, exited, env>>

\* The boxes cpu, mem and net, then Proc::collect under WMImutex.
RunnerWork ==
  /\ At("runner", "work") /\ ~hung
  /\ holds' = TRUE
  /\ Go("runner", "proc")
  /\ UNCHANGED <<back, active, stopping, token, exception, quitting, screen, config, stalls, store, exited, env>>

\* Proc::draw and the output, or nothing when stopping; the end of the scope
\* resets active.
RunnerPrint ==
  /\ At("runner", "proc") /\ ~hung
  /\ holds' = FALSE /\ active' = FALSE
  /\ Go("runner", "top")
  /\ UNCHANGED <<back, stopping, token, exception, quitting, screen, config, stalls, store, exited, env>>

\* An exception of a collector ends the run and asks the main thread to quit.
RunnerThrows ==
  /\ pc["runner"] \in {"work", "proc"} /\ ~hung /\ ~exited
  /\ Event
  /\ exception' = TRUE /\ stopping' = TRUE /\ active' = FALSE /\ holds' = FALSE
  /\ Go("runner", "top")
  /\ UNCHANGED <<back, token, hung, quitting, screen, config, stalls, store, exited>>

\* A call to the system made by a collector does not return.
RunnerHangs ==
  /\ pc["runner"] \in {"work", "proc"} /\ ~hung /\ ~exited
  /\ Event
  /\ hung' = TRUE
  /\ UNCHANGED <<pc, back, flags, quitting, screen, config, stalls, store, exited>>

RunnerStep ==
  \/ RunnerTop \/ RunnerAcquire \/ RunnerCheck \/ RunnerLock \/ RunnerWork \/ RunnerPrint

(***************************************************************************)
(* Runner::stop and clean_quit, in either of the threads that quit.        *)
(***************************************************************************)
StopBegin(t, then) ==
  /\ stopping' = TRUE
  /\ token' = 1
  /\ Go(t, "stopWait")
  /\ back' = IF t = "main" THEN [back EXCEPT !.stop = then] ELSE back

\* Both waits of stop give up after 100 ms, whatever the runner does.
StopEnd(t) ==
  /\ At(t, "stopWait")
  /\ stopping' = FALSE
  /\ Go(t, IF t = "main" THEN back.stop ELSE "join")
  /\ back' = IF t = "main" THEN [back EXCEPT !.stop = "join"] ELSE back
  /\ UNCHANGED <<active, token, holds, exception, quitting, screen, config, stalls, store, exited, env>>

\* MUTANT: quitting is read and set, not exchanged.
Quit_NotExchanged(t, otherwise) == quitting' = t /\ StopBegin(t, "join")

\* The thread that sets quitting goes on to stop the runner; the other one
\* returns from clean_quit to where it was.
Quit(t, otherwise) ==
  IF quitting = "no"
  THEN quitting' = t /\ StopBegin(t, "join")
  ELSE Go(t, otherwise) /\ UNCHANGED <<quitting, stopping, token, back>>

\* MUTANT: the database is closed without waiting for the thread.
StopPersistence_NoJoin(t) ==
  /\ At(t, "join")
  /\ stop' = (stop \/ published)
  /\ published' = FALSE /\ dbOpen' = FALSE
  /\ Go(t, "save")
  /\ UNCHANGED <<back, flags, quitting, screen, config, stalls, exited, env>>

\* MUTANT: the thread is joined but not told to stop.
StopPersistence_NoFlag(t) ==
  /\ At(t, "join")
  /\ Go(t, IF published THEN "joining" ELSE "save")
  /\ UNCHANGED <<back, flags, quitting, screen, config, stalls, store, exited, env>>

\* stop_persistence: set the flag, wait for the thread, close the database.
StopPersistence(t) ==
  /\ At(t, "join")
  /\ stop' = (stop \/ published)
  /\ Go(t, IF published THEN "joining" ELSE "save")
  /\ UNCHANGED <<back, flags, quitting, screen, config, stalls, published, dbOpen, exited, env>>

Joined(t) ==
  /\ At(t, "joining") /\ pc["rows"] = "done"
  /\ published' = FALSE /\ dbOpen' = FALSE
  /\ Go(t, "save")
  /\ UNCHANGED <<back, flags, quitting, screen, config, stalls, stop, exited, env>>

\* Config::write, Term::restore and quick_exit.
SaveAndExit(t) ==
  /\ At(t, "save")
  /\ exited' = TRUE
  /\ UNCHANGED <<pc, back, flags, quitting, screen, config, stalls, store, env>>

Leaving(t) == StopEnd(t) \/ StopPersistence(t) \/ Joined(t) \/ SaveAndExit(t)

CtrlHandler ==
  /\ At("ctrl", "idle")
  /\ Quit("ctrl", "returned")
  /\ UNCHANGED <<active, holds, exception, screen, config, stalls, store, exited, env>>

(***************************************************************************)
(* The main thread, from the start of the persistence on.                  *)
(***************************************************************************)
\* The collection thread runs before g_state holds it; or the start fails and
\* the program goes on without it.
StartPersistence ==
  /\ At("main", "start")
  /\ \/ /\ dbOpen' = TRUE
        /\ pc' = [pc EXCEPT !["main"] = "publish", !["rows"] = "loop"]
     \/ Go("main", "top") /\ UNCHANGED dbOpen
  /\ UNCHANGED <<back, flags, quitting, screen, config, stalls, published, stop, exited, env>>

Publish ==
  /\ At("main", "publish")
  /\ published' = TRUE
  /\ Go("main", "top")
  /\ UNCHANGED <<back, flags, quitting, screen, config, stalls, stop, dbOpen, exited, env>>

LoopTop ==
  /\ At("main", "top")
  /\ ~(exception /\ quitting = "no") /\ ~winch /\ ~resized
  /\ Go("main", "poll")
  /\ UNCHANGED <<back, flags, quitting, screen, config, stalls, store, exited, env>>

QuitOnException ==
  /\ At("main", "top") /\ exception /\ quitting = "no"
  /\ Quit("main", "top")
  /\ UNCHANGED <<active, holds, exception, screen, config, stalls, store, exited, env>>

\* term_resize: stop the runner, then wait until the boxes fit.
TermResize ==
  /\ At("main", "top")
  /\ ~(exception /\ quitting = "no") /\ (winch \/ resized)
  /\ resized' = TRUE /\ winch' = FALSE
  /\ IF active
     THEN /\ stopping' = TRUE /\ token' = 1
          /\ Go("main", "stopWait")
          /\ back' = [back EXCEPT !.stop = "unlock", !.unlock = "fit"]
     ELSE /\ Go("main", "unlock")
          /\ back' = [back EXCEPT !.unlock = "fit"]
          /\ UNCHANGED <<stopping, token>>
  /\ UNCHANGED <<active, holds, exception, quitting, small, config, stalls, store, exited, env>>

\* The loop of term_resize takes q and the box keys only.
FitQuit ==
  /\ At("main", "fit") /\ small
  /\ Quit("main", "fit")
  /\ UNCHANGED <<active, holds, exception, screen, config, stalls, store, exited, env>>

FitToggle ==
  /\ At("main", "fit") /\ small
  /\ Event
  /\ small' \in BOOLEAN
  /\ UNCHANGED <<pc, back, flags, quitting, resized, winch, config, stalls, store, exited, hung>>

Fits ==
  /\ At("main", "fit") /\ ~small
  /\ winch' = FALSE
  /\ Go("main", "sizes")
  /\ UNCHANGED <<back, flags, quitting, resized, small, config, stalls, store, exited, env>>

\* MUTANT: the resize is not marked as done.
CalcSizes_KeepsResized ==
  /\ At("main", "sizes") /\ ~active
  /\ Go("main", "run")
  /\ UNCHANGED <<back, flags, quitting, screen, config, stalls, store, exited, env>>

\* Draw::calcSizes waits for the runner; then the redraw is started.
CalcSizes ==
  /\ At("main", "sizes") /\ ~active
  /\ resized' = FALSE
  /\ Go("main", "run")
  /\ UNCHANGED <<back, flags, quitting, winch, small, config, stalls, store, exited, env>>

\* The update timer has run out.
Due ==
  /\ At("main", "top")
  /\ ~(exception /\ quitting = "no") /\ ~winch /\ ~resized
  /\ Go("main", "run")
  /\ UNCHANGED <<back, flags, quitting, screen, config, stalls, store, exited, env>>

(***************************************************************************)
(* Runner::run: wait for the runner, let the changes of the options in,    *)
(* start the next run.                                                     *)
(***************************************************************************)
\* MUTANT: a run starts without letting the changes in.
Run_NoUnlock ==
  /\ At("main", "run") /\ ~active
  /\ stalls' = 0
  /\ IF stopping \/ resized
     THEN Go("main", "poll") /\ UNCHANGED back
     ELSE Go("main", "trigger") /\ back' = [back EXCEPT !.unlock = "trigger"]
  /\ UNCHANGED <<flags, quitting, screen, config, store, exited, env>>

Run ==
  /\ At("main", "run") /\ ~active
  /\ stalls' = 0
  /\ IF stopping \/ resized
     THEN Go("main", "poll") /\ UNCHANGED back
     ELSE Go("main", "unlock") /\ back' = [back EXCEPT !.unlock = "trigger"]
  /\ UNCHANGED <<flags, quitting, screen, config, store, exited, env>>

\* MUTANT: every stall counts as the first.
RunStalled_NotCounted ==
  /\ At("main", "run") /\ active /\ stalls + 1 < StallLimit
  /\ Go("main", "poll")
  /\ UNCHANGED <<back, flags, quitting, screen, config, stalls, store, exited, env>>

RunStalled ==
  /\ At("main", "run") /\ active /\ stalls + 1 < StallLimit
  /\ stalls' = stalls + 1
  /\ Go("main", "poll")
  /\ UNCHANGED <<back, flags, quitting, screen, config, store, exited, env>>

StallQuits ==
  /\ At("main", "run") /\ active /\ stalls + 1 >= StallLimit
  /\ active' = FALSE /\ stalls' = 0
  /\ Quit("main", "run")
  /\ UNCHANGED <<holds, exception, screen, config, store, exited, env>>

\* Config::unlock, which has nothing to wait for when nothing is locked.
Unlock ==
  /\ At("main", "unlock") /\ (locked => ~active)
  /\ locked' = FALSE
  /\ pending' = (pending /\ ~locked)
  /\ Go("main", back.unlock)
  /\ back' = [back EXCEPT !.unlock = "key"]
  /\ UNCHANGED <<flags, quitting, screen, stalls, store, exited, env>>

\* MUTANT: the semaphore counts.
Trigger_Counts ==
  /\ At("main", "trigger")
  /\ locked' = TRUE
  /\ token' = token + 1
  /\ Go("main", "poll")
  /\ UNCHANGED <<back, active, stopping, holds, exception, quitting, screen, pending, stalls, store, exited, env>>

Trigger ==
  /\ At("main", "trigger")
  /\ locked' = TRUE
  /\ token' = 1
  /\ Go("main", "poll")
  /\ UNCHANGED <<back, active, stopping, holds, exception, quitting, screen, pending, stalls, store, exited, env>>

(***************************************************************************)
(* Input.                                                                  *)
(***************************************************************************)
\* No key within a second, or the update timer has run out meanwhile.
NoInput ==
  /\ At("main", "poll")
  /\ Go("main", "top")
  /\ UNCHANGED <<back, flags, quitting, screen, config, stalls, store, exited, env>>

Input ==
  /\ At("main", "poll")
  /\ Go("main", IF active THEN "key" ELSE "unlock")
  /\ back' = [back EXCEPT !.unlock = "key"]
  /\ UNCHANGED <<flags, quitting, screen, config, stalls, store, exited, env>>

\* q, and the last entry of the main menu.
KeyQuit ==
  /\ At("main", "key")
  /\ Quit("main", "poll")
  /\ UNCHANGED <<active, holds, exception, screen, config, stalls, store, exited, env>>

\* A key that sets an option and redraws: the change waits while locked.
KeySet ==
  /\ At("main", "key")
  /\ Event
  /\ pending' = (pending \/ locked)
  /\ Go("main", "run")
  /\ UNCHANGED <<back, flags, quitting, screen, locked, stalls, store, exited, hung>>

\* A box, a preset: these keys wait for the runner as long as it takes.
KeyWaits ==
  /\ At("main", "key")
  /\ Event
  /\ Go("main", "idle")
  /\ UNCHANGED <<back, flags, quitting, screen, config, stalls, store, exited, hung>>

KeyBox ==
  /\ At("main", "idle") /\ ~active
  /\ pending' = (pending \/ locked)
  /\ Go("main", "run")
  /\ UNCHANGED <<back, flags, quitting, screen, locked, stalls, store, exited, env>>

\* Any other key.
KeyNothing ==
  /\ At("main", "key")
  /\ Go("main", "poll")
  /\ UNCHANGED <<back, flags, quitting, screen, config, stalls, store, exited, env>>

MainStep ==
  \/ StartPersistence \/ Publish \/ LoopTop \/ QuitOnException \/ TermResize
  \/ Fits \/ CalcSizes \/ Run \/ RunStalled \/ StallQuits
  \/ Unlock \/ Trigger \/ KeyNothing \/ KeyBox \/ Leaving("main")

\* Due and NoInput come with the timer, see Fairness; the rest needs
\* the user, whom nothing makes act.
UserStep == FitQuit \/ FitToggle \/ Input \/ KeyQuit \/ KeySet \/ KeyWaits

(***************************************************************************)
(* The collection thread of the persistence.                               *)
(***************************************************************************)
RowsLoop ==
  /\ At("rows", "loop")
  /\ Go("rows", IF stop THEN "done" ELSE "cycle")
  /\ UNCHANGED <<back, flags, quitting, screen, config, stalls, store, exited, env>>

\* gather_snapshot, insert_metrics and the sleep.  The wait for the runner gives
\* up after five seconds, so the caches are read in any case; Proc::collect
\* waits for the mutex.
RowsCycle ==
  /\ At("rows", "cycle") /\ ~holds
  /\ Go("rows", "loop")
  /\ UNCHANGED <<back, flags, quitting, screen, config, stalls, store, exited, env>>

RowsStep == RowsLoop \/ RowsCycle

(***************************************************************************)
(* The surroundings: a resize, and sensors that appear (which makes their  *)
(* thread ask for a redraw).                                               *)
(***************************************************************************)
Resize ==
  /\ ~exited /\ Event
  /\ winch' = TRUE /\ small' \in BOOLEAN
  /\ UNCHANGED <<pc, back, flags, quitting, resized, config, stalls, store, exited, hung>>

SensorsChange ==
  /\ ~exited /\ Event
  /\ resized' = TRUE
  /\ UNCHANGED <<pc, back, flags, quitting, winch, small, config, stalls, store, exited, hung>>

Next ==
  \/ RunnerStep \/ RunnerThrows \/ RunnerHangs
  \/ MainStep \/ UserStep \/ Due \/ NoInput
  \/ CtrlHandler \/ Leaving("ctrl")
  \/ RowsStep
  \/ Resize \/ SensorsChange

(***************************************************************************)
(* The threads are scheduled.  The update timer runs out again and again,  *)
(* which also ends the loop over the input, so neither can be put off for  *)
(* ever by keys.  Nobody has to press one, close the window or resize it.  *)
(***************************************************************************)
Fairness ==
  /\ WF_vars(RunnerStep) /\ WF_vars(MainStep)
  /\ SF_vars(Due) /\ SF_vars(NoInput)
  /\ WF_vars(Leaving("ctrl")) /\ WF_vars(RowsStep)

Spec == Init /\ [][Next]_vars /\ Fairness

-----------------------------------------------------------------------------
MainPlaces == {"start", "publish", "top", "stopWait", "unlock", "fit", "sizes",
               "run", "trigger", "poll", "key", "idle", "join", "joining", "save"}

\* The types of the state (the flags of btop.cpp:251-258, the configuration
\* and the persistence).
TypeOK ==
  /\ pc \in [main : MainPlaces,
             ctrl : {"idle", "returned", "stopWait", "join", "joining", "save"},
             runner : {"top", "acquire", "check", "lock", "work", "proc", "end"},
             rows : {"off", "loop", "cycle", "done"}]
  /\ back \in [unlock : {"fit", "trigger", "key"}, stop : {"join", "unlock"}]
  /\ active \in BOOLEAN /\ stopping \in BOOLEAN /\ token \in {0, 1}
  /\ holds \in BOOLEAN /\ exception \in BOOLEAN /\ hung \in BOOLEAN
  /\ quitting \in {"no", "main", "ctrl"}
  /\ resized \in BOOLEAN /\ winch \in BOOLEAN /\ small \in BOOLEAN
  /\ locked \in BOOLEAN /\ pending \in BOOLEAN
  /\ stalls \in 0 .. StallLimit - 1
  /\ published \in BOOLEAN /\ stop \in BOOLEAN /\ dbOpen \in BOOLEAN
  /\ exited \in BOOLEAN
  /\ events \in 0 .. MaxEvents

Leaves(t) ==
  \/ pc[t] \in {"join", "joining", "save"}
  \/ pc[t] = "stopWait" /\ (t = "main" => back.stop = "join")

\* Only one thread ever takes the program down, however a key, an exception, a
\* stalled runner and the closing of the console coincide (clean_quit).
QuitsOnce == \A t \in {"main", "ctrl"} : Leaves(t) => quitting = t

\* The collection thread never finds its database closed, and a process that
\* told it to stop ends after it has ended (rw_collector.cpp:289-294).
StoppedInOrder ==
  /\ pc["rows"] = "cycle" => dbOpen
  /\ exited /\ stop => pc["rows"] = "done" /\ ~dbOpen

\* The main thread waits for a runner that does not come back, or for the user
\* in front of a terminal that is too small.
MainWaits ==
  \/ /\ hung /\ active
     /\ \/ pc["main"] \in {"idle", "sizes"}
        \/ pc["main"] = "unlock" /\ locked
  \/ pc["main"] = "fit" /\ small

\* A change of an option made while the runner works reaches the options the
\* next run uses, unless the program ends or stands still (Config::unlock).
ChangesApply == pending ~> ~pending \/ quitting # "no" \/ MainWaits

\* Quitting ends the process, whichever thread quits and whatever the others
\* do, unless a collector hangs with the mutex that the collection thread
\* needs: the join of stop_persistence then never returns.
QuitEnds == quitting # "no" ~> exited \/ (hung /\ holds)

\* A runner that hangs is noticed and ends the program (btop.cpp:482-487),
\* unless the main thread has begun to wait for it without a limit.
StallEnds == hung ~> quitting # "no" \/ MainWaits

\* A resize does not stop the runs for good: the boxes are laid out again and
\* resized is reset (btop.cpp:659-669).
ResizeAnswered == resized ~> ~resized \/ quitting # "no" \/ MainWaits
=============================================================================
