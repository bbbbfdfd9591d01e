# RaidWatch: TLA+ specifications and proofs

RaidWatch watches a Windows host that runs an SPT + Project Fika game server.
A Python service (`src/raidwatch/`) gathers metrics every five seconds, stores
a scalar row in SQLite, evaluates alert gates, and pushes each snapshot to
browsers over server-sent events. A C++ port (`src/native/btop4win/`), a
terminal monitor derived from btop4win with RaidWatch's own persistence in
`src/raidwatch/`, is to replace it; both work on the same database.

This directory holds specifications of the core logic of both programs, TLC
configurations that check them on small instances, and TLAPS proofs.

    tlc -config gates.cfg MCGates.tla      # and so on, one line per run below
    tlapm GatesProofs.tla

Paths without a directory below are those of `src/raidwatch/` (`.py`) and of
`src/native/btop4win/src/` (`.cpp`).

## 1. Inventory

### The Python service

| Component | State it keeps | Operations | Talks to | What is hard |
|---|---|---|---|---|
| Collection loop, `collector.py` | `_task`, `_stop_event`, `latest`, `last_tick_ts`, `consecutive_failures`, `triggered_gates`, module failure counts | `start`, `stop`, `_run_forever`, `_cycle`, `_call_module` | modules (worker threads), database, gates, broker | a step of the cycle fails and skips the later ones; a module never returns; counts read before an await |
| Gate evaluator, `gates.py` | rows of `gate_state`, `gate_events` | `evaluate`, `_evaluate_gate` | database | two commits per transition; a monotonic time that outlives the boot it belongs to |
| Database, `database.py` | one connection, its open transaction, six tables | `connect`, inserts, upsert, `query_history`, `maybe_prune` | SQLite | a commit that fails; a crash during a migration, beside another program that migrates |
| Broker, `broker.py` | the set of bounded queues | `subscribe`, `publish`, `unsubscribe`, `close` | collector, SSE handlers | slow, stuck and reconnecting browsers; a full queue |
| SSE handler, `main.py` `api_stream` | the queue, the snapshot being written | `event_generator` | broker, socket | cancelled at any await |
| Supervisor, `supervisor.py` | `_task`, `_stop_requested` | `_run`, `start`, `stop` | collector task | the wait for a task that fails, is cancelled or stops |
| Lifespan, `main.py` | everything on `app.state` | startup, shutdown | all of them | an await of the shutdown raises |
| Health, `health.py` | none | `compute_status`, `build_health` | collector, gates | an age on the wall clock |
| Watchdog, `src/scripts/install_service.ps1` | none | NSSM restart, scheduled task | `/health` | a process that is alive and useless |
| Fika module, `modules/fika.py` | log offsets, event ring, crash streak | `gather`, `_tail_logs`, `_tail_file` | log files, processes | a log rotated between stat and read; a read that fails half way; a verdict over cycles some of which fail or are skipped |
| System and temperature modules | WHEA cache, sensor handle | `gather` | the host | I/O only |
| Configuration, authentication, data model, templates, `app.js` | configuration | loading, one comparison, rendering | | nothing concurrent |

### The C++ port

| Component | State it keeps | Operations | Talks to | What is hard |
|---|---|---|---|---|
| Main loop, `btop.cpp` | `resized`, `quitting`, the update timer | start-up, `term_resize`, the loop of `wmain`, `clean_quit` | runner, persistence, console control thread | two threads that quit at once; waits without a limit for a thread that hangs |
| Runner, `btop.cpp` `Runner` | `active`, `stopping`, a semaphore, `current_conf`, `pause_output` | `_runner`, `run`, `stop` | collectors, drawing | bounded waits on atomics instead of locks |
| Configuration, `btop_config.cpp` | the option maps, the `Tmp` maps, `locked`, `current_boxes`, `current_preset` | `set`, `lock`, `unlock`, `set_boxes`, `toggle_box`, `apply_preset` | keys, menus, runner | an option is set in the `Tmp` maps while the runner reads the others |
| Layout, `btop_draw.cpp` `calcSizes`, `get_min_size` | place and size of each box | one computation | configuration, terminal | rounded percentages must add up to the terminal |
| Menus, `btop_menu.cpp` | `menuMask`, `currentMenu`, the dialogs' own state, the overlay | `show`, `process`, the five menus, `msgBox` | configuration, runner | the overlay is drawn by a run that may end after the menu was closed |
| Process list, `Proc` in `btop_collect.cpp`, `btop_draw.cpp`, `btop_input.cpp` | `current_procs`, the selection, the details box, the filter | `collect`, `draw`, `selection`, the keys, `signalSend` | runner, configuration, WMI thread | a key moves a place, the runner finds out later which process stands there |
| Process tree, `btop_collect.cpp` | parents, collapsed and filtered marks | `_tree_gen`, `tree_sort`, the part of `collect` around them | runner | pids that outlive the process and are used again |
| Graphs, `Draw::Graph` | two shifted lines, in tty mode one, the last value, redraw flags | `_create`, `operator()`, `Cpu::draw`, `Mem::draw`, `Net::draw` | runner, collectors | samples come, or fail to, while drawing is paused, forced or skipped |
| Text fields, `Draw::TextEdit` | the text, a cursor in bytes and in characters | `command`, `operator()` | filter, options menu | two cursors that must agree |
| Collectors, `btop_collect.cpp` | the caches of `Cpu`, `Mem`, `Net`, `Proc`; `WMImutex` | `collect` of each, `WMICollect` | the system | read by a third thread |
| Persistence, `raidwatch/rw_collector.cpp`, `rw_database.cpp` | thread, stop flag, failure count, `g_state`, the database | `start`, `stop`, `run_loop`, `start_persistence`, `stop_persistence`, `open`, `migrate` | caches, runner, SQLite | it waits for the runner only so long; the join at exit |
| Themes, services list, meters, `btop.conf` | | | | no protocol |

What makes each of them correct:

- gates: never early, prompt, no flapping, a complete event log, a report that
  is the table;
- collection and its keepers: collection comes back after every fault a layer
  claims, a requested stop wins, nothing uses a closed database, what is not
  healed is reported;
- stream: never back in time, never without the newest snapshot, a slow browser
  catches up, a stuck one stalls nobody;
- log tail: each line once, none lost, no backlog; a crash of the headless
  client is noticed;
- threads of the port: one of them quits, in order; quitting ends, a changed
  option applies, a resize is answered, a hung runner is noticed;
- boxes and menus: the boxes tile the terminal, runs work on the boxes that are
  shown, nothing stands still that the user did not stop;
- process list: the selected process is the one in the highlighted row, and the
  one that is terminated was pointed at;
- tree, graphs, text: what is on the screen is what the data say;
- persistence: a whole schema, rows on time, rows with nothing older in them than
  the last run that collected every box shown.

## 2. Modules

| Module | Models | EXTENDS / INSTANCE |
|---|---|---|
| `Gates` | `gates.py`, the gate tables of `database.py`, the gate part of `Collector._cycle` | |
| `MCGates` | two gates and the readings that reach every branch | `Gates` |
| `Service` | `Collector` task, `Supervisor`, lifespan, `/health`, NSSM, watchdog | |
| `Feed` | abstract: what the stream promises each browser | |
| `Stream` | publication by the cycle, `Broker`, the SSE handlers | `INSTANCE Feed` |
| `LogTail` | `_tail_logs` and `_tail_file` of the Fika module | |
| `Fika` | `FikaModule.gather` as `_call_module` calls it: backoff, discovery, tail, crash verdict | `LogTail` |
| `Runner` | the four threads of the port and their flags | |
| `Layout` | `get_min_size` and `calcSizes` as operators | |
| `Boxes` | boxes, presets, options and menus, resizes | `Layout` |
| `Processes` | the process list, its selection, filter and details, the terminate dialog | |
| `Tree` | the tree view of the process list | |
| `Graph` | a graph and the runs, pauses and resizes that rebuild or advance it | |
| `TextEdit` | a text field | |
| `Screen` | one user at the last five | `Boxes`, `Processes`, `INSTANCE Tree, Graph, TextEdit` |
| `Recording` | the persistence of the port, the collectors' caches, the migration of both programs | |
| `GatesProofs`, `ServiceProofs`, `StreamProofs`, `FikaProofs`, `RunnerProofs`, `RecordingProofs` | theorems about the module each is named for | that module, `TLAPS` |
| `ScreenProofs` | theorems about the boxes, the menus and the process list | `Screen`, `TLAPS` |
| `DrawProofs` | theorems about text fields, graphs and the tree | `Screen`, `TLAPS` |

Definitions whose name ends in a suffix (`Due_Strict`, `Enqueue_Front`, ...)
are mistakes: each stands in front of the definition it imitates and breaks the
property it is there for, which shows that the property can fail.

### Gates

`view` is what the one shared connection reads, `disk` what a restart finds.
Every write of the code is `execute` and `commit`, so a write is one step when
it succeeds (`InsertEvent`, `Upsert`) and three outcomes when it does not
(`EvaluationFails`: nothing executed; commit failed and rolled back; commit
failed and the statement left in the open transaction, which a later commit
writes). `stage` and `cur` are the program counter of `evaluate` and its loop
variable, `pend` the local variables of `_evaluate_gate`, `firing` its list,
`active` `collector.triggered_gates`. `Decide` reads the row and takes the
decision for any reading of `Values` or none: `Decision`, `Timed`, `Due`,
`Fire`, `Clears`, `Clear` are the branches of the function. `Persist` and
`PersistFails` are the write of the metrics row, which comes first. `Restart`
is a crash at any point, with or without a reboot of the machine: a reboot moves
`boot`, the zero of `time.monotonic()`, while `last_crossed` on disk stays.

A row's `seenAt`, `streakAt` and `clearedAt` are history: they record real times
and no step reads them. Left out: the wall-clock `last_triggered_ts`, which the
service only displays; the value and severity of an event; the ratio arithmetic
of the hysteresis is done in integers (`10 * v < 9 * t`). A commit made by the
hourly prune between two cycles is `Persist` followed by whatever comes next.

### Service

One event loop, so a step runs from await to await. `coll` is the state of the
collector's task (waiting, in a cycle, stuck in a module, or how it ended),
`sup` the await the supervisor is suspended at, `main` the await of the
lifespan. `SupervisorRuns` is the loop of `_run` from a wake-up to the next
await; `SupervisorGivesUp` the two ways an exception of the collector leaves
it. `StopRequest`, `CollectorJoined` and `CloseDown` are `Supervisor.stop`,
`Collector.stop`, `Broker.close` and `Database.close` in their order, with the
exception that `await self._task` re-raises. Faults are a parameter. `Clock`
advances the age of the last tick; ages beyond the stale limit are one value.
`Watchdog` restarts a service that does not answer 200.

### Feed and Stream

`Feed` says that on every connection a browser sees snapshots that were really
gathered, in order. `Stream` has the queue of each subscriber, the snapshot its
handler is writing, and the cycle of the collector up to the publication.
The refinement mapping is the identity on `made`, `here` and `seen`.

### LogTail and Fika

Positions count lines. A poll is `Stat` and then `Read` or `ReadFails`, so the
server may append or truncate between them. `reads` counts how often each line
of the current generation of the log became an event. Lines are taken to be
written whole, and each one to be kept by the classifier.

`Fika` puts the poll into a gathering: `Discover` looks at the processes,
`Tail` takes the steps of the poll, `Decide` is the verdict of
`fika.py:86-104`. `DiscoverFails` is the exception that `_call_module` counts,
`Skip` a cycle in backoff, in which the snapshot gets the defaults. A gathering
takes only steps of `LogTail` on its variables (theorem `GatheringTails`), and
`LogTail`'s properties are checked and proved of `Fika`.

### Runner

`pc` says where each thread is: the main loop, the console control thread, the
runner, the collection thread of the persistence. A step is what a thread does
between two accesses of the flags it shares, which have the names of the code
(`active`, `stopping`, `resized`, `quitting`, the semaphore as `token`).
`atomic_wait_for` may give up at any moment, so a bounded wait whose result is
not looked at is no step; `RunStalled` is the one whose result counts.
`StopBegin` and `StopEnd` are `Runner::stop`; `Quit` to `SaveAndExit` are
`clean_quit`, taken by either thread. `Unlock` is `Config::unlock`, with
`pending` for a change that waits in the `Tmp` maps. `RunnerHangs` is a system
call that does not return, `RunnerThrows` an exception of a collector.

### Layout and Boxes

`Sizes(s, o, t)` is the arrangement for the boxes `s`, the options `o` and the
terminal `t`; `MinWidth` and `MinHeight` are `get_min_size`, `Tiles` says that
the rectangles cover each cell once. `Rounded` and `Ceiling` are the `round` and
`ceil` of the percentages, in integers.

In `Boxes` a key is one or two steps: what `Input::process` or the menu does at
once, then, where the code waits for the runner, `"sizes"` (`calcSizes`) and
`"run"` (`Runner::run`). `conf` are the options, `tmp` the options with what
waits in the `Tmp` maps, `boxes` is `current_boxes`. `ToggleBox` and
`ApplyPreset` look at the size first; `EnterBoxes` and `FlipOption`, in the
options menu, do not. `Opened`, `Switch`, `Close` are `Menu::process` with
`menuMask` and `currentMenu`. Of the runner there is what a run takes with it
(the overlay, and `Background`: `background_update` unless `tty_mode` is on) and
`pause_output`, which it sets at its end. `tty_mode` is on from the start with
`-t`; in the options menu `force_tty` switches it (`FlipOption`).

### Processes

`options` and `pending` are the options and the `Tmp` maps; `Set` chooses
between them as `Config::set` does, `Unlocked` is what `Config::unlock` makes of
them: first where the runner left the selection (`drawn`), then what was set
meanwhile. `Seen` is what a key reads. `CollectAnew` and `CollectCached` are the
two ways through `Proc::collect`, `Draw` brings the view into bounds and names
the selected process. `Up` to `End` and `Scroll` (the wheel and the scrollbar) are
`Proc::selection`. `OpenDialog` takes
the text of the dialog, `Yes` reads the option again. `crashed` marks the look-up
of the details that follows `end()`.

### Tree, Graph, TextEdit

`Tree` gives each process its parent as Windows reports it, with pids that are
used again. `CollectAnew` and `CollectCached` are as above; `TreeGen` and
`DepthFirst` are the two recursions as sets and sequences: who is visited, who is
shown, in which order; `Kept` is what a list leaves of a set, siblings or rows that
are not marked. `TreeShown` compares the rows with the definition of what
a tree shows.

`Graph` numbers the samples, so that one that is missing, repeated or shifted is
seen. `New` is the constructor, `Create` and `Update` are `Graph::_create` and
`operator()`. With braille and block symbols a cell holds two samples and the
graph has two lines, of which each sample switches to the other. With the symbols
of tty mode (`tty`: tty mode itself, or `graph_symbol` "tty", its default) it has
one line, and each sample a cell. `DrawCpu`, `DrawMem`, `DrawNet` are the
conditions under which a box builds its graph anew, advances or leaves it.
`CollectSample` is the sample a run adds, or fails to: when `GetIfEntry2` fails the
net box has none. `SetOption` changes the symbols in the options menu. `missed` is
history: it marks the two cases in which the code is known to lose samples, and
the one in which it shows one again.

`TextEdit` has texts of characters of one and two bytes; the commands are those
of `TextEdit::command`, `Shown` is what `operator()` cuts out around the cursor.

### Screen

`Screen` extends `Boxes` and `Processes` and instantiates the other three, and
lets a user have a sitting with one of them. They share the main loop, the
options and the runner, but each key concerns one of them, so a product of their
states would tell nothing more. The processes, filters and sort orders of the tree
(`TreePids`, `TreeFilters`, `Orders`) and the widths of a graph (`Widths`) are
constants of it. The names of `Processes` differ from those of
`Boxes` (`ProcRun` and `Run` are both `Runner::run`, with the arguments each
component gives it).

### Recording

Time passes in ticks of five seconds. `RunStarts` and `Collects` are the runner
with the four collectors as far as they fill caches. A run is `"whole"`, one that
collects every box shown anew, or `"part"`: with `no_update`, of one box, stopped
for a resize (`RunStopped`) or with a read that failed (`CollectNet`). Nothing
says that a whole run ever comes: `Tick` lets any number of ticks pass without
one, as `update_ms` may be a day and `term_resize` starts none while the terminal
is too small. `since` is history: the ticks since the beginning of the last whole
run that has finished. `Show` is a key that shows or hides boxes, after which
nothing is asked until the next whole run. `Gather` is `gather_snapshot`: the wait
for the runner
that gives up after one tick, then the caches, then `Proc::collect` under
`WMImutex`. `Insert`, `InsertFails`, `Sleep`, `Cadence` are the loop with its
backoff. `ReadVersion`, `Migrate`, `OpenFails` are the migration, which the
Python service makes too (`Connect`), each statement a transaction of its own.
`Crash` ends a program at any point, `DatabaseFaults` fills or frees the disk.

## 3. Runs

| Run | Instance | Distinct states | Shows |
|---|---|---|---|
| `gates` | 2 gates (`>` with duration 2, `<` with duration 1), readings beyond, inside and across the hysteresis zone and missing, 3 ticks, 2 faults | 1,853,121 | `TypeOK`, `HistoryCoversState`, `DriftBounded`, `NeverEarly`, `NoFlap`, `ReportMatchesTable`, `Prompt` |
| `service` | all five faults, three faults or stop requests | 41,790 | `TypeOK`, `NoUseAfterClose`, `StopWins`, `StaleSurfaces`, `SelfHeals` |
| `stream` | 3 browsers (1 stuck) for 2 slots, queues of 2, 4 cycles, failing writes | 60,782 | `InOrder`, `NewestKept`, `ImplementsFeed`, `CatchesUp`, `CyclesEnd` |
| `log_tail` | 3 lines, 1 rotation, 1 failing read, backoff of 2 after 2 failures | 324,224 | `ShownFromStart`, `NoRepeat`, `Tails`, `CrashNoticed` |
| `native` | 2 events (hangs, exceptions, resizes, sensors, keys), 2 stalls | 190,829 | `TypeOK`, `QuitsOnce`, `StoppedInOrder`, `ChangesApply`, `QuitEnds`, `StallEnds`, `ResizeAnswered` |
| `screen` | 2 terminals, 3 presets, 1 flipped option; 3 processes in 2 rows with 3 keys; 3 processes in a tree; a graph of each of the three boxes in 2 columns, with and without the symbols of tty mode, no samples or a full deque and 2 more; 5 characters | 1,985,834 | `ScreenTypeOK`, `BoxesTile`, `BoxesAgree`, `PausedByChoice`, `GraphShowsData`, `SelectionNamed`, `KillsPointedAt`, `TreeShown`, `FieldShowsCursor` |
| `recording` | 2 statements, backoff of 2 ticks after 2 failures, 2 faults; every box shown or cpu alone | 4,111,939 | `SchemaWhole`, `RowsOnTime`, `RowsCurrent` |
| `gates_sustained` | 1 gate, no faults | violation | one spike starts the clock for all later ones |
| `gates_reboot` | 1 gate, 1 reboot | violation | a gate that waits for the old uptime after a reboot |
| `service_hang` | 1 hung module | violation | a hung module is never restarted |
| `log_rotate` | 1 rotation | violation | lines lost after a rotation |
| `terminate` | the process list with 4 keys | violation | the dialog terminates a process it does not name |

Why the bounds are enough. *Gates*: in three ticks a gate of duration 1 fires,
clears and fires again, and a gate of duration 2 fires after a fault; the second
fault can hit the repair of the first (two events for one transition, a commit
of what an earlier failure left behind). A decision looks at one row and one
reading, so the second gate is there for the order of the loop and the report.
*Service*: three faults let one fault strike the recovery from another, and a
stop request arrive during either. *Stream*: queues of two overflow in four
cycles with one snapshot in the handler's hand; three browsers for two slots
make one wait for a slot to be freed. *Log*: the new log outgrows the old
offset, and the failing read can fall before or after the rotation; the verdict
needs two cycles, which discoveries that fail and a backoff separate. The tail by
itself holds with 5 lines, 2 rotations and 2 failing reads. *Native*: two events
let one hit the handling of another (an exception in a run that a resize
interrupts, a hang after a key). Two stalls instead of the twelve of the code
keep the counting. *Screen*: the two terminals are the smallest one for all boxes
and one a column too narrow for the process list; that the boxes tile is proved
for every size. Three processes in two rows scroll, a details box leaves one
row; three keys reach an open dialog over a list that changes below it, a fourth
(`terminate`) answers it. Two orders, one the reverse of the other, and filters
up to their symmetry reach every shape of a tree of three. A graph starts empty
or with a full deque, and none, one or two samples follow, which is an odd and an
even number; another interface brings a deque of one. Two columns give the line
a cell that stays when another one goes. (No graph of the program is narrower
than five columns, and a resize, which builds it anew, does so whatever its
width; the proof is for every width above one.) The ways to redraw, replace and
pause a run are not bounded.
*Recording*: two statements leave a half made schema and a whole one without its
version, where the other program may come in or a crash; one fault can hit the
recovery from the other. Ages are told apart up to two ticks, one more than a
hang that is waited for once.

`CHECK_DEADLOCK FALSE` is used where the system may really stop, or where a bound
on the user ends the model: `stream` (after `Close` with every browser gone),
`native` (the process has ended), `screen` and `terminate` (every process of the
tree has ended and none may start any more, both samples are taken and the graph
needs another, the field holds all the characters it may, or the list is
`crashed`).

Fairness. `Service`: weak fairness of the tasks (asyncio runs every ready task),
of time, of NSSM and of the scheduled task; none of the faults, of stop
requests or of the return of a hung thread. `Stream`: weak fairness of the
collector and, per connection, of the handler; no browser has to connect, stay
or drain its socket, so `CatchesUp` speaks only of browsers outside `Stuck`.
`Fika`: the collector keeps cycling (weak), and not every discovery raises
(strong fairness of `Discover`: an error of one pass over the processes does not
make the next one fail); nothing makes the server log or the programs start.
`Runner`: the threads are scheduled (weak); the update timer runs out again and
again and ends the loop over the input (strong fairness of `Due` and `NoInput`:
both are disabled while the main thread is elsewhere, and the clock does not
stop meanwhile); nothing makes the user act, and nothing makes a hung call
return. The other specifications state safety only.

## 4. Proofs

Each theorem holds for every value of the constants its module assumes, in
particular for any bound on faults, keys, events and time.

| Theorem | Property | Inductive invariant |
|---|---|---|
| `GatesProofs`: `TypeCorrect` | `TypeOK` | itself |
| `FiringIsNeverEarly`, `ClearedGateWaits`, `LastingCrossingFires` | `NeverEarly`, `NoFlap`, `Prompt` | `TimedInv` |
| `HistoryIsComplete`, `DriftIsBounded` | `HistoryCoversState`, `DriftBounded` | `HistoryInv` |
| `ReportIsTable` | `ReportMatchesTable` | `ReportInv` |
| `ServiceProofs`: `TypeCorrect` | `TypeOK` | `TypeInv` |
| `ClosedLast`, `StopIsFinal` | `NoUseAfterClose`, `StopWins` | `ShutdownInv` |
| `StreamProofs`: `BoundsHold` | the types and bounds of `Stream` | itself |
| `NeverBackInTime`, `TheNewestIsKept` | `InOrder`, `NewestKept` | `StreamInv` |
| `StreamImplementsFeed` | `ImplementsFeed` | `StreamInv` |
| `FikaProofs`: `GatheringTails` | a gathering takes only steps of `LogTail` | none |
| `LinesAreNotRepeated`, `ShownIsWhole` | `NoRepeat`, `ShownFromStart` | `TailInv` |
| `RunnerProofs`: `TypeCorrect` | `TypeOK` | `Types` |
| `OneThreadQuits` | `QuitsOnce` | itself, with `Types` |
| `StopsInOrder` | `StoppedInOrder` | `StopInv` |
| `ScreenProofs`: `RunsWorkOnShownBoxes` | `BoxesAgree` | `ArrangedInv` |
| `PauseIsChosen` | `PausedByChoice` | `PauseInv` |
| `BoxesFillTerminal` | `BoxesTile` | `SizedInv` and the lemma `SizesTile` |
| `HighlightedIsNamed`, `PointedAtIsTerminated` | `SelectionNamed`, `KillsPointedAt` | `ProcessesInv` |
| `ScreenIsTyped` | `ScreenTypeOK` | `ArrangedInv`, `BoxTypes`, `MenusInv`; `ProcessesInv`, `TypesInv` |
| `ScreenIsBoxes`, `ScreenIsProcesses`, `ScreenIsSafe` | `Screen` takes only steps of `Boxes` and of `Processes` on their variables, so their properties are its own | none |
| `DrawProofs`: `FieldIsShown` | `FieldShowsCursor` | `FieldInv` |
| `GraphIsData` | `GraphShowsData` | `GraphInv` |
| `TreeIsShown` | `TreeShown` | `TreeInv` |
| `RecordingProofs`: `SchemaIsWhole` | `SchemaWhole` | `SchemaInv` |
| `RowsComeOnTime` | `RowsOnTime` | `TimeInv` |
| `RowsAreCurrent` | `RowsCurrent` | `CurrentInv` |

They assume what the modules assume of their constants (`GatesAssumption`,
`ServiceAssumption`, ...; `BoxesAssumption` and `ProcessesAssumption` as
hypotheses, `ScreenAssumption` for the whole screen): types, positive durations,
widths (those of a graph above one) and limits, finitely many processes in a tree,
each once in every order. TLC evaluates each of these in the runs.

- *Gates.* `TimedInv` says of every row, on the connection, on disk and in
  `pend`: a timed crossing never looks older than it is
  (`seenAt <= lastCrossed + boot`; a reboot only moves `boot` forward), looks
  exactly its age if it is later than the last boot, is later than the last
  clear, and not later than the run of crossings that still goes on.
  `DecisionTimed` shows that a decision preserves this and what it implies for a
  decision that fires or does not. `HistoryInv`: between an event and its upsert
  the log is one ahead of the row, so the bound is `faults + 1` at stage
  `"upsert"`; while an evaluation is under way connection and disk agree; and at
  `"event"` the decided row differs from the stored one by one transition.
  `ReportInv`: of the gates already evaluated, exactly those are reported whose
  row is triggered.
- *Service.* `ShutdownInv` orders the shutdown: once the lifespan is past the
  collector nothing of it is left and the supervisor has been cancelled, and
  once it has closed the database the supervisor has ended.
- *Stream.* `StreamInv` says of each connection that what its browser has seen,
  what its handler holds and what its queue holds are each before the next, and
  each a published snapshot or the one the connection began with; and that the
  newest of them is no older than the newest published one. The order at the
  two ends of the queue is in the lemmas `OrderPublished` (an enqueue, with the
  loss of the oldest) and `OrderTaken`. The refinement follows from the order of
  what is seen and what is in hand.
- *Fika.* `TailInv` ties the offset to the lines read: between two steps of a poll
  `from` is the offset, no line beyond it was read except by reads that failed,
  and until a rotation tailing began at or before it.
- *Runner.* `QuitsOnce` is inductive because the exchange of `quitting` is the
  only way into the last part of `clean_quit`. `StopInv` adds that the collection
  thread has its database while it runs, that nothing is published while the main
  thread still starts it, and that whoever has told it to stop still waits for
  it, or it has ended and the database is closed.
- *Boxes.* `ArrangedInv` keeps the types of the options with `BoxesAgree`;
  `PauseInv` includes the runs under way that will pause the output: theirs too
  comes from a user who has `background_update` off or is in tty mode, or
  `calcSizes` is about to end it;
  `SizedInv` says which options the last layout was made with. That layouts tile
  is arithmetic: `Columns`, `CpuLines` and `Lines` bound the widths and heights
  and show that they add up, `Places` puts the boxes side by side.
- *Processes.* `NamedInv`: the option names the process highlighted by the last
  draw or by the one before it, and exactly the last one between an unlock and a
  run. `OptionsInv` keeps the selected process out of the `Tmp` maps, which is
  what lets an unlock replace it.
- *Text fields.* `FieldInv` says that the two cursors stand at the same place: `pos`
  is a cut of the text, between two characters, and `upos` is the number of
  characters before it (`Cut`, `Count`). `CutUnique` and `CutExists` make one from
  the other; `UresizeCuts` and `LuresizeCuts` say that the two functions that
  shorten a text cut it between characters, from either end, for a text of any
  length.
- *Graphs.* `Picture(d, w, s, c)` is what the samples `d` look like in `w` columns,
  `s` samples ago, and `TtyPicture(d, w, s)` the same in tty mode. `NewIsPicture`
  and `NewIsTtyPicture` say that a graph built anew is the picture of its
  data, `UpdateIsPicture` and `UpdateIsTtyPicture` that one more sample makes the
  next picture of the last one, whichever of the two shifted lines is on.
  `GraphInv`: the graph is the picture of the data, behind by the sample that a run
  under way is about to draw, or a redraw is owed or the code is known to have
  lost or repeated a sample (`GraphOwed`). `GraphFed` is needed beside it: who
  advances a graph has a sample, or is to show the last one again, and a box that
  never had one still waits for its first redraw. The widths are those above one
  (`GraphAssumption`).
- *Tree.* `TreeInv` has two parts. `TreeLinked`: the parents remembered are
  processes that were found, and so are the collapsed ones. `TreeMarked`: unless the
  marks are stale or the code is known to fail, those marked are the processes
  filtered out and those below a collapsed one, `filter_found` is their number,
  and the rows are the rest in depth-first order. That the code's ancestors are all
  there are is the pigeonhole principle (`ChainDistinct`, `ChainEnds`: a chain of
  parents that repeats has a process above itself). The order is shown with
  `Block`: a list of processes, each above what is below it, that leaves out
  nothing below any of them. Two blocks that share nothing make a block
  (`TwoBlocks`), so do the blocks of siblings (`ManyBlocks`, `JoinedBlock`) and a
  process with the blocks of its children (`RootedBlock`); `WalkBlocks` climbs from
  the leaves, and `DepthFirstBlock` concludes that the tree in depth-first order is
  a block of all processes. To leave rows out keeps the order (`KeptNested`).
- *Types of the screen.* `MenusInv` adds to the types how the open menus and the
  current one belong together; `TypesInv` adds to those of the process list the
  types of the options in both maps.
- *Recording.* `SchemaInv` adds to `SchemaWhole` the types it rests on; the
  property is inductive because the version is set last and a statement is passed
  over only when its object exists. `TimeInv` bounds the ticks until the next
  attempt to write a row: added to the age of the last row they stay within 2, or
  added to the ticks since the last fault within the backoff and the wait.
  `CurrentInv` says of a whole run that what it has passed is no older than the run
  itself; `NextIsFirst` says that a run leaves no shown box out, so that when it
  ends all of them are no older than its beginning, and all of them age alike
  until the next one. A run that is not whole may make some of them newer.

What a recursive function computes is proved by induction over the numbers, in the
form of a set: `Induction` says that a set of numbers with 0 and with the successor
of each is all of them, `LeastOf` that every other set has a least element, and
`Recursion` that a function defined from each value to the next exists. With them
the lemmas about texts, lists and the walk of the tree hold for every length.

Only model-checked is every liveness property: `StaleSurfaces`, `SelfHeals`,
`CatchesUp`, `CyclesEnd`, `Tails`, `CrashNoticed`, `ChangesApply`, `QuitEnds`,
`StallEnds`, `ResizeAnswered`. They rest on fairness, which is defined by
`ENABLED`, and the prover does not reason about that. The runs marked as a
violation refute what a document says, so there is nothing to prove of them. All
invariants, action properties and the refinement that a run checks are proved.

## 5. Where code and documentation disagree, and what else was met

Five have a run:

- `gates.py:192`: only the clear of a triggered gate resets `last_crossed`, so
  the duration does not have to be sustained (`gates_sustained`).
- `gates.py:154`: `last_crossed` is a persisted monotonic time, which
  `ARCHITECTURE.md:126` rules out; after a reboot a gate is late (`gates_reboot`).
- `main.py:103`, `install_service.ps1:109`: `/health` answers 200 in every state,
  so the watchdog does not see a hung collection (`service_hang`).
- `fika.py:364`: the offset reset at a rotation is dropped (`log_rotate`).
- `btop_menu.cpp:799`: the dialog terminates the process that stands in the
  selected row when Yes is pressed, not the one its text names (`terminate`).

Of the Python service, without a run:

- `gates.py:31`: `COOLDOWN_SECONDS` is never read; a gate whose metric is missing
  once clears and may alert again within 30 minutes (`gates.py:14`).
- `supervisor.py:80`: a cancelled collector ends the supervisor, against
  `supervisor.py:3`; a stop then raises in `collector.py:108` and skips the
  close of broker and database (`main.py:76`).
- `collector.py:154`: a failing write skips the publication, against
  `ARCHITECTURE.md:18`.
- `fika.py:347`: the snapshot gets the oldest 50 events of a poll, not the
  newest; `fika.py:387`: `ensure_future` in a worker thread raises, so no event
  is stored.
- While a module fails or is in backoff its snapshot holds defaults
  (`headless_crashed` is false), which look like values.
- `collector.py:115`: the age of the last tick is wall-clock time, against
  `ARCHITECTURE.md:127`.
- `database.py:352`: the first bucket of a history query is partial, and its
  time lies before the range.

Of the C++ port. Where they touch a property, the model has them and the
property says how far it goes:

- Boxes: without `cpu_wide` the cpu box is laid over a process box at the left
  (`CpuOverProcs`); `shown_boxes` typed in the options is not compared with the
  terminal, and an empty one leaves `current_boxes` as it was; the options menu
  in a terminal shrunk to 11 or 12 lines divides by zero (`btop_menu.cpp:1229`).
- Pause: a run under way when `background_update` is off sets `pause_output`
  after the menu has been closed (`btop.cpp:433`). With `-t`, or `force_tty` in the
  options, the boxes pause behind a menu although `background_update` is on
  (`btop.cpp:507`); `force_tty`, unlike `background_update`, ends a pause only by the
  layout it brings with it.
- A run that has not woken within 10 ms is replaced by the next one
  (`btop.cpp:500`), with its forced redraw: `missed` in `Graph`. `Net::draw` does
  not advance a graph while the interface is down, though samples are stored, and
  advances it when `GetIfEntry2` has failed and there is none: the last sample is
  then shown twice (`btop_collect.cpp:1654`, `btop_draw.cpp:1061`).
- Process list: `_collect_details` follows `end()` when the process has gone
  (`crashed`), and `locate_selection` does the same; the filter is edited by the
  main thread while the runner draws it.
- Tree: collapsed children reappear with a re-sort that does not collect
  (`stale`); after the reuse of a pid a process may be its own ancestor and is
  then in no row; `tree_sort` passes a bool as `index_max`.
- Waits: `stop` leaves a token in the semaphore, which gives one stray run; a
  runner that hangs with `WMImutex` makes the join at exit wait for ever (the
  exception in `QuitEnds`); `atomic_lock` (`btop_tools.cpp:519`) overwrites the
  value it expects, so that its second try always succeeds; a change that waits in
  the `Tmp` maps when the program quits is lost; a console closed before
  `g_state` is published stops no persistence.
- Rows: hidden boxes repeat their last value, and so does an interface whose
  `GetIfEntry2` fails; while `update_ms` is longer than five seconds (up to a day),
  or `term_resize` waits for a larger terminal (`btop.cpp:167`), rows go on every
  five seconds with the values of the last run. `RowsCurrent` counts from the last
  run that collected every box shown, however long ago that was. A runner that
  hangs while it holds `WMImutex` holds up the rows as well (left out of
  `RowsOnTime`). `rw_collector.hpp:14` and `rw_collector.cpp:119` say that the next
  cycle comes an interval after the end of the last one; it comes an interval after
  its beginning. The caches are read without a lock
  once the wait for the runner gives up; the port opens the database with
  `journal_mode=DELETE` beside a service that uses WAL, and a locked database
  switches its persistence off until the next start; it never prunes.
- Sensors: `OHMR_collect` publishes its values before the flags that say which
  there are; `WMICollect` runs in a detached thread without a handler for
  exceptions.

## 6. Not modelled, and why

- System and temperature modules, the services list, the queries to Windows in
  the collectors: I/O without a protocol of their own. The rest of the port sees
  of them that they take time, hang or throw, which the modules have.
- Themes, meters, wording and the inside of a box: output computed from data that
  the properties do not tell apart. Parsing and writing `btop.conf` and
  `config.yaml`: values only; that the latter may be half written is in
  `Recording`.
- History queries, pruning, the values of a row: single statements or a
  projection, with no state between them.
- The process-table timer of the collector, authentication, data classes,
  templates, `app.js`, scripts run by hand: a flag, a comparison, or rendering.
- Third-party code (`robin_hood.h`, `widechar_width.hpp`, SQLite, LibreHardware-
  Monitor): used as a map, a table, a store, a sensor.

What would come next: the tree's jump of the selection after a collapse
(`locate_selection`) joined with `Processes`; history buckets as operators
against a reference definition; the sensors' flags beside `Runner`.
