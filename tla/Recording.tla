----------------------------- MODULE Recording ------------------------------
(***************************************************************************)
(* What the C++ port stores: RwCollector and RwDatabase                    *)
(* (src/native/btop4win/src/raidwatch), reading what the runner's          *)
(* collectors (btop_collect.cpp) left behind, in a database that the       *)
(* Python service opens too (src/raidwatch/database.py).                   *)
(*                                                                         *)
(* Time passes in ticks of five seconds, the interval of the collection    *)
(* and the longest it waits for the runner.  What takes less is done       *)
(* within a tick; only a runner that hangs in a collector lets ticks pass. *)
(***************************************************************************)
EXTENDS Integers, FiniteSets

CONSTANTS
  Statements, \* statements of kMigrations, each one a transaction
  Threshold,  \* kBackoffThreshold
  Backoff,    \* kBackoffSeconds, in ticks
  MaxFaults   \* bound: faults of the disk, the runner and the process

ASSUME RecordingAssumption ==
  /\ Statements \in Nat \ {0} /\ Threshold \in Nat \ {0}
  /\ Backoff \in Nat \ {0} /\ MaxFaults \in Nat

Openers == {"terminal", "service"}
\* The tables and indexes the statements make.
Schema == 1 .. Statements
\* What a row is made of, the processes apart.
Sources == {"cpu", "mem", "net"}
Order == <<"cpu", "mem", "net", "proc">>

VARIABLES
  config,   \* data/config.yaml: "none", "partial" or "whole"
  version,  \* PRAGMA user_version
  made,     \* the statements of the migration whose objects exist
  opener,   \* where each program is in opening the database
  faulty,   \* the database takes no rows: the disk is full, or it is locked
  shown,    \* the boxes the runner collects
  age,      \* ticks since each source was collected
  runner,   \* where the runner is in its run, from 1 to 4, or 0
  kind,     \* "whole": the run collects every box anew that is shown; or "part"
  begun,    \* ticks since it began
  hung,     \* the runner does not return from a system call
  wmi,      \* the WMI thread: "wait", "query" or "store"
  wanted,   \* it has been asked for another query
  loop,     \* where the thread of RwCollector is
  left,     \* ticks it still sleeps
  waited,   \* ticks of its cycle
  failures, \* consecutive_failures, as far as they count
  gap, quiet, \* history: ticks since the last row and the last fault of the
            \* database
  since,    \* history: ticks since the beginning of the last whole run that has
            \* finished
  faults

disk == <<config, version, made>>
collectors == <<shown, age, runner, kind, begun, hung, wmi, wanted, since>>
cycle == <<loop, left, waited, failures>>
history == <<gap, quiet>>
vars == <<disk, opener, faulty, collectors, cycle, history, faults>>

AtMost(n, max) == IF n > max THEN max ELSE n

\* Ages are counted as far as the properties tell them apart.
Old == 2
Older(n) == AtMost(n + 1, Old)
\* "all" the boxes that are shown, in their order, from the n-th on.
Next4(n) == LET later == {i \in n .. 4 : Order[i] \in shown}
            IN  IF later = {} THEN 0 ELSE CHOOSE i \in later : \A j \in later : i <= j
AtSource(s) == runner > 0 /\ Order[runner] = s

\* WMImutex: held by the runner and by RwCollector in Proc::collect, and by the
\* WMI thread when it stores what it has found.
Locked == AtSource("proc") \/ loop = "proc" \/ wmi = "store"

\* The boxes that may be shown: every one, or the cpu box alone.
Choices == {{"cpu", "mem", "net", "proc"}, {"cpu"}}

\* What a process has in its memory when it starts: Shared::init has collected
\* cpu and mem once, and asked for the first query.
Fresh ==
  /\ age' = [s \in Sources |-> IF s \in shown \ {"net"} THEN 0 ELSE Old]
  /\ runner' = 0 /\ kind' = "part" /\ begun' = 0 /\ hung' = FALSE
  /\ wmi' = "wait" /\ wanted' = TRUE
  /\ loop' = "off" /\ left' = 0 /\ waited' = 0 /\ failures' = 0
  /\ gap' = 0 /\ quiet' = 0 /\ since' = Old

Init ==
  /\ config \in {"none", "whole"} /\ version = 0 /\ made = {}
  /\ opener = [o \in Openers |-> "off"]
  /\ faulty = FALSE /\ faults = 0
  /\ shown \in Choices
  /\ age = [s \in Sources |-> IF s \in shown \ {"net"} THEN 0 ELSE Old]
  /\ runner = 0 /\ kind = "part" /\ begun = 0 /\ hung = FALSE
  /\ wmi = "wait" /\ wanted = TRUE
  /\ loop = "off" /\ left = 0 /\ waited = 0 /\ failures = 0
  /\ gap = 0 /\ quiet = 0 /\ since = Old

(***************************************************************************)
(* Opening the database.                                                   *)
(***************************************************************************)
\* load_config: a missing file is made first, from the example or the
\* defaults.  A file that a crash left half written is read like any other: it
\* may be refused, which ends start_persistence and not the program.
LoadConfig ==
  /\ \/ /\ opener["terminal"] = "off" /\ config = "none"
        /\ config' = "partial" /\ opener' = [opener EXCEPT !["terminal"] = "config"]
     \/ /\ opener["terminal"] = "config"
        /\ config' = "whole" /\ opener' = [opener EXCEPT !["terminal"] = "version"]
     \/ /\ opener["terminal"] = "off" /\ config # "none" /\ UNCHANGED config
        /\ \/ opener' = [opener EXCEPT !["terminal"] = "version"]
           \/ config = "partial" /\ opener' = [opener EXCEPT !["terminal"] = "disabled"]
  /\ UNCHANGED <<version, made, faulty, collectors, cycle, history, faults>>

Connect ==
  /\ opener["service"] = "off"
  /\ opener' = [opener EXCEPT !["service"] = "version"]
  /\ UNCHANGED <<disk, faulty, collectors, cycle, history, faults>>

\* user_version decides whether there is anything to migrate.
ReadVersion(o) ==
  /\ opener[o] = "version"
  /\ opener' = [opener EXCEPT ![o] = IF version = 0 THEN "migrate" ELSE "open"]
  /\ UNCHANGED <<disk, faulty, collectors, cycle, history, faults>>

\* MUTANT: the version is set as soon as a table has been made.
Migrate_VersionFirst(o) ==
  /\ opener[o] = "migrate" /\ ~faulty
  /\ IF made # Schema
     THEN /\ \E s \in Schema : made = 1 .. s - 1 /\ made' = made \cup {s}
          /\ version' = 1 /\ UNCHANGED opener
     ELSE version' = 1 /\ opener' = [opener EXCEPT ![o] = "open"] /\ UNCHANGED made
  /\ UNCHANGED <<config, faulty, collectors, cycle, history, faults>>

\* One statement at a time, in order: CREATE ... IF NOT EXISTS passes over what
\* is there already, and user_version comes last.
Migrate(o) ==
  /\ opener[o] = "migrate" /\ ~faulty
  /\ IF made # Schema
     THEN /\ \E s \in Schema : made = 1 .. s - 1 /\ made' = made \cup {s}
          /\ UNCHANGED <<version, opener>>
     ELSE version' = 1 /\ opener' = [opener EXCEPT ![o] = "open"] /\ UNCHANGED made
  /\ UNCHANGED <<config, faulty, collectors, cycle, history, faults>>

\* A statement fails: the terminal does without persistence, the service ends.
OpenFails(o) ==
  /\ opener[o] \in {"version", "migrate"} /\ faulty
  /\ opener' = [opener EXCEPT ![o] = IF o = "terminal" THEN "disabled" ELSE "off"]
  /\ UNCHANGED <<disk, faulty, collectors, cycle, history, faults>>

\* start: the thread begins its first cycle.
Start ==
  /\ opener["terminal"] = "open" /\ loop = "off"
  /\ loop' = "wait" /\ waited' = 0 /\ gap' = 0 /\ quiet' = 0
  /\ UNCHANGED <<disk, opener, faulty, collectors, left, failures, faults>>

(***************************************************************************)
(* The runner.  A run of the update timer collects every box that is       *)
(* shown; it comes every update_ms, from a tenth of a second to a day, and *)
(* not at all while the terminal is too small.  A run a key has asked for  *)
(* takes what is there (no_update), or collects its own box alone.         *)
(***************************************************************************)
RunStarts ==
  /\ runner = 0 /\ runner' = Next4(1)
  /\ kind' \in {"whole", "part"} /\ begun' = 0
  /\ UNCHANGED <<disk, opener, faulty, shown, age, hung, wmi, wanted, since, cycle, history, faults>>

\* Runner::stop, for a resize: what comes next may be taken as it is.
RunStopped ==
  /\ kind = "whole" /\ kind' = "part" /\ begun' = 0
  /\ UNCHANGED <<disk, opener, faulty, shown, age, runner, hung, wmi, wanted, since, cycle, history, faults>>

\* A box is shown or hidden by a key, which waits for the runner.  What a box
\* that was hidden has left counts as old.
Show ==
  /\ runner = 0 /\ shown' \in Choices \ {shown} /\ since' = Old
  /\ age' = [s \in Sources |-> IF s \in shown \cap shown' THEN age[s] ELSE Old]
  /\ UNCHANGED <<disk, opener, faulty, runner, kind, begun, hung, wmi, wanted, cycle, history, faults>>

\* On to the next box; WMImutex must be free for the last one.
Leaves(k) ==
  /\ runner' = Next4(runner + 1)
  /\ kind' = IF runner' = 0 THEN "part" ELSE k
  /\ begun' = IF kind' = "whole" THEN begun ELSE 0
  /\ since' = IF k = "whole" /\ runner' = 0 THEN begun ELSE since
Enters == runner' = 4 => wmi # "store" /\ loop # "proc"

\* What a run makes of a source: a whole one collects it.
New(s) == age' \in IF kind = "whole" THEN {[age EXCEPT ![s] = 0]} ELSE {age, [age EXCEPT ![s] = 0]}

\* MUTANT: values that are there are never collected again.
CollectCpu_Cached ==
  /\ AtSource("cpu") /\ ~hung /\ Leaves(kind) /\ Enters
  /\ UNCHANGED <<age, wanted>>

CollectCpu ==
  /\ AtSource("cpu") /\ ~hung /\ Leaves(kind) /\ Enters
  /\ New("cpu")
  /\ UNCHANGED wanted

CollectMem ==
  /\ AtSource("mem") /\ ~hung /\ Leaves(kind) /\ Enters
  /\ New("mem")
  /\ UNCHANGED wanted

\* When GetIfEntry2 fails an interface keeps the speeds it had.
CollectNet ==
  /\ AtSource("net") /\ ~hung
  /\ \/ Leaves(kind) /\ New("net")
     \/ Leaves("part") /\ UNCHANGED age
  /\ Enters
  /\ UNCHANGED wanted

\* A process the WMI thread does not know yet is asked for.
CollectProc ==
  /\ AtSource("proc") /\ ~hung /\ Leaves(kind)
  /\ wanted' \in {wanted, wanted \/ wmi = "wait"}
  /\ UNCHANGED age

Collects ==
  /\ CollectCpu \/ CollectMem \/ CollectNet \/ CollectProc
  /\ UNCHANGED <<disk, opener, faulty, shown, hung, wmi, cycle, history, faults>>

\* A system call or sensor does not return.  (One that holds WMImutex holds up
\* the rows as well; that is not shown here.)
Hangs ==
  /\ runner \in 1 .. 3 /\ ~hung /\ faults < MaxFaults /\ faults' = faults + 1
  /\ hung' = TRUE
  /\ UNCHANGED <<disk, opener, faulty, shown, age, runner, kind, begun, wmi, wanted, since, cycle, history>>

Returns ==
  /\ hung /\ hung' = FALSE
  /\ UNCHANGED <<disk, opener, faulty, shown, age, runner, kind, begun, wmi, wanted, since, cycle, history, faults>>

\* The WMI thread: a query when one is asked for, between two runs, and the
\* result under WMImutex.
WMICollect ==
  /\ \/ wmi = "wait" /\ wanted /\ runner = 0 /\ wmi' = "query" /\ wanted' = FALSE
     \/ wmi = "query" /\ ~Locked /\ wmi' = "store" /\ UNCHANGED wanted
     \/ wmi = "store" /\ wmi' = "wait" /\ UNCHANGED wanted
  /\ UNCHANGED <<disk, opener, faulty, shown, age, runner, kind, begun, hung, since, cycle, history, faults>>

(***************************************************************************)
(* RwCollector::run_loop: gather, project, insert, sleep.                  *)
(***************************************************************************)
InCycle(from, to) == loop = from /\ loop' = to

\* MUTANT: the runner is waited for, however long it takes.
Await_Forever == runner = 0

\* atomic_wait_for(Runner::active, true, 5000)
Await == runner = 0 \/ waited > 0

\* The sources one after the other; the runner may start again meanwhile.  Cpu
\* and Mem::collect(true) return what there is, Net::current_net is read as it is.
Gather ==
  /\ \/ InCycle("wait", "read") /\ Await
     \/ InCycle("read", "proc") /\ ~Locked
     \/ InCycle("proc", "insert")
  /\ UNCHANGED <<disk, opener, faulty, shown, age, runner, kind, begun, hung, wmi, wanted, since,
                 left, waited, failures, history, faults>>

\* The next cycle begins cadence_seconds after this one did.
Cadence(n) == IF n >= Threshold THEN Backoff ELSE 1
Sleep(n) == left' = IF Cadence(n) > waited THEN Cadence(n) - waited ELSE 0

Insert ==
  /\ InCycle("insert", "sleep") /\ ~faulty
  /\ gap' = 0 /\ failures' = 0 /\ Sleep(0)
  /\ UNCHANGED <<disk, opener, faulty, collectors, waited, quiet, faults>>

InsertFails ==
  /\ InCycle("insert", "sleep") /\ faulty
  /\ failures' = AtMost(failures + 1, Threshold) /\ Sleep(failures')
  /\ UNCHANGED <<disk, opener, faulty, collectors, waited, history, faults>>

Wakes ==
  /\ InCycle("sleep", "wait") /\ left = 0
  /\ waited' = 0
  /\ UNCHANGED <<disk, opener, faulty, collectors, left, failures, history, faults>>

\* stop sets a flag the thread looks at between the cycles and every 100 ms of
\* its sleep; the database is closed once it has ended.
Stop ==
  /\ loop = "sleep" \/ (opener["terminal"] = "disabled" /\ loop = "off")
  /\ opener' = [opener EXCEPT !["terminal"] = "off"]
  /\ Fresh
  /\ faults < MaxFaults /\ faults' = faults + 1
  /\ UNCHANGED <<disk, faulty, shown>>

(***************************************************************************)
(* Time and faults.                                                        *)
(***************************************************************************)
Sleeping == loop = "sleep" /\ left > 0
Tick ==
  /\ loop = "off" \/ Sleeping \/ (loop = "wait" /\ ~Await)
  /\ hung \/ runner = 0
  /\ wmi # "store"
  /\ age' = [s \in Sources |-> Older(age[s])] /\ since' = Older(since)
  /\ begun' = IF kind = "whole" THEN Older(begun) ELSE 0
  /\ left' = IF Sleeping THEN left - 1 ELSE left
  /\ waited' = IF loop = "wait" THEN waited + 1 ELSE waited
  /\ gap' = IF loop = "off" THEN 0 ELSE AtMost(gap + 1, 3)
  /\ quiet' = IF faulty \/ loop = "off" THEN 0 ELSE AtMost(quiet + 1, Backoff + 3)
  /\ UNCHANGED <<disk, opener, faulty, shown, runner, kind, hung, wmi, wanted, loop, failures, faults>>

DatabaseFaults ==
  /\ faulty' = ~faulty /\ quiet' = 0
  /\ faulty \/ faults < MaxFaults
  /\ faults' = IF faulty THEN faults ELSE faults + 1
  /\ UNCHANGED <<disk, opener, collectors, cycle, gap>>

\* A program ends at any point, the terminal also through a race of RwCollector
\* with the runner in the same collector, or of an exception in the WMI thread.
Crash(o) ==
  /\ opener[o] # "off" /\ faults < MaxFaults /\ faults' = faults + 1
  /\ opener' = [opener EXCEPT ![o] = "off"]
  /\ IF o = "terminal" THEN Fresh /\ UNCHANGED shown ELSE UNCHANGED <<collectors, cycle, history>>
  /\ UNCHANGED <<disk, faulty>>

Next ==
  \/ LoadConfig \/ Connect \/ Start
  \/ \E o \in Openers : ReadVersion(o) \/ Migrate(o) \/ OpenFails(o) \/ Crash(o)
  \/ RunStarts \/ RunStopped \/ Show \/ Collects \/ Hangs \/ Returns \/ WMICollect
  \/ Gather \/ Insert \/ InsertFails \/ Wakes \/ Stop
  \/ Tick \/ DatabaseFaults

Spec == Init /\ [][Next]_vars

-----------------------------------------------------------------------------
\* A schema that says it is of version 1 has every table and index of it, and a
\* program works on no other, whoever crashes in whichever statement and whoever
\* else migrates at the same time (rw_database.cpp:145-151, database.py:153-166).
SchemaWhole ==
  version = 1 \/ (\E o \in Openers : opener[o] = "open") => made = Schema

\* Rows come every five seconds, and at most five later if the runner hangs;
\* after faults of the database the rows are back at that rate within the
\* backoff and the wait (rw_collector.cpp:84-126, rw_collector.hpp:76-80).  A
\* runner that hangs while it holds WMImutex is left out: it holds up the rows
\* for as long as it hangs.
RowsOnTime == loop # "off" /\ quiet > Backoff + 2 => gap <= 2

\* However rarely the timer's runs come, and whatever keys, stops, hangs and
\* failed reads come between them: of a box that is shown, a row holds nothing
\* older than the last run that collected all of the boxes shown.  (That may be
\* long ago: for as long as update_ms is, or the terminal is too small, the rows
\* repeat what there is.  Of a box that is hidden a row holds the last value
\* there was; rw_collector.cpp:133-251, btop.cpp:167-192, 676-681.)
RowsCurrent ==
  loop = "read" => \A s \in Sources \cap shown : age[s] <= since
=============================================================================
