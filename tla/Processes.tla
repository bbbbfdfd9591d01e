----------------------------- MODULE Processes ------------------------------
(***************************************************************************)
(* The process list and the dialog that terminates one of them: the keys   *)
(* of Input::process for the proc box, Config (lock, unlock, the Tmp maps),*)
(* Proc::selection, Proc::collect, Proc::draw and Menu::signalSend of      *)
(* src/native/btop4win/src.  The list view only: neither the tree nor the  *)
(* services.                                                               *)
(*                                                                         *)
(* The main thread moves the selection by its place on the screen; only    *)
(* the runner, when it draws, knows which process stands there.  It says   *)
(* so in Proc::selected_pid, and the next Config::unlock copies that into  *)
(* the options where the dialog reads it.                                  *)
(***************************************************************************)
EXTENDS Integers, Sequences, FiniteSets, SequencesExt

CONSTANTS
  Pids,       \* process ids
  Nobody,     \* no process, pid 0
  Rows,       \* select_max: lines of the list
  DetailRows, \* select_max - 8: lines left below the details box
  Filters,    \* the texts of the filter, as the sets of pids they match
  MaxKeys,    \* bound: keys pressed
  MaxEvents   \* bound: processes that start or end by themselves

ProcessesAssumption ==
  /\ IsFiniteSet(Pids) /\ Nobody \notin Pids
  /\ DetailRows \in Nat \ {0} /\ Rows \in Nat /\ DetailRows <= Rows
  /\ Filters \subseteq SUBSET Pids /\ Pids \in Filters
  /\ MaxKeys \in Nat /\ MaxEvents \in Nat

VARIABLES
  live,     \* the processes of the system
  procs,    \* Proc::current_procs
  rows,     \* those the filter lets through, in the order of the list
  applied,  \* Proc::current_filter and current_sort
  detail,   \* Proc::detailed: last_pid, and the status is not Stopped
  drawn,    \* Proc::start, selected and selected_pid
  before,   \* history: the selected_pid of the draw before the last one
  options,  \* Config: the options
  pending,  \* the Tmp maps
  locked,   \* Config::locked
  old,      \* old_filter, what escape goes back to
  mainAt,   \* where the main thread is
  args,     \* no_update of the run the main thread is about to start
  runnerAt, \* where the runner is
  noUpdate, \* no_update of current_conf
  asked,    \* the open menu, and the process its text names
  killed,   \* history: the last process terminated here
  crashed,  \* a reference to the end of the list was followed
  keys, events

lists == <<live, procs, rows, applied, detail>>
screen == <<drawn, before>>
config == <<options, pending, locked>>
run == <<args, runnerAt, noUpdate>>
procVars == <<lists, screen, config, old, mainAt, run, asked, killed, crashed, keys, events>>

Active == runnerAt \in {"collect", "draw"}
Key == ~crashed /\ mainAt = "input" /\ keys < MaxKeys /\ keys' = keys + 1
NoDialog == [menu |-> "none", pid |-> Nobody]

ProcInit ==
  /\ live = Pids /\ procs = {} /\ rows = <<>>
  /\ applied = [filter |-> Pids, sort |-> FALSE]
  /\ detail = [pid |-> Nobody, alive |-> FALSE]
  /\ drawn = [start |-> 0, selected |-> 0, pid |-> Nobody] /\ before = Nobody
  /\ options = [start |-> 0, selected |-> 0, pid |-> Nobody, last |-> 0, show |-> FALSE,
             detailed |-> Nobody, filter |-> Pids, filtering |-> FALSE, sort |-> FALSE]
  /\ pending = <<>> /\ locked = FALSE /\ old = Pids
  /\ mainAt = "run" /\ args = FALSE /\ runnerAt = "idle" /\ noUpdate = FALSE
  /\ asked = NoDialog /\ killed = Nobody /\ crashed = FALSE
  /\ keys = 0 /\ events = 0

(***************************************************************************)
(* The options.                                                            *)
(***************************************************************************)
\* Options that are set replace those that were.
Over(new, base) ==
  [o \in DOMAIN new \cup DOMAIN base |-> IF o \in DOMAIN new THEN new[o] ELSE base[o]]

\* MUTANT: a selected process is not replaced by the one drawn since.
Unlocked_KeepsPid ==
  IF locked THEN Over(pending, [options EXCEPT !.start = drawn.start, !.selected = drawn.selected,
                                        !.pid = IF @ = Nobody THEN drawn.pid ELSE @])
            ELSE options

\* unlock: where the runner left the selection, then what was set meanwhile.
Unlocked ==
  IF locked THEN Over(pending, [options EXCEPT !.start = drawn.start, !.selected = drawn.selected,
                                        !.pid = drawn.pid])
            ELSE options

\* What a key sees: the main loop unlocks before it, if the runner is idle.
Seen == IF Active THEN options ELSE Unlocked

\* Config::set of the options in the record new, once the key has been taken.
Set(new) ==
  IF Active /\ locked
  THEN pending' = Over(new, pending) /\ UNCHANGED <<options, locked>>
  ELSE options' = Over(new, Seen) /\ pending' = <<>> /\ locked' = FALSE

\* Runner::run("proc", quick), which waits for the runner first.
AskRun(quick) == mainAt' = "run" /\ args' = quick

\* A key that sets options and redraws.
SetAndRun(new) ==
  /\ Set(new) /\ AskRun(TRUE)
  /\ UNCHANGED <<lists, screen, runnerAt, noUpdate, asked, killed, crashed, events>>

ProcRun ==
  /\ ~crashed /\ mainAt = "run" /\ ~Active
  /\ options' = Unlocked /\ pending' = <<>> /\ locked' = TRUE
  /\ runnerAt' = "queued" /\ noUpdate' = args
  /\ mainAt' = "input"
  /\ UNCHANGED <<lists, screen, old, args, asked, killed, crashed, keys, events>>

\* The update timer.
ProcDue ==
  /\ ~crashed /\ mainAt = "input"
  /\ AskRun(FALSE)
  /\ UNCHANGED <<lists, screen, config, old, runnerAt, noUpdate, asked, killed, crashed, keys, events>>

(***************************************************************************)
(* The runner: Proc::collect and Proc::draw.                               *)
(***************************************************************************)
Wakes ==
  /\ ~crashed /\ runnerAt = "queued"
  /\ runnerAt' = "collect"
  /\ UNCHANGED <<lists, screen, config, old, mainAt, args, noUpdate, asked, killed, crashed, keys, events>>

Sorted(s) == SetToSeqs(s)
Resorted == options.sort # applied.sort \/ options.filter # applied.filter
Details(pid) == detail' = [pid |-> pid, alive |-> IF pid = detail.pid THEN detail.alive ELSE TRUE]

\* The processes of the system, and what became of the one in the details box.
CollectAnew ==
  /\ ~(noUpdate /\ procs # {})
  /\ procs' = live
  /\ rows' \in Sorted(live \cap options.filter)
  /\ IF options.show /\ options.detailed \in live THEN Details(options.detailed)
     ELSE detail' = [detail EXCEPT !.alive = @ /\ ~options.show]
  /\ UNCHANGED crashed

\* no_update: the list as it was, filtered and sorted anew if asked to.  The
\* details are looked up without a check that the process is still there.
CollectCached ==
  /\ noUpdate /\ procs # {}
  /\ rows' \in IF ~Resorted THEN {rows}
               ELSE Sorted(IF options.filter # applied.filter THEN procs \cap options.filter
                                                           ELSE ToSet(rows))
  /\ IF options.show /\ options.detailed # detail.pid
     THEN /\ Details(options.detailed)
          /\ crashed' \in IF options.detailed \in procs THEN {FALSE} ELSE BOOLEAN
     ELSE UNCHANGED <<detail, crashed>>
  /\ UNCHANGED procs

Collect ==
  /\ ~crashed /\ runnerAt = "collect"
  /\ CollectAnew \/ CollectCached
  /\ applied' = [filter |-> options.filter, sort |-> options.sort]
  /\ runnerAt' = "draw"
  /\ UNCHANGED <<live, screen, config, old, mainAt, args, noUpdate, asked, killed, keys, events>>

AtMost(n, max) == IF n > max THEN max ELSE n
AtLeast(n, min) == IF n < min THEN min ELSE n
Visible(c) == IF c.show THEN DetailRows ELSE Rows

\* MUTANT: the process stays selected when its row is not.
Draw_KeepsPid ==
  /\ ~crashed /\ runnerAt = "draw"
  /\ LET shows == options.show /\ detail.pid = options.detailed
         max == IF shows THEN DetailRows ELSE Rows
         n == Len(rows)
         start == AtMost(options.start, AtLeast(n - max, 0))
         selected == AtMost(AtMost(options.selected, max), n)
     IN  drawn' = [start |-> start, selected |-> selected,
                   pid |-> IF selected > 0 /\ start + selected <= n
                           THEN rows[start + selected] ELSE drawn.pid]
  /\ before' = drawn.pid
  /\ runnerAt' = "idle"
  /\ UNCHANGED <<lists, config, old, mainAt, args, noUpdate, asked, killed, crashed, keys, events>>

\* draw: view and selection are brought into bounds, and the row that is
\* highlighted becomes the selected process.
Draw ==
  /\ ~crashed /\ runnerAt = "draw"
  /\ LET shows == options.show /\ detail.pid = options.detailed
         max == IF shows THEN DetailRows ELSE Rows
         n == Len(rows)
         start == AtMost(options.start, AtLeast(n - max, 0))
         selected == AtMost(AtMost(options.selected, max), n)
     IN  drawn' = [start |-> start, selected |-> selected,
                   pid |-> IF selected = 0 THEN Nobody
                           ELSE IF start + selected <= n THEN rows[start + selected] ELSE drawn.pid]
  /\ before' = drawn.pid
  /\ runnerAt' = "idle"
  /\ UNCHANGED <<lists, config, old, mainAt, args, noUpdate, asked, killed, crashed, keys, events>>

(***************************************************************************)
(* Proc::selection: the places keys, wheel and scrollbar lead to.          *)
(***************************************************************************)
Step(start, selected, last) == [start |-> start, selected |-> selected, last |-> last]

Up(c) == IF c.start > 0 /\ c.selected = 1 THEN Step(c.start - 1, 1, 0)
         ELSE Step(c.start, AtLeast(c.selected - 1, 0), 0)

Down(c) ==
  IF c.start < Len(rows) - Visible(c) /\ c.selected = Visible(c)
  THEN Step(c.start + 1, c.selected, c.last)
  ELSE IF c.selected = 0 /\ c.last > 0 THEN Step(c.start, c.last, 0)
  ELSE Step(c.start, c.selected + 1, c.last)

PageUp(c) == IF c.selected > 0 /\ c.start = 0 THEN Step(0, 0, c.last)
             ELSE Step(AtLeast(c.start - Visible(c), 0), c.selected, c.last)

PageDown(c) ==
  LET end == Len(rows) - Visible(c)
  IN  IF c.selected > 0 /\ c.start >= end THEN Step(c.start, Visible(c), c.last)
      ELSE Step(AtMost(c.start + Visible(c), AtLeast(end, 0)), c.selected, c.last)

Home(c) == Step(0, AtMost(c.selected, 1), c.last)
End(c) == Step(AtLeast(Len(rows) - Visible(c), 0), IF c.selected > 0 THEN Visible(c) ELSE 0, c.last)
Click(c, line) == Step(c.start, line, c.last)
\* The scrollbar leads to any start there is, the wheel at most three up or down.
Scroll(c, to) == Step(to, c.selected, c.last)
Starts(c) == 0 .. AtLeast(Len(rows) - Visible(c), AtLeast(c.start - 3, 0))

Moves(c) == {Up(c), Down(c), PageUp(c), PageDown(c), Home(c), End(c)}
            \cup {Click(c, line) : line \in 0 .. Visible(c)}
            \cup {Scroll(c, to) : to \in Starts(c)}

(***************************************************************************)
(* The other keys of the proc box.                                         *)
(***************************************************************************)
AtList == Key /\ asked = NoDialog /\ ~Seen.filtering

Navigate ==
  /\ AtList
  /\ \E to \in Moves(Seen) :
       /\ to.start # Seen.start \/ to.selected # Seen.selected
       /\ SetAndRun(to)
  /\ UNCHANGED old

\* enter: the details of the selected process, or the end of them.
ShowDetails ==
  /\ AtList /\ Seen.selected > 0 /\ Seen.detailed # Seen.pid
  /\ SetAndRun([detailed |-> Seen.pid, last |-> Seen.selected, selected |-> 0, show |-> TRUE])
  /\ UNCHANGED old

HideDetails ==
  /\ AtList /\ Seen.show /\ ~(Seen.selected > 0 /\ Seen.detailed # Seen.pid)
  /\ SetAndRun([selected |-> IF Seen.last > 0 THEN Seen.last ELSE Seen.selected,
                last |-> 0, detailed |-> Nobody, show |-> FALSE])
  /\ UNCHANGED old

\* left, right and r
Sort ==
  /\ AtList
  /\ SetAndRun([sort |-> ~Seen.sort])
  /\ UNCHANGED old

\* f: the keys go to the filter; enter keeps it, escape takes the old one.
StartFilter ==
  /\ AtList
  /\ old' = Seen.filter
  /\ SetAndRun([filtering |-> TRUE])

TypeFilter ==
  /\ Key /\ asked = NoDialog /\ Seen.filtering
  /\ \E f \in Filters : SetAndRun([filter |-> f])
  /\ UNCHANGED old

EndFilter ==
  /\ Key /\ asked = NoDialog /\ Seen.filtering
  /\ \E f \in {old, Seen.filter} : SetAndRun([filter |-> f, filtering |-> FALSE])
  /\ old' = Pids

\* delete
ClearFilter ==
  /\ AtList /\ Seen.filter # Pids
  /\ SetAndRun([filter |-> Pids])
  /\ UNCHANGED old

(***************************************************************************)
(* t and k: Menu::signalSend.                                              *)
(***************************************************************************)
Target(c) == IF c.show /\ c.pid = Nobody THEN c.detailed ELSE c.pid

KeyTerminate ==
  /\ AtList /\ (Seen.show \/ Seen.pid # Nobody)
  /\ Set(<<>>)
  /\ mainAt' = "wait"
  /\ UNCHANGED <<lists, screen, old, run, asked, killed, crashed, events>>

\* The dialog names the process the options hold, and the screen is redrawn.
OpenDialog ==
  /\ ~crashed /\ mainAt = "wait" /\ ~Active
  /\ IF options.show /\ options.selected = 0 /\ ~detail.alive
     THEN mainAt' = "input" /\ UNCHANGED <<args, asked>>
     ELSE /\ asked' = IF Target(options) = Nobody THEN NoDialog
                       ELSE [menu |-> "send", pid |-> Target(options)]
          /\ AskRun(TRUE)
  /\ UNCHANGED <<lists, screen, config, old, runnerAt, noUpdate, killed, crashed, keys, events>>

\* The keys that answer a msgBox; those that move between its buttons do
\* nothing else.
Answer(menu) == Key /\ asked.menu = menu

\* Yes: the process the options hold by now is terminated, or an error is shown.
Yes ==
  /\ Answer("send")
  /\ Set(<<>>) /\ AskRun(TRUE)
  /\ LET target == Target(Seen)
     IN  \/ /\ target \in live
            /\ live' = live \ {target} /\ killed' = target
            /\ asked' = NoDialog
         \/ /\ asked' = IF target = Nobody THEN NoDialog ELSE [menu |-> "return", pid |-> Nobody]
            /\ UNCHANGED <<live, killed>>
  /\ UNCHANGED <<procs, rows, applied, detail, screen, old, runnerAt, noUpdate, crashed, events>>

\* No, escape, and the answer that closes the error.
Leave ==
  /\ Answer("send") \/ Answer("return")
  /\ Set(<<>>) /\ AskRun(TRUE)
  /\ asked' = NoDialog
  /\ UNCHANGED <<lists, screen, old, runnerAt, noUpdate, killed, crashed, events>>

(***************************************************************************)
(* Processes end and start; a pid may be used again.                       *)
(***************************************************************************)
ProcessEnds(p) ==
  /\ ~crashed /\ events < MaxEvents /\ events' = events + 1
  /\ p \in live /\ live' = live \ {p}
  /\ UNCHANGED <<procs, rows, applied, detail, screen, config, old, mainAt, run, asked, killed, crashed, keys>>

ProcessStarts(p) ==
  /\ ~crashed /\ events < MaxEvents /\ events' = events + 1
  /\ p \notin live /\ live' = live \cup {p}
  /\ UNCHANGED <<procs, rows, applied, detail, screen, config, old, mainAt, run, asked, killed, crashed, keys>>

ProcNext ==
  \/ ProcRun \/ ProcDue \/ Wakes \/ Collect \/ Draw
  \/ Navigate \/ ShowDetails \/ HideDetails \/ Sort
  \/ StartFilter \/ TypeFilter \/ EndFilter \/ ClearFilter
  \/ KeyTerminate \/ OpenDialog \/ Yes \/ Leave
  \/ \E p \in Pids : ProcessEnds(p) \/ ProcessStarts(p)

ProcSpec == ProcInit /\ [][ProcNext]_procVars

-----------------------------------------------------------------------------
\* The types of the state (btop_draw.cpp:1088-1107, btop_config.cpp:256-272).
ProcTypeOK ==
  /\ live \subseteq Pids /\ procs \subseteq Pids
  /\ ToSet(rows) \subseteq procs /\ Len(rows) = Cardinality(ToSet(rows))
  /\ applied \in [filter : Filters, sort : BOOLEAN]
  /\ detail \in [pid : Pids \cup {Nobody}, alive : BOOLEAN]
  /\ drawn \in [start : Nat, selected : 0 .. Rows, pid : Pids \cup {Nobody}]
  /\ options.start \in Nat /\ options.selected \in 0 .. Rows + MaxKeys
  /\ options.pid \in Pids \cup {Nobody} /\ options.detailed \in Pids \cup {Nobody}
  /\ mainAt \in {"input", "wait", "run"}
  /\ runnerAt \in {"idle", "queued", "collect", "draw"}
  /\ pending # <<>> => locked
  /\ asked \in [menu : {"none", "send", "return"}, pid : Pids \cup {Nobody}]

\* A highlighted row is a row of the list, and the process the dialog will act
\* on is the one in it; without a highlighted row there is none.  However the
\* list shrinks or is filtered between a key and the draw (btop_draw.cpp:1430-1449).
SelectionNamed ==
  [][drawn' # drawn =>
       /\ drawn'.selected = 0 <=> drawn'.pid = Nobody
       /\ drawn'.selected > 0 => rows[drawn'.start + drawn'.selected] = drawn'.pid]_procVars

\* Yes terminates a process the screen has pointed at: the one highlighted by
\* one of the last two draws or the one in the details box, never one of an
\* older selection (btop_menu.cpp:798-855).
KillsPointedAt ==
  [][killed' # killed => killed' \in {drawn.pid, before, Seen.detailed}]_procVars

\* "Terminate PID: " and a number (btop_menu.cpp:816): Yes terminates the
\* process the dialog names, as the help has it (btop_menu.cpp:141).
TerminatesNamed == [][killed' # killed => killed' = asked.pid]_procVars
=============================================================================
