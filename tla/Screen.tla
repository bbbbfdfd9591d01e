------------------------------- MODULE Screen -------------------------------
(***************************************************************************)
(* What a user does in the terminal of the C++ port: arrange the boxes     *)
(* (module Boxes), work in the process list (Processes) or its tree view   *)
(* (Tree), watch a graph (Graph), type into a field (TextEdit).  A sitting *)
(* is about one of them, so that their states add up: they share the main  *)
(* loop, the options and the runner, but each key concerns one of them.    *)
(***************************************************************************)
EXTENDS Boxes, Processes, TLC

CONSTANTS
  Sessions,
  TreePids, TreeFilters, Orders, \* Tree
  Samples, Widths, \* Graph
  MaxText, Room \* TextEdit

VARIABLES
  session,
  \* the tree
  tLive, parent, tProcs, ppid, collapsed, filtered, hidden, tRows, filter, stale, tEvents,
  \* a graph
  box, tty, width, data, graph, redraw, connected, menu, gPaused, gMain, gRunner, gConf, missed, taken,
  \* a text field
  text, pos, upos, numeric

\* The smallest terminal for all boxes, and one that is a column too narrow for
\* the process list beside another box, and for the menus.
ScreenTerminals == {[w |-> 80, h |-> 24], [w |-> 79, h |-> 41]}
ScreenPresets == {
  [boxes |-> {"cpu", "mem", "net", "proc"}, cpu_bottom |-> FALSE, mem_below_net |-> FALSE, proc_left |-> FALSE],
  [boxes |-> {"cpu", "mem", "net"}, cpu_bottom |-> TRUE, mem_below_net |-> TRUE, proc_left |-> FALSE],
  [boxes |-> {"cpu", "proc"}, cpu_bottom |-> TRUE, mem_below_net |-> FALSE, proc_left |-> TRUE]}

\* A filter that matches every process, and one that matches none.
ScreenFilters == {Pids, {}}

\* An order and its reverse, and filters that match all processes or one.
ScreenOrders == LET o == SetToSeq(TreePids) IN {o, Reverse(o)}
ScreenTreeFilters == LET o == SetToSeq(TreePids) IN {TreePids, {o[1]}, {o[2]}}

T == INSTANCE Tree WITH Pids <- TreePids, Filters <- TreeFilters,
       live <- tLive, procs <- tProcs, rows <- tRows, events <- tEvents
G == INSTANCE Graph WITH Sources <- {"cpu", "mem", "net"},
       paused <- gPaused, main <- gMain, runner <- gRunner, conf <- gConf
E == INSTANCE TextEdit

treeVars == <<tLive, parent, tProcs, ppid, collapsed, filtered, hidden, tRows, filter, stale, tEvents>>
graphVars == <<box, tty, width, data, graph, redraw, connected, menu, gPaused, gMain, gRunner, gConf, missed, taken>>
textVars == <<text, pos, upos, numeric>>
screenVars == <<session, vars, procVars, treeVars, graphVars, textVars>>

\* What the modules assume of their constants.
ASSUME ScreenAssumption ==
  /\ BoxesAssumption /\ ProcessesAssumption /\ T!TreeAssumption
  /\ G!GraphAssumption /\ E!TextEditAssumption

\* Where a sitting is not about them, one of their initial states.
BoxesStill ==
  /\ term = [w |-> 80, h |-> 24] /\ conf.shown = {"cpu", "mem", "net", "proc"}
  /\ conf.background_update /\ ~conf.tty_mode
TreeStill == LET p == CHOOSE p \in TreePids : TRUE IN tLive = {p} /\ parent[p] = Nobody
GraphStill == box = "cpu" /\ ~tty /\ width = 2 /\ data = <<>>
TextStill == text = <<>> /\ ~numeric

ScreenInit ==
  /\ session \in Sessions
  /\ Init /\ (session = "boxes" \/ BoxesStill)
  /\ ProcInit
  /\ T!Init /\ (session = "tree" \/ TreeStill)
  /\ G!Init /\ (session = "graph" \/ GraphStill)
  /\ E!Init /\ (session = "text" \/ TextStill)

ScreenNext ==
  \/ session = "boxes" /\ Next /\ UNCHANGED <<session, procVars, treeVars, graphVars, textVars>>
  \/ session = "processes" /\ ProcNext /\ UNCHANGED <<session, vars, treeVars, graphVars, textVars>>
  \/ session = "tree" /\ T!Next /\ UNCHANGED <<session, vars, procVars, graphVars, textVars>>
  \/ session = "graph" /\ G!Next /\ UNCHANGED <<session, vars, procVars, treeVars, textVars>>
  \/ session = "text" /\ E!Next /\ UNCHANGED <<session, vars, procVars, treeVars, graphVars>>

ScreenSpec == ScreenInit /\ [][ScreenNext]_screenVars

-----------------------------------------------------------------------------
\* The types of the boxes, the menus and the process list
\* (btop_config.cpp:256-284, btop_draw.cpp:1088-1107).
ScreenTypeOK == (session = "boxes" => TypeOK) /\ (session = "processes" => ProcTypeOK)

\* The tree shows what is not filtered or collapsed, below its parent
\* (btop_collect.cpp:1851-1961).
TreeShown == session = "tree" => T!TreeShown

\* No sample is missing from a graph, twice in it or shifted (btop_draw.cpp:334-466).
GraphShowsData == session = "graph" => G!GraphShowsData

\* The two cursors of a field agree, and it shows the text around them
\* (btop_draw.cpp:143-217).
FieldShowsCursor ==
  session = "text" => E!CursorBetweenCharacters /\ E!ShowsCursor
=============================================================================
