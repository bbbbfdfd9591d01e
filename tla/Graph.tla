-------------------------------- MODULE Graph -------------------------------
(***************************************************************************)
(* The graphs of the cpu, mem and net boxes: class Draw::Graph and when    *)
(* Cpu::draw, Mem::draw and Net::draw build one anew, add a sample to it   *)
(* or leave it (src/native/btop4win/src/btop_draw.cpp), with the runs that *)
(* collect samples, the menu that pauses the output, and the resizes.      *)
(*                                                                         *)
(* A cell of a graph shows two samples.  A graph therefore keeps its line  *)
(* twice, shifted by one sample, and each sample switches to the other     *)
(* line and adds one cell to it, so that nothing is drawn twice.  With the *)
(* symbols of tty mode, which are the default, it keeps one line, and each *)
(* sample adds a cell that shows it beside the one before.                 *)
(***************************************************************************)
EXTENDS Integers, Sequences

CONSTANTS
  Sources, \* the boxes: "cpu", "mem", "net"
  Widths,  \* the widths a graph may have
  Samples  \* bound: samples taken or tried from then on

GraphAssumption ==
  /\ Sources \subseteq {"cpu", "mem", "net"}
  /\ Widths \subseteq Nat \ {0, 1} \* none is narrower than five
  /\ Samples \in Nat

VARIABLES
  box,       \* which box this is
  tty,       \* the symbols for graphs are those of tty mode
  width,     \* of the graph, since the last calcSizes
  data,      \* the deque of samples: each is its number, none looks like another
  graph,     \* the Draw::Graph
  redraw,    \* the redraw flag of the box
  connected, \* net.connected
  menu,      \* a menu is open
  paused,    \* Runner::pause_output
  main,      \* where the main thread is, and the run it is about to start
  runner,    \* where the runner is
  conf,      \* current_conf: no_update, force_redraw, an overlay that pauses
  missed,    \* history: the graph is known to lack or repeat samples, see below
  taken      \* samples taken, or tried

vars == <<box, tty, width, data, graph, redraw, connected, menu, paused, main, runner, conf, missed, taken>>

\* The deque holds twice the width of the box, which is wider than its graph.
Limit == 2 * (width + 1)
\* Left of the first sample a graph is blank, as it is for zeros.
Blank == <<0, 0>>

\* The samples from offset on, counted from zero: each gives a cell with the
\* one before it, in turn to one line and the other, in tty mode to the same.
Create(g, d, offset) ==
  LET n == Len(d) - offset
      several == n > 1
      value(i) == IF i < 0 THEN 0 ELSE d[i + 1]
      prior(i) == IF i < 0 THEN 0
                  ELSE IF i > offset \/ (several /\ i > 0) THEN value(i - 1) ELSE g.last
      cell(i) == <<prior(i), value(i)>>
      all == [k \in 1 .. n |-> cell(offset + k - 1)]
      first == [k \in 1 .. (n + 1) \div 2 |-> cell(offset + 2 * k - 2)]
      second == [k \in 1 .. n \div 2 |-> cell(offset + 2 * k - 1)]
  IN  IF several /\ ~g.tty
      THEN [g EXCEPT !.cells = [line \in BOOLEAN |-> @[line] \o IF line = g.current THEN second ELSE first],
                     !.current = IF n % 2 = 0 THEN @ ELSE ~@,
                     !.last = value(Len(d) - 1)]
      ELSE [g EXCEPT !.cells[g.current] = @ \o all, !.last = value(Len(d) - 1)]

\* The constructor: as many samples as fit, after blanks; an even number for
\* two lines, any for the one line of tty mode.
New(d, w, single) ==
  LET columns == IF single THEN Len(d) ELSE (Len(d) + 1) \div 2
      from == IF columns > w THEN Len(d) - w * (IF single THEN 1 ELSE 2) ELSE 0
      offset == IF single \/ (Len(d) - from) % 2 = 0 THEN from ELSE from - 1
      blanks == [i \in 1 .. IF columns < w THEN w - columns ELSE 0 |-> Blank]
      g == [tty |-> single, current |-> TRUE, last |-> 0,
            cells |-> [line \in BOOLEAN |-> IF single /\ ~line THEN <<>> ELSE blanks]]
  IN  IF d = <<>> THEN g ELSE Create(g, d, offset)

\* MUTANT: the line is not switched.
Update_SameLine(g, d) ==
  Create([g EXCEPT !.cells[g.current] = Tail(@)], d, Len(d) - 1)

\* The call operator: the other line, or the only one, loses its first cell and
\* gets a last one.
Update(g, d) ==
  LET line == IF g.tty THEN g.current ELSE ~g.current
  IN  Create([g EXCEPT !.cells[line] = Tail(@), !.current = line], d, Len(d) - 1)

Shown(g) == g.cells[g.current]

\* The deque when it has long been full.
Full == [i \in 1 .. Limit |-> i - Limit - 1]

\* The program has started, or has gone on for a while and lays out the boxes.
Init ==
  /\ box \in Sources /\ tty \in BOOLEAN /\ width \in Widths
  /\ data \in {<<>>, Full} /\ graph = New(data, width, tty)
  /\ redraw = TRUE /\ connected = TRUE
  /\ menu = FALSE /\ paused = FALSE
  /\ main = [at |-> "run", same |-> FALSE, force |-> FALSE]
  /\ runner = "idle" /\ conf = [same |-> FALSE, force |-> FALSE, pauses |-> FALSE]
  /\ missed = FALSE /\ taken = 0

(***************************************************************************)
(* The main thread.                                                        *)
(***************************************************************************)
Waiting == [at |-> "input", same |-> FALSE, force |-> FALSE]
Idle == runner \in {"idle", "queued"}
Sample == taken < Samples /\ taken' = taken + 1
Input == main.at = "input"
AskRun(same, force) == main' = [at |-> "run", same |-> same, force |-> force]

\* Runner::run.  A run that has not yet woken is replaced by the next one, and
\* what it was to draw is forgotten.  A run that takes the overlay of a menu is
\* to pause the boxes, unless they are updated behind it (background_update) or
\* an earlier run has taken it.
Run ==
  /\ main.at = "run" /\ Idle
  /\ \E pauses \in {FALSE, menu} :
       conf' = [same |-> main.same, force |-> main.force, pauses |-> pauses]
  /\ missed' = (missed \/ (runner = "queued" /\ conf.force /\ ~main.force))
  /\ runner' = "queued" /\ main' = Waiting
  /\ UNCHANGED <<box, tty, width, data, graph, redraw, connected, menu, paused, taken>>

\* The update timer.
Due ==
  /\ Input /\ AskRun(FALSE, FALSE)
  /\ UNCHANGED <<box, tty, width, data, graph, redraw, connected, menu, paused, runner, conf, missed, taken>>

\* The keys of the three boxes; z of the net box collects anew.
KeyRedraw(same) ==
  /\ Input /\ ~menu /\ (same \/ box = "net")
  /\ AskRun(same, TRUE)
  /\ UNCHANGED <<box, tty, width, data, graph, redraw, connected, menu, paused, runner, conf, missed, taken>>

\* Another interface, with samples of its own or none yet.
OtherIface ==
  \/ data' = <<>> /\ UNCHANGED taken
  \/ Sample /\ data' = <<taken'>>

\* b and n
KeyIface ==
  /\ Input /\ ~menu /\ box = "net" /\ Idle
  /\ OtherIface
  /\ connected' \in BOOLEAN
  /\ AskRun(TRUE, TRUE)
  /\ UNCHANGED <<box, tty, width, graph, redraw, menu, paused, runner, conf, missed>>

\* A menu opens, or one of the main menu, or the open one is drawn again.
OpenMenu ==
  /\ Input
  /\ menu' = TRUE
  /\ paused' \in IF menu THEN {paused, FALSE} ELSE {paused}
  /\ AskRun(TRUE, TRUE)
  /\ UNCHANGED <<box, tty, width, data, graph, redraw, connected, runner, conf, missed, taken>>

\* In the options menu: an option that lays the boxes out again; graph_symbol
\* and force_tty change the symbols.
SetOption ==
  /\ Input /\ menu /\ Idle
  /\ tty' \in BOOLEAN
  /\ redraw' = TRUE /\ paused' = FALSE
  /\ AskRun(FALSE, TRUE)
  /\ UNCHANGED <<box, width, data, graph, connected, menu, runner, conf, missed, taken>>

CloseMenu ==
  /\ Input /\ menu
  /\ menu' = FALSE /\ paused' = FALSE
  /\ AskRun(TRUE, TRUE)
  /\ UNCHANGED <<box, tty, width, data, graph, redraw, connected, runner, conf, missed, taken>>

\* term_resize and calcSizes: the runner is stopped wherever it is, with a
\* token left over from stop it works once more as it was told last.
Resize ==
  /\ Input
  /\ width' \in Widths /\ redraw' = TRUE /\ paused' = FALSE
  /\ runner' \in {"idle", "queued"}
  /\ AskRun(TRUE, TRUE)
  /\ UNCHANGED <<box, tty, data, graph, connected, menu, conf, missed, taken>>

(***************************************************************************)
(* The runner.                                                             *)
(***************************************************************************)
Wakes ==
  /\ runner = "queued" /\ runner' = "collect"
  /\ UNCHANGED <<box, tty, width, data, graph, redraw, connected, menu, paused, main, conf, missed, taken>>

Trimmed(d) == IF Len(d) > Limit THEN SubSeq(d, Len(d) - Limit + 1, Len(d)) ELSE d

\* A sample is added unless there are some and no_update is set; net has none
\* of its own then.  When GetIfEntry2 fails net gets none either, but its graph
\* goes on and shows the last one again.
CollectSample ==
  /\ \/ /\ conf.same /\ (data # <<>> \/ box = "net")
        /\ UNCHANGED <<data, taken, missed>>
     \/ /\ ~(conf.same /\ (data # <<>> \/ box = "net"))
        /\ Sample
        /\ \/ data' = Trimmed(Append(data, taken')) /\ UNCHANGED missed
           \/ box = "net" /\ missed' = TRUE /\ UNCHANGED data
  /\ connected' \in IF box = "net" /\ ~conf.same THEN BOOLEAN ELSE {connected}

\* Net::collect sets redraw for another scale, or another interface when the
\* selected one is gone; Mem::collect for a disk that is gone.
Collect ==
  /\ runner = "collect" /\ runner' = "draw"
  /\ \/ CollectSample /\ redraw' \in IF box = "cpu" THEN {redraw} ELSE {redraw, TRUE}
     \/ /\ box = "net" /\ ~conf.same /\ OtherIface
        /\ connected' \in BOOLEAN /\ redraw' = TRUE /\ UNCHANGED missed
  /\ UNCHANGED <<box, tty, width, graph, menu, paused, main, conf>>

Rebuild == graph' = New(data, width, tty) /\ redraw' = FALSE /\ missed' = FALSE

DrawCpu ==
  IF data = <<>> THEN redraw' = (redraw \/ conf.force) /\ UNCHANGED <<graph, missed>>
  ELSE IF redraw \/ conf.force THEN Rebuild
  ELSE graph' = (IF conf.same THEN graph ELSE Update(graph, data)) /\ UNCHANGED <<redraw, missed>>

DrawMem ==
  IF redraw \/ conf.force THEN Rebuild
  ELSE graph' = (IF conf.same THEN graph ELSE Update(graph, data)) /\ UNCHANGED <<redraw, missed>>

\* The graph of an interface that is down stands still, but its samples are
\* taken and are shown later.
DrawNet ==
  IF redraw \/ conf.force
  THEN IF data = <<>> THEN redraw' = TRUE /\ UNCHANGED <<graph, missed>> ELSE Rebuild
  ELSE /\ graph' = IF conf.same \/ ~connected THEN graph ELSE Update(graph, data)
       /\ missed' = (missed \/ (~conf.same /\ ~connected))
       /\ UNCHANGED redraw

Draw ==
  /\ runner = "draw" /\ runner' = "done"
  /\ IF paused THEN UNCHANGED <<graph, redraw, missed>>
     ELSE \/ box = "cpu" /\ DrawCpu
          \/ box = "mem" /\ DrawMem
          \/ box = "net" /\ DrawNet
  /\ UNCHANGED <<box, tty, width, data, connected, menu, paused, main, conf, taken>>

RunnerDone ==
  /\ runner = "done" /\ runner' = "idle"
  /\ paused' = (paused \/ conf.pauses)
  /\ UNCHANGED <<box, tty, width, data, graph, redraw, connected, menu, main, conf, missed, taken>>

Next ==
  \/ Run \/ Due \/ OpenMenu \/ SetOption \/ CloseMenu \/ Resize
  \/ \E same \in BOOLEAN : KeyRedraw(same)
  \/ KeyIface
  \/ Wakes \/ Collect \/ Draw \/ RunnerDone

-----------------------------------------------------------------------------
\* However runs, pauses, menus, other symbols and resizes overlap, the graph on
\* the screen is the one the samples give: none is missing, twice or shifted.
\* Except while the code is known to have lost some (a forced redraw replaced
\* before the runner woke, an interface that was down) or to have shown one
\* again (GetIfEntry2 failed), until the graph is built anew
\* (btop_draw.cpp:334-466, 491-715, 1061; btop_collect.cpp:1654-1660).
GraphShowsData ==
  runner = "idle" /\ Input /\ ~paused /\ ~redraw /\ ~missed
    => Shown(graph) = Shown(New(data, width, tty))
=============================================================================
