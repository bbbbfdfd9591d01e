------------------------------- MODULE Boxes --------------------------------
(***************************************************************************)
(* Which boxes are on the screen, and the menus over them: Input::process  *)
(* as far as it is about boxes, Config (the options that arrange them, set *)
(* at once or through the Tmp maps), Draw::calcSizes, Menu::process and    *)
(* term_resize.  The runner appears as what it takes of a run: whether it  *)
(* shows a menu, and pause_output, which it sets when it has.              *)
(*                                                                         *)
(* A key is handled by one or two steps: what it does at once, then, where *)
(* the code waits for the runner, "sizes" (Draw::calcSizes) and "run"      *)
(* (Runner::run).  The waits that give up are those of module Runner.      *)
(***************************************************************************)
EXTENDS Layout

CONSTANTS
  Terminals, \* the sizes the terminal may have, as [w, h]
  Presets,   \* the presets: sets of boxes with the positions they set
  Toggles    \* bound: options flipped in the menu

Positions == {"cpu_bottom", "cpu_wide", "mem_below_net", "proc_left"}
Switches == Positions \cup {"background_update", "tty_mode"}

BoxesAssumption ==
  /\ Terminals \subseteq [w : Nat \ {0}, h : Nat \ {0}]
  /\ Presets \subseteq [boxes : SUBSET Boxes4, cpu_bottom : BOOLEAN,
                        mem_below_net : BOOLEAN, proc_left : BOOLEAN]
  /\ Toggles \in Nat

VARIABLES
  term,     \* Term::width and Term::height
  main,     \* where the main thread is
  conf,     \* the options: shown_boxes and the switches
  tmp,      \* the options with what waits in the Tmp maps
  boxes,    \* Config::current_boxes, which a run collects and draws
  rects,    \* the sizes and places of the last calcSizes
  mask,     \* Menu::menuMask
  current,  \* Menu::currentMenu
  dialog,   \* in the options: "list", "edit" or "warning"
  overlay,  \* Global::overlay is not empty
  runner,   \* the run the runner is working on
  paused,   \* Runner::pause_output
  flips     \* options flipped

vars == <<term, main, conf, tmp, boxes, rects, mask, current, dialog, overlay, runner, paused, flips>>
menuVars == <<mask, current, dialog>>

Options == [shown : SUBSET Boxes4, cpu_bottom : BOOLEAN, cpu_wide : BOOLEAN,
            mem_below_net : BOOLEAN, proc_left : BOOLEAN, background_update : BOOLEAN,
            tty_mode : BOOLEAN]
Menus == {"none", "SizeError", "Options", "Help", "Main"}
Idle == [works |-> FALSE, overlay |-> FALSE, background |-> FALSE]

\* The arguments are parsed (-t switches tty_mode on) and the configuration is
\* loaded, then the size of the terminal is looked at.
Init ==
  /\ term \in Terminals
  /\ main = "fit"
  /\ conf \in [shown : SUBSET Boxes4, cpu_bottom : {FALSE}, cpu_wide : {TRUE},
               mem_below_net : {FALSE}, proc_left : {FALSE}, background_update : BOOLEAN,
               tty_mode : BOOLEAN]
  /\ tmp = conf /\ boxes = conf.shown
  /\ rects = <<>>
  /\ mask = {} /\ current = "none" /\ dialog = "list"
  /\ overlay = FALSE /\ runner = Idle /\ paused = FALSE
  /\ flips = 0

(***************************************************************************)
(* The runs.                                                               *)
(***************************************************************************)
\* Whether the boxes go on being updated behind a menu; in tty mode never.
Background(options) == ~options.tty_mode /\ options.background_update

\* Runner::run with boxes: the changes of the options are let in, and the
\* runner takes the overlay; without updates in the background only this once.
Run ==
  /\ main = "run" /\ ~runner.works
  /\ conf' = tmp
  /\ runner' = [works |-> TRUE, overlay |-> overlay, background |-> Background(tmp)]
  /\ overlay' = (overlay /\ (mask = {} \/ Background(tmp)))
  /\ main' = "input"
  /\ UNCHANGED <<term, tmp, boxes, rects, menuVars, paused, flips>>

\* The runner has drawn the boxes, unless paused, and the overlay over them.
RunnerDone ==
  /\ runner.works
  /\ paused' = (paused \/ (runner.overlay /\ ~runner.background))
  /\ runner' = Idle
  /\ UNCHANGED <<term, main, conf, tmp, boxes, rects, menuVars, overlay, flips>>

\* The update timer.
Due ==
  /\ main = "input"
  /\ main' = "run"
  /\ UNCHANGED <<term, conf, tmp, boxes, rects, menuVars, overlay, runner, paused, flips>>

\* MUTANT: a paused output stays paused.
CalcSizes_Paused(keepsOverlay) ==
  /\ ~runner.works
  /\ conf' = tmp
  /\ rects' = Sizes(tmp.shown, tmp, term)
  /\ overlay' = (keepsOverlay /\ overlay)
  /\ UNCHANGED <<tmp, paused>>

\* calcSizes: wait for the runner, let the options in, lay the boxes out.  The
\* options menu puts its overlay back afterwards.
CalcSizes(keepsOverlay) ==
  /\ ~runner.works
  /\ conf' = tmp
  /\ rects' = Sizes(tmp.shown, tmp, term)
  /\ paused' = FALSE
  /\ overlay' = (keepsOverlay /\ overlay)
  /\ UNCHANGED tmp

SizesOfKey ==
  /\ main = "sizes"
  /\ CalcSizes(mask # {})
  /\ main' = "run"
  /\ UNCHANGED <<term, boxes, menuVars, runner, flips>>

(***************************************************************************)
(* The terminal: term_resize and what the main loop does after it.         *)
(***************************************************************************)
Resize ==
  /\ main \in {"input", "fit"}
  /\ term' \in Terminals
  /\ main' = "fit"
  /\ UNCHANGED <<conf, tmp, boxes, rects, menuVars, overlay, runner, paused, flips>>

\* MUTANT: a box that does not fit stays in current_boxes.
ToggleBox_NotRestored(box) ==
  LET new == IF box \in boxes THEN boxes \ {box} ELSE boxes \cup {box}
  IN  /\ boxes' = new
      /\ tmp' = IF Fits(new, term) THEN [tmp EXCEPT !.shown = new] ELSE tmp

\* toggle_box: the box is shown or hidden if the terminal is large enough.
ToggleBox(box) ==
  LET new == IF box \in boxes THEN boxes \ {box} ELSE boxes \cup {box}
  IN  IF Fits(new, term)
      THEN boxes' = new /\ tmp' = [tmp EXCEPT !.shown = new]
      ELSE UNCHANGED <<boxes, tmp>>

\* In a terminal that is too small for the shown boxes only the box keys work.
ToggleToFit(box) ==
  /\ main = "fit" /\ ~Fits(tmp.shown, term)
  /\ ToggleBox(box)
  /\ UNCHANGED <<term, main, conf, rects, menuVars, overlay, runner, paused, flips>>

\* The boxes are laid out again, and an open menu is drawn again.
Fitted ==
  /\ main = "fit" /\ Fits(tmp.shown, term)
  /\ ~runner.works
  /\ conf' = tmp
  /\ rects' = Sizes(tmp.shown, tmp, term)
  /\ paused' = FALSE
  /\ overlay' = (mask # {})
  /\ main' = "run"
  /\ UNCHANGED <<term, tmp, boxes, menuVars, runner, flips>>

(***************************************************************************)
(* Keys on the main screen.                                                *)
(***************************************************************************)
OnScreenKey == main = "input" /\ mask = {}

\* 1 to 4
KeyBox(box) ==
  /\ OnScreenKey /\ ~runner.works
  /\ ToggleBox(box)
  /\ main' = "sizes"
  /\ UNCHANGED <<term, conf, rects, menuVars, overlay, runner, paused, flips>>

\* A preset is applied if it fits.
ApplyPreset(p) ==
  IF Fits(p.boxes, term)
  THEN /\ boxes' = p.boxes
       /\ tmp' = [tmp EXCEPT
            !.shown = p.boxes,
            !.cpu_bottom = IF "cpu" \in p.boxes THEN p.cpu_bottom ELSE @,
            !.mem_below_net = IF "mem" \in p.boxes THEN p.mem_below_net ELSE @,
            !.proc_left = IF "proc" \in p.boxes THEN p.proc_left ELSE @]
  ELSE UNCHANGED <<boxes, tmp>>

\* p and P, the next preset or the one before; here any.
KeyPreset(p) ==
  /\ OnScreenKey /\ ~runner.works
  /\ ApplyPreset(p)
  /\ main' = "sizes"
  /\ UNCHANGED <<term, conf, rects, menuVars, overlay, runner, paused, flips>>

(***************************************************************************)
(* Menus.  Menu::process draws the menu it has just opened and starts a    *)
(* run; a menu that needs more room than there is becomes an error.        *)
(***************************************************************************)
Roomy == term.w >= 80 /\ term.h >= 24
Opened(open) ==
  IF Roomy
  THEN mask' = open /\ current' = IF "Main" \in open THEN "Main"
                                  ELSE IF "Help" \in open THEN "Help" ELSE "Options"
  ELSE mask' = {"SizeError"} /\ current' = "SizeError"

\* escape and m, f1 and h, f2 and o
ShowMenu(m) ==
  /\ OnScreenKey
  /\ Opened({m})
  /\ overlay' = TRUE /\ main' = "run"
  /\ UNCHANGED <<term, conf, tmp, boxes, rects, dialog, runner, paused, flips>>

\* Options and help from the main menu, without another look at the size.
Switch(m) ==
  /\ main = "input" /\ current = "Main"
  /\ mask' = mask \cup {m} /\ current' = m
  /\ overlay' = TRUE /\ paused' = FALSE /\ main' = "run"
  /\ UNCHANGED <<term, conf, tmp, boxes, rects, dialog, runner, flips>>

\* MUTANT: the last menu is still the current one when it has been closed.
Close_KeepsCurrent ==
  /\ paused' = FALSE /\ main' = "run"
  /\ IF mask = {current}
     THEN mask' = {} /\ overlay' = FALSE /\ UNCHANGED current
     ELSE Opened(mask \ {current}) /\ overlay' = TRUE

\* A menu returns Closed: the one below it opens, or none.
Close ==
  /\ paused' = FALSE /\ main' = "run"
  /\ IF mask = {current}
     THEN mask' = {} /\ current' = "none" /\ overlay' = FALSE
     ELSE Opened(mask \ {current}) /\ overlay' = TRUE

\* The keys that close a menu; in the options, the ones that leave the editor
\* or the warning instead.
Escape ==
  /\ main = "input" /\ mask # {}
  /\ IF current = "Options" /\ dialog # "list"
     THEN dialog' = "list" /\ overlay' = TRUE /\ UNCHANGED <<mask, current, paused, main>>
     ELSE Close /\ UNCHANGED dialog
  /\ UNCHANGED <<term, conf, tmp, boxes, rects, runner, flips>>

\* A key that moves within a menu prints the overlay without a run.
Move ==
  /\ main = "input" /\ mask # {} /\ current # "SizeError"
  /\ overlay' = TRUE
  /\ UNCHANGED <<term, main, conf, tmp, boxes, rects, menuVars, runner, paused, flips>>

OnOption(d) == main = "input" /\ current = "Options" /\ dialog = d

\* The options are drawn again, into the overlay.
OptionsDrawn == overlay' = TRUE

Edit ==
  /\ OnOption("list")
  /\ dialog' = "edit" /\ OptionsDrawn
  /\ UNCHANGED <<term, main, conf, tmp, boxes, rects, mask, current, runner, paused, flips>>

\* A value the option does not take.
EnterInvalid ==
  /\ OnOption("edit")
  /\ dialog' = "warning" /\ OptionsDrawn
  /\ UNCHANGED <<term, main, conf, tmp, boxes, rects, mask, current, runner, paused, flips>>

\* shown_boxes, of any size; nothing is valid too, and is not parsed.
EnterBoxes(s) ==
  /\ OnOption("edit") /\ flips < Toggles /\ flips' = flips + 1
  /\ dialog' = "list" /\ OptionsDrawn
  /\ boxes' = IF s = {} THEN boxes ELSE s
  /\ tmp' = [tmp EXCEPT !.shown = s]
  /\ main' = "sizes"
  /\ UNCHANGED <<term, conf, rects, mask, current, runner, paused>>

\* A switch: left and right flip it; background_update also ends the pause.
\* tty_mode is flipped by force_tty.
FlipOption(name) ==
  /\ OnOption("list") /\ flips < Toggles /\ flips' = flips + 1
  /\ tmp' = [tmp EXCEPT ![name] = ~@]
  /\ paused' = (paused /\ name # "background_update")
  /\ OptionsDrawn
  /\ main' = "sizes"
  /\ UNCHANGED <<term, conf, boxes, rects, menuVars, runner>>

Next ==
  \/ Run \/ RunnerDone \/ Due \/ SizesOfKey
  \/ Resize \/ Fitted \/ \E box \in Boxes4 : ToggleToFit(box) \/ KeyBox(box)
  \/ \E p \in Presets : KeyPreset(p)
  \/ \E m \in {"Options", "Help", "Main"} : ShowMenu(m)
  \/ \E m \in {"Options", "Help"} : Switch(m)
  \/ Escape \/ Move \/ Edit \/ EnterInvalid
  \/ \E s \in SUBSET Boxes4 : EnterBoxes(s)
  \/ \E name \in Switches : FlipOption(name)

Spec == Init /\ [][Next]_vars

-----------------------------------------------------------------------------
\* The types of the state (btop_config.cpp:256-284, btop_menu.cpp:1399-1450).
TypeOK ==
  /\ term \in Terminals
  /\ main \in {"fit", "input", "sizes", "run"}
  /\ conf \in Options /\ tmp \in Options
  /\ boxes \subseteq Boxes4 /\ DOMAIN rects \subseteq Boxes4
  /\ mask \subseteq Menus \ {"none"} /\ current \in Menus
  /\ dialog \in {"list", "edit", "warning"}
  /\ overlay \in BOOLEAN /\ paused \in BOOLEAN
  /\ runner \in [works : BOOLEAN, overlay : BOOLEAN, background : BOOLEAN]
  /\ flips \in 0 .. Toggles
  /\ mask = {} <=> current = "none"
  /\ current # "none" => current \in mask

\* The one arrangement calcSizes gets wrong: without cpu_wide the cpu box is
\* laid over a process box that begins at the left.
CpuOverProcs ==
  /\ ~conf.cpu_wide /\ {"cpu", "proc"} \subseteq conf.shown
  /\ conf.proc_left \/ conf.shown \cap {"mem", "net"} = {}

\* Whatever boxes, options and sizes the user goes through, the boxes fill the
\* terminal side by side, if it is as large as get_min_size asks for
\* (btop_draw.cpp:1621-1785).
BoxesTile ==
  /\ main \in {"run", "input"}
  /\ conf.shown # {} /\ Fits(conf.shown, term) /\ ~CpuOverProcs
  => Tiles(rects, term)

\* A run works on the boxes the screen has room for, also after a toggle or a
\* preset that did not fit; except when shown_boxes was emptied in the options,
\* which leaves current_boxes as it was (btop_config.cpp:401).
BoxesAgree == tmp.shown = {} \/ boxes = tmp.shown

\* The boxes stand still only for a user who has background_update switched off
\* or is in tty mode, however a run that shows the menu overlaps with the switch
\* of either (btop.cpp:433, 507).
PausedByChoice == paused /\ main \in {"input", "run"} => ~Background(tmp)
=============================================================================
