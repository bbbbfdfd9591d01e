---------------------------- MODULE ScreenProofs ----------------------------
(* Theorems about Screen, of the boxes and of the process list: they hold   *)
(* for every set of terminal sizes and of presets, for any processes,       *)
(* filters and sizes of the list, and for any number of options flipped,    *)
(* keys pressed and processes that start and end.                           *)
EXTENDS Screen, SequenceTheorems, FiniteSetTheorems, TLAPS

-----------------------------------------------------------------------------
(* The options and the boxes.                                               *)

\* The options keep their types, and shown_boxes is the list of the boxes.
ArrangedInv == tmp \in Options /\ boxes \subseteq Boxes4 /\ BoxesAgree

LEMMA ToggleBoxArranges ==
  ASSUME ArrangedInv, NEW which \in Boxes4, ToggleBox(which)
  PROVE  ArrangedInv' /\ Background(tmp') = Background(tmp)
<1> DEFINE new == IF which \in boxes THEN boxes \ {which} ELSE boxes \cup {which}
<1>1. CASE ~Fits(new, term)
  BY <1>1 DEF ToggleBox, ArrangedInv, BoxesAgree
<1>2. CASE Fits(new, term)
  <2>1. boxes' = new /\ tmp' = [tmp EXCEPT !.shown = new]
    BY <1>2 DEF ToggleBox
  <2>2. new \in SUBSET Boxes4
    BY DEF ArrangedInv
  <2> QED
    BY <2>1, <2>2 DEF ArrangedInv, BoxesAgree, Options, Background
<1> QED
  BY <1>1, <1>2

LEMMA ApplyPresetArranges ==
  ASSUME BoxesAssumption, ArrangedInv, NEW p \in Presets, ApplyPreset(p)
  PROVE  ArrangedInv' /\ Background(tmp') = Background(tmp)
<1>1. CASE ~Fits(p.boxes, term)
  BY <1>1 DEF ApplyPreset, ArrangedInv, BoxesAgree
<1>2. CASE Fits(p.boxes, term)
  <2>1. p \in [boxes : SUBSET Boxes4, cpu_bottom : BOOLEAN,
               mem_below_net : BOOLEAN, proc_left : BOOLEAN]
    BY DEF BoxesAssumption
  <2> QED
    BY <1>2, <2>1 DEF ApplyPreset, ArrangedInv, BoxesAgree, Options, Background
<1> QED
  BY <1>1, <1>2

LEMMA EnterBoxesArranges ==
  ASSUME ArrangedInv, NEW s \in SUBSET Boxes4, EnterBoxes(s)
  PROVE  ArrangedInv' /\ Background(tmp') = Background(tmp)
BY DEF EnterBoxes, ArrangedInv, BoxesAgree, Options, Background

LEMMA FlipOptionArranges ==
  ASSUME ArrangedInv, NEW name \in Switches, FlipOption(name)
  PROVE  ArrangedInv'
BY DEF FlipOption, Switches, Positions, ArrangedInv, BoxesAgree, Options

LEMMA ArrangedStep == BoxesAssumption /\ ArrangedInv /\ [Next]_vars => ArrangedInv'
<1> SUFFICES ASSUME BoxesAssumption, ArrangedInv, [Next]_vars PROVE ArrangedInv'
  OBVIOUS
<1>0. ASSUME UNCHANGED <<tmp, boxes>> PROVE ArrangedInv'
  BY <1>0, <1>0 DEF ArrangedInv, BoxesAgree
<1>1. CASE Run
  BY <1>0, <1>1 DEF Run
<1>2. CASE RunnerDone
  BY <1>0, <1>2 DEF RunnerDone
<1>3. CASE Due
  BY <1>0, <1>3 DEF Due
<1>4. CASE SizesOfKey
  BY <1>0, <1>4 DEF SizesOfKey, CalcSizes
<1>5. CASE Resize
  BY <1>0, <1>5 DEF Resize
<1>6. CASE Fitted
  BY <1>0, <1>6 DEF Fitted
<1>7. ASSUME NEW which \in Boxes4, ToggleToFit(which) PROVE ArrangedInv'
  BY <1>0, <1>7, ToggleBoxArranges DEF ToggleToFit
<1>8. ASSUME NEW which \in Boxes4, KeyBox(which) PROVE ArrangedInv'
  BY <1>0, <1>8, ToggleBoxArranges DEF KeyBox
<1>9. ASSUME NEW p \in Presets, KeyPreset(p) PROVE ArrangedInv'
  BY <1>0, <1>9, ApplyPresetArranges DEF KeyPreset
<1>10. ASSUME NEW m \in {"Options", "Help", "Main"}, ShowMenu(m) PROVE ArrangedInv'
  BY <1>0, <1>10 DEF ShowMenu
<1>11. ASSUME NEW m \in {"Options", "Help"}, Switch(m) PROVE ArrangedInv'
  BY <1>0, <1>11 DEF Switch
<1>12. CASE Escape
  BY <1>0, <1>12 DEF Escape, Close
<1>13. CASE Move
  BY <1>0, <1>13 DEF Move
<1>14. CASE Edit
  BY <1>0, <1>14 DEF Edit
<1>15. CASE EnterInvalid
  BY <1>0, <1>15 DEF EnterInvalid
<1>16. ASSUME NEW s \in SUBSET Boxes4, EnterBoxes(s) PROVE ArrangedInv'
  BY <1>0, <1>16, EnterBoxesArranges DEF EnterBoxes, OnOption
<1>17. ASSUME NEW name \in Switches, FlipOption(name) PROVE ArrangedInv'
  BY <1>0, <1>17, FlipOptionArranges DEF FlipOption, OnOption
<1>18. CASE UNCHANGED vars
  BY <1>0, <1>18 DEF vars
<1> QED
  BY <1>0, <1>1, <1>2, <1>3, <1>4, <1>5, <1>6, <1>7, <1>8, <1>9, <1>10,
     <1>11, <1>12, <1>13, <1>14, <1>15, <1>16, <1>17, <1>18 DEF Next

LEMMA ArrangedInvariant == ASSUME BoxesAssumption PROVE Spec => []ArrangedInv
<1>1. Init => ArrangedInv
  BY DEF Init, ArrangedInv, BoxesAgree, Options
<1> QED
  BY <1>1, ArrangedStep, PTL DEF Spec

\* A run works on the boxes the options name, for any presets and in a terminal
\* of any size (btop_config.cpp:496-528).
THEOREM RunsWorkOnShownBoxes == ASSUME BoxesAssumption PROVE Spec => []BoxesAgree
<1>1. ArrangedInv => BoxesAgree
  BY DEF ArrangedInv
<1> QED
  BY <1>1, ArrangedInvariant, PTL

-----------------------------------------------------------------------------
(* The pause.                                                               *)

\* A run that will set the pause is one of a user who wants it, unless the boxes
\* are about to be laid out, which waits for the run and ends the pause.
PauseInv ==
  paused \/ (runner.works /\ runner.overlay /\ ~runner.background) =>
    main \in {"fit", "sizes"} \/ ~Background(tmp)

LEMMA PauseStep == BoxesAssumption /\ ArrangedInv /\ PauseInv /\ [Next]_vars => PauseInv'
<1> SUFFICES ASSUME BoxesAssumption, ArrangedInv, PauseInv, [Next]_vars PROVE PauseInv'
  OBVIOUS
<1> USE DEF PauseInv, menuVars
<1>1. CASE Run
  <2>1. tmp.background_update \in BOOLEAN /\ tmp.tty_mode \in BOOLEAN
    BY DEF ArrangedInv, Options
  <2>2. Background(tmp) \in BOOLEAN
    BY <2>1 DEF Background
  <2>3. runner'.background = Background(tmp) /\ Background(tmp') = Background(tmp) /\ paused' = paused
    BY <1>1 DEF Run
  <2>4. main = "run"
    BY <1>1 DEF Run
  <2> QED
    BY <2>2, <2>3, <2>4
<1>2. CASE RunnerDone
  BY <1>2 DEF RunnerDone, Idle
<1>3. CASE Due
  BY <1>3 DEF Due
<1>4. CASE SizesOfKey
  BY <1>4 DEF SizesOfKey, CalcSizes
<1>5. CASE Resize
  BY <1>5 DEF Resize
<1>6. CASE Fitted
  BY <1>6 DEF Fitted
<1>7. ASSUME NEW which \in Boxes4, ToggleToFit(which) PROVE PauseInv'
  BY <1>7, ToggleBoxArranges DEF ToggleToFit
<1>8. ASSUME NEW which \in Boxes4, KeyBox(which) PROVE PauseInv'
  BY <1>8, ToggleBoxArranges DEF KeyBox
<1>9. ASSUME NEW p \in Presets, KeyPreset(p) PROVE PauseInv'
  BY <1>9, ApplyPresetArranges DEF KeyPreset
<1>10. ASSUME NEW m \in {"Options", "Help", "Main"}, ShowMenu(m) PROVE PauseInv'
  BY <1>10 DEF ShowMenu, OnScreenKey
<1>11. ASSUME NEW m \in {"Options", "Help"}, Switch(m) PROVE PauseInv'
  BY <1>11 DEF Switch
<1>12. CASE Escape
  BY <1>12 DEF Escape, Close, Opened
<1>13. CASE Move
  BY <1>13 DEF Move
<1>14. CASE Edit
  BY <1>14 DEF Edit, OnOption
<1>15. CASE EnterInvalid
  BY <1>15 DEF EnterInvalid, OnOption
<1>16. ASSUME NEW s \in SUBSET Boxes4, EnterBoxes(s) PROVE PauseInv'
  BY <1>16, EnterBoxesArranges DEF EnterBoxes, OnOption
<1>17. ASSUME NEW name \in Switches, FlipOption(name) PROVE PauseInv'
  BY <1>17, FlipOptionArranges DEF FlipOption, OnOption
<1>18. CASE UNCHANGED vars
  BY <1>18 DEF vars
<1> QED
  BY <1>1, <1>2, <1>3, <1>4, <1>5, <1>6, <1>7, <1>8, <1>9, <1>10,
     <1>11, <1>12, <1>13, <1>14, <1>15, <1>16, <1>17, <1>18 DEF Next

\* Only a user who switched background_update off or is in tty mode has boxes
\* that stand still, whatever run overlaps with the switch of either, a menu or
\* a resize (btop.cpp:433, 507).
THEOREM PauseIsChosen == ASSUME BoxesAssumption PROVE Spec => []PausedByChoice
<1>1. Init => PauseInv
  BY DEF Init, PauseInv, Idle
<1>2. PauseInv => PausedByChoice
  BY DEF PauseInv, PausedByChoice
<1> QED
  BY <1>1, <1>2, ArrangedInvariant, PauseStep, PTL DEF Spec

-----------------------------------------------------------------------------
(* The layout.                                                              *)

\* What calcSizes is given: boxes, options and a terminal they fit in.
Given(s, o, t) ==
  /\ s \in SUBSET Boxes4 /\ s # {}
  /\ o \in Options
  /\ t \in [w : Nat \ {0}, h : Nat \ {0}]
  /\ Fits(s, t)

\* The arrangement it gets wrong.
Wrong(s, o) == /\ ~o.cpu_wide /\ {"cpu", "proc"} \subseteq s
               /\ o.proc_left \/ s \cap {"mem", "net"} = {}

LEMMA Percentages ==
  ASSUME NEW n \in Nat
  PROVE  /\ Rounded(n, 100) = n /\ Ceiling(n, 100) = n
         /\ Rounded(n, 45) \in Nat /\ (n >= 2 => Rounded(n, 45) \in 1 .. n - 1)
         /\ Ceiling(n, 32) \in Nat /\ 32 * n <= 100 * Ceiling(n, 32)
                                  /\ 100 * Ceiling(n, 32) <= 32 * n + 99
         /\ Ceiling(n, 36) \in Nat /\ 100 * Ceiling(n, 36) <= 36 * n + 99
         /\ Ceiling(n, 68) \in Nat /\ 68 * n <= 100 * Ceiling(n, 68)
                                  /\ 100 * Ceiling(n, 68) <= 68 * n + 99
BY DEF Rounded, Ceiling

\* The boxes one by one.
LEMMA ByBox ==
  ASSUME NEW s \in SUBSET Boxes4
  PROVE  /\ s = {"cpu"} <=> "cpu" \in s /\ s \cap {"mem", "net", "proc"} = {}
         /\ s # {} => "cpu" \in s \/ "mem" \in s \/ "net" \in s \/ "proc" \in s
         /\ s \cap {"mem", "net"} = {} <=> "mem" \notin s /\ "net" \notin s
         /\ s \cap {"mem", "net", "proc"} = {} <=> "mem" \notin s /\ "net" \notin s /\ "proc" \notin s
BY DEF Boxes4

LEMMA LeastLines ==
  ASSUME NEW s, NEW o, NEW t, Given(s, o, t)
  PROVE  /\ t.h \in Nat /\ t.w \in Nat /\ t.w >= 1 /\ ("proc" \in s => t.w >= 44)
         /\ t.h >= 6
         /\ "cpu" \in s => t.h >= 8
         /\ "cpu" \in s /\ s # {"cpu"} => t.h >= 14
         /\ "mem" \in s /\ "net" \in s => t.h >= IF "cpu" \in s THEN 24 ELSE 16
<1>1. t.h \in Nat /\ t.w \in Nat /\ t.w >= 1 /\ t.w >= MinWidth(s) /\ t.h >= MinHeight(s)
      /\ s \in SUBSET Boxes4 /\ s # {}
  BY DEF Given, Fits
<1>2. "proc" \in s => t.w >= 44
  BY <1>1 DEF MinWidth, Has, Bigger
<1>3. MinHeight(s) = (IF "cpu" \in s THEN 8 ELSE 0)
                     + (IF "proc" \in s THEN 16
                        ELSE (IF "mem" \in s THEN 10 ELSE 0) + (IF "net" \in s THEN 6 ELSE 0))
  BY DEF MinHeight, Has
<1> QED
  BY <1>1, <1>2, <1>3, ByBox

\* The columns of the boxes on the left, and of the others.
LEMMA Columns ==
  ASSUME NEW s, NEW o, NEW t, Given(s, o, t)
  PROVE  /\ LeftWidth(s, t) \in 1 .. t.w
         /\ "proc" \notin s => LeftWidth(s, t) = t.w
         /\ "proc" \in s => LeftWidth(s, t) < t.w
         /\ CpuBox(s, o, t).w = IF "proc" \in s /\ ~o.cpu_wide THEN LeftWidth(s, t) ELSE t.w
<1>1. t.w \in Nat /\ t.w >= 1 /\ ("proc" \in s => t.w >= 44)
  BY LeastLines
<1>2. Rounded(t.w, 100) = t.w /\ (t.w >= 2 => Rounded(t.w, 45) \in 1 .. t.w - 1)
  BY <1>1, Percentages
<1>3. LeftWidth(s, t) = IF "proc" \in s THEN Rounded(t.w, 45) ELSE Rounded(t.w, 100)
  BY DEF LeftWidth
<1>4. CpuBox(s, o, t).w = IF "proc" \in s /\ ~o.cpu_wide THEN Rounded(t.w, 45) ELSE Rounded(t.w, 100)
  BY DEF CpuBox
<1> QED
  BY <1>1, <1>2, <1>3, <1>4

\* The lines of the cpu box and of the two on the left.
Mem(s, o, t) == Has(s, "mem", MemBox(s, o, t).h)
Net(s, o, t) == Has(s, "net", NetBox(s, o, t).h)
Free(s, o, t) == t.h - CpuHeight(s, o, t)

LEMMA CpuLines ==
  ASSUME NEW s, NEW o, NEW t, Given(s, o, t)
  PROVE  /\ CpuHeight(s, o, t) \in 0 .. t.h
         /\ "cpu" \notin s <=> CpuHeight(s, o, t) = 0
         /\ IF s = {"cpu"} THEN CpuHeight(s, o, t) = t.h ELSE CpuHeight(s, o, t) < t.h
         /\ "cpu" \in s /\ s # {"cpu"} =>
              CpuHeight(s, o, t) = IF Ceiling(t.h, 32) <= 8 THEN 8 ELSE Ceiling(t.h, 32)
<1>1. /\ t.h \in Nat /\ t.h >= 6 /\ ("cpu" \in s => t.h >= 8)
      /\ ("cpu" \in s /\ s # {"cpu"} => t.h >= 14)
  BY LeastLines
<1>2. CpuHeight(s, o, t) = IF "cpu" \in s THEN Bigger(8, Ceiling(t.h, IF s = {"cpu"} THEN 100 ELSE 32)) ELSE 0
  BY DEF CpuHeight, CpuBox, Has
<1>3. /\ Ceiling(t.h, 100) = t.h
      /\ Ceiling(t.h, 32) \in Nat /\ 100 * Ceiling(t.h, 32) <= 32 * t.h + 99
  BY <1>1, Percentages
<1>4. CASE s = {"cpu"}
  BY <1>1, <1>2, <1>3, <1>4 DEF Bigger
<1>5. CASE "cpu" \in s /\ s # {"cpu"}
  BY <1>1, <1>2, <1>3, <1>5 DEF Bigger
<1>6. CASE "cpu" \notin s
  BY <1>1, <1>2, <1>6
<1> QED
  BY <1>4, <1>5, <1>6

LEMMA Lines ==
  ASSUME NEW s, NEW o, NEW t, Given(s, o, t)
  PROVE  /\ Mem(s, o, t) \in 0 .. t.h /\ Net(s, o, t) \in 0 .. t.h
         /\ "mem" \notin s <=> Mem(s, o, t) = 0
         /\ "net" \notin s <=> Net(s, o, t) = 0
         /\ s \cap {"mem", "net"} # {} => CpuHeight(s, o, t) + Mem(s, o, t) + Net(s, o, t) = t.h
<1> DEFINE share == Ceiling(t.h, 100 - Has(s, "cpu", 32) - Has(s, "net", 32)) + 1
<1>1. /\ t.h \in Nat /\ t.h >= 6 /\ s \in SUBSET Boxes4
      /\ "mem" \in s /\ "net" \in s => t.h >= IF "cpu" \in s THEN 24 ELSE 16
  BY LeastLines DEF Given
<1>2. /\ CpuHeight(s, o, t) \in 0 .. t.h
      /\ "cpu" \notin s <=> CpuHeight(s, o, t) = 0
      /\ "mem" \in s \/ "net" \in s => CpuHeight(s, o, t) < t.h
      /\ "cpu" \in s /\ ("mem" \in s \/ "net" \in s) =>
           CpuHeight(s, o, t) = IF Ceiling(t.h, 32) <= 8 THEN 8 ELSE Ceiling(t.h, 32)
  BY <1>1, CpuLines, ByBox
<1>3. Mem(s, o, t) = IF "mem" \in s THEN (IF share > Free(s, o, t) THEN Free(s, o, t) ELSE share) ELSE 0
  BY DEF Mem, MemBox, Has, Free
<1>4. Net(s, o, t) = IF "net" \in s THEN Free(s, o, t) - Mem(s, o, t) ELSE 0
  BY DEF Net, NetBox, Mem, Has, Free
<1>5. share = 1 + IF "cpu" \in s THEN IF "net" \in s THEN Ceiling(t.h, 36) ELSE Ceiling(t.h, 68)
                  ELSE IF "net" \in s THEN Ceiling(t.h, 68) ELSE t.h
  <2>1. Has(s, "cpu", 32) = (IF "cpu" \in s THEN 32 ELSE 0) /\ Has(s, "net", 32) = (IF "net" \in s THEN 32 ELSE 0)
    BY DEF Has
  <2>2. Ceiling(t.h, 100) = t.h /\ Ceiling(t.h, 36) \in Nat /\ Ceiling(t.h, 68) \in Nat
    BY <1>1, Percentages
  <2> QED
    BY <1>1, <2>1, <2>2
<1> HIDE DEF share
<1>6. /\ Ceiling(t.h, 32) \in Nat /\ 32 * t.h <= 100 * Ceiling(t.h, 32)
      /\ 100 * Ceiling(t.h, 32) <= 32 * t.h + 99
      /\ Ceiling(t.h, 36) \in Nat /\ 100 * Ceiling(t.h, 36) <= 36 * t.h + 99
      /\ Ceiling(t.h, 68) \in Nat /\ 68 * t.h <= 100 * Ceiling(t.h, 68)
      /\ 100 * Ceiling(t.h, 68) <= 68 * t.h + 99
  BY <1>1, Percentages
<1>7. Free(s, o, t) = t.h - CpuHeight(s, o, t)
  BY DEF Free
<1>8. CASE "mem" \in s /\ "net" \in s
  <2>1. share \in Nat /\ share >= 1 /\ share < Free(s, o, t)
    BY <1>1, <1>2, <1>5, <1>6, <1>7, <1>8
  <2> QED
    BY <1>1, <1>2, <1>3, <1>4, <1>7, <1>8, <2>1
<1>9. CASE "mem" \in s /\ "net" \notin s
  <2>1. share \in Nat /\ share >= Free(s, o, t)
    BY <1>1, <1>2, <1>5, <1>6, <1>7, <1>9
  <2> QED
    BY <1>1, <1>2, <1>3, <1>4, <1>7, <1>9, <2>1
<1>10. CASE "mem" \notin s
  BY <1>1, <1>2, <1>3, <1>4, <1>7, <1>10, ByBox
<1> QED
  BY <1>8, <1>9, <1>10

LEMMA Areas ==
  ASSUME NEW w \in Nat, NEW l \in Nat, NEW a \in Nat, NEW m \in Nat, NEW n \in Nat, NEW h \in Nat,
         a + m + n = h
  PROVE  /\ w * a + w * m + w * n = w * h
         /\ w * a + l * m + l * n + (w - l) * (h - a) = w * h
         /\ l * a + l * m + l * n + (w - l) * h = w * h
         /\ w * a + w * (h - a) = w * h
OBVIOUS

\* Where each box is, in terms of those columns and lines.
LEMMA Places ==
  ASSUME NEW s, NEW o, NEW t, Given(s, o, t)
  PROVE  LET l == LeftWidth(s, t)  a == CpuHeight(s, o, t)
             x == IF o.proc_left /\ "proc" \in s THEN t.w - l + 1 ELSE 1
             upper == IF o.cpu_bottom THEN 1 ELSE a + 1
             lower == t.h + 1 - IF o.cpu_bottom THEN a ELSE 0
             right == t.w - IF "mem" \in s \/ "net" \in s THEN l ELSE 0
         IN  /\ "cpu" \in s => CpuBox(s, o, t) =
                  [w |-> IF "proc" \in s /\ ~o.cpu_wide THEN l ELSE t.w, h |-> a, x |-> 1,
                   y |-> IF o.cpu_bottom THEN t.h - a + 1 ELSE 1]
             /\ "mem" \in s => MemBox(s, o, t) =
                  [w |-> l, h |-> Mem(s, o, t), x |-> x,
                   y |-> IF o.mem_below_net /\ "net" \in s THEN lower - Mem(s, o, t) ELSE upper]
             /\ "net" \in s => NetBox(s, o, t) =
                  [w |-> l, h |-> Net(s, o, t), x |-> x,
                   y |-> IF o.mem_below_net /\ "mem" \in s THEN upper ELSE lower - Net(s, o, t)]
             /\ ProcBox(s, o, t) =
                  [w |-> right, h |-> t.h - IF o.cpu_wide THEN a ELSE 0,
                   x |-> IF o.proc_left THEN 1 ELSE t.w - right + 1,
                   y |-> IF (o.cpu_bottom /\ "cpu" \in s) \/ ~o.cpu_wide THEN 1 ELSE a + 1]
<1>1. /\ t.h \in Int /\ t.w \in Int /\ s \in SUBSET Boxes4
      /\ CpuHeight(s, o, t) \in Int /\ LeftWidth(s, t) \in Int
      /\ Mem(s, o, t) \in Int /\ Net(s, o, t) \in Int
  BY LeastLines, CpuLines, Columns, Lines DEF Given
<1>2. \A k \in Int : LowerY(s, o, t, k) =
        (t.h + 1 - IF o.cpu_bottom THEN CpuHeight(s, o, t) ELSE 0) - k
  BY <1>1 DEF LowerY
<1>3. ASSUME "cpu" \in s
      PROVE  CpuBox(s, o, t) =
               [w |-> IF "proc" \in s /\ ~o.cpu_wide THEN LeftWidth(s, t) ELSE t.w,
                h |-> CpuHeight(s, o, t), x |-> 1,
                y |-> IF o.cpu_bottom THEN t.h - CpuHeight(s, o, t) + 1 ELSE 1]
  <2>1. CpuHeight(s, o, t) = CpuBox(s, o, t).h
    BY <1>3 DEF CpuHeight, Has
  <2>2. CpuBox(s, o, t).w = IF "proc" \in s /\ ~o.cpu_wide THEN LeftWidth(s, t) ELSE t.w
    BY Columns
  <2> QED
    BY <2>1, <2>2 DEF CpuBox
<1>4. ASSUME "mem" \in s
      PROVE  MemBox(s, o, t) =
               [w |-> LeftWidth(s, t), h |-> Mem(s, o, t), x |-> LeftX(s, o, t),
                y |-> IF o.mem_below_net /\ "net" \in s THEN LowerY(s, o, t, Mem(s, o, t))
                      ELSE UpperY(s, o, t)]
  BY <1>4 DEF Mem, Has, MemBox
<1>5. ASSUME "net" \in s
      PROVE  NetBox(s, o, t) =
               [w |-> LeftWidth(s, t), h |-> Net(s, o, t), x |-> LeftX(s, o, t),
                y |-> IF o.mem_below_net /\ "mem" \in s THEN UpperY(s, o, t)
                      ELSE LowerY(s, o, t, Net(s, o, t))]
  BY <1>5 DEF Net, Has, NetBox
<1>6. s \cap {"mem", "net"} # {} <=> "mem" \in s \/ "net" \in s
  BY <1>1, ByBox
<1> QED
  BY <1>1, <1>2, <1>3, <1>4, <1>5, <1>6 DEF LeftX, UpperY, ProcBox

\* calcSizes tiles every terminal the shown boxes fit in.
LEMMA SizesTile ==
  ASSUME NEW s, NEW o, NEW t, Given(s, o, t), ~Wrong(s, o)
  PROVE  Tiles(Sizes(s, o, t), t)
<1> DEFINE l == LeftWidth(s, t)  a == CpuHeight(s, o, t)
           m == Mem(s, o, t)  n == Net(s, o, t)
           x == IF o.proc_left /\ "proc" \in s THEN t.w - l + 1 ELSE 1
           upper == IF o.cpu_bottom THEN 1 ELSE a + 1
           lower == t.h + 1 - IF o.cpu_bottom THEN a ELSE 0
           right == t.w - IF "mem" \in s \/ "net" \in s THEN l ELSE 0
           cpu == CpuBox(s, o, t)  mem == MemBox(s, o, t)
           net == NetBox(s, o, t)  proc == ProcBox(s, o, t)
<1>1. /\ t.w \in Nat /\ t.h \in Nat /\ t.w >= 1 /\ t.h >= 6
      /\ l \in 1 .. t.w /\ ("proc" \notin s => l = t.w) /\ ("proc" \in s => l < t.w)
      /\ o.cpu_bottom \in BOOLEAN /\ o.cpu_wide \in BOOLEAN
      /\ o.mem_below_net \in BOOLEAN /\ o.proc_left \in BOOLEAN
      /\ s \in SUBSET Boxes4
  BY LeastLines, Columns DEF Given, Options
<1>2. /\ a \in 0 .. t.h /\ m \in 0 .. t.h /\ n \in 0 .. t.h
      /\ "cpu" \notin s <=> a = 0
      /\ "mem" \notin s <=> m = 0
      /\ "net" \notin s <=> n = 0
      /\ "mem" \in s \/ "net" \in s => a + m + n = t.h
      /\ "mem" \in s \/ "net" \in s \/ "proc" \in s => a < t.h
      /\ "mem" \notin s /\ "net" \notin s /\ "proc" \notin s => a = t.h /\ "cpu" \in s
  BY <1>1, CpuLines, Lines, ByBox DEF Given
<1>3. /\ "cpu" \in s => cpu = [w |-> IF "proc" \in s /\ ~o.cpu_wide THEN l ELSE t.w, h |-> a, x |-> 1,
                               y |-> IF o.cpu_bottom THEN t.h - a + 1 ELSE 1]
      /\ "mem" \in s => mem = [w |-> l, h |-> m, x |-> x,
                               y |-> IF o.mem_below_net /\ "net" \in s THEN lower - m ELSE upper]
      /\ "net" \in s => net = [w |-> l, h |-> n, x |-> x,
                               y |-> IF o.mem_below_net /\ "mem" \in s THEN upper ELSE lower - n]
      /\ proc = [w |-> right, h |-> t.h - IF o.cpu_wide THEN a ELSE 0,
                 x |-> IF o.proc_left THEN 1 ELSE t.w - right + 1,
                 y |-> IF (o.cpu_bottom /\ "cpu" \in s) \/ ~o.cpu_wide THEN 1 ELSE a + 1]
  BY Places
<1>4. "cpu" \in s /\ "proc" \in s /\ ~o.cpu_wide =>
        ~o.proc_left /\ ("mem" \in s \/ "net" \in s)
  BY <1>1, ByBox DEF Wrong
<1>5. Sizes(s, o, t) = [b \in s |-> CASE b = "cpu" -> cpu [] b = "mem" -> mem
                                     [] b = "net" -> net [] OTHER -> proc]
  BY DEF Sizes
<1> HIDE DEF l, a, m, n, cpu, mem, net, proc
<1>6. /\ "cpu" \in s => OnScreen(cpu, t)
      /\ "mem" \in s => OnScreen(mem, t)
      /\ "net" \in s => OnScreen(net, t)
      /\ "proc" \in s => OnScreen(proc, t)
  <2>1. "cpu" \in s => OnScreen(cpu, t)
    BY <1>1, <1>2, <1>3 DEF OnScreen
  <2>2. "mem" \in s => OnScreen(mem, t)
    BY <1>1, <1>2, <1>3 DEF OnScreen
  <2>3. "net" \in s => OnScreen(net, t)
    BY <1>1, <1>2, <1>3 DEF OnScreen
  <2>4. "proc" \in s => OnScreen(proc, t)
    BY <1>1, <1>2, <1>3 DEF OnScreen
  <2> QED
    BY <2>1, <2>2, <2>3, <2>4
<1>7. /\ {"cpu", "mem"} \subseteq s => Apart(cpu, mem) /\ Apart(mem, cpu)
      /\ {"cpu", "net"} \subseteq s => Apart(cpu, net) /\ Apart(net, cpu)
      /\ {"cpu", "proc"} \subseteq s => Apart(cpu, proc) /\ Apart(proc, cpu)
      /\ {"mem", "net"} \subseteq s => Apart(mem, net) /\ Apart(net, mem)
      /\ {"mem", "proc"} \subseteq s => Apart(mem, proc) /\ Apart(proc, mem)
      /\ {"net", "proc"} \subseteq s => Apart(net, proc) /\ Apart(proc, net)
  <2>1. {"cpu", "mem"} \subseteq s => Apart(cpu, mem) /\ Apart(mem, cpu)
    BY <1>1, <1>2, <1>3 DEF Apart
  <2>2. {"cpu", "net"} \subseteq s => Apart(cpu, net) /\ Apart(net, cpu)
    BY <1>1, <1>2, <1>3 DEF Apart
  <2>3. {"cpu", "proc"} \subseteq s => Apart(cpu, proc) /\ Apart(proc, cpu)
    BY <1>1, <1>2, <1>3, <1>4 DEF Apart
  <2>4. {"mem", "net"} \subseteq s => Apart(mem, net) /\ Apart(net, mem)
    BY <1>1, <1>2, <1>3 DEF Apart
  <2>5. {"mem", "proc"} \subseteq s => Apart(mem, proc) /\ Apart(proc, mem)
    BY <1>1, <1>2, <1>3 DEF Apart
  <2>6. {"net", "proc"} \subseteq s => Apart(net, proc) /\ Apart(proc, net)
    BY <1>1, <1>2, <1>3 DEF Apart
  <2> QED
    BY <2>1, <2>2, <2>3, <2>4, <2>5, <2>6
<1>8. (IF "cpu" \in s THEN Area(cpu) ELSE 0) + (IF "mem" \in s THEN Area(mem) ELSE 0)
      + (IF "net" \in s THEN Area(net) ELSE 0) + (IF "proc" \in s THEN Area(proc) ELSE 0) = t.w * t.h
  <2>1. /\ "cpu" \in s => Area(cpu) = (IF "proc" \in s /\ ~o.cpu_wide THEN l ELSE t.w) * a
        /\ "mem" \in s => Area(mem) = l * m
        /\ "net" \in s => Area(net) = l * n
        /\ Area(proc) = right * (t.h - IF o.cpu_wide THEN a ELSE 0)
    BY <1>3 DEF Area
  <2>2. (IF "mem" \in s THEN Area(mem) ELSE 0) = l * m /\ (IF "net" \in s THEN Area(net) ELSE 0) = l * n
    BY <1>1, <1>2, <2>1
  <2>3. (IF "cpu" \in s THEN Area(cpu) ELSE 0) = (IF "proc" \in s /\ ~o.cpu_wide THEN l ELSE t.w) * a
    BY <1>1, <1>2, <2>1
  <2>4. CASE "proc" \notin s /\ ("mem" \in s \/ "net" \in s)
    BY <1>1, <1>2, <2>2, <2>3, <2>4, Areas
  <2>5. CASE "proc" \notin s /\ "mem" \notin s /\ "net" \notin s
    BY <1>1, <1>2, <2>2, <2>3, <2>5
  <2>6. CASE "proc" \in s /\ "mem" \notin s /\ "net" \notin s
    BY <1>1, <1>2, <1>4, <2>1, <2>2, <2>3, <2>6, Areas
  <2>7. CASE "proc" \in s /\ ("mem" \in s \/ "net" \in s) /\ o.cpu_wide
    <3>1. t.w * a + l * m + l * n + (t.w - l) * (t.h - a) = t.w * t.h
      BY <1>1, <1>2, <2>7, Areas
    <3>2. /\ Area(proc) = (t.w - l) * (t.h - a)
          /\ (IF "cpu" \in s THEN Area(cpu) ELSE 0) = t.w * a
      BY <1>1, <2>1, <2>3, <2>7
    <3> QED
      BY <2>2, <2>7, <3>1, <3>2
  <2>8. CASE "proc" \in s /\ ("mem" \in s \/ "net" \in s) /\ ~o.cpu_wide
    BY <1>1, <1>2, <2>1, <2>2, <2>3, <2>8, Areas
  <2> QED
    BY <2>4, <2>5, <2>6, <2>7, <2>8
<1> DEFINE r == Sizes(s, o, t)
<1>9. /\ DOMAIN r = s
      /\ "cpu" \in s => r["cpu"] = cpu
      /\ "mem" \in s => r["mem"] = mem
      /\ "net" \in s => r["net"] = net
      /\ "proc" \in s => r["proc"] = proc
  BY <1>5
<1> HIDE DEF r
<1>10. \A b \in s : OnScreen(r[b], t)
  BY <1>1, <1>6, <1>9 DEF Boxes4
<1>11. \A b, c \in s : b # c => Apart(r[b], r[c])
  BY <1>1, <1>7, <1>9 DEF Boxes4
<1> QED
  BY <1>1, <1>8, <1>9, <1>10, <1>11 DEF Tiles, Boxes4, r

\* Once the sizes are set the options and the terminal are those they were set
\* for, until a key or the terminal asks for others.
SizedInv ==
  /\ term \in Terminals
  /\ main \in {"run", "input"} => conf = tmp /\ rects = Sizes(conf.shown, conf, term)

LEMMA SizedStep == SizedInv /\ [Next]_vars => SizedInv'
<1> SUFFICES ASSUME SizedInv, [Next]_vars PROVE SizedInv'
  OBVIOUS
<1> USE DEF SizedInv, menuVars
<1>1. CASE Run
  BY <1>1 DEF Run
<1>2. CASE RunnerDone
  BY <1>2 DEF RunnerDone
<1>3. CASE Due
  BY <1>3 DEF Due
<1>4. CASE SizesOfKey
  BY <1>4 DEF SizesOfKey, CalcSizes
<1>5. CASE Resize
  BY <1>5 DEF Resize
<1>6. CASE Fitted
  BY <1>6 DEF Fitted
<1>7. ASSUME NEW which \in Boxes4, ToggleToFit(which) PROVE SizedInv'
  BY <1>7 DEF ToggleToFit
<1>8. ASSUME NEW which \in Boxes4, KeyBox(which) PROVE SizedInv'
  BY <1>8 DEF KeyBox
<1>9. ASSUME NEW p \in Presets, KeyPreset(p) PROVE SizedInv'
  BY <1>9 DEF KeyPreset
<1>10. ASSUME NEW m \in {"Options", "Help", "Main"}, ShowMenu(m) PROVE SizedInv'
  BY <1>10 DEF ShowMenu, OnScreenKey
<1>11. ASSUME NEW m \in {"Options", "Help"}, Switch(m) PROVE SizedInv'
  BY <1>11 DEF Switch
<1>12. CASE Escape
  BY <1>12 DEF Escape, Close
<1>13. CASE Move
  BY <1>13 DEF Move
<1>14. CASE Edit
  BY <1>14 DEF Edit, OnOption
<1>15. CASE EnterInvalid
  BY <1>15 DEF EnterInvalid, OnOption
<1>16. ASSUME NEW s \in SUBSET Boxes4, EnterBoxes(s) PROVE SizedInv'
  BY <1>16 DEF EnterBoxes, OnOption
<1>17. ASSUME NEW name \in Switches, FlipOption(name) PROVE SizedInv'
  BY <1>17 DEF FlipOption, OnOption
<1>18. CASE UNCHANGED vars
  BY <1>18 DEF vars
<1> QED
  BY <1>1, <1>2, <1>3, <1>4, <1>5, <1>6, <1>7, <1>8, <1>9, <1>10,
     <1>11, <1>12, <1>13, <1>14, <1>15, <1>16, <1>17, <1>18 DEF Next

\* In a terminal of any size that is large enough for them, any boxes and
\* options the user arrives at fill it side by side (btop_draw.cpp:1621-1785).
THEOREM BoxesFillTerminal == ASSUME BoxesAssumption PROVE Spec => []BoxesTile
<1>1. Init => SizedInv
  BY DEF Init, SizedInv
<1>2. BoxesAssumption /\ ArrangedInv /\ SizedInv => BoxesTile
  <2> SUFFICES ASSUME BoxesAssumption, ArrangedInv, SizedInv, main \in {"run", "input"},
                      conf.shown # {}, Fits(conf.shown, term), ~CpuOverProcs
               PROVE  Tiles(rects, term)
    BY DEF BoxesTile
  <2>1. conf \in Options /\ term \in [w : Nat \ {0}, h : Nat \ {0}]
        /\ rects = Sizes(conf.shown, conf, term)
    BY DEF ArrangedInv, SizedInv, BoxesAssumption
  <2>2. conf.shown \in SUBSET Boxes4
    BY <2>1 DEF Options
  <2>3. Given(conf.shown, conf, term) /\ ~Wrong(conf.shown, conf)
    BY <2>1, <2>2 DEF Given, Wrong, CpuOverProcs
  <2> QED
    BY <2>1, <2>3, SizesTile
<1> QED
  BY <1>1, <1>2, SizedStep, ArrangedInvariant, BoxesAssumption, PTL DEF Spec

-----------------------------------------------------------------------------
(* The types of the boxes and the menus.                                    *)

\* The error that a menu does not fit stands alone, so that what remains when
\* a menu is closed are menus, of which Opened finds one.
MenusInv ==
  /\ mask \subseteq Menus \ {"none"} /\ current \in Menus
  /\ mask = {} <=> current = "none"
  /\ current # "none" => current \in mask
  /\ "SizeError" \in mask => mask = {"SizeError"}

LEMMA OpenedIsMenu ==
  ASSUME NEW open \in SUBSET {"Options", "Help", "Main"}, open # {}, Opened(open)
  PROVE  MenusInv'
<1>1. CASE Roomy
  <2>1. mask' = open /\ current' = IF "Main" \in open THEN "Main" ELSE IF "Help" \in open THEN "Help" ELSE "Options"
    BY <1>1 DEF Opened
  <2>2. "Main" \in open \/ "Help" \in open \/ "Options" \in open
    OBVIOUS
  <2>3. current' \in open /\ current' # "none"
    BY <2>1, <2>2
  <2> QED
    BY <2>1, <2>3 DEF MenusInv, Menus
<1>2. CASE ~Roomy
  BY <1>2 DEF Opened, MenusInv, Menus
<1> QED
  BY <1>1, <1>2

LEMMA CloseIsMenu ==
  ASSUME MenusInv, mask # {}, Close
  PROVE  MenusInv'
<1>1. current \in mask
  BY DEF MenusInv
<1>2. CASE mask = {current}
  BY <1>2 DEF Close, MenusInv, Menus
<1>3. CASE mask # {current}
  <2>1. mask \ {current} # {} /\ Opened(mask \ {current})
    BY <1>1, <1>3 DEF Close
  <2>2. mask \ {current} \in SUBSET {"Options", "Help", "Main"}
    BY <1>1, <1>3 DEF MenusInv, Menus
  <2> QED
    BY <2>1, <2>2, OpenedIsMenu
<1> QED
  BY <1>2, <1>3

LEMMA MenusStep == MenusInv /\ [Next]_vars => MenusInv'
<1> SUFFICES ASSUME MenusInv, [Next]_vars PROVE MenusInv'
  OBVIOUS
<1>0. ASSUME UNCHANGED <<mask, current>> PROVE MenusInv'
  BY <1>0 DEF MenusInv
<1>1. ASSUME NEW m \in {"Options", "Help", "Main"}, ShowMenu(m) PROVE MenusInv'
  BY <1>1, OpenedIsMenu DEF ShowMenu
<1>2. ASSUME NEW m \in {"Options", "Help"}, Switch(m) PROVE MenusInv'
  <2>1. current = "Main" /\ mask' = mask \cup {m} /\ current' = m
    BY <1>2 DEF Switch
  <2>2. "SizeError" \notin mask
    BY <2>1 DEF MenusInv
  <2> QED
    BY <2>1, <2>2 DEF MenusInv, Menus
<1>3. CASE Escape
  BY <1>0, <1>3, CloseIsMenu DEF Escape
<1>4. CASE Run \/ RunnerDone \/ Due \/ SizesOfKey \/ Resize \/ Fitted \/ Move \/ Edit \/ EnterInvalid \/ UNCHANGED vars
  BY <1>0, <1>4 DEF Run, RunnerDone, Due, SizesOfKey, Resize, Fitted, Move, Edit, EnterInvalid, vars, menuVars
<1>5. ASSUME NEW which \in Boxes4, ToggleToFit(which) \/ KeyBox(which) PROVE MenusInv'
  BY <1>0, <1>5 DEF ToggleToFit, KeyBox, menuVars
<1>6. ASSUME NEW p \in Presets, KeyPreset(p) PROVE MenusInv'
  BY <1>0, <1>6 DEF KeyPreset, menuVars
<1>7. ASSUME NEW s \in SUBSET Boxes4, EnterBoxes(s) PROVE MenusInv'
  BY <1>0, <1>7 DEF EnterBoxes
<1>8. ASSUME NEW name \in Switches, FlipOption(name) PROVE MenusInv'
  BY <1>0, <1>8 DEF FlipOption, menuVars
<1> QED
  BY <1>1, <1>2, <1>3, <1>4, <1>5, <1>6, <1>7, <1>8 DEF Next

\* The rest of the types.
BoxTypes ==
  /\ term \in Terminals
  /\ main \in {"fit", "input", "sizes", "run"}
  /\ conf \in Options /\ DOMAIN rects \subseteq Boxes4
  /\ dialog \in {"list", "edit", "warning"}
  /\ overlay \in BOOLEAN /\ paused \in BOOLEAN
  /\ runner \in [works : BOOLEAN, overlay : BOOLEAN, background : BOOLEAN]
  /\ flips \in 0 .. Toggles

LEMMA BoxTypesStep == BoxesAssumption /\ ArrangedInv /\ BoxTypes /\ [Next]_vars => BoxTypes'
<1> SUFFICES ASSUME BoxesAssumption, ArrangedInv, BoxTypes, [Next]_vars PROVE BoxTypes'
  OBVIOUS
<1> USE DEF BoxTypes, menuVars
<1>0. tmp \in Options /\ tmp.shown \subseteq Boxes4 /\ Background(tmp) \in BOOLEAN
  BY DEF ArrangedInv, Options, Background
<1>s. DOMAIN Sizes(tmp.shown, tmp, term) \subseteq Boxes4
  BY <1>0 DEF Sizes
<1>1. CASE Run
  <2>1. runner' \in [works : BOOLEAN, overlay : BOOLEAN, background : BOOLEAN]
    BY <1>0, <1>1 DEF Run
  <2>2. overlay' \in BOOLEAN
    BY <1>1, Zenon DEF Run
  <2> QED
    BY <1>0, <1>1, <2>1, <2>2 DEF Run
<1>2. CASE RunnerDone
  <2>1. paused' \in BOOLEAN
    BY <1>2, Zenon DEF RunnerDone
  <2> QED
    BY <1>2, <2>1 DEF RunnerDone, Idle
<1>3. CASE Due
  BY <1>3 DEF Due
<1>4. CASE SizesOfKey
  <2>1. overlay' \in BOOLEAN
    BY <1>4, Zenon DEF SizesOfKey, CalcSizes
  <2>2. conf' = tmp /\ rects' = Sizes(tmp.shown, tmp, term)
    BY <1>4 DEF SizesOfKey, CalcSizes
  <2> QED
    BY <1>0, <1>s, <1>4, <2>1, <2>2 DEF SizesOfKey, CalcSizes
<1>5. CASE Resize
  BY <1>5 DEF Resize
<1>6. CASE Fitted
  <2>1. overlay' \in BOOLEAN
    BY <1>6, Zenon DEF Fitted
  <2>2. conf' = tmp /\ rects' = Sizes(tmp.shown, tmp, term)
    BY <1>6 DEF Fitted
  <2> QED
    BY <1>0, <1>s, <1>6, <2>1, <2>2 DEF Fitted
<1>7. ASSUME NEW which \in Boxes4, ToggleToFit(which) PROVE BoxTypes'
  BY <1>7 DEF ToggleToFit
<1>8. ASSUME NEW which \in Boxes4, KeyBox(which) PROVE BoxTypes'
  BY <1>8 DEF KeyBox
<1>9. ASSUME NEW p \in Presets, KeyPreset(p) PROVE BoxTypes'
  BY <1>9 DEF KeyPreset
<1>10. ASSUME NEW m \in {"Options", "Help", "Main"}, ShowMenu(m) PROVE BoxTypes'
  BY <1>10 DEF ShowMenu
<1>11. ASSUME NEW m \in {"Options", "Help"}, Switch(m) PROVE BoxTypes'
  BY <1>11 DEF Switch
<1>12. CASE Escape
  BY <1>12 DEF Escape, Close
<1>13. CASE Move
  BY <1>13 DEF Move
<1>14. CASE Edit
  BY <1>14 DEF Edit, OptionsDrawn
<1>15. CASE EnterInvalid
  BY <1>15 DEF EnterInvalid, OptionsDrawn
<1>16. ASSUME NEW s \in SUBSET Boxes4, EnterBoxes(s) PROVE BoxTypes'
  <2>1. flips' \in 0 .. Toggles
    BY <1>16 DEF EnterBoxes, BoxesAssumption
  <2> QED
    BY <1>16, <2>1 DEF EnterBoxes, OptionsDrawn
<1>17. ASSUME NEW name \in Switches, FlipOption(name) PROVE BoxTypes'
  <2>1. flips' \in 0 .. Toggles
    BY <1>17 DEF FlipOption, BoxesAssumption
  <2>2. paused' \in BOOLEAN
    BY <1>17, Zenon DEF FlipOption
  <2> QED
    BY <1>17, <2>1, <2>2 DEF FlipOption, OptionsDrawn
<1>18. CASE UNCHANGED vars
  BY <1>18 DEF vars
<1> QED
  BY <1>1, <1>2, <1>3, <1>4, <1>5, <1>6, <1>7, <1>8, <1>9, <1>10,
     <1>11, <1>12, <1>13, <1>14, <1>15, <1>16, <1>17, <1>18 DEF Next

\* What the menus and the boxes are in keeps its type (btop_menu.cpp:1399-1450).
LEMMA BoxesTyped == ASSUME BoxesAssumption PROVE Spec => []TypeOK
<1>1. Init => MenusInv
  BY DEF Init, MenusInv, Menus
<1>2. BoxesAssumption /\ Init => BoxTypes
  <2> SUFFICES ASSUME BoxesAssumption, Init PROVE BoxTypes
    OBVIOUS
  <2>1. conf \in Options
    BY DEF Init, Options
  <2>3. flips \in 0 .. Toggles
    BY DEF Init, BoxesAssumption
  <2>2. DOMAIN rects = {}
    BY DEF Init
  <2> QED
    BY <2>1, <2>2, <2>3 DEF Init, BoxTypes, Idle
<1>3. ArrangedInv /\ MenusInv /\ BoxTypes => TypeOK
  BY DEF ArrangedInv, MenusInv, BoxTypes, TypeOK
<1> QED
  BY <1>1, <1>2, <1>3, MenusStep, BoxTypesStep, ArrangedInvariant, BoxesAssumption, PTL DEF Spec


-----------------------------------------------------------------------------
(* The inductive invariant.                                                 *)

Numbers == {"start", "selected", "last"}

\* The options, and those of them the keys set, which do not have the selected
\* process among them.
GoodConf(c) == Numbers \cup {"pid"} \subseteq DOMAIN c /\ \A o \in Numbers : c[o] \in Nat
GoodTmp(t) == "pid" \notin DOMAIN t /\ \A o \in DOMAIN t \cap Numbers : t[o] \in Nat

ListInv ==
  /\ live \subseteq Pids /\ procs \subseteq Pids /\ rows \in Seq(Pids)
  /\ drawn.start \in Nat /\ drawn.selected \in Nat

\* The options name the process highlighted by the last draw or the one before
\* it; once unlocked before a run, the last.  While they are locked and nothing
\* runs it does not matter what they name.
NamedInv ==
  /\ locked \in BOOLEAN /\ runnerAt \in {"idle", "queued", "collect", "draw"}
  /\ (runnerAt # "idle" \/ ~locked) => options.pid \in {drawn.pid, before}
  /\ (runnerAt # "idle" /\ ~locked) => options.pid = drawn.pid

OptionsInv == GoodConf(options) /\ GoodTmp(pending)

ProcessesInv == ListInv /\ NamedInv /\ OptionsInv

-----------------------------------------------------------------------------
(* The options.                                                             *)

LEMMA OverOptions ==
  ASSUME NEW new, NEW c, GoodTmp(new), GoodConf(c)
  PROVE  GoodConf(Over(new, c)) /\ Over(new, c).pid = c.pid
BY DEF GoodTmp, GoodConf, Over, Numbers

LEMMA OverTmp ==
  ASSUME NEW new, NEW t, GoodTmp(new), GoodTmp(t)
  PROVE  GoodTmp(Over(new, t))
BY DEF GoodTmp, Over, Numbers

LEMMA UnlockedNames ==
  ASSUME ProcessesInv
  PROVE  GoodConf(Unlocked) /\ Unlocked.pid = IF locked THEN drawn.pid ELSE options.pid
<1> DEFINE c == [options EXCEPT !.start = drawn.start, !.selected = drawn.selected, !.pid = drawn.pid]
<1>1. GoodConf(options) /\ GoodTmp(pending) /\ drawn.start \in Nat /\ drawn.selected \in Nat
  BY DEF ProcessesInv, OptionsInv, ListInv
<1>2. GoodConf(c) /\ c.pid = drawn.pid
  BY <1>1 DEF GoodConf, Numbers
<1>3. Unlocked = IF locked THEN Over(pending, c) ELSE options
  BY DEF Unlocked
<1> HIDE DEF c
<1> QED
  BY <1>1, <1>2, <1>3, OverOptions

\* What a key sees is one of the last two, and the last if a run is on its way.
LEMMA SeenNames ==
  ASSUME ProcessesInv
  PROVE  /\ GoodConf(Seen) /\ Seen.pid \in {drawn.pid, before}
         /\ (~Active \/ ~locked) /\ runnerAt # "idle" => Seen.pid = drawn.pid
BY UnlockedNames DEF ProcessesInv, NamedInv, OptionsInv, Seen, Active

LEMMA SetStep ==
  ASSUME ProcessesInv, NEW new, GoodTmp(new), Set(new), UNCHANGED <<runnerAt, drawn, before>>
  PROVE  NamedInv' /\ OptionsInv'
<1>1. CASE Active /\ locked
  <2>1. pending' = Over(new, pending) /\ UNCHANGED <<options, locked>>
    BY <1>1 DEF Set
  <2>2. GoodTmp(Over(new, pending))
    BY OverTmp DEF ProcessesInv, OptionsInv
  <2> QED
    BY <2>1, <2>2 DEF ProcessesInv, NamedInv, OptionsInv
<1>2. CASE ~(Active /\ locked)
  <2>1. options' = Over(new, Seen) /\ pending' = <<>> /\ locked' = FALSE
    BY <1>2 DEF Set
  <2>2. GoodConf(Over(new, Seen)) /\ Over(new, Seen).pid = Seen.pid
    BY SeenNames, OverOptions
  <2>3. Seen.pid \in {drawn.pid, before} /\ (runnerAt # "idle" => Seen.pid = drawn.pid)
    BY <1>2, SeenNames DEF ProcessesInv, NamedInv
  <2>4. GoodTmp(<<>>)
    BY DEF GoodTmp
  <2>5. OptionsInv'
    BY <2>1, <2>2, <2>4 DEF OptionsInv
  <2>6. NamedInv'
    BY <2>1, <2>2, <2>3 DEF ProcessesInv, NamedInv
  <2> QED
    BY <2>5, <2>6
<1> QED
  BY <1>1, <1>2

\* A key that sets options leaves the list alone.
LEMMA SetAndRunStep ==
  ASSUME ProcessesInv, NEW new, GoodTmp(new), SetAndRun(new)
  PROVE  ProcessesInv'
<1>1. Set(new) /\ UNCHANGED <<lists, screen, runnerAt>>
  BY DEF SetAndRun
<1>2. UNCHANGED <<live, procs, rows, drawn, before, runnerAt>>
  BY <1>1 DEF lists, screen
<1>3. NamedInv' /\ OptionsInv'
  BY <1>1, <1>2, SetStep
<1> QED
  BY <1>2, <1>3 DEF ProcessesInv, ListInv

-----------------------------------------------------------------------------
(* The steps.                                                               *)

\* Every place a key or the mouse leads to is a place.
LEMMA MovesLead ==
  ASSUME ProcessesAssumption, ProcessesInv, NEW c, GoodConf(c), NEW to \in Moves(c)
  PROVE  GoodTmp(to)
<1>1. /\ c.start \in Nat /\ c.selected \in Nat /\ c.last \in Nat
      /\ Len(rows) \in Nat /\ Visible(c) \in Nat
  BY DEF GoodConf, Numbers, ProcessesInv, ListInv, ProcessesAssumption, Visible
<1>2. ASSUME NEW start \in Nat, NEW selected \in Nat, NEW last \in Nat
      PROVE  GoodTmp(Step(start, selected, last))
  BY DEF GoodTmp, Step, Numbers
<1>3. GoodTmp(Up(c))
  BY <1>1, <1>2 DEF Up, AtLeast
<1>4. GoodTmp(Down(c))
  BY <1>1, <1>2 DEF Down
<1>5. GoodTmp(PageUp(c))
  BY <1>1, <1>2 DEF PageUp, AtLeast
<1>6. GoodTmp(PageDown(c))
  BY <1>1, <1>2 DEF PageDown, AtLeast, AtMost
<1>7. GoodTmp(Home(c)) /\ GoodTmp(End(c))
  BY <1>1, <1>2 DEF Home, End, AtLeast, AtMost
<1>8. \A line \in 0 .. Visible(c) : GoodTmp(Click(c, line))
  BY <1>1, <1>2 DEF Click
<1>9. \A first \in Starts(c) : GoodTmp(Scroll(c, first))
  BY <1>1, <1>2 DEF Scroll, Starts, AtLeast
<1> QED
  BY <1>3, <1>4, <1>5, <1>6, <1>7, <1>8, <1>9 DEF Moves

LEMMA OrdersAreLists ==
  ASSUME ProcessesAssumption, NEW s \in SUBSET Pids, NEW r \in Sorted(s)
  PROVE  r \in Seq(Pids)
<1>1. IsFiniteSet(s) /\ Cardinality(s) \in Nat
  BY FS_Subset, FS_CardinalityType DEF ProcessesAssumption
<1>2. r \in [1 .. Cardinality(s) -> s]
  BY DEF Sorted, SetToSeqs
<1> QED
  BY <1>1, <1>2

\* The highlighted row is a row of the list, and the process in it is named.
LEMMA DrawNames ==
  ASSUME ProcessesAssumption, ProcessesInv, Draw
  PROVE  /\ drawn'.start \in Nat /\ drawn'.selected \in Nat
         /\ drawn'.selected = 0 <=> drawn'.pid = Nobody
         /\ drawn'.selected > 0 => rows[drawn'.start + drawn'.selected] = drawn'.pid
<1> DEFINE max == IF options.show /\ detail.pid = options.detailed THEN DetailRows ELSE Rows
           n == Len(rows)
           start == AtMost(options.start, AtLeast(n - max, 0))
           selected == AtMost(AtMost(options.selected, max), n)
<1>1. /\ options.start \in Nat /\ options.selected \in Nat /\ n \in Nat /\ max \in Nat
      /\ rows \in Seq(Pids) /\ Nobody \notin Pids
  BY DEF ProcessesInv, OptionsInv, GoodConf, Numbers, ListInv, ProcessesAssumption
<1>2. drawn' = [start |-> start, selected |-> selected,
                pid |-> IF selected = 0 THEN Nobody
                        ELSE IF start + selected <= n THEN rows[start + selected] ELSE drawn.pid]
  BY DEF Draw
<1> HIDE DEF max, n
<1>3. start \in Nat /\ selected \in Nat /\ (selected > 0 => start + selected \in 1 .. n)
  BY <1>1 DEF AtMost, AtLeast
<1> HIDE DEF start, selected
<1>4. selected > 0 => rows[start + selected] \in Pids
  BY <1>1, <1>3 DEF n
<1> QED
  BY <1>1, <1>2, <1>3, <1>4

LEMMA InitialProcesses == ProcInit => ProcessesInv
<1>1. GoodTmp(<<>>) /\ <<>> \in Seq(Pids)
  BY DEF GoodTmp
<1>2. ProcInit => GoodConf(options)
  BY DEF ProcInit, GoodConf, Numbers
<1>3. ProcInit => ListInv /\ NamedInv
  <2>1. ProcInit => ListInv
    BY <1>1 DEF ProcInit, ListInv
  <2>2. ProcInit => locked \in BOOLEAN
    BY Zenon DEF ProcInit
  <2>3. ProcInit => runnerAt = "idle" /\ options.pid = drawn.pid
    BY DEF ProcInit
  <2> QED
    BY <2>1, <2>2, <2>3 DEF NamedInv
<1>4. ProcInit => pending = <<>>
  BY DEF ProcInit
<1> QED
  BY <1>1, <1>2, <1>3, <1>4 DEF ProcessesInv, OptionsInv

LEMMA ProcessesStep == ProcessesAssumption /\ ProcessesInv /\ [ProcNext]_procVars => ProcessesInv'
<1> SUFFICES ASSUME ProcessesAssumption, ProcessesInv, [ProcNext]_procVars PROVE ProcessesInv'
  OBVIOUS
<1>1. CASE ProcRun
  <2>1. /\ options' = Unlocked /\ pending' = <<>> /\ locked' = TRUE /\ runnerAt' = "queued"
        /\ UNCHANGED <<live, procs, rows, drawn, before>>
    BY <1>1 DEF ProcRun, lists, screen
  <2>2. GoodConf(options') /\ options'.pid \in {drawn.pid, before} /\ GoodTmp(<<>>)
    BY <2>1, UnlockedNames DEF ProcessesInv, NamedInv, GoodTmp
  <2> QED
    BY <2>1, <2>2 DEF ProcessesInv, ListInv, NamedInv, OptionsInv
<1>2. CASE Wakes
  BY <1>2 DEF Wakes, ProcessesInv, ListInv, NamedInv, OptionsInv, lists, screen, config
<1>3. CASE Collect
  <2>1. /\ UNCHANGED <<live, drawn, before, options, pending, locked>>
        /\ runnerAt = "collect" /\ runnerAt' = "draw"
    BY <1>3 DEF Collect, screen, config
  <2>2. procs' \subseteq Pids /\ rows' \in Seq(Pids)
    <3>1. CASE CollectAnew
      <4>1. live \cap options.filter \in SUBSET Pids
        BY DEF ProcessesInv, ListInv
      <4> QED
        BY <3>1, <4>1, OrdersAreLists DEF CollectAnew, ProcessesInv, ListInv
    <3>2. CASE CollectCached
      <4>1. procs \cap options.filter \in SUBSET Pids /\ ToSet(rows) \in SUBSET Pids
        BY DEF ProcessesInv, ListInv, ToSet
      <4> QED
        BY <3>2, <4>1, OrdersAreLists DEF CollectCached, ProcessesInv, ListInv
    <3> QED
      BY <1>3, <3>1, <3>2 DEF Collect
  <2> QED
    BY <2>1, <2>2 DEF ProcessesInv, ListInv, NamedInv, OptionsInv
<1>4. CASE Draw
  <2>1. /\ UNCHANGED <<live, procs, rows, options, pending, locked>>
        /\ runnerAt = "draw" /\ runnerAt' = "idle" /\ before' = drawn.pid
    BY <1>4 DEF Draw, lists, config
  <2> QED
    BY <1>4, <2>1, DrawNames DEF ProcessesInv, ListInv, NamedInv, OptionsInv
<1>5. CASE Navigate
  BY <1>5, SeenNames, MovesLead, SetAndRunStep DEF Navigate
<1>6. CASE ShowDetails
  <2>1. Seen.selected \in Nat
    BY SeenNames DEF GoodConf, Numbers
  <2>2. GoodTmp([detailed |-> Seen.pid, last |-> Seen.selected, selected |-> 0, show |-> TRUE])
    BY <2>1 DEF GoodTmp, Numbers
  <2> QED
    BY <1>6, <2>2, SetAndRunStep DEF ShowDetails
<1>7. CASE HideDetails
  <2>1. Seen.selected \in Nat /\ Seen.last \in Nat
    BY SeenNames DEF GoodConf, Numbers
  <2>2. GoodTmp([selected |-> IF Seen.last > 0 THEN Seen.last ELSE Seen.selected,
                 last |-> 0, detailed |-> Nobody, show |-> FALSE])
    BY <2>1 DEF GoodTmp, Numbers
  <2> QED
    BY <1>7, <2>2, SetAndRunStep DEF HideDetails
<1>8. CASE Sort \/ StartFilter \/ TypeFilter \/ EndFilter \/ ClearFilter
  <2>1. \A v : /\ GoodTmp([sort |-> v]) /\ GoodTmp([filtering |-> v]) /\ GoodTmp([filter |-> v])
               /\ GoodTmp([filter |-> v, filtering |-> FALSE])
    BY DEF GoodTmp, Numbers
  <2> QED
    BY <1>8, <2>1, SetAndRunStep DEF Sort, StartFilter, TypeFilter, EndFilter, ClearFilter
<1>9. CASE KeyTerminate \/ Yes \/ Leave
  <2>1. Set(<<>>) /\ UNCHANGED <<procs, rows, drawn, before, runnerAt>>
    BY <1>9 DEF KeyTerminate, Yes, Leave, lists, screen, run
  <2>3. GoodTmp(<<>>)
    BY DEF GoodTmp
  <2>2. live' \subseteq Pids
    BY <1>9 DEF KeyTerminate, Yes, Leave, lists, ProcessesInv, ListInv
  <2> QED
    BY <2>1, <2>2, <2>3, SetStep DEF ProcessesInv, ListInv
<1>10. ASSUME UNCHANGED <<procs, rows, drawn, before, options, pending, locked, runnerAt>>, live' \subseteq Pids
       PROVE  ProcessesInv'
  BY <1>10 DEF ProcessesInv, ListInv, NamedInv, OptionsInv
<1>11. CASE ProcDue \/ OpenDialog \/ UNCHANGED procVars
  BY <1>10, <1>11 DEF ProcDue, OpenDialog, procVars, lists, screen, config, run, AskRun, ProcessesInv, ListInv
<1>12. ASSUME NEW p \in Pids, ProcessEnds(p) \/ ProcessStarts(p) PROVE ProcessesInv'
  BY <1>10, <1>12 DEF ProcessEnds, ProcessStarts, screen, config, run, ProcessesInv, ListInv
<1> QED
  BY <1>1, <1>2, <1>3, <1>4, <1>5, <1>6, <1>7, <1>8, <1>9, <1>11, <1>12 DEF ProcNext

\* The invariant holds of every behaviour.
LEMMA ProcessesInvariant == ASSUME ProcessesAssumption PROVE ProcSpec => []ProcessesInv
<1>1. ProcessesAssumption /\ ProcessesInv /\ [ProcNext]_procVars => ProcessesInv'
  BY ProcessesStep
<1> QED
  BY <1>1, InitialProcesses, ProcessesAssumption, PTL DEF ProcSpec

-----------------------------------------------------------------------------
(* What it is for.                                                          *)

\* However long the list and however it shrinks between a key and the draw: a
\* highlighted row has its process named, and none is named without one
\* (btop_draw.cpp:1430-1449).
THEOREM HighlightedIsNamed == ASSUME ProcessesAssumption PROVE ProcSpec => SelectionNamed
<1>1. ProcessesInv /\ [ProcNext]_procVars =>
        [drawn' # drawn =>
           /\ drawn'.selected = 0 <=> drawn'.pid = Nobody
           /\ drawn'.selected > 0 => rows[drawn'.start + drawn'.selected] = drawn'.pid]_procVars
  <2> SUFFICES ASSUME ProcessesInv, ProcNext, drawn' # drawn
               PROVE  /\ drawn'.selected = 0 <=> drawn'.pid = Nobody
                      /\ drawn'.selected > 0 => rows[drawn'.start + drawn'.selected] = drawn'.pid
    OBVIOUS
  <2>1. Draw
    BY DEF ProcNext, ProcRun, ProcDue, Wakes, Collect, Navigate, ShowDetails, HideDetails, Sort, StartFilter,
           TypeFilter, EndFilter, ClearFilter, KeyTerminate, OpenDialog, Yes, Leave, ProcessEnds,
           ProcessStarts, SetAndRun, screen
  <2> QED
    BY <2>1, DrawNames, ProcessesAssumption
<1> QED
  BY <1>1, ProcessesInvariant, PTL DEF ProcSpec, SelectionNamed

\* Whatever runs between the key that opens the dialog and the one that
\* answers it, yes terminates a process of the last two highlighted, or the one
\* of the details (btop_menu.cpp:798-855).
THEOREM PointedAtIsTerminated == ASSUME ProcessesAssumption PROVE ProcSpec => KillsPointedAt
<1>1. ProcessesInv /\ [ProcNext]_procVars =>
        [killed' # killed => killed' \in {drawn.pid, before, Seen.detailed}]_procVars
  <2> SUFFICES ASSUME ProcessesInv, ProcNext, killed' # killed
               PROVE  killed' \in {drawn.pid, before, Seen.detailed}
    OBVIOUS
  <2>1. Yes
    BY DEF ProcNext, ProcRun, ProcDue, Wakes, Collect, Draw, Navigate, ShowDetails, HideDetails, Sort, StartFilter,
           TypeFilter, EndFilter, ClearFilter, KeyTerminate, OpenDialog, Leave, ProcessEnds,
           ProcessStarts, SetAndRun
  <2>2. killed' = Target(Seen)
    BY <2>1 DEF Yes
  <2> QED
    BY <2>2, SeenNames DEF Target
<1> QED
  BY <1>1, ProcessesInvariant, PTL DEF ProcSpec, KillsPointedAt

-----------------------------------------------------------------------------
(* The types of the process list.                                           *)

OptionNames == {"start", "selected", "pid", "last", "show", "detailed", "filter", "filtering", "sort"}

\* Options of their types; n keys have moved the selection so far.
Typed(c, n) ==
  /\ DOMAIN c \subseteq OptionNames
  /\ "start" \in DOMAIN c => c.start \in Nat
  /\ "selected" \in DOMAIN c => c.selected \in 0 .. Rows + n
  /\ "last" \in DOMAIN c => c.last \in 0 .. Rows + n
  /\ "pid" \in DOMAIN c => c.pid \in Pids \cup {Nobody}
  /\ "detailed" \in DOMAIN c => c.detailed \in Pids \cup {Nobody}
  /\ "show" \in DOMAIN c => c.show \in BOOLEAN
  /\ "filtering" \in DOMAIN c => c.filtering \in BOOLEAN
  /\ "sort" \in DOMAIN c => c.sort \in BOOLEAN
  /\ "filter" \in DOMAIN c => c.filter \in Filters

OptionTypes ==
  /\ keys \in 0 .. MaxKeys
  /\ DOMAIN options = OptionNames /\ Typed(options, keys)
  /\ Typed(pending, keys) /\ (pending # <<>> => locked)
  /\ old \in Filters

ScreenTypes ==
  /\ applied \in [filter : Filters, sort : BOOLEAN]
  /\ detail \in [pid : Pids \cup {Nobody}, alive : BOOLEAN]
  /\ drawn \in [start : Nat, selected : 0 .. Rows, pid : Pids \cup {Nobody}]
  /\ mainAt \in {"input", "wait", "run"}
  /\ asked \in [menu : {"none", "send", "return"}, pid : Pids \cup {Nobody}]

\* The list shows each of its processes once.
RowTypes == ToSet(rows) \subseteq procs /\ Len(rows) = Cardinality(ToSet(rows))

TypesInv == OptionTypes /\ ScreenTypes /\ RowTypes

\* Options keep their types when some replace others, or with another key.
LEMMA OverTyped ==
  ASSUME NEW n, NEW new, Typed(new, n), NEW c, Typed(c, n)
  PROVE  Typed(Over(new, c), n) /\ DOMAIN Over(new, c) = DOMAIN new \cup DOMAIN c
<1> DEFINE o == Over(new, c)
<1>1. DOMAIN o = DOMAIN new \cup DOMAIN c
  BY DEF Over
<1>2. \A k \in DOMAIN o : o[k] = IF k \in DOMAIN new THEN new[k] ELSE c[k]
  BY DEF Over
<1> HIDE DEF o
<1>3. Typed(o, n)
  BY <1>1, <1>2 DEF Typed
<1> QED
  BY <1>1, <1>3 DEF o

LEMMA TypedGrows ==
  ASSUME ProcessesAssumption, NEW n \in Nat, NEW c, Typed(c, n)
  PROVE  Typed(c, n + 1)
<1>1. 0 .. Rows + n \subseteq 0 .. Rows + (n + 1)
  BY DEF ProcessesAssumption
<1> QED
  BY <1>1 DEF Typed

LEMMA UnlockedTyped ==
  ASSUME ProcessesAssumption, TypesInv
  PROVE  Typed(Unlocked, keys) /\ DOMAIN Unlocked = OptionNames
<1> DEFINE c == [options EXCEPT !.start = drawn.start, !.selected = drawn.selected, !.pid = drawn.pid]
<1>1. /\ keys \in Nat /\ DOMAIN options = OptionNames /\ Typed(options, keys) /\ Typed(pending, keys)
      /\ drawn.start \in Nat /\ drawn.selected \in 0 .. Rows + keys /\ drawn.pid \in Pids \cup {Nobody}
  <2>1. keys \in Nat /\ Rows \in Nat /\ drawn.selected \in 0 .. Rows
    BY DEF TypesInv, OptionTypes, ScreenTypes, ProcessesAssumption
  <2>2. drawn.selected \in 0 .. Rows + keys
    BY <2>1
  <2> QED
    BY <2>1, <2>2 DEF TypesInv, OptionTypes, ScreenTypes
<1>2. /\ DOMAIN c = OptionNames /\ c.start = drawn.start /\ c.selected = drawn.selected /\ c.pid = drawn.pid
      /\ \A k \in OptionNames \ {"start", "selected", "pid"} : c[k] = options[k]
  BY <1>1 DEF OptionNames
<1>3. Unlocked = IF locked THEN Over(pending, c) ELSE options
  BY DEF Unlocked
<1> HIDE DEF c
<1>4. Typed(c, keys)
  BY <1>1, <1>2 DEF Typed, OptionNames
<1>5. Typed(Over(pending, c), keys) /\ DOMAIN Over(pending, c) = DOMAIN pending \cup OptionNames
  BY <1>1, <1>2, <1>4, OverTyped
<1>6. DOMAIN pending \cup OptionNames = OptionNames
  BY <1>1 DEF Typed
<1> QED
  BY <1>1, <1>3, <1>5, <1>6

\* What a key sees has its types.
LEMMA SeenTyped ==
  ASSUME ProcessesAssumption, TypesInv
  PROVE  Typed(Seen, keys) /\ DOMAIN Seen = OptionNames
BY UnlockedTyped DEF TypesInv, OptionTypes, Seen

\* What a key sets too.
LEMMA SetTyped ==
  ASSUME ProcessesAssumption, TypesInv, NEW new, Typed(new, keys + 1), Set(new), Key, old' \in Filters
  PROVE  OptionTypes'
<1>1. keys \in Nat /\ keys' = keys + 1 /\ keys' \in 0 .. MaxKeys
  BY DEF Key, TypesInv, OptionTypes, ProcessesAssumption
<1>2. /\ DOMAIN options = OptionNames /\ Typed(options, keys + 1) /\ Typed(pending, keys + 1)
      /\ DOMAIN Seen = OptionNames /\ Typed(Seen, keys + 1)
  BY <1>1, SeenTyped, TypedGrows DEF TypesInv, OptionTypes
<1>3. Typed(<<>>, keys + 1)
  BY DEF Typed
<1>4. CASE Active /\ locked
  <2>1. pending' = Over(new, pending) /\ UNCHANGED <<options, locked>>
    BY <1>4 DEF Set
  <2>2. Typed(Over(new, pending), keys + 1)
    BY <1>2, OverTyped, Zenon
  <2> QED
    BY <1>1, <1>2, <1>4, <2>1, <2>2 DEF OptionTypes
<1>5. CASE ~(Active /\ locked)
  <2>1. options' = Over(new, Seen) /\ pending' = <<>>
    BY <1>5 DEF Set
  <2>2. Typed(Over(new, Seen), keys + 1) /\ DOMAIN Over(new, Seen) = DOMAIN new \cup OptionNames
    <3>1. PICK c : c = Seen
      OBVIOUS
    <3>2. PICK n : n = keys + 1
      OBVIOUS
    <3>3. Typed(new, n) /\ Typed(c, n) /\ DOMAIN c = OptionNames
      BY <1>2, <3>1, <3>2
    <3>4. Typed(Over(new, c), n)
      BY <3>3, OverTyped, Zenon
    <3>5. DOMAIN Over(new, c) = DOMAIN new \cup DOMAIN c
      BY DEF Over
    <3> QED
      BY <3>1, <3>2, <3>3, <3>4, <3>5
  <2>3. DOMAIN new \cup OptionNames = OptionNames
    BY DEF Typed
  <2> QED
    BY <1>1, <1>3, <2>1, <2>2, <2>3 DEF OptionTypes
<1> QED
  BY <1>4, <1>5

LEMMA SetAndRunTyped ==
  ASSUME ProcessesAssumption, TypesInv, NEW new, Typed(new, keys + 1), SetAndRun(new), Key, old' \in Filters
  PROVE  TypesInv'
<1>1. OptionTypes'
  BY SetTyped DEF SetAndRun
<1>2. ScreenTypes' /\ RowTypes'
  BY DEF SetAndRun, AskRun, lists, screen, TypesInv, ScreenTypes, RowTypes
<1> QED
  BY <1>1, <1>2 DEF TypesInv

\* Navigation moves the selection by one line at most, or to a line.
LEMMA MovesTyped ==
  ASSUME ProcessesAssumption, ListInv, TypesInv, NEW to \in Moves(Seen)
  PROVE  Typed(to, keys + 1)
<1> DEFINE n == Rows + keys
<1>1. /\ Seen.start \in Nat /\ Seen.selected \in 0 .. n /\ Seen.last \in 0 .. n
      /\ Len(rows) \in Nat /\ Visible(Seen) \in 0 .. Rows /\ n \in Nat /\ Rows \in 0 .. n
  <2>1. Seen.start \in Nat /\ Seen.selected \in 0 .. n /\ Seen.last \in 0 .. n
    BY SeenTyped DEF Typed, OptionNames
  <2>2. Len(rows) \in Nat
    BY DEF ListInv
  <2>3. Visible(Seen) \in 0 .. Rows /\ n \in Nat /\ Rows \in 0 .. n
    BY DEF Visible, ProcessesAssumption, TypesInv, OptionTypes
  <2> QED
    BY <2>1, <2>2, <2>3
<1>2. ASSUME NEW start \in Nat, NEW selected \in 0 .. n + 1, NEW last \in 0 .. n + 1
      PROVE  Typed(Step(start, selected, last), keys + 1)
  <2>1. n + 1 = Rows + (keys + 1)
    BY DEF TypesInv, OptionTypes, ProcessesAssumption
  <2> HIDE DEF n
  <2> QED
    BY <2>1 DEF Typed, Step, OptionNames
<1> HIDE DEF n
<1>3. Typed(Up(Seen), keys + 1)
  BY <1>1, <1>2 DEF Up, AtLeast
<1>4. Typed(Down(Seen), keys + 1)
  BY <1>1, <1>2 DEF Down
<1>5. Typed(PageUp(Seen), keys + 1)
  BY <1>1, <1>2 DEF PageUp, AtLeast
<1>6. Typed(PageDown(Seen), keys + 1)
  BY <1>1, <1>2 DEF PageDown, AtLeast, AtMost
<1>7. Typed(Home(Seen), keys + 1) /\ Typed(End(Seen), keys + 1)
  BY <1>1, <1>2 DEF Home, End, AtLeast, AtMost
<1>8. \A line \in 0 .. Visible(Seen) : Typed(Click(Seen, line), keys + 1)
  BY <1>1, <1>2 DEF Click
<1>9. \A first \in Starts(Seen) : Typed(Scroll(Seen, first), keys + 1)
  BY <1>1, <1>2 DEF Scroll, Starts, AtLeast
<1> QED
  BY <1>3, <1>4, <1>5, <1>6, <1>7, <1>8, <1>9 DEF Moves

\* A list that is sorted has each of its processes once.
LEMMA SortedTyped ==
  ASSUME ProcessesAssumption, NEW s \in SUBSET Pids, NEW r \in Sorted(s)
  PROVE  ToSet(r) = s /\ Len(r) = Cardinality(ToSet(r))
<1> DEFINE n == Cardinality(s)
<1>1. IsFiniteSet(s) /\ n \in Nat
  BY FS_Subset, FS_CardinalityType DEF ProcessesAssumption
<1>2. r \in [1 .. n -> s] /\ \A i, j \in 1 .. n : i # j => r[i] # r[j]
  BY DEF Sorted, SetToSeqs
<1>3. r \in Injection(1 .. n, s)
  BY <1>2 DEF Injection, IsInjective
<1>4. Cardinality(1 .. n) = n
  BY <1>1, FS_Interval
<1>5. r \in Surjection(1 .. n, s)
  BY <1>1, <1>3, <1>4, FS_Injection
<1>6. ToSet(r) = s
  BY <1>2, <1>5 DEF ToSet, Surjection
<1>7. Len(r) = n
  BY <1>1, <1>2
<1> QED
  BY <1>6, <1>7

LEMMA CollectTyped ==
  ASSUME ProcessesAssumption, ProcessesInv, TypesInv, Collect
  PROVE  TypesInv'
<1>1. /\ UNCHANGED <<drawn, options, pending, locked, old, mainAt, asked, keys, live>>
      /\ applied' = [filter |-> options.filter, sort |-> options.sort]
  BY DEF Collect, screen, config
<1>2. /\ options.filter \in Filters /\ options.sort \in BOOLEAN /\ options.show \in BOOLEAN
      /\ options.detailed \in Pids \cup {Nobody}
      /\ detail \in [pid : Pids \cup {Nobody}, alive : BOOLEAN]
      /\ live \in SUBSET Pids /\ procs \in SUBSET Pids /\ ToSet(rows) \subseteq procs
  BY DEF TypesInv, OptionTypes, ScreenTypes, RowTypes, Typed, OptionNames, ProcessesInv, ListInv
<1>3. ASSUME Details(options.detailed) PROVE detail' \in [pid : Pids \cup {Nobody}, alive : BOOLEAN]
  BY <1>2, <1>3 DEF Details
<1>4. detail' \in [pid : Pids \cup {Nobody}, alive : BOOLEAN] /\ RowTypes'
  <2>1. CASE CollectAnew
    <3>1. procs' = live /\ rows' \in Sorted(live \cap options.filter)
      BY <2>1 DEF CollectAnew
    <3>2. ToSet(rows') = live \cap options.filter /\ Len(rows') = Cardinality(ToSet(rows'))
      BY <1>2, <3>1, SortedTyped
    <3>3. CASE options.show /\ options.detailed \in live
      BY <1>3, <2>1, <3>1, <3>2, <3>3 DEF CollectAnew, RowTypes
    <3>4. CASE ~(options.show /\ options.detailed \in live)
      <4>1. detail' = [detail EXCEPT !.alive = @ /\ ~options.show]
        BY <2>1, <3>4 DEF CollectAnew
      <4>2. detail' \in [pid : Pids \cup {Nobody}, alive : BOOLEAN]
        BY <1>2, <4>1
      <4> QED
        BY <3>1, <3>2, <4>2 DEF RowTypes
    <3> QED
      BY <3>3, <3>4
  <2>2. CASE CollectCached
    <3>1. procs' = procs
      BY <2>2 DEF CollectCached
    <3>2. RowTypes'
      <4>1. CASE ~Resorted
        BY <2>2, <3>1, <4>1 DEF CollectCached, TypesInv, RowTypes
      <4>2. CASE Resorted /\ options.filter # applied.filter
        <5>1. rows' \in Sorted(procs \cap options.filter) /\ procs \cap options.filter \in SUBSET Pids
          BY <1>2, <2>2, <4>2 DEF CollectCached
        <5>2. ToSet(rows') = procs \cap options.filter /\ Len(rows') = Cardinality(ToSet(rows'))
          BY <5>1, SortedTyped
        <5> QED
          BY <3>1, <5>2 DEF RowTypes
      <4>3. CASE Resorted /\ options.filter = applied.filter
        <5>1. rows' \in Sorted(ToSet(rows)) /\ ToSet(rows) \in SUBSET Pids
          BY <1>2, <2>2, <4>3 DEF CollectCached
        <5>2. ToSet(rows') = ToSet(rows) /\ Len(rows') = Cardinality(ToSet(rows'))
          BY <5>1, SortedTyped
        <5> QED
          BY <1>2, <3>1, <5>2 DEF RowTypes
      <4> QED
        BY <4>1, <4>2, <4>3
    <3>3. detail' \in [pid : Pids \cup {Nobody}, alive : BOOLEAN]
      BY <1>2, <1>3, <2>2 DEF CollectCached
    <3> QED
      BY <3>2, <3>3
  <2> QED
    BY <2>1, <2>2 DEF Collect
<1>5. applied' \in [filter : Filters, sort : BOOLEAN]
  BY <1>1, <1>2
<1> QED
  BY <1>1, <1>4, <1>5 DEF TypesInv, OptionTypes, ScreenTypes

LEMMA DrawTyped ==
  ASSUME ProcessesAssumption, ProcessesInv, TypesInv, Draw
  PROVE  TypesInv'
<1> DEFINE max == IF options.show /\ detail.pid = options.detailed THEN DetailRows ELSE Rows
           n == Len(rows)
           start == AtMost(options.start, AtLeast(n - max, 0))
           selected == AtMost(AtMost(options.selected, max), n)
<1>1. /\ options.start \in Nat /\ options.selected \in Nat /\ n \in Nat /\ max \in 0 .. Rows /\ Rows \in Nat
      /\ drawn.pid \in Pids \cup {Nobody}
  <2>1. options.start \in Nat /\ options.selected \in Nat /\ n \in Nat
    BY DEF ProcessesInv, OptionsInv, GoodConf, Numbers, ListInv
  <2>2. max \in 0 .. Rows /\ Rows \in Nat
    BY DEF ProcessesAssumption
  <2>3. drawn.pid \in Pids \cup {Nobody}
    BY DEF TypesInv, ScreenTypes
  <2> QED
    BY <2>1, <2>2, <2>3
<1>2. drawn' = [start |-> start, selected |-> selected,
                pid |-> IF selected = 0 THEN Nobody
                        ELSE IF start + selected <= n THEN rows[start + selected] ELSE drawn.pid]
  BY DEF Draw
<1> HIDE DEF max, n
<1>3. start \in Nat /\ selected \in 0 .. Rows /\ (selected > 0 => start + selected \in 1 .. n)
  BY <1>1 DEF AtMost, AtLeast
<1> HIDE DEF start, selected
<1>4. selected > 0 => rows[start + selected] \in Pids
  BY <1>3 DEF n, ProcessesInv, ListInv
<1>5. (IF selected = 0 THEN Nobody ELSE IF start + selected <= n THEN rows[start + selected] ELSE drawn.pid)
        \in Pids \cup {Nobody}
  BY <1>1, <1>3, <1>4
<1>6. drawn' \in [start : Nat, selected : 0 .. Rows, pid : Pids \cup {Nobody}]
  BY <1>2, <1>3, <1>5
<1>7. UNCHANGED <<procs, rows, applied, detail, options, pending, locked, old, mainAt, asked, keys>>
  BY DEF Draw, lists, config
<1> QED
  BY <1>6, <1>7 DEF TypesInv, OptionTypes, ScreenTypes, RowTypes

\* The target of a dialog is a process.
LEMMA TargetTyped ==
  ASSUME NEW c, NEW n, Typed(c, n), DOMAIN c = OptionNames
  PROVE  Target(c) \in Pids \cup {Nobody}
BY DEF Typed, OptionNames, Target

LEMMA TypesStep == ProcessesAssumption /\ ProcessesInv /\ TypesInv /\ [ProcNext]_procVars => TypesInv'
<1> SUFFICES ASSUME ProcessesAssumption, ProcessesInv, TypesInv, [ProcNext]_procVars PROVE TypesInv'
  OBVIOUS
<1>0. ASSUME UNCHANGED <<procs, rows, applied, detail, drawn, options, pending, locked, old, keys, asked>>,
             mainAt' \in {"input", "wait", "run"}
      PROVE  TypesInv'
  BY <1>0 DEF TypesInv, OptionTypes, ScreenTypes, RowTypes
<1>k. /\ Seen.pid \in Pids \cup {Nobody} /\ Seen.selected \in 0 .. Rows + (keys + 1) /\ Seen.filter \in Filters
      /\ Seen.last \in 0 .. Rows + (keys + 1) /\ Seen.sort \in BOOLEAN
      /\ 0 \in 0 .. Rows + (keys + 1) /\ Pids \in Filters /\ old \in Filters
  <2>1. keys \in Nat /\ Typed(Seen, keys + 1) /\ DOMAIN Seen = OptionNames
    BY SeenTyped, TypedGrows DEF TypesInv, OptionTypes, ProcessesAssumption
  <2>2. 0 \in 0 .. Rows + (keys + 1) /\ Pids \in Filters
    BY <2>1 DEF ProcessesAssumption
  <2> QED
    BY <2>1, <2>2 DEF Typed, OptionNames, TypesInv, OptionTypes
<1>1. CASE ProcRun
  <2>1. /\ options' = Unlocked /\ pending' = <<>> /\ locked' = TRUE /\ mainAt' = "input"
        /\ UNCHANGED <<procs, rows, applied, detail, drawn, old, asked, keys>>
    BY <1>1 DEF ProcRun, lists, screen
  <2>2. Typed(Unlocked, keys) /\ DOMAIN Unlocked = OptionNames /\ Typed(<<>>, keys)
    BY UnlockedTyped DEF Typed
  <2>3. OptionTypes'
    BY <2>1, <2>2 DEF TypesInv, OptionTypes
  <2> QED
    BY <2>1, <2>3 DEF TypesInv, ScreenTypes, RowTypes
<1>2. CASE ProcDue \/ Wakes
  <2>1. mainAt \in {"input", "wait", "run"}
    BY DEF TypesInv, ScreenTypes
  <2> QED
    BY <1>0, <1>2, <2>1 DEF ProcDue, Wakes, AskRun, lists, screen, config
<1>3. CASE Collect
  BY <1>3, CollectTyped
<1>4. CASE Draw
  BY <1>4, DrawTyped
<1>5. CASE Navigate
  <2>1. PICK to \in Moves(Seen) : SetAndRun(to)
    BY <1>5 DEF Navigate
  <2>2. Key /\ old' \in Filters
    BY <1>k, <1>5 DEF Navigate, AtList
  <2>3. Typed(to, keys + 1)
    BY MovesTyped DEF ProcessesInv
  <2> QED
    BY <2>1, <2>2, <2>3, SetAndRunTyped
<1>6. CASE ShowDetails
  <2>1. Typed([detailed |-> Seen.pid, last |-> Seen.selected, selected |-> 0, show |-> TRUE], keys + 1)
    BY <1>k DEF Typed, OptionNames
  <2>2. Key /\ old' \in Filters
    BY <1>k, <1>6 DEF ShowDetails, AtList
  <2> QED
    BY <1>6, <2>1, <2>2, SetAndRunTyped DEF ShowDetails
<1>7. CASE HideDetails
  <2>1. Typed([selected |-> IF Seen.last > 0 THEN Seen.last ELSE Seen.selected,
               last |-> 0, detailed |-> Nobody, show |-> FALSE], keys + 1)
    BY <1>k DEF Typed, OptionNames
  <2>2. Key /\ old' \in Filters
    BY <1>k, <1>7 DEF HideDetails, AtList
  <2> QED
    BY <1>7, <2>1, <2>2, SetAndRunTyped DEF HideDetails
<1>8. CASE Sort \/ StartFilter \/ ClearFilter
  <2>1. /\ Typed([sort |-> ~Seen.sort], keys + 1) /\ Typed([filtering |-> TRUE], keys + 1)
        /\ Typed([filter |-> Pids], keys + 1)
    BY <1>k DEF Typed, OptionNames
  <2>2. Key /\ old' \in Filters
    BY <1>k, <1>8 DEF Sort, StartFilter, ClearFilter, AtList
  <2> QED
    BY <1>8, <2>1, <2>2, SetAndRunTyped DEF Sort, StartFilter, ClearFilter
<1>9. CASE TypeFilter
  <2>1. PICK f \in Filters : SetAndRun([filter |-> f])
    BY <1>9 DEF TypeFilter
  <2>2. Key /\ old' \in Filters
    BY <1>k, <1>9 DEF TypeFilter
  <2>3. Typed([filter |-> f], keys + 1)
    BY DEF Typed, OptionNames
  <2> QED
    BY <2>1, <2>2, <2>3, SetAndRunTyped
<1>10. CASE EndFilter
  <2>1. PICK f \in Filters : SetAndRun([filter |-> f, filtering |-> FALSE])
    BY <1>k, <1>10 DEF EndFilter
  <2>2. Key /\ old' \in Filters
    BY <1>k, <1>10 DEF EndFilter
  <2>3. Typed([filter |-> f, filtering |-> FALSE], keys + 1)
    BY DEF Typed, OptionNames
  <2> QED
    BY <2>1, <2>2, <2>3, SetAndRunTyped
<1>11. CASE KeyTerminate \/ Yes \/ Leave
  <2>1. Set(<<>>) /\ Key /\ old' \in Filters /\ UNCHANGED <<procs, rows, applied, detail, drawn>>
    BY <1>k, <1>11 DEF KeyTerminate, AtList, Yes, Leave, Answer, lists, screen
  <2>2. Typed(<<>>, keys + 1)
    BY DEF Typed
  <2>3. OptionTypes'
    BY <2>1, <2>2, SetTyped
  <2>4. asked \in [menu : {"none", "send", "return"}, pid : Pids \cup {Nobody}]
    BY DEF TypesInv, ScreenTypes
  <2>5. mainAt' \in {"input", "wait", "run"} /\ asked' \in {asked, NoDialog, [menu |-> "return", pid |-> Nobody]}
    BY <1>11 DEF KeyTerminate, Yes, Leave, AskRun
  <2>6. asked' \in [menu : {"none", "send", "return"}, pid : Pids \cup {Nobody}]
    BY <2>4, <2>5 DEF NoDialog
  <2> QED
    BY <2>1, <2>3, <2>5, <2>6 DEF TypesInv, ScreenTypes, RowTypes
<1>12. CASE OpenDialog
  <2>1. UNCHANGED <<procs, rows, applied, detail, drawn, options, pending, locked, old, keys>>
    BY <1>12 DEF OpenDialog, lists, screen, config
  <2>2. Target(options) \in Pids \cup {Nobody}
    BY TargetTyped DEF TypesInv, OptionTypes
  <2>3. mainAt' \in {"input", "run"} /\ asked' \in {asked, NoDialog, [menu |-> "send", pid |-> Target(options)]}
    BY <1>12 DEF OpenDialog, AskRun
  <2>4. asked' \in [menu : {"none", "send", "return"}, pid : Pids \cup {Nobody}]
    BY <2>2, <2>3 DEF NoDialog, TypesInv, ScreenTypes
  <2> QED
    BY <2>1, <2>3, <2>4 DEF TypesInv, OptionTypes, ScreenTypes, RowTypes
<1>13. ASSUME NEW p \in Pids, ProcessEnds(p) \/ ProcessStarts(p) PROVE TypesInv'
  <2>1. mainAt \in {"input", "wait", "run"}
    BY DEF TypesInv, ScreenTypes
  <2> QED
    BY <1>0, <1>13, <2>1 DEF ProcessEnds, ProcessStarts, screen, config
<1>14. CASE UNCHANGED procVars
  <2>1. mainAt \in {"input", "wait", "run"}
    BY DEF TypesInv, ScreenTypes
  <2> QED
    BY <1>0, <1>14, <2>1 DEF procVars, lists, screen, config
<1> QED
  BY <1>1, <1>2, <1>3, <1>4, <1>5, <1>6, <1>7, <1>8, <1>9, <1>10, <1>11, <1>12, <1>13, <1>14 DEF ProcNext

LEMMA InitialTypes == ProcessesAssumption /\ ProcInit => TypesInv
<1> SUFFICES ASSUME ProcessesAssumption, ProcInit PROVE TypesInv
  OBVIOUS
<1>1. keys \in 0 .. MaxKeys /\ 0 \in 0 .. Rows + keys /\ Pids \in Filters /\ 0 \in 0 .. Rows
  BY DEF ProcInit, ProcessesAssumption
<1>2. options = [start |-> 0, selected |-> 0, pid |-> Nobody, last |-> 0, show |-> FALSE,
                 detailed |-> Nobody, filter |-> Pids, filtering |-> FALSE, sort |-> FALSE]
  BY DEF ProcInit
<1>3. DOMAIN options = OptionNames /\ Typed(options, keys)
  BY <1>1, <1>2 DEF Typed, OptionNames
<1>4. pending = <<>> /\ old = Pids /\ Typed(<<>>, keys)
  BY DEF ProcInit, Typed
<1>5. OptionTypes
  BY <1>1, <1>3, <1>4 DEF OptionTypes
<1>6. ScreenTypes
  BY <1>1 DEF ProcInit, ScreenTypes, NoDialog
<1>7. RowTypes
  <2>1. rows = <<>> /\ ToSet(<<>>) = {} /\ Len(<<>>) = 0
    BY DEF ProcInit, ToSet
  <2>2. Cardinality({}) = 0
    BY FS_EmptySet
  <2> QED
    BY <2>1, <2>2 DEF RowTypes
<1> QED
  BY <1>5, <1>6, <1>7 DEF TypesInv

\* The list has each process once, and the selection is a number of lines that
\* the keys pressed account for (btop_draw.cpp:1088-1107).
LEMMA ProcessesTyped == ASSUME ProcessesAssumption PROVE ProcSpec => []ProcTypeOK
<1>1. ProcessesAssumption /\ ProcessesInv /\ TypesInv => ProcTypeOK
  <2> SUFFICES ASSUME ProcessesAssumption, ProcessesInv, TypesInv PROVE ProcTypeOK
    OBVIOUS
  <2>1. /\ options.start \in Nat /\ options.selected \in 0 .. Rows + keys /\ keys \in 0 .. MaxKeys
        /\ options.pid \in Pids \cup {Nobody} /\ options.detailed \in Pids \cup {Nobody}
    BY DEF TypesInv, OptionTypes, Typed, OptionNames
  <2>2. options.selected \in 0 .. Rows + MaxKeys
    BY <2>1 DEF ProcessesAssumption
  <2>3. /\ live \subseteq Pids /\ procs \subseteq Pids /\ runnerAt \in {"idle", "queued", "collect", "draw"}
        /\ pending # <<>> => locked
    BY DEF ProcessesInv, ListInv, NamedInv, TypesInv, OptionTypes
  <2> QED
    BY <2>1, <2>2, <2>3 DEF ProcTypeOK, TypesInv, ScreenTypes, RowTypes
<1>2. ProcessesAssumption /\ ProcessesInv /\ TypesInv /\ [ProcNext]_procVars => TypesInv'
  BY TypesStep
<1>3. ProcessesAssumption /\ ProcInit => TypesInv
  BY InitialTypes
<1> QED
  BY <1>1, <1>2, <1>3, ProcessesInvariant, ProcessesAssumption, PTL DEF ProcSpec


-----------------------------------------------------------------------------
(* The sittings together.  What holds of a sitting of the boxes, or of the  *)
(* process list, holds of Screen: a step of another one leaves it alone.    *)

\* Screen implements the boxes, and the process list: whatever a user does,
\* each sees steps of its own and no other (btop_input.cpp:230-560).
THEOREM ScreenIsBoxes == ScreenSpec => Spec
<1>1. ScreenInit => Init
  BY DEF ScreenInit
<1>2. [ScreenNext]_screenVars => [Next]_vars
  BY Zenon DEF ScreenNext, screenVars
<1> QED
  BY <1>1, <1>2, PTL DEF ScreenSpec, Spec

THEOREM ScreenIsProcesses == ScreenSpec => ProcSpec
<1>1. ScreenInit => ProcInit
  BY DEF ScreenInit
<1>2. [ScreenNext]_screenVars => [ProcNext]_procVars
  BY Zenon DEF ScreenNext, screenVars
<1> QED
  BY <1>1, <1>2, PTL DEF ScreenSpec, ProcSpec

\* Whatever a user does on the screen, the boxes, the menus and the process list
\* have their types (btop_config.cpp:256-284, btop_draw.cpp:1088-1107).
THEOREM ScreenIsTyped == ScreenSpec => []ScreenTypeOK
<1>1. ScreenSpec => []TypeOK
  BY ScreenIsBoxes, BoxesTyped, ScreenAssumption DEF ScreenAssumption
<1>2. ScreenSpec => []ProcTypeOK
  BY ScreenIsProcesses, ProcessesTyped, ScreenAssumption
<1>3. TypeOK /\ ProcTypeOK => ScreenTypeOK
  BY DEF ScreenTypeOK
<1> QED
  BY <1>1, <1>2, <1>3, PTL

\* What is proved of the boxes and of the process list holds of the screen they
\* are on (btop_draw.cpp:1621-1785, 1430-1449; btop_menu.cpp:798-855).
THEOREM ScreenIsSafe ==
  ScreenSpec => [](BoxesTile /\ BoxesAgree /\ PausedByChoice) /\ SelectionNamed /\ KillsPointedAt
<1>1. ScreenSpec => []BoxesTile /\ []BoxesAgree /\ []PausedByChoice
  BY ScreenIsBoxes, BoxesFillTerminal, RunsWorkOnShownBoxes, PauseIsChosen, ScreenAssumption
     DEF ScreenAssumption
<1>2. ScreenSpec => SelectionNamed /\ KillsPointedAt
  BY ScreenIsProcesses, HighlightedIsNamed, PointedAtIsTerminated, ScreenAssumption
     DEF ScreenAssumption
<1> QED
  BY <1>1, <1>2, PTL
=============================================================================
