------------------------------- MODULE Layout -------------------------------
(***************************************************************************)
(* Where the four boxes go: Draw::calcSizes and Term::get_min_size         *)
(* (src/native/btop4win/src/btop_draw.cpp, btop_tools.cpp).  A box is a    *)
(* rectangle of the terminal, 1 its first column and line.  What is inside *)
(* a box (columns, meters, graphs) is computed from its size and left out. *)
(***************************************************************************)
EXTENDS Integers, FiniteSets

Boxes4 == {"cpu", "mem", "net", "proc"}

Bigger(a, b) == IF a >= b THEN a ELSE b
Has(s, box, n) == IF box \in s THEN n ELSE 0

\* (int)round(n * p / 100) and (int)ceil(n * p / 100)
Rounded(n, p) == (2 * n * p + 100) \div 200
Ceiling(n, p) == (n * p + 99) \div 100

\* get_min_size: the columns and lines a set of boxes needs.
MinWidth(s) ==
  LET left == IF s \cap {"mem", "net"} # {} THEN 36 ELSE 0
      both == left + Has(s, "proc", 44)
  IN  IF "cpu" \in s THEN Bigger(both, 60) ELSE both

MinHeight(s) ==
  Has(s, "cpu", 8) + IF "proc" \in s THEN 16 ELSE Has(s, "mem", 10) + Has(s, "net", 6)

\* A terminal is [w, h].
Fits(s, t) == t.w >= MinWidth(s) /\ t.h >= MinHeight(s)

\* o holds the options cpu_bottom, cpu_wide, mem_below_net and proc_left.
CpuBox(s, o, t) ==
  LET h == Bigger(8, Ceiling(t.h, IF s = {"cpu"} THEN 100 ELSE 32))
  IN  [w |-> Rounded(t.w, IF "proc" \in s /\ ~o.cpu_wide THEN 45 ELSE 100),
       h |-> h,
       x |-> 1,
       y |-> IF o.cpu_bottom THEN t.h - h + 1 ELSE 1]

CpuHeight(s, o, t) == Has(s, "cpu", CpuBox(s, o, t).h)

LeftWidth(s, t) == Rounded(t.w, IF "proc" \in s THEN 45 ELSE 100)
LeftX(s, o, t) == IF o.proc_left /\ "proc" \in s THEN t.w - LeftWidth(s, t) + 1 ELSE 1

\* The two places left to the mem and net boxes.
UpperY(s, o, t) == IF o.cpu_bottom THEN 1 ELSE CpuHeight(s, o, t) + 1
LowerY(s, o, t, h) == t.h - h + 1 - IF o.cpu_bottom THEN CpuHeight(s, o, t) ELSE 0

\* MUTANT: the extra line of the mem box is not taken back.
MemBox_NotCapped(s, o, t) ==
  LET h == Ceiling(t.h, 100 - Has(s, "cpu", 32) - Has(s, "net", 32)) + 1
  IN  [w |-> LeftWidth(s, t), h |-> h, x |-> LeftX(s, o, t),
       y |-> IF o.mem_below_net /\ "net" \in s THEN LowerY(s, o, t, h) ELSE UpperY(s, o, t)]

MemBox(s, o, t) ==
  LET share == Ceiling(t.h, 100 - Has(s, "cpu", 32) - Has(s, "net", 32)) + 1
      room == t.h - CpuHeight(s, o, t)
      h == IF share > room THEN room ELSE share
  IN  [w |-> LeftWidth(s, t), h |-> h, x |-> LeftX(s, o, t),
       y |-> IF o.mem_below_net /\ "net" \in s THEN LowerY(s, o, t, h) ELSE UpperY(s, o, t)]

NetBox(s, o, t) ==
  LET h == t.h - CpuHeight(s, o, t) - Has(s, "mem", MemBox(s, o, t).h)
  IN  [w |-> LeftWidth(s, t), h |-> h, x |-> LeftX(s, o, t),
       y |-> IF o.mem_below_net /\ "mem" \in s THEN UpperY(s, o, t) ELSE LowerY(s, o, t, h)]

ProcBox(s, o, t) ==
  LET w == t.w - IF s \cap {"mem", "net"} # {} THEN LeftWidth(s, t) ELSE 0
      above == CpuHeight(s, o, t)
  IN  [w |-> w, h |-> t.h - IF o.cpu_wide THEN above ELSE 0,
       x |-> IF o.proc_left THEN 1 ELSE t.w - w + 1,
       y |-> IF (o.cpu_bottom /\ "cpu" \in s) \/ ~o.cpu_wide THEN 1 ELSE above + 1]

\* calcSizes, for the shown boxes.
Sizes(s, o, t) ==
  [b \in s |-> CASE b = "cpu" -> CpuBox(s, o, t) [] b = "mem" -> MemBox(s, o, t)
                 [] b = "net" -> NetBox(s, o, t) [] OTHER -> ProcBox(s, o, t)]

-----------------------------------------------------------------------------
OnScreen(r, t) == r.w > 0 /\ r.h > 0 /\ r.x >= 1 /\ r.y >= 1
                  /\ r.x + r.w - 1 <= t.w /\ r.y + r.h - 1 <= t.h
Apart(r, q) == \/ r.x + r.w <= q.x \/ q.x + q.w <= r.x
               \/ r.y + r.h <= q.y \/ q.y + q.h <= r.y
Area(r) == r.w * r.h

\* The rectangles fill the terminal and do not overlap.
Tiles(rects, t) ==
  LET s == DOMAIN rects
      area == [b \in Boxes4 |-> IF b \in s THEN Area(rects[b]) ELSE 0]
  IN  /\ \A b \in s : OnScreen(rects[b], t)
      /\ \A b, c \in s : b # c => Apart(rects[b], rects[c])
      /\ area["cpu"] + area["mem"] + area["net"] + area["proc"] = t.w * t.h
=============================================================================
