------------------------------ MODULE TextEdit ------------------------------
(***************************************************************************)
(* The text field of the filter and of the options: class Draw::TextEdit   *)
(* (src/native/btop4win/src/btop_draw.cpp) with ulen, uresize and luresize *)
(* of btop_tools.  The text is a sequence of bytes in UTF-8, the cursor is *)
(* kept twice, in bytes and in characters.                                 *)
(*                                                                         *)
(* A character has one or two bytes: "a" stands for one of one byte, "0"   *)
(* for a digit, "l" and "c" for the first and the second byte of another.  *)
(***************************************************************************)
EXTENDS Integers, Sequences, FiniteSets

CONSTANTS
  MaxText, \* bound: characters
  Room     \* the columns a field has

TextEditAssumption == MaxText \in Nat /\ Room \in Nat \ {0, 1}

VARIABLES
  text,
  pos,     \* the cursor in bytes
  upos,    \* and in characters
  numeric  \* only digits are taken

vars == <<text, pos, upos, numeric>>

Chars == {<<"a">>, <<"0">>, <<"l", "c">>}
Prefix(s, n) == SubSeq(s, 1, n)
From(s, n) == SubSeq(s, n + 1, Len(s))

\* Where the characters of s begin.
Starts(s) == {i \in 1 .. Len(s) : s[i] # "c"}
ulen(s) == Cardinality(Starts(s))

\* The first n characters.
uresize(s, n) ==
  LET cut == {i \in Starts(s) : Cardinality({j \in Starts(s) : j <= i}) = n + 1}
  IN  IF n < 1 THEN <<>> ELSE IF cut = {} THEN s ELSE Prefix(s, (CHOOSE i \in cut : TRUE) - 1)

\* The last n characters; the first byte of s is not looked at.
luresize(s, n) ==
  LET cut == {i \in Starts(s) \ {1} : Cardinality({j \in Starts(s) : j >= i}) = n}
  IN  IF n < 1 THEN <<>> ELSE IF cut = {} THEN s ELSE From(s, (CHOOSE i \in cut : TRUE) - 1)

\* The constructor puts the cursor behind the text.
Start(t) == text = t /\ pos = Len(t) /\ upos = ulen(t)
Init == numeric \in BOOLEAN /\ \E t \in {<<>>, <<"0">>} : Start(t)

Set(t, p, u) == text' = t /\ pos' = p /\ upos' = u /\ UNCHANGED numeric

Left ==
  /\ upos > 0
  /\ Set(text, Len(uresize(text, upos - 1)), upos - 1)

Right ==
  /\ pos < Len(text)
  /\ Set(text, Len(uresize(text, upos + 1)), upos + 1)

Home == pos > 0 /\ Set(text, 0, 0)
End == pos < Len(text) /\ Set(text, Len(text), ulen(text))

Backspace ==
  /\ pos > 0
  /\ LET first == uresize(text, upos - 1)
         left == first \o luresize(From(text, Len(first)), ulen(text) - upos)
     IN  IF pos = Len(text) THEN Set(first, Len(first), upos - 1)
         ELSE Set(left, Len(first), upos - 1)

Delete ==
  /\ pos < Len(text)
  /\ LET first == uresize(text, upos + 1)
     IN  Set(uresize(first, ulen(first) - 1) \o From(text, Len(first)), pos, upos)

\* MUTANT: the cursor moves by one byte, whatever was typed.
Type_OneByte(key) ==
  /\ ulen(text) < MaxText
  /\ numeric => key = <<"0">>
  /\ Set(Prefix(text, pos) \o key \o From(text, pos), pos + 1, upos + 1)

\* space, which no number takes, and any other character.
Type(key) ==
  /\ ulen(text) < MaxText
  /\ numeric => key = <<"0">>
  /\ IF Len(key) = 1
     THEN Set(Prefix(text, pos) \o key \o From(text, pos), pos + 1, upos + 1)
     ELSE LET first == uresize(text, upos) \o key
          IN  Set(first \o From(text, pos), Len(first), upos + 1)

Next ==
  \/ Left \/ Right \/ Home \/ End \/ Backspace \/ Delete
  \/ \E key \in Chars : Type(key)

(***************************************************************************)
(* The call operator: what is shown before the cursor and after it, when   *)
(* the text has more than limit - 1 characters.                            *)
(***************************************************************************)
Before(limit) ==
  LET half == (limit + 1) \div 2
      n == IF upos + half > ulen(text) THEN limit - (ulen(text) - upos) ELSE half
  IN  IF upos + half <= ulen(text) /\ upos = half THEN Prefix(text, pos)
      ELSE luresize(Prefix(text, pos), n)

Shown(limit) ==
  IF ulen(text) + 1 > limit
  THEN <<Before(limit), uresize(From(text, pos), limit - ulen(Before(limit)))>>
  ELSE <<Prefix(text, pos), From(text, pos)>>

-----------------------------------------------------------------------------
\* Whatever is typed and deleted, the text is whole characters, and the two
\* cursors are the same place between two of them (btop_draw.cpp:143-195).
Whole(s) == \A i \in 1 .. Len(s) + 1 :
  (i <= Len(s) /\ s[i] = "c") <=> (i > 1 /\ s[i - 1] = "l")
CursorBetweenCharacters ==
  /\ Whole(text)
  /\ pos \in 0 .. Len(text) /\ Whole(Prefix(text, pos)) /\ ulen(Prefix(text, pos)) = upos

\* What is shown is the text around the cursor, whole characters, and as many as
\* there is room for (btop_draw.cpp:197-217).
ShowsCursor ==
  LET before == Shown(Room)[1]
      after == Shown(Room)[2]
      n == ulen(text)
  IN  /\ Whole(before) /\ Whole(after)
      /\ before = From(Prefix(text, pos), pos - Len(before))
      /\ after = Prefix(From(text, pos), Len(after))
      /\ ulen(before) + ulen(after) = IF n > Room THEN Room ELSE n
=============================================================================
