----------------------------- MODULE DrawProofs -----------------------------
(* Theorems about what a field, a graph and the tree show: they hold for    *)
(* every text and room for it, every width of a graph and any number of     *)
(* samples, and any number of processes.                                    *)
EXTENDS Screen, SequenceTheorems, FiniteSetTheorems, WellFoundedInduction, TLAPS

-----------------------------------------------------------------------------
(* Induction over the numbers, on a set instead of a predicate.             *)

\* A set of numbers with 0, and with every number's successor, has them all.
LEMMA Induction ==
  ASSUME NEW S \in SUBSET Nat, 0 \in S, \A n \in S : n + 1 \in S
  PROVE  S = Nat
<1> DEFINE Missing == Nat \ S
<1>1. SUFFICES ASSUME Missing # {} PROVE FALSE
  OBVIOUS
<1>2. \E x \in Missing : \A y \in Missing : ~ (<<y, x>> \in OpToRel(<, Nat))
  <2>1. Missing \subseteq Nat
    OBVIOUS
  <2> HIDE DEF Missing
  <2> QED
    BY <1>1, <2>1, WFMin, NatLessThanWellFounded
<1>3. PICK x \in Missing : \A y \in Missing : ~ (y < x)
  BY <1>2 DEF OpToRel
<1>4. x # 0 /\ x \in Nat
  OBVIOUS
<1>5. x - 1 \in Nat /\ x - 1 < x
  BY <1>4
<1>6. x - 1 \in S
  BY <1>3, <1>5
<1> QED
  BY <1>4, <1>5, <1>6

\* Every set of numbers that is not empty has a least one.
LEMMA LeastOf ==
  ASSUME NEW S \in SUBSET Nat, S # {}
  PROVE  \E x \in S : \A y \in S : x <= y
<1>1. \E x \in S : \A y \in S : ~ (<<y, x>> \in OpToRel(<, Nat))
  BY WFMin, NatLessThanWellFounded
<1>2. PICK x \in S : \A y \in S : ~ (y < x)
  BY <1>1 DEF OpToRel
<1> QED
  BY <1>2

-----------------------------------------------------------------------------
(* Texts, and where they may be cut.                                        *)

Bytes == {"a", "0", "l", "c"}
Texts == Seq(Bytes)

\* Between two characters.
Cut(s, p) == p \in 0 .. Len(s) /\ (p = Len(s) \/ s[p + 1] # "c")
\* The characters before p.
Count(s, p) == E!ulen(E!Prefix(s, p))

\* A text is cut into two texts at any place.
LEMMA Parts ==
  ASSUME NEW s \in Texts, NEW p \in 0 .. Len(s)
  PROVE  /\ E!Prefix(s, p) \in Texts /\ Len(E!Prefix(s, p)) = p
         /\ \A i \in 1 .. p : E!Prefix(s, p)[i] = s[i]
         /\ E!From(s, p) \in Texts /\ Len(E!From(s, p)) = Len(s) - p
         /\ \A i \in 1 .. Len(s) - p : E!From(s, p)[i] = s[p + i]
         /\ E!Prefix(s, p) \o E!From(s, p) = s
<1>1. Len(s) \in Nat /\ \A i \in 1 .. Len(s) : s[i] \in Bytes
  BY DEF Texts
<1>2. /\ E!Prefix(s, p) \in Texts /\ Len(E!Prefix(s, p)) = p
      /\ \A i \in 1 .. p : E!Prefix(s, p)[i] = s[i]
  <2>1. \A i \in 1 .. p : s[i] \in Bytes
    BY <1>1
  <2>2. /\ SubSeq(s, 1, p) \in Seq(Bytes)
        /\ Len(SubSeq(s, 1, p)) = IF 1 <= p THEN p - 1 + 1 ELSE 0
        /\ \A i \in 1 .. p - 1 + 1 : SubSeq(s, 1, p)[i] = s[1 + i - 1]
    BY <1>1, <2>1, SubSeqProperties
  <2> QED
    BY <1>1, <2>2 DEF Texts, E!Prefix
<1>3. /\ E!From(s, p) \in Texts /\ Len(E!From(s, p)) = Len(s) - p
      /\ \A i \in 1 .. Len(s) - p : E!From(s, p)[i] = s[p + i]
  <2>1. \A i \in p + 1 .. Len(s) : s[i] \in Bytes
    BY <1>1
  <2>2. /\ SubSeq(s, p + 1, Len(s)) \in Seq(Bytes)
        /\ Len(SubSeq(s, p + 1, Len(s))) = IF p + 1 <= Len(s) THEN Len(s) - (p + 1) + 1 ELSE 0
        /\ \A i \in 1 .. Len(s) - (p + 1) + 1 : SubSeq(s, p + 1, Len(s))[i] = s[(p + 1) + i - 1]
    BY <1>1, <2>1, SubSeqProperties
  <2>3. \A i \in 1 .. Len(s) - p : (p + 1) + i - 1 = p + i /\ i \in 1 .. Len(s) - (p + 1) + 1
    BY <1>1
  <2>4. \A i \in 1 .. Len(s) - p : SubSeq(s, p + 1, Len(s))[i] = s[p + i]
    BY <2>2, <2>3
  <2> QED
    BY <1>1, <2>2, <2>4 DEF Texts, E!From
<1>4. E!Prefix(s, p) \o E!From(s, p) = s
  <2>1. SubSeq(s, 1, p) \o SubSeq(s, p + 1, Len(s)) = SubSeq(s, 1, Len(s))
    <3>1. 1 \in 1 .. Len(s) + 1 /\ p \in 1 - 1 .. Len(s) /\ Len(s) \in p .. Len(s)
      BY <1>1
    <3> QED
      BY <3>1, ConcatAdjacentSubSeq DEF Texts
  <2> QED
    BY <2>1, SubSeqFull DEF Texts, E!Prefix, E!From
<1> QED
  BY <1>2, <1>3, <1>4

\* Module TextEdit counts with an instance of FiniteSets of its own.
LEMMA SameCardinality == \A S : E!Cardinality(S) = Cardinality(S)
BY DEF E!Cardinality, Cardinality

\* ulen counts the bytes that start a character.
LEMMA Ulen == \A s : E!ulen(s) = Cardinality(E!Starts(s))
BY SameCardinality DEF E!ulen

\* There are finitely many, so that they can be counted.
LEMMA StartsFinite ==
  ASSUME NEW s \in Texts
  PROVE  IsFiniteSet(E!Starts(s)) /\ E!ulen(s) \in Nat
<1>1. Len(s) \in Nat
  BY DEF Texts
<1>2. IsFiniteSet(1 .. Len(s))
  BY <1>1, FS_Interval
<1>3. E!Starts(s) \in SUBSET (1 .. Len(s))
  BY DEF E!Starts
<1>4. IsFiniteSet(E!Starts(s))
  BY <1>2, <1>3, FS_Subset
<1> QED
  BY <1>4, FS_CardinalityType, Ulen

\* A prefix starts the characters that the text starts there.
LEMMA PrefixStarts ==
  ASSUME NEW s \in Texts, NEW p \in 0 .. Len(s)
  PROVE  E!Starts(E!Prefix(s, p)) = {i \in E!Starts(s) : i <= p}
<1>1. Len(E!Prefix(s, p)) = p /\ \A i \in 1 .. p : E!Prefix(s, p)[i] = s[i]
  BY Parts
<1>2. Len(s) \in Nat
  BY DEF Texts
<1> QED
  BY <1>1, <1>2 DEF E!Starts

\* Types of what is counted.
LEMMA TextFacts ==
  ASSUME NEW s \in Texts
  PROVE  Len(s) \in Nat /\ E!ulen(s) \in Nat /\ E!Starts(s) \subseteq 1 .. Len(s)
<1>1. Len(s) \in Nat
  BY DEF Texts
<1>2. E!Starts(s) \subseteq 1 .. Len(s)
  BY DEF E!Starts
<1> QED
  BY <1>1, <1>2, StartsFinite

\* One byte more is one character more unless it continues one.
LEMMA CountNext ==
  ASSUME NEW s \in Texts, NEW p \in 0 .. Len(s)
  PROVE  /\ Count(s, p) \in Nat
         /\ Count(s, 0) = 0 /\ Count(s, Len(s)) = E!ulen(s)
         /\ p < Len(s) => Count(s, p + 1) = IF s[p + 1] = "c" THEN Count(s, p) ELSE Count(s, p) + 1
<1>0. Len(s) \in Nat
  BY DEF Texts
<1>1. Count(s, p) \in Nat
  BY Parts, StartsFinite DEF Count
<1>2. Count(s, 0) = 0
  <2>1. E!Starts(E!Prefix(s, 0)) = {}
    BY <1>0, PrefixStarts DEF E!Starts
  <2> QED
    BY <2>1, FS_EmptySet, Ulen DEF Count
<1>3. Count(s, Len(s)) = E!ulen(s)
  <2>1. E!Prefix(s, Len(s)) = s
    BY <1>0, SubSeqFull DEF Texts, E!Prefix
  <2> QED
    BY <2>1 DEF Count
<1>4. ASSUME p < Len(s)
      PROVE  Count(s, p + 1) = IF s[p + 1] = "c" THEN Count(s, p) ELSE Count(s, p) + 1
  <2>1. p + 1 \in 0 .. Len(s) /\ p + 1 \in 1 .. Len(s)
    BY <1>0, <1>4
  <2>2. E!Starts(E!Prefix(s, p + 1)) = {i \in E!Starts(s) : i <= p + 1}
    BY <2>1, PrefixStarts
  <2>3. E!Starts(E!Prefix(s, p)) = {i \in E!Starts(s) : i <= p}
    BY PrefixStarts
  <2>4. E!Starts(s) \subseteq Int /\ (p + 1 \in E!Starts(s) <=> s[p + 1] # "c")
    BY <2>1 DEF E!Starts
  <2>5. IsFiniteSet(E!Starts(E!Prefix(s, p)))
    BY Parts, StartsFinite
  <2>6. CASE s[p + 1] = "c"
    <3>1. E!Starts(E!Prefix(s, p + 1)) = E!Starts(E!Prefix(s, p))
      BY <2>2, <2>3, <2>4, <2>6
    <3> QED
      BY <2>6, <3>1 DEF Count, E!ulen
  <2>7. CASE s[p + 1] # "c"
    <3>1. /\ E!Starts(E!Prefix(s, p + 1)) = E!Starts(E!Prefix(s, p)) \cup {p + 1}
          /\ p + 1 \notin E!Starts(E!Prefix(s, p))
      BY <2>2, <2>3, <2>4, <2>7
    <3>2. Cardinality(E!Starts(E!Prefix(s, p + 1))) = Cardinality(E!Starts(E!Prefix(s, p))) + 1
      BY <2>5, <3>1, FS_AddElement
    <3> QED
      BY <2>7, <3>2, Ulen DEF Count
  <2> QED
    BY <2>6, <2>7
<1> QED
  BY <1>1, <1>2, <1>3, <1>4

\* Characters of one text and of another after it add up.
LEMMA CountConcat ==
  ASSUME NEW s \in Texts, NEW t \in Texts
  PROVE  /\ s \o t \in Texts
         /\ \A n \in 0 .. Len(t) : Count(s \o t, Len(s) + n) = E!ulen(s) + Count(t, n)
         /\ E!ulen(s \o t) = E!ulen(s) + E!ulen(t)
<1> DEFINE st == s \o t
           S == {n \in Nat : n <= Len(t) => Count(st, Len(s) + n) = E!ulen(s) + Count(t, n)}
<1>1. /\ st \in Texts /\ Len(st) = Len(s) + Len(t) /\ Len(s) \in Nat /\ Len(t) \in Nat
      /\ \A i \in 1 .. Len(t) : st[Len(s) + i] = t[i]
      /\ E!Prefix(st, Len(s)) = s
  <2>1. /\ st \in Texts /\ Len(st) = Len(s) + Len(t) /\ Len(s) \in Nat /\ Len(t) \in Nat
        /\ \A i \in 1 .. Len(s) + Len(t) : st[i] = IF i <= Len(s) THEN s[i] ELSE t[i - Len(s)]
    BY ConcatProperties DEF Texts
  <2> HIDE DEF st, S
  <2>2. \A i \in 1 .. Len(t) : st[Len(s) + i] = t[i]
    BY <2>1
  <2>3. E!Prefix(st, Len(s)) \in Texts /\ Len(E!Prefix(st, Len(s))) = Len(s)
    BY <2>1, Parts
  <2>4. \A i \in 1 .. Len(s) : E!Prefix(st, Len(s))[i] = s[i]
    <3>1. Len(s) \in 0 .. Len(st)
      BY <2>1
    <3>2. \A i \in 1 .. Len(s) : E!Prefix(st, Len(s))[i] = st[i]
      BY <2>1, <3>1, Parts
    <3> QED
      BY <2>1, <3>2
  <2>5. E!Prefix(st, Len(s)) = s
    BY <2>3, <2>4, SeqEqual DEF Texts
  <2> QED
    BY <2>1, <2>2, <2>5
<1>2. 0 \in S
  BY <1>1, CountNext, StartsFinite DEF Count
<1>3. ASSUME NEW n \in S PROVE n + 1 \in S
  <2>1. SUFFICES ASSUME n + 1 <= Len(t)
                 PROVE  Count(st, Len(s) + (n + 1)) = E!ulen(s) + Count(t, n + 1)
    OBVIOUS
  <2>2. n \in 0 .. Len(t) /\ n < Len(t) /\ Len(s) + n \in 0 .. Len(st) /\ Len(s) + n < Len(st)
    BY <1>1, <2>1
  <2>3. st[(Len(s) + n) + 1] = t[n + 1]
    <3>1. n + 1 \in 1 .. Len(t)
      BY <1>1, <2>2
    <3>2. (Len(s) + n) + 1 = Len(s) + (n + 1)
      BY <1>1, <2>2
    <3> QED
      BY <1>1, <3>1, <3>2
  <2>4. Count(st, Len(s) + n) = E!ulen(s) + Count(t, n)
    BY <2>2
  <2>5. Count(t, n + 1) = IF t[n + 1] = "c" THEN Count(t, n) ELSE Count(t, n) + 1
    BY <2>2, CountNext
  <2>6. Count(st, (Len(s) + n) + 1) = IF t[n + 1] = "c" THEN Count(st, Len(s) + n) ELSE Count(st, Len(s) + n) + 1
    BY <1>1, <2>2, <2>3, CountNext
  <2>7. Count(t, n) \in Nat /\ E!ulen(s) \in Nat /\ (Len(s) + n) + 1 = Len(s) + (n + 1)
    BY <1>1, <2>2, CountNext, StartsFinite
  <2> HIDE DEF S, st
  <2> QED
    BY <2>4, <2>5, <2>6, <2>7
<1>4. S = Nat
  <2> HIDE DEF S
  <2>1. S \in SUBSET Nat
    BY DEF S
  <2> QED
    BY <1>2, <1>3, <2>1, Induction
<1>5. \A n \in 0 .. Len(t) : Count(st, Len(s) + n) = E!ulen(s) + Count(t, n)
  BY <1>1, <1>4
<1>6. E!ulen(st) = E!ulen(s) + E!ulen(t)
  <2> HIDE DEF st, S
  <2>1. Len(t) \in 0 .. Len(t) /\ Count(t, Len(t)) = E!ulen(t)
    BY <1>1, CountNext
  <2>2. Len(st) \in 0 .. Len(st) /\ Count(st, Len(st)) = E!ulen(st)
    <3>1. Len(st) \in 0 .. Len(st)
      BY <1>1
    <3> QED
      BY <1>1, <3>1, CountNext
  <2> QED
    BY <1>1, <1>5, <2>1, <2>2
<1> QED
  BY <1>1, <1>5, <1>6

\* More bytes are no fewer characters.
LEMMA CountGrows ==
  ASSUME NEW s \in Texts, NEW p \in 0 .. Len(s), NEW q \in p .. Len(s)
  PROVE  Count(s, p) <= Count(s, q)
<1> DEFINE S == {n \in Nat : p + n <= Len(s) => Count(s, p) <= Count(s, p + n)}
<1>1. Len(s) \in Nat /\ Count(s, p) \in Nat
  BY CountNext DEF Texts
<1>2. 0 \in S
  BY <1>1
<1>3. ASSUME NEW n \in S PROVE n + 1 \in S
  <2>1. SUFFICES ASSUME p + (n + 1) <= Len(s) PROVE Count(s, p) <= Count(s, p + (n + 1))
    OBVIOUS
  <2>2. p + n \in 0 .. Len(s) /\ p + n < Len(s) /\ (p + n) + 1 = p + (n + 1) /\ n \in Nat
    BY <1>1, <2>1
  <2>3. Count(s, p) <= Count(s, p + n)
    BY <2>2
  <2> HIDE DEF S
  <2>4. /\ Count(s, p + n) \in Nat
        /\ Count(s, (p + n) + 1) \in {Count(s, p + n), Count(s, p + n) + 1}
    BY <2>2, CountNext
  <2> QED
    BY <1>1, <2>2, <2>3, <2>4
<1>4. S = Nat
  <2>1. S \in SUBSET Nat
    OBVIOUS
  <2> HIDE DEF S
  <2> QED
    BY <1>2, <1>3, <2>1, Induction
<1>5. q - p \in Nat /\ p + (q - p) = q /\ q <= Len(s)
  BY <1>1
<1> QED
  BY <1>4, <1>5

\* Between characters, the count tells the place.
LEMMA CutUnique ==
  ASSUME NEW s \in Texts, NEW p, Cut(s, p), NEW q, Cut(s, q), Count(s, p) = Count(s, q)
  PROVE  p = q
<1>0. Len(s) \in Nat
  BY DEF Texts
<1>1. ASSUME NEW m, Cut(s, m), NEW n, Cut(s, n), m < n PROVE Count(s, m) < Count(s, n)
  <2>1. m \in 0 .. Len(s) /\ n \in 0 .. Len(s) /\ m + 1 \in 0 .. Len(s) /\ n \in m + 1 .. Len(s) /\ s[m + 1] # "c"
    BY <1>0, <1>1 DEF Cut
  <2>2. Count(s, m + 1) = Count(s, m) + 1 /\ Count(s, m) \in Nat
    BY <1>0, <2>1, CountNext
  <2>3. Count(s, m + 1) <= Count(s, n) /\ Count(s, n) \in Nat
    BY <2>1, CountGrows, CountNext
  <2> QED
    BY <2>2, <2>3
<1>2. p \in Int /\ q \in Int /\ Count(s, p) \in Nat
  BY <1>0, CountNext DEF Cut
<1> QED
  BY <1>1, <1>2

\* Before each character there is such a place.
LEMMA CutExists ==
  ASSUME NEW s \in Texts, NEW n \in Nat, n < E!ulen(s)
  PROVE  \E p \in 0 .. Len(s) - 1 : s[p + 1] # "c" /\ Count(s, p) = n /\ Cut(s, p)
<1> DEFINE S == {i \in Nat : i <= Len(s) /\ Count(s, i) > n}
<1>1. Len(s) \in Nat /\ Len(s) \in S
  BY CountNext DEF Texts
<1>2. PICK x \in S : \A y \in S : x <= y
  BY <1>1, LeastOf
<1>3. x \in Nat /\ x <= Len(s) /\ Count(s, x) > n
  OBVIOUS
<1>4. x # 0
  BY <1>1, <1>3, CountNext
<1>5. x - 1 \in 0 .. Len(s) /\ x - 1 < Len(s) /\ (x - 1) + 1 = x /\ x - 1 \in Nat /\ ~(x <= x - 1)
  BY <1>1, <1>3, <1>4
<1>6. ~(Count(s, x - 1) > n)
  BY <1>2, <1>5
<1>7. /\ Count(s, x - 1) \in Nat
      /\ Count(s, (x - 1) + 1) = IF s[(x - 1) + 1] = "c" THEN Count(s, x - 1) ELSE Count(s, x - 1) + 1
  BY <1>5, CountNext
<1>8. s[x] # "c" /\ Count(s, x - 1) = n
  BY <1>3, <1>5, <1>6, <1>7
<1> QED
  BY <1>1, <1>5, <1>8 DEF Cut

-----------------------------------------------------------------------------
(* Whole characters.                                                        *)

\* What is cut there begins with a character, on both sides.
LEMMA CutIsWhole ==
  ASSUME NEW s \in Texts, E!Whole(s), NEW p \in 0 .. Len(s)
  PROVE  /\ E!Whole(E!Prefix(s, p)) <=> Cut(s, p)
         /\ Cut(s, p) => E!Whole(E!From(s, p))
<1> DEFINE f == E!Prefix(s, p)
           t == E!From(s, p)
<1>1. /\ Len(s) \in Nat /\ Len(f) = p /\ Len(t) = Len(s) - p
      /\ \A i \in 1 .. p : f[i] = s[i]
      /\ \A i \in 1 .. Len(s) - p : t[i] = s[p + i]
  <2>1. Len(s) \in Nat
    BY DEF Texts
  <2>2. /\ Len(f) = p /\ \A i \in 1 .. p : f[i] = s[i]
        /\ Len(t) = Len(s) - p /\ \A i \in 1 .. Len(s) - p : t[i] = s[p + i]
    BY ONLY Parts, s \in Texts, p \in 0 .. Len(s)
  <2> QED
    BY <2>1, <2>2
<1> HIDE DEF f, t
<1>2. \A i \in 1 .. Len(s) + 1 : (i <= Len(s) /\ s[i] = "c") <=> (i > 1 /\ s[i - 1] = "l")
  BY DEF E!Whole
<1>3. ASSUME E!Whole(f) PROVE Cut(s, p)
  <2>1. ~(p + 1 <= Len(f) /\ f[p + 1] = "c")
    BY <1>1
  <2>2. ~(p + 1 > 1 /\ f[p + 1 - 1] = "l")
    BY <1>1, <1>3, <2>1 DEF E!Whole
  <2>3. ~(p + 1 > 1 /\ s[p + 1 - 1] = "l")
    BY <1>1, <2>2
  <2>4. p + 1 \in 1 .. Len(s) + 1
    BY <1>1
  <2>5. ~(p + 1 <= Len(s) /\ s[p + 1] = "c")
    BY <1>2, <2>3, <2>4
  <2>6. p + 1 <= Len(s) \/ p = Len(s)
    BY <1>1
  <2> QED
    BY <2>5, <2>6 DEF Cut
<1>4. ASSUME Cut(s, p) PROVE E!Whole(f)
  <2>1. ASSUME NEW i \in 1 .. p + 1
        PROVE  (i <= p /\ f[i] = "c") <=> (i > 1 /\ f[i - 1] = "l")
    <3>1. (i <= Len(s) /\ s[i] = "c") <=> (i > 1 /\ s[i - 1] = "l")
      BY <1>1, <1>2
    <3>2. i = p + 1 => ~(i <= Len(s) /\ s[i] = "c")
      BY <1>1, <1>4 DEF Cut
    <3>3. (i <= p => f[i] = s[i]) /\ (i > 1 => f[i - 1] = s[i - 1])
      BY <1>1
    <3>4. i <= p \/ i = p + 1
      BY <1>1
    <3> QED
      BY <1>1, <3>1, <3>2, <3>3, <3>4
  <2> QED
    BY <1>1, <2>1 DEF E!Whole
<1>5. ASSUME Cut(s, p) PROVE E!Whole(t)
  <2>1. ASSUME NEW i \in 1 .. Len(s) - p + 1
        PROVE  (i <= Len(s) - p /\ t[i] = "c") <=> (i > 1 /\ t[i - 1] = "l")
    <3>1. (p + i <= Len(s) /\ s[p + i] = "c") <=> (p + i > 1 /\ s[p + i - 1] = "l")
      BY <1>1, <1>2
    <3>2. i = 1 => ~(p + i <= Len(s) /\ s[p + i] = "c")
      BY <1>1, <1>5 DEF Cut
    <3>3. (i <= Len(s) - p => t[i] = s[p + i])
      BY <1>1
    <3>4. i > 1 => t[i - 1] = s[p + i - 1]
      <4>1. SUFFICES ASSUME i > 1 PROVE t[i - 1] = s[p + i - 1]
        OBVIOUS
      <4>2. i - 1 \in 1 .. Len(s) - p /\ p + (i - 1) = p + i - 1
        BY <1>1, <4>1
      <4> QED
        BY <1>1, <4>2
    <3>5. (i <= Len(s) - p <=> p + i <= Len(s)) /\ (i > 1 => p + i > 1) /\ (i = 1 \/ i > 1)
      BY <1>1
    <3> QED
      BY <3>1, <3>2, <3>3, <3>4, <3>5
  <2> QED
    BY <1>1, <2>1 DEF E!Whole
<1> QED
  BY <1>3, <1>4, <1>5 DEF f, t

\* So does one such text after another.
LEMMA ConcatWhole ==
  ASSUME NEW s \in Texts, E!Whole(s), NEW t \in Texts, E!Whole(t)
  PROVE  E!Whole(s \o t) /\ E!Prefix(s \o t, Len(s)) = s
<1> DEFINE st == s \o t
<1>1. /\ st \in Texts /\ Len(st) = Len(s) + Len(t) /\ Len(s) \in Nat /\ Len(t) \in Nat
      /\ \A i \in 1 .. Len(s) + Len(t) : st[i] = IF i <= Len(s) THEN s[i] ELSE t[i - Len(s)]
  BY ConcatProperties DEF Texts
<1> HIDE DEF st
<1>2. ASSUME NEW i \in 1 .. Len(st) + 1
      PROVE  (i <= Len(st) /\ st[i] = "c") <=> (i > 1 /\ st[i - 1] = "l")
  <2>1. CASE i <= Len(s)
    <3>1. (i <= Len(s) /\ s[i] = "c") <=> (i > 1 /\ s[i - 1] = "l")
      BY <1>1, <2>1 DEF E!Whole
    <3>2. st[i] = s[i] /\ (i > 1 => st[i - 1] = s[i - 1]) /\ i <= Len(st)
      BY <1>1, <2>1
    <3> QED
      BY <2>1, <3>1, <3>2
  <2>2. CASE i = Len(s) + 1
    <3>1. ~(i <= Len(s)) /\ Len(s) + 1 \in 1 .. Len(s) + 1
      BY <1>1, <2>2
    <3>2. ~(i > 1 /\ s[i - 1] = "l")
      BY <2>2, <3>1 DEF E!Whole
    <3>3. i > 1 => st[i - 1] = s[i - 1]
      BY <1>1, <2>2
    <3>4. ~(1 <= Len(t) /\ t[1] = "c")
      BY <1>1 DEF E!Whole
    <3>5. i <= Len(st) => st[i] = t[1] /\ 1 <= Len(t)
      BY <1>1, <2>2
    <3> QED
      BY <3>2, <3>3, <3>4, <3>5
  <2>3. CASE i > Len(s) + 1
    <3>1. i - Len(s) \in 1 .. Len(t) + 1 /\ i - Len(s) > 1
      BY <1>1, <2>3
    <3>2. (i - Len(s) <= Len(t) /\ t[i - Len(s)] = "c") <=> (i - Len(s) > 1 /\ t[i - Len(s) - 1] = "l")
      BY <3>1 DEF E!Whole
    <3>3. /\ i <= Len(st) <=> i - Len(s) <= Len(t)
          /\ i <= Len(st) => st[i] = t[i - Len(s)]
          /\ st[i - 1] = t[i - 1 - Len(s)] /\ i - 1 - Len(s) = i - Len(s) - 1 /\ i > 1
      BY <1>1, <2>3
    <3> QED
      BY <3>1, <3>2, <3>3
  <2> QED
    BY <1>1, <2>1, <2>2, <2>3
<1>3. E!Prefix(st, Len(s)) = s
  <2>1. Len(s) \in 0 .. Len(st)
    BY <1>1
  <2>2. /\ E!Prefix(st, Len(s)) \in Texts /\ Len(E!Prefix(st, Len(s))) = Len(s)
        /\ \A i \in 1 .. Len(s) : E!Prefix(st, Len(s))[i] = st[i]
    BY <1>1, <2>1, Parts
  <2>3. \A i \in 1 .. Len(s) : st[i] = s[i]
    BY <1>1
  <2> QED
    BY <2>2, <2>3, SeqEqual DEF Texts
<1> QED
  BY <1>2, <1>3 DEF E!Whole, st

-----------------------------------------------------------------------------
(* uresize and luresize cut a text between two characters.                  *)

\* uresize cuts after the first n characters.
LEMMA UresizeCuts ==
  ASSUME NEW s \in Texts, E!Whole(s), NEW n \in Nat
  PROVE  \E p \in 0 .. Len(s) :
           /\ Cut(s, p) /\ E!uresize(s, n) = E!Prefix(s, p)
           /\ Count(s, p) = IF n < E!ulen(s) THEN n ELSE E!ulen(s)
<1> DEFINE cut == {i \in E!Starts(s) : E!Cardinality({j \in E!Starts(s) : j <= i}) = n + 1}
<1>0. Len(s) \in Nat /\ E!ulen(s) \in Nat /\ E!Starts(s) \subseteq 1 .. Len(s)
  BY TextFacts
<1>1. E!uresize(s, n) = IF n < 1 THEN <<>> ELSE IF cut = {} THEN s
                        ELSE E!Prefix(s, (CHOOSE i \in cut : TRUE) - 1)
  BY DEF E!uresize
<1>2. \A i \in E!Starts(s) : i \in cut <=> Count(s, i) = n + 1
  <2>1. ASSUME NEW i \in E!Starts(s) PROVE E!Cardinality({j \in E!Starts(s) : j <= i}) = Count(s, i)
    <3>1. i \in 0 .. Len(s)
      BY <1>0
    <3> QED
      BY <3>1, SameCardinality, PrefixStarts, Ulen DEF Count
  <2> QED
    BY <2>1
<1> HIDE DEF cut
<1>3. Cut(s, 0) /\ Cut(s, Len(s)) /\ E!Prefix(s, 0) = <<>> /\ E!Prefix(s, Len(s)) = s
  <2>1. Cut(s, Len(s))
    BY <1>0 DEF Cut
  <2>2. Cut(s, 0)
    <3>1. 1 \in 1 .. Len(s) + 1
      BY <1>0
    <3>2. ~(1 <= Len(s) /\ s[1] = "c")
      BY <3>1 DEF E!Whole
    <3> QED
      BY <1>0, <3>2 DEF Cut
  <2> QED
    BY <1>0, <2>1, <2>2, SubSeqFull, SubSeqEmpty DEF Texts, E!Prefix
<1>4. CASE n < 1
  BY <1>0, <1>1, <1>3, <1>4, CountNext
<1>5. CASE n >= 1 /\ n < E!ulen(s)
  <2>1. PICK p \in 0 .. Len(s) - 1 : s[p + 1] # "c" /\ Count(s, p) = n /\ Cut(s, p)
    BY <1>5, CutExists
  <2>2. p + 1 \in E!Starts(s) /\ Count(s, p + 1) = n + 1
    BY <1>0, <2>1, CountNext DEF E!Starts
  <2>3. p + 1 \in cut
    BY <1>2, <2>2
  <2>4. PICK i \in cut : i = CHOOSE x \in cut : TRUE
    BY <2>3
  <2>5. i \in E!Starts(s) /\ Count(s, i) = n + 1 /\ i \in 1 .. Len(s) /\ s[i] # "c"
    BY <1>0, <1>2, <2>4 DEF cut, E!Starts
  <2>6. i - 1 \in 0 .. Len(s) /\ i - 1 < Len(s) /\ (i - 1) + 1 = i
    BY <1>0, <2>5
  <2>7. Cut(s, i - 1) /\ Count(s, i - 1) = n
    BY <1>0, <2>5, <2>6, CountNext DEF Cut
  <2>8. E!uresize(s, n) = E!Prefix(s, i - 1)
    BY <1>1, <1>5, <2>3, <2>4
  <2> QED
    BY <1>5, <2>6, <2>7, <2>8
<1>6. CASE n >= 1 /\ ~(n < E!ulen(s))
  <2>1. ASSUME NEW i \in cut PROVE FALSE
    <3>1. i \in 0 .. Len(s) /\ Len(s) \in i .. Len(s) /\ Len(s) \in 0 .. Len(s) /\ Count(s, i) = n + 1
      BY <1>0, <1>2, <2>1 DEF cut
    <3>2. Count(s, i) <= Count(s, Len(s)) /\ Count(s, Len(s)) = E!ulen(s)
      BY <3>1, CountGrows, CountNext
    <3> QED
      BY <1>0, <1>6, <3>1, <3>2
  <2>2. E!uresize(s, n) = E!Prefix(s, Len(s))
    BY <1>1, <1>3, <1>6, <2>1
  <2>3. Len(s) \in 0 .. Len(s) /\ Count(s, Len(s)) = E!ulen(s)
    BY <1>0, CountNext
  <2> QED
    BY <1>3, <1>6, <2>2, <2>3
<1> QED
  BY <1>4, <1>5, <1>6

\* luresize cuts before the last n characters.
LEMMA LuresizeCuts ==
  ASSUME NEW s \in Texts, E!Whole(s), NEW n \in Nat
  PROVE  \E p \in 0 .. Len(s) :
           /\ Cut(s, p) /\ E!luresize(s, n) = E!From(s, p)
           /\ Count(s, p) = E!ulen(s) - IF n < E!ulen(s) THEN n ELSE E!ulen(s)
<1> DEFINE cut == {i \in E!Starts(s) \ {1} : E!Cardinality({j \in E!Starts(s) : j >= i}) = n}
<1>0. Len(s) \in Nat /\ E!ulen(s) \in Nat /\ E!Starts(s) \subseteq 1 .. Len(s)
  BY TextFacts
<1>1. E!luresize(s, n) = IF n < 1 THEN <<>> ELSE IF cut = {} THEN s
                         ELSE E!From(s, (CHOOSE i \in cut : TRUE) - 1)
  BY DEF E!luresize
<1>2. \A i \in E!Starts(s) \ {1} : i \in cut <=> Count(s, i - 1) = E!ulen(s) - n
  <2>1. ASSUME NEW i \in E!Starts(s)
        PROVE  E!Cardinality({j \in E!Starts(s) : j >= i}) = E!ulen(s) - Count(s, i - 1) /\ Count(s, i - 1) \in Nat
    <3>1. i - 1 \in 0 .. Len(s) /\ i \in Int
      BY <1>0
    <3>2. E!Starts(E!Prefix(s, i - 1)) = {j \in E!Starts(s) : j <= i - 1}
      BY <3>1, PrefixStarts
    <3>3. /\ {j \in E!Starts(s) : j >= i} = E!Starts(s) \ E!Starts(E!Prefix(s, i - 1))
          /\ E!Starts(s) \cap E!Starts(E!Prefix(s, i - 1)) = E!Starts(E!Prefix(s, i - 1))
      BY <1>0, <3>1, <3>2
    <3>4. Cardinality(E!Starts(s) \ E!Starts(E!Prefix(s, i - 1)))
            = Cardinality(E!Starts(s)) - Cardinality(E!Starts(s) \cap E!Starts(E!Prefix(s, i - 1)))
      BY StartsFinite, FS_Difference
    <3> QED
      BY <3>1, <3>3, <3>4, SameCardinality, Ulen, CountNext DEF Count
  <2>2. ASSUME NEW i \in E!Starts(s) \ {1} PROVE i \in cut <=> Count(s, i - 1) = E!ulen(s) - n
    <3>1. i \in cut <=> E!Cardinality({j \in E!Starts(s) : j >= i}) = n
      OBVIOUS
    <3> HIDE DEF cut
    <3> QED
      BY <1>0, <2>1, <3>1
  <2> QED
    BY <2>2
<1> HIDE DEF cut
<1>3. Cut(s, 0) /\ Cut(s, Len(s)) /\ E!From(s, 0) = s /\ E!From(s, Len(s)) = <<>>
  <2>1. Cut(s, Len(s))
    BY <1>0 DEF Cut
  <2>2. Cut(s, 0)
    <3>1. 1 \in 1 .. Len(s) + 1
      BY <1>0
    <3>2. ~(1 <= Len(s) /\ s[1] = "c")
      BY <3>1 DEF E!Whole
    <3> QED
      BY <1>0, <3>2 DEF Cut
  <2> QED
    BY <1>0, <2>1, <2>2, SubSeqFull, SubSeqEmpty DEF Texts, E!From
<1>4. CASE n < 1
  <2>1. Len(s) \in 0 .. Len(s) /\ Count(s, Len(s)) = E!ulen(s)
    BY <1>0, CountNext
  <2>2. E!ulen(s) = E!ulen(s) - IF n < E!ulen(s) THEN n ELSE E!ulen(s)
    BY <1>0, <1>4
  <2>3. E!luresize(s, n) = E!From(s, Len(s))
    BY <1>1, <1>3, <1>4
  <2> QED
    BY <1>3, <2>1, <2>2, <2>3
<1>5. CASE n >= 1 /\ n < E!ulen(s)
  <2>0. E!ulen(s) - n \in Nat /\ E!ulen(s) - n < E!ulen(s) /\ E!ulen(s) - n # 0
    BY <1>0, <1>5
  <2>1. PICK p \in 0 .. Len(s) - 1 : s[p + 1] # "c" /\ Count(s, p) = E!ulen(s) - n /\ Cut(s, p)
    BY <2>0, CutExists
  <2>2. p # 0
    BY <1>0, <2>0, <2>1, CountNext
  <2>3. p + 1 \in E!Starts(s) \ {1} /\ (p + 1) - 1 = p
    BY <1>0, <2>1, <2>2 DEF E!Starts
  <2>4. p + 1 \in cut
    BY <1>2, <2>1, <2>3
  <2>5. PICK i \in cut : i = CHOOSE x \in cut : TRUE
    BY <2>4
  <2>6. /\ i \in E!Starts(s) \ {1} /\ Count(s, i - 1) = E!ulen(s) - n
        /\ i \in 1 .. Len(s) /\ s[i] # "c"
    BY <1>0, <1>2, <2>5 DEF cut, E!Starts
  <2>7. i - 1 \in 0 .. Len(s) /\ (i - 1) + 1 = i
    BY <1>0, <2>6
  <2>8. Cut(s, i - 1)
    BY <2>6, <2>7 DEF Cut
  <2>9. E!luresize(s, n) = E!From(s, i - 1)
    BY <1>1, <1>5, <2>4, <2>5
  <2> QED
    BY <1>5, <2>6, <2>7, <2>8, <2>9
<1>6. CASE n >= 1 /\ ~(n < E!ulen(s))
  <2>1. ASSUME NEW i \in cut PROVE FALSE
    <3>1. i \in E!Starts(s) \ {1} /\ Count(s, i - 1) = E!ulen(s) - n
      BY <1>2 DEF cut
    <3>2. /\ 0 \in 0 .. Len(s) /\ 0 < Len(s) /\ 1 \in 0 .. Len(s)
          /\ i - 1 \in 1 .. Len(s) /\ i - 1 \in 0 .. Len(s)
      BY <1>0, <3>1
    <3>3. s[0 + 1] # "c"
      BY <1>3, <3>2 DEF Cut
    <3>4. Count(s, 0) = 0 /\ Count(s, 0 + 1) = Count(s, 0) + 1
      BY <3>2, <3>3, CountNext
    <3>5. Count(s, 1) <= Count(s, i - 1) /\ Count(s, i - 1) \in Nat
      BY <3>2, CountGrows, CountNext
    <3> QED
      BY <1>0, <1>6, <3>1, <3>4, <3>5
  <2>2. E!luresize(s, n) = E!From(s, 0)
    BY <1>1, <1>3, <1>6, <2>1
  <2>3. 0 \in 0 .. Len(s) /\ Count(s, 0) = E!ulen(s) - E!ulen(s)
    BY <1>0, CountNext
  <2> QED
    BY <1>3, <1>6, <2>2, <2>3
<1> QED
  BY <1>4, <1>5, <1>6

-----------------------------------------------------------------------------
(* The field.                                                               *)

FieldInv == text \in Texts /\ E!CursorBetweenCharacters

\* The cursor is a cut, and the only one with as many characters before it.
LEMMA Cursor ==
  ASSUME FieldInv
  PROVE  /\ text \in Texts /\ E!Whole(text) /\ pos \in 0 .. Len(text) /\ Cut(text, pos)
         /\ Len(text) \in Nat /\ E!ulen(text) \in Nat
         /\ upos \in Nat /\ Count(text, pos) = upos /\ upos <= E!ulen(text)
         /\ \A p : Cut(text, p) /\ Count(text, p) = upos => p = pos
         /\ pos < Len(text) <=> upos < E!ulen(text)
         /\ pos > 0 <=> upos > 0
<1>1. /\ text \in Texts /\ E!Whole(text) /\ pos \in 0 .. Len(text)
      /\ E!Whole(E!Prefix(text, pos)) /\ Count(text, pos) = upos
  BY DEF FieldInv, E!CursorBetweenCharacters, Count
<1>2. Cut(text, pos)
  BY <1>1, CutIsWhole
<1>3. Len(text) \in Nat /\ E!ulen(text) \in Nat /\ upos \in Nat /\ Count(text, 0) = 0 /\ Count(text, Len(text)) = E!ulen(text)
  BY <1>1, CountNext, TextFacts
<1>4. Cut(text, Len(text)) /\ Cut(text, 0)
  <2>1. 1 \in 1 .. Len(text) + 1
    BY <1>3
  <2>2. ~(1 <= Len(text) /\ text[1] = "c")
    BY <1>1, <2>1 DEF E!Whole
  <2> QED
    BY <1>3, <2>2 DEF Cut
<1>5. \A p : Cut(text, p) /\ Count(text, p) = upos => p = pos
  BY <1>1, <1>2, CutUnique
<1>6. upos <= E!ulen(text)
  <2>1. Len(text) \in pos .. Len(text)
    BY <1>1, <1>3
  <2> QED
    BY <1>1, <1>3, <2>1, CountGrows
<1> QED
  BY <1>1, <1>2, <1>3, <1>4, <1>5, <1>6

\* A text of which t is what stands before the cursor.
LEMMA NewText ==
  ASSUME NEW t \in Texts, E!Whole(t), NEW r \in Texts, E!Whole(r),
         text' = t \o r, pos' = Len(t), upos' = E!ulen(t)
  PROVE  FieldInv'
<1>1. t \o r \in Texts /\ E!Whole(t \o r) /\ E!Prefix(t \o r, Len(t)) = t
  BY ConcatWhole, ConcatProperties DEF Texts
<1>2. Len(t) \in 0 .. Len(t \o r)
  <2>1. Len(t \o r) = Len(t) + Len(r) /\ Len(t) \in Nat /\ Len(r) \in Nat
    BY ConcatProperties DEF Texts
  <2> QED
    BY <2>1
<1> QED
  BY <1>1, <1>2 DEF FieldInv, E!CursorBetweenCharacters

\* Another place of the cursor.
LEMMA NewCursor ==
  ASSUME FieldInv, UNCHANGED text, Cut(text, pos'), Count(text, pos') = upos'
  PROVE  FieldInv'
<1>1. pos' \in 0 .. Len(text) /\ text \in Texts /\ E!Whole(text)
  BY Cursor DEF Cut
<1>2. E!Whole(E!Prefix(text, pos'))
  BY <1>1, CutIsWhole
<1> QED
  BY <1>1, <1>2 DEF FieldInv, E!CursorBetweenCharacters, Count

\* What is before the cursor, and what is behind it.
LEMMA Around ==
  ASSUME FieldInv
  PROVE  /\ E!Prefix(text, pos) \in Texts /\ E!Whole(E!Prefix(text, pos))
         /\ E!ulen(E!Prefix(text, pos)) = upos /\ Len(E!Prefix(text, pos)) = pos
         /\ E!From(text, pos) \in Texts /\ E!Whole(E!From(text, pos))
         /\ E!ulen(E!From(text, pos)) = E!ulen(text) - upos
         /\ Len(E!From(text, pos)) = Len(text) - pos
<1>1. /\ E!Prefix(text, pos) \in Texts /\ Len(E!Prefix(text, pos)) = pos
      /\ E!From(text, pos) \in Texts /\ Len(E!From(text, pos)) = Len(text) - pos
      /\ E!Prefix(text, pos) \o E!From(text, pos) = text
  BY Cursor, Parts
<1>2. E!Whole(E!Prefix(text, pos)) /\ E!Whole(E!From(text, pos))
  BY Cursor, CutIsWhole
<1>3. E!ulen(E!Prefix(text, pos)) = upos
  BY Cursor DEF Count
<1>4. E!ulen(text) = upos + E!ulen(E!From(text, pos)) /\ E!ulen(E!From(text, pos)) \in Nat
  BY <1>1, <1>3, CountConcat, StartsFinite
<1> QED
  BY <1>1, <1>2, <1>3, <1>4, Cursor

\* uresize at a number of characters the text has.
LEMMA CutAt ==
  ASSUME FieldInv, NEW n \in Nat, n <= E!ulen(text)
  PROVE  \E p \in 0 .. Len(text) :
           /\ Cut(text, p) /\ Count(text, p) = n
           /\ E!uresize(text, n) = E!Prefix(text, p) /\ Len(E!uresize(text, n)) = p
           /\ E!Prefix(text, p) \in Texts /\ E!Whole(E!Prefix(text, p)) /\ E!ulen(E!Prefix(text, p)) = n
           /\ E!From(text, p) \in Texts /\ E!Whole(E!From(text, p))
           /\ E!ulen(E!From(text, p)) = E!ulen(text) - n
<1>1. PICK p \in 0 .. Len(text) :
        /\ Cut(text, p) /\ E!uresize(text, n) = E!Prefix(text, p)
        /\ Count(text, p) = IF n < E!ulen(text) THEN n ELSE E!ulen(text)
  BY Cursor, UresizeCuts
<1>2. Count(text, p) = n
  BY <1>1, Cursor
<1>3. /\ E!Prefix(text, p) \in Texts /\ Len(E!Prefix(text, p)) = p /\ E!From(text, p) \in Texts
      /\ E!Prefix(text, p) \o E!From(text, p) = text
  BY Cursor, Parts
<1>4. E!Whole(E!Prefix(text, p)) /\ E!Whole(E!From(text, p))
  BY <1>1, Cursor, CutIsWhole
<1>5. E!ulen(E!Prefix(text, p)) = n
  BY <1>2 DEF Count
<1>6. E!ulen(text) = n + E!ulen(E!From(text, p)) /\ E!ulen(E!From(text, p)) \in Nat
  BY <1>3, <1>5, CountConcat, StartsFinite
<1> QED
  BY <1>1, <1>2, <1>3, <1>4, <1>5, <1>6

\* What a key types is one character, of one byte or two.
LEMMA KeysAreTexts ==
  ASSUME NEW key \in E!Chars
  PROVE  /\ key \in Texts /\ E!Whole(key) /\ E!ulen(key) = 1
         /\ (Len(key) = 1 \/ key = <<"l", "c">>) /\ Len(<<"l", "c">>) = 2
<1>1. key = <<"a">> \/ key = <<"0">> \/ key = <<"l", "c">>
  BY DEF E!Chars
<1>2. key \in Texts /\ E!Whole(key) /\ E!Starts(key) = {1}
  <2>1. CASE key = <<"a">> \/ key = <<"0">>
    <3>1. \A b \in {"a", "0"} : <<b>> \in Texts /\ Len(<<b>>) = 1 /\ <<b>>[1] = b
      BY DEF Texts, Bytes
    <3>2. key \in Texts /\ Len(key) = 1 /\ key[1] \in {"a", "0"}
      BY <2>1, <3>1
    <3> QED
      BY <3>2 DEF E!Whole, E!Starts
  <2>2. CASE key = <<"l", "c">>
    <3>1. key \in Texts /\ Len(key) = 2 /\ key[1] = "l" /\ key[2] = "c"
      BY <2>2 DEF Texts, Bytes
    <3>2. E!Starts(key) = {1}
      BY <3>1 DEF E!Starts
    <3>3. E!Whole(key)
      BY <3>1 DEF E!Whole
    <3> QED
      BY <3>1, <3>2, <3>3
  <2> QED
    BY <1>1, <2>1, <2>2
<1> QED
  BY <1>1, <1>2, Ulen, FS_Singleton

\* A field starts with its cursor at the end of the text.
LEMMA FieldStart == E!Init => FieldInv
<1> SUFFICES ASSUME NEW t \in {<<>>, <<"0">>}, E!Start(t) PROVE FieldInv
  BY DEF E!Init
<1>1. t \in Texts /\ E!Whole(t) /\ Len(t) \in 0 .. Len(t)
  <2>1. CASE t = <<>>
    BY <2>1 DEF Texts, E!Whole
  <2>2. CASE t = <<"0">>
    <3>1. t \in E!Chars
      BY <2>2 DEF E!Chars
    <3> QED
      BY <3>1, KeysAreTexts, TextFacts
  <2> QED
    BY <2>1, <2>2
<1>2. E!Prefix(t, Len(t)) = t
  BY <1>1, SubSeqFull DEF Texts, E!Prefix
<1> QED
  BY <1>1, <1>2 DEF E!Start, FieldInv, E!CursorBetweenCharacters

\* Every key leaves the two cursors at the same place between characters.
LEMMA FieldStep == FieldInv /\ [E!Next]_textVars => FieldInv'
<1> SUFFICES ASSUME FieldInv, [E!Next]_textVars PROVE FieldInv'
  OBVIOUS
<1>1. CASE E!Left
  <2>1. upos - 1 \in Nat /\ upos - 1 <= E!ulen(text)
    BY <1>1, Cursor DEF E!Left
  <2>2. PICK p \in 0 .. Len(text) : /\ Cut(text, p) /\ Count(text, p) = upos - 1
                                    /\ Len(E!uresize(text, upos - 1)) = p
    BY <2>1, CutAt
  <2>3. text' = text /\ pos' = p /\ upos' = upos - 1
    BY <1>1, <2>2 DEF E!Left, E!Set
  <2> QED
    BY <2>2, <2>3, NewCursor
<1>2. CASE E!Right
  <2>1. upos + 1 \in Nat /\ upos + 1 <= E!ulen(text)
    BY <1>2, Cursor DEF E!Right
  <2>2. PICK p \in 0 .. Len(text) : /\ Cut(text, p) /\ Count(text, p) = upos + 1
                                    /\ Len(E!uresize(text, upos + 1)) = p
    BY <2>1, CutAt
  <2>3. text' = text /\ pos' = p /\ upos' = upos + 1
    BY <1>2, <2>2 DEF E!Right, E!Set
  <2> QED
    BY <2>2, <2>3, NewCursor
<1>3. CASE E!Home
  <2>1. 0 \in Nat /\ 0 <= E!ulen(text)
    BY Cursor
  <2>2. PICK p \in 0 .. Len(text) : E!Prefix(text, p) \in Texts /\ E!uresize(text, 0) = E!Prefix(text, p) /\ Cut(text, p) /\ Count(text, p) = 0 /\ Len(E!uresize(text, 0)) = p
    BY <2>1, CutAt
  <2>3. E!uresize(text, 0) = <<>>
    BY DEF E!uresize
  <2>4. p = 0
    BY <2>2, <2>3
  <2>5. text' = text /\ pos' = 0 /\ upos' = 0
    BY <1>3 DEF E!Home, E!Set
  <2> QED
    BY <2>2, <2>4, <2>5, NewCursor
<1>4. CASE E!End
  <2>1. Cut(text, Len(text)) /\ Count(text, Len(text)) = E!ulen(text)
    BY Cursor, CountNext DEF Cut
  <2>2. text' = text /\ pos' = Len(text) /\ upos' = E!ulen(text)
    BY <1>4 DEF E!End, E!Set
  <2> QED
    BY <2>1, <2>2, NewCursor
<1>5. CASE E!Backspace
  <2>1. upos - 1 \in Nat /\ upos - 1 <= E!ulen(text)
    BY <1>5, Cursor DEF E!Backspace
  <2>2. PICK p \in 0 .. Len(text) :
          /\ E!uresize(text, upos - 1) = E!Prefix(text, p)
          /\ E!Prefix(text, p) \in Texts /\ E!Whole(E!Prefix(text, p)) /\ E!ulen(E!Prefix(text, p)) = upos - 1
          /\ Len(E!uresize(text, upos - 1)) = p
          /\ E!From(text, p) \in Texts /\ E!Whole(E!From(text, p))
    BY <2>1, CutAt
  <2> DEFINE first == E!Prefix(text, p)
             rest == E!luresize(E!From(text, p), E!ulen(text) - upos)
  <2>3. CASE pos = Len(text)
    <3>1. text' = first /\ pos' = Len(first) /\ upos' = upos - 1
      BY <1>5, <2>2, <2>3 DEF E!Backspace, E!Set
    <3>2. <<>> \in Texts /\ E!Whole(<<>>) /\ first \o <<>> = first
      BY <2>2, ConcatEmptySeq DEF Texts, E!Whole
    <3> QED
      BY <2>2, <3>1, <3>2, NewText
  <2>4. CASE pos # Len(text)
    <3>1. text' = first \o rest /\ pos' = Len(first) /\ upos' = upos - 1
      BY <1>5, <2>2, <2>4 DEF E!Backspace, E!Set
    <3>2. E!ulen(text) - upos \in Nat
      BY Cursor
    <3>3. PICK q \in 0 .. Len(E!From(text, p)) : Cut(E!From(text, p), q) /\ rest = E!From(E!From(text, p), q)
      BY <2>2, <3>2, LuresizeCuts
    <3>4. rest \in Texts /\ E!Whole(rest)
      BY <2>2, <3>3, Parts, CutIsWhole
    <3> HIDE DEF rest
    <3> QED
      BY <2>2, <3>1, <3>4, NewText
  <2> QED
    BY <2>3, <2>4
<1>6. CASE E!Delete
  <2>1. upos + 1 \in Nat /\ upos + 1 <= E!ulen(text)
    BY <1>6, Cursor DEF E!Delete
  <2>2. PICK p \in 0 .. Len(text) :
          /\ E!uresize(text, upos + 1) = E!Prefix(text, p) /\ Cut(text, p)
          /\ E!Prefix(text, p) \in Texts /\ E!Whole(E!Prefix(text, p)) /\ E!ulen(E!Prefix(text, p)) = upos + 1
          /\ Len(E!uresize(text, upos + 1)) = p
          /\ E!From(text, p) \in Texts /\ E!Whole(E!From(text, p)) /\ Count(text, p) = upos + 1
    BY <2>1, CutAt
  <2> DEFINE first == E!Prefix(text, p)
             kept == E!uresize(first, E!ulen(first) - 1)
  <2>3. text' = kept \o E!From(text, p) /\ pos' = pos /\ upos' = upos
    BY <1>6, <2>2 DEF E!Delete, E!Set
  <2>4. E!ulen(first) - 1 = upos /\ upos \in Nat /\ upos < E!ulen(first)
    BY <2>2, Cursor
  <2>5. PICK q \in 0 .. Len(first) : Cut(first, q) /\ kept = E!Prefix(first, q) /\ Count(first, q) = upos
    BY <2>2, <2>4, UresizeCuts
  <2>6. kept \in Texts /\ E!Whole(kept) /\ E!ulen(kept) = upos /\ Len(kept) = q
    BY <2>2, <2>5, Parts, CutIsWhole DEF Count
  <2>7. q = pos
    <3>1. kept = E!Prefix(text, q) /\ q \in 0 .. Len(text)
      <4>1. Len(first) = p /\ \A i \in 1 .. p : first[i] = text[i]
        BY Cursor, Parts
      <4>2. q \in 0 .. Len(text) /\ q \in 0 .. p
        BY <2>5, <4>1, Cursor
      <4>3. /\ E!Prefix(text, q) \in Texts /\ Len(E!Prefix(text, q)) = q
            /\ \A i \in 1 .. q : E!Prefix(text, q)[i] = text[i]
        BY <4>2, Cursor, Parts
      <4>4. \A i \in 1 .. q : kept[i] = first[i]
        BY <2>2, <2>5, Parts
      <4>5. \A i \in 1 .. q : kept[i] = E!Prefix(text, q)[i]
        BY <4>1, <4>2, <4>3, <4>4
      <4> QED
        BY <2>6, <4>2, <4>3, <4>5, SeqEqual DEF Texts
    <3>2. Cut(text, q) /\ Count(text, q) = upos
      BY <2>6, <3>1, Cursor, CutIsWhole DEF Count
    <3> QED
      BY <3>2, Cursor
  <2> HIDE DEF first, kept
  <2> QED
    BY <2>2, <2>3, <2>6, <2>7, NewText
<1>7. ASSUME NEW key \in E!Chars, E!Type(key) PROVE FieldInv'
  <2> DEFINE ahead == E!Prefix(text, pos)
             behind == E!From(text, pos)
  <2>1. /\ ahead \in Texts /\ E!Whole(ahead) /\ E!ulen(ahead) = upos /\ Len(ahead) = pos
        /\ behind \in Texts /\ E!Whole(behind)
    BY Around
  <2>2. key \in Texts /\ E!Whole(key) /\ E!ulen(key) = 1 /\ (Len(key) = 1 \/ key = <<"l", "c">>) /\ Len(<<"l", "c">>) = 2
    BY <1>7, KeysAreTexts
  <2>3. ahead = E!uresize(text, upos)
    <3>1. PICK p \in 0 .. Len(text) : Cut(text, p) /\ Count(text, p) = upos /\ E!uresize(text, upos) = E!Prefix(text, p)
      BY Cursor, CutAt
    <3>2. p = pos
      BY <3>1, Cursor
    <3> QED
      BY <3>1, <3>2
  <2>4. text' = (ahead \o key) \o behind /\ upos' = upos + 1
        /\ pos' = IF Len(key) = 1 THEN pos + 1 ELSE Len(ahead \o key)
    BY <1>7, <2>3 DEF E!Type, E!Set
  <2> HIDE DEF ahead, behind
  <2>5. /\ ahead \o key \in Texts /\ E!Whole(ahead \o key) /\ E!ulen(ahead \o key) = upos + 1
        /\ Len(ahead \o key) = pos + Len(key)
    BY <2>1, <2>2, ConcatWhole, CountConcat, ConcatProperties DEF Texts
  <2>6. pos' = Len(ahead \o key)
    BY <2>4, <2>5
  <2> QED
    BY <2>1, <2>4, <2>5, <2>6, NewText
<1>8. CASE UNCHANGED textVars
  BY <1>8 DEF textVars, FieldInv, E!CursorBetweenCharacters
<1> QED
  BY <1>1, <1>2, <1>3, <1>4, <1>5, <1>6, <1>7, <1>8 DEF E!Next

-----------------------------------------------------------------------------
(* What is shown of the field.                                              *)

\* The last n characters before the cursor, as many as there are.
LEMMA EndOfPrefix ==
  ASSUME FieldInv, NEW n \in Nat
  PROVE  LET ahead == E!luresize(E!Prefix(text, pos), n)
         IN  /\ ahead \in Texts /\ E!Whole(ahead)
             /\ E!ulen(ahead) = IF n < upos THEN n ELSE upos
             /\ ahead = E!From(E!Prefix(text, pos), pos - Len(ahead))
<1> DEFINE s == E!Prefix(text, pos)
<1>1. s \in Texts /\ E!Whole(s) /\ E!ulen(s) = upos /\ Len(s) = pos /\ upos \in Nat /\ pos \in Nat
  BY Around, Cursor
<1> HIDE DEF s
<1>2. PICK p \in 0 .. Len(s) : /\ Cut(s, p) /\ E!luresize(s, n) = E!From(s, p)
                               /\ Count(s, p) = E!ulen(s) - IF n < E!ulen(s) THEN n ELSE E!ulen(s)
  BY <1>1, LuresizeCuts
<1>3. /\ E!From(s, p) \in Texts /\ E!Whole(E!From(s, p)) /\ Len(E!From(s, p)) = pos - p
      /\ E!ulen(s) = Count(s, p) + E!ulen(E!From(s, p)) /\ E!ulen(E!From(s, p)) \in Nat
  <2>1. /\ E!Prefix(s, p) \in Texts /\ E!From(s, p) \in Texts /\ Len(E!From(s, p)) = pos - p
        /\ E!Prefix(s, p) \o E!From(s, p) = s
    BY <1>1, <1>2, Parts
  <2>2. E!Whole(E!From(s, p))
    BY <1>1, <1>2, CutIsWhole
  <2>3. E!ulen(s) = Count(s, p) + E!ulen(E!From(s, p))
    BY <2>1, CountConcat DEF Count
  <2> QED
    BY <2>1, <2>2, <2>3, StartsFinite
<1>4. pos - (pos - p) = p
  BY <1>1, <1>2
<1>5. E!ulen(E!From(s, p)) = IF n < upos THEN n ELSE upos
  BY <1>1, <1>2, <1>3
<1> QED
  BY <1>2, <1>3, <1>4, <1>5 DEF s

\* The first n characters after the cursor, as many as there are.
LEMMA StartOfRest ==
  ASSUME FieldInv, NEW n \in Nat
  PROVE  LET after == E!uresize(E!From(text, pos), n)
         IN  /\ E!Whole(after)
             /\ E!ulen(after) = IF n < E!ulen(text) - upos THEN n ELSE E!ulen(text) - upos
             /\ after = E!Prefix(E!From(text, pos), Len(after))
<1> DEFINE s == E!From(text, pos)
<1>1. s \in Texts /\ E!Whole(s) /\ E!ulen(s) = E!ulen(text) - upos
  BY Around
<1> HIDE DEF s
<1>2. PICK p \in 0 .. Len(s) : /\ Cut(s, p) /\ E!uresize(s, n) = E!Prefix(s, p)
                               /\ Count(s, p) = IF n < E!ulen(s) THEN n ELSE E!ulen(s)
  BY <1>1, UresizeCuts
<1>3. E!Whole(E!Prefix(s, p)) /\ Len(E!Prefix(s, p)) = p
  BY <1>1, <1>2, Parts, CutIsWhole
<1> QED
  BY <1>1, <1>2, <1>3 DEF s, Count

\* What operator() shows is cut between characters and has the cursor in it.
LEMMA FieldShows == ASSUME FieldInv, E!TextEditAssumption PROVE E!ShowsCursor
<1> DEFINE half == (Room + 1) \div 2
           n == E!ulen(text)
           m == IF upos + half > n THEN Room - (n - upos) ELSE half
<1>1. /\ Room \in Nat /\ Room >= 2 /\ n \in Nat /\ upos \in Nat /\ upos <= n /\ pos \in Nat
      /\ half \in Nat /\ half >= 1 /\ half < Room /\ half + half >= Room
  BY Cursor DEF E!TextEditAssumption
<1>2. CASE n + 1 > Room
  <2> DEFINE ahead == E!Before(Room)
             after == E!uresize(E!From(text, pos), Room - E!ulen(ahead))
  <2>1. E!Shown(Room)[1] = ahead /\ E!Shown(Room)[2] = after
    BY <1>2 DEF E!Shown
  <2>2. /\ ahead \in Texts /\ E!Whole(ahead) /\ ahead = E!From(E!Prefix(text, pos), pos - Len(ahead))
        /\ E!ulen(ahead) = IF upos + half <= n /\ upos = half THEN upos ELSE IF m < upos THEN m ELSE upos
    <3>1. CASE upos + half <= n /\ upos = half
      <4>1. ahead = E!Prefix(text, pos)
        BY <3>1 DEF E!Before
      <4>2. /\ ahead \in Texts /\ E!Whole(ahead) /\ E!ulen(ahead) = upos /\ Len(ahead) = pos
        BY <4>1, Around
      <4>3. E!From(ahead, pos - Len(ahead)) = ahead
        <5>1. pos - Len(ahead) = 0
          BY <1>1, <4>2
        <5> QED
          BY <4>2, <5>1, SubSeqFull DEF Texts, E!From
      <4> HIDE DEF ahead
      <4> QED
        BY <3>1, <4>1, <4>2, <4>3
    <3>2. CASE ~(upos + half <= n /\ upos = half)
      <4>1. ahead = E!luresize(E!Prefix(text, pos), m)
        BY <3>2 DEF E!Before
      <4>2. m \in Nat
        BY <1>1
      <4> HIDE DEF ahead, m
      <4> QED
        BY <3>2, <4>1, <4>2, EndOfPrefix
    <3> QED
      BY <3>1, <3>2
  <2> HIDE DEF ahead
  <2>3. /\ E!ulen(ahead) \in Nat /\ Room - E!ulen(ahead) \in Nat
        /\ E!ulen(ahead) + (IF Room - E!ulen(ahead) < n - upos THEN Room - E!ulen(ahead) ELSE n - upos)
             = IF n > Room THEN Room ELSE n
    <3> HIDE DEF half, n
    <3> QED
      BY <1>1, <1>2, <2>2
  <2>4. /\ E!Whole(after) /\ after = E!Prefix(E!From(text, pos), Len(after))
        /\ E!ulen(after) = IF Room - E!ulen(ahead) < n - upos THEN Room - E!ulen(ahead) ELSE n - upos
    BY <2>3, StartOfRest
  <2> HIDE DEF after, n
  <2>5. E!ulen(ahead) + E!ulen(after) = IF n > Room THEN Room ELSE n
    BY <2>3, <2>4
  <2> QED
    BY <2>1, <2>2, <2>4, <2>5 DEF E!ShowsCursor, n
<1>3. CASE ~(n + 1 > Room)
  <2> DEFINE ahead == E!Prefix(text, pos)
             after == E!From(text, pos)
  <2>1. E!Shown(Room)[1] = ahead /\ E!Shown(Room)[2] = after
    BY <1>3 DEF E!Shown
  <2>2. /\ ahead \in Texts /\ E!Whole(ahead) /\ E!ulen(ahead) = upos /\ Len(ahead) = pos
        /\ after \in Texts /\ E!Whole(after) /\ E!ulen(after) = n - upos
    BY Around
  <2>3. ahead = E!From(ahead, pos - Len(ahead))
    <3>1. pos - Len(ahead) = 0
      BY <1>1, <2>2
    <3> QED
      BY <2>2, <3>1, SubSeqFull DEF Texts, E!From
  <2>4. after = E!Prefix(after, Len(after))
    BY <2>2, SubSeqFull DEF Texts, E!Prefix
  <2>5. E!ulen(ahead) + E!ulen(after) = IF n > Room THEN Room ELSE n
    <3> HIDE DEF half, n, ahead, after
    <3> QED
      BY <1>1, <1>3, <2>2
  <2> QED
    BY <2>1, <2>2, <2>3, <2>4, <2>5 DEF E!ShowsCursor
<1> QED
  BY <1>2, <1>3

\* Whatever is typed and deleted in a field of any width, its two cursors are
\* the same place between two characters, and what is shown is the text around
\* it (btop_draw.cpp:143-217).
THEOREM FieldIsShown == ScreenSpec => []FieldShowsCursor
<1>1. ScreenInit => FieldInv
  BY FieldStart DEF ScreenInit
<1>2. FieldInv /\ [ScreenNext]_screenVars => FieldInv'
  BY FieldStep DEF ScreenNext, screenVars, textVars
<1>3. FieldInv => FieldShowsCursor
  BY FieldShows, ScreenAssumption DEF FieldInv, FieldShowsCursor
<1> QED
  BY <1>1, <1>2, <1>3, PTL DEF ScreenSpec

-----------------------------------------------------------------------------
(* The graph.                                                               *)

\* The k-th sample from the end, and zero left of the first one.
Recent(d, k) == IF k <= Len(d) THEN d[Len(d) - k + 1] ELSE 0
\* The line that shows the samples up to the s-th from the end.
Line(d, w, s) == [j \in 1 .. w |-> <<Recent(d, 2 * (w - j) + 2 + s), Recent(d, 2 * (w - j) + 1 + s)>>]
\* A Draw::Graph, and one that lags s samples behind.
Drawing(t, k, c, l) == [tty |-> t, cells |-> k, current |-> c, last |-> l]
Picture(d, w, s, c) ==
  Drawing(FALSE, [line \in BOOLEAN |-> IF line = c THEN Line(d, w, s) ELSE Line(d, w, s + 1)],
          c, Recent(d, 1 + s))

\* In tty mode there is one line, and a cell for each sample.
TtyLine(d, w, s) == [j \in 1 .. w |-> <<Recent(d, (w - j) + 2 + s), Recent(d, (w - j) + 1 + s)>>]
TtyPicture(d, w, s) ==
  Drawing(TRUE, [line \in BOOLEAN |-> IF line THEN TtyLine(d, w, s) ELSE <<>>],
          TRUE, Recent(d, 1 + s))

\* A function over 1 .. n is a sequence of length n.
LEMMA IsSeq ==
  ASSUME NEW S, NEW n \in Nat, NEW f \in [1 .. n -> S]
  PROVE  f \in Seq(S) /\ Len(f) = n
OBVIOUS

\* A line of blanks and the cells that follow it.
LEMMA BlanksThenCells ==
  ASSUME NEW w \in Nat, NEW b \in 0 .. w, NEW line, line = [j \in 1 .. w |-> line[j]],
         NEW cells, cells = [k \in 1 .. w - b |-> line[b + k]],
         \A j \in 1 .. b : line[j] = <<0, 0>>, \A j \in 1 .. w : line[j] \in Int \X Int
  PROVE  [i \in 1 .. b |-> <<0, 0>>] \o cells = line
<1> DEFINE blanks == [i \in 1 .. b |-> <<0, 0>>]
           rest == [k \in 1 .. w - b |-> line[b + k]]
<1>1. /\ blanks \in Seq(Int \X Int) /\ Len(blanks) = b
      /\ \A i \in 1 .. b : blanks[i] = <<0, 0>>
  OBVIOUS
<1>2. rest \in Seq(Int \X Int) /\ Len(rest) = w - b /\ \A k \in 1 .. w - b : rest[k] = line[b + k]
  <2>1. \A k \in 1 .. w - b : b + k \in 1 .. w
    OBVIOUS
  <2>2. \A k \in 1 .. w - b : line[b + k] \in Int \X Int
    BY <2>1
  <2>3. w - b \in Nat
    OBVIOUS
  <2> DEFINE n == w - b
  <2> HIDE DEF n
  <2>4. n \in Nat /\ rest = [k \in 1 .. n |-> line[b + k]] /\ \A k \in 1 .. n : line[b + k] \in Int \X Int
    BY <2>2, <2>3 DEF n
  <2>5. rest \in Seq(Int \X Int) /\ Len(rest) = n /\ \A k \in 1 .. n : rest[k] = line[b + k]
    <3>1. \A k \in 1 .. n : rest[k] = line[b + k]
      BY <2>4
    <3>2. rest = [k \in 1 .. n |-> rest[k]]
      BY <2>4
    <3> HIDE DEF rest
    <3>3. \A k \in 1 .. n : rest[k] \in Int \X Int
      BY <2>4, <3>1
    <3>4. rest \in [1 .. n -> Int \X Int]
      BY <3>2, <3>3
    <3>5. rest \in Seq(Int \X Int) /\ Len(rest) = n
      BY <2>4, <3>4, IsSeq
    <3> QED
      BY <3>1, <3>5
  <2> QED
    BY <2>5 DEF n
<1>3. line \in Seq(Int \X Int) /\ Len(line) = w
  OBVIOUS
<1> HIDE DEF blanks, rest
<1>4. /\ blanks \o rest \in Seq(Int \X Int) /\ Len(blanks \o rest) = w
      /\ \A i \in 1 .. w : (blanks \o rest)[i] = IF i <= b THEN blanks[i] ELSE rest[i - b]
  <2>1. b + (w - b) = w /\ b \in Nat /\ w - b \in Nat
    OBVIOUS
  <2>2. /\ blanks \o rest \in Seq(Int \X Int) /\ Len(blanks \o rest) = b + (w - b)
        /\ \A i \in 1 .. b + (w - b) : (blanks \o rest)[i] = IF i <= b THEN blanks[i] ELSE rest[i - b]
    BY <1>1, <1>2, ConcatProperties
  <2> QED
    BY <2>1, <2>2
<1>5. \A i \in 1 .. w : (blanks \o rest)[i] = line[i]
  <2>1. ASSUME NEW i \in 1 .. w PROVE (blanks \o rest)[i] = line[i]
    <3>1. CASE i <= b
      <4>1. i \in 1 .. b
        BY <3>1
      <4> QED
        BY <1>1, <1>4, <3>1, <4>1
    <3>2. CASE ~(i <= b)
      <4>1. i - b \in 1 .. w - b /\ b + (i - b) = i
        BY <3>2
      <4> QED
        BY <1>2, <1>4, <3>2, <4>1
    <3> QED
      BY <3>1, <3>2
  <2> QED
    BY <2>1
<1>6. blanks \o rest = line
  BY <1>3, <1>4, <1>5, SeqEqual
<1> QED
  BY <1>6 DEF blanks, rest

\* Types of what is drawn.
LEMMA RecentIsNumber ==
  ASSUME NEW d \in Seq(Int), NEW k \in Nat \ {0}
  PROVE  Recent(d, k) \in Int
<1>1. Len(d) \in Nat
  OBVIOUS
<1>2. k <= Len(d) => Len(d) - k + 1 \in 1 .. Len(d)
  BY <1>1
<1> QED
  BY <1>1, <1>2 DEF Recent

\* A line has w cells of two samples.
LEMMA LineIsCells ==
  ASSUME NEW d \in Seq(Int), NEW w \in Nat, NEW s \in Nat
  PROVE  /\ Line(d, w, s) = [j \in 1 .. w |-> Line(d, w, s)[j]]
         /\ \A j \in 1 .. w : Line(d, w, s)[j] \in Int \X Int
<1>1. \A j \in 1 .. w : 2 * (w - j) + 2 + s \in Nat \ {0} /\ 2 * (w - j) + 1 + s \in Nat \ {0}
  OBVIOUS
<1> QED
  BY <1>1, RecentIsNumber DEF Line

\* What the constructor takes from the samples: an even number 2 * half.
LEMMA Taken ==
  ASSUME NEW len \in Nat \ {0}, NEW w \in Nat \ {0}
  PROVE  LET columns == (len + 1) \div 2
             from == IF columns > w THEN len - 2 * w ELSE 0
             offset == IF (len - from) % 2 = 0 THEN from ELSE from - 1
             half == IF columns > w THEN w ELSE columns
         IN  /\ half \in 1 .. w /\ offset \in Int /\ offset = len - 2 * half
             /\ (half < w => len <= 2 * half) /\ offset < len
             /\ (len - offset) % 2 = 0 /\ (len - offset) \div 2 = half
             /\ (len - offset + 1) \div 2 = half /\ len - offset > 1
             /\ (IF columns < w THEN w - columns ELSE 0) = w - half
OBVIOUS

\* The fields of a graph, and one of them set.
LEMMA Fields ==
  ASSUME NEW t, NEW k, NEW c, NEW l
  PROVE  /\ Drawing(t, k, c, l).tty = t /\ Drawing(t, k, c, l).cells = k
         /\ Drawing(t, k, c, l).current = c /\ Drawing(t, k, c, l).last = l
BY DEF Drawing

LEMMA SetCells ==
  ASSUME NEW t, NEW k, NEW c, NEW l, NEW new
  PROVE  [Drawing(t, k, c, l) EXCEPT !.cells = new] = Drawing(t, new, c, l)
<1>1. PICK h : h = Drawing(t, k, c, l)
  OBVIOUS
<1>2. [h EXCEPT !.cells = new] = [x \in {"tty", "cells", "current", "last"} |-> IF x = "cells" THEN new ELSE h[x]]
  BY <1>1 DEF Drawing
<1> QED
  BY <1>1, <1>2 DEF Drawing

LEMMA SetCurrent ==
  ASSUME NEW t, NEW k, NEW c, NEW l, NEW new
  PROVE  [Drawing(t, k, c, l) EXCEPT !.current = new] = Drawing(t, k, new, l)
<1>1. PICK h : h = Drawing(t, k, c, l)
  OBVIOUS
<1>2. [h EXCEPT !.current = new] = [x \in {"tty", "cells", "current", "last"} |-> IF x = "current" THEN new ELSE h[x]]
  BY <1>1 DEF Drawing
<1> QED
  BY <1>1, <1>2 DEF Drawing

LEMMA SetLast ==
  ASSUME NEW t, NEW k, NEW c, NEW l, NEW new
  PROVE  [Drawing(t, k, c, l) EXCEPT !.last = new] = Drawing(t, k, c, new)
<1>1. PICK h : h = Drawing(t, k, c, l)
  OBVIOUS
<1>2. [h EXCEPT !.last = new] = [x \in {"tty", "cells", "current", "last"} |-> IF x = "last" THEN new ELSE h[x]]
  BY <1>1 DEF Drawing
<1> QED
  BY <1>1, <1>2 DEF Drawing

\* The constructor draws the samples, up to the last one.
LEMMA NewIsPicture ==
  ASSUME NEW d \in Seq(Int), NEW w \in Nat \ {0}
  PROVE  G!New(d, w, FALSE) = Picture(d, w, 0, TRUE)
<1> DEFINE columns == (Len(d) + 1) \div 2
           from == IF columns > w THEN Len(d) - 2 * w ELSE 0
           offset == IF (Len(d) - from) % 2 = 0 THEN from ELSE from - 1
           blanks == [i \in 1 .. IF columns < w THEN w - columns ELSE 0 |-> <<0, 0>>]
           g == Drawing(FALSE, [line \in BOOLEAN |-> blanks], TRUE, 0)
<1>1. G!New(d, w, FALSE) = IF d = <<>> THEN g ELSE G!Create(g, d, offset)
  <2>1. Len(d) - w * 2 = Len(d) - 2 * w
    OBVIOUS
  <2> QED
    BY <2>1 DEF G!New, G!Blank, Drawing
<1>2. CASE d = <<>>
  <2>1. blanks = [j \in 1 .. w |-> <<0, 0>>]
    <3>1. Len(d) = 0
      BY <1>2
    <3>2. (IF columns < w THEN w - columns ELSE 0) = w
      BY <3>1
    <3> QED
      BY <3>2
  <2>2. \A s \in {0, 1} : Line(d, w, s) = [j \in 1 .. w |-> <<0, 0>>]
    <3>1. Len(d) = 0
      BY <1>2
    <3>2. \A s \in {0, 1} : \A j \in 1 .. w : ~(2 * (w - j) + 2 + s <= 0) /\ ~(2 * (w - j) + 1 + s <= 0)
      OBVIOUS
    <3> QED
      BY <3>1, <3>2 DEF Line, Recent
  <2>3. Recent(d, 1) = 0
    BY <1>2 DEF Recent
  <2> HIDE DEF blanks
  <2>4. Line(d, w, 0) = blanks /\ Line(d, w, 0 + 1) = blanks
    BY <2>1, <2>2
  <2>5. Picture(d, w, 0, TRUE) = g
    <3>1. [line \in BOOLEAN |-> IF line = TRUE THEN Line(d, w, 0) ELSE Line(d, w, 0 + 1)] = [line \in BOOLEAN |-> blanks]
      BY <2>4, Zenon
    <3>2. Recent(d, 1 + 0) = 0
      BY <2>3
    <3> QED
      BY <3>1, <3>2, Zenon DEF Picture
  <2> QED
    BY <1>1, <1>2, <2>5
<1>3. CASE d # <<>>
  <2> DEFINE half == IF columns > w THEN w ELSE columns
             n == Len(d) - offset
             value(i) == IF i < 0 THEN 0 ELSE d[i + 1]
             prior(i) == IF i < 0 THEN 0
                         ELSE IF i > offset \/ (n > 1 /\ i > 0) THEN value(i - 1) ELSE 0
             cell(i) == <<prior(i), value(i)>>
             first == [k \in 1 .. (n + 1) \div 2 |-> cell(offset + 2 * k - 2)]
             second == [k \in 1 .. n \div 2 |-> cell(offset + 2 * k - 1)]
  <2>0. Len(d) \in Nat \ {0}
    BY <1>3
  <2>1. /\ half \in 1 .. w /\ offset \in Int /\ offset = Len(d) - 2 * half
        /\ (half < w => Len(d) <= 2 * half)
        /\ n % 2 = 0 /\ n \div 2 = half /\ (n + 1) \div 2 = half /\ n > 1
        /\ (IF columns < w THEN w - columns ELSE 0) = w - half
    <3>1. PICK len \in Nat \ {0} : len = Len(d)
      BY <2>0
    <3> QED
      BY <3>1, Taken, Zenon
  <2>2. G!Create(g, d, offset) =
          Drawing(FALSE, [line \in BOOLEAN |-> blanks \o IF line = TRUE THEN second ELSE first], TRUE, value(Len(d) - 1))
    <3>0. PICK no, yes, even : no = FALSE /\ yes = TRUE /\ even = (n % 2 = 0)
      OBVIOUS
    <3>1. PICK h : h = Drawing(no, [line \in BOOLEAN |-> blanks], yes, 0)
      OBVIOUS
    <3> DEFINE beside(i) == IF i < 0 THEN 0 ELSE IF i > offset \/ (n > 1 /\ i > 0) THEN value(i - 1) ELSE h.last
               drawn1 == [k \in 1 .. (n + 1) \div 2 |-> <<beside(offset + 2 * k - 2), value(offset + 2 * k - 2)>>]
               drawn2 == [k \in 1 .. n \div 2 |-> <<beside(offset + 2 * k - 1), value(offset + 2 * k - 1)>>]
    <3>2. h.last = 0 /\ h.tty = no
      <4> HIDE DEF blanks
      <4> QED
        BY <3>1, Fields
    <3>3. drawn1 = first /\ drawn2 = second
      <4> HIDE DEF value, offset, n
      <4> QED
        BY <3>2
    <3>4. n > 1 /\ ~h.tty
      BY <2>1, <3>0, <3>2
    <3>5. G!Create(h, d, offset) =
            [h EXCEPT !.cells = [line \in BOOLEAN |-> @[line] \o IF line = h.current THEN drawn2 ELSE drawn1],
                      !.current = IF n % 2 = 0 THEN @ ELSE ~@,
                      !.last = value(Len(d) - 1)]
      <4> HIDE DEF offset
      <4> QED
        BY <3>4, Zenon DEF G!Create
    <3>6. even
      BY <2>1, <3>0
    <3>8. h = g
      <4> HIDE DEF blanks
      <4> QED
        BY <3>0, <3>1
    <3> HIDE DEF offset, blanks, first, second, drawn1, drawn2, value, n, g
    <3>7. G!Create(h, d, offset) =
            Drawing(no, [line \in BOOLEAN |-> blanks \o IF line = yes THEN second ELSE first], yes, value(Len(d) - 1))
      <4>1. G!Create(h, d, offset) =
              [h EXCEPT !.cells = [line \in BOOLEAN |-> @[line] \o IF line = h.current THEN second ELSE first],
                        !.current = IF even THEN @ ELSE ~@,
                        !.last = value(Len(d) - 1)]
        BY <3>0, <3>3, <3>5, Zenon
      <4>2. PICK last : last = value(Len(d) - 1)
        OBVIOUS
      <4> QED
        <5>1. PICK k : k = [line \in BOOLEAN |-> blanks \o IF line = yes THEN second ELSE first]
          OBVIOUS
        <5>2. PICK b : b = [line \in BOOLEAN |-> blanks]
          OBVIOUS
        <5>3. PICK h1 : h1 = Drawing(no, k, yes, 0)
          OBVIOUS
        <5>4. h = Drawing(no, b, yes, 0)
          BY <3>1, <5>2, Zenon
        <5>5. h.cells = b /\ h.current = yes /\ h1.current = yes
          BY ONLY <5>3, <5>4, Fields
        <5>6. [line \in BOOLEAN |-> (h.cells)[line] \o IF line = h.current THEN second ELSE first] = k
          <6>1. [line \in BOOLEAN |-> b[line] \o IF line = yes THEN second ELSE first]
                = [line \in BOOLEAN |-> blanks \o IF line = yes THEN second ELSE first]
            BY <5>2, Zenon
          <6> QED
            BY <5>1, <5>5, <6>1, Zenon
        <5>7. [h EXCEPT !.cells = [line \in BOOLEAN |-> @[line] \o IF line = h.current THEN second ELSE first]] = h1
          <6>1. [h EXCEPT !.cells = k] = h1
            BY ONLY <5>3, <5>4, SetCells
          <6> QED
            BY <5>6, <6>1, Zenon
        <5>8. [h1 EXCEPT !.current = IF even THEN @ ELSE ~@] = h1
          <6>1. (IF even THEN h1.current ELSE ~h1.current) = yes
            BY <3>6, <5>5, Zenon
          <6>2. [h1 EXCEPT !.current = yes] = h1
            BY ONLY <5>3, SetCurrent
          <6> QED
            BY <6>1, <6>2, Zenon
        <5>9. [h1 EXCEPT !.last = last] = Drawing(no, k, yes, last)
          BY ONLY <5>3, SetLast
        <5>10. [h EXCEPT !.cells = [line \in BOOLEAN |-> @[line] \o IF line = h.current THEN second ELSE first],
                         !.current = IF even THEN @ ELSE ~@,
                         !.last = last] = Drawing(no, k, yes, last)
          <6>1. h.current = h1.current
            BY <5>5, Zenon
          <6> QED
            BY <5>7, <5>8, <5>9, <6>1, Zenon
        <5> QED
          BY <4>1, <4>2, <5>1, <5>10, Zenon
    <3> QED
      BY <3>0, <3>7, <3>8, Zenon
  <2> HIDE DEF half, columns, from, offset
  <2>3. ASSUME NEW i \in Int, i < Len(d) PROVE value(i) = Recent(d, Len(d) - i)
    BY <2>0, <2>3 DEF Recent
  <2>4. ASSUME NEW i \in Int, offset <= i, i < Len(d)
        PROVE  cell(i) = <<Recent(d, Len(d) - i + 1), Recent(d, Len(d) - i)>>
    <3>1. value(i) = Recent(d, Len(d) - i)
      BY <2>3, <2>4
    <3>2. value(i - 1) = Recent(d, Len(d) - (i - 1)) /\ Len(d) - (i - 1) = Len(d) - i + 1
      <4>1. i - 1 \in Int /\ i - 1 < Len(d) /\ Len(d) - (i - 1) = Len(d) - i + 1
        BY <2>0, <2>4
      <4> HIDE DEF value
      <4> QED
        BY <2>3, <4>1
    <3>3. prior(i) = value(i - 1)
      BY <2>1, <2>4
    <3> HIDE DEF value, prior
    <3> QED
      BY <3>1, <3>2, <3>3
  <2>5. second = [k \in 1 .. half |-> Line(d, w, 0)[(w - half) + k]]
    <3>1. ASSUME NEW k \in 1 .. half PROVE cell(offset + 2 * k - 1) = Line(d, w, 0)[(w - half) + k]
      <4>1. /\ offset + 2 * k - 1 \in Int /\ offset <= offset + 2 * k - 1 /\ offset + 2 * k - 1 < Len(d)
            /\ Len(d) - (offset + 2 * k - 1) = 2 * (w - ((w - half) + k)) + 1 + 0
            /\ Len(d) - (offset + 2 * k - 1) + 1 = 2 * (w - ((w - half) + k)) + 2 + 0
            /\ (w - half) + k \in 1 .. w
        BY <2>0, <2>1
      <4> HIDE DEF cell
      <4> QED
        BY <2>4, <4>1 DEF Line
    <3> HIDE DEF cell, n
    <3> QED
      BY <2>1, <3>1
  <2>6. first = [k \in 1 .. half |-> Line(d, w, 1)[(w - half) + k]]
    <3>1. ASSUME NEW k \in 1 .. half PROVE cell(offset + 2 * k - 2) = Line(d, w, 1)[(w - half) + k]
      <4>1. /\ offset + 2 * k - 2 \in Int /\ offset <= offset + 2 * k - 2 /\ offset + 2 * k - 2 < Len(d)
            /\ Len(d) - (offset + 2 * k - 2) = 2 * (w - ((w - half) + k)) + 1 + 1
            /\ Len(d) - (offset + 2 * k - 2) + 1 = 2 * (w - ((w - half) + k)) + 2 + 1
            /\ (w - half) + k \in 1 .. w
        BY <2>0, <2>1
      <4> HIDE DEF cell
      <4> QED
        BY <2>4, <4>1 DEF Line
    <3> HIDE DEF cell, n
    <3> QED
      BY <2>1, <3>1
  <2>7. blanks = [i \in 1 .. w - half |-> <<0, 0>>]
    BY <2>1
  <2>8. ASSUME NEW s \in {0, 1}, NEW j \in 1 .. w - half PROVE Line(d, w, s)[j] = <<0, 0>>
    <3>1. /\ ~(2 * (w - j) + 2 + s <= Len(d)) /\ ~(2 * (w - j) + 1 + s <= Len(d)) /\ j \in 1 .. w
      BY <2>0, <2>1
    <3> QED
      BY <3>1 DEF Line, Recent
  <2> HIDE DEF blanks, first, second, value
  <2>9. blanks \o second = Line(d, w, 0) /\ blanks \o first = Line(d, w, 1)
    <3>1. w - half \in 0 .. w /\ w - (w - half) = half
      BY <2>1
    <3>2. \A s \in {0, 1} : /\ Line(d, w, s) = [j \in 1 .. w |-> Line(d, w, s)[j]]
                            /\ \A j \in 1 .. w : Line(d, w, s)[j] \in Int \X Int
      BY LineIsCells
    <3>3. blanks \o second = Line(d, w, 0)
      BY <2>5, <2>7, <2>8, <3>1, <3>2, BlanksThenCells
    <3>4. blanks \o first = Line(d, w, 1)
      BY <2>6, <2>7, <2>8, <3>1, <3>2, BlanksThenCells
    <3> QED
      BY <3>3, <3>4
  <2>10. value(Len(d) - 1) = Recent(d, 1)
    <3>1. Len(d) - 1 \in Int /\ Len(d) - 1 < Len(d) /\ Len(d) - (Len(d) - 1) = 1
      BY <2>0
    <3> QED
      BY <2>3, <3>1
  <2>11. Drawing(FALSE, [line \in BOOLEAN |-> blanks \o IF line = TRUE THEN second ELSE first], TRUE, value(Len(d) - 1))
         = Picture(d, w, 0, TRUE)
    <3>1. /\ Line(d, w, 0 + 1) = Line(d, w, 1) /\ Recent(d, 1 + 0) = Recent(d, 1)
      OBVIOUS
    <3>2. [line \in BOOLEAN |-> blanks \o IF line = TRUE THEN second ELSE first]
          = [line \in BOOLEAN |-> IF line = TRUE THEN Line(d, w, 0) ELSE Line(d, w, 0 + 1)]
      BY <2>9, <3>1, Zenon
    <3> QED
      BY <2>10, <3>1, <3>2, Zenon DEF Picture
  <2> QED
    BY <1>1, <1>3, <2>2, <2>11
<1> QED
  BY <1>2, <1>3

\* After its first cell, a line that lags two samples is one that lags none,
\* but for the cell of the last samples.
LEMMA LineMoves ==
  ASSUME NEW d \in Seq(Int), NEW w \in Nat \ {0}
  PROVE  Append(Tail(Line(d, w, 2)), <<Recent(d, 2), Recent(d, 1)>>) = Line(d, w, 0)
<1> DEFINE tail == Tail(Line(d, w, 2))
           new == Append(tail, <<Recent(d, 2), Recent(d, 1)>>)
<1>1. \A s \in {0, 2} : /\ Line(d, w, s) = [j \in 1 .. w |-> Line(d, w, s)[j]]
                        /\ \A j \in 1 .. w : Line(d, w, s)[j] \in Int \X Int
  BY LineIsCells
<1>2. \A s \in {0, 2} : Line(d, w, s) \in Seq(Int \X Int) /\ Len(Line(d, w, s)) = w
  <2>1. ASSUME NEW s \in {0, 2} PROVE Line(d, w, s) \in [1 .. w -> Int \X Int]
    BY <1>1
  <2> QED
    BY <2>1, IsSeq
<1>3. Line(d, w, 2) # <<>>
  BY <1>2
<1>4. /\ tail \in Seq(Int \X Int) /\ Len(tail) = w - 1
      /\ \A j \in 1 .. w - 1 : tail[j] = Line(d, w, 2)[j + 1]
  BY <1>2, <1>3, HeadTailProperties
<1>5. <<Recent(d, 2), Recent(d, 1)>> \in Int \X Int
  BY RecentIsNumber
<1> HIDE DEF tail
<1>6. /\ new \in Seq(Int \X Int) /\ Len(new) = w
      /\ \A j \in 1 .. w - 1 : new[j] = tail[j]
      /\ new[w] = <<Recent(d, 2), Recent(d, 1)>>
  <2>1. /\ new \in Seq(Int \X Int) /\ Len(new) = Len(tail) + 1
        /\ \A j \in 1 .. Len(tail) : new[j] = tail[j]
        /\ new[Len(tail) + 1] = <<Recent(d, 2), Recent(d, 1)>>
    BY <1>4, <1>5, AppendProperties
  <2>2. (w - 1) + 1 = w
    OBVIOUS
  <2> QED
    BY <1>4, <2>1, <2>2
<1>7. ASSUME NEW j \in 1 .. w PROVE new[j] = Line(d, w, 0)[j]
  <2>1. CASE j = w
    <3>1. 2 * (w - w) + 2 + 0 = 2 /\ 2 * (w - w) + 1 + 0 = 1 /\ w \in 1 .. w
      OBVIOUS
    <3> QED
      BY <1>6, <2>1, <3>1 DEF Line
  <2>2. CASE j # w
    <3>1. /\ j \in 1 .. w - 1 /\ j + 1 \in 1 .. w
          /\ 2 * (w - (j + 1)) + 2 + 2 = 2 * (w - j) + 2 + 0
          /\ 2 * (w - (j + 1)) + 1 + 2 = 2 * (w - j) + 1 + 0
      BY <2>2
    <3>2. Line(d, w, 2)[j + 1] = Line(d, w, 0)[j]
      BY <3>1 DEF Line
    <3> QED
      BY <1>4, <1>6, <3>1, <3>2
  <2> QED
    BY <2>1, <2>2
<1> HIDE DEF new
<1>8. new = Line(d, w, 0)
  BY <1>2, <1>6, <1>7, SeqEqual
<1> QED
  BY <1>8 DEF new, tail

\* The line a sample goes to, a line without its first cell, and one with a
\* cell more.
NextLine(t, c) == IF t THEN c ELSE ~c
Shorter(f, o) == [f EXCEPT ![o] = Tail(f[o])]
Longer(h, o, e) == [h EXCEPT ![o] = Append(h[o], e)]

\* A sample added to one line.
LEMMA Grown ==
  ASSUME NEW t, NEW h, NEW o, NEW l \in Int, NEW d \in Seq(Int), d # <<>>, h[o] \in Seq(Int \X Int),
         NEW last, last = d[Len(d)]
  PROVE  G!Create(Drawing(t, h, o, l), d, Len(d) - 1) = Drawing(t, Longer(h, o, <<l, last>>), o, last)
<1>1. Len(d) \in Nat \ {0} /\ d[Len(d)] \in Int
  OBVIOUS
<1>2. PICK g : g = Drawing(t, h, o, l)
  OBVIOUS
<1>3. g.cells = h /\ g.current = o /\ g.last = l
  BY ONLY <1>2, Fields
<1> DEFINE offset == Len(d) - 1
           n == Len(d) - offset
           value(i) == IF i < 0 THEN 0 ELSE d[i + 1]
           prior(i) == IF i < 0 THEN 0
                       ELSE IF i > offset \/ (n > 1 /\ i > 0) THEN value(i - 1) ELSE g.last
           all == [k \in 1 .. n |-> <<prior(offset + k - 1), value(offset + k - 1)>>]
<1>5. G!Create(g, d, offset) = [g EXCEPT !.cells[g.current] = @ \o all, !.last = value(Len(d) - 1)]
  <2>1. ~(n > 1)
    BY <1>1
  <2> HIDE DEF offset
  <2> QED
    BY <2>1, Zenon DEF G!Create
<1>6. all = <<<<l, last>>>> /\ value(Len(d) - 1) = last
  <2>1. /\ n = 1 /\ offset \in Int /\ ~(offset < 0) /\ offset + 1 = Len(d) /\ ~(offset > offset)
        /\ Len(d) - 1 = offset
    BY <1>1
  <2> HIDE DEF n, offset
  <2>2. value(offset) = last
    BY <2>1
  <2>3. prior(offset) = l
    BY <1>3, <2>1
  <2>4. offset + 1 - 1 = offset
    BY <2>1
  <2> HIDE DEF value, prior
  <2>5. all = [k \in 1 .. 1 |-> <<l, last>>]
    <3>1. \A k \in 1 .. 1 : k = 1
      OBVIOUS
    <3>2. \A k \in 1 .. 1 : <<prior(offset + k - 1), value(offset + k - 1)>> = <<l, last>>
      BY <2>2, <2>3, <2>4, <3>1, Zenon
    <3> QED
      BY <2>1, <3>2, Zenon
  <2>6. [k \in 1 .. 1 |-> <<l, last>>] = <<<<l, last>>>>
    OBVIOUS
  <2> QED
    BY <2>1, <2>2, <2>5, <2>6
<1> HIDE DEF all, value, prior, n, offset
<1>7. PICK longer : longer = Append(h[o], <<l, last>>)
  OBVIOUS
<1>8. h[o] \o all = longer
  <2>1. <<l, last>> \in Int \X Int
    BY <1>1
  <2>2. PICK s \in Seq(Int \X Int), e \in Int \X Int : s = h[o] /\ e = <<l, last>>
    BY <2>1
  <2>3. s \o <<e>> = Append(s, e)
    OBVIOUS
  <2> QED
    BY <1>6, <1>7, <2>2, <2>3, Zenon
<1>9. PICK k : k = [h EXCEPT ![o] = longer]
  OBVIOUS
<1>10. PICK g1 : g1 = Drawing(t, k, o, l)
  OBVIOUS
<1>11. [g EXCEPT !.cells = k] = g1
  BY ONLY <1>2, <1>10, SetCells
<1>12. [g EXCEPT !.cells[g.current] = @ \o all] = g1
  <2>1. [g.cells EXCEPT ![g.current] = @ \o all] = k
    BY <1>3, <1>8, <1>9, Zenon
  <2> QED
    BY <1>11, <2>1, Zenon
<1>13. [g1 EXCEPT !.last = last] = Drawing(t, k, o, last)
  BY ONLY <1>10, SetLast
<1>14. G!Create(g, d, offset) = Drawing(t, k, o, last)
  BY <1>5, <1>6, <1>12, <1>13, Zenon
<1> QED
  BY <1>2, <1>7, <1>9, <1>14, Zenon DEF offset, Longer

\* The call operator takes the first cell from the line it adds to.
LEMMA Shifted ==
  ASSUME NEW t, NEW f, NEW c, NEW l, NEW d
  PROVE  G!Update(Drawing(t, f, c, l), d)
         = G!Create(Drawing(t, Shorter(f, NextLine(t, c)), NextLine(t, c), l), d, Len(d) - 1)
<1>0. PICK o : o = NextLine(t, c)
  OBVIOUS
<1>3. PICK h : h = [f EXCEPT ![o] = Tail(f[o])]
  OBVIOUS
<1>1. PICK g : g = Drawing(t, f, c, l)
  OBVIOUS
<1>2. g.cells = f /\ g.current = c /\ g.tty = t
  BY ONLY <1>1, Fields
<1>4. PICK g1 : g1 = Drawing(t, h, c, l)
  OBVIOUS
<1>5. [g EXCEPT !.cells = h] = g1
  BY ONLY <1>1, <1>4, SetCells
<1>6. [g1 EXCEPT !.current = o] = Drawing(t, h, o, l)
  BY ONLY <1>4, SetCurrent
<1>7. (IF g.tty THEN g.current ELSE ~g.current) = o
  BY <1>0, <1>2, Zenon DEF NextLine
<1>8. [g EXCEPT !.cells[o] = Tail(@), !.current = o] = Drawing(t, h, o, l)
  <2>1. [g.cells EXCEPT ![o] = Tail(@)] = h
    BY <1>2, <1>3, Zenon
  <2>2. [g EXCEPT !.cells[o] = Tail(@)] = g1
    BY <1>5, <2>1, Zenon
  <2> QED
    BY <1>6, <2>2, Zenon
<1>9. G!Update(g, d) = G!Create(Drawing(t, h, o, l), d, Len(d) - 1)
  BY <1>7, <1>8, Zenon DEF G!Update
<1> QED
  BY <1>0, <1>1, <1>3, <1>9, Zenon DEF Shorter

\* A graph that lags one sample shows it with the next update.
LEMMA UpdateIsPicture ==
  ASSUME NEW d \in Seq(Int), d # <<>>, NEW w \in Nat \ {0}, NEW c \in BOOLEAN
  PROVE  G!Update(Picture(d, w, 1, c), d) = Picture(d, w, 0, ~c)
<1>1. /\ Recent(d, 1) = d[Len(d)] /\ 1 + 1 = 2 /\ 0 + 1 = 1 /\ 1 + 0 = 1
  <2>1. Len(d) \in Nat \ {0}
    OBVIOUS
  <2>2. 1 <= Len(d) /\ Len(d) - 1 + 1 = Len(d)
    BY <2>1
  <2> QED
    BY <2>2 DEF Recent
<1>2. PICK no, o : no = FALSE /\ o = ~c
  OBVIOUS
<1>3. PICK l, last : l = Recent(d, 2) /\ last = d[Len(d)]
  OBVIOUS
<1>4. PICK f : f = [line \in BOOLEAN |-> IF line = c THEN Line(d, w, 1) ELSE Line(d, w, 2)]
  OBVIOUS
<1>5. PICK h : h = [f EXCEPT ![o] = Tail(f[o])]
  OBVIOUS
<1>6. PICK k : k = [h EXCEPT ![o] = Append(h[o], <<l, last>>)]
  OBVIOUS
<1>7. Picture(d, w, 1, c) = Drawing(no, f, c, l)
  BY <1>1, <1>2, <1>3, <1>4, Zenon DEF Picture
<1>8. G!Update(Drawing(no, f, c, l), d) = G!Create(Drawing(no, h, o, l), d, Len(d) - 1)
  <2>1. NextLine(no, c) = o
    BY <1>2, Zenon DEF NextLine
  <2>2. Shorter(f, o) = h
    BY <1>5, Zenon DEF Shorter
  <2>3. G!Update(Drawing(no, f, c, l), d)
        = G!Create(Drawing(no, Shorter(f, NextLine(no, c)), NextLine(no, c), l), d, Len(d) - 1)
    BY ONLY Shifted
  <2> QED
    BY <2>1, <2>2, <2>3, Zenon
<1>9. o \in BOOLEAN /\ o # c /\ \A line \in BOOLEAN : line = o \/ line = c
  BY <1>2
<1>10. f[o] = Line(d, w, 2) /\ f[c] = Line(d, w, 1)
  BY <1>4, <1>9, Zenon
<1>11. /\ Line(d, w, 2) \in Seq(Int \X Int) /\ Tail(Line(d, w, 2)) \in Seq(Int \X Int)
  <2>1. /\ Line(d, w, 2) = [j \in 1 .. w |-> Line(d, w, 2)[j]]
        /\ \A j \in 1 .. w : Line(d, w, 2)[j] \in Int \X Int
    BY LineIsCells
  <2>2. PICK line : line = Line(d, w, 2)
    OBVIOUS
  <2>3. line \in [1 .. w -> Int \X Int]
    BY <2>1, <2>2
  <2>4. line \in Seq(Int \X Int) /\ Len(line) = w
    BY <2>3, IsSeq
  <2>5. line # <<>>
    BY <2>4
  <2> QED
    BY <2>2, <2>4, <2>5, HeadTailProperties
<1>12. h[o] = Tail(Line(d, w, 2)) /\ h[c] = Line(d, w, 1) /\ DOMAIN h = BOOLEAN
  BY <1>4, <1>5, <1>9, <1>10, Zenon
<1>13. G!Create(Drawing(no, h, o, l), d, Len(d) - 1) = Drawing(no, k, o, last)
  <2>1. l \in Int
    BY <1>3, RecentIsNumber
  <2>2. h[o] \in Seq(Int \X Int)
    BY <1>11, <1>12, Zenon
  <2> QED
    <3>1. Longer(h, o, <<l, last>>) = k
      BY <1>6, Zenon DEF Longer
    <3>2. last = d[Len(d)]
      BY <1>3
    <3>3. G!Create(Drawing(no, h, o, l), d, Len(d) - 1) = Drawing(no, Longer(h, o, <<l, last>>), o, last)
      BY ONLY <2>1, <2>2, <3>2, d # <<>>, Grown
    <3> QED
      BY <3>1, <3>3, Zenon
<1>14. k = [line \in BOOLEAN |-> IF line = o THEN Line(d, w, 0) ELSE Line(d, w, 1)]
  <2>1. Append(h[o], <<l, last>>) = Line(d, w, 0)
    BY <1>1, <1>3, <1>12, LineMoves, Zenon
  <2>2. k = [line \in BOOLEAN |-> IF line = o THEN Line(d, w, 0) ELSE h[line]]
    BY <1>6, <1>12, <2>1, Zenon
  <2>3. \A line \in BOOLEAN : line # o => h[line] = Line(d, w, 1)
    BY <1>9, <1>12, Zenon
  <2> QED
    BY <2>2, <2>3, Zenon
<1>15. Picture(d, w, 0, ~c) = Drawing(no, k, o, last)
  BY <1>1, <1>2, <1>3, <1>14, Zenon DEF Picture
<1> QED
  BY <1>7, <1>8, <1>13, <1>15, Zenon

\* A line of tty mode has w cells of two samples too.
LEMMA TtyLineIsCells ==
  ASSUME NEW d \in Seq(Int), NEW w \in Nat, NEW s \in Nat
  PROVE  /\ TtyLine(d, w, s) = [j \in 1 .. w |-> TtyLine(d, w, s)[j]]
         /\ \A j \in 1 .. w : TtyLine(d, w, s)[j] \in Int \X Int
<1>1. \A j \in 1 .. w : (w - j) + 2 + s \in Nat \ {0} /\ (w - j) + 1 + s \in Nat \ {0}
  OBVIOUS
<1> QED
  BY <1>1, RecentIsNumber DEF TtyLine

\* What the constructor takes from the samples in tty mode.
LEMMA TtyTaken ==
  ASSUME NEW len \in Nat \ {0}, NEW w \in Nat \ {0, 1}
  PROVE  LET offset == IF len > w THEN len - w * 1 ELSE 0
             half == IF len > w THEN w ELSE len
         IN  /\ half \in 1 .. w /\ offset \in Nat /\ offset = len - half /\ len - offset = half
             /\ (half < w => offset = 0) /\ (half = 1 => offset = 0)
             /\ (IF len < w THEN w - len ELSE 0) = w - half
<1>1. w * 1 = w
  OBVIOUS
<1>2. CASE len > w
  BY <1>1, <1>2
<1>3. CASE ~(len > w)
  BY <1>3
<1> QED
  BY <1>2, <1>3

\* In tty mode the constructor draws as many samples as there are cells.
LEMMA NewIsTtyPicture ==
  ASSUME NEW d \in Seq(Int), NEW w \in Nat \ {0, 1}
  PROVE  G!New(d, w, TRUE) = TtyPicture(d, w, 0)
<1> DEFINE offset == IF Len(d) > w THEN Len(d) - w * 1 ELSE 0
           blanks == [i \in 1 .. IF Len(d) < w THEN w - Len(d) ELSE 0 |-> <<0, 0>>]
<1>6. PICK yes : yes = TRUE
  OBVIOUS
<1>7. PICK b : b = [line \in BOOLEAN |-> IF line THEN blanks ELSE <<>>]
  OBVIOUS
<1>8. PICK g : g = Drawing(yes, b, yes, 0)
  OBVIOUS
<1>1. /\ yes = TRUE /\ b = [line \in BOOLEAN |-> IF line THEN blanks ELSE <<>>]
      /\ g = Drawing(yes, b, yes, 0)
  BY <1>6, <1>7, <1>8, Zenon
<1>2. G!New(d, w, TRUE) = IF d = <<>> THEN g ELSE G!Create(g, d, offset)
  <2>1. [line \in BOOLEAN |-> IF TRUE /\ ~line THEN <<>> ELSE blanks] = b
    <3> HIDE DEF blanks
    <3> QED
      BY <1>1, Zenon
  <2> QED
    BY <1>1, <2>1, Zenon DEF G!New, G!Blank, Drawing
<1>3. TtyPicture(d, w, 0) = Drawing(yes, [x \in BOOLEAN |-> IF x THEN TtyLine(d, w, 0) ELSE <<>>], yes, Recent(d, 1))
  <2>1. 1 + 0 = 1
    OBVIOUS
  <2> QED
    BY <1>1, <2>1, Zenon DEF TtyPicture
<1>4. CASE d = <<>>
  <2>1. Len(d) = 0
    BY <1>4
  <2>2. blanks = [j \in 1 .. w |-> <<0, 0>>]
    BY <2>1
  <2>3. TtyLine(d, w, 0) = [j \in 1 .. w |-> <<0, 0>>]
    <3>1. \A j \in 1 .. w : ~((w - j) + 2 + 0 <= 0) /\ ~((w - j) + 1 + 0 <= 0)
      OBVIOUS
    <3> QED
      BY <2>1, <3>1 DEF TtyLine, Recent
  <2>4. Recent(d, 1) = 0
    BY <2>1 DEF Recent
  <2> HIDE DEF blanks
  <2> QED
    BY <1>1, <1>2, <1>3, <1>4, <2>2, <2>3, <2>4, Zenon
<1>5. CASE d # <<>>
  <2> DEFINE half == IF Len(d) > w THEN w ELSE Len(d)
             n == Len(d) - offset
             value(i) == IF i < 0 THEN 0 ELSE d[i + 1]
             prior(i) == IF i < 0 THEN 0
                         ELSE IF i > offset \/ (n > 1 /\ i > 0) THEN value(i - 1) ELSE g.last
             cell(i) == <<prior(i), value(i)>>
             all == [k \in 1 .. n |-> cell(offset + k - 1)]
  <2>0. Len(d) \in Nat \ {0} /\ g.last = 0 /\ g.cells = b /\ g.current = yes /\ g.tty = yes
    <3>1. g.last = 0 /\ g.cells = b /\ g.current = yes /\ g.tty = yes
      BY ONLY <1>8, Fields
    <3>2. Len(d) \in Nat \ {0}
      BY <1>5
    <3> QED
      BY <3>1, <3>2, Zenon
  <2>1. /\ half \in 1 .. w /\ offset \in Nat /\ offset = Len(d) - half /\ n = half
        /\ (half < w => offset = 0) /\ (half = 1 => offset = 0)
        /\ (IF Len(d) < w THEN w - Len(d) ELSE 0) = w - half
    <3>1. PICK len \in Nat \ {0} : len = Len(d)
      BY <2>0
    <3> QED
      BY <3>1, TtyTaken, Zenon
  <2>2. G!Create(g, d, offset) = [g EXCEPT !.cells[g.current] = @ \o all, !.last = value(Len(d) - 1)]
    <3>1. g.tty
      BY <1>1, <2>0
    <3> HIDE DEF offset
    <3> QED
      BY <3>1, Zenon DEF G!Create
  <2> HIDE DEF half, offset
  <2>3. ASSUME NEW i \in Int, i < Len(d) PROVE value(i) = Recent(d, Len(d) - i)
    BY <2>0, <2>3 DEF Recent
  <2>4. ASSUME NEW i \in Int, offset <= i, i < Len(d)
        PROVE  cell(i) = <<Recent(d, Len(d) - i + 1), Recent(d, Len(d) - i)>>
    <3>1. value(i) = Recent(d, Len(d) - i)
      BY <2>3, <2>4
    <3>2. value(i - 1) = Recent(d, Len(d) - (i - 1)) /\ Len(d) - (i - 1) = Len(d) - i + 1
      <4>1. i - 1 \in Int /\ i - 1 < Len(d) /\ Len(d) - (i - 1) = Len(d) - i + 1
        BY <2>0, <2>4
      <4> HIDE DEF value
      <4> QED
        BY <2>3, <4>1
    <3>3. prior(i) = value(i - 1)
      <4>1. PICK m \in Nat : m = offset
        BY <2>1
      <4>2. m <= i /\ n = half /\ (half = 1 => m = 0) /\ half \in Nat \ {0}
        BY <2>1, <2>4, <4>1
      <4>3. CASE i < 0
        BY <4>2, <4>3
      <4>4. CASE i = 0
        <5>1. m = 0 /\ ~(i > offset) /\ ~(i < 0) /\ ~(i > 0) /\ i - 1 < 0
          BY <4>1, <4>2, <4>4
        <5>2. g.last = 0
          BY <2>0, Zenon
        <5> HIDE DEF n
        <5> QED
          BY ONLY <5>1, <5>2
      <4>5. CASE i > 0
        <5>1. i > offset \/ n > 1
          <6> HIDE DEF n
          <6> QED
            BY <4>1, <4>2, <4>5
        <5>2. ~(i < 0) /\ (i > offset \/ (n > 1 /\ i > 0))
          <6> HIDE DEF n
          <6> QED
            BY <4>5, <5>1
        <5> HIDE DEF n, value
        <5> QED
          BY ONLY <5>2
      <4> QED
        BY <4>3, <4>4, <4>5
    <3> HIDE DEF value, prior
    <3> QED
      BY <3>1, <3>2, <3>3
  <2>5. all = [k \in 1 .. half |-> TtyLine(d, w, 0)[(w - half) + k]]
    <3>1. ASSUME NEW k \in 1 .. half PROVE cell(offset + k - 1) = TtyLine(d, w, 0)[(w - half) + k]
      <4>1. /\ offset + k - 1 \in Int /\ offset <= offset + k - 1 /\ offset + k - 1 < Len(d)
            /\ Len(d) - (offset + k - 1) = (w - ((w - half) + k)) + 1 + 0
            /\ Len(d) - (offset + k - 1) + 1 = (w - ((w - half) + k)) + 2 + 0
            /\ (w - half) + k \in 1 .. w
        BY <2>0, <2>1
      <4> HIDE DEF cell
      <4> QED
        BY <2>4, <4>1 DEF TtyLine
    <3> HIDE DEF cell, n
    <3> QED
      BY <2>1, <3>1
  <2>6. blanks = [i \in 1 .. w - half |-> <<0, 0>>]
    BY <2>1
  <2>7. ASSUME NEW j \in 1 .. w - half PROVE TtyLine(d, w, 0)[j] = <<0, 0>>
    <3>1. /\ ~((w - j) + 2 + 0 <= Len(d)) /\ ~((w - j) + 1 + 0 <= Len(d)) /\ j \in 1 .. w
      <4>1. Len(d) = half /\ half \in Nat
        <5>1. half < w
          BY <2>1
        <5> QED
          BY <2>1, <5>1, Len(d) \in Nat
      <4> QED
        BY <4>1
    <3> QED
      BY <3>1 DEF TtyLine, Recent
  <2>8. value(Len(d) - 1) = Recent(d, 1)
    <3>1. Len(d) - 1 \in Int /\ Len(d) - 1 < Len(d) /\ Len(d) - (Len(d) - 1) = 1
      BY <2>0
    <3> QED
      BY <2>3, <3>1
  <2> HIDE DEF blanks, all, value
  <2>9. blanks \o all = TtyLine(d, w, 0)
    <3>1. w - half \in 0 .. w /\ w - (w - half) = half
      BY <2>1
    <3>2. /\ TtyLine(d, w, 0) = [j \in 1 .. w |-> TtyLine(d, w, 0)[j]]
          /\ \A j \in 1 .. w : TtyLine(d, w, 0)[j] \in Int \X Int
      BY TtyLineIsCells
    <3> QED
      BY <2>5, <2>6, <2>7, <3>1, <3>2, BlanksThenCells
  <2>16. PICK k : k = [x \in BOOLEAN |-> IF x THEN TtyLine(d, w, 0) ELSE <<>>]
    OBVIOUS
  <2>17. PICK last : last = Recent(d, 1)
    OBVIOUS
  <2>18. PICK g1 : g1 = Drawing(yes, k, yes, 0)
    OBVIOUS
  <2>11. [g EXCEPT !.cells = k] = g1
    BY ONLY <1>8, <2>18, SetCells
  <2>12. [g.cells EXCEPT ![g.current] = @ \o all] = k
    <3>1. b[yes] = blanks /\ DOMAIN b = BOOLEAN /\ yes \in BOOLEAN
      BY <1>1, Zenon
    <3>2. [b EXCEPT ![yes] = @ \o all] = [x \in BOOLEAN |-> IF x = yes THEN TtyLine(d, w, 0) ELSE b[x]]
      BY <1>1, <2>9, <3>1, Zenon
    <3>3. \A x \in BOOLEAN : (IF x = yes THEN TtyLine(d, w, 0) ELSE b[x]) = IF x THEN TtyLine(d, w, 0) ELSE <<>>
      BY <1>1, Zenon
    <3> QED
      BY <2>0, <2>16, <3>2, <3>3, Zenon
  <2>13. [g EXCEPT !.cells[g.current] = @ \o all] = g1
    BY <2>11, <2>12, Zenon
  <2>14. [g1 EXCEPT !.last = last] = Drawing(yes, k, yes, last)
    BY ONLY <2>18, SetLast
  <2>15. G!Create(g, d, offset) = Drawing(yes, k, yes, last)
    BY <2>2, <2>8, <2>13, <2>14, <2>17, Zenon
  <2> QED
    BY <1>2, <1>3, <1>5, <2>15, <2>16, <2>17, Zenon
<1> QED
  BY <1>4, <1>5

\* After its first cell, a line of tty mode that lags one sample is one that
\* lags none, but for the cell of the last samples.
LEMMA TtyLineMoves ==
  ASSUME NEW d \in Seq(Int), NEW w \in Nat \ {0}
  PROVE  /\ Append(Tail(TtyLine(d, w, 1)), <<Recent(d, 2), Recent(d, 1)>>) = TtyLine(d, w, 0)
         /\ Tail(TtyLine(d, w, 1)) \in Seq(Int \X Int)
<1> DEFINE tail == Tail(TtyLine(d, w, 1))
           new == Append(tail, <<Recent(d, 2), Recent(d, 1)>>)
<1>1. \A s \in {0, 1} : /\ TtyLine(d, w, s) = [j \in 1 .. w |-> TtyLine(d, w, s)[j]]
                        /\ \A j \in 1 .. w : TtyLine(d, w, s)[j] \in Int \X Int
  BY TtyLineIsCells
<1>2. \A s \in {0, 1} : TtyLine(d, w, s) \in Seq(Int \X Int) /\ Len(TtyLine(d, w, s)) = w
  <2>1. ASSUME NEW s \in {0, 1} PROVE TtyLine(d, w, s) \in [1 .. w -> Int \X Int]
    BY <1>1
  <2> QED
    BY <2>1, IsSeq
<1>3. TtyLine(d, w, 1) # <<>>
  BY <1>2
<1>4. /\ tail \in Seq(Int \X Int) /\ Len(tail) = w - 1
      /\ \A j \in 1 .. w - 1 : tail[j] = TtyLine(d, w, 1)[j + 1]
  BY <1>2, <1>3, HeadTailProperties
<1>5. <<Recent(d, 2), Recent(d, 1)>> \in Int \X Int
  BY RecentIsNumber
<1> HIDE DEF tail
<1>6. /\ new \in Seq(Int \X Int) /\ Len(new) = w
      /\ \A j \in 1 .. w - 1 : new[j] = tail[j]
      /\ new[w] = <<Recent(d, 2), Recent(d, 1)>>
  <2>1. /\ new \in Seq(Int \X Int) /\ Len(new) = Len(tail) + 1
        /\ \A j \in 1 .. Len(tail) : new[j] = tail[j]
        /\ new[Len(tail) + 1] = <<Recent(d, 2), Recent(d, 1)>>
    BY <1>4, <1>5, AppendProperties
  <2>2. (w - 1) + 1 = w
    OBVIOUS
  <2> QED
    BY <1>4, <2>1, <2>2
<1>7. ASSUME NEW j \in 1 .. w PROVE new[j] = TtyLine(d, w, 0)[j]
  <2>1. CASE j = w
    <3>1. (w - w) + 2 + 0 = 2 /\ (w - w) + 1 + 0 = 1 /\ w \in 1 .. w
      OBVIOUS
    <3> QED
      BY <1>6, <2>1, <3>1 DEF TtyLine
  <2>2. CASE j # w
    <3>1. /\ j \in 1 .. w - 1 /\ j + 1 \in 1 .. w
          /\ (w - (j + 1)) + 2 + 1 = (w - j) + 2 + 0
          /\ (w - (j + 1)) + 1 + 1 = (w - j) + 1 + 0
      BY <2>2
    <3>2. TtyLine(d, w, 1)[j + 1] = TtyLine(d, w, 0)[j]
      BY <3>1 DEF TtyLine
    <3> QED
      BY <1>4, <1>6, <3>1, <3>2
  <2> QED
    BY <2>1, <2>2
<1> HIDE DEF new
<1>8. new = TtyLine(d, w, 0)
  BY <1>2, <1>6, <1>7, SeqEqual
<1> QED
  BY <1>4, <1>8 DEF new, tail

\* So does the graph of tty mode.
LEMMA UpdateIsTtyPicture ==
  ASSUME NEW d \in Seq(Int), d # <<>>, NEW w \in Nat \ {0, 1}
  PROVE  G!Update(TtyPicture(d, w, 1), d) = TtyPicture(d, w, 0)
<1>1. /\ Recent(d, 1) = d[Len(d)] /\ 1 + 1 = 2 /\ 1 + 0 = 1
  <2>1. Len(d) \in Nat \ {0}
    OBVIOUS
  <2>2. 1 <= Len(d) /\ Len(d) - 1 + 1 = Len(d)
    BY <2>1
  <2> QED
    BY <2>2 DEF Recent
<1>2. PICK o, l, last : o = TRUE /\ l = Recent(d, 2) /\ last = d[Len(d)]
  OBVIOUS
<1>3. PICK f : f = [line \in BOOLEAN |-> IF line THEN TtyLine(d, w, 1) ELSE <<>>]
  OBVIOUS
<1>4. PICK h : h = [f EXCEPT ![o] = Tail(f[o])]
  OBVIOUS
<1>5. PICK k : k = [h EXCEPT ![o] = Append(h[o], <<l, last>>)]
  OBVIOUS
<1>6. TtyPicture(d, w, 1) = Drawing(o, f, o, l)
  BY <1>1, <1>2, <1>3, Zenon DEF TtyPicture
<1>7. G!Update(Drawing(o, f, o, l), d) = G!Create(Drawing(o, h, o, l), d, Len(d) - 1)
  <2>1. NextLine(o, o) = o
    BY <1>2, Zenon DEF NextLine
  <2>2. Shorter(f, o) = h
    BY <1>4, Zenon DEF Shorter
  <2>3. G!Update(Drawing(o, f, o, l), d)
        = G!Create(Drawing(o, Shorter(f, NextLine(o, o)), NextLine(o, o), l), d, Len(d) - 1)
    BY ONLY Shifted
  <2> QED
    BY <2>1, <2>2, <2>3, Zenon
<1>8. o \in BOOLEAN /\ f[o] = TtyLine(d, w, 1)
  BY <1>2, <1>3, Zenon
<1>9. h[o] = Tail(TtyLine(d, w, 1)) /\ DOMAIN h = BOOLEAN
  BY <1>3, <1>4, <1>8, Zenon
<1>10. G!Create(Drawing(o, h, o, l), d, Len(d) - 1) = Drawing(o, k, o, last)
  <2>1. l \in Int
    BY <1>2, RecentIsNumber
  <2>2. h[o] \in Seq(Int \X Int)
    <3>1. Tail(TtyLine(d, w, 1)) \in Seq(Int \X Int)
      BY TtyLineMoves
    <3> QED
      BY <1>9, <3>1, Zenon
  <2> QED
    <3>1. Longer(h, o, <<l, last>>) = k
      BY <1>5, Zenon DEF Longer
    <3>2. last = d[Len(d)]
      BY <1>2
    <3>3. G!Create(Drawing(o, h, o, l), d, Len(d) - 1) = Drawing(o, Longer(h, o, <<l, last>>), o, last)
      BY ONLY <2>1, <2>2, <3>2, d # <<>>, Grown
    <3> QED
      BY <3>1, <3>3, Zenon
<1>11. k = [line \in BOOLEAN |-> IF line THEN TtyLine(d, w, 0) ELSE <<>>]
  <2>1. Append(Tail(TtyLine(d, w, 1)), <<Recent(d, 2), Recent(d, 1)>>) = TtyLine(d, w, 0)
    BY TtyLineMoves
  <2>2. Append(h[o], <<l, last>>) = TtyLine(d, w, 0)
    BY <1>1, <1>2, <1>9, <2>1, Zenon
  <2>3. k = [line \in BOOLEAN |-> IF line = o THEN TtyLine(d, w, 0) ELSE h[line]]
    BY <1>5, <1>9, <2>2, Zenon
  <2>4. \A line \in BOOLEAN : ~line => line # o /\ h[line] = <<>>
    <3>1. ASSUME NEW line \in BOOLEAN, ~line PROVE line # o /\ h[line] = <<>>
      <4>1. line # o
        BY <1>2, <3>1, Zenon
      <4>2. h[line] = f[line]
        BY <1>3, <1>4, <4>1, Zenon
      <4> QED
        BY <1>3, <3>1, <4>1, <4>2, Zenon
    <3> QED
      BY <3>1, Zenon
  <2>5. \A line \in BOOLEAN : line => line = o
    BY <1>2, Zenon
  <2>6. \A line \in BOOLEAN : (IF line = o THEN TtyLine(d, w, 0) ELSE h[line]) = IF line THEN TtyLine(d, w, 0) ELSE <<>>
    BY <2>4, <2>5, Zenon
  <2> QED
    BY <2>3, <2>6, Zenon
<1>12. TtyPicture(d, w, 0) = Drawing(o, k, o, last)
  BY <1>1, <1>2, <1>11, Zenon DEF TtyPicture
<1> QED
  BY <1>6, <1>7, <1>10, <1>12, Zenon

\* A sample moves the others back by one, and the deque is cut where the
\* graph does not reach.
LEMMA SampleAdded ==
  ASSUME data \in Seq(Int), width \in Nat \ {0}, NEW x \in Int
  PROVE  LET e == G!Trimmed(Append(data, x))
         IN  /\ e \in Seq(Int) /\ e # <<>>
             /\ \A c \in BOOLEAN : Picture(e, width, 1, c) = Picture(data, width, 0, c)
             /\ TtyPicture(e, width, 1) = TtyPicture(data, width, 0)
<1> DEFINE a == Append(data, x)
           e == G!Trimmed(a)
<1>1. /\ a \in Seq(Int) /\ Len(a) = Len(data) + 1 /\ a[Len(a)] = x /\ Len(data) \in Nat
      /\ \A i \in 1 .. Len(data) : a[i] = data[i]
  BY AppendProperties
<1>0. e = IF Len(a) > 2 * (width + 1) THEN SubSeq(a, Len(a) - 2 * (width + 1) + 1, Len(a)) ELSE a
  BY Zenon DEF G!Trimmed, G!Limit
<1> HIDE DEF a, e
<1>2. ASSUME NEW k \in Nat \ {0} PROVE Recent(a, k + 1) = Recent(data, k)
  <2>1. (k + 1 <= Len(a)) <=> (k <= Len(data))
    BY <1>1
  <2>2. k <= Len(data) => Len(a) - (k + 1) + 1 = Len(data) - k + 1 /\ Len(data) - k + 1 \in 1 .. Len(data)
    BY <1>1
  <2> QED
    BY <1>1, <2>1, <2>2 DEF Recent
<1>3. e \in Seq(Int) /\ e # <<>> /\ \A k \in 1 .. 2 * (width + 1) : Recent(e, k) = Recent(a, k)
  <2>1. CASE Len(a) > 2 * (width + 1)
    <3> DEFINE from == Len(a) - 2 * (width + 1) + 1
    <3>1. e = SubSeq(a, from, Len(a))
      BY <1>0, <2>1
    <3>2. from \in 1 .. Len(a) /\ Len(a) - from + 1 = 2 * (width + 1) /\ from <= Len(a) + 1
      <4> DEFINE m == 2 * (width + 1)
      <4>1. m \in Nat \ {0} /\ Len(a) \in Nat /\ from = Len(a) - m + 1 /\ Len(a) > m
        BY <1>1, <2>1
      <4> HIDE DEF from, m
      <4>2. from \in 1 .. Len(a) /\ Len(a) - from + 1 = m /\ from <= Len(a) + 1
        BY <4>1
      <4> QED
        BY <4>2 DEF m
    <3> HIDE DEF from
    <3>3. /\ e \in Seq(Int) /\ Len(e) = 2 * (width + 1)
          /\ \A i \in 1 .. 2 * (width + 1) : e[i] = a[from + i - 1]
      <4>1. from \in Int /\ Len(a) \in Int /\ from <= Len(a) /\ \A i \in from .. Len(a) : a[i] \in Int
        BY <1>1, <3>2
      <4>2. /\ SubSeq(a, from, Len(a)) \in Seq(Int)
            /\ Len(SubSeq(a, from, Len(a))) = IF from <= Len(a) THEN Len(a) - from + 1 ELSE 0
            /\ \A i \in 1 .. Len(a) - from + 1 : SubSeq(a, from, Len(a))[i] = a[from + i - 1]
        BY <4>1, SubSeqProperties
      <4> QED
        BY <3>1, <3>2, <4>1, <4>2
    <3>4. ASSUME NEW k \in 1 .. 2 * (width + 1) PROVE Recent(e, k) = Recent(a, k)
      <4>1. from = Len(a) - 2 * (width + 1) + 1 /\ Len(e) = 2 * (width + 1)
        BY <3>3 DEF from
      <4>2. /\ k <= Len(e) /\ k <= Len(a) /\ Len(e) - k + 1 \in 1 .. 2 * (width + 1)
            /\ from + (Len(e) - k + 1) - 1 = Len(a) - k + 1
        <5> DEFINE m == 2 * (width + 1)
        <5>1. m \in Nat /\ k \in 1 .. m /\ from = Len(a) - m + 1 /\ Len(e) = m /\ Len(a) > m
          BY <2>1, <4>1
        <5> HIDE DEF m
        <5>2. /\ k <= m /\ k <= Len(a) /\ m - k + 1 \in 1 .. m
              /\ from + (m - k + 1) - 1 = Len(a) - k + 1
          BY <1>1, <5>1
        <5> QED
          BY <5>1, <5>2 DEF m
      <4>3. e[Len(e) - k + 1] = a[Len(a) - k + 1]
        <5>1. PICK i \in 1 .. 2 * (width + 1) : i = Len(e) - k + 1
          BY <4>2
        <5>2. e[i] = a[from + i - 1] /\ from + i - 1 = Len(a) - k + 1
          BY <3>3, <4>2, <5>1
        <5> QED
          BY <5>1, <5>2
      <4>4. Recent(e, k) = e[Len(e) - k + 1] /\ Recent(a, k) = a[Len(a) - k + 1]
        BY <4>2 DEF Recent
      <4> QED
        BY <4>3, <4>4
    <3>5. e # <<>>
      <4>1. 2 * (width + 1) # 0
        OBVIOUS
      <4> QED
        BY <3>3, <4>1
    <3> QED
      BY <3>3, <3>4, <3>5
  <2>2. CASE ~(Len(a) > 2 * (width + 1))
    <3>1. e = a
      BY <1>0, <2>2
    <3>2. e # <<>>
      BY <1>1, <3>1
    <3> QED
      BY <1>1, <3>1, <3>2
  <2> QED
    BY <2>1, <2>2
<1>4. ASSUME NEW k \in 1 .. 2 * width + 1 PROVE Recent(e, k + 1) = Recent(data, k)
  <2>1. k + 1 \in 1 .. 2 * (width + 1) /\ k \in Nat \ {0}
    OBVIOUS
  <2> QED
    BY <1>2, <1>3, <2>1
<1>5. Line(e, width, 1) = Line(data, width, 0) /\ Line(e, width, 2) = Line(data, width, 1)
  <2>1. ASSUME NEW j \in 1 .. width, NEW s \in {0, 1}
        PROVE  Line(e, width, s + 1)[j] = Line(data, width, s)[j]
    <3>1. /\ 2 * (width - j) + 2 + s \in 1 .. 2 * width + 1 /\ 2 * (width - j) + 1 + s \in 1 .. 2 * width + 1
          /\ 2 * (width - j) + 2 + (s + 1) = (2 * (width - j) + 2 + s) + 1
          /\ 2 * (width - j) + 1 + (s + 1) = (2 * (width - j) + 1 + s) + 1
      OBVIOUS
    <3> QED
      BY <1>4, <3>1 DEF Line
  <2>2. 0 + 1 = 1 /\ 1 + 1 = 2
    OBVIOUS
  <2>3. \A j \in 1 .. width : Line(e, width, 1)[j] = Line(data, width, 0)[j] /\ Line(e, width, 2)[j] = Line(data, width, 1)[j]
    BY <2>1, <2>2
  <2>4. /\ Line(e, width, 1) = [j \in 1 .. width |-> Line(e, width, 1)[j]] /\ Line(e, width, 2) = [j \in 1 .. width |-> Line(e, width, 2)[j]]
        /\ Line(data, width, 0) = [j \in 1 .. width |-> Line(data, width, 0)[j]] /\ Line(data, width, 1) = [j \in 1 .. width |-> Line(data, width, 1)[j]]
    BY <1>3, LineIsCells
  <2> QED
    BY <2>3, <2>4
<1>6. Recent(e, 2) = Recent(data, 1)
  <2>1. 1 \in 1 .. 2 * width + 1 /\ 1 + 1 = 2
    OBVIOUS
  <2> QED
    BY <1>4, <2>1
<1>7. ASSUME NEW c \in BOOLEAN PROVE Picture(e, width, 1, c) = Picture(data, width, 0, c)
  <2>1. 0 + 1 = 1 /\ 1 + 1 = 2 /\ 1 + 0 = 1
    OBVIOUS
  <2> QED
    BY <1>5, <1>6, <2>1, Zenon DEF Picture
<1>8. TtyLine(e, width, 1) = TtyLine(data, width, 0)
  <2>1. ASSUME NEW j \in 1 .. width PROVE TtyLine(e, width, 1)[j] = TtyLine(data, width, 0)[j]
    <3>1. /\ (width - j) + 2 + 0 \in 1 .. 2 * width + 1 /\ (width - j) + 1 + 0 \in 1 .. 2 * width + 1
          /\ (width - j) + 2 + 1 = ((width - j) + 2 + 0) + 1
          /\ (width - j) + 1 + 1 = ((width - j) + 1 + 0) + 1
      OBVIOUS
    <3> QED
      BY <1>4, <3>1 DEF TtyLine
  <2>2. /\ TtyLine(e, width, 1) = [j \in 1 .. width |-> TtyLine(e, width, 1)[j]]
        /\ TtyLine(data, width, 0) = [j \in 1 .. width |-> TtyLine(data, width, 0)[j]]
    BY <1>3, TtyLineIsCells
  <2> QED
    BY <2>1, <2>2
<1>9. TtyPicture(e, width, 1) = TtyPicture(data, width, 0)
  <2>1. 1 + 1 = 2 /\ 1 + 0 = 1
    OBVIOUS
  <2> QED
    BY <1>6, <1>8, <2>1, Zenon DEF TtyPicture
<1> QED
  BY <1>3, <1>7, <1>9 DEF e, a

-----------------------------------------------------------------------------
\* A graph that is not owed a new one shows all samples; between a collect
\* and its draw it lags the one just taken.
GraphTypes ==
  /\ data \in Seq(Int) /\ width \in Widths /\ box \in {"cpu", "mem", "net"} /\ taken \in Nat
  /\ tty \in BOOLEAN /\ menu \in BOOLEAN
  /\ gRunner \in {"idle", "queued", "collect", "draw", "done"}
  /\ gMain \in [at : {"run", "input"}, same : BOOLEAN, force : BOOLEAN]
  /\ gConf \in [same : BOOLEAN, force : BOOLEAN, pauses : BOOLEAN]
GraphOwed ==
  \/ redraw \/ missed \/ gPaused
  \/ gMain.at = "run" /\ gMain.force
  \/ gRunner \in {"queued", "collect", "draw"} /\ gConf.force
GraphLag == IF gRunner = "draw" /\ ~gConf.same THEN 1 ELSE 0
GraphDrawn ==
  IF tty THEN graph = TtyPicture(data, width, GraphLag)
  ELSE \E c \in BOOLEAN : graph = Picture(data, width, GraphLag, c)
\* Without samples the cpu and mem boxes have never been drawn, and a draw
\* with a sample to add has one, unless it is to show the last one again
\* or to build the graph.
GraphFed ==
  /\ box \in {"cpu", "mem"} /\ data = <<>> => redraw
  /\ gRunner = "draw" /\ box \in {"cpu", "mem"} => data # <<>>
  /\ gRunner = "draw" /\ ~gConf.same => data # <<>> \/ missed \/ redraw
GraphInv == GraphTypes /\ GraphFed /\ (GraphOwed \/ GraphDrawn)

\* When a session starts, the graph is to be built.
LEMMA GraphStart ==
  ScreenInit => GraphInv
<1> SUFFICES ASSUME ScreenInit PROVE GraphInv
  OBVIOUS
<1>1. G!Init /\ Widths \subseteq Nat \ {0, 1}
  BY ScreenAssumption DEF ScreenAssumption, G!GraphAssumption, ScreenInit
<1>2. width \in Nat \ {0, 1}
  BY <1>1 DEF G!Init
<1>3. G!Full \in Seq(Int)
  <2> DEFINE n == 2 * (width + 1)
  <2>1. n \in Nat
    BY <1>2
  <2>2. G!Full = [i \in 1 .. n |-> i - n - 1]
    BY DEF G!Full, G!Limit
  <2> HIDE DEF n
  <2>3. [i \in 1 .. n |-> i - n - 1] \in [1 .. n -> Int]
    BY <2>1
  <2> QED
    BY <2>1, <2>2, <2>3, IsSeq
<1>4. <<>> \in Seq(Int)
  OBVIOUS
<1>5. GraphTypes
  BY <1>1, <1>3, <1>4 DEF G!Init, GraphTypes
<1>6. GraphFed /\ GraphOwed
  BY <1>1 DEF G!Init, GraphFed, GraphOwed
<1> QED
  BY <1>5, <1>6 DEF GraphInv

\* A graph that is built anew shows all samples.
LEMMA Rebuilt ==
  ASSUME GraphTypes, G!Rebuild, gRunner' = "done", UNCHANGED <<tty, data, width>>
  PROVE  GraphDrawn'
<1>1. data \in Seq(Int) /\ width \in Nat \ {0, 1} /\ width \in Nat \ {0} /\ tty \in BOOLEAN
  BY ScreenAssumption DEF ScreenAssumption, G!GraphAssumption, GraphTypes
<1>2. graph' = G!New(data, width, tty)
  BY DEF G!Rebuild
<1>3. GraphLag' = 0 /\ data' = data /\ width' = width /\ tty' = tty
  BY DEF GraphLag
<1>4. CASE tty
  <2>1. G!New(data, width, tty) = G!New(data, width, TRUE)
    BY <1>4, Zenon
  <2>2. graph' = TtyPicture(data, width, 0)
    BY <1>1, <1>2, <2>1, NewIsTtyPicture, Zenon
  <2> QED
    BY <1>3, <1>4, <2>2, Zenon DEF GraphDrawn
<1>5. CASE ~tty
  <2>1. G!New(data, width, tty) = G!New(data, width, FALSE)
    <3>1. tty = FALSE
      BY <1>1, <1>5
    <3> QED
      BY <3>1, Zenon
  <2>2. graph' = Picture(data, width, 0, TRUE)
    BY <1>1, <1>2, <2>1, NewIsPicture, Zenon
  <2>3. graph' = Picture(data', width', GraphLag', TRUE)
    BY <1>3, <2>2, Zenon
  <2>4. ~tty'
    BY <1>3, <1>5
  <2> QED
    BY <2>3, <2>4 DEF GraphDrawn
<1> QED
  BY <1>4, <1>5

\* So does one that gets the sample it lags.
LEMMA Updated ==
  ASSUME GraphTypes, GraphDrawn, gRunner = "draw", ~gConf.same => data # <<>>,
         graph' = IF gConf.same THEN graph ELSE G!Update(graph, data),
         gRunner' = "done", UNCHANGED <<tty, data, width>>
  PROVE  GraphDrawn'
<1>1. data \in Seq(Int) /\ width \in Nat \ {0, 1} /\ width \in Nat \ {0}
  BY ScreenAssumption DEF ScreenAssumption, G!GraphAssumption, GraphTypes
<1>2. GraphLag' = 0 /\ data' = data /\ width' = width /\ tty' = tty
  BY DEF GraphLag
<1>3. CASE gConf.same
  <2>1. GraphLag = 0 /\ graph' = graph
    BY <1>3 DEF GraphLag
  <2>2. CASE tty
    <3>1. graph' = TtyPicture(data', width', GraphLag') /\ tty'
      BY <1>2, <2>1, <2>2, Zenon DEF GraphDrawn
    <3> QED
      BY <3>1, Zenon DEF GraphDrawn
  <2>3. CASE ~tty
    <3>1. PICK c \in BOOLEAN : graph = Picture(data, width, 0, c)
      BY <2>1, <2>3, Zenon DEF GraphDrawn
    <3>2. graph' = Picture(data', width', GraphLag', c)
      BY <1>2, <2>1, <3>1, Zenon
    <3>3. ~tty'
      BY <1>2, <2>3
    <3> QED
      BY <3>2, <3>3 DEF GraphDrawn
  <2> QED
    BY <2>2, <2>3
<1>4. CASE ~gConf.same
  <2>1. GraphLag = 1 /\ graph' = G!Update(graph, data) /\ data # <<>>
    BY <1>4 DEF GraphLag
  <2>2. CASE tty
    <3>1. graph = TtyPicture(data, width, 1)
      BY <2>1, <2>2, Zenon DEF GraphDrawn
    <3>2. G!Update(TtyPicture(data, width, 1), data) = TtyPicture(data, width, 0)
      BY <1>1, <2>1, UpdateIsTtyPicture, Zenon
    <3> QED
      BY <1>2, <2>1, <2>2, <3>1, <3>2, Zenon DEF GraphDrawn
  <2>3. CASE ~tty
    <3>1. PICK c \in BOOLEAN : graph = Picture(data, width, 1, c)
      BY <2>1, <2>3, Zenon DEF GraphDrawn
    <3>2. graph' = Picture(data, width, 0, ~c)
      BY <1>1, <2>1, <3>1, UpdateIsPicture
    <3>3. PICK o \in BOOLEAN : o = ~c
      OBVIOUS
    <3>4. graph' = Picture(data', width', GraphLag', o)
      BY <1>2, <3>2, <3>3, Zenon
    <3>5. ~tty'
      BY <1>2, <2>3
    <3> QED
      BY <3>4, <3>5 DEF GraphDrawn
  <2> QED
    BY <2>2, <2>3
<1> QED
  BY <1>3, <1>4

\* Each step keeps the types, and that who draws has something to draw.
LEMMA GraphTypesStep ==
  ASSUME GraphTypes, GraphFed, G!Next
  PROVE  GraphTypes' /\ GraphFed'
<1> USE DEF GraphTypes, GraphFed, G!Input, G!Idle, G!Sample, G!AskRun, G!Waiting
<1>1. CASE G!Run
  <2>1. UNCHANGED <<box, tty, width, data, redraw, menu, taken>> /\ gRunner' = "queued"
    BY <1>1 DEF G!Run
  <2>2. gMain' \in [at : {"run", "input"}, same : BOOLEAN, force : BOOLEAN]
    BY <1>1 DEF G!Run
  <2>3. gMain.same \in BOOLEAN /\ gMain.force \in BOOLEAN
    OBVIOUS
  <2>4. PICK p \in {FALSE, menu} : gConf' = [same |-> gMain.same, force |-> gMain.force, pauses |-> p]
    BY <1>1, Zenon DEF G!Run
  <2>5. p \in BOOLEAN
    OBVIOUS
  <2>6. gConf' \in [same : BOOLEAN, force : BOOLEAN, pauses : BOOLEAN]
    BY <2>3, <2>4, <2>5
  <2> QED
    BY <2>1, <2>2, <2>6
<1>2. CASE G!Due
  BY <1>2 DEF G!Due
<1>3. CASE G!OpenMenu
  BY <1>3 DEF G!OpenMenu
<1>4. CASE G!CloseMenu
  BY <1>4 DEF G!CloseMenu
<1>5. CASE G!Resize
  BY <1>5 DEF G!Resize
<1>12. CASE G!SetOption
  BY <1>12 DEF G!SetOption
<1>13. ASSUME G!OtherIface PROVE taken' \in Nat /\ data' \in Seq(Int)
  <2>1. \/ data' = <<>> /\ taken' = taken
        \/ taken' = taken + 1 /\ data' = <<taken'>>
    BY <1>13, Zenon DEF G!OtherIface
  <2>2. CASE data' = <<>> /\ taken' = taken
    BY <2>2
  <2>3. CASE taken' = taken + 1 /\ data' = <<taken'>>
    <3>1. taken' \in Nat
      BY <2>3
    <3> QED
      BY <2>3, <3>1
  <2> QED
    BY <2>1, <2>2, <2>3
<1>6. ASSUME NEW same \in BOOLEAN, G!KeyRedraw(same) PROVE GraphTypes' /\ GraphFed'
  BY <1>6 DEF G!KeyRedraw
<1>7. CASE G!KeyIface
  <2>1. taken' \in Nat /\ data' \in Seq(Int)
    BY <1>7, <1>13, Zenon DEF G!KeyIface
  <2>3. box = "net" /\ gRunner # "draw" /\ UNCHANGED <<box, tty, width, gRunner, gConf>>
    BY <1>7 DEF G!KeyIface
  <2>2. gMain' \in [at : {"run", "input"}, same : BOOLEAN, force : BOOLEAN] /\ menu' = menu
    <3>1. gMain' = [at |-> "run", same |-> TRUE, force |-> TRUE] /\ menu' = menu
      BY <1>7, Zenon DEF G!KeyIface
    <3> QED
      BY <3>1
  <2> QED
    BY <2>1, <2>2, <2>3
<1>8. CASE G!Wakes
  BY <1>8 DEF G!Wakes
<1>9. CASE G!Collect
  <2>1. UNCHANGED <<box, tty, width, menu, gMain, gConf>> /\ gRunner' = "draw" /\ gRunner = "collect"
    BY <1>9 DEF G!Collect
  <2>2. width \in Nat \ {0}
    BY ScreenAssumption DEF ScreenAssumption, G!GraphAssumption
  <2>3. CASE G!CollectSample /\ redraw' \in IF box = "cpu" THEN {redraw} ELSE {redraw, TRUE}
    <3>1. CASE gConf.same /\ (data # <<>> \/ box = "net") /\ UNCHANGED <<data, taken, missed>>
      BY <2>1, <2>3, <3>1
    <3>2. CASE G!Sample /\ data' = G!Trimmed(Append(data, taken'))
      <4>1. taken' \in Nat
        BY <3>2
      <4>2. data' \in Seq(Int) /\ data' # <<>>
        BY <2>2, <3>2, <4>1, SampleAdded
      <4> QED
        BY <2>1, <4>1, <4>2
    <3>3. CASE G!Sample /\ box = "net" /\ missed' = TRUE /\ UNCHANGED data
      <4>1. taken' \in Nat
        BY <3>3
      <4> QED
        BY <2>1, <3>3, <4>1
    <3> QED
      BY <2>3, <3>1, <3>2, <3>3 DEF G!CollectSample
  <2>4. CASE box = "net" /\ ~gConf.same /\ G!OtherIface /\ redraw' = TRUE /\ UNCHANGED missed
    <3>1. taken' \in Nat /\ data' \in Seq(Int)
      BY <1>13, <2>4
    <3> QED
      BY <2>1, <2>4, <3>1
  <2> QED
    BY <1>9, <2>3, <2>4 DEF G!Collect
<1>10. CASE G!Draw
  <2>1. UNCHANGED <<box, tty, width, data, menu, gMain, gConf, taken>> /\ gRunner' = "done" /\ gRunner = "draw"
    BY <1>10 DEF G!Draw
  <2>2. box \in {"cpu", "mem"} => data' # <<>>
    BY <2>1
  <2> QED
    BY <2>1, <2>2
<1>11. CASE G!RunnerDone
  BY <1>11 DEF G!RunnerDone
<1> QED
  BY <1>1, <1>2, <1>3, <1>4, <1>5, <1>6, <1>7, <1>8, <1>9, <1>10, <1>11, <1>12 DEF G!Next

\* Each step keeps that a graph is owed a new one or shows its samples.
LEMMA GraphShownStep ==
  ASSUME GraphInv, G!Next
  PROVE  (GraphOwed \/ GraphDrawn)'
<1>0. GraphTypes /\ GraphFed /\ (GraphOwed \/ GraphDrawn) /\ GraphTypes'
  BY GraphTypesStep DEF GraphInv
<1>k. ASSUME UNCHANGED <<tty, graph, data, width>>, GraphLag' = GraphLag, GraphDrawn PROVE GraphDrawn'
  BY <1>k DEF GraphDrawn
<1>1. CASE G!Run
  <2>1. GraphDrawn => GraphDrawn'
    <3>1. GraphLag' = GraphLag /\ UNCHANGED <<tty, graph, data, width>>
      BY <1>1 DEF G!Run, G!Idle, GraphLag
    <3> QED
      BY <1>k, <3>1
  <2>2. GraphOwed => GraphOwed'
    <3>1. /\ gMain.at = "run" /\ gRunner \in {"idle", "queued"} /\ gRunner' = "queued"
          /\ gConf'.force = gMain.force /\ UNCHANGED <<redraw, gPaused>>
          /\ missed' = (missed \/ (gRunner = "queued" /\ gConf.force /\ ~gMain.force))
      BY <1>1 DEF G!Run, G!Idle
    <3> QED
      BY <3>1 DEF GraphOwed
  <2> QED
    BY <1>0, <2>1, <2>2
<1>2. CASE G!Due
  <2>1. GraphDrawn => GraphDrawn'
    <3>1. GraphLag' = GraphLag /\ UNCHANGED <<tty, graph, data, width>>
      BY <1>2 DEF G!Due, GraphLag
    <3> QED
      BY <1>k, <3>1
  <2>2. GraphOwed => GraphOwed'
    BY <1>2 DEF G!Due, G!Input, GraphOwed
  <2> QED
    BY <1>0, <2>1, <2>2
<1>3. CASE G!OpenMenu \/ G!SetOption \/ G!CloseMenu \/ G!KeyIface \/ (\E same \in BOOLEAN : G!KeyRedraw(same))
  <2>1. \E same : G!AskRun(same, TRUE)
    BY <1>3, Zenon DEF G!OpenMenu, G!SetOption, G!CloseMenu, G!KeyIface, G!KeyRedraw
  <2>2. gMain'.at = "run" /\ gMain'.force
    BY <2>1 DEF G!AskRun
  <2> QED
    BY <2>2 DEF GraphOwed
<1>4. CASE G!Resize
  BY <1>4 DEF G!Resize, GraphOwed
<1>5. CASE G!Wakes
  <2>1. GraphDrawn => GraphDrawn'
    <3>1. GraphLag' = GraphLag /\ UNCHANGED <<tty, graph, data, width>>
      BY <1>5 DEF G!Wakes, GraphLag
    <3> QED
      BY <1>k, <3>1
  <2>2. GraphOwed => GraphOwed'
    BY <1>5 DEF G!Wakes, GraphOwed
  <2> QED
    BY <1>0, <2>1, <2>2
<1>6. CASE G!Collect
  <2>1. gRunner = "collect" /\ gRunner' = "draw" /\ UNCHANGED <<box, tty, width, graph, gPaused, gMain, gConf>>
    BY <1>6 DEF G!Collect
  <2>2. GraphLag = 0 /\ GraphLag' = IF gConf.same THEN 0 ELSE 1
    BY <2>1 DEF GraphLag
  <2>3. CASE redraw' \/ missed'
    BY <2>3 DEF GraphOwed
  <2>4. CASE ~redraw' /\ ~missed'
    <3>1. G!CollectSample /\ ~redraw /\ ~missed
      <4>1. G!CollectSample /\ ~redraw
        BY <1>6, <2>4 DEF G!Collect
      <4> QED
        BY <2>4, <4>1 DEF G!CollectSample
    <3>2. CASE GraphOwed
      BY <2>1, <3>1, <3>2 DEF GraphOwed
    <3>3. CASE GraphDrawn
      <4>1. CASE gConf.same
        <5>1. data # <<>> \/ box = "net"
          BY <1>0, <3>1 DEF GraphFed, GraphTypes
        <5>2. data' = data
          BY <3>1, <4>1, <5>1 DEF G!CollectSample
        <5>3. GraphLag' = GraphLag
          BY <2>2, <4>1
        <5> QED
          BY <1>k, <2>1, <3>3, <5>2, <5>3
      <4>2. CASE ~gConf.same
        <5>1. taken' \in Int /\ data' = G!Trimmed(Append(data, taken'))
          <6>1. G!Sample /\ data' = G!Trimmed(Append(data, taken'))
            BY <2>4, <3>1, <4>2 DEF G!CollectSample
          <6> QED
            BY <1>0, <6>1 DEF G!Sample, GraphTypes
        <5>2. data \in Seq(Int) /\ width \in Nat \ {0} /\ GraphLag' = 1 /\ width' = width /\ tty' = tty /\ graph' = graph
          BY <1>0, <2>1, <2>2, <4>2, ScreenAssumption DEF ScreenAssumption, G!GraphAssumption, GraphTypes
        <5>3. /\ TtyPicture(data', width, 1) = TtyPicture(data, width, 0)
              /\ \A c \in BOOLEAN : Picture(data', width, 1, c) = Picture(data, width, 0, c)
          BY <5>1, <5>2, SampleAdded
        <5>4. CASE tty
          BY <2>2, <3>3, <5>2, <5>3, <5>4, Zenon DEF GraphDrawn
        <5>5. CASE ~tty
          <6>1. PICK c \in BOOLEAN : graph = Picture(data, width, 0, c)
            BY <2>2, <3>3, <5>5, Zenon DEF GraphDrawn
          <6>2. graph' = Picture(data', width', GraphLag', c) /\ ~tty'
            BY <5>2, <5>3, <5>5, <6>1, Zenon
          <6> QED
            BY <6>2 DEF GraphDrawn
        <5> QED
          BY <5>4, <5>5
      <4> QED
        BY <4>1, <4>2
    <3> QED
      BY <1>0, <3>2, <3>3
  <2> QED
    BY <2>3, <2>4
<1>7. CASE G!Draw
  <2>1. gRunner = "draw" /\ gRunner' = "done" /\ UNCHANGED <<tty, data, width, gPaused, gMain, gConf>>
    BY <1>7 DEF G!Draw
  <2>2. CASE gPaused
    BY <2>1, <2>2 DEF GraphOwed
  <2>3. CASE ~gPaused /\ G!Rebuild
    BY <1>0, <2>1, <2>3, Rebuilt
  <2>4. CASE ~gPaused /\ redraw'
    BY <2>4 DEF GraphOwed
  <2>5. CASE /\ ~gPaused /\ ~redraw /\ ~gConf.force /\ missed' = missed /\ ~redraw'
             /\ ~gConf.same => data # <<>>
             /\ graph' = IF gConf.same THEN graph ELSE G!Update(graph, data)
    <3>1. CASE GraphOwed
      BY <2>1, <2>5, <3>1 DEF GraphOwed
    <3>2. CASE GraphDrawn
      BY <1>0, <2>1, <2>5, <3>2, Updated
    <3> QED
      BY <1>0, <3>1, <3>2
  <2>6. CASE ~gPaused /\ box = "net" /\ ~gConf.same /\ ~connected /\ missed'
    BY <2>6 DEF GraphOwed
  <2>7. ~gConf.same => data # <<>> \/ missed \/ redraw
    BY <1>0, <2>1 DEF GraphFed
  <2>12. CASE ~gPaused /\ missed /\ missed' = missed
    BY <2>12 DEF GraphOwed
  <2>8. box \in {"cpu", "mem"} => data # <<>>
    BY <1>0, <2>1 DEF GraphFed
  <2>9. CASE ~gPaused /\ box = "cpu" /\ G!DrawCpu
    BY <2>3, <2>4, <2>5, <2>8, <2>9 DEF G!DrawCpu
  <2>10. CASE ~gPaused /\ box = "mem" /\ G!DrawMem
    BY <2>3, <2>4, <2>5, <2>8, <2>10 DEF G!DrawMem
  <2>11. CASE ~gPaused /\ box = "net" /\ G!DrawNet
    <3>1. CASE redraw \/ gConf.force
      BY <2>3, <2>4, <2>11, <3>1 DEF G!DrawNet
    <3>2. CASE ~(redraw \/ gConf.force)
      <4>1. /\ graph' = IF gConf.same \/ ~connected THEN graph ELSE G!Update(graph, data)
            /\ missed' = (missed \/ (~gConf.same /\ ~connected)) /\ redraw' = redraw
        BY <2>11, <3>2 DEF G!DrawNet
      <4>2. CASE ~gConf.same /\ ~connected
        BY <2>6, <2>11, <4>1, <4>2
      <4>3. CASE ~(~gConf.same /\ ~connected)
        <5>1. graph' = IF gConf.same THEN graph ELSE G!Update(graph, data)
          BY <4>1, <4>3
        <5>2. CASE missed
          BY <4>1, <5>2 DEF GraphOwed
        <5>3. CASE ~missed
          <6>1. GraphOwed => GraphOwed'
            BY <2>1, <2>11, <3>2, <5>3 DEF GraphOwed
          <6>2. GraphDrawn => GraphDrawn'
            <7>1. ~gConf.same => data # <<>>
              BY <2>7, <3>2, <5>3
            <7> QED
              BY <1>0, <2>1, <5>1, <7>1, Updated
          <6> QED
            BY <1>0, <6>1, <6>2
        <5> QED
          BY <5>2, <5>3
      <4> QED
        BY <4>2, <4>3
    <3> QED
      BY <3>1, <3>2
  <2> QED
    BY <1>7, <2>2, <2>9, <2>10, <2>11 DEF G!Draw
<1>8. CASE G!RunnerDone
  <2>1. GraphDrawn => GraphDrawn'
    <3>1. GraphLag' = GraphLag /\ UNCHANGED <<tty, graph, data, width>>
      BY <1>8 DEF G!RunnerDone, GraphLag
    <3> QED
      BY <1>k, <3>1
  <2>2. GraphOwed => GraphOwed'
    BY <1>8 DEF G!RunnerDone, GraphOwed
  <2> QED
    BY <1>0, <2>1, <2>2
<1> QED
  BY <1>1, <1>2, <1>3, <1>4, <1>5, <1>6, <1>7, <1>8 DEF G!Next

\* The invariant is inductive.
LEMMA GraphStep ==
  GraphInv /\ [ScreenNext]_screenVars => GraphInv'
<1> SUFFICES ASSUME GraphInv, [ScreenNext]_screenVars PROVE GraphInv'
  OBVIOUS
<1>1. CASE G!Next
  BY <1>1, GraphTypesStep, GraphShownStep DEF GraphInv
<1>2. CASE UNCHANGED graphVars
  BY <1>2 DEF graphVars, GraphInv, GraphTypes, GraphFed, GraphOwed, GraphDrawn, GraphLag
<1> QED
  BY <1>1, <1>2 DEF ScreenNext, screenVars

\* What a graph shows that is neither owed a new one nor behind.
LEMMA GraphIsShown ==
  GraphInv => G!GraphShowsData
<1> SUFFICES ASSUME GraphInv, gRunner = "idle", gMain.at = "input", ~gPaused, ~redraw, ~missed
             PROVE  G!Shown(graph) = G!Shown(G!New(data, width, tty))
  BY DEF G!GraphShowsData, G!Input
<1>1. data \in Seq(Int) /\ width \in Nat \ {0, 1} /\ width \in Nat \ {0} /\ tty \in BOOLEAN
  BY ScreenAssumption DEF ScreenAssumption, G!GraphAssumption, GraphTypes, GraphInv
<1>2. GraphDrawn /\ GraphLag = 0
  BY DEF GraphInv, GraphOwed, GraphLag
<1>3. CASE tty
  <2>1. G!New(data, width, tty) = TtyPicture(data, width, 0)
    <3>1. G!New(data, width, tty) = G!New(data, width, TRUE)
      BY <1>3, Zenon
    <3> QED
      BY <1>1, <3>1, NewIsTtyPicture, Zenon
  <2> QED
    BY <1>2, <1>3, <2>1, Zenon DEF GraphDrawn
<1>4. CASE ~tty
  <2>1. PICK c \in BOOLEAN : graph = Picture(data, width, 0, c)
    BY <1>2, <1>4, Zenon DEF GraphDrawn
  <2>2. ASSUME NEW b \in BOOLEAN PROVE G!Shown(Picture(data, width, 0, b)) = Line(data, width, 0)
    BY DEF G!Shown, Picture, Drawing
  <2>3. G!New(data, width, tty) = Picture(data, width, 0, TRUE)
    <3>1. tty = FALSE
      BY <1>1, <1>4
    <3>2. G!New(data, width, tty) = G!New(data, width, FALSE)
      BY <3>1, Zenon
    <3> QED
      BY <1>1, <3>2, NewIsPicture, Zenon
  <2> QED
    BY <2>1, <2>2, <2>3
<1> QED
  BY <1>3, <1>4

\* No sample is missing from a graph, twice in it or shifted, whatever the
\* samples and the widths are (btop_draw.cpp:334-466).
THEOREM GraphIsData ==
  ScreenSpec => []GraphShowsData
<1>1. GraphInv => GraphShowsData
  BY GraphIsShown DEF GraphShowsData
<1> QED
  BY <1>1, GraphStart, GraphStep, PTL DEF ScreenSpec

-----------------------------------------------------------------------------
(* Functions of numbers that are defined by recursion.                      *)

\* nxt leads from each value to the next, and the values of f are those from a.
Steps(nxt, N, S) == \A i \in 1 .. N : \A s \in S : nxt[i][s] \in S
Recurses(f, a, nxt, N, S) ==
  f \in [0 .. N -> S] /\ f[0] = a /\ \A i \in 1 .. N : f[i] = nxt[i][f[i - 1]]

\* A first value and a way from each value to the next are those of a function.
LEMMA Recursion ==
  ASSUME NEW N \in Nat, NEW S, NEW a \in S, NEW nxt, Steps(nxt, N, S)
  PROVE  \E f : Recurses(f, a, nxt, N, S)
<1> DEFINE Good(n) == \E f \in [0 .. n -> S] : f[0] = a /\ \A i \in 1 .. n : f[i] = nxt[i][f[i - 1]]
           D == {n \in Nat : n <= N => Good(n)}
<1>1. 0 \in D
  <2> DEFINE f == [i \in 0 .. 0 |-> a]
  <2>1. f \in [0 .. 0 -> S] /\ f[0] = a /\ \A i \in 1 .. 0 : f[i] = nxt[i][f[i - 1]]
    OBVIOUS
  <2>2. Good(0)
    BY <2>1, Zenon
  <2> QED
    BY <2>2
<1>2. ASSUME NEW n \in D PROVE n + 1 \in D
  <2> SUFFICES ASSUME n + 1 <= N PROVE Good(n + 1)
    OBVIOUS
  <2>1. n \in Nat /\ n <= N
    OBVIOUS
  <2>2. PICK f \in [0 .. n -> S] : f[0] = a /\ \A i \in 1 .. n : f[i] = nxt[i][f[i - 1]]
    BY <2>1
  <2> DEFINE g == [i \in 0 .. n + 1 |-> IF i <= n THEN f[i] ELSE nxt[n + 1][f[n]]]
  <2>3. n + 1 \in 1 .. N /\ n \in 0 .. n /\ nxt[n + 1][f[n]] \in S
    BY <2>1, <2>2 DEF Steps
  <2>4. g \in [0 .. n + 1 -> S] /\ g[0] = a /\ g[n + 1] = nxt[n + 1][f[n]] /\ \A i \in 0 .. n : g[i] = f[i]
    BY <2>1, <2>2, <2>3
  <2> HIDE DEF g
  <2>5. ASSUME NEW i \in 1 .. n + 1 PROVE g[i] = nxt[i][g[i - 1]]
    <3>1. CASE i = n + 1
      BY <2>1, <2>4, <3>1
    <3>2. CASE i # n + 1
      <4>1. i \in 1 .. n /\ i \in 0 .. n /\ i - 1 \in 0 .. n
        BY <2>1, <3>2
      <4> QED
        BY <2>2, <2>4, <4>1
    <3> QED
      BY <3>1, <3>2
  <2> QED
    BY <2>4, <2>5
<1> HIDE DEF D
<1>3. D = Nat
  <2>1. D \subseteq Nat
    BY DEF D
  <2> QED
    BY <1>1, <1>2, <2>1, Induction
<1>4. Good(N)
  <2> HIDE DEF Good
  <2>1. N \in D /\ N <= N
    BY <1>3
  <2> QED
    BY <2>1 DEF D
<1>5. PICK f \in [0 .. N -> S] : f[0] = a /\ \A i \in 1 .. N : f[i] = nxt[i][f[i - 1]]
  BY <1>4
<1> QED
  BY <1>5 DEF Recurses

-----------------------------------------------------------------------------
(* The ancestors of a process.                                              *)

Size == Cardinality(TreePids)
Parents == [TreePids -> TreePids \cup {Nobody}]

\* h are p, its parent, the parent of that and so on, as far as there are processes.
Chain(h, pp, p) ==
  /\ h \in [0 .. Size -> TreePids \cup {Nobody}]
  /\ h[0] = p /\ \A n \in 1 .. Size : h[n] = IF h[n - 1] = Nobody THEN Nobody ELSE pp[h[n - 1]]
  /\ T!Ancestors(pp, p) = {h[n] : n \in 1 .. Size} \ {Nobody}

\* There are as many processes as there is room for in a chain.
LEMMA SizeOfTree ==
  /\ IsFiniteSet(TreePids) /\ Size \in Nat /\ Nobody \notin TreePids
  /\ \A p \in TreePids : Size >= 1
<1>1. IsFiniteSet(TreePids) /\ Nobody \notin TreePids
  BY ScreenAssumption DEF ScreenAssumption, T!TreeAssumption, T!IsFiniteSet, IsFiniteSet
<1>2. Size \in Nat /\ (Size = 0 <=> TreePids = {})
  BY <1>1, FS_CardinalityType, FS_EmptySet DEF Size
<1> QED
  BY <1>1, <1>2

\* The ancestors the code looks up one by one are a chain.
LEMMA ChainExists ==
  ASSUME NEW pp \in Parents, NEW p \in TreePids
  PROVE  \E h : Chain(h, pp, p)
<1> DEFINE S == TreePids \cup {Nobody}
           Climb(g) == [n \in 1 .. Size |-> IF n = 1 THEN pp[p]
                                           ELSE IF g[n - 1] = Nobody THEN g[n - 1] ELSE pp[g[n - 1]]]
<1>1. Size \in Nat /\ Size >= 1 /\ Nobody \notin TreePids
  BY SizeOfTree
<1>2. PICK f \in [0 .. Size -> S] :
        f[0] = p /\ \A n \in 1 .. Size : f[n] = IF f[n - 1] = Nobody THEN Nobody ELSE pp[f[n - 1]]
  <2> DEFINE nxt == [n \in 1 .. Size |-> [q \in S |-> IF q = Nobody THEN Nobody ELSE pp[q]]]
  <2>1. nxt \in [1 .. Size -> [S -> S]] /\ p \in S
    BY DEF Parents
  <2>2. \A n \in 1 .. Size : \A q \in S : nxt[n][q] = IF q = Nobody THEN Nobody ELSE pp[q]
    OBVIOUS
  <2> HIDE DEF nxt, S
  <2>3. PICK f : Recurses(f, p, nxt, Size, S)
    <3>1. Steps(nxt, Size, S)
      BY <2>1 DEF Steps
    <3> QED
      BY <1>1, <2>1, <3>1, Recursion, Zenon
  <2>4. \A n \in 1 .. Size : f[n - 1] \in S
    BY <1>1, <2>3 DEF Recurses
  <2> QED
    <3>1. \A n \in 1 .. Size : f[n] = IF f[n - 1] = Nobody THEN Nobody ELSE pp[f[n - 1]]
      BY <2>2, <2>3, <2>4 DEF Recurses
    <3> QED
      BY <2>3, <3>1 DEF Recurses
<1>3. \E g : g = Climb(g)
  <2> DEFINE g == [n \in 1 .. Size |-> f[n]]
  <2>1. ASSUME NEW n \in 1 .. Size
        PROVE  f[n] = IF n = 1 THEN pp[p] ELSE IF g[n - 1] = Nobody THEN g[n - 1] ELSE pp[g[n - 1]]
    <3>1. CASE n = 1
      <4>1. p # Nobody /\ 1 \in 1 .. Size /\ 1 - 1 = 0
        BY <1>1
      <4>2. f[1] = pp[p]
        BY <1>2, <4>1
      <4> QED
        BY <3>1, <4>2
    <3>2. CASE n # 1
      <4>1. n - 1 \in 1 .. Size
        BY <1>1, <3>2
      <4> QED
        BY <1>2, <3>2, <4>1
    <3> QED
      BY <3>1, <3>2
  <2> HIDE DEF S
  <2>2. g = Climb(g)
    BY <2>1
  <2> QED
    BY <2>2
<1> DEFINE up == CHOOSE g : g = Climb(g)
<1>4. up = Climb(up)
  BY <1>3
<1>5. T!Ancestors(pp, p) = {up[n] : n \in 1 .. Size} \ {Nobody}
  BY DEF T!Ancestors, Size, T!Cardinality, Cardinality
<1> HIDE DEF up
<1>6. \A n \in 1 .. Size : up[n] = IF n = 1 THEN pp[p]
                                  ELSE IF up[n - 1] = Nobody THEN up[n - 1] ELSE pp[up[n - 1]]
  BY <1>4
<1>7. \A n \in 1 .. Size : up[n] = f[n]
  <2> DEFINE D == {n \in Nat : n + 1 <= Size => up[n + 1] = f[n + 1]}
  <2>1. 0 \in D
    <3>1. p # Nobody /\ 1 \in 1 .. Size /\ 1 - 1 = 0
      BY <1>1
    <3>2. up[1] = pp[p] /\ f[1] = pp[p]
      BY <1>2, <1>6, <3>1
    <3> QED
      BY <3>2
  <2>2. ASSUME NEW n \in D, n + 2 <= Size PROVE up[n + 2] = f[n + 2]
    <3>1. n \in Nat /\ n + 2 \in 1 .. Size /\ n + 2 # 1 /\ n + 2 - 1 = n + 1 /\ up[n + 1] = f[n + 1]
      BY <1>1, <2>2
    <3> QED
      BY <1>2, <1>6, <3>1
  <2>3. D = Nat
    <3>1. \A n \in D : n + 1 \in D
      BY <1>1, <2>2
    <3>2. D \subseteq Nat
      OBVIOUS
    <3> HIDE DEF D
    <3> QED
      BY <2>1, <3>1, <3>2, Induction
  <2> SUFFICES ASSUME NEW n \in 1 .. Size PROVE up[n] = f[n]
    OBVIOUS
  <2>4. n - 1 \in D /\ n - 1 + 1 = n
    BY <1>1, <2>3
  <2> QED
    BY <1>1, <2>4
<1>8. {up[n] : n \in 1 .. Size} = {f[n] : n \in 1 .. Size}
  BY <1>7
<1>9. Chain(f, pp, p)
  BY <1>2, <1>5, <1>8 DEF Chain
<1> QED
  BY <1>9

\* The processes V hang together: the parent of each is one of them or nobody,
\* and none is its own ancestor.
Forest(pp, V) ==
  /\ pp \in Parents /\ V \subseteq TreePids
  /\ \A p \in V : pp[p] \in V \cup {Nobody}
  /\ \A p \in V : p \notin T!Ancestors(pp, p)

\* Whoever is above a process is one of them.
LEMMA ChainInside ==
  ASSUME NEW pp, NEW V, Forest(pp, V), NEW p \in V, NEW h, Chain(h, pp, p)
  PROVE  \A n \in 0 .. Size : h[n] \in V \cup {Nobody}
<1> DEFINE D == {n \in Nat : n <= Size => h[n] \in V \cup {Nobody}}
<1>1. Size \in Nat /\ Nobody \notin TreePids
  BY SizeOfTree
<1>2. 0 \in D
  BY DEF Chain
<1>3. ASSUME NEW n \in D PROVE n + 1 \in D
  <2> SUFFICES ASSUME n + 1 <= Size PROVE h[n + 1] \in V \cup {Nobody}
    OBVIOUS
  <2>1. n + 1 \in 1 .. Size /\ n + 1 - 1 = n /\ h[n] \in V \cup {Nobody}
    BY <1>1
  <2>2. h[n + 1] = IF h[n] = Nobody THEN Nobody ELSE pp[h[n]]
    BY <2>1 DEF Chain
  <2> QED
    BY <2>1, <2>2 DEF Forest
<1>4. D \subseteq Nat
  OBVIOUS
<1> HIDE DEF D
<1>5. D = Nat
  BY <1>2, <1>3, <1>4, Induction
<1> QED
  BY <1>1, <1>5 DEF D

\* From an ancestor on, the chain is the one of the ancestor.
LEMMA ChainAgain ==
  ASSUME NEW pp, NEW p, NEW h, Chain(h, pp, p),
         NEW i \in 0 .. Size, NEW g, Chain(g, pp, h[i])
  PROVE  \A m \in 0 .. Size - i : g[m] = h[i + m]
<1> DEFINE D == {m \in Nat : m <= Size - i => g[m] = h[i + m]}
<1>1. Size \in Nat
  BY SizeOfTree
<1>2. 0 \in D
  BY DEF Chain
<1>3. ASSUME NEW m \in D PROVE m + 1 \in D
  <2> SUFFICES ASSUME m + 1 <= Size - i PROVE g[m + 1] = h[i + (m + 1)]
    OBVIOUS
  <2>1. /\ m + 1 \in 1 .. Size /\ m + 1 - 1 = m /\ g[m] = h[i + m]
        /\ i + (m + 1) \in 1 .. Size /\ i + (m + 1) - 1 = i + m
    BY <1>1
  <2>2. g[m + 1] = IF g[m] = Nobody THEN Nobody ELSE pp[g[m]]
    BY <2>1 DEF Chain
  <2>3. h[i + (m + 1)] = IF h[i + m] = Nobody THEN Nobody ELSE pp[h[i + m]]
    BY <2>1 DEF Chain
  <2> QED
    BY <2>1, <2>2, <2>3
<1>4. D \subseteq Nat
  OBVIOUS
<1> HIDE DEF D
<1>5. D = Nat
  BY <1>2, <1>3, <1>4, Induction
<1>6. \A m \in 0 .. Size - i : m \in D /\ m <= Size - i
  BY <1>1, <1>5
<1> QED
  BY <1>6 DEF D

\* A chain does not come back to a process.
LEMMA ChainDistinct ==
  ASSUME NEW pp, NEW V, Forest(pp, V), NEW p \in V, NEW h, Chain(h, pp, p),
         NEW i \in 0 .. Size, NEW j \in 0 .. Size, i < j, h[i] # Nobody
  PROVE  h[j] # h[i]
<1> SUFFICES ASSUME h[j] = h[i] PROVE FALSE
  OBVIOUS
<1>1. Size \in Nat
  BY SizeOfTree
<1>2. h[i] \in V /\ h[i] \in TreePids /\ pp \in Parents
  BY ChainInside DEF Forest
<1>3. PICK g : Chain(g, pp, h[i])
  BY <1>2, ChainExists
<1>4. g[j - i] = h[j]
  <2>1. j - i \in 0 .. Size - i /\ i + (j - i) = j
    BY <1>1
  <2>2. \A m \in 0 .. Size - i : g[m] = h[i + m]
    BY <1>3, ChainAgain
  <2> QED
    BY <2>1, <2>2
<1>5. j - i \in 1 .. Size
  BY <1>1
<1>6. h[i] \in T!Ancestors(pp, h[i])
  BY <1>3, <1>4, <1>5 DEF Chain
<1> QED
  BY <1>2, <1>6 DEF Forest

\* A chain ends.
LEMMA ChainEnds ==
  ASSUME NEW pp, NEW V, Forest(pp, V), NEW p \in V, NEW h, Chain(h, pp, p)
  PROVE  h[Size] = Nobody
<1> SUFFICES ASSUME h[Size] # Nobody PROVE FALSE
  OBVIOUS
<1>1. Size \in Nat /\ IsFiniteSet(TreePids) /\ Size = Cardinality(TreePids)
  BY SizeOfTree DEF Size
<1>2. \A n \in 0 .. Size : h[n] # Nobody
  <2> DEFINE D == {n \in Nat : n <= Size => h[Size - n] # Nobody}
  <2>1. 0 \in D
    BY <1>1
  <2>2. ASSUME NEW n \in D, n + 1 <= Size PROVE h[Size - (n + 1)] # Nobody
    <3>1. Size - n \in 1 .. Size /\ Size - n - 1 = Size - (n + 1) /\ h[Size - n] # Nobody
      BY <1>1, <2>2
    <3> QED
      BY <3>1 DEF Chain
  <2>3. D \subseteq Nat /\ \A n \in D : n + 1 \in D
    BY <2>2
  <2> HIDE DEF D
  <2>4. D = Nat
    BY <2>1, <2>3, Induction
  <2> SUFFICES ASSUME NEW n \in 0 .. Size PROVE h[n] # Nobody
    OBVIOUS
  <2>5. Size - n \in D /\ Size - n <= Size /\ Size - (Size - n) = n
    BY <1>1, <2>4
  <2> QED
    BY <2>5 DEF D
<1>3. h \in [0 .. Size -> TreePids]
  BY <1>2 DEF Chain
<1>4. IsFiniteSet(0 .. Size) /\ Cardinality(0 .. Size) = Size + 1
  BY <1>1, FS_Interval
<1>5. \E i, j \in 0 .. Size : i # j /\ h[i] = h[j]
  BY <1>1, <1>3, <1>4, FS_PigeonHole
<1>6. PICK i \in 0 .. Size, j \in 0 .. Size : i < j /\ h[i] = h[j]
  BY <1>1, <1>5
<1> QED
  BY <1>2, <1>6, ChainDistinct

\* The ancestors of a process are its parent and those of its parent.
LEMMA AncestorsStep ==
  ASSUME NEW pp, NEW V, Forest(pp, V), NEW p \in V
  PROVE  /\ pp[p] = Nobody => T!Ancestors(pp, p) = {}
         /\ pp[p] # Nobody => T!Ancestors(pp, p) = {pp[p]} \cup T!Ancestors(pp, pp[p])
<1>1. Size \in Nat /\ Size >= 1 /\ Nobody \notin TreePids /\ p \in TreePids /\ pp \in Parents
  BY SizeOfTree DEF Forest
<1>2. PICK h : Chain(h, pp, p)
  BY <1>1, ChainExists
<1>3. h[1] = pp[p]
  <2>1. 1 \in 1 .. Size /\ 1 - 1 = 0 /\ h[0] = p
    BY <1>1, <1>2 DEF Chain
  <2>2. h[1] = IF h[0] = Nobody THEN Nobody ELSE pp[h[0]]
    BY <1>2, <2>1 DEF Chain
  <2> QED
    BY <1>1, <2>1, <2>2
<1>4. ASSUME pp[p] = Nobody PROVE T!Ancestors(pp, p) = {}
  <2> DEFINE D == {n \in Nat : n + 1 <= Size => h[n + 1] = Nobody}
  <2>1. 0 \in D
    BY <1>3, <1>4
  <2>2. ASSUME NEW n \in D, n + 2 <= Size PROVE h[n + 2] = Nobody
    <3>1. n + 2 \in 1 .. Size /\ n + 2 - 1 = n + 1 /\ h[n + 1] = Nobody
      BY <1>1, <2>2
    <3> QED
      BY <1>2, <3>1 DEF Chain
  <2>3. D \subseteq Nat /\ \A n \in D : n + 1 \in D
    BY <1>1, <2>2
  <2> HIDE DEF D
  <2>4. D = Nat
    BY <2>1, <2>3, Induction
  <2>5. ASSUME NEW n \in 1 .. Size PROVE h[n] = Nobody
    <3>1. n - 1 \in D /\ n - 1 + 1 = n /\ n <= Size
      BY <1>1, <2>4
    <3> QED
      BY <3>1 DEF D
  <2> QED
    BY <1>2, <2>5 DEF Chain
<1>5. ASSUME pp[p] # Nobody PROVE T!Ancestors(pp, p) = {pp[p]} \cup T!Ancestors(pp, pp[p])
  <2>1. pp[p] \in V /\ pp[p] \in TreePids
    BY <1>5 DEF Forest
  <2>2. PICK g : Chain(g, pp, h[1])
    BY <1>1, <1>3, <2>1, ChainExists
  <2>3. \A m \in 0 .. Size - 1 : g[m] = h[1 + m]
    <3>1. 1 \in 0 .. Size
      BY <1>1
    <3> QED
      BY <1>2, <2>2, <3>1, ChainAgain
  <2>4. h[Size] = Nobody /\ g[Size] = Nobody
    <3>1. PICK q \in V : q = h[1]
      BY <1>3, <2>1
    <3> QED
      BY <1>2, <2>2, <3>1, ChainEnds
  <2>5. \A n \in 1 .. Size : n = 1 \/ (n - 1 \in 1 .. Size /\ h[n] = g[n - 1])
    BY <1>1, <2>3
  <2>6. \A n \in 1 .. Size : n = Size \/ (n + 1 \in 1 .. Size /\ g[n] = h[n + 1])
    BY <1>1, <2>3
  <2>7. {h[n] : n \in 1 .. Size} \ {Nobody} = {h[1]} \cup ({g[n] : n \in 1 .. Size} \ {Nobody})
    BY <1>1, <1>3, <1>5, <2>4, <2>5, <2>6
  <2> QED
    BY <1>2, <1>3, <2>2, <2>7 DEF Chain
<1> QED
  BY <1>4, <1>5

\* The ancestors of a process are among them, and the ancestors of those too.
LEMMA AncestorsInside ==
  ASSUME NEW pp, NEW V, Forest(pp, V), NEW p \in V
  PROVE  /\ T!Ancestors(pp, p) \subseteq V
         /\ \A q \in T!Ancestors(pp, p) : T!Ancestors(pp, q) \subseteq T!Ancestors(pp, p)
<1>1. Size \in Nat /\ Nobody \notin TreePids /\ p \in TreePids /\ pp \in Parents
  BY SizeOfTree DEF Forest
<1>2. PICK h : Chain(h, pp, p)
  BY <1>1, ChainExists
<1>3. T!Ancestors(pp, p) = {h[n] : n \in 1 .. Size} \ {Nobody}
  BY <1>2 DEF Chain
<1>4. T!Ancestors(pp, p) \subseteq V
  <2>1. \A n \in 0 .. Size : h[n] \in V \cup {Nobody}
    BY <1>2, ChainInside
  <2> QED
    BY <1>1, <1>3, <2>1
<1>5. ASSUME NEW q \in T!Ancestors(pp, p) PROVE T!Ancestors(pp, q) \subseteq T!Ancestors(pp, p)
  <2>1. PICK i \in 1 .. Size : h[i] = q
    BY <1>3
  <2>2. q \in V /\ q \in TreePids /\ i \in 0 .. Size
    BY <1>1, <1>4 DEF Forest
  <2>3. PICK g : Chain(g, pp, h[i])
    BY <1>1, <2>1, <2>2, ChainExists
  <2>4. \A m \in 0 .. Size - i : g[m] = h[i + m]
    BY <1>2, <2>2, <2>3, ChainAgain
  <2>5. \A n \in 0 .. Size : \A m \in 0 .. Size : n < m /\ g[n] = Nobody => g[m] = Nobody
    <3> SUFFICES ASSUME NEW n \in 0 .. Size, g[n] = Nobody
                 PROVE  \A m \in 0 .. Size : n < m => g[m] = Nobody
      OBVIOUS
    <3> DEFINE D == {k \in Nat : n + k <= Size => g[n + k] = Nobody}
    <3>1. 0 \in D
      BY <1>1
    <3>2. ASSUME NEW k \in D, n + (k + 1) <= Size PROVE g[n + (k + 1)] = Nobody
      <4>1. n + (k + 1) \in 1 .. Size /\ n + (k + 1) - 1 = n + k /\ g[n + k] = Nobody
        BY <1>1, <3>2
      <4> QED
        BY <2>3, <4>1 DEF Chain
    <3>3. D \subseteq Nat /\ \A k \in D : k + 1 \in D
      BY <3>2
    <3> HIDE DEF D
    <3>4. D = Nat
      BY <3>1, <3>3, Induction
    <3> SUFFICES ASSUME NEW m \in 0 .. Size, n < m PROVE g[m] = Nobody
      OBVIOUS
    <3>5. m - n \in D /\ n + (m - n) = m /\ m <= Size
      BY <1>1, <3>4
    <3> QED
      BY <3>5 DEF D
  <2>6. h[Size] = Nobody
    BY <1>2, ChainEnds
  <2>7. g[Size - i] = Nobody
    <3>1. Size - i \in 0 .. Size - i /\ i + (Size - i) = Size
      BY <1>1
    <3> QED
      BY <2>4, <2>6, <3>1
  <2>8. ASSUME NEW n \in 1 .. Size, g[n] # Nobody PROVE g[n] \in T!Ancestors(pp, p)
    <3>1. n <= Size - i
      <4>1. Size - i \in 0 .. Size /\ n \in 0 .. Size
        BY <1>1
      <4> QED
        BY <1>1, <2>5, <2>7, <2>8, <4>1
    <3>2. g[n] = h[i + n] /\ i + n \in 1 .. Size
      BY <1>1, <2>4, <3>1
    <3> QED
      BY <1>3, <2>8, <3>2
  <2> QED
    BY <2>1, <2>3, <2>8 DEF Chain
<1> QED
  BY <1>4, <1>5

\* Between a process and an ancestor of it there is a child of the ancestor, and
\* it also hangs below one who has no parent.
LEMMA ChildBetween ==
  ASSUME NEW pp, NEW V, Forest(pp, V), NEW r \in V,
         NEW x, x = Nobody \/ x \in T!Ancestors(pp, r)
  PROVE  \E q \in V : pp[q] = x /\ (q = r \/ q \in T!Ancestors(pp, r))
<1>1. Size \in Nat /\ Nobody \notin TreePids /\ r \in TreePids /\ pp \in Parents
  BY SizeOfTree DEF Forest
<1>2. PICK h : Chain(h, pp, r)
  BY <1>1, ChainExists
<1>3. T!Ancestors(pp, r) = {h[n] : n \in 1 .. Size} \ {Nobody} /\ h[0] = r
  BY <1>2 DEF Chain
<1> DEFINE At == {n \in 1 .. Size : h[n] = x}
<1>4. At # {} /\ At \subseteq Nat
  <2>1. h[Size] = Nobody /\ Size >= 1
    BY <1>1, <1>2, ChainEnds, SizeOfTree
  <2> QED
    BY <1>1, <1>3, <2>1
<1>5. PICK n \in At : \A m \in At : n <= m
  BY <1>4, LeastOf
<1>6. n \in 1 .. Size /\ n - 1 \in 0 .. Size /\ h[n] = x
  BY <1>1
<1>7. h[n - 1] \in V \cup {Nobody}
  BY <1>2, <1>6, ChainInside
<1>8. h[n - 1] # Nobody
  <2> SUFFICES ASSUME h[n - 1] = Nobody PROVE FALSE
    OBVIOUS
  <2>1. x = Nobody
    BY <1>2, <1>6 DEF Chain
  <2>2. n # 1
    BY <1>1, <1>3
  <2>3. n - 1 \in At
    BY <1>1, <1>6, <2>1, <2>2
  <2> QED
    BY <1>5, <1>6, <2>3
<1>9. pp[h[n - 1]] = x
  BY <1>2, <1>6, <1>8 DEF Chain
<1>10. h[n - 1] = r \/ h[n - 1] \in T!Ancestors(pp, r)
  <2>1. n = 1 \/ n - 1 \in 1 .. Size
    BY <1>1, <1>6
  <2> QED
    BY <1>1, <1>3, <1>8, <2>1
<1> QED
  BY <1>7, <1>8, <1>9, <1>10

\* Of two ancestors of a process one is above the other.
LEMMA Comparable ==
  ASSUME NEW pp, NEW V, Forest(pp, V), NEW r \in V,
         NEW a \in {r} \cup T!Ancestors(pp, r), NEW b \in {r} \cup T!Ancestors(pp, r), a # b
  PROVE  a \in T!Ancestors(pp, b) \/ b \in T!Ancestors(pp, a)
<1>1. Size \in Nat /\ Nobody \notin TreePids /\ r \in TreePids /\ pp \in Parents
  BY SizeOfTree DEF Forest
<1>2. PICK h : Chain(h, pp, r)
  BY <1>1, ChainExists
<1>3. T!Ancestors(pp, r) = {h[n] : n \in 1 .. Size} \ {Nobody} /\ h[0] = r
  BY <1>2 DEF Chain
<1>4. \A q \in {r} \cup T!Ancestors(pp, r) : q \in TreePids /\ \E i \in 0 .. Size : h[i] = q
  <2>1. T!Ancestors(pp, r) \subseteq TreePids
    BY AncestorsInside DEF Forest
  <2> QED
    BY <1>1, <1>3, <2>1
<1>5. PICK i \in 0 .. Size, j \in 0 .. Size : h[i] = a /\ h[j] = b
  BY <1>4
<1>6. ASSUME NEW k \in 0 .. Size, NEW m \in 0 .. Size, k < m, h[k] \in TreePids, h[m] # Nobody
      PROVE  h[m] \in T!Ancestors(pp, h[k])
  <2>1. PICK g : Chain(g, pp, h[k])
    BY <1>1, <1>6, ChainExists
  <2>2. \A n \in 0 .. Size - k : g[n] = h[k + n]
    BY <1>2, <2>1, ChainAgain
  <2>3. m - k \in 0 .. Size - k /\ k + (m - k) = m /\ m - k \in 1 .. Size
    BY <1>1, <1>6
  <2>4. g[m - k] = h[m]
    BY <2>2, <2>3
  <2> QED
    BY <1>6, <2>1, <2>3, <2>4 DEF Chain
<1>7. a \in TreePids /\ b \in TreePids /\ i # j
  BY <1>4, <1>5
<1> QED
  BY <1>1, <1>5, <1>6, <1>7

-----------------------------------------------------------------------------
(* Lists.                                                                   *)

\* s has each element of X once, and nothing else.
Listed(s, X) ==
  /\ s \in Seq(X)
  /\ \A x \in X : \E i \in 1 .. Len(s) : s[i] = x
  /\ \A i, j \in 1 .. Len(s) : s[i] = s[j] => i = j

\* k has the elements that s has in S among its first n, in their order.
KeptOf(k, s, S, n) ==
  /\ \A i \in 1 .. n : s[i] \in S => \E j \in 1 .. Len(k) : k[j] = s[i]
  /\ \A j \in 1 .. Len(k) : k[j] \in S /\ \E i \in 1 .. n : k[j] = s[i]
  /\ \A i, j \in 1 .. Len(k) : i < j => \E a, b \in 1 .. n : a < b /\ k[i] = s[a] /\ k[j] = s[b]

\* One more element of the list.
LEMMA KeptNext ==
  ASSUME NEW X, NEW s \in Seq(X), NEW S, NEW n \in 0 .. Len(s) - 1, NEW k \in Seq(X), KeptOf(k, s, S, n)
  PROVE  IF s[n + 1] \in S THEN KeptOf(Append(k, s[n + 1]), s, S, n + 1) ELSE KeptOf(k, s, S, n + 1)
<1>1. Len(s) \in Nat /\ n \in Nat /\ n + 1 \in 1 .. Len(s) /\ s[n + 1] \in X /\ Len(k) \in Nat
  BY LenProperties, ElementOfSeq
<1>2. 1 .. n \subseteq 1 .. n + 1 /\ n + 1 \in 1 .. n + 1 /\ \A i \in 1 .. n + 1 : i = n + 1 \/ i \in 1 .. n
  BY <1>1
<1>3. ASSUME s[n + 1] \notin S PROVE KeptOf(k, s, S, n + 1)
  BY <1>2, <1>3 DEF KeptOf
<1>4. ASSUME s[n + 1] \in S PROVE KeptOf(Append(k, s[n + 1]), s, S, n + 1)
  <2> DEFINE e == s[n + 1]
             l == Append(k, e)
             m == Len(k)
  <2>1. Len(l) = m + 1 /\ l[m + 1] = e /\ \A i \in 1 .. m : l[i] = k[i]
    BY <1>1, AppendProperties
  <2>2. \A i \in 1 .. m + 1 : i = m + 1 \/ i \in 1 .. m
    BY <1>1
  <2>3. 1 .. m \subseteq 1 .. m + 1 /\ m + 1 \in 1 .. m + 1
    BY <1>1
  <2> HIDE DEF l
  <2>4. \A i \in 1 .. n + 1 : s[i] \in S => \E j \in 1 .. Len(l) : l[j] = s[i]
    BY <1>2, <2>1, <2>3 DEF KeptOf
  <2>5. \A j \in 1 .. Len(l) : l[j] \in S /\ \E i \in 1 .. n + 1 : l[j] = s[i]
    <3>1. l[m + 1] \in S /\ \E i \in 1 .. n + 1 : l[m + 1] = s[i]
      BY <1>2, <1>4, <2>1
    <3>2. \A j \in 1 .. m : l[j] \in S /\ \E i \in 1 .. n + 1 : l[j] = s[i]
      <4>1. \A j \in 1 .. m : k[j] \in S /\ \E i \in 1 .. n : k[j] = s[i]
        BY DEF KeptOf
      <4> QED
        BY <1>2, <2>1, <4>1
    <3> QED
      BY <2>1, <2>2, <3>1, <3>2
  <2>6. ASSUME NEW i \in 1 .. Len(l), NEW j \in 1 .. Len(l), i < j
        PROVE  \E a, b \in 1 .. n + 1 : a < b /\ l[i] = s[a] /\ l[j] = s[b]
    <3>1. i \in 1 .. m
      BY <1>1, <2>1, <2>6
    <3>2. CASE j = m + 1
      <4>1. PICK a \in 1 .. n : k[i] = s[a]
        BY <3>1 DEF KeptOf
      <4>2. a < n + 1 /\ a \in 1 .. n + 1 /\ l[i] = s[a] /\ l[j] = s[n + 1]
        BY <1>1, <2>1, <3>1, <3>2, <4>1
      <4> QED
        BY <1>2, <4>2
    <3>3. CASE j \in 1 .. m
      <4>1. PICK a \in 1 .. n, b \in 1 .. n : a < b /\ k[i] = s[a] /\ k[j] = s[b]
        BY <2>6, <3>1, <3>3 DEF KeptOf
      <4> QED
        BY <1>2, <2>1, <3>1, <3>3, <4>1
    <3> QED
      BY <2>1, <2>2, <3>2, <3>3
  <2> QED
    BY <2>4, <2>5, <2>6 DEF KeptOf, l
<1> QED
  BY <1>3, <1>4

\* Kept keeps what it says.
LEMMA KeptIs ==
  ASSUME NEW X, NEW s \in Seq(X), NEW S
  PROVE  T!Kept(s, S) \in Seq(X) /\ KeptOf(T!Kept(s, S), s, S, Len(s))
<1> DEFINE L == Len(s)
           Y == Seq(X)
           nxt == [i \in 1 .. L |-> [t \in Y |-> IF s[i] \in S THEN Append(t, s[i]) ELSE t]]
           Keep(g) == [i \in 0 .. L |-> IF i = 0 THEN <<>>
                                        ELSE IF s[i] \in S THEN Append(g[i - 1], s[i]) ELSE g[i - 1]]
<1>1. L \in Nat /\ \A i \in 1 .. L : s[i] \in X
  BY LenProperties, ElementOfSeq
<1>2. \A i \in 1 .. L : \A t \in Y : nxt[i][t] = IF s[i] \in S THEN Append(t, s[i]) ELSE t
  OBVIOUS
<1>3. \A i \in 1 .. L : \A t \in Y : Append(t, s[i]) \in Y
  BY <1>1, AppendProperties
<1>4. <<>> \in Y
  BY EmptySeq
<1> HIDE DEF Y, nxt, L
<1>5. Steps(nxt, L, Y)
  BY <1>2, <1>3 DEF Steps
<1>6. PICK f : Recurses(f, <<>>, nxt, L, Y)
  BY <1>1, <1>4, <1>5, Recursion, Zenon
<1>7. \A i \in 1 .. L : i # 0 /\ i - 1 \in 0 .. L /\ f[i - 1] \in Y
  BY <1>1, <1>6 DEF Recurses
<1>8. \A i \in 1 .. L : f[i] = IF s[i] \in S THEN Append(f[i - 1], s[i]) ELSE f[i - 1]
  BY <1>2, <1>6, <1>7 DEF Recurses
<1>9. f = [i \in 0 .. L |-> f[i]] /\ f[0] = <<>>
  BY <1>6 DEF Recurses
<1>10. \A i \in 0 .. L : i = 0 \/ i \in 1 .. L
  BY <1>1
<1>11. \A i \in 0 .. L : f[i] = IF i = 0 THEN <<>> ELSE IF s[i] \in S THEN Append(f[i - 1], s[i]) ELSE f[i - 1]
  BY <1>7, <1>8, <1>9, <1>10
<1>21. f = Keep(f)
  BY <1>9, <1>11
<1> DEFINE keep == CHOOSE g : g = Keep(g)
<1>12. keep = Keep(keep)
  BY <1>21
<1>13. T!Kept(s, S) = keep[L]
  BY DEF T!Kept, L
<1> HIDE DEF keep
<1>14. \A i \in 0 .. L : keep[i] = IF i = 0 THEN <<>>
                                  ELSE IF s[i] \in S THEN Append(keep[i - 1], s[i]) ELSE keep[i - 1]
  BY <1>12
<1> DEFINE D == {n \in Nat : n <= L => keep[n] \in Y /\ KeptOf(keep[n], s, S, n)}
<1>15. 0 \in D
  <2>1. keep[0] = <<>>
    BY <1>1, <1>14
  <2>2. keep[0] \in Y /\ Len(keep[0]) = 0
    BY <1>4, <2>1
  <2> QED
    BY <2>2 DEF KeptOf
<1>16. ASSUME NEW n \in D, n + 1 <= L PROVE keep[n + 1] \in Y /\ KeptOf(keep[n + 1], s, S, n + 1)
  <2>1. /\ n \in 0 .. L - 1 /\ n + 1 \in 0 .. L /\ n + 1 # 0 /\ n + 1 - 1 = n /\ n + 1 \in 1 .. L
        /\ keep[n] \in Y /\ KeptOf(keep[n], s, S, n)
    BY <1>1, <1>16
  <2>2. PICK k : k = keep[n]
    OBVIOUS
  <2>3. keep[n + 1] = IF s[n + 1] \in S THEN Append(k, s[n + 1]) ELSE k
    BY <1>14, <2>1, <2>2
  <2>4. IF s[n + 1] \in S THEN KeptOf(Append(k, s[n + 1]), s, S, n + 1) ELSE KeptOf(k, s, S, n + 1)
    BY <2>1, <2>2, KeptNext DEF Y, L
  <2>5. keep[n + 1] \in Y
    BY <1>3, <2>1, <2>2, <2>3
  <2>6. KeptOf(keep[n + 1], s, S, n + 1)
    BY <2>3, <2>4
  <2> QED
    BY <2>5, <2>6
<1>17. D \subseteq Nat /\ \A n \in D : n + 1 \in D
  BY <1>16
<1> HIDE DEF D
<1>18. D = Nat
  BY <1>15, <1>17, Induction
<1>19. L \in D /\ L <= L
  BY <1>1, <1>18
<1>20. keep[L] \in Y /\ KeptOf(keep[L], s, S, L)
  BY <1>19 DEF D
<1> QED
  BY <1>13, <1>20 DEF L, Y

\* What is kept of a list is a list of what is kept.
LEMMA KeptListed ==
  ASSUME NEW X, NEW s, Listed(s, X), NEW S \in SUBSET X
  PROVE  Listed(T!Kept(s, S), S)
<1>1. s \in Seq(X) /\ Len(s) \in Nat
  BY LenProperties DEF Listed
<1>2. PICK k : k = T!Kept(s, S)
  OBVIOUS
<1>3. k \in Seq(X) /\ KeptOf(k, s, S, Len(s))
  BY <1>1, <1>2, KeptIs
<1>4. Len(k) \in Nat /\ k \in [1 .. Len(k) -> S]
  BY <1>3, LenProperties DEF KeptOf
<1>5. k \in Seq(S)
  BY <1>4, SeqDef
<1>6. \A x \in S : \E i \in 1 .. Len(k) : k[i] = x
  <2> SUFFICES ASSUME NEW x \in S PROVE \E i \in 1 .. Len(k) : k[i] = x
    OBVIOUS
  <2>1. PICK a \in 1 .. Len(s) : s[a] = x
    BY DEF Listed
  <2> QED
    BY <1>3, <2>1 DEF KeptOf
<1>7. ASSUME NEW i \in 1 .. Len(k), NEW j \in 1 .. Len(k), k[i] = k[j], i < j PROVE FALSE
  <2>1. PICK a \in 1 .. Len(s), b \in 1 .. Len(s) : a < b /\ k[i] = s[a] /\ k[j] = s[b]
    BY <1>3, <1>7 DEF KeptOf
  <2> QED
    <3>1. s[a] = s[b]
      BY <1>7, <2>1
    <3>2. a = b
      BY <3>1 DEF Listed
    <3> QED
      BY <1>1, <2>1, <3>2
<1>8. \A i, j \in 1 .. Len(k) : k[i] = k[j] => i = j
  BY <1>4, <1>7
<1> QED
  BY <1>2, <1>5, <1>6, <1>8 DEF Listed

\* A process stands above what is below it, and all that stands between is too.
Nested(pp, s) ==
  \A i, k \in 1 .. Len(s) :
    s[i] \in T!Ancestors(pp, s[k]) => i < k /\ \A j \in i + 1 .. k : s[i] \in T!Ancestors(pp, s[j])

\* s lists X, which is whole: nothing below it is left out.
Block(pp, V, s, X) ==
  /\ X \subseteq V /\ Listed(s, X) /\ Nested(pp, s)
  /\ \A a \in X : \A b \in V : a \in T!Ancestors(pp, b) => b \in X

\* Two blocks that share nothing are a block, one after the other.
LEMMA TwoBlocks ==
  ASSUME NEW pp, NEW V, NEW s, NEW X, NEW t, NEW Y, Block(pp, V, s, X), Block(pp, V, t, Y), X \cap Y = {}
  PROVE  Block(pp, V, s \o t, X \cup Y)
<1> DEFINE m == Len(s)
           n == Len(t)
           u == s \o t
           Z == X \cup Y
<1>1. s \in Seq(X) /\ t \in Seq(Y) /\ s \in Seq(Z) /\ t \in Seq(Z)
  <2>1. s \in Seq(X) /\ t \in Seq(Y)
    BY DEF Block, Listed
  <2> QED
    BY <2>1, SeqMonotonic
<1>2. m \in Nat /\ n \in Nat /\ (\A i \in 1 .. m : s[i] \in X) /\ (\A i \in 1 .. n : t[i] \in Y)
  BY <1>1, LenProperties, ElementOfSeq
<1>3. u \in Seq(Z) /\ Len(u) = m + n /\ \A i \in 1 .. m + n : u[i] = IF i <= m THEN s[i] ELSE t[i - m]
  BY <1>1, ConcatProperties
<1> HIDE DEF u
<1>4. \A i \in 1 .. m : i \in 1 .. m + n /\ u[i] = s[i]
  BY <1>2, <1>3
<1>5. \A i \in 1 .. n : m + i \in 1 .. m + n /\ u[m + i] = t[i]
  <2> SUFFICES ASSUME NEW i \in 1 .. n PROVE m + i \in 1 .. m + n /\ u[m + i] = t[i]
    OBVIOUS
  <2>1. PICK k : k = m + i
    OBVIOUS
  <2>2. k \in 1 .. m + n /\ ~(k <= m) /\ k - m = i
    BY <1>2, <2>1
  <2>3. u[k] = t[k - m]
    BY <1>3, <2>2
  <2> QED
    BY <2>1, <2>2, <2>3
<1>6. \A i \in 1 .. m + n : i \in 1 .. m \/ (i - m \in 1 .. n /\ m + (i - m) = i)
  BY <1>2
<1>7. /\ \A i \in 1 .. m + n : i \in 1 .. m => u[i] \in X /\ u[i] \notin Y
      /\ \A i \in 1 .. m + n : i - m \in 1 .. n => u[i] = t[i - m] /\ u[i] \in Y /\ u[i] \notin X
  <2>1. ASSUME NEW i \in 1 .. m PROVE u[i] \in X /\ u[i] \notin Y
    BY <1>2, <1>4
  <2>2. ASSUME NEW i \in 1 .. m + n, i - m \in 1 .. n
        PROVE  u[i] = t[i - m] /\ u[i] \in Y /\ u[i] \notin X
    <3>1. ~(i <= m)
      BY <1>2, <2>2
    <3>2. u[i] = t[i - m]
      BY <1>3, <3>1
    <3>3. t[i - m] \in Y
      BY <1>2, <2>2
    <3> QED
      BY <3>2, <3>3
  <2> QED
    BY <2>1, <2>2
<1>8. Listed(u, Z)
  <2>1. ASSUME NEW z \in Z PROVE \E i \in 1 .. m + n : u[i] = z
    <3>1. CASE z \in X
      BY <1>4, <3>1 DEF Block, Listed
    <3>2. CASE z \in Y
      BY <1>5, <3>2 DEF Block, Listed
    <3> QED
      BY <3>1, <3>2
  <2>2. ASSUME NEW i \in 1 .. m + n, NEW j \in 1 .. m + n, u[i] = u[j] PROVE i = j
    <3>1. CASE i \in 1 .. m /\ j \in 1 .. m
      BY <1>4, <2>2, <3>1 DEF Block, Listed
    <3>2. CASE i - m \in 1 .. n /\ j - m \in 1 .. n
      <4>1. t[i - m] = t[j - m]
        BY <1>7, <2>2, <3>2
      <4>2. \A k, l \in 1 .. n : t[k] = t[l] => k = l
        BY DEF Block, Listed
      <4>3. i - m = j - m
        BY <3>2, <4>1, <4>2
      <4> QED
        BY <1>2, <4>3
    <3> QED
      BY <1>6, <1>7, <2>2, <3>1, <3>2
  <2> QED
    BY <1>3, <2>1, <2>2 DEF Listed
<1>9. Nested(pp, u)
  <2> SUFFICES ASSUME NEW i \in 1 .. m + n, NEW k \in 1 .. m + n, u[i] \in T!Ancestors(pp, u[k])
               PROVE  i < k /\ \A j \in i + 1 .. k : u[i] \in T!Ancestors(pp, u[j])
    BY <1>3 DEF Nested
  <2>1. u[i] \in Z /\ u[k] \in V /\ Z \subseteq V
    BY <1>6, <1>7 DEF Block
  <2>2. (u[i] \in X => u[k] \in X) /\ (u[i] \in Y => u[k] \in Y)
    BY <2>1 DEF Block
  <2>3. CASE i \in 1 .. m
    <3>1. k \in 1 .. m
      BY <1>6, <1>7, <2>2, <2>3
    <3>2. s[i] \in T!Ancestors(pp, s[k])
      BY <1>4, <2>3, <3>1
    <3>3. i < k /\ \A j \in i + 1 .. k : s[i] \in T!Ancestors(pp, s[j])
      BY <2>3, <3>1, <3>2 DEF Block, Nested
    <3>4. \A j \in i + 1 .. k : j \in 1 .. m
      BY <1>2, <2>3, <3>1
    <3> QED
      BY <1>4, <2>3, <3>3, <3>4
  <2>4. CASE i - m \in 1 .. n
    <3>1. k - m \in 1 .. n
      BY <1>6, <1>7, <2>2, <2>4
    <3>2. t[i - m] \in T!Ancestors(pp, t[k - m])
      BY <1>7, <2>4, <3>1
    <3>3. i - m < k - m /\ \A j \in (i - m) + 1 .. k - m : t[i - m] \in T!Ancestors(pp, t[j])
      BY <2>4, <3>1, <3>2 DEF Block, Nested
    <3>4. i < k
      BY <1>2, <3>3
    <3>5. ASSUME NEW j \in i + 1 .. k PROVE u[i] \in T!Ancestors(pp, u[j])
      <4>1. j - m \in (i - m) + 1 .. k - m /\ j - m \in 1 .. n /\ j \in 1 .. m + n
        BY <1>2, <2>4, <3>1
      <4>2. t[i - m] \in T!Ancestors(pp, t[j - m])
        BY <3>3, <4>1
      <4> QED
        BY <1>7, <2>4, <4>1, <4>2
    <3> QED
      BY <3>4, <3>5
  <2> QED
    BY <1>6, <2>3, <2>4
<1> QED
  BY <1>8, <1>9 DEF Block, u

\* FlattenSeq puts its sequences one after the other.
LEMMA FlattenIs ==
  ASSUME NEW X, NEW q \in Seq(Seq(X))
  PROVE  \E f : /\ f[0] = <<>> /\ \A i \in 1 .. Len(q) : f[i] = f[i - 1] \o q[i]
                /\ \A i \in 0 .. Len(q) : f[i] \in Seq(X)
                /\ T!FlattenSeq(q) = f[Len(q)]
<1> DEFINE L == Len(q)
           Y == Seq(X)
           nxt == [i \in 1 .. L |-> [t \in Y |-> t \o q[i]]]
           Flat(g) == [i \in 1 .. L |-> IF i = 1 THEN q[i] ELSE g[i - 1] \o q[i]]
<1>1. L \in Nat /\ (\A i \in 1 .. L : q[i] \in Y) /\ <<>> \in Y
  BY LenProperties, ElementOfSeq, EmptySeq
<1>2. \A i \in 1 .. L : \A t \in Y : nxt[i][t] = t \o q[i]
  OBVIOUS
<1>3. \A i \in 1 .. L : \A t \in Y : t \o q[i] \in Y
  BY <1>1, ConcatProperties
<1>4. \A t \in Y : <<>> \o t = t
  BY ConcatEmptySeq
<1> HIDE DEF Y, nxt
<1>5. Steps(nxt, L, Y)
  BY <1>2, <1>3 DEF Steps
<1>6. PICK f : Recurses(f, <<>>, nxt, L, Y)
  <2>1. PICK n : n = L
    OBVIOUS
  <2> HIDE DEF L
  <2> QED
    BY <1>1, <1>5, <2>1, Recursion, Zenon
<1>7. /\ f[0] = <<>> /\ \A i \in 0 .. L : f[i] \in Y
  BY <1>6 DEF Recurses
<1>8. \A i \in 1 .. L : i - 1 \in 0 .. L /\ f[i] = f[i - 1] \o q[i]
  <2>1. \A i \in 1 .. L : i - 1 \in 0 .. L
    BY <1>1
  <2> QED
    BY <1>2, <1>6, <1>7, <2>1 DEF Recurses
<1>9. CASE L = 0
  <2>1. q = <<>>
    BY <1>9, EmptySeq
  <2>2. T!FlattenSeq(q) = f[L]
    BY <1>7, <1>9, <2>1 DEF T!FlattenSeq
  <2> QED
    BY <1>7, <1>8, <2>2 DEF Y
<1>10. CASE L # 0
  <2> DEFINE g == [i \in 1 .. L |-> f[i]]
  <2>1. ASSUME NEW i \in 1 .. L PROVE f[i] = IF i = 1 THEN q[i] ELSE g[i - 1] \o q[i]
    <3>1. CASE i = 1
      <4>1. i - 1 = 0 /\ q[i] \in Y
        BY <1>1, <3>1 DEF Y
      <4>2. f[i] = f[i - 1] \o q[i]
        BY <1>8
      <4> QED
        BY <1>4, <1>7, <3>1, <4>1, <4>2
    <3>2. CASE i # 1
      <4>1. i - 1 \in 1 .. L
        BY <1>1, <3>2
      <4> QED
        BY <1>8, <3>2, <4>1
    <3> QED
      BY <3>1, <3>2
  <2>2. g = Flat(g)
    BY <2>1
  <2> DEFINE flatten == CHOOSE h : h = Flat(h)
  <2>3. flatten = Flat(flatten)
    BY <2>2
  <2>4. T!FlattenSeq(q) = flatten[L]
    BY <1>10 DEF T!FlattenSeq
  <2> HIDE DEF flatten
  <2>5. \A i \in 1 .. L : flatten[i] = IF i = 1 THEN q[i] ELSE flatten[i - 1] \o q[i]
    BY <2>3
  <2> DEFINE D == {n \in Nat : n + 1 <= L => flatten[n + 1] = f[n + 1]}
  <2>6. 0 \in D
    <3>1. 1 \in 1 .. L /\ 1 - 1 = 0
      BY <1>1, <1>10
    <3>2. flatten[1] = q[1] /\ f[1] = f[0] \o q[1] /\ q[1] \in Y
      BY <1>1, <1>8, <2>5, <3>1
    <3> QED
      BY <1>4, <1>7, <3>2
  <2>7. ASSUME NEW n \in D, n + 2 <= L PROVE flatten[n + 2] = f[n + 2]
    <3>1. n + 2 \in 1 .. L /\ n + 2 # 1 /\ n + 2 - 1 = n + 1 /\ flatten[n + 1] = f[n + 1]
      BY <1>1, <2>7
    <3> QED
      <4>1. PICK k : k = n + 2
        OBVIOUS
      <4>2. k \in 1 .. L /\ k # 1 /\ flatten[k - 1] = f[k - 1]
        BY <3>1, <4>1
      <4>3. flatten[k] = flatten[k - 1] \o q[k]
        BY <2>5, <4>2
      <4>4. f[k] = f[k - 1] \o q[k]
        BY <1>8, <4>2
      <4> QED
        BY <4>1, <4>2, <4>3, <4>4
  <2>8. D \subseteq Nat /\ \A n \in D : n + 1 \in D
    BY <1>1, <2>7
  <2> HIDE DEF D
  <2>9. D = Nat
    BY <2>6, <2>8, Induction
  <2>10. L - 1 \in D /\ L - 1 + 1 = L /\ L <= L
    BY <1>1, <1>10, <2>9
  <2>11. flatten[L] = f[L]
    BY <2>10 DEF D
  <2> QED
    BY <1>7, <1>8, <2>4, <2>11 DEF Y
<1> QED
  BY <1>9, <1>10

\* The sequences of q are blocks of the sets of Xs, which share nothing.
Blocks(pp, V, q, Xs) ==
  /\ \A i \in 1 .. Len(q) : Block(pp, V, q[i], Xs[i])
  /\ \A i, j \in 1 .. Len(q) : i # j => Xs[i] \cap Xs[j] = {}

AllOf(q, Xs) == UNION {Xs[i] : i \in 1 .. Len(q)}

\* They are a block, one after the other.
LEMMA ManyBlocks ==
  ASSUME NEW pp, NEW V, NEW q \in Seq(Seq(V)), NEW Xs, Blocks(pp, V, q, Xs)
  PROVE  Block(pp, V, T!FlattenSeq(q), AllOf(q, Xs))
<1> DEFINE L == Len(q)
           All(n) == UNION {Xs[i] : i \in 1 .. n}
<1>1. L \in Nat
  BY LenProperties
<1>2. PICK f : /\ f[0] = <<>> /\ \A i \in 1 .. L : f[i] = f[i - 1] \o q[i]
               /\ T!FlattenSeq(q) = f[L]
  BY FlattenIs
<1> DEFINE D == {n \in Nat : n <= L => Block(pp, V, f[n], All(n))}
<1>3. 0 \in D
  <2>1. All(0) = {}
    OBVIOUS
  <2>2. <<>> \in Seq({}) /\ Len(<<>>) = 0
    BY EmptySeq
  <2>3. Block(pp, V, <<>>, {})
    BY <2>2 DEF Block, Listed, Nested
  <2> QED
    BY <1>2, <2>1, <2>3
<1>4. ASSUME NEW n \in D, n + 1 <= L PROVE Block(pp, V, f[n + 1], All(n + 1))
  <2>1. n \in Nat /\ n + 1 \in 1 .. L /\ n + 1 - 1 = n /\ Block(pp, V, f[n], All(n))
    BY <1>1, <1>4
  <2>2. All(n + 1) = All(n) \cup Xs[n + 1]
    <3>1. \A i \in 1 .. n + 1 : i = n + 1 \/ i \in 1 .. n
      BY <2>1
    <3>2. 1 .. n \subseteq 1 .. n + 1 /\ n + 1 \in 1 .. n + 1
      BY <2>1
    <3> QED
      BY <3>1, <3>2
  <2>3. All(n) \cap Xs[n + 1] = {}
    <3>1. \A i \in 1 .. n : i \in 1 .. L /\ i # n + 1
      BY <1>1, <2>1
    <3> QED
      BY <2>1, <3>1 DEF Blocks
  <2>4. f[n + 1] = f[n] \o q[n + 1] /\ Block(pp, V, q[n + 1], Xs[n + 1])
    <3>1. PICK k : k = n + 1
      OBVIOUS
    <3>2. k \in 1 .. L /\ k - 1 = n
      BY <2>1, <3>1
    <3>3. f[k] = f[k - 1] \o q[k]
      BY <1>2, <3>2
    <3>4. Block(pp, V, q[k], Xs[k])
      BY <3>2 DEF Blocks
    <3> QED
      BY <3>1, <3>2, <3>3, <3>4
  <2> HIDE DEF All
  <2>5. Block(pp, V, f[n] \o q[n + 1], All(n) \cup Xs[n + 1])
    BY <2>1, <2>3, <2>4, TwoBlocks
  <2> QED
    BY <2>2, <2>4, <2>5
<1> HIDE DEF All
<1>5. D \subseteq Nat /\ \A n \in D : n + 1 \in D
  BY <1>4
<1> HIDE DEF D
<1>6. D = Nat
  BY <1>3, <1>5, Induction
<1>7. L \in D /\ L <= L
  BY <1>1, <1>6
<1>8. Block(pp, V, f[L], All(L))
  BY <1>7 DEF D
<1> QED
  BY <1>2, <1>8 DEF All, AllOf

-----------------------------------------------------------------------------
(* The tree in depth-first order.                                           *)

Kids(pp, V, x) == {q \in V : pp[q] = x}
Below(pp, V, p) == {r \in V : r = p \/ p \in T!Ancestors(pp, r)}
Children(pp, V, order, x) == T!Kept(order, Kids(pp, V, x))
Joined(w, c) == T!FlattenSeq([i \in DOMAIN c |-> w[c[i]]])

\* No child of a parent is above another.
LEMMA SiblingsApart ==
  ASSUME NEW pp, NEW V, Forest(pp, V), NEW a \in V, NEW b \in V, pp[a] = pp[b]
  PROVE  a \notin T!Ancestors(pp, b)
<1> SUFFICES ASSUME a \in T!Ancestors(pp, b) PROVE FALSE
  OBVIOUS
<1>1. PICK x : x = pp[b]
  OBVIOUS
<1>2. x # Nobody /\ T!Ancestors(pp, b) = {x} \cup T!Ancestors(pp, x)
  BY <1>1, AncestorsStep
<1>3. x \in V /\ x \notin T!Ancestors(pp, x)
  BY <1>1, <1>2 DEF Forest
<1>4. x \in T!Ancestors(pp, a)
  BY <1>1, <1>2, AncestorsStep
<1>5. a # x
  BY <1>3, <1>4
<1>6. T!Ancestors(pp, a) \subseteq T!Ancestors(pp, x)
  BY <1>2, <1>3, <1>5, AncestorsInside
<1> QED
  BY <1>3, <1>4, <1>6

\* The trees of two children share nothing.
LEMMA TreesApart ==
  ASSUME NEW pp, NEW V, Forest(pp, V), NEW a \in V, NEW b \in V, pp[a] = pp[b], a # b
  PROVE  Below(pp, V, a) \cap Below(pp, V, b) = {}
<1> SUFFICES ASSUME NEW r \in V, r \in Below(pp, V, a), r \in Below(pp, V, b) PROVE FALSE
  BY DEF Below
<1>1. a \in {r} \cup T!Ancestors(pp, r) /\ b \in {r} \cup T!Ancestors(pp, r)
  BY DEF Below
<1>2. a \in T!Ancestors(pp, b) \/ b \in T!Ancestors(pp, a)
  BY <1>1, Comparable
<1> QED
  BY <1>2, SiblingsApart

\* The trees of all children of x are what is below x, which is everything for nobody.
LEMMA TreesOfChildren ==
  ASSUME NEW pp, NEW V, Forest(pp, V), NEW x \in V \cup {Nobody}
  PROVE  UNION {Below(pp, V, q) : q \in Kids(pp, V, x)} = {r \in V : x = Nobody \/ x \in T!Ancestors(pp, r)}
<1>1. ASSUME NEW r \in V, x = Nobody \/ x \in T!Ancestors(pp, r)
      PROVE  \E q \in Kids(pp, V, x) : r \in Below(pp, V, q)
  <2>1. PICK q \in V : pp[q] = x /\ (q = r \/ q \in T!Ancestors(pp, r))
    BY <1>1, ChildBetween
  <2> QED
    BY <2>1 DEF Kids, Below
<1>2. ASSUME NEW q \in Kids(pp, V, x), NEW r \in Below(pp, V, q), x # Nobody
      PROVE  x \in T!Ancestors(pp, r)
  <2>1. q \in V /\ pp[q] = x /\ r \in V /\ (r = q \/ q \in T!Ancestors(pp, r))
    BY DEF Kids, Below
  <2>2. x \in T!Ancestors(pp, q)
    BY <1>2, <2>1, AncestorsStep
  <2> QED
    BY <2>1, <2>2, AncestorsInside
<1>3. \A q \in Kids(pp, V, x) : Below(pp, V, q) \subseteq V
  BY DEF Below
<1> QED
  BY <1>1, <1>2, <1>3

\* If each child's tree is drawn as a block, what is below x is.
LEMMA JoinedBlock ==
  ASSUME NEW pp, NEW V, Forest(pp, V), NEW order, Listed(order, TreePids),
         NEW x \in V \cup {Nobody}, NEW w,
         \A q \in Kids(pp, V, x) : Block(pp, V, w[q], Below(pp, V, q))
  PROVE  Block(pp, V, Joined(w, Children(pp, V, order, x)),
               {r \in V : x = Nobody \/ x \in T!Ancestors(pp, r)})
<1>1. PICK c : c = Children(pp, V, order, x)
  OBVIOUS
<1>2. Listed(c, Kids(pp, V, x))
  <2>1. Kids(pp, V, x) \subseteq TreePids
    BY DEF Kids, Forest
  <2> QED
    BY <1>1, <2>1, KeptListed DEF Children
<1>3. /\ Len(c) \in Nat /\ DOMAIN c = 1 .. Len(c) /\ \A i \in 1 .. Len(c) : c[i] \in Kids(pp, V, x)
      /\ \A q \in Kids(pp, V, x) : \E i \in 1 .. Len(c) : c[i] = q
      /\ \A i, j \in 1 .. Len(c) : c[i] = c[j] => i = j
  BY <1>2, LenProperties, ElementOfSeq DEF Listed
<1> DEFINE L == Len(c)
           q == [i \in 1 .. L |-> w[c[i]]]
           Xs == [i \in 1 .. L |-> Below(pp, V, c[i])]
<1>4. \A i \in 1 .. L : w[c[i]] \in Seq(V)
  <2> SUFFICES ASSUME NEW i \in 1 .. L PROVE w[c[i]] \in Seq(V)
    OBVIOUS
  <2>1. Block(pp, V, w[c[i]], Below(pp, V, c[i]))
    BY <1>3
  <2> QED
    BY <2>1, SeqMonotonic DEF Block, Listed
<1>5. q \in Seq(Seq(V)) /\ Len(q) = L /\ \A i \in 1 .. L : q[i] = w[c[i]]
  <2> DEFINE Y == Seq(V)
  <2>1. \A i \in 1 .. L : w[c[i]] \in Y
    BY <1>4
  <2> HIDE DEF Y
  <2>2. q \in [1 .. L -> Y]
    BY <2>1
  <2>3. q \in Seq(Y)
    BY <1>3, <2>2, SeqDef
  <2>4. Len(q) = L
    BY <1>3, <2>2, <2>3, LenProperties
  <2> QED
    BY <2>3, <2>4 DEF Y
<1>6. \A i \in 1 .. L : Xs[i] = Below(pp, V, c[i]) /\ Block(pp, V, w[c[i]], Xs[i])
  BY <1>3
<1>7. \A i, j \in 1 .. L : i # j => Xs[i] \cap Xs[j] = {}
  <2> SUFFICES ASSUME NEW i \in 1 .. L, NEW j \in 1 .. L, i # j PROVE Xs[i] \cap Xs[j] = {}
    OBVIOUS
  <2>1. PICK a, b : a = c[i] /\ b = c[j]
    OBVIOUS
  <2>2. a \in V /\ b \in V /\ pp[a] = pp[b] /\ a # b
    BY <1>3, <2>1 DEF Kids
  <2> QED
    BY <1>6, <2>1, <2>2, TreesApart
<1>8. UNION {Xs[i] : i \in 1 .. L} = UNION {Below(pp, V, k) : k \in Kids(pp, V, x)}
  BY <1>3, <1>6
<1>9. Joined(w, c) = T!FlattenSeq(q)
  BY <1>3 DEF Joined
<1> HIDE DEF q, Xs
<1>10. Block(pp, V, T!FlattenSeq(q), AllOf(q, Xs))
  <2>1. Blocks(pp, V, q, Xs)
    BY <1>5, <1>6, <1>7 DEF Blocks
  <2> QED
    BY <1>5, <2>1, ManyBlocks
<1>11. AllOf(q, Xs) = {r \in V : x = Nobody \/ x \in T!Ancestors(pp, r)}
  <2>1. AllOf(q, Xs) = UNION {Xs[i] : i \in 1 .. L}
    BY <1>5 DEF AllOf
  <2>2. UNION {Below(pp, V, k) : k \in Kids(pp, V, x)} = {r \in V : x = Nobody \/ x \in T!Ancestors(pp, r)}
    BY TreesOfChildren
  <2> QED
    BY <1>8, <2>1, <2>2, Zenon
<1> QED
  BY <1>1, <1>9, <1>10, <1>11

\* A process in front of the block of those below it makes the block of its tree.
LEMMA RootedBlock ==
  ASSUME NEW pp, NEW V, Forest(pp, V), NEW p \in V, NEW t,
         Block(pp, V, t, {r \in V : p \in T!Ancestors(pp, r)})
  PROVE  Block(pp, V, <<p>> \o t, Below(pp, V, p))
<1> DEFINE X == {r \in V : p \in T!Ancestors(pp, r)}
           Z == Below(pp, V, p)
           n == Len(t)
           u == <<p>> \o t
<1>1. Z = {p} \cup X /\ p \notin X /\ X \subseteq V
  BY DEF Below, Forest
<1>2. t \in Seq(X) /\ <<p>> \in Seq(Z) /\ t \in Seq(Z) /\ Len(<<p>>) = 1 /\ <<p>>[1] = p
  <2>1. t \in Seq(X)
    BY DEF Block, Listed
  <2> QED
    BY <1>1, <2>1, SeqMonotonic
<1>3. n \in Nat /\ \A i \in 1 .. n : t[i] \in X
  BY <1>2, LenProperties, ElementOfSeq
<1>4. u \in Seq(Z) /\ Len(u) = n + 1 /\ \A i \in 1 .. n + 1 : u[i] = IF i = 1 THEN p ELSE t[i - 1]
  <2>1. u \in Seq(Z) /\ Len(u) = 1 + n /\ \A i \in 1 .. 1 + n : u[i] = IF i <= 1 THEN <<p>>[i] ELSE t[i - 1]
    BY <1>2, ConcatProperties
  <2>2. 1 + n = n + 1 /\ \A i \in 1 .. n + 1 : i <= 1 <=> i = 1
    BY <1>3
  <2> QED
    BY <1>2, <2>1, <2>2
<1> HIDE DEF u
<1>5. 1 \in 1 .. n + 1 /\ u[1] = p /\ \A i \in 1 .. n + 1 : i = 1 \/ i - 1 \in 1 .. n
  BY <1>3, <1>4
<1>6. \A i \in 1 .. n + 1 : i # 1 => u[i] = t[i - 1] /\ u[i] \in X /\ u[i] # p
  BY <1>1, <1>3, <1>4, <1>5
<1>7. Listed(u, Z)
  <2>1. ASSUME NEW z \in X PROVE \E i \in 1 .. n + 1 : u[i] = z
    <3>1. PICK i \in 1 .. n : t[i] = z
      BY DEF Block, Listed
    <3>2. PICK k : k = i + 1
      OBVIOUS
    <3>3. k \in 1 .. n + 1 /\ k # 1 /\ k - 1 = i
      BY <1>3, <3>2
    <3>4. u[k] = z
      BY <1>6, <3>1, <3>3
    <3> QED
      BY <3>3, <3>4
  <2>2. ASSUME NEW i \in 1 .. n + 1, NEW j \in 1 .. n + 1, u[i] = u[j] PROVE i = j
    <3>1. CASE i # 1 /\ j # 1
      <4>1. i - 1 \in 1 .. n /\ j - 1 \in 1 .. n /\ t[i - 1] = t[j - 1]
        BY <1>5, <1>6, <2>2, <3>1
      <4>2. \A k, l \in 1 .. n : t[k] = t[l] => k = l
        BY DEF Block, Listed
      <4>3. i - 1 = j - 1
        BY <4>1, <4>2
      <4> QED
        BY <4>3
    <3> QED
      BY <1>5, <1>6, <2>2, <3>1
  <2> QED
    BY <1>1, <1>4, <1>5, <2>1, <2>2 DEF Listed
<1>8. Nested(pp, u)
  <2> SUFFICES ASSUME NEW i \in 1 .. n + 1, NEW k \in 1 .. n + 1, u[i] \in T!Ancestors(pp, u[k])
               PROVE  i < k /\ \A j \in i + 1 .. k : u[i] \in T!Ancestors(pp, u[j])
    BY <1>4 DEF Nested
  <2>1. CASE i = 1
    <3>1. k # 1
      BY <1>5, <2>1 DEF Forest
    <3>2. \A j \in i + 1 .. k : j \in 1 .. n + 1 /\ j # 1
      BY <1>3, <2>1
    <3>3. \A j \in i + 1 .. k : u[i] \in T!Ancestors(pp, u[j])
      BY <1>5, <1>6, <2>1, <3>2
    <3> QED
      BY <1>3, <2>1, <3>1, <3>3
  <2>2. CASE i # 1
    <3>1. k # 1
      <4> SUFFICES ASSUME k = 1 PROVE FALSE
        OBVIOUS
      <4>1. u[i] \in T!Ancestors(pp, p) /\ u[i] \in V /\ p \in T!Ancestors(pp, u[i])
        BY <1>5, <1>6, <2>2
      <4>2. p \in T!Ancestors(pp, p)
        BY <4>1, AncestorsInside
      <4> QED
        BY <4>2 DEF Forest
    <3>2. i - 1 \in 1 .. n /\ k - 1 \in 1 .. n /\ t[i - 1] \in T!Ancestors(pp, t[k - 1])
      BY <1>5, <1>6, <2>2, <3>1
    <3>3. i - 1 < k - 1 /\ \A j \in (i - 1) + 1 .. k - 1 : t[i - 1] \in T!Ancestors(pp, t[j])
      BY <3>2 DEF Block, Nested
    <3>4. ASSUME NEW j \in i + 1 .. k PROVE u[i] \in T!Ancestors(pp, u[j])
      <4>1. j - 1 \in (i - 1) + 1 .. k - 1 /\ j \in 1 .. n + 1 /\ j # 1
        BY <1>3, <2>2
      <4>2. t[i - 1] \in T!Ancestors(pp, t[j - 1])
        BY <3>3, <4>1
      <4> QED
        BY <1>6, <2>2, <4>1, <4>2
    <3> QED
      BY <3>3, <3>4
  <2> QED
    BY <2>1, <2>2
<1>9. \A a \in Z : \A b \in V : a \in T!Ancestors(pp, b) => b \in Z
  BY <1>1, AncestorsInside
<1> QED
  BY <1>1, <1>7, <1>8, <1>9 DEF Block, u

\* w is what the recursion makes of each process of U.
Walk(w, pp, V, order, U) ==
  /\ w = [p \in U |-> w[p]]
  /\ \A p \in U : w[p] = <<p>> \o Joined(w, Children(pp, V, order, p))

\* In every part of a forest there is one whose parent is not in it.
LEMMA TopOf ==
  ASSUME NEW pp, NEW V, Forest(pp, V), NEW U \in SUBSET V, U # {}
  PROVE  \E r \in U : pp[r] \notin U
<1>1. PICK u \in U : TRUE
  OBVIOUS
<1>2. Size \in Nat /\ Nobody \notin TreePids /\ u \in TreePids /\ pp \in Parents /\ u \in V
  BY SizeOfTree DEF Forest
<1>3. PICK h : Chain(h, pp, u)
  BY <1>2, ChainExists
<1> DEFINE At == {n \in 0 .. Size : h[n] \notin U}
<1>4. At # {} /\ At \subseteq Nat
  <2>1. h[Size] = Nobody
    BY <1>2, <1>3, ChainEnds
  <2> QED
    BY <1>2, <2>1 DEF Forest
<1>5. PICK n \in At : \A m \in At : n <= m
  BY <1>4, LeastOf
<1>6. n # 0
  BY <1>3 DEF Chain
<1>7. n \in 1 .. Size /\ n - 1 \in 0 .. Size /\ h[n] \notin U
  BY <1>2, <1>6
<1>8. h[n - 1] \in U
  BY <1>2, <1>5, <1>7
<1>9. h[n - 1] # Nobody
  BY <1>2, <1>8 DEF Forest
<1>10. h[n] = pp[h[n - 1]]
  BY <1>3, <1>7, <1>9 DEF Chain
<1> QED
  BY <1>7, <1>8, <1>10

\* The children of a process are a list.
LEMMA ChildrenListed ==
  ASSUME NEW pp, NEW V, Forest(pp, V), NEW order, Listed(order, TreePids), NEW x
  PROVE  /\ DOMAIN Children(pp, V, order, x) = 1 .. Len(Children(pp, V, order, x))
         /\ \A i \in DOMAIN Children(pp, V, order, x) :
              Children(pp, V, order, x)[i] \in V /\ pp[Children(pp, V, order, x)[i]] = x
<1>1. PICK c : c = Children(pp, V, order, x)
  OBVIOUS
<1>2. Listed(c, Kids(pp, V, x))
  <2>1. Kids(pp, V, x) \subseteq TreePids
    BY DEF Kids, Forest
  <2> QED
    BY <1>1, <2>1, KeptListed DEF Children
<1>3. DOMAIN c = 1 .. Len(c) /\ \A i \in 1 .. Len(c) : c[i] \in Kids(pp, V, x)
  BY <1>2, LenProperties, ElementOfSeq DEF Listed
<1> QED
  BY <1>1, <1>3 DEF Kids

\* There is what the recursion from U returns.
Ends(pp, V, order, U) == \E w : Walk(w, pp, V, order, U)

\* The recursion comes to an end: it goes from each process to what is below it.
LEMMA WalkExists ==
  ASSUME NEW pp, NEW V, Forest(pp, V), NEW order, Listed(order, TreePids)
  PROVE  Ends(pp, V, order, V)
<1> DEFINE Whole(U) == \A q \in V : pp[q] \in U => q \in U
           D == {n \in Nat : \A U \in SUBSET V : Cardinality(U) = n /\ Whole(U) => Ends(pp, V, order, U)}
<1>1. IsFiniteSet(V) /\ \A U \in SUBSET V : IsFiniteSet(U) /\ Cardinality(U) \in Nat
  BY SizeOfTree, FS_Subset, FS_CardinalityType DEF Forest
<1>2. 0 \in D
  <2> SUFFICES ASSUME NEW U \in SUBSET V, Cardinality(U) = 0 PROVE Ends(pp, V, order, U)
    OBVIOUS
  <2>1. U = {}
    BY <1>1, FS_EmptySet
  <2> DEFINE w == [p \in U |-> p]
  <2>2. w = [p \in U |-> w[p]]
    OBVIOUS
  <2>3. Walk(w, pp, V, order, U)
    BY <2>1, <2>2 DEF Walk
  <2> QED
    BY <2>3 DEF Ends
<1>3. ASSUME NEW n \in D, NEW U \in SUBSET V, Cardinality(U) = n + 1, Whole(U)
      PROVE  Ends(pp, V, order, U)
  <2>1. n \in Nat /\ U # {}
    BY <1>1, <1>3, FS_EmptySet
  <2>2. PICK r \in U : pp[r] \notin U
    BY <2>1, TopOf
  <2> DEFINE W == U \ {r}
  <2>3. Cardinality(W) = n /\ W \in SUBSET V
    <3>1. Cardinality(W) = Cardinality(U) - 1
      BY <1>1, <2>2, FS_RemoveElement
    <3> QED
      BY <1>3, <2>1, <3>1
  <2>4. Whole(W)
    BY <1>3, <2>2
  <2>5. Ends(pp, V, order, W)
    BY <2>3, <2>4
  <2>6. PICK g : Walk(g, pp, V, order, W)
    BY <2>5 DEF Ends
  <2> DEFINE w == [p \in U |-> IF p = r THEN <<r>> \o Joined(g, Children(pp, V, order, r)) ELSE g[p]]
  <2>7. w = [p \in U |-> w[p]] /\ w[r] = <<r>> \o Joined(g, Children(pp, V, order, r))
    OBVIOUS
  <2>8. \A p \in W : w[p] = g[p]
    OBVIOUS
  <2> HIDE DEF w
  <2>9. ASSUME NEW p \in U PROVE Joined(w, Children(pp, V, order, p)) = Joined(g, Children(pp, V, order, p))
    <3>1. PICK c : c = Children(pp, V, order, p)
      OBVIOUS
    <3>2. \A i \in DOMAIN c : c[i] \in W
      BY <1>3, <2>2, <3>1, ChildrenListed
    <3>3. [i \in DOMAIN c |-> w[c[i]]] = [i \in DOMAIN c |-> g[c[i]]]
      BY <2>8, <3>2
    <3> QED
      BY <3>1, <3>3 DEF Joined
  <2>10. ASSUME NEW p \in U PROVE w[p] = <<p>> \o Joined(w, Children(pp, V, order, p))
    <3>1. CASE p = r
      BY <2>7, <2>9, <3>1
    <3>2. CASE p # r
      <4>1. p \in W /\ w[p] = g[p]
        BY <2>8, <3>2
      <4>2. g[p] = <<p>> \o Joined(g, Children(pp, V, order, p))
        BY <2>6, <4>1 DEF Walk
      <4> QED
        BY <2>9, <4>1, <4>2
    <3> QED
      BY <3>1, <3>2
  <2>11. Walk(w, pp, V, order, U)
    BY <2>7, <2>10 DEF Walk
  <2> QED
    BY <2>11 DEF Ends
<1>4. D \subseteq Nat /\ \A n \in D : n + 1 \in D
  <2> HIDE DEF Whole
  <2> QED
    BY <1>3
<1> HIDE DEF D
<1>5. D = Nat
  BY <1>2, <1>4, Induction
<1>6. Whole(V) /\ V \in SUBSET V /\ Cardinality(V) \in D
  BY <1>1, <1>5
<1> HIDE DEF Whole
<1> QED
  BY <1>6 DEF D

\* What the recursion makes of a process is the block of its tree.
LEMMA WalkBlocks ==
  ASSUME NEW pp, NEW V, Forest(pp, V), NEW order, Listed(order, TreePids),
         NEW w, Walk(w, pp, V, order, V)
  PROVE  \A p \in V : Block(pp, V, w[p], Below(pp, V, p))
<1> DEFINE D == {n \in Nat : \A p \in V : Cardinality(Below(pp, V, p)) <= n => Block(pp, V, w[p], Below(pp, V, p))}
<1>1. \A p \in V : IsFiniteSet(Below(pp, V, p)) /\ Cardinality(Below(pp, V, p)) \in Nat
  <2>1. \A p \in V : Below(pp, V, p) \subseteq TreePids
    BY DEF Below, Forest
  <2> QED
    BY <2>1, SizeOfTree, FS_Subset, FS_CardinalityType
<1>2. 0 \in D
  <2> SUFFICES ASSUME NEW p \in V, Cardinality(Below(pp, V, p)) <= 0 PROVE FALSE
    OBVIOUS
  <2>1. Below(pp, V, p) = {}
    BY <1>1, FS_EmptySet
  <2> QED
    BY <2>1 DEF Below
<1>3. ASSUME NEW n \in D, NEW p \in V, Cardinality(Below(pp, V, p)) <= n + 1
      PROVE  Block(pp, V, w[p], Below(pp, V, p))
  <2>1. ASSUME NEW q \in Kids(pp, V, p) PROVE Block(pp, V, w[q], Below(pp, V, q))
    <3>1. q \in V /\ p \in T!Ancestors(pp, q)
      <4>1. q \in V /\ pp[q] = p /\ p # Nobody
        BY SizeOfTree DEF Kids, Forest
      <4> QED
        BY <4>1, AncestorsStep
    <3>2. Below(pp, V, q) \subseteq Below(pp, V, p)
      BY <3>1, AncestorsInside DEF Below
    <3>3. p \in Below(pp, V, p) /\ p \notin Below(pp, V, q)
      <4>1. ASSUME q \in T!Ancestors(pp, p) PROVE FALSE
        <5>1. p \in T!Ancestors(pp, p)
          BY <3>1, <4>1, AncestorsInside
        <5> QED
          BY <5>1 DEF Forest
      <4>2. p # q
        BY <3>1 DEF Forest
      <4> QED
        BY <4>1, <4>2 DEF Below
    <3>4. Cardinality(Below(pp, V, q)) < Cardinality(Below(pp, V, p))
      <4>1. PICK A, B : A = Below(pp, V, q) /\ B = Below(pp, V, p)
        OBVIOUS
      <4>2. IsFiniteSet(B) /\ A \in SUBSET B /\ A # B
        BY <1>1, <3>2, <3>3, <4>1
      <4>3. Cardinality(A) <= Cardinality(B) /\ (Cardinality(A) = Cardinality(B) => A = B)
        BY <4>2, FS_Subset
      <4> QED
        BY <1>1, <3>1, <4>1, <4>2, <4>3
    <3>5. n \in Nat /\ Cardinality(Below(pp, V, q)) <= n
      BY <1>1, <1>3, <3>1, <3>4
    <3> QED
      BY <3>1, <3>5
  <2>2. p # Nobody
    BY SizeOfTree DEF Forest
  <2>3. Block(pp, V, Joined(w, Children(pp, V, order, p)), {r \in V : p = Nobody \/ p \in T!Ancestors(pp, r)})
    BY <2>1, JoinedBlock
  <2>4. {r \in V : p = Nobody \/ p \in T!Ancestors(pp, r)} = {r \in V : p \in T!Ancestors(pp, r)}
    BY <2>2
  <2>5. PICK t : t = Joined(w, Children(pp, V, order, p))
    OBVIOUS
  <2>6. Block(pp, V, t, {r \in V : p \in T!Ancestors(pp, r)})
    BY <2>3, <2>4, <2>5
  <2>7. Block(pp, V, <<p>> \o t, Below(pp, V, p))
    BY <2>6, RootedBlock
  <2> QED
    BY <2>5, <2>7 DEF Walk
<1>4. D \subseteq Nat /\ \A n \in D : n + 1 \in D
  BY <1>3
<1> HIDE DEF D
<1>5. D = Nat
  BY <1>2, <1>4, Induction
<1> SUFFICES ASSUME NEW p \in V PROVE Block(pp, V, w[p], Below(pp, V, p))
  OBVIOUS
<1>6. Cardinality(Below(pp, V, p)) \in D /\ Cardinality(Below(pp, V, p)) <= Cardinality(Below(pp, V, p))
  BY <1>1, <1>5
<1> QED
  BY <1>6 DEF D

\* The tree in depth-first order lists all processes, each above what is below it.
LEMMA DepthFirstBlock ==
  ASSUME NEW pp, NEW V, Forest(pp, V), NEW order, Listed(order, TreePids)
  PROVE  Block(pp, V, T!DepthFirst(pp, V, order), V)
<1> DEFINE Tree(w) == [p \in V |-> <<p>> \o Joined(w, Children(pp, V, order, p))]
<1>1. PICK u : Walk(u, pp, V, order, V)
  BY WalkExists DEF Ends
<1>2. u = Tree(u)
  BY <1>1 DEF Walk
<1> DEFINE walk == CHOOSE w : w = Tree(w)
<1>3. walk = Tree(walk)
  BY <1>2
<1>4. T!DepthFirst(pp, V, order) = Joined(walk, Children(pp, V, order, Nobody))
  BY DEF T!DepthFirst, Joined, Children, Kids
<1> HIDE DEF walk
<1>5. Walk(walk, pp, V, order, V)
  <2>1. \A p \in V : walk[p] = <<p>> \o Joined(walk, Children(pp, V, order, p))
    BY <1>3
  <2>2. walk = [p \in V |-> walk[p]]
    BY <1>3
  <2> QED
    BY <2>1, <2>2 DEF Walk
<1>6. \A q \in Kids(pp, V, Nobody) : Block(pp, V, walk[q], Below(pp, V, q))
  BY <1>5, WalkBlocks DEF Kids
<1>7. Block(pp, V, Joined(walk, Children(pp, V, order, Nobody)),
            {r \in V : Nobody = Nobody \/ Nobody \in T!Ancestors(pp, r)})
  BY <1>6, JoinedBlock
<1>8. {r \in V : Nobody = Nobody \/ Nobody \in T!Ancestors(pp, r)} = V
  OBVIOUS
<1> QED
  BY <1>4, <1>7, <1>8

-----------------------------------------------------------------------------
(* What the tree shows.                                                     *)

\* Any order of the sort columns lists all processes.
LEMMA OrdersList == \A order \in Orders : Listed(order, TreePids)
<1> SUFFICES ASSUME NEW order \in Orders PROVE Listed(order, TreePids)
  OBVIOUS
<1>1. IsFiniteSet(TreePids) /\ Size \in Nat /\ Size = Cardinality(TreePids)
  BY SizeOfTree DEF Size
<1>2. order \in [1 .. Size -> TreePids] /\ \A i, j \in 1 .. Size : i # j => order[i] # order[j]
  BY ScreenAssumption DEF ScreenAssumption, T!TreeAssumption, T!SetToSeqs, Size, T!Cardinality, Cardinality
<1>3. order \in Seq(TreePids) /\ Len(order) = Size
  <2>1. order \in Seq(TreePids)
    BY <1>1, <1>2, SeqDef
  <2> QED
    BY <1>1, <1>2, <2>1, LenProperties
<1>4. ASSUME NEW x \in TreePids PROVE \E i \in 1 .. Size : order[i] = x
  <2> SUFFICES ASSUME \A i \in 1 .. Size : order[i] # x PROVE FALSE
    OBVIOUS
  <2> DEFINE R == TreePids \ {x}
  <2>1. IsFiniteSet(R) /\ Cardinality(R) = Size - 1
    BY <1>1, FS_RemoveElement
  <2>2. order \in [1 .. Size -> R]
    BY <1>2
  <2>3. IsFiniteSet(1 .. Size) /\ Cardinality(1 .. Size) = Size
    BY <1>1, FS_Interval
  <2>4. Cardinality(R) < Cardinality(1 .. Size)
    BY <1>1, <2>1, <2>3
  <2> HIDE DEF R
  <2>5. \E i, j \in 1 .. Size : i # j /\ order[i] = order[j]
    BY <2>1, <2>2, <2>3, <2>4, FS_PigeonHole
  <2> QED
    BY <1>2, <2>5
<1> QED
  BY <1>2, <1>3, <1>4 DEF Listed

\* A list has as many elements as its set.
LEMMA ListedLength ==
  ASSUME NEW X, NEW s, Listed(s, X)
  PROVE  IsFiniteSet(X) /\ Len(s) = Cardinality(X) /\ T!ToSet(s) = X
<1>1. s \in Seq(X) /\ Len(s) \in Nat /\ DOMAIN s = 1 .. Len(s) /\ \A i \in 1 .. Len(s) : s[i] \in X
  BY LenProperties, ElementOfSeq DEF Listed
<1>2. s \in Bijection(1 .. Len(s), X)
  <2>1. s \in [1 .. Len(s) -> X]
    BY <1>1, LenProperties
  <2>2. s \in Injection(1 .. Len(s), X)
    BY <2>1 DEF Listed, Injection, IsInjective
  <2>3. s \in Surjection(1 .. Len(s), X)
    BY <2>1 DEF Listed, Surjection
  <2> QED
    BY <2>2, <2>3 DEF Bijection
<1>3. IsFiniteSet(1 .. Len(s)) /\ Cardinality(1 .. Len(s)) = Len(s)
  <2>1. PICK n \in Nat : n = Len(s)
    BY <1>1
  <2>2. IsFiniteSet(1 .. n) /\ Cardinality(1 .. n) = n
    BY FS_Interval
  <2> QED
    BY <2>1, <2>2
<1>4. IsFiniteSet(X) /\ Cardinality(X) = Cardinality(1 .. Len(s))
  BY <1>2, <1>3, FS_Bijection DEF ExistsBijection
<1>5. T!ToSet(s) = X
  BY <1>1 DEF T!ToSet, Listed
<1> QED
  BY <1>3, <1>4, <1>5

\* What is kept of a block is in the same order.
LEMMA KeptNested ==
  ASSUME NEW pp, NEW V, Forest(pp, V), NEW s, Block(pp, V, s, V), NEW S \in SUBSET V
  PROVE  Nested(pp, T!Kept(s, S))
<1>1. PICK k : k = T!Kept(s, S)
  OBVIOUS
<1>2. s \in Seq(V) /\ Len(s) \in Nat /\ Listed(s, V) /\ Nested(pp, s)
  BY LenProperties DEF Block, Listed
<1>3. k \in Seq(V) /\ KeptOf(k, s, S, Len(s))
  BY <1>1, <1>2, KeptIs
<1>4. Len(k) \in Nat /\ \A i \in 1 .. Len(k) : k[i] \in V
  BY <1>3, LenProperties, ElementOfSeq
<1>5. \A i, j \in 1 .. Len(k) : i < j => \E a, b \in 1 .. Len(s) : a < b /\ k[i] = s[a] /\ k[j] = s[b]
  BY <1>3 DEF KeptOf
<1>6. \A a, b \in 1 .. Len(s) : s[a] = s[b] => a = b
  BY <1>2 DEF Listed
<1> SUFFICES ASSUME NEW i \in 1 .. Len(k), NEW m \in 1 .. Len(k), k[i] \in T!Ancestors(pp, k[m])
             PROVE  i < m /\ \A j \in i + 1 .. m : k[i] \in T!Ancestors(pp, k[j])
  BY <1>1 DEF Nested
<1>7. PICK a \in 1 .. Len(s), b \in 1 .. Len(s) : k[i] = s[a] /\ k[m] = s[b]
  BY <1>3 DEF KeptOf
<1>8. a < b /\ \A c \in a + 1 .. b : s[a] \in T!Ancestors(pp, s[c])
  BY <1>2, <1>7 DEF Nested
<1>9. i # m
  BY <1>4 DEF Forest
<1>10. i < m
  <2> SUFFICES ASSUME m < i PROVE FALSE
    BY <1>4, <1>9
  <2>1. PICK c \in 1 .. Len(s), d \in 1 .. Len(s) : c < d /\ k[m] = s[c] /\ k[i] = s[d]
    BY <1>5
  <2>2. c = b /\ d = a
    BY <1>6, <1>7, <2>1
  <2> QED
    BY <1>2, <1>8, <2>1, <2>2
<1>11. ASSUME NEW j \in i + 1 .. m PROVE k[i] \in T!Ancestors(pp, k[j])
  <2>1. j \in 1 .. Len(k) /\ i < j /\ (j = m \/ j < m)
    BY <1>4
  <2>2. PICK c \in 1 .. Len(s), d \in 1 .. Len(s) : c < d /\ k[i] = s[c] /\ k[j] = s[d]
    BY <1>5, <2>1
  <2>3. c = a
    BY <1>6, <1>7, <2>2
  <2>4. d <= b
    <3>1. CASE j = m
      <4>1. d = b
        BY <1>6, <1>7, <2>2, <3>1
      <4> QED
        BY <1>2, <4>1
    <3>2. CASE j < m
      <4>1. PICK e \in 1 .. Len(s), f \in 1 .. Len(s) : e < f /\ k[j] = s[e] /\ k[m] = s[f]
        BY <1>5, <2>1, <3>2
      <4>2. e = d /\ f = b
        BY <1>6, <1>7, <2>2, <4>1
      <4> QED
        BY <1>2, <4>1, <4>2
    <3> QED
      BY <2>1, <3>1, <3>2
  <2>5. d \in a + 1 .. b
    BY <1>2, <2>2, <2>3, <2>4
  <2> QED
    BY <1>7, <1>8, <2>2, <2>5
<1> QED
  BY <1>10, <1>11

\* The processes whom the filter leaves out, and those below collapsed ones.
Out(pp, V, f) == {p \in V : ({p} \cup T!Ancestors(pp, p)) \cap f = {}}
Hid(pp, V, coll) == {p \in V : T!Ancestors(pp, p) \cap coll # {}}

\* Above tells the ancestors of each.
LEMMA AboveIs ==
  ASSUME NEW pp, NEW p \in TreePids
  PROVE  T!Above(pp)[p] = T!Ancestors(pp, p)
BY DEF T!Above

\* The recursion comes to all processes of a forest.
LEMMA VisitsAll ==
  ASSUME NEW pp, NEW V, Forest(pp, V)
  PROVE  T!Visited(T!Above(pp), V) = V
<1>1. \A p \in V : T!Above(pp)[p] = T!Ancestors(pp, p)
  BY AboveIs DEF Forest
<1>2. ASSUME NEW p \in V PROVE p \in T!Visited(T!Above(pp), V)
  <2>1. T!Ancestors(pp, p) \subseteq V
    BY AncestorsInside
  <2>2. \A q \in {p} \cup T!Ancestors(pp, p) : q \in V /\ q \notin T!Ancestors(pp, q)
    BY <2>1 DEF Forest
  <2> QED
    BY <1>1, <2>1, <2>2 DEF T!Visited
<1> QED
  BY <1>2 DEF T!Visited

\* What is below a collapsed process that is shown matches the filter, and so
\* does its parent.
LEMMA BelowShown ==
  ASSUME NEW pp, NEW V, Forest(pp, V), NEW f, NEW coll \in SUBSET V, coll \cap Out(pp, V, f) = {},
         NEW p \in Hid(pp, V, coll)
  PROVE  p \in V /\ p \notin Out(pp, V, f) /\ pp[p] \notin Out(pp, V, f)
<1>1. p \in V
  BY DEF Hid
<1>2. PICK c \in coll : c \in T!Ancestors(pp, p)
  BY DEF Hid
<1>3. ({c} \cup T!Ancestors(pp, c)) \cap f # {}
  BY DEF Out
<1>4. T!Ancestors(pp, c) \subseteq T!Ancestors(pp, p)
  BY <1>1, <1>2, AncestorsInside
<1>5. p \notin Out(pp, V, f)
  BY <1>2, <1>3, <1>4 DEF Out
<1>6. pp[p] # Nobody /\ T!Ancestors(pp, p) = {pp[p]} \cup T!Ancestors(pp, pp[p])
  BY <1>1, <1>2, AncestorsStep
<1>7. pp[p] \in V
  BY <1>1, <1>6 DEF Forest
<1>8. {c} \cup T!Ancestors(pp, c) \subseteq {pp[p]} \cup T!Ancestors(pp, pp[p])
  BY <1>2, <1>4, <1>6
<1>9. pp[p] \notin Out(pp, V, f)
  BY <1>3, <1>8 DEF Out
<1> QED
  BY <1>1, <1>5, <1>9

\* The size of a set is the same in module Tree.
LEMMA SameSize == \A S : T!Cardinality(S) = Cardinality(S)
BY Zenon DEF T!Cardinality, Cardinality

\* The marks after a collection.
LEMMA MarksAnew ==
  ASSUME NEW pp, NEW V, Forest(pp, V), NEW f, NEW coll \in SUBSET V, coll \cap Out(pp, V, f) = {}
  PROVE  /\ T!TreeGen(pp, T!Above(pp), V, coll, f, TRUE, {}).filtered = Out(pp, V, f) \cup Hid(pp, V, coll)
         /\ T!TreeGen(pp, T!Above(pp), V, coll, f, TRUE, {}).count
              = Cardinality(Out(pp, V, f)) + Cardinality(Hid(pp, V, coll))
<1>1. PICK out, below : out = Out(pp, V, f) /\ below = Hid(pp, V, coll)
  OBVIOUS
<1>2. PICK above : above = T!Above(pp)
  OBVIOUS
<1>3. \A p \in V : above[p] = T!Ancestors(pp, p)
  BY <1>2, AboveIs DEF Forest
<1>4. T!FilteredOut(above, V, f) = out
  BY <1>1, <1>3 DEF T!FilteredOut, Out
<1>5. {p \in V : above[p] \cap coll # {}} = below
  BY <1>1, <1>3 DEF Hid
<1>6. {p \in below : pp[p] \notin out} = below /\ below \cap out = {}
  BY <1>1, BelowShown
<1> DEFINE parents == {p \in below \ out : \E q \in V : pp[q] = p}
           kept == IF f = TreePids THEN {} ELSE {p \in V \cap {} : above[p] \cap f = {}}
           m == T!TreeGen(pp, above, V, coll, f, TRUE, {})
<1>7. /\ m.filtered = ({} \ V) \cup out \cup {p \in below : pp[p] \notin out} \cup parents \cup kept
      /\ m.count = Cardinality(out) + Cardinality({p \in below : pp[p] \notin out})
  <2>1. /\ m.filtered = ({} \ V) \cup out \cup {p \in below : pp[p] \notin out} \cup parents \cup kept
        /\ m.count = T!Cardinality(out) + T!Cardinality({p \in below : pp[p] \notin out})
    BY <1>4, <1>5 DEF T!TreeGen
  <2> QED
    BY <2>1, SameSize
<1>8. parents \subseteq below /\ kept = {}
  OBVIOUS
<1> HIDE DEF m, parents, kept
<1>9. m.filtered = out \cup below /\ m.count = Cardinality(out) + Cardinality(below)
  BY <1>6, <1>7, <1>8
<1> QED
  BY <1>1, <1>2, <1>9 DEF m

\* The marks after the list was sorted or filtered anew, when nothing is collapsed.
LEMMA MarksCached ==
  ASSUME NEW pp, NEW V, Forest(pp, V), NEW f, NEW was, f # TreePids => was \cap V \subseteq Out(pp, V, f)
  PROVE  /\ T!TreeGen(pp, T!Above(pp), V, {}, f, FALSE, was).filtered \cap V = Out(pp, V, f)
         /\ T!TreeGen(pp, T!Above(pp), V, {}, f, FALSE, was).count = Cardinality(Out(pp, V, f))
<1>1. PICK out : out = Out(pp, V, f)
  OBVIOUS
<1>2. PICK above : above = T!Above(pp)
  OBVIOUS
<1>3. \A p \in V : above[p] = T!Ancestors(pp, p)
  BY <1>2, AboveIs DEF Forest
<1>4. T!FilteredOut(above, V, f) = out /\ out \subseteq V
  BY <1>1, <1>3 DEF T!FilteredOut, Out
<1>5. {p \in V : above[p] \cap {} # {}} = {}
  OBVIOUS
<1> DEFINE kept == IF f = TreePids THEN {} ELSE {p \in V \cap was : above[p] \cap f = {}}
           parents == {p \in {} \ out : \E q \in V : pp[q] = p}
           m == T!TreeGen(pp, above, V, {}, f, FALSE, was)
<1>6. /\ m.filtered = (was \ V) \cup out \cup {} \cup parents \cup kept
      /\ m.count = Cardinality(out) + Cardinality({})
  <2>1. /\ m.filtered = (was \ V) \cup out \cup {} \cup parents \cup kept
        /\ m.count = T!Cardinality(out) + T!Cardinality({})
    BY <1>4, <1>5 DEF T!TreeGen
  <2> QED
    BY <2>1, SameSize
<1>7. kept \subseteq out /\ parents = {}
  BY <1>1
<1>8. Cardinality({}) = 0 /\ IsFiniteSet(out) /\ Cardinality(out) \in Nat
  <2>1. out \subseteq TreePids
    BY <1>4 DEF Forest
  <2> QED
    BY <2>1, SizeOfTree, FS_EmptySet, FS_Subset, FS_CardinalityType
<1> HIDE DEF m, kept, parents
<1>9. m.filtered \cap V = out /\ m.count = Cardinality(out)
  BY <1>4, <1>6, <1>7, <1>8
<1> QED
  BY <1>1, <1>2, <1>9 DEF m

\* What is remembered of the processes found are parents among them.
LEMMA RememberedInside ==
  ASSUME NEW found \in SUBSET TreePids, NEW pp \in T!Remembered(found)
  PROVE  pp \in Parents /\ \A p \in found : pp[p] \in found \cup {Nobody}
<1>1. PICK again : pp = [p \in TreePids |->
                           LET q == IF p \in tProcs \ again THEN ppid[p] ELSE parent[p]
                           IN  IF p \in found /\ q \in found THEN q ELSE Nobody]
  BY DEF T!Remembered
<1>2. ASSUME NEW p \in TreePids PROVE pp[p] \in found \cup {Nobody}
  BY <1>1
<1>3. pp = [p \in TreePids |-> pp[p]]
  BY <1>1
<1> QED
  BY <1>2, <1>3 DEF Parents

\* Only processes found are collapsed.
LEMMA CollapsedInside ==
  ASSUME NEW found, NEW coll \in T!Collapsed(found)
  PROVE  coll \subseteq found
<1>1. PICK ask \in T!Asks :
        coll = LET was == collapsed \cap found
                   asked_ == IF ask.collapse # Nobody THEN ask.collapse ELSE ask.expand
               IN  IF asked_ \notin found THEN was
                   ELSE IF ask.collapse = ask.expand THEN T!SymDiff(was, {asked_})
                   ELSE IF ask.collapse # Nobody THEN was \cup {ask.collapse}
                   ELSE was \ {ask.expand}
  BY DEF T!Collapsed
<1>2. PICK was, who : was = collapsed \cap found /\ who = IF ask.collapse # Nobody THEN ask.collapse ELSE ask.expand
  OBVIOUS
<1>3. coll \in {was} \/ (who \in found /\ coll \in {T!SymDiff(was, {who}), was \cup {who}, was \ {ask.expand}})
  BY <1>1, <1>2
<1> QED
  BY <1>2, <1>3 DEF T!SymDiff

\* What is remembered hangs together, and of that only processes found.
TreeLinked ==
  /\ tLive \subseteq TreePids /\ tProcs \subseteq TreePids /\ collapsed \subseteq tProcs
  /\ ppid \in Parents /\ \A p \in tProcs : ppid[p] \in tProcs \cup {Nobody}

\* The marks are those of the processes that are filtered out or below a collapsed
\* one, the count is theirs, and the rows are the rest in depth-first order.
TreeMarked ==
  /\ tProcs # {} /\ ~stale
  /\ Forest(ppid, tProcs) /\ collapsed \cap Out(ppid, tProcs, filter) = {}
  => /\ filtered \cap tProcs = Out(ppid, tProcs, filter) \cup Hid(ppid, tProcs, collapsed)
     /\ hidden = Cardinality(Out(ppid, tProcs, filter)) + Cardinality(Hid(ppid, tProcs, collapsed))
     /\ \E order \in Orders : tRows = T!Kept(T!DepthFirst(ppid, tProcs, order), tProcs \ filtered)

TreeInv == TreeLinked /\ TreeMarked

\* Before the first collection there is nothing to show.
LEMMA TreeStart == T!Init => TreeInv
<1> SUFFICES ASSUME T!Init PROVE TreeInv
  OBVIOUS
<1>1. tLive \subseteq TreePids /\ tProcs = {} /\ collapsed = {} /\ ppid = [p \in TreePids |-> Nobody]
  BY DEF T!Init
<1> QED
  BY <1>1 DEF TreeInv, TreeLinked, TreeMarked, Parents

\* What a run of the recursion leaves, from what it has read.
Collected(pp, above, f, coll, found, anew) ==
  LET visited == T!Visited(above, found)
      shouldFilter == anew \/ f # filter
      marks == T!TreeGen(pp, above, visited, coll, f, anew, IF shouldFilter THEN {} ELSE filtered)
      trees == {T!DepthFirst(pp, visited, order) : order \in Orders}
  IN  /\ ppid' = pp /\ collapsed' = coll /\ filtered' = marks.filtered /\ filter' = f
      /\ hidden' = (IF shouldFilter \/ f # TreePids THEN 0 ELSE hidden) + marks.count
      /\ tRows' \in {T!Kept(tree, visited \ marks.filtered) : tree \in trees}

\* A collection makes the tree anew.
LEMMA CollectedAnew == TreeInv /\ T!CollectAnew => TreeInv'
<1> SUFFICES ASSUME TreeInv, T!CollectAnew PROVE TreeInv'
  OBVIOUS
<1>1. tLive \subseteq TreePids /\ tLive' = tLive /\ tProcs' = tLive
  BY DEF TreeInv, TreeLinked, T!CollectAnew
<1>2. PICK pp \in T!Remembered(tLive) :
        \E above \in {T!Above(pp)}, f \in TreeFilters, coll \in T!Collapsed(tLive) :
          Collected(pp, above, f, coll, tLive, TRUE)
  <2>1. T!Regenerate(tLive, TRUE)
    BY DEF T!CollectAnew
  <2> QED
    BY <2>1 DEF T!Regenerate, Collected
<1>2a. PICK above \in {T!Above(pp)}, f \in TreeFilters, coll \in T!Collapsed(tLive) :
          Collected(pp, above, f, coll, tLive, TRUE)
  BY <1>2
<1>2b. PICK visited : visited = T!Visited(above, tLive)
  OBVIOUS
<1>2c. PICK marks : marks = T!TreeGen(pp, above, visited, coll, f, TRUE, {})
  OBVIOUS
<1>2d. /\ ppid' = pp /\ collapsed' = coll /\ filtered' = marks.filtered /\ filter' = f
       /\ hidden' = 0 + marks.count
       /\ \E order \in Orders : tRows' = T!Kept(T!DepthFirst(pp, visited, order), visited \ marks.filtered)
  BY <1>2a, <1>2b, <1>2c DEF Collected
<1>3. pp \in Parents /\ (\A p \in tLive : pp[p] \in tLive \cup {Nobody}) /\ coll \subseteq tLive
  BY <1>1, RememberedInside, CollapsedInside
<1>4. TreeLinked'
  BY <1>1, <1>2d, <1>3 DEF TreeLinked
<1>5. ASSUME Forest(pp, tLive), coll \cap Out(pp, tLive, f) = {}
      PROVE  /\ filtered' \cap tLive = Out(pp, tLive, f) \cup Hid(pp, tLive, coll)
             /\ hidden' = Cardinality(Out(pp, tLive, f)) + Cardinality(Hid(pp, tLive, coll))
             /\ \E order \in Orders : tRows' = T!Kept(T!DepthFirst(pp, tLive, order), tLive \ filtered')
  <2>1. above = T!Above(pp) /\ visited = tLive
    BY <1>2b, <1>5, VisitsAll
  <2>2. PICK m : m = marks
    OBVIOUS
  <2>3. /\ m.filtered = Out(pp, tLive, f) \cup Hid(pp, tLive, coll)
        /\ m.count = Cardinality(Out(pp, tLive, f)) + Cardinality(Hid(pp, tLive, coll))
    BY <1>2c, <1>3, <1>5, <2>1, <2>2, MarksAnew
  <2>4. filtered' = m.filtered /\ hidden' = 0 + m.count
    BY <1>2d, <2>1, <2>2
  <2>5. \E order \in Orders : tRows' = T!Kept(T!DepthFirst(pp, tLive, order), tLive \ m.filtered)
    BY <1>2d, <2>1, <2>2
  <2>6. IsFiniteSet(Out(pp, tLive, f)) /\ IsFiniteSet(Hid(pp, tLive, coll))
    <3>1. Out(pp, tLive, f) \subseteq TreePids /\ Hid(pp, tLive, coll) \subseteq TreePids
      BY <1>1 DEF Out, Hid
    <3> QED
      BY <3>1, SizeOfTree, FS_Subset
  <2>7. m.count \in Nat
    BY <2>3, <2>6, FS_CardinalityType
  <2>8. Out(pp, tLive, f) \cup Hid(pp, tLive, coll) \subseteq tLive
    BY DEF Out, Hid
  <2> QED
    BY <2>3, <2>4, <2>5, <2>7, <2>8
<1>6. TreeMarked'
  <2> SUFFICES ASSUME Forest(ppid, tProcs)', (collapsed \cap Out(ppid, tProcs, filter) = {})'
               PROVE  /\ (filtered \cap tProcs = Out(ppid, tProcs, filter) \cup Hid(ppid, tProcs, collapsed))'
                      /\ (hidden = Cardinality(Out(ppid, tProcs, filter)) + Cardinality(Hid(ppid, tProcs, collapsed)))'
                      /\ (\E order \in Orders : tRows = T!Kept(T!DepthFirst(ppid, tProcs, order), tProcs \ filtered))'
    BY DEF TreeMarked
  <2>1. ppid' = pp /\ collapsed' = coll /\ filter' = f
    BY <1>2d
  <2>2. Forest(pp, tLive) /\ coll \cap Out(pp, tLive, f) = {}
    BY <1>1, <2>1
  <2> QED
    BY <1>1, <1>5, <2>1, <2>2
<1> QED
  BY <1>4, <1>6 DEF TreeInv

\* Nothing is below a collapsed process when none is, and nobody is left out
\* without a filter.
LEMMA NothingHidden ==
  ASSUME NEW pp, NEW V \in SUBSET TreePids
  PROVE  /\ Hid(pp, V, {}) = {} /\ Out(pp, V, TreePids) = {} /\ Cardinality({}) = 0
         /\ \A f : IsFiniteSet(Out(pp, V, f)) /\ Cardinality(Out(pp, V, f)) \in Nat
<1>1. Hid(pp, V, {}) = {} /\ Out(pp, V, TreePids) = {}
  BY DEF Hid, Out
<1>2. ASSUME NEW f PROVE IsFiniteSet(Out(pp, V, f)) /\ Cardinality(Out(pp, V, f)) \in Nat
  <2>1. Out(pp, V, f) \subseteq TreePids
    BY DEF Out
  <2> QED
    BY <2>1, SizeOfTree, FS_Subset, FS_CardinalityType
<1> QED
  BY <1>1, <1>2, FS_EmptySet

\* A run from the cache keeps the marks as they should be, or makes them stale.
LEMMA CollectedCached == TreeInv /\ T!CollectCached => TreeInv'
<1> SUFFICES ASSUME TreeInv, T!CollectCached PROVE TreeInv'
  OBVIOUS
<1>1. /\ tLive' = tLive /\ tProcs' = tProcs /\ tProcs # {}
      /\ tLive \subseteq TreePids /\ tProcs \subseteq TreePids
      /\ stale' = (stale \/ collapsed # {} \/ collapsed' # {})
      /\ ppid \in Parents /\ \A p \in tProcs : ppid[p] \in tProcs \cup {Nobody}
  BY DEF TreeInv, TreeLinked, T!CollectCached
<1>2. PICK pp \in {ppid} :
        \E above \in {T!Above(pp)}, f \in TreeFilters, coll \in T!Collapsed(tProcs) :
          Collected(pp, above, f, coll, tProcs, FALSE)
  <2>1. T!Regenerate(tProcs, FALSE)
    BY DEF T!CollectCached
  <2> QED
    BY <2>1 DEF T!Regenerate, Collected
<1>3. PICK above \in {T!Above(pp)}, f \in TreeFilters, coll \in T!Collapsed(tProcs) :
        Collected(pp, above, f, coll, tProcs, FALSE)
  BY <1>2
<1>4. PICK visited : visited = T!Visited(above, tProcs)
  OBVIOUS
<1>5. PICK was : was = IF f # filter THEN {} ELSE filtered
  OBVIOUS
<1>6. PICK marks : marks = T!TreeGen(pp, above, visited, coll, f, FALSE, was)
  OBVIOUS
<1>7. /\ ppid' = pp /\ collapsed' = coll /\ filtered' = marks.filtered /\ filter' = f
      /\ hidden' = (IF f # filter \/ f # TreePids THEN 0 ELSE hidden) + marks.count
      /\ \E order \in Orders : tRows' = T!Kept(T!DepthFirst(pp, visited, order), visited \ marks.filtered)
  BY <1>3, <1>4, <1>5, <1>6 DEF Collected
<1>8. coll \subseteq tProcs
  BY CollapsedInside
<1>9. TreeLinked'
  BY <1>1, <1>2, <1>7, <1>8 DEF TreeLinked
<1>10. ASSUME Forest(ppid, tProcs), ~ stale, collapsed = {}, coll = {}
       PROVE  /\ filtered' \cap tProcs = Out(ppid, tProcs, f) \cup Hid(ppid, tProcs, {})
              /\ hidden' = Cardinality(Out(ppid, tProcs, f)) + Cardinality(Hid(ppid, tProcs, {}))
              /\ \E order \in Orders : tRows' = T!Kept(T!DepthFirst(ppid, tProcs, order), tProcs \ filtered')
  <2>1. pp = ppid /\ above = T!Above(ppid) /\ visited = tProcs
    BY <1>4, <1>10, VisitsAll
  <2>2. PICK none : none = Hid(ppid, tProcs, {})
    OBVIOUS
  <2>3. none = {} /\ Cardinality(none) = 0
    BY <1>1, <2>2, NothingHidden
  <2>4. filtered \cap tProcs = Out(ppid, tProcs, filter) /\ hidden = Cardinality(Out(ppid, tProcs, filter)) + 0
    BY <1>1, <1>10, <2>2, <2>3 DEF TreeInv, TreeMarked
  <2>5. f # TreePids => was \cap tProcs \subseteq Out(ppid, tProcs, f)
    BY <1>5, <2>4
  <2>6. marks.filtered \cap tProcs = Out(ppid, tProcs, f) /\ marks.count = Cardinality(Out(ppid, tProcs, f))
    BY <1>6, <1>10, <2>1, <2>5, MarksCached
  <2>7. f = TreePids => Cardinality(Out(ppid, tProcs, f)) = 0
    BY <1>1, NothingHidden
  <2>8. Cardinality(Out(ppid, tProcs, f)) \in Nat
    BY <1>1, NothingHidden
  <2>9. hidden' = Cardinality(Out(ppid, tProcs, f)) + 0
    <3>1. CASE f # filter \/ f # TreePids
      BY <1>7, <2>6, <2>8, <3>1
    <3>2. CASE f = filter /\ f = TreePids
      BY <1>7, <2>4, <2>6, <2>7, <3>2
    <3> QED
      BY <3>1, <3>2
  <2> QED
    BY <1>7, <2>1, <2>2, <2>3, <2>6, <2>9
<1>11. TreeMarked'
  <2> SUFFICES ASSUME ~ stale', Forest(ppid, tProcs)'
               PROVE  /\ (filtered \cap tProcs = Out(ppid, tProcs, filter) \cup Hid(ppid, tProcs, collapsed))'
                      /\ (hidden = Cardinality(Out(ppid, tProcs, filter)) + Cardinality(Hid(ppid, tProcs, collapsed)))'
                      /\ (\E order \in Orders : tRows = T!Kept(T!DepthFirst(ppid, tProcs, order), tProcs \ filtered))'
    BY DEF TreeMarked
  <2>1. ppid' = ppid /\ collapsed' = coll /\ filter' = f
    BY <1>2, <1>7
  <2>2. Forest(ppid, tProcs) /\ ~ stale /\ collapsed = {} /\ coll = {}
    BY <1>1, <2>1
  <2> QED
    BY <1>1, <1>10, <2>1, <2>2
<1> QED
  BY <1>9, <1>11 DEF TreeInv

\* What happens to the processes of the system changes nothing that is shown.
LEMMA TreeKept ==
  TreeInv /\ tLive' \in SUBSET TreePids /\ UNCHANGED <<tProcs, ppid, collapsed, filtered, hidden, tRows, filter, stale>>
  => TreeInv'
<1> SUFFICES ASSUME TreeInv, tLive' \in SUBSET TreePids,
                    UNCHANGED <<tProcs, ppid, collapsed, filtered, hidden, tRows, filter, stale>>
             PROVE  TreeInv'
  OBVIOUS
<1>1. TreeLinked'
  BY DEF TreeInv, TreeLinked
<1>2. TreeMarked'
  BY DEF TreeInv, TreeMarked
<1> QED
  BY <1>1, <1>2 DEF TreeInv

\* Every step keeps the tree as it should be.
LEMMA TreeStep == TreeInv /\ [T!Next]_treeVars => TreeInv'
<1> SUFFICES ASSUME TreeInv, [T!Next]_treeVars PROVE TreeInv'
  OBVIOUS
<1>1. tLive \in SUBSET TreePids
  BY DEF TreeInv, TreeLinked
<1>2. ASSUME NEW p \in TreePids, NEW by \in TreePids, T!Starts(p, by) PROVE TreeInv'
  BY <1>1, <1>2, TreeKept DEF T!Starts, T!lists
<1>3. ASSUME NEW p \in TreePids, T!Ends(p) PROVE TreeInv'
  BY <1>1, <1>3, TreeKept DEF T!Ends, T!lists
<1>4. CASE UNCHANGED treeVars
  BY <1>1, <1>4, TreeKept DEF treeVars
<1> QED
  BY <1>2, <1>3, <1>4, CollectedAnew, CollectedCached DEF T!Next

\* The sizes of what is shown, filtered out and hidden add up.
LEMMA SizesAddUp ==
  ASSUME NEW V \in SUBSET TreePids, NEW A \in SUBSET V, NEW B \in SUBSET V, A \cap B = {}
  PROVE  Cardinality(V) - (Cardinality(A) + Cardinality(B)) = Cardinality(V \ (A \cup B))
<1>1. IsFiniteSet(V) /\ IsFiniteSet(A) /\ IsFiniteSet(B) /\ IsFiniteSet(A \cup B) /\ IsFiniteSet(V \ (A \cup B))
  BY SizeOfTree, FS_Subset
<1>2. Cardinality(A \cup B) = Cardinality(A) + Cardinality(B) - Cardinality(A \cap B)
  BY <1>1, FS_Union
<1>3. Cardinality(A \cap B) = 0
  BY FS_EmptySet
<1>4. Cardinality(V \ (A \cup B)) = Cardinality(V) - Cardinality(V \cap (A \cup B))
  BY <1>1, FS_Difference
<1>5. V \cap (A \cup B) = A \cup B
  OBVIOUS
<1>6. Cardinality(V) \in Nat /\ Cardinality(A) \in Nat /\ Cardinality(B) \in Nat
  BY <1>1, FS_CardinalityType
<1>7. Cardinality(A \cup B) = Cardinality(A) + Cardinality(B)
  BY <1>2, <1>3, <1>6
<1>8. Cardinality(V \ (A \cup B)) = Cardinality(V) - Cardinality(A \cup B)
  BY <1>4, <1>5
<1> QED
  BY <1>6, <1>7, <1>8

\* What the marks and the depth-first order make is the tree to be shown.
LEMMA TreeIsThere == TreeInv => T!TreeShown
<1> SUFFICES ASSUME TreeInv PROVE T!TreeShown
  OBVIOUS
<1>1. PICK above : above = T!Above(ppid)
  OBVIOUS
<1>2. tProcs \subseteq TreePids /\ collapsed \subseteq tProcs
  BY DEF TreeInv, TreeLinked
<1>3. \A p \in tProcs : above[p] = T!Ancestors(ppid, p)
  BY <1>1, <1>2, AboveIs
<1> SUFFICES ASSUME tProcs # {}, ~ stale, \A p \in tProcs : p \notin above[p],
                    \A p \in collapsed : ({p} \cup above[p]) \cap filter # {}
             PROVE  /\ T!ToSet(tRows) = {p \in tProcs : ({p} \cup above[p]) \cap filter # {} /\ above[p] \cap collapsed = {}}
                    /\ \A i, k \in DOMAIN tRows :
                         tRows[i] \in above[tRows[k]] =>
                           i < k /\ \A j \in i + 1 .. k : tRows[i] \in above[tRows[j]]
                    /\ T!Cardinality(tProcs) - hidden = Len(tRows)
  BY <1>1 DEF T!TreeShown
<1>4. Forest(ppid, tProcs)
  BY <1>2, <1>3 DEF Forest, TreeInv, TreeLinked
<1>5. PICK out, hid : out = Out(ppid, tProcs, filter) /\ hid = Hid(ppid, tProcs, collapsed)
  OBVIOUS
<1>6. /\ out = {p \in tProcs : ({p} \cup above[p]) \cap filter = {}}
      /\ hid = {p \in tProcs : above[p] \cap collapsed # {}}
  BY <1>3, <1>5 DEF Out, Hid
<1>7. collapsed \cap out = {}
  BY <1>6
<1>8. out \cap hid = {}
  BY <1>2, <1>4, <1>5, <1>7, BelowShown
<1>9. /\ filtered \cap tProcs = out \cup hid
      /\ hidden = Cardinality(out) + Cardinality(hid)
      /\ \E order \in Orders : tRows = T!Kept(T!DepthFirst(ppid, tProcs, order), tProcs \ filtered)
  BY <1>4, <1>5, <1>7 DEF TreeInv, TreeMarked
<1>10. PICK order \in Orders : tRows = T!Kept(T!DepthFirst(ppid, tProcs, order), tProcs \ filtered)
  BY <1>9
<1>11. PICK s, S : s = T!DepthFirst(ppid, tProcs, order) /\ S = tProcs \ filtered
  OBVIOUS
<1>12. S = tProcs \ (out \cup hid) /\ S \in SUBSET tProcs
  BY <1>9, <1>11
<1>13. Block(ppid, tProcs, s, tProcs)
  BY <1>4, <1>11, OrdersList, DepthFirstBlock
<1>14. Listed(tRows, S)
  BY <1>10, <1>11, <1>12, <1>13, KeptListed DEF Block
<1>15. Nested(ppid, tRows)
  BY <1>4, <1>10, <1>11, <1>12, <1>13, KeptNested
<1>16. tRows \in Seq(S) /\ DOMAIN tRows = 1 .. Len(tRows) /\ Len(tRows) \in Nat /\ \A i \in 1 .. Len(tRows) : tRows[i] \in S
  BY <1>14, LenProperties, ElementOfSeq DEF Listed
<1>17. T!ToSet(tRows) = {p \in tProcs : ({p} \cup above[p]) \cap filter # {} /\ above[p] \cap collapsed = {}}
  BY <1>6, <1>12, <1>14, ListedLength
<1>18. ASSUME NEW i \in DOMAIN tRows, NEW k \in DOMAIN tRows, tRows[i] \in above[tRows[k]]
       PROVE  i < k /\ \A j \in i + 1 .. k : tRows[i] \in above[tRows[j]]
  <2>1. i \in 1 .. Len(tRows) /\ k \in 1 .. Len(tRows)
    BY <1>16
  <2>2. \A j \in 1 .. Len(tRows) : above[tRows[j]] = T!Ancestors(ppid, tRows[j])
    BY <1>3, <1>12, <1>16
  <2>3. i < k /\ \A j \in i + 1 .. k : tRows[i] \in T!Ancestors(ppid, tRows[j])
    BY <1>15, <1>18, <2>1, <2>2 DEF Nested
  <2>4. i + 1 .. k \subseteq 1 .. Len(tRows)
    BY <1>16, <2>1
  <2> QED
    BY <2>2, <2>3, <2>4
<1>19. T!Cardinality(tProcs) - hidden = Len(tRows)
  <2>1. Len(tRows) = Cardinality(S)
    BY <1>14, ListedLength
  <2>2. out \in SUBSET tProcs /\ hid \in SUBSET tProcs
    BY <1>6
  <2>3. Cardinality(tProcs) - (Cardinality(out) + Cardinality(hid)) = Cardinality(tProcs \ (out \cup hid))
    BY <1>2, <1>8, <2>2, SizesAddUp
  <2> QED
    BY <1>9, <1>12, <2>1, <2>3, SameSize
<1> QED
  BY <1>17, <1>18, <1>19

\* Whatever number of processes there are, however they end, are started under
\* old pids, are sorted, filtered and collapsed: the tree shows whom it should,
\* below the parent, and counts the rows (btop_collect.cpp:1851-1961).
THEOREM TreeIsShown ==
  ScreenSpec => []TreeShown
<1>1. ScreenInit => TreeInv
  BY TreeStart DEF ScreenInit
<1>2. TreeInv /\ [ScreenNext]_screenVars => TreeInv'
  BY TreeStep DEF ScreenNext, screenVars
<1>3. TreeInv => TreeShown
  BY TreeIsThere DEF TreeShown
<1> QED
  BY <1>1, <1>2, <1>3, PTL DEF ScreenSpec
=============================================================================
