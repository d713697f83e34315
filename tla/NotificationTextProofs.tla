------------------------ MODULE NotificationTextProofs ------------------------
(***************************************************************************)
(* NotificationText for every limit and all texts.                         *)
(***************************************************************************)
EXTENDS NotificationText, SequenceTheorems, WellFoundedInduction, TLAPS

Texts == Seq(Glyphs)

--------------------------------------------------------------------------------
(* Induction over positions: a set of numbers with a least element *)

LEMMA LeastPosition ==
    ASSUME NEW S \in SUBSET Nat, S # {}
    PROVE  \E x \in S : \A y \in S : x <= y
<1>1. PICK x \in S : \A y \in S : ~(<<y, x>> \in OpToRel(<, Nat))
  BY NatLessThanWellFounded, WFMin, Zenon
<1>2. \A y \in S : ~(y < x)
  BY <1>1 DEF OpToRel
<1> QED BY <1>2

\* A set that holds the first number, and with each the next, holds all up to n.
LEMMA AllUpTo ==
    ASSUME NEW n \in Nat, NEW G, 0 \in G, \A k \in 1 .. n : k - 1 \in G => k \in G
    PROVE  \A k \in 0 .. n : k \in G
<1> DEFINE Bad == {k \in 0 .. n : k \notin G}
<1> SUFFICES ASSUME Bad # {} PROVE FALSE
  OBVIOUS
<1>1. PICK k \in Bad : \A y \in Bad : k <= y
  <2>1. Bad \in SUBSET Nat
    OBVIOUS
  <2> HIDE DEF Bad
  <2> QED BY <2>1, LeastPosition
<1>2. k \in 1 .. n /\ k - 1 \in 0 .. n /\ k \notin G
  BY <1>1
<1>3. k - 1 \in G
  BY <1>1, <1>2
<1> QED BY <1>2, <1>3

--------------------------------------------------------------------------------
(* The running sum of code units *)

LEMMA UsedExists ==
    ASSUME NEW t \in Texts
    PROVE  \E f : f = [k \in 0 .. Len(t) |-> IF k = 0 THEN 0 ELSE f[k - 1] + width(t[k])]
<1> DEFINE n == Len(t)
           Rec(f, m) == [k \in 0 .. m |-> IF k = 0 THEN 0 ELSE f[k - 1] + width(t[k])]
           G == {m \in 0 .. n : \E f : f = Rec(f, m)}
<1>n. n \in Nat
  BY DEF Texts
<1>1. 0 \in G
  <2>1. 0 \in 0 .. n
    BY <1>n
  <2>2. [k \in 0 .. 0 |-> 0] = Rec([k \in 0 .. 0 |-> 0], 0)
    OBVIOUS
  <2> QED BY <2>1, <2>2
<1>2. ASSUME NEW m \in 1 .. n, m - 1 \in G PROVE m \in G
  <2>1. PICK g : g = Rec(g, m - 1)
    BY <1>2
  <2> DEFINE f == [k \in 0 .. m |-> IF k = m THEN g[m - 1] + width(t[m]) ELSE g[k]]
  <2>2. ASSUME NEW k \in 0 .. m PROVE f[k] = Rec(f, m)[k]
    <3>1. CASE k = 0
      BY <3>1, <2>1
    <3>2. CASE k = m
      BY <3>2, <2>1
    <3>3. CASE k \in 1 .. m - 1
      BY <3>3, <2>1
    <3> QED BY <3>1, <3>2, <3>3
  <2>3. f = Rec(f, m)
    BY <2>2
  <2>4. \E h : h = Rec(h, m)
    BY <2>3
  <2>5. m \in 0 .. n
    BY <1>n
  <2> QED BY <2>4, <2>5
<1>3. n \in G
  <2> HIDE DEF G
  <2>1. \A k \in 0 .. n : k \in G
    BY <1>n, <1>1, <1>2, AllUpTo
  <2> QED BY <1>n, <2>1
<1> QED BY <1>3

LEMMA UsedFacts ==
    ASSUME NEW t \in Texts
    PROVE  /\ Used(t) = [k \in 0 .. Len(t) |->
                             IF k = 0 THEN 0 ELSE Used(t)[k - 1] + width(t[k])]
           /\ Used(t)[0] = 0
           /\ \A k \in 1 .. Len(t) : Used(t)[k] = Used(t)[k - 1] + width(t[k])
           /\ \A k \in 0 .. Len(t) : Used(t)[k] \in Nat
<1>n. Len(t) \in Nat
  BY DEF Texts
<1>1. Used(t) = [k \in 0 .. Len(t) |-> IF k = 0 THEN 0 ELSE Used(t)[k - 1] + width(t[k])]
  BY UsedExists DEF Used
<1>2. Used(t)[0] = 0 /\ \A k \in 1 .. Len(t) : Used(t)[k] = Used(t)[k - 1] + width(t[k])
  BY <1>1, <1>n
<1>3. \A k \in 0 .. Len(t) : Used(t)[k] \in Nat
  <2> DEFINE G == {k \in 0 .. Len(t) : Used(t)[k] \in Nat}
  <2>1. 0 \in G
    BY <1>2, <1>n
  <2>2. ASSUME NEW k \in 1 .. Len(t), k - 1 \in G PROVE k \in G
    BY <1>2, <2>2 DEF width
  <2> HIDE DEF G
  <2>3. \A k \in 0 .. Len(t) : k \in G
    BY <1>n, <2>1, <2>2, AllUpTo
  <2> QED BY <2>3 DEF G
<1> QED BY <1>1, <1>2, <1>3

\* The sum depends on the characters it counts only.
LEMMA SameStart ==
    ASSUME NEW s \in Texts, NEW t \in Texts, NEW m \in Nat, m <= Len(s), m <= Len(t),
           \A i \in 1 .. m : s[i] = t[i]
    PROVE  \A k \in 0 .. m : Used(s)[k] = Used(t)[k]
<1>n. Len(s) \in Nat /\ Len(t) \in Nat
  BY DEF Texts
<1> DEFINE G == {k \in 0 .. m : Used(s)[k] = Used(t)[k]}
<1>1. 0 \in G
  BY UsedFacts
<1>2. ASSUME NEW k \in 1 .. m, k - 1 \in G PROVE k \in G
  <2>1. k \in 1 .. Len(s) /\ k \in 1 .. Len(t) /\ k \in 0 .. m
    BY <1>n
  <2>2. Used(s)[k] = Used(s)[k - 1] + width(s[k]) /\ Used(t)[k] = Used(t)[k - 1] + width(t[k])
    BY <2>1, UsedFacts
  <2> QED BY <1>2, <2>1, <2>2
<1> HIDE DEF G
<1>3. \A k \in 0 .. m : k \in G
  BY <1>1, <1>2, AllUpTo
<1> QED BY <1>3 DEF G

\* A later character adds at least one unit.
LEMMA UsedGrows ==
    ASSUME NEW t \in Texts, NEW i \in 0 .. Len(t), NEW j \in 0 .. Len(t), i <= j
    PROVE  Used(t)[i] + (j - i) <= Used(t)[j]
<1>n. Len(t) \in Nat /\ Used(t)[i] \in Nat /\ \A k \in 0 .. Len(t) : Used(t)[k] \in Nat
  BY UsedFacts DEF Texts
<1> DEFINE G == {d \in 0 .. Len(t) - i : Used(t)[i] + d <= Used(t)[i + d]}
<1>1. 0 \in G
  BY <1>n
<1>2. ASSUME NEW d \in 1 .. Len(t) - i, d - 1 \in G PROVE d \in G
  <2>1. i + d \in 1 .. Len(t) /\ i + d \in 0 .. Len(t) /\ d \in 0 .. Len(t) - i
        /\ (i + d) - 1 = i + (d - 1) /\ i + (d - 1) \in 0 .. Len(t)
    BY <1>n
  <2>2. Used(t)[i + d] = Used(t)[i + (d - 1)] + width(t[i + d])
    BY <2>1, UsedFacts
  <2>3. Used(t)[i] + (d - 1) <= Used(t)[i + (d - 1)]
    BY <1>2
  <2>4. Used(t)[i + d] \in Nat /\ Used(t)[i + (d - 1)] \in Nat /\ width(t[i + d]) >= 1
        /\ width(t[i + d]) \in Nat
    BY <1>n, <2>1 DEF width
  <2> QED BY <1>n, <2>1, <2>2, <2>3, <2>4
<1> HIDE DEF G
<1>3. Len(t) - i \in Nat /\ j - i \in 0 .. Len(t) - i /\ i + (j - i) = j
  BY <1>n
<1>4. \A d \in 0 .. Len(t) - i : d \in G
  BY <1>1, <1>2, <1>3, AllUpTo
<1> QED BY <1>3, <1>4 DEF G

\* A prefix of a text.
LEMMA Prefix ==
    ASSUME NEW t \in Texts, NEW n \in 0 .. Len(t)
    PROVE  /\ SubSeq(t, 1, n) \in Texts
           /\ Len(SubSeq(t, 1, n)) = n
           /\ \A i \in 1 .. n : SubSeq(t, 1, n)[i] = t[i]
           /\ tg_len(SubSeq(t, 1, n)) = Used(t)[n]
<1>n. Len(t) \in Nat /\ n \in Nat /\ \A i \in 1 .. Len(t) : t[i] \in Glyphs
  BY DEF Texts
<1>1. /\ SubSeq(t, 1, n) \in Texts
      /\ Len(SubSeq(t, 1, n)) = n
      /\ \A i \in 1 .. n : SubSeq(t, 1, n)[i] = t[i]
  <2>1. \A i \in 1 .. n : t[i] \in Glyphs
    BY <1>n
  <2>2. /\ SubSeq(t, 1, n) \in Seq(Glyphs)
        /\ Len(SubSeq(t, 1, n)) = IF 1 <= n THEN n - 1 + 1 ELSE 0
        /\ \A i \in 1 .. n - 1 + 1 : SubSeq(t, 1, n)[i] = t[1 + i - 1]
    BY <1>n, <2>1, SubSeqProperties
  <2>3. ASSUME NEW i \in 1 .. n PROVE SubSeq(t, 1, n)[i] = t[i]
    <3>1. i \in 1 .. n - 1 + 1 /\ 1 + i - 1 = i
      BY <1>n
    <3> QED BY <2>2, <3>1
  <2>4. (IF 1 <= n THEN n - 1 + 1 ELSE 0) = n
    BY <1>n
  <2> QED BY <2>2, <2>3, <2>4 DEF Texts
<1>2. \A k \in 0 .. n : Used(SubSeq(t, 1, n))[k] = Used(t)[k]
  <2> DEFINE p == SubSeq(t, 1, n)
  <2>1. p \in Texts /\ n <= Len(p) /\ n <= Len(t) /\ \A i \in 1 .. n : p[i] = t[i]
    BY <1>n, <1>1
  <2> HIDE DEF p
  <2>2. \A k \in 0 .. n : Used(p)[k] = Used(t)[k]
    BY <1>n, <2>1, SameStart
  <2> QED BY <2>2 DEF p
<1> QED BY <1>n, <1>1, <1>2 DEF tg_len

\* Texts that are put together.
LEMMA Concatenation ==
    ASSUME NEW s \in Texts, NEW t \in Texts
    PROVE  /\ s \o t \in Texts
           /\ Len(s \o t) = Len(s) + Len(t)
           /\ \A i \in 1 .. Len(s) : (s \o t)[i] = s[i]
           /\ \A i \in 1 .. Len(t) : (s \o t)[Len(s) + i] = t[i]
           /\ tg_len(s \o t) = tg_len(s) + tg_len(t)
           /\ tg_len(s) \in Nat
<1>n. Len(s) \in Nat /\ Len(t) \in Nat
  BY DEF Texts
<1>1. /\ s \o t \in Texts
      /\ Len(s \o t) = Len(s) + Len(t)
      /\ \A i \in 1 .. Len(s) : (s \o t)[i] = s[i]
      /\ \A i \in 1 .. Len(t) : (s \o t)[Len(s) + i] = t[i]
  BY DEF Texts
<1>2. Used(s \o t)[Len(s)] = Used(s)[Len(s)]
  <2>1. \A k \in 0 .. Len(s) : Used(s \o t)[k] = Used(s)[k]
    <3> DEFINE p == s \o t
    <3>1. p \in Texts /\ Len(s) <= Len(p) /\ Len(s) <= Len(s) /\ \A i \in 1 .. Len(s) : p[i] = s[i]
      BY <1>n, <1>1
    <3> HIDE DEF p
    <3>2. \A k \in 0 .. Len(s) : Used(p)[k] = Used(s)[k]
      BY <1>n, <3>1, SameStart
    <3> QED BY <3>2 DEF p
  <2> QED BY <1>n, <2>1
<1> DEFINE G == {k \in 0 .. Len(t) : Used(s \o t)[Len(s) + k] = Used(s)[Len(s)] + Used(t)[k]}
<1>u. Used(s)[Len(s)] \in Nat /\ \A k \in 0 .. Len(t) : Used(t)[k] \in Nat
  BY <1>n, UsedFacts
<1>3. 0 \in G
  BY <1>n, <1>2, <1>u, UsedFacts
<1>4. ASSUME NEW k \in 1 .. Len(t), k - 1 \in G PROVE k \in G
  <2>1. /\ Len(s) + k \in 1 .. Len(s \o t) /\ (Len(s) + k) - 1 = Len(s) + (k - 1)
        /\ k \in 0 .. Len(t) /\ k - 1 \in 0 .. Len(t)
    BY <1>n, <1>1
  <2>2. Used(s \o t)[Len(s) + k] = Used(s \o t)[Len(s) + (k - 1)] + width((s \o t)[Len(s) + k])
    BY <1>1, <2>1, UsedFacts
  <2>3. Used(t)[k] = Used(t)[k - 1] + width(t[k])
    BY UsedFacts
  <2>4. (s \o t)[Len(s) + k] = t[k] /\ width(t[k]) \in Nat
    BY <1>1 DEF width
  <2>5. Used(s \o t)[Len(s) + (k - 1)] = Used(s)[Len(s)] + Used(t)[k - 1]
    BY <1>4
  <2> QED BY <1>u, <2>1, <2>2, <2>3, <2>4, <2>5
<1> HIDE DEF G
<1>5. \A k \in 0 .. Len(t) : k \in G
  BY <1>n, <1>3, <1>4, AllUpTo
<1>6. Used(s \o t)[Len(s) + Len(t)] = Used(s)[Len(s)] + Used(t)[Len(t)]
  BY <1>n, <1>5 DEF G
<1> QED BY <1>1, <1>6, <1>u DEF tg_len

\* Short texts.
LEMMA Short ==
    /\ <<>> \in Texts /\ tg_len(<<>>) = 0
    /\ Ellipsis \in Texts /\ tg_len(Ellipsis) = 1 /\ Len(Ellipsis) = 1
    /\ Separator \in Texts /\ tg_len(Separator) = 2
<1>1. <<>> \in Texts /\ tg_len(<<>>) = 0
  <2>1. <<>> \in Texts /\ Len(<<>>) = 0
    BY DEF Texts
  <2> QED BY <2>1, UsedFacts DEF tg_len
<1>2. Ellipsis \in Texts /\ Len(Ellipsis) = 1 /\ Ellipsis[1] = "..."
  BY DEF Texts, Ellipsis, Glyphs
<1>3. Separator \in Texts /\ Len(Separator) = 2 /\ Separator[1] = "nl" /\ Separator[2] = "nl"
  BY DEF Texts, Separator, Glyphs
<1>4. tg_len(Ellipsis) = 1
  <2>1. Used(Ellipsis)[0] = 0 /\ \A k \in 1 .. 1 : Used(Ellipsis)[k] = Used(Ellipsis)[k - 1] + width(Ellipsis[k])
    BY <1>2, UsedFacts
  <2>2. Used(Ellipsis)[1] = Used(Ellipsis)[1 - 1] + width(Ellipsis[1])
    BY <2>1
  <2>3. width(Ellipsis[1]) = 1
    BY <1>2 DEF width
  <2> QED BY <1>2, <2>1, <2>2, <2>3 DEF tg_len
<1>5. tg_len(Separator) = 2
  <2>1. Used(Separator)[0] = 0 /\ \A k \in 1 .. 2 : Used(Separator)[k] = Used(Separator)[k - 1] + width(Separator[k])
    BY <1>3, UsedFacts
  <2>2. /\ Used(Separator)[1] = Used(Separator)[1 - 1] + width(Separator[1])
        /\ Used(Separator)[2] = Used(Separator)[2 - 1] + width(Separator[2])
    BY <2>1
  <2>3. width(Separator[1]) = 1 /\ width(Separator[2]) = 1
    BY <1>3 DEF width
  <2> QED BY <1>3, <2>1, <2>2, <2>3 DEF tg_len
<1> QED BY <1>1, <1>2, <1>3, <1>4, <1>5

--------------------------------------------------------------------------------
(* Blanks at the ends *)

\* Min and Max are what they say.
LEMMA MinFacts ==
    ASSUME NEW S \in SUBSET Nat, S # {}
    PROVE  Min(S) \in S /\ \A y \in S : Min(S) <= y
BY LeastPosition DEF Min

LEMMA MaxFacts ==
    ASSUME NEW n \in Nat, NEW S \in SUBSET (0 .. n), S # {}
    PROVE  Max(S) \in S /\ \A y \in S : Max(S) >= y
<1> DEFINE D == {d \in 0 .. n : n - d \in S}
<1>1. D \in SUBSET Nat /\ D # {}
  <2>1. PICK x \in S : TRUE
    OBVIOUS
  <2>2. n - x \in 0 .. n /\ n - (n - x) = x
    BY <2>1
  <2>3. n - x \in D
    BY <2>1, <2>2
  <2>4. D \in SUBSET Nat
    OBVIOUS
  <2> QED BY <2>3, <2>4
<1>2. PICK d \in D : \A e \in D : d <= e
  <2> HIDE DEF D
  <2> QED BY <1>1, LeastPosition
<1>3. n - d \in S /\ d \in 0 .. n
  BY <1>2
<1>4. ASSUME NEW y \in S PROVE n - d >= y
  <2>1. n - y \in 0 .. n /\ n - (n - y) = y
    OBVIOUS
  <2>2. n - y \in D
    BY <2>1
  <2>3. d <= n - y
    BY <1>2, <2>2
  <2> QED BY <1>3, <2>1, <2>3
<1>5. \E x \in S : \A y \in S : x >= y
  BY <1>3, <1>4
<1> QED BY <1>5 DEF Max

\* rstrip keeps a prefix that ends in a character, if there is one, and cuts blanks only.
LEMMA Rstrip ==
    ASSUME NEW t \in Texts
    PROVE  \E m \in 0 .. Len(t) : /\ rstrip(t) = SubSeq(t, 1, m)
                                  /\ \A i \in m + 1 .. Len(t) : t[i] \in Blank
                                  /\ m = 0 \/ t[m] \notin Blank
<1>n. Len(t) \in Nat /\ DOMAIN t = 1 .. Len(t)
  BY DEF Texts
<1>1. CASE NonBlank(t) = {}
  <2>1. rstrip(t) = <<>> /\ SubSeq(t, 1, 0) = <<>>
    BY <1>1, SubSeqEmpty DEF rstrip
  <2>2. \A i \in 0 + 1 .. Len(t) : t[i] \in Blank
    BY <1>n, <1>1 DEF NonBlank
  <2> QED BY <1>n, <2>1, <2>2
<1>2. CASE NonBlank(t) # {}
  <2> DEFINE m == Max(NonBlank(t))
  <2>1. m \in NonBlank(t) /\ \A y \in NonBlank(t) : m >= y
    <3>1. NonBlank(t) \in SUBSET (0 .. Len(t))
      BY <1>n DEF NonBlank
    <3> QED BY <1>n, <1>2, <3>1, MaxFacts
  <2>2. rstrip(t) = SubSeq(t, 1, m)
    BY <1>2 DEF rstrip
  <2> HIDE DEF m
  <2>3. m \in 1 .. Len(t) /\ t[m] \notin Blank
    BY <1>n, <2>1 DEF NonBlank
  <2>4. ASSUME NEW i \in m + 1 .. Len(t) PROVE t[i] \in Blank
    <3>1. i \in 1 .. Len(t) /\ ~(m >= i)
      BY <1>n, <2>3
    <3> QED BY <1>n, <2>1, <3>1 DEF NonBlank
  <2> QED BY <1>n, <2>2, <2>3, <2>4
<1> QED BY <1>1, <1>2

LEMMA Strip == ASSUME NEW t \in Texts PROVE strip(t) \in Texts
<1>n. Len(t) \in Nat /\ DOMAIN t = 1 .. Len(t) /\ \A i \in 1 .. Len(t) : t[i] \in Glyphs
  BY DEF Texts
<1>1. CASE NonBlank(t) = {}
  BY <1>1, Short DEF strip
<1>2. CASE NonBlank(t) # {}
  <2> DEFINE a == Min(NonBlank(t))
             b == Max(NonBlank(t))
  <2>1. a \in NonBlank(t) /\ b \in NonBlank(t)
    <3>1. NonBlank(t) \in SUBSET (0 .. Len(t)) /\ NonBlank(t) \in SUBSET Nat
      BY <1>n DEF NonBlank
    <3> QED BY <1>n, <1>2, <3>1, MaxFacts, MinFacts
  <2>2. strip(t) = SubSeq(t, a, b)
    BY <1>2 DEF strip
  <2> HIDE DEF a, b
  <2>3. a \in 1 .. Len(t) /\ b \in 1 .. Len(t)
    BY <1>n, <2>1 DEF NonBlank
  <2>4. \A i \in a .. b : t[i] \in Glyphs
    BY <1>n, <2>3
  <2>5. SubSeq(t, a, b) \in Seq(Glyphs)
    BY <2>3, <2>4, SubSeqProperties
  <2> QED BY <2>2, <2>5 DEF Texts
<1> QED BY <1>1, <1>2

--------------------------------------------------------------------------------
(* Truncation *)

\* The loop keeps the longest prefix that fits.
LEMMA KeptFacts ==
    ASSUME NEW t \in Texts, NEW b \in Int, b >= 0
    PROVE  \E n \in 0 .. Len(t) : /\ Kept(t, b) = SubSeq(t, 1, n)
                                  /\ Used(t)[n] <= b
                                  /\ n < Len(t) => Used(t)[n + 1] > b
<1>n. Len(t) \in Nat /\ \A k \in 0 .. Len(t) : Used(t)[k] \in Nat
  BY UsedFacts DEF Texts
<1> DEFINE S == {k \in 0 .. Len(t) - 1 : Used(t)[k + 1] > b} \cup {Len(t)}
           n == Min(S)
<1>1. n \in S /\ \A y \in S : n <= y
  <2>1. S \in SUBSET Nat /\ S # {}
    BY <1>n
  <2> HIDE DEF S
  <2> QED BY <2>1, MinFacts
<1>2. Kept(t, b) = SubSeq(t, 1, n)
  BY DEF Kept
<1> HIDE DEF n
<1>3. n \in 0 .. Len(t) /\ (n < Len(t) => Used(t)[n + 1] > b)
  BY <1>n, <1>1
<1>4. Used(t)[n] <= b
  <2>1. CASE n = 0
    BY <2>1, UsedFacts
  <2>2. CASE n > 0
    <3>1. n - 1 \in 0 .. Len(t) - 1 /\ (n - 1) + 1 = n /\ ~(n <= n - 1)
      BY <1>n, <1>3, <2>2
    <3>2. n - 1 \notin S
      BY <1>1, <3>1
    <3>3. ~(Used(t)[n] > b)
      BY <3>1, <3>2
    <3> QED BY <1>n, <1>3, <3>3
  <2> QED BY <1>3, <2>1, <2>2
<1> QED BY <1>2, <1>3, <1>4

\* Cutting behind the k-th character and dropping blanks leaves a prefix that ends in a
\* character.
LEMMA CutBehind ==
    ASSUME NEW t \in Texts, NEW k \in 0 .. Len(t)
    PROVE  \E j \in 0 .. Len(t) : /\ j <= k
                                  /\ rstrip(SubSeq(t, 1, k)) = SubSeq(t, 1, j)
                                  /\ \A i \in j + 1 .. k : t[i] \in Blank
                                  /\ j = 0 \/ t[j] \notin Blank
<1>n. Len(t) \in Nat
  BY DEF Texts
<1> DEFINE p == SubSeq(t, 1, k)
<1>1. p \in Texts /\ Len(p) = k /\ \A i \in 1 .. k : p[i] = t[i]
  BY Prefix
<1> HIDE DEF p
<1>2. PICK j \in 0 .. k : /\ rstrip(p) = SubSeq(p, 1, j)
                          /\ \A i \in j + 1 .. k : p[i] \in Blank
                          /\ j = 0 \/ p[j] \notin Blank
  BY <1>1, Rstrip
<1>3. j \in 0 .. Len(t) /\ j <= k
  BY <1>n
<1>4. SubSeq(p, 1, j) = SubSeq(t, 1, j)
  <2> DEFINE q == SubSeq(p, 1, j)
             r == SubSeq(t, 1, j)
  <2>1. q \in Texts /\ Len(q) = j /\ \A i \in 1 .. j : q[i] = p[i]
    BY <1>1, Prefix
  <2>2. r \in Texts /\ Len(r) = j /\ \A i \in 1 .. j : r[i] = t[i]
    BY <1>3, Prefix
  <2> HIDE DEF q, r
  <2>3. Len(q) = Len(r) /\ \A i \in 1 .. Len(q) : q[i] = r[i]
    BY <1>1, <1>3, <2>1, <2>2
  <2>4. q = r
    BY <2>1, <2>2, <2>3, SeqEqual DEF Texts
  <2> QED BY <2>4 DEF q, r
<1>5. ASSUME NEW i \in j + 1 .. k PROVE t[i] \in Blank
  <2>1. i \in 1 .. k
    BY <1>3
  <2> QED BY <1>1, <1>2, <2>1
<1>6. j = 0 \/ t[j] \notin Blank
  <2>1. j # 0 => j \in 1 .. k
    OBVIOUS
  <2> QED BY <1>1, <1>2, <2>1
<1> QED BY <1>2, <1>3, <1>4, <1>5, <1>6 DEF p

\* A text that is cut: n characters fit, of which the blanks behind the m-th are dropped.
LEMMA Cut ==
    ASSUME NEW t \in Texts, NEW l \in Int, l > 0, tg_len(t) > l
    PROVE  \E n \in 0 .. Len(t), m \in 0 .. Len(t) :
               /\ m <= n /\ n < Len(t)
               /\ rstrip(SubSeq(t, 1, n)) = SubSeq(t, 1, m)
               /\ truncate(t, l) = SubSeq(t, 1, m) \o Ellipsis
               /\ Used(t)[m] <= l - 1
               /\ Used(t)[n + 1] > l - 1
               /\ \A i \in m + 1 .. n : t[i] \in Blank
<1>n. Len(t) \in Nat /\ tg_len(t) = Used(t)[Len(t)] /\ \A k \in 0 .. Len(t) : Used(t)[k] \in Nat
  BY UsedFacts DEF Texts, tg_len
<1>1. PICK n \in 0 .. Len(t) : /\ Kept(t, l - 1) = SubSeq(t, 1, n)
                               /\ Used(t)[n] <= l - 1
                               /\ n < Len(t) => Used(t)[n + 1] > l - 1
  <2>1. l - 1 \in Int /\ l - 1 >= 0
    OBVIOUS
  <2> QED BY <2>1, KeptFacts
<1>2. n < Len(t)
  <2>1. n # Len(t)
    BY <1>n, <1>1
  <2> QED BY <1>n, <2>1
<1>3. truncate(t, l) = rstrip(SubSeq(t, 1, n)) \o Ellipsis
  <2>1. ~(l <= 0) /\ ~(tg_len(t) <= l)
    BY <1>n
  <2> QED BY <1>1, <2>1, Short DEF truncate
<1>4. PICK m \in 0 .. Len(t) : /\ m <= n
                               /\ rstrip(SubSeq(t, 1, n)) = SubSeq(t, 1, m)
                               /\ \A i \in m + 1 .. n : t[i] \in Blank
  BY CutBehind
<1>5. Used(t)[m] <= l - 1
  <2>1. Used(t)[m] + (n - m) <= Used(t)[n]
    BY <1>4, UsedGrows
  <2>2. Used(t)[m] \in Nat /\ Used(t)[n] \in Nat
    BY <1>n, <1>4
  <2> QED BY <1>1, <1>4, <2>1, <2>2
<1> QED BY <1>1, <1>2, <1>3, <1>4, <1>5

\* The result never exceeds a limit, and a text that fits stays whole.
LEMMA Truncate ==
    ASSUME NEW t \in Texts, NEW l \in Int
    PROVE  /\ truncate(t, l) \in Texts
           /\ l <= 0 => truncate(t, l) = <<>>
           /\ l > 0 /\ tg_len(t) <= l => truncate(t, l) = t
           /\ l >= 0 => tg_len(truncate(t, l)) <= l
<1>n. tg_len(t) \in Nat
  BY Concatenation
<1>1. CASE l <= 0
  BY <1>1, Short DEF truncate
<1>2. CASE l > 0 /\ tg_len(t) <= l
  BY <1>2, <1>n DEF truncate
<1>3. CASE l > 0 /\ tg_len(t) > l
  <2>1. PICK m \in 0 .. Len(t) : /\ truncate(t, l) = SubSeq(t, 1, m) \o Ellipsis
                                 /\ Used(t)[m] <= l - 1
    BY <1>3, Cut
  <2>2. SubSeq(t, 1, m) \in Texts /\ tg_len(SubSeq(t, 1, m)) = Used(t)[m] /\ Used(t)[m] \in Nat
    BY Prefix, UsedFacts
  <2>3. /\ SubSeq(t, 1, m) \o Ellipsis \in Texts
        /\ tg_len(SubSeq(t, 1, m) \o Ellipsis) = Used(t)[m] + 1
    <3> DEFINE p == SubSeq(t, 1, m)
    <3>1. p \in Texts /\ tg_len(p) = Used(t)[m] /\ Ellipsis \in Texts /\ tg_len(Ellipsis) = 1
      BY <2>2, Short
    <3> HIDE DEF p
    <3>2. p \o Ellipsis \in Texts /\ tg_len(p \o Ellipsis) = tg_len(p) + tg_len(Ellipsis)
      BY <3>1, Concatenation, Zenon
    <3> QED BY <3>1, <3>2 DEF p
  <2> QED BY <1>3, <1>n, <2>1, <2>2, <2>3
<1> QED BY <1>n, <1>1, <1>2, <1>3

--------------------------------------------------------------------------------
(* Escaping *)

LEMMA FlattenExists ==
    ASSUME NEW ss, NEW n \in Nat
    PROVE  \E f : f = [i \in 1 .. n |-> IF i = 1 THEN ss[i] ELSE f[i - 1] \o ss[i]]
<1> DEFINE Rec(f, m) == [i \in 1 .. m |-> IF i = 1 THEN ss[i] ELSE f[i - 1] \o ss[i]]
           G == {m \in 0 .. n : \E f : f = Rec(f, m)}
<1>1. 0 \in G
  <2>1. [i \in 1 .. 0 |-> ss[i]] = Rec([i \in 1 .. 0 |-> ss[i]], 0)
    OBVIOUS
  <2>2. \E f : f = Rec(f, 0)
    BY <2>1
  <2>3. 0 \in 0 .. n
    OBVIOUS
  <2> QED BY <2>2, <2>3
<1>2. ASSUME NEW m \in 1 .. n, m - 1 \in G PROVE m \in G
  <2>1. PICK g : g = Rec(g, m - 1)
    BY <1>2
  <2> DEFINE next == IF m = 1 THEN ss[1] ELSE g[m - 1] \o ss[m]
             f == [i \in 1 .. m |-> IF i < m THEN g[i] ELSE next]
  <2>g. \A i \in 1 .. m - 1 : g[i] = IF i = 1 THEN ss[i] ELSE g[i - 1] \o ss[i]
    BY <2>1
  <2>2. ASSUME NEW i \in 1 .. m PROVE f[i] = Rec(f, m)[i]
    <3>1. f[i] = (IF i < m THEN g[i] ELSE next) /\ (i > 1 => f[i - 1] = g[i - 1])
      OBVIOUS
    <3>2. Rec(f, m)[i] = IF i = 1 THEN ss[i] ELSE f[i - 1] \o ss[i]
      OBVIOUS
    <3>3. (IF i < m THEN g[i] ELSE next) = IF i = 1 THEN ss[i] ELSE g[i - 1] \o ss[i]
      <4>1. CASE i < m
        BY <2>g, <4>1
      <4>2. CASE i = m
        BY <4>2
      <4> QED BY <4>1, <4>2
    <3> HIDE DEF f, next, Rec
    <3>4. CASE i = 1
      BY <3>1, <3>2, <3>3, <3>4
    <3>5. CASE i > 1
      BY <3>1, <3>2, <3>3, <3>5
    <3> QED BY <3>4, <3>5
  <2>3. f = Rec(f, m)
    BY <2>2
  <2>4. \E h : h = Rec(h, m)
    BY <2>3
  <2>5. m \in 0 .. n
    OBVIOUS
  <2> QED BY <2>4, <2>5
<1>3. n \in G
  <2> HIDE DEF G
  <2>1. \A k \in 0 .. n : k \in G
    BY <1>1, <1>2, AllUpTo
  <2> QED BY <2>1
<1> QED BY <1>3

\* Pieces of text put together are a text.
LEMMA Flatten ==
    ASSUME NEW ss \in Seq(Texts)
    PROVE  FlattenSeq(ss) \in Texts
<1> DEFINE n == Len(ss)
           flatten == CHOOSE f : f = [i \in 1 .. n |-> IF i = 1 THEN ss[i] ELSE f[i - 1] \o ss[i]]
<1>n. n \in Nat /\ \A i \in 1 .. n : ss[i] \in Texts
  OBVIOUS
<1>1. CASE n = 0
  <2>1. ss = <<>>
    BY <1>1
  <2> QED BY <1>1, <2>1, Short DEF FlattenSeq
<1>2. CASE n # 0
  <2>1. FlattenSeq(ss) = flatten[n]
    BY <1>2 DEF FlattenSeq
  <2>2. flatten = [i \in 1 .. n |-> IF i = 1 THEN ss[i] ELSE flatten[i - 1] \o ss[i]]
    BY <1>n, FlattenExists
  <2> HIDE DEF flatten
  <2> DEFINE G == {k \in 0 .. n : k > 0 => flatten[k] \in Texts}
  <2>3. 0 \in G
    BY <1>n
  <2>4. ASSUME NEW k \in 1 .. n, k - 1 \in G PROVE k \in G
    <3>1. k \in 0 .. n /\ ss[k] \in Texts
      BY <1>n
    <3>2. CASE k = 1
      BY <2>2, <3>1, <3>2
    <3>3. CASE k # 1
      <4>1. flatten[k - 1] \in Texts
        BY <2>4, <3>3
      <4>2. flatten[k] = flatten[k - 1] \o ss[k]
        BY <2>2, <3>3
      <4> QED BY <3>1, <4>1, <4>2, Concatenation
    <3> QED BY <3>2, <3>3
  <2> HIDE DEF G
  <2>5. \A k \in 0 .. n : k \in G
    BY <1>n, <2>3, <2>4, AllUpTo
  <2>6. n \in 0 .. n /\ n > 0
    BY <1>n, <1>2
  <2> QED BY <2>1, <2>5, <2>6 DEF G
<1> QED BY <1>1, <1>2

LEMMA Single == ASSUME NEW a \in Glyphs PROVE <<a>> \in Texts
BY DEF Texts

LEMMA Triple ==
    ASSUME NEW a \in Glyphs, NEW b \in Glyphs, NEW c \in Glyphs
    PROVE  <<a, b, c>> \in Texts
BY DEF Texts

LEMMA Escape == ASSUME NEW t \in Texts PROVE escape(t) \in Texts
<1> DEFINE ss == [i \in DOMAIN t |->
                      IF t[i] = "&" THEN <<"&", "amp", ";">> ELSE <<t[i]>>]
<1>1. Len(t) \in Nat /\ DOMAIN t = 1 .. Len(t) /\ \A i \in 1 .. Len(t) : t[i] \in Glyphs
  BY DEF Texts
<1>2. <<"&", "amp", ";">> \in Texts
  <2>1. "&" \in Glyphs /\ "amp" \in Glyphs /\ ";" \in Glyphs
    BY DEF Glyphs
  <2> QED BY <2>1, Triple
<1>3. ASSUME NEW i \in 1 .. Len(t) PROVE <<t[i]>> \in Texts
  <2>1. t[i] \in Glyphs
    BY <1>1
  <2> QED BY <2>1, Single
<1>4. ss \in [1 .. Len(t) -> Texts]
  BY <1>1, <1>2, <1>3
<1>5. ss \in Seq(Texts)
  <2> HIDE DEF ss
  <2> QED BY <1>1, <1>4, SeqDef
<1> QED BY <1>5, Flatten DEF escape

--------------------------------------------------------------------------------
(* The parts of a notification *)

Orders == [title : Titles, price : Prices]

LEMMA Constants ==
    /\ MaxTextLength \in Nat /\ MaxTextLength > 0
    /\ Titles \subseteq Texts /\ Summaries \subseteq Texts /\ Parts \subseteq Texts
BY TextsAssumption DEF TextsAssumption, Texts

LEMMA Join == ASSUME NEW p \in Texts, NEW q \in Texts PROVE Joined(p, q) \in Texts
<1>1. <<" ">> \in Texts
  <2>1. " " \in Glyphs
    BY DEF Glyphs
  <2> QED BY <2>1, Single
<1>2. p \o <<" ">> \in Texts
  BY <1>1, Concatenation
<1>3. (p \o <<" ">>) \o q \in Texts
  BY <1>2, Concatenation
<1> QED BY <1>3 DEF Joined

LEMMA BudgetText ==
    ASSUME NEW o \in Orders
    PROVE  Budget(o) = None \/ Budget(o) \in Texts
<1>1. CASE o.price = None
  BY <1>1 DEF Budget
<1>2. CASE o.price # None
  <2>1. o.price \in [prefix : Parts, value : Parts, suffix : Parts]
    BY <1>2 DEF Orders, Prices
  <2>2. o.price.prefix \in Texts /\ o.price.value \in Texts /\ o.price.suffix \in Texts
    BY <2>1, Constants
  <2>3. Joined(o.price.prefix, o.price.value) \in Texts
    BY <2>2, Join
  <2>4. Joined(Joined(o.price.prefix, o.price.value), o.price.suffix) \in Texts
    BY <2>2, <2>3, Join
  <2>5. strip(Joined(Joined(o.price.prefix, o.price.value), o.price.suffix)) \in Texts
    BY <2>4, Strip
  <2> QED BY <1>2, <2>5 DEF Budget, from_price
<1> QED BY <1>1, <1>2

\* The header begins with an emoji.
LEMMA HeaderText ==
    ASSUME NEW o \in Orders
    PROVE  header(o) \in Texts /\ Len(header(o)) >= 1 /\ header(o)[1] = "emoji"
<1> DEFINE title == IF strip(o.title) = <<>> THEN NoTitle ELSE strip(o.title)
           first == <<"emoji", " ", "<a>">>
<1>1. title \in Texts
  <2>1. o.title \in Texts
    BY Constants DEF Orders
  <2>2. "untitled" \in Glyphs
    BY DEF Glyphs
  <2>3. NoTitle \in Texts
    BY <2>2, Single DEF NoTitle
  <2>4. strip(o.title) \in Texts
    BY <2>1, Strip
  <2> QED BY <2>3, <2>4
<1>2. first \in Texts
  <2>1. "emoji" \in Glyphs /\ " " \in Glyphs /\ "<a>" \in Glyphs
    BY DEF Glyphs
  <2> QED BY <2>1, Triple
<1>3. Len(first) = 3 /\ first[1] = "emoji"
  OBVIOUS
<1>4. <<"</a>">> \in Texts
  <2>1. "</a>" \in Glyphs
    BY DEF Glyphs
  <2> QED BY <2>1, Single
<1>5. header(o) = (first \o escape(title)) \o <<"</a>">>
  BY DEF header
<1> HIDE DEF title, first
<1> DEFINE x == first \o escape(title)
<1>6. /\ x \in Texts /\ Len(x) = 3 + Len(escape(title)) /\ Len(escape(title)) \in Nat
      /\ x[1] = "emoji"
  <2>1. escape(title) \in Texts
    BY <1>1, Escape
  <2>2. /\ first \o escape(title) \in Texts
        /\ Len(first \o escape(title)) = Len(first) + Len(escape(title))
        /\ \A i \in 1 .. Len(first) : (first \o escape(title))[i] = first[i]
    BY <1>2, <2>1, Concatenation
  <2>3. Len(escape(title)) \in Nat
    BY <2>1 DEF Texts
  <2> QED BY <1>3, <2>2, <2>3
<1> HIDE DEF x
<1>7. /\ x \o <<"</a>">> \in Texts
      /\ Len(x \o <<"</a>">>) = Len(x) + Len(<<"</a>">>)
      /\ \A i \in 1 .. Len(x) : (x \o <<"</a>">>)[i] = x[i]
  BY <1>4, <1>6, Concatenation
<1>8. 1 \in 1 .. Len(x) /\ Len(x) + Len(<<"</a>">>) >= 1
  BY <1>6
<1>9. header(o) = x \o <<"</a>">>
  BY <1>5 DEF x
<1> QED BY <1>6, <1>7, <1>8, <1>9

LEMMA MetaText == ASSUME NEW o \in Orders PROVE meta(o) \in Texts
<1>1. ScoreLine \in Texts /\ <<"emoji", " ">> \in Texts /\ <<"nl">> \in Texts
  <2>1. "score" \in Glyphs /\ "emoji" \in Glyphs /\ " " \in Glyphs /\ "nl" \in Glyphs
    BY DEF Glyphs
  <2>2. ASSUME NEW a \in Glyphs, NEW b \in Glyphs PROVE <<a, b>> \in Texts
    BY DEF Texts
  <2> QED BY <2>1, <2>2, Single DEF ScoreLine
<1>2. CASE Budget(o) = None
  BY <1>1, <1>2 DEF meta
<1>3. CASE Budget(o) # None
  <2>1. escape(Budget(o)) \in Texts
    BY <1>3, BudgetText, Escape
  <2>2. <<"emoji", " ">> \o escape(Budget(o)) \in Texts
    BY <1>1, <2>1, Concatenation
  <2>3. (<<"emoji", " ">> \o escape(Budget(o))) \o <<"nl">> \in Texts
    BY <1>1, <2>2, Concatenation
  <2>4. ((<<"emoji", " ">> \o escape(Budget(o))) \o <<"nl">>) \o ScoreLine \in Texts
    BY <1>1, <2>3, Concatenation
  <2> QED BY <1>3, <2>4 DEF meta
<1> QED BY <1>2, <1>3

\* x starts with h.
Starts(h, x) == Len(h) <= Len(x) /\ \A i \in 1 .. Len(h) : x[i] = h[i]

LEMMA StartsFurther ==
    ASSUME NEW h \in Texts, NEW x \in Texts, NEW y \in Texts, Starts(h, x)
    PROVE  Starts(h, x \o y)
<1>1. Len(h) \in Nat /\ Len(x) \in Nat /\ Len(y) \in Nat
  BY DEF Texts
<1>2. Len(x \o y) = Len(x) + Len(y) /\ \A i \in 1 .. Len(x) : (x \o y)[i] = x[i]
  BY Concatenation
<1> QED BY <1>1, <1>2 DEF Starts

LEMMA StartsIsPrefix ==
    ASSUME NEW h \in Texts, NEW x \in Texts, Starts(h, x)
    PROVE  IsPrefix(h, x)
<1>1. Len(h) \in 0 .. Len(h) /\ Len(h) \in 0 .. Len(x)
  BY DEF Texts, Starts
<1> DEFINE p == SubSeq(h, 1, Len(h))
           q == SubSeq(x, 1, Len(h))
<1>2. p \in Texts /\ Len(p) = Len(h) /\ \A i \in 1 .. Len(h) : p[i] = h[i]
  BY <1>1, Prefix
<1>3. q \in Texts /\ Len(q) = Len(h) /\ \A i \in 1 .. Len(h) : q[i] = x[i]
  BY <1>1, Prefix
<1> HIDE DEF p, q
<1>4. Len(p) = Len(q) /\ \A i \in 1 .. Len(p) : p[i] = q[i]
  BY <1>2, <1>3 DEF Starts
<1>5. p = q
  BY <1>2, <1>3, <1>4, SeqEqual DEF Texts
<1> QED BY <1>5 DEF p, q, IsPrefix, Starts

LEMMA EndIsSuffix ==
    ASSUME NEW x \in Texts, NEW m \in Texts
    PROVE  IsSuffix(m, x \o m)
<1> DEFINE y == x \o m
<1>n. Len(x) \in Nat /\ Len(m) \in Nat
  BY DEF Texts
<1>1. y \in Texts /\ Len(y) = Len(x) + Len(m) /\ \A i \in 1 .. Len(m) : y[Len(x) + i] = m[i]
  BY Concatenation
<1> HIDE DEF y
<1>2. ASSUME NEW t \in Texts
      PROVE  /\ Reverse(t) \in Texts /\ Len(Reverse(t)) = Len(t)
             /\ \A i \in 1 .. Len(t) : Reverse(t)[i] = t[(Len(t) - i) + 1]
  <2>1. Len(t) \in Nat /\ \A i \in 1 .. Len(t) : t[i] \in Glyphs
    BY DEF Texts
  <2>2. \A i \in 1 .. Len(t) : (Len(t) - i) + 1 \in 1 .. Len(t)
    BY <2>1
  <2>3. Reverse(t) \in [1 .. Len(t) -> Glyphs]
    BY <2>1, <2>2 DEF Reverse
  <2>4. Reverse(t) \in Seq(Glyphs)
    BY <2>1, <2>3, SeqDef
  <2>5. DOMAIN Reverse(t) = 1 .. Len(t)
    BY DEF Reverse
  <2>6. Len(Reverse(t)) = Len(t)
    BY <2>1, <2>4, <2>5
  <2> QED BY <2>4, <2>6 DEF Reverse, Texts
<1>3. Starts(Reverse(m), Reverse(y))
  <2>1. ASSUME NEW i \in 1 .. Len(m) PROVE Reverse(y)[i] = Reverse(m)[i]
    <3>1. i \in 1 .. Len(y) /\ (Len(m) - i) + 1 \in 1 .. Len(m)
          /\ (Len(y) - i) + 1 = Len(x) + ((Len(m) - i) + 1)
      BY <1>n, <1>1
    <3>2. Reverse(y)[i] = y[(Len(y) - i) + 1] /\ Reverse(m)[i] = m[(Len(m) - i) + 1]
      BY <1>1, <1>2, <3>1
    <3> QED BY <1>1, <3>1, <3>2
  <2>2. Len(Reverse(m)) = Len(m) /\ Len(Reverse(y)) = Len(y)
    BY <1>1, <1>2
  <2> QED BY <1>n, <1>1, <2>1, <2>2 DEF Starts
<1>4. IsPrefix(Reverse(m), Reverse(y))
  BY <1>1, <1>2, <1>3, StartsIsPrefix
<1> QED BY <1>4 DEF IsSuffix, y

LEMMA StartsSelf == ASSUME NEW h \in Texts PROVE Starts(h, h)
BY DEF Starts, Texts

\* The paragraphs of a notification: how long they are together, and what is at
\* either end.
LEMMA ParagraphsText ==
    ASSUME NEW h \in Texts, NEW p \in Texts, NEW m \in Texts
    PROVE  /\ Paragraphs(h, p, m) \in Texts
           /\ tg_len(Paragraphs(h, p, m)) = IF p = <<>> THEN tg_len(h) + tg_len(m) + 2
                                            ELSE tg_len(h) + tg_len(p) + tg_len(m) + 4
           /\ Starts(h, Paragraphs(h, p, m))
           /\ IsSuffix(m, Paragraphs(h, p, m))
<1> DEFINE a == h \o Separator
           b == a \o p
           c == b \o Separator
<1>0. Separator \in Texts /\ tg_len(Separator) = 2
  BY Short
<1>n. tg_len(h) \in Nat /\ tg_len(p) \in Nat /\ tg_len(m) \in Nat
  BY Concatenation
<1>1. a \in Texts /\ tg_len(a) = tg_len(h) + 2 /\ Starts(h, a)
  BY <1>0, StartsSelf, StartsFurther, Concatenation
<1>2. b \in Texts /\ tg_len(b) = tg_len(a) + tg_len(p) /\ Starts(h, b)
  <2> HIDE DEF a
  <2> QED BY <1>1, StartsFurther, Concatenation
<1>3. c \in Texts /\ tg_len(c) = tg_len(b) + 2 /\ Starts(h, c)
  <2> HIDE DEF b
  <2> QED BY <1>0, <1>2, StartsFurther, Concatenation
<1>4. /\ a \o m \in Texts /\ tg_len(a \o m) = tg_len(a) + tg_len(m)
      /\ Starts(h, a \o m) /\ IsSuffix(m, a \o m)
  <2> HIDE DEF a
  <2> QED BY <1>1, StartsFurther, EndIsSuffix, Concatenation
<1>5. /\ c \o m \in Texts /\ tg_len(c \o m) = tg_len(c) + tg_len(m)
      /\ Starts(h, c \o m) /\ IsSuffix(m, c \o m)
  <2> HIDE DEF c
  <2> QED BY <1>3, StartsFurther, EndIsSuffix, Concatenation
<1>6. Paragraphs(h, p, m) = IF p = <<>> THEN a \o m ELSE c \o m
  BY DEF Paragraphs
<1> HIDE DEF a, b, c
<1>7. CASE p = <<>>
  <2>1. Paragraphs(h, p, m) = a \o m
    BY <1>6, <1>7
  <2>2. tg_len(a \o m) = tg_len(h) + tg_len(m) + 2
    BY <1>n, <1>1, <1>4
  <2> QED BY <1>4, <1>7, <2>1, <2>2
<1>8. CASE p # <<>>
  <2>1. Paragraphs(h, p, m) = c \o m
    BY <1>6, <1>8
  <2>2. tg_len(c \o m) = tg_len(h) + tg_len(p) + tg_len(m) + 4
    BY <1>n, <1>1, <1>2, <1>3, <1>5
  <2> QED BY <1>5, <1>8, <2>1, <2>2
<1> QED BY <1>7, <1>8

\* The room that the header and the meta lines leave to the summary.
Room(o) == MaxTextLength - (tg_len(header(o)) + tg_len(meta(o)) + 4)

LEMMA SummaryText ==
    ASSUME NEW o \in Orders, NEW s \in Summaries
    PROVE  /\ tg_len(header(o)) \in Nat /\ tg_len(meta(o)) \in Nat /\ Room(o) \in Int
           /\ escape(strip(s)) \in Texts
           /\ SummaryPart(o, s) = truncate(escape(strip(s)), Room(o))
           /\ SummaryPart(o, s) \in Texts
<1>1. header(o) \in Texts /\ meta(o) \in Texts
  BY HeaderText, MetaText
<1>2. tg_len(header(o)) \in Nat /\ tg_len(meta(o)) \in Nat
  BY <1>1, Concatenation
<1>3. Room(o) \in Int
  BY <1>2, Constants DEF Room
<1>4. escape(strip(s)) \in Texts
  <2>1. s \in Texts
    BY Constants
  <2>2. strip(s) \in Texts
    BY <2>1, Strip
  <2> QED BY <2>2, Escape
<1>5. 2 * tg_len(Separator) = 4
  BY Short
<1>6. SummaryPart(o, s) = truncate(escape(strip(s)), Room(o))
  BY <1>5 DEF SummaryPart, Room
<1>7. truncate(escape(strip(s)), Room(o)) \in Texts
  BY <1>3, <1>4, Truncate
<1> QED BY <1>2, <1>3, <1>4, <1>6, <1>7

\* The text of a notification is within the limit and not blank; and when header
\* and meta lines fit, the last cut takes nothing away.
LEMMA BuiltText ==
    ASSUME NEW o \in Orders, NEW s \in Summaries
    PROVE  LET text == build_notification(o, s).text
               all  == Paragraphs(header(o), SummaryPart(o, s), meta(o))
           IN  /\ text \in Texts
               /\ tg_len(text) <= MaxTextLength
               /\ NonBlank(text) # {}
               /\ tg_len(header(o)) + tg_len(meta(o)) + 2 <= MaxTextLength => text = all
<1> DEFINE h    == header(o)
           m    == meta(o)
           p    == SummaryPart(o, s)
           all  == Paragraphs(h, p, m)
           text == truncate(all, MaxTextLength)
<1>0. build_notification(o, s).text = text
  BY DEF build_notification
<1>1. h \in Texts /\ Len(h) >= 1 /\ h[1] = "emoji" /\ m \in Texts /\ p \in Texts
  BY HeaderText, MetaText, SummaryText
<1>2. tg_len(h) \in Nat /\ tg_len(m) \in Nat /\ Room(o) \in Int
  BY SummaryText
<1>3. MaxTextLength \in Int /\ MaxTextLength > 0
  BY Constants
<1>4. tg_len(p) \in Nat /\ (Room(o) <= 0 => p = <<>>) /\ (Room(o) > 0 => tg_len(p) <= Room(o))
  <2> DEFINE w == escape(strip(s))
             r == Room(o)
  <2>1. w \in Texts /\ r \in Int /\ p = truncate(w, r)
    BY SummaryText
  <2> HIDE DEF w, r, p
  <2>2. /\ r <= 0 => truncate(w, r) = <<>>
        /\ r >= 0 => tg_len(truncate(w, r)) <= r
    BY <2>1, Truncate
  <2>3. tg_len(p) \in Nat
    BY <1>1, Concatenation
  <2>4. (r <= 0 => p = <<>>) /\ (r > 0 => tg_len(p) <= r)
    BY <2>1, <2>2
  <2> QED BY <2>3, <2>4 DEF r
<1>5. /\ all \in Texts /\ Starts(h, all)
      /\ tg_len(all) = IF p = <<>> THEN tg_len(h) + tg_len(m) + 2
                       ELSE tg_len(h) + tg_len(p) + tg_len(m) + 4
  <2> HIDE DEF h, m, p
  <2> QED BY <1>1, ParagraphsText
<1>r. Room(o) = MaxTextLength - (tg_len(h) + tg_len(m) + 4)
  BY DEF Room
<1> HIDE DEF h, m, p, all
<1>6. ASSUME tg_len(h) + tg_len(m) + 2 <= MaxTextLength PROVE tg_len(all) <= MaxTextLength
  <2>1. CASE p = <<>>
    BY <1>5, <1>6, <2>1
  <2>2. CASE p # <<>>
    <3>1. Room(o) > 0
      BY <1>2, <1>4, <2>2
    <3>2. tg_len(p) <= MaxTextLength - (tg_len(h) + tg_len(m) + 4)
      BY <1>4, <1>r, <3>1
    <3>3. tg_len(all) = tg_len(h) + tg_len(p) + tg_len(m) + 4
      BY <1>5, <2>2
    <3> QED BY <1>2, <1>3, <1>4, <3>2, <3>3
  <2> QED BY <2>1, <2>2
<1>7. /\ text \in Texts
      /\ tg_len(text) <= MaxTextLength
      /\ tg_len(all) <= MaxTextLength => text = all
  <2>1. MaxTextLength >= 0
    BY <1>3
  <2> QED BY <1>3, <1>5, <2>1, Truncate
<1>8. NonBlank(text) # {}
  <2>1. CASE tg_len(all) <= MaxTextLength
    <3>1. Len(all) \in Nat /\ DOMAIN all = 1 .. Len(all) /\ Len(h) \in Nat
      BY <1>1, <1>5 DEF Texts
    <3>2. 1 \in 1 .. Len(h) /\ 1 \in 1 .. Len(all)
      BY <1>1, <1>5, <3>1 DEF Starts
    <3>3. all[1] = "emoji"
      BY <1>1, <1>5, <3>2 DEF Starts
    <3>4. 1 \in NonBlank(all)
      BY <3>1, <3>2, <3>3 DEF NonBlank, Blank
    <3> QED BY <1>7, <2>1, <3>4
  <2>2. CASE ~ (tg_len(all) <= MaxTextLength)
    <3>0. tg_len(all) \in Nat
      BY <1>5, Concatenation
    <3>1. tg_len(all) > MaxTextLength
      BY <1>3, <2>2, <3>0
    <3>2. PICK k \in 0 .. Len(all) : text = SubSeq(all, 1, k) \o Ellipsis
      BY <1>3, <1>5, <3>1, Cut
    <3> DEFINE x == SubSeq(all, 1, k)
    <3>3. x \in Texts
      BY <1>5, Prefix
    <3>4. Ellipsis \in Texts /\ Len(Ellipsis) = 1 /\ Ellipsis[1] = "..."
      BY Short DEF Ellipsis
    <3> HIDE DEF x
    <3>5. /\ Len(x \o Ellipsis) = Len(x) + Len(Ellipsis)
          /\ \A i \in 1 .. Len(Ellipsis) : (x \o Ellipsis)[Len(x) + i] = Ellipsis[i]
      BY <3>3, <3>4, Concatenation
    <3>6. Len(x) \in Nat /\ DOMAIN text = 1 .. Len(text)
      BY <1>7, <3>3 DEF Texts
    <3>7. text = x \o Ellipsis
      BY <3>2 DEF x
    <3>8. 1 \in 1 .. Len(Ellipsis) /\ Len(x) + 1 \in 1 .. Len(x) + 1
      BY <3>4, <3>6
    <3>9. Len(text) = Len(x) + 1 /\ text[Len(x) + 1] = "..."
      BY <3>4, <3>5, <3>7, <3>8
    <3>10. Len(x) + 1 \in NonBlank(text)
      <4> HIDE DEF text
      <4> QED BY <3>6, <3>8, <3>9 DEF NonBlank, Blank
    <3> QED BY <3>10
  <2> QED BY <2>1, <2>2
<1> QED BY <1>0, <1>6, <1>7, <1>8 DEF h, m, p, all

--------------------------------------------------------------------------------
(* The wire format *)

\* A name on the wire belongs to one field, and is the name of another in no case.
LEMMA Names ==
    ASSUME NEW f \in Fields, NEW g \in Fields
    PROVE  /\ alias(f) = alias(g) => f = g
           /\ alias(g) = f => g = f
           /\ FieldOf(alias(f)) = f
<1>1. ASSUME NEW x \in Fields, NEW y \in Fields, alias(x) = alias(y) PROVE x = y
  BY <1>1 DEF Fields, alias
<1>2. ASSUME alias(g) = f PROVE g = f
  BY <1>2 DEF Fields, alias
<1>3. FieldOf(alias(f)) = f
  <2>1. FieldOf(alias(f)) \in Fields /\ alias(FieldOf(alias(f))) = alias(f)
    BY DEF FieldOf
  <2> QED BY <1>1, <2>1
<1> QED BY <1>1, <1>2, <1>3

\* What the wire carries of a command gives the command back.
LEMMA RoundTrip ==
    ASSUME NEW c, c = [f \in Fields |-> c[f]]
    PROVE  parse(dump(c)) = c
<1> DEFINE D == {alias(f) : f \in {g \in Fields : c[g] # None}}
           wire == [name \in D |-> c[FieldOf(name)]]
<1>1. dump(c) = wire
  BY DEF dump
<1>2. ASSUME NEW f \in Fields, c[f] # None
      PROVE  alias(f) \in DOMAIN wire /\ wire[alias(f)] = c[f]
  <2>1. alias(f) \in D
    BY <1>2
  <2>2. FieldOf(alias(f)) = f
    BY Names
  <2> QED BY <2>1, <2>2
<1>3. ASSUME NEW f \in Fields, c[f] = None
      PROVE  alias(f) \notin DOMAIN wire /\ f \notin DOMAIN wire
  <2>1. DOMAIN wire = D
    OBVIOUS
  <2>2. alias(f) \notin D
    BY <1>3, Names
  <2>3. f \notin D
    BY <1>3, Names
  <2> QED BY <2>1, <2>2, <2>3
<1> HIDE DEF wire
<1>4. ASSUME NEW f \in Fields
      PROVE  (IF alias(f) \in DOMAIN wire THEN wire[alias(f)]
              ELSE IF f \in DOMAIN wire THEN wire[f] ELSE None) = c[f]
  BY <1>2, <1>3
<1>5. parse(wire) = [f \in Fields |-> c[f]]
  BY <1>4 DEF parse
<1> QED BY <1>1, <1>5

\* A notification as llm builds it is a command, its message is not None, and
\* notifications accepts that message.
LEMMA Command ==
    ASSUME NEW o \in Orders, NEW s \in Summaries
    PROVE  LET c == build_notification(o, s)
           IN  /\ DOMAIN c = Fields
               /\ c = [f \in Fields |-> c[f]]
               /\ c # None
               /\ dump(c) # None
               /\ DOMAIN dump(c) \subseteq {alias(f) : f \in Fields}
               /\ WellTyped(dump(c)) /\ Sendable(dump(c))
<1> DEFINE c == build_notification(o, s)
           V == Seq(Glyphs) \cup {"HTML"} \cup BOOLEAN \cup {None}
           A == {alias(f) : f \in Fields}
           D == {alias(f) : f \in {g \in Fields : c[g] # None}}
<1>1. DOMAIN c = Fields
  BY DEF build_notification, Fields
<1>2. c = [f \in Fields |-> c[f]]
  BY DEF build_notification, Fields
<1>3. c.text \in Texts
  BY BuiltText
<1>4. \A f \in Fields : c[f] \in V
  <2>1. /\ c["parse_mode"] = "HTML" /\ c["disable_notification"] = None
        /\ c["disable_web_page_preview"] = TRUE /\ c["message_thread_id"] = None
    BY DEF build_notification
  <2>2. c["text"] \in V
    BY <1>3 DEF Texts
  <2> HIDE DEF c
  <2>3. "HTML" \in V /\ TRUE \in V /\ None \in V
    <3>1. TRUE \in BOOLEAN
      BY Zenon
    <3> QED BY <3>1, Zenon
  <2> HIDE DEF V
  <2> QED BY <2>1, <2>2, <2>3 DEF Fields
<1>5. \A E \in SUBSET (Fields \cup A) : None \notin [E -> V]
  BY TextsAssumption DEF TextsAssumption
<1>6. c["text"] # None
  BY <1>3, TextsAssumption DEF TextsAssumption, Texts
<1> HIDE DEF c
<1>7. dump(c) = [name \in D |-> c[FieldOf(name)]]
  BY DEF dump
<1>8. D \subseteq A /\ "text" \in D /\ DOMAIN dump(c) = D
  <2>1. "text" \in Fields /\ alias("text") = "text"
    BY DEF Fields, alias
  <2> QED BY <1>6, <1>7, <2>1
<1>9. ASSUME NEW f \in Fields, c[f] # None PROVE dump(c)[alias(f)] = c[f]
  <2>1. alias(f) \in D /\ FieldOf(alias(f)) = f
    BY <1>9, Names
  <2> QED BY <1>7, <2>1
<1>10. c # None
  <2>1. c \in [Fields -> V]
    BY <1>2, <1>4
  <2> HIDE DEF V
  <2> QED BY <1>5, <2>1
<1>11. dump(c) # None
  <2>1. ASSUME NEW name \in D PROVE dump(c)[name] \in V
    <3>1. PICK f \in Fields : name = alias(f) /\ c[f] # None
      BY <2>1
    <3>2. dump(c)[name] = c[f]
      BY <1>9, <3>1
    <3> QED BY <1>4, <3>2
  <2> HIDE DEF V
  <2>2. dump(c) \in [D -> V]
    BY <1>7, <2>1
  <2> QED BY <1>5, <1>8, <2>2
<1>12. WellTyped(dump(c))
  <2>1. ASSUME NEW f \in Fields, alias(f) \in DOMAIN dump(c) PROVE dump(c)[alias(f)] # None
    <3>1. PICK g \in Fields : alias(f) = alias(g) /\ c[g] # None
      BY <1>8, <2>1
    <3>2. f = g
      BY <3>1, Names
    <3> QED BY <1>9, <3>1, <3>2
  <2> QED BY <1>8, <2>1 DEF WellTyped
<1>13. Sendable(dump(c))
  <2>1. dump(c)["text"] = c["text"]
    <3>1. "text" \in Fields /\ alias("text") = "text"
      BY DEF Fields, alias
    <3> QED BY <1>6, <1>9, <3>1
  <2>2. NonBlank(c["text"]) # {} /\ tg_len(c["text"]) <= MaxTextLength
    BY BuiltText DEF c
  <2> QED BY <2>1, <2>2 DEF Sendable
<1> QED BY <1>1, <1>2, <1>8, <1>10, <1>11, <1>12, <1>13 DEF c

--------------------------------------------------------------------------------
(* The journey *)

LEMMA Start == Init => JourneyOK
BY DEF Init, JourneyOK

LEMMA Step == JourneyOK /\ [Next]_vars => JourneyOK'
<1> SUFFICES ASSUME JourneyOK, [Next]_vars PROVE JourneyOK'
  OBVIOUS
<1>o. order \in Orders /\ summary \in Summaries
  BY DEF JourneyOK, Orders
<1>1. CASE PublishResult
  <2>1. order' = order /\ summary' = summary /\ stage' = "verdict" /\ accepted' = accepted
    BY <1>1 DEF PublishResult
  <2>2. built' = build_notification(order, summary) /\ message' = dump(built')
    BY <1>1 DEF PublishResult
  <2>3. accepted = None
    BY <1>1 DEF PublishResult, JourneyOK
  <2>4. build_notification(order', summary') = build_notification(order, summary)
    BY <2>1
  <2> QED BY <2>1, <2>2, <2>3, <2>4 DEF JourneyOK
<1>2. CASE Forward
  <2>1. /\ order' = order /\ summary' = summary /\ stage' = "notify"
        /\ accepted' = accepted /\ built' = built /\ message' = dump(parse(message))
    BY <1>2 DEF Forward
  <2>2. built = build_notification(order, summary) /\ message = dump(built) /\ accepted = None
    BY <1>2 DEF Forward, JourneyOK
  <2>3. parse(dump(built)) = built
    <3>1. built = [f \in Fields |-> built[f]]
      BY <1>o, <2>2, Command
    <3> QED BY <3>1, RoundTrip
  <2>4. message' = dump(built')
    BY <2>1, <2>2, <2>3
  <2>5. build_notification(order', summary') = build_notification(order, summary)
    BY <2>1
  <2> QED BY <2>1, <2>2, <2>4, <2>5 DEF JourneyOK
<1>3. CASE Receive
  <2>1. /\ order' = order /\ summary' = summary /\ stage' = "settled"
        /\ built' = built /\ message' = message
        /\ accepted' = IF WellTyped(message) /\ Sendable(message) THEN message ELSE None
    BY <1>3 DEF Receive
  <2>2. built = build_notification(order, summary) /\ message = dump(built)
    BY <1>3 DEF Receive, JourneyOK
  <2>3. WellTyped(message) /\ Sendable(message)
    BY <1>o, <2>2, Command
  <2>4. build_notification(order', summary') = build_notification(order, summary)
    BY <2>1
  <2>5. dump(built') = dump(built)
    BY <2>1
  <2> QED BY <2>1, <2>2, <2>3, <2>4, <2>5 DEF JourneyOK
<1>4. CASE UNCHANGED vars
  <2>1. /\ order' = order /\ summary' = summary /\ stage' = stage
        /\ built' = built /\ message' = message /\ accepted' = accepted
    BY <1>4 DEF vars
  <2>2. build_notification(order', summary') = build_notification(order, summary)
    BY <2>1
  <2>3. dump(built') = dump(built)
    BY <2>1
  <2> QED BY <2>1, <2>2, <2>3 DEF JourneyOK
<1> QED BY <1>1, <1>2, <1>3, <1>4 DEF Next

LEMMA Built ==
    ASSUME JourneyOK
    PROVE  /\ order \in Orders /\ summary \in Summaries
           /\ stage = "assessed" <=> built = None
           /\ built # None => built = build_notification(order, summary)
<1>1. order \in Orders /\ summary \in Summaries
  BY DEF JourneyOK, Orders
<1>2. build_notification(order, summary) # None
  BY <1>1, Command
<1> QED BY <1>1, <1>2 DEF JourneyOK

LEMMA Types == JourneyOK => TypeOK
<1> SUFFICES ASSUME JourneyOK PROVE TypeOK
  OBVIOUS
<1>1. order \in Orders /\ summary \in Summaries
  BY Built
<1>2. order.price \in Prices
  BY <1>1 DEF Orders
<1>3. built # None => DOMAIN built = Fields /\ ToSet(built.text) \subseteq Glyphs
  <2> SUFFICES ASSUME built # None PROVE DOMAIN built = Fields /\ ToSet(built.text) \subseteq Glyphs
    OBVIOUS
  <2>1. built = build_notification(order, summary)
    BY Built
  <2>2. DOMAIN built = Fields
    BY <1>1, <2>1, Command
  <2>3. built.text \in Texts
    BY <1>1, <2>1, BuiltText
  <2>4. ToSet(built.text) \subseteq Glyphs
    BY <2>3 DEF ToSet, Texts
  <2> QED BY <2>2, <2>4
<1>4. message # None => DOMAIN message \subseteq {alias(f) : f \in Fields}
  <2> SUFFICES ASSUME message # None PROVE DOMAIN message \subseteq {alias(f) : f \in Fields}
    OBVIOUS
  <2>1. message = dump(build_notification(order, summary))
    BY DEF JourneyOK
  <2> QED BY <1>1, <2>1, Command
<1> QED BY <1>2, <1>3, <1>4, Built DEF TypeOK, JourneyOK

\* Every message in flight, after either hop, is the command that llm built in its
\* wire format, and notifications refuses none of them.
THEOREM Invariance == Spec => []IndInv
<1>1. Init => JourneyOK
  BY Start
<1>2. JourneyOK /\ [Next]_vars => JourneyOK'
  BY Step
<1>3. JourneyOK => IndInv
  BY Types DEF IndInv
<1> QED BY <1>1, <1>2, <1>3, PTL DEF Spec

\* The journey's state has its type, and the text is made of characters.
THEOREM TypeCorrect == Spec => []TypeOK
<1>1. IndInv => TypeOK
  BY DEF IndInv
<1> QED BY <1>1, Invariance, PTL

\* Whatever the order and the summary hold, of any length, notifications accepts
\* the message and sees every field as llm set it: neither order-core's parsing by
\* alias or by name nor its dump without nulls loses or renames one.
THEOREM Intact == Spec => []ForwardedIntact
<1>1. JourneyOK => ForwardedIntact
  <2> SUFFICES ASSUME JourneyOK, stage = "settled" PROVE accepted # None /\ parse(accepted) = built
    BY DEF ForwardedIntact
  <2>1. order \in Orders /\ summary \in Summaries
    BY Built
  <2>2. built = build_notification(order, summary) /\ accepted = dump(built)
    BY DEF JourneyOK
  <2>3. built = [f \in Fields |-> built[f]] /\ dump(built) # None
    BY <2>1, <2>2, Command
  <2>4. parse(dump(built)) = built
    BY <2>3, RoundTrip
  <2> QED BY <2>2, <2>3, <2>4
<1>2. IndInv => JourneyOK
  BY DEF IndInv
<1> QED BY <1>1, <1>2, Invariance, PTL

\* The text is within the limit of Telegram in UTF-16 units, and header and score
\* line are whole in it whenever the two fit together.
THEOREM Fits == Spec => []FitsWithHeaderAndScore
<1>1. JourneyOK => FitsWithHeaderAndScore
  <2> DEFINE h == header(order)
             m == meta(order)
             p == SummaryPart(order, summary)
  <2> SUFFICES ASSUME JourneyOK, built # None
               PROVE  /\ tg_len(built.text) <= MaxTextLength
                      /\ tg_len(h \o Separator \o m) <= MaxTextLength =>
                             IsPrefix(h, built.text) /\ IsSuffix(m, built.text)
    BY DEF FitsWithHeaderAndScore
  <2>1. order \in Orders /\ summary \in Summaries /\ built = build_notification(order, summary)
    BY Built
  <2>2. h \in Texts /\ m \in Texts /\ p \in Texts
    BY <2>1, HeaderText, MetaText, SummaryText
  <2>3. /\ tg_len(built.text) <= MaxTextLength /\ built.text \in Texts
        /\ tg_len(h) + tg_len(m) + 2 <= MaxTextLength => built.text = Paragraphs(h, p, m)
    BY <2>1, BuiltText
  <2> HIDE DEF h, m, p
  <2>4. tg_len(h \o Separator \o m) = tg_len(h) + tg_len(m) + 2
    <3>1. Paragraphs(h, <<>>, m) = h \o Separator \o m
      BY DEF Paragraphs
    <3>2. <<>> \in Texts
      BY Short
    <3>3. tg_len(Paragraphs(h, <<>>, m)) = tg_len(h) + tg_len(m) + 2
      BY <2>2, <3>2, ParagraphsText
    <3> QED BY <3>1, <3>3
  <2>5. Starts(h, Paragraphs(h, p, m)) /\ IsSuffix(m, Paragraphs(h, p, m))
    BY <2>2, ParagraphsText
  <2>6. ASSUME tg_len(h \o Separator \o m) <= MaxTextLength
        PROVE  IsPrefix(h, built.text) /\ IsSuffix(m, built.text)
    <3>1. built.text = Paragraphs(h, p, m)
      BY <2>3, <2>4, <2>6
    <3> QED BY <2>2, <2>3, <2>5, <3>1, StartsIsPrefix
  <2> QED BY <2>3, <2>6
<1>2. IndInv => JourneyOK
  BY DEF IndInv
<1> QED BY <1>1, <1>2, Invariance, PTL

--------------------------------------------------------------------------------
(* How much of the summary is kept *)

LEMMA CutText ==
    ASSUME NEW w \in Texts, NEW j \in 0 .. Len(w)
    PROVE  /\ SubSeq(w, 1, j) \o Ellipsis \in Texts
           /\ Len(SubSeq(w, 1, j) \o Ellipsis) = j + 1
           /\ tg_len(SubSeq(w, 1, j) \o Ellipsis) = Used(w)[j] + 1
           /\ Used(w)[j] \in Nat
           /\ SubSeq(w, 1, j) \o Ellipsis # <<>>
<1> DEFINE x == SubSeq(w, 1, j)
<1>1. x \in Texts /\ Len(x) = j /\ tg_len(x) = Used(w)[j]
  BY Prefix
<1>2. Ellipsis \in Texts /\ tg_len(Ellipsis) = 1 /\ Len(Ellipsis) = 1
  BY Short
<1>3. Used(w)[j] \in Nat /\ j \in Nat
  BY UsedFacts DEF Texts
<1> HIDE DEF x
<1>4. /\ x \o Ellipsis \in Texts
      /\ Len(x \o Ellipsis) = Len(x) + Len(Ellipsis)
      /\ tg_len(x \o Ellipsis) = tg_len(x) + tg_len(Ellipsis)
  BY <1>1, <1>2, Concatenation
<1>5. Len(x \o Ellipsis) = j + 1
  BY <1>1, <1>2, <1>4
<1>6. x \o Ellipsis # <<>>
  <2>1. Len(<<>>) = 0
    OBVIOUS
  <2> QED BY <1>3, <1>5, <2>1
<1> QED BY <1>1, <1>2, <1>3, <1>4, <1>5, <1>6 DEF x

LEMMA NotEmpty == ASSUME NEW t \in Texts, t # <<>> PROVE tg_len(t) >= 1
<1>1. Len(t) \in Nat /\ Len(t) # 0
  BY DEF Texts
<1>2. 0 \in 0 .. Len(t) /\ Len(t) \in 0 .. Len(t) /\ 0 <= Len(t)
  BY <1>1
<1>3. Used(t)[0] + (Len(t) - 0) <= Used(t)[Len(t)]
  BY <1>2, UsedGrows
<1>4. Used(t)[0] = 0 /\ Used(t)[Len(t)] \in Nat
  BY <1>2, UsedFacts
<1> QED BY <1>1, <1>3, <1>4 DEF tg_len

\* Of the cuts of a text that leave at most l units, _truncate makes the longest.
LEMMA LongestCut ==
    ASSUME NEW w \in Texts, NEW l \in Int, l > 0, tg_len(w) > l
    PROVE  LET Cuts    == {rstrip(SubSeq(w, 1, k)) \o Ellipsis : k \in 0 .. Len(w)}
               Fitting == {p \in Cuts : tg_len(p) <= l}
           IN  /\ truncate(w, l) \in Fitting
               /\ \A q \in Fitting : Len(q) <= Len(truncate(w, l))
               /\ \A q \in Fitting : Len(truncate(w, l)) <= Len(q) => q = truncate(w, l)
<1> DEFINE Cuts    == {rstrip(SubSeq(w, 1, k)) \o Ellipsis : k \in 0 .. Len(w)}
           Fitting == {p \in Cuts : tg_len(p) <= l}
           x == truncate(w, l)
<1>1. PICK n \in 0 .. Len(w), m \in 0 .. Len(w) :
               /\ m <= n /\ n < Len(w)
               /\ rstrip(SubSeq(w, 1, n)) = SubSeq(w, 1, m)
               /\ truncate(w, l) = SubSeq(w, 1, m) \o Ellipsis
               /\ Used(w)[m] <= l - 1
               /\ Used(w)[n + 1] > l - 1
               /\ \A i \in m + 1 .. n : w[i] \in Blank
  BY Cut
<1>n. Len(w) \in Nat /\ n \in Nat /\ m \in Nat
  BY DEF Texts
<1>2. Len(x) = m + 1 /\ tg_len(x) = Used(w)[m] + 1 /\ Used(w)[m] \in Nat
  BY <1>1, CutText
<1>3. x \in Fitting
  <2>1. x \in Cuts
    BY <1>1
  <2>2. tg_len(x) <= l
    BY <1>1, <1>2
  <2> HIDE DEF x, Cuts
  <2> QED BY <2>1, <2>2
<1>4. ASSUME NEW q \in Fitting PROVE Len(q) <= Len(x) /\ (Len(x) <= Len(q) => q = x)
  <2>1. PICK k \in 0 .. Len(w) : q = rstrip(SubSeq(w, 1, k)) \o Ellipsis
    BY <1>4
  <2>2. tg_len(q) <= l
    BY <1>4
  <2> HIDE DEF x, Fitting
  <2>3. PICK j \in 0 .. Len(w) : /\ rstrip(SubSeq(w, 1, k)) = SubSeq(w, 1, j)
                                 /\ j = 0 \/ w[j] \notin Blank
    BY CutBehind
  <2>4. q = SubSeq(w, 1, j) \o Ellipsis
    BY <2>1, <2>3
  <2>5. Len(q) = j + 1 /\ tg_len(q) = Used(w)[j] + 1 /\ Used(w)[j] \in Nat /\ j \in Nat
    BY <2>4, CutText DEF Texts
  <2>6. j <= n
    <3> SUFFICES ASSUME ~ (j <= n) PROVE FALSE
      OBVIOUS
    <3>1. n + 1 \in 0 .. Len(w) /\ n + 1 <= j
      BY <1>n, <1>1, <2>5
    <3>2. Used(w)[n + 1] + (j - (n + 1)) <= Used(w)[j]
      BY <3>1, UsedGrows
    <3>3. Used(w)[n + 1] \in Nat
      BY <3>1, UsedFacts
    <3> QED BY <1>n, <1>1, <2>2, <2>5, <3>1, <3>2, <3>3
  <2>7. j <= m
    BY <1>n, <1>1, <2>3, <2>5, <2>6
  <2>8. j = m => q = x
    BY <1>1, <2>4 DEF x
  <2> QED BY <1>n, <1>2, <2>5, <2>7, <2>8
<1> HIDE DEF x, Fitting, Cuts
<1>5. /\ \A q \in Fitting : Len(q) <= Len(x)
      /\ \A q \in Fitting : Len(x) <= Len(q) => q = x
  BY <1>4
<1> QED BY <1>3, <1>5 DEF x, Fitting, Cuts

\* Whatever the order, the summary and the limit: the summary is whole if that fits,
\* and otherwise cut as far back as necessary and no further.
THEOREM CutLittle == Spec => []SummaryCutAsLittleAsPossible
<1>1. JourneyOK => SummaryCutAsLittleAsPossible
  <2> DEFINE h       == header(order)
             m       == meta(order)
             w       == escape(strip(summary))
             r       == Room(order)
             x       == SummaryPart(order, summary)
             With(p) == Paragraphs(h, p, m)
             Cuts    == {rstrip(SubSeq(w, 1, k)) \o Ellipsis : k \in 0 .. Len(w)}
             Fitting == {p \in Cuts : tg_len(With(p)) <= MaxTextLength}
             Longest == CHOOSE p \in Fitting : \A q \in Fitting : Len(q) <= Len(p)
             Expect  == IF tg_len(With(w)) <= MaxTextLength THEN With(w)
                        ELSE IF Fitting = {} THEN With(<<>>) ELSE With(Longest)
  <2> SUFFICES ASSUME JourneyOK, built # None, tg_len(With(<<>>)) <= MaxTextLength
               PROVE  built.text = Expect
    BY DEF SummaryCutAsLittleAsPossible
  <2>1. order \in Orders /\ summary \in Summaries /\ built = build_notification(order, summary)
    BY Built
  <2>2. h \in Texts /\ m \in Texts
    BY <2>1, HeaderText, MetaText
  <2>3. /\ tg_len(h) \in Nat /\ tg_len(m) \in Nat /\ r \in Int /\ w \in Texts
        /\ x = truncate(w, r)
    BY <2>1, SummaryText
  <2>4. MaxTextLength \in Nat /\ r = MaxTextLength - (tg_len(h) + tg_len(m) + 4)
    BY Constants DEF Room
  <2>5. tg_len(h) + tg_len(m) + 2 <= MaxTextLength => built.text = With(x)
    BY <2>1, BuiltText
  <2> HIDE DEF h, m, w, r, x
  <2>6. /\ tg_len(With(<<>>)) = tg_len(h) + tg_len(m) + 2
        /\ \A p \in Texts : p # <<>> =>
               tg_len(With(p)) = tg_len(h) + tg_len(p) + tg_len(m) + 4
    <3>1. <<>> \in Texts
      BY Short
    <3>2. tg_len(With(<<>>)) = tg_len(h) + tg_len(m) + 2
      BY <2>2, <3>1, ParagraphsText
    <3>3. ASSUME NEW p \in Texts, p # <<>>
          PROVE  tg_len(With(p)) = tg_len(h) + tg_len(p) + tg_len(m) + 4
      BY <2>2, <3>3, ParagraphsText
    <3> QED BY <3>2, <3>3
  <2>7. built.text = With(x)
    BY <2>5, <2>6
  <2> HIDE DEF With
  <2>8. ASSUME NEW p \in Texts, p # <<>> PROVE tg_len(With(p)) <= MaxTextLength <=> tg_len(p) <= r
    <3>1. tg_len(p) \in Nat
      BY Concatenation
    <3>2. tg_len(With(p)) = tg_len(h) + tg_len(p) + tg_len(m) + 4
      BY <2>6, <2>8
    <3> QED BY <2>3, <2>4, <3>1, <3>2
  <2>9. tg_len(w) \in Nat /\ (w = <<>> => tg_len(w) = 0) /\ (w # <<>> => tg_len(w) >= 1)
    BY <2>3, Concatenation, NotEmpty, Short
  <2>10. /\ r <= 0 => x = <<>>
         /\ r > 0 /\ tg_len(w) <= r => x = w
    BY <2>3, Truncate
  <2>11. CASE tg_len(With(w)) <= MaxTextLength
    <3>1. x = w
      <4>1. CASE w = <<>>
        BY <2>3, <2>9, <2>10, <4>1
      <4>2. CASE w # <<>>
        BY <2>3, <2>8, <2>9, <2>10, <2>11, <4>2
      <4> QED BY <4>1, <4>2
    <3> QED BY <2>7, <2>11, <3>1
  <2>12. CASE ~ (tg_len(With(w)) <= MaxTextLength)
    <3>1. w # <<>>
      BY <2>12
    <3>2. tg_len(w) > r
      BY <2>3, <2>8, <2>9, <2>12, <3>1
    <3>3. ASSUME NEW p \in Cuts PROVE p \in Texts /\ p # <<>> /\ tg_len(p) >= 1 /\ tg_len(p) \in Nat
      <4>1. PICK k \in 0 .. Len(w) : p = rstrip(SubSeq(w, 1, k)) \o Ellipsis
        BY <3>3
      <4>2. PICK j \in 0 .. Len(w) : rstrip(SubSeq(w, 1, k)) = SubSeq(w, 1, j)
        BY <2>3, CutBehind
      <4>3. p = SubSeq(w, 1, j) \o Ellipsis
        BY <4>1, <4>2
      <4>4. p \in Texts /\ p # <<>>
        BY <2>3, <4>3, CutText
      <4> HIDE DEF Cuts
      <4> QED BY <4>4, NotEmpty, Concatenation
    <3> DEFINE Within == {p \in Cuts : tg_len(p) <= r}
    <3>4. Fitting = Within
      <4> HIDE DEF Cuts
      <4> QED BY <2>8, <3>3
    <3>5. CASE r <= 0
      <4>1. Fitting = {}
        <5> HIDE DEF Cuts, Fitting
        <5>1. ASSUME NEW p \in Within PROVE FALSE
          BY <2>3, <3>3, <3>5, <5>1
        <5> QED BY <3>4, <5>1
      <4>2. x = <<>>
        BY <2>10, <3>5
      <4> HIDE DEF Fitting
      <4> QED BY <2>7, <2>12, <4>1, <4>2
    <3>6. CASE ~ (r <= 0)
      <4>1. /\ truncate(w, r) \in Within
            /\ \A q \in Within : Len(q) <= Len(truncate(w, r))
            /\ \A q \in Within : Len(truncate(w, r)) <= Len(q) => q = truncate(w, r)
        <5>1. r > 0
          BY <2>3, <3>6
        <5> QED BY <2>3, <3>2, <5>1, LongestCut
      <4> HIDE DEF Within, Fitting
      <4>2. /\ x \in Fitting
            /\ \A q \in Fitting : Len(q) <= Len(x)
            /\ \A q \in Fitting : Len(x) <= Len(q) => q = x
        BY <2>3, <3>4, <4>1
      <4>3. Longest \in Fitting /\ \A q \in Fitting : Len(q) <= Len(Longest)
        BY <4>2
      <4>4. Longest = x
        <5> HIDE DEF Longest
        <5> QED BY <4>2, <4>3
      <4> HIDE DEF Longest
      <4> QED BY <2>7, <2>12, <4>2, <4>4
    <3> QED BY <3>5, <3>6
  <2> QED BY <2>11, <2>12
<1>2. IndInv => JourneyOK
  BY DEF IndInv
<1> QED BY <1>1, <1>2, Invariance, PTL

================================================================================
